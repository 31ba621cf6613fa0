--------------------------- MODULE SessionProofs ---------------------------
(***************************************************************************)
(* Proofs about DebugSession, for any set of processes, any number of      *)
(* requests and whatever the user does.                                    *)
(***************************************************************************)
EXTENDS DebugSession, TLAPS

\* What keeps the counters from going below zero: an unload thread, like a Victim object, is
\* there only as long as the module is loaded, the destructor runs in an unload thread, and a
\* node is pending for a victim that has yet to come online.
ProcessInv ==
    \A p \in Pids :
        /\ unload[p] > 0 => refs[p] > 0
        /\ inst[p] # "none" => refs[p] > 0
        /\ inst[p] \in {"rundown", "leaving"} => unload[p] > 0
        /\ Alive /\ inst[p] = "starting" => pending[p] > 0

\* Every request that was made names a process.
RequestInv == \A r \in Reqs : ~At(r, "idle") => req[r].pid \in Pids

TypeInv == TypeOK /\ ProcessInv /\ RequestInv

\* ReadyIsListed, said of the monitor: the one of a victim the client believes in still runs.
ReadyIsWatched ==
    \A p \in Pids : Connected /\ ClientReady /\ VictimReady(p) =>
        mon[p] \notin {"none", "check", "done"}

Request == [op : Ops, pid : Pids \cup {NoPid}, pc : Steps, by : Pids \cup {NoPid}, told : Prompts]

----------------------------------------------------------------------------
(* Requests.                                                               *)

LEMMA RequestFacts ==
    ASSUME NEW q \in [Reqs -> Request]
    PROVE  /\ \A r \in Reqs, pc \in Steps : [q EXCEPT ![r].pc = pc] \in [Reqs -> Request]
           /\ \A r \in Reqs, pc \in Steps, told \in Prompts :
                 [q EXCEPT ![r].pc = pc, ![r].told = told] \in [Reqs -> Request]
  BY DEF Request

LEMMA RequestEnded ==
    ASSUME NEW q \in [Reqs -> Request], NEW r \in Reqs, NEW pc \in Steps, NEW told \in Prompts
    PROVE  [q EXCEPT ![r].pc = pc, ![r].by = NoPid, ![r].told = told] \in [Reqs -> Request]
<1>1. NoPid \in Pids \cup {NoPid}
  OBVIOUS
<1> QED BY <1>1 DEF Request

LEMMA ToldType ==
    ASSUME req \in [Reqs -> Request], NEW p \in Pids, NEW told \in Prompts
    PROVE  Told(p, told) \in [Reqs -> Request]
  BY DEF Request, Told

LEMMA ErasedType ==
    ASSUME req \in [Reqs -> Request], NEW p \in Pids
    PROVE  Erased(p) \in [Reqs -> Request]
  BY DEF Request, Erased, Steps, Serving

LEMMA CrashType ==
    ASSUME TypeOK, NEW how \in Fates, Crash(how), UNCHANGED <<clientVars, events>>
    PROVE  TypeOK'
<1>1. req' \in [Reqs -> Request]
  <2>1. "raised" \in Steps /\ req \in [Reqs -> Request]
    BY DEF TypeOK, ServerTypeOK, Request, Steps
  <2>2. \A r \in Reqs : req'[r] \in {req[r], [req[r] EXCEPT !.pc = "raised"]}
    BY DEF Crash
  <2>3. ASSUME NEW r \in Reqs PROVE [req[r] EXCEPT !.pc = "raised"] \in Request
    BY <2>1 DEF Request
  <2>4. req' = [r \in Reqs |-> req'[r]]
    BY DEF Crash
  <2> QED
    BY <2>1, <2>2, <2>3, <2>4
<1>2. /\ fate' \in Fates
      /\ vic' \in [Pids -> {"out", "in", "ending"}]
      /\ pending' \in [Pids -> Nat]
      /\ mon' \in [Pids -> Monitors]
      /\ first' \in [Pids -> BOOLEAN]
      /\ offline' \in [Pids -> Nat]
      /\ main' \in Mains
      /\ todo' \in SUBSET Pids
      /\ ctrl' \in Nat
      /\ link' \in {"up", "down", "wedged"}
  BY DEF TypeOK, ServerTypeOK, Crash, All, Monitors
<1>3. ServerTypeOK'
  BY <1>1, <1>2 DEF ServerTypeOK, Request
<1>4. ProcessTypeOK'
  BY DEF TypeOK, ProcessTypeOK, Crash, processVars
<1> QED
  BY <1>3, <1>4 DEF TypeOK, clientVars

----------------------------------------------------------------------------
(* Types.                                                                  *)

\* The requests of a state that is typed, and the rest.
RestOK ==
    /\ ProcessTypeOK
    /\ fate \in Fates
    /\ vic \in [Pids -> {"out", "in", "ending"}]
    /\ pending \in [Pids -> Nat]
    /\ mon \in [Pids -> Monitors]
    /\ first \in [Pids -> BOOLEAN]
    /\ offline \in [Pids -> Nat]
    /\ main \in Mains
    /\ todo \in SUBSET Pids
    /\ ctrl \in Nat
    /\ link \in {"up", "down", "wedged"}
    /\ crec \in [Pids -> {"none", "new", "ready", "going"}]
    /\ closing \in {"no", "called", "event", "lost", "closed", "raised"}
    /\ closeEvt \in BOOLEAN
    /\ events \in 0 .. MaxEvents

LEMMA TypeParts == TypeOK <=> RestOK /\ req \in [Reqs -> Request]
  BY DEF TypeOK, ServerTypeOK, RestOK, Request

LEMMA TypePartsPrime == TypeOK' <=> RestOK' /\ req' \in [Reqs -> Request]
  BY DEF TypeOK, ServerTypeOK, RestOK, Request

LEMMA VictimTyped ==
    ASSUME TypeInv, NEW p \in Pids, VictimStep(p), UNCHANGED events
    PROVE  TypeOK'
<1> USE DEF RestOK, ProcessTypeOK, tableVars, mainVars, serverVars, clientVars, processVars
<1>0. RestOK /\ req \in [Reqs -> Request] /\ ProcessInv
  BY TypeParts DEF TypeInv
<1>1. CASE Online(p) /\ UNCHANGED clientVars
  <2>1. pending[p] > 0
    BY <1>0, <1>1 DEF Online, OnlineBegin, ProcessInv
  <2> QED BY <1>0, <1>1, <2>1, TypePartsPrime DEF Online, OnlineBegin, Instances, Monitors
<1>2. CASE OnlineFails(p) /\ UNCHANGED clientVars
  <2>1. pending[p] > 0
    BY <1>0, <1>2 DEF OnlineFails, OnlineBegin, ProcessInv
  <2> QED BY <1>0, <1>2, <2>1, TypePartsPrime DEF OnlineFails, OnlineBegin, Die, Instances, Lives
<1>3. CASE VictimOffline(p) /\ UNCHANGED clientVars
  BY <1>0, <1>3, TypePartsPrime DEF VictimOffline, Offlined, StartOffline, Instances
<1>4. CASE Alive /\ Rundown(p) /\ UNCHANGED <<serverVars, clientVars>>
  BY <1>0, <1>4, TypePartsPrime DEF Rundown, Instances
<1>5. ASSUME NEW instance \in Instances, Release(p, instance), refs[p] > 0, unload[p] > 0,
             UNCHANGED <<serverVars, clientVars>>
      PROVE  TypeOK'
  BY <1>0, <1>5, TypePartsPrime DEF Release, Die, Instances, Lives
<1>6. CASE Alive /\ Unloaded(p) /\ UNCHANGED <<serverVars, clientVars>>
  BY <1>0, <1>5, <1>6 DEF Unloaded, ProcessInv, Instances
<1>7. CASE Alive /\ UnloadAgain(p) /\ UNCHANGED <<serverVars, clientVars>>
  <2>1. unload[p] > 0 /\ refs[p] > 0
    BY <1>0, <1>7 DEF UnloadAgain, Surplus, ProcessInv
  <2>2. inst[p] \in Instances
    BY <1>0
  <2> QED BY <1>5, <1>7, <2>1, <2>2 DEF UnloadAgain
<1> QED BY <1>1, <1>2, <1>3, <1>4, <1>6, <1>7 DEF VictimStep

LEMMA OfflineTyped ==
    ASSUME TypeInv, NEW p \in Pids, OfflineStep(p), UNCHANGED events
    PROVE  TypeOK'
<1> USE DEF RestOK, ProcessTypeOK, tableVars, mainVars, serverVars, clientVars, processVars
<1>0. TypeOK /\ RestOK /\ req \in [Reqs -> Request]
  BY TypeParts DEF TypeInv
<1>1. CASE OfflineLock(p) /\ UNCHANGED clientVars
  BY <1>0, <1>1, TypePartsPrime DEF OfflineLock
<1>2. CASE OfflineErase(p) /\ UNCHANGED clientVars
  BY <1>0, <1>2, TypePartsPrime, ErasedType DEF OfflineErase, Monitors
<1>3. CASE (OfflineTwice(p) \/ ServerGone(p)) /\ UNCHANGED clientVars
  BY <1>0, <1>3, CrashType DEF OfflineTwice, ServerGone, Fates
<1> QED BY <1>1, <1>2, <1>3 DEF OfflineStep

LEMMA MonitorTyped ==
    ASSUME TypeInv, NEW p \in Pids, MonitorStep(p), UNCHANGED events
    PROVE  TypeOK'
<1> USE DEF RestOK, ProcessTypeOK, tableVars, mainVars, serverVars, clientVars, processVars
<1>0. TypeOK /\ RestOK /\ req \in [Reqs -> Request]
  BY TypeParts DEF TypeInv
<1>1. ASSUME NEW pc \in Monitors, MonitorTo(p, pc), MonitorUnchanged,
             UNCHANGED <<offline, clientVars>>
      PROVE  TypeOK'
  BY <1>0, <1>1, TypePartsPrime DEF MonitorTo, MonitorUnchanged
<1>2. ASSUME \/ MonitorListen(p) \/ MonitorStopped(p) \/ MonitorFails(p) \/ MonitorNotify(p)
             \/ MonitorNotifyFails(p) \/ MonitorOffline(p) \/ MonitorOfflineFails(p),
             UNCHANGED clientVars
      PROVE  TypeOK'
  <2>1. PICK pc \in Monitors : MonitorTo(p, pc) /\ MonitorUnchanged /\ UNCHANGED offline
    BY <1>2 DEF MonitorListen, MonitorStopped, MonitorFails, MonitorNotify, MonitorNotifyFails,
       MonitorOffline, MonitorOfflineFails, Monitors
  <2> QED BY <1>1, <1>2, <2>1
<1>3. CASE (MonitorRpcGone(p) \/ MonitorNodeGone(p)) /\ UNCHANGED clientVars
  BY <1>0, <1>3, CrashType DEF MonitorRpcGone, MonitorNodeGone, Fates
<1>4. CASE MonitorResume(p) /\ UNCHANGED clientVars
  BY <1>0, <1>4, TypePartsPrime DEF MonitorResume, MonitorTo, Monitors
<1>5. CASE MonitorCheck(p) /\ UNCHANGED clientVars
  BY <1>0, <1>5, TypePartsPrime DEF MonitorCheck, MonitorUnchanged, MonitorTo, StartOffline, Monitors
<1>6. CASE NotifyRaises(p) \/ NotifyAnswers(p)
  BY <1>0, <1>1, <1>6 DEF NotifyRaises, NotifyAnswers, Monitors
<1>7. CASE NotifyArrives(p)
  BY <1>0, <1>7, TypePartsPrime DEF NotifyArrives, MonitorTo, MonitorUnchanged, Marked, Monitors
<1>8. CASE ClientOffline(p)
  BY <1>0, <1>8, TypePartsPrime, ToldType DEF ClientOffline, MonitorTo, Monitors, Prompts
<1> QED BY <1>2, <1>3, <1>4, <1>5, <1>6, <1>7, <1>8 DEF MonitorStep

LEMMA RequestTyped ==
    ASSUME TypeInv, NEW r \in Reqs, RequestStep(r), UNCHANGED events
    PROVE  TypeOK'
<1> USE DEF RestOK, ProcessTypeOK, tableVars, mainVars, serverVars, clientVars, processVars
<1>0. TypeOK /\ RestOK /\ req \in [Reqs -> Request] /\ RequestInv
  BY TypeParts DEF TypeInv
<1> DEFINE p == req[r].pid
<1>1. ASSUME req' \in [Reqs -> Request], RequestUnchanged, UNCHANGED <<pending, processVars, clientVars>>
      PROVE  TypeOK'
  BY <1>0, <1>1, TypePartsPrime DEF RequestUnchanged
<1>2. ASSUME NEW pc \in Steps, Goto(r, pc)
      PROVE  req' \in [Reqs -> Request]
  BY <1>0, <1>2, RequestFacts DEF Goto
<1>3. ASSUME \/ ServeRefused(r) \/ ServeEntered(r) \/ ServeLeft(r) \/ ServeUse(r) \/ ServeNoVictim(r)
             \/ ServeEval(r) \/ Evaluate(r) \/ ServeInput(r) \/ InputExecute(r) \/ InputOutput(r)
             \/ InputExecuted(r) \/ InputReleased(r),
             UNCHANGED clientVars
      PROVE  TypeOK'
  <2>1. RequestUnchanged /\ UNCHANGED <<pending, processVars>> /\ \E pc \in Steps : Goto(r, pc)
    BY <1>3 DEF ServeRefused, ServeEntered, ServeLeft, ServeUse, ServeNoVictim, ServeEval, Evaluate,
       ServeInput, InputExecute, InputOutput, InputExecuted, InputReleased, Steps, Serving
  <2> QED BY <1>1, <1>2, <1>3, <2>1
<1>4. CASE (InputNodeGone(r) \/ InputVictimGone(r)) /\ UNCHANGED clientVars
  BY <1>0, <1>4, CrashType DEF InputNodeGone, InputVictimGone, Fates
<1>5. ASSUME ServeAttach(r) \/ ServeLaunch(r), UNCHANGED clientVars
      PROVE  TypeOK'
  <2>1. p \in Pids
    BY <1>0, <1>5 DEF ServeAttach, ServeLaunch, Serve, At, RequestInv
  <2>2. req' \in [Reqs -> Request]
    BY <1>2, <1>5 DEF ServeAttach, ServeLaunch, Steps, Serving
  <2>3. inst' \in [Pids -> Instances] /\ refs' \in [Pids -> Nat] /\ pending' \in [Pids -> Nat]
    BY <1>0, <1>5, <2>1 DEF ServeAttach, ServeLaunch, LoadModule, InstanceLoaded, NodePending, Instances
  <2> QED
    BY <1>0, <1>5, <2>1, <2>2, <2>3, TypePartsPrime
    DEF ServeAttach, ServeLaunch, RequestUnchanged, Lives
<1>6. CASE ServeKill(r) /\ UNCHANGED clientVars
  <2>1. req' \in [Reqs -> Request]
    BY <1>2, <1>6 DEF ServeKill, Steps, Serving
  <2> QED BY <1>0, <1>6, <2>1, TypePartsPrime DEF ServeKill, Die, RequestUnchanged, Lives, Instances
<1>7. CASE ServeDetach(r) /\ UNCHANGED clientVars
  <2>1. req' \in [Reqs -> Request]
    BY <1>2, <1>7 DEF ServeDetach, Steps, Serving
  <2>2. p \in Pids
    BY <1>0, <1>7 DEF ServeDetach, Serve, At, RequestInv
  <2> QED BY <1>0, <1>7, <2>1, <2>2, TypePartsPrime DEF ServeDetach, StartUnload, RequestUnchanged
<1>8. ASSUME NEW heard \in BOOLEAN, InputPrompt(r, heard), UNCHANGED clientVars
      PROVE  TypeOK'
  <2>1. p \in Pids
    BY <1>0, <1>8 DEF InputPrompt, At, RequestInv
  <2>2. {"answer", "error"} \subseteq Steps /\ {"yes", "busy"} \subseteq Prompts
    BY DEF Steps, Prompts
  <2>3. Told(p, "yes") \in [Reqs -> Request]
    BY <1>0, <2>1, <2>2, ToldType
  <2> DEFINE told == IF req[r].told = "no" THEN "busy" ELSE req[r].told
  <2>4. r \in DOMAIN req /\ told \in Prompts
    BY <1>0, <2>2 DEF Request
  <2>5. \/ \E pc \in {"answer", "error"} :
             \/ req' = [req EXCEPT ![r].pc = pc]
             \/ req' = [Told(p, "yes") EXCEPT ![r].pc = pc]
             \/ req' = [req EXCEPT ![r].pc = pc, ![r].told = told]
    BY <1>8 DEF InputPrompt, Goto
  <2>6. req' \in [Reqs -> Request]
    <3>1. ASSUME NEW pc \in {"answer", "error"}
          PROVE  /\ [req EXCEPT ![r].pc = pc] \in [Reqs -> Request]
                 /\ [Told(p, "yes") EXCEPT ![r].pc = pc] \in [Reqs -> Request]
                 /\ [req EXCEPT ![r].pc = pc, ![r].told = told] \in [Reqs -> Request]
      <4>1. pc \in Steps
        BY <2>2
      <4> HIDE DEF told
      <4> QED BY <1>0, <2>3, <2>4, <4>1, RequestFacts
    <3> QED BY <2>5, <3>1
  <2> QED BY <1>1, <1>8, <2>6 DEF InputPrompt
<1>9. ASSUME NEW pc \in Steps, NEW told \in Prompts,
             \/ req' = [req EXCEPT ![r].pc = pc, ![r].by = NoPid, ![r].told = told]
             \/ Goto(r, pc),
             UNCHANGED <<fate, tableVars, mainVars, processVars, clientVars>>
      PROVE  TypeOK'
  <2>1. req' \in [Reqs -> Request]
    <3>1. CASE Goto(r, pc)
      BY <1>2, <3>1
    <3>2. CASE req' = [req EXCEPT ![r].pc = pc, ![r].by = NoPid, ![r].told = told]
      BY <1>0, <3>2, RequestEnded
    <3> QED BY <1>9, <3>1, <3>2
  <2> QED BY <1>0, <1>9, <2>1, TypePartsPrime
<1>10. CASE ClientAnswer(r) \/ ClientRaises(r) \/ ClientPrompted(r) \/ ClientGone(r)
  <2>1. {"gone", "done", "silent", "raised", "mute"} \subseteq Steps /\ "no" \in Prompts
    BY DEF Steps, Prompts
  <2>2. /\ UNCHANGED <<fate, tableVars, mainVars, processVars, clientVars>>
        /\ \E pc \in Steps : Goto(r, pc) \/ RequestEnds(r, pc)
    BY <1>10, <2>1 DEF ClientAnswer, ClientRaises, ClientPrompted, ClientGone, RequestEnds
  <2> QED BY <1>9, <2>1, <2>2 DEF RequestEnds
<1>11. CASE ClientNew(r)
  <2>1. p \in Pids
    BY <1>0, <1>11 DEF ClientNew, At, RequestInv
  <2>2. "ready" \in Steps /\ "deaf" \in Prompts
    BY DEF Steps, Prompts
  <2>3. Told(p, "deaf") \in [Reqs -> Request]
    BY <1>0, <2>1, <2>2, ToldType
  <2>4. req' \in [Reqs -> Request]
    BY <1>11, <2>2, <2>3, RequestFacts DEF ClientNew
  <2> QED BY <1>0, <1>11, <2>4, TypePartsPrime DEF ClientNew
<1>12. CASE ClientAttached(r)
  <2>1. "prompt" \in Ops /\ {"sent", "raised"} \subseteq Steps
    BY DEF Ops, Steps, Serving
  <2>2. req' \in [Reqs -> Request]
    BY <1>0, <1>12, <2>1 DEF ClientAttached, Goto, Request
  <2> QED BY <1>0, <1>12, <2>2, TypePartsPrime DEF ClientAttached
<1>13. (Connected /\ crec[p] # "none") \in BOOLEAN
  OBVIOUS
<1> QED
  BY <1>3, <1>4, <1>5, <1>6, <1>7, <1>8, <1>10, <1>11, <1>12, <1>13 DEF RequestStep

LEMMA MainTyped ==
    ASSUME TypeInv, MainStep \/ ConsoleStep \/ CloseStep, UNCHANGED events
    PROVE  TypeOK'
<1> USE DEF RestOK, ProcessTypeOK, tableVars, mainVars, serverVars, clientVars, processVars
<1>0. TypeOK /\ RestOK /\ req \in [Reqs -> Request]
  BY TypeParts DEF TypeInv
<1>1. CASE (MainStarts \/ MainFini \/ MainCollect \/ MainDetached \/ MainAgain) /\ UNCHANGED clientVars
  BY <1>0, <1>1, TypePartsPrime
  DEF MainStarts, MainFini, MainCollect, MainDetached, MainAgain, MainUnchanged, Mains
<1>2. CASE MainReset /\ UNCHANGED clientVars
  BY <1>0, <1>2, TypePartsPrime DEF MainReset, LinkEnded, MainUnchanged, Mains
<1>3. ASSUME NEW p \in Pids, MainDetach(p), UNCHANGED clientVars
      PROVE  TypeOK'
  BY <1>0, <1>3, TypePartsPrime DEF MainDetach, StartUnload, MainUnchanged
<1>4. ASSUME \/ \E p \in Pids : MainDetachFails(p)
             \/ CtrlKills,
             UNCHANGED clientVars
      PROVE  TypeOK'
  BY <1>0, <1>4, CrashType DEF MainDetachFails, CtrlKills, Fates
<1>5. CASE SessionShutdown
  BY <1>0, <1>5, TypePartsPrime DEF SessionShutdown, MainShutdown, ShutdownTold, MainUnchanged, Mains
<1>6. CASE CtrlC /\ UNCHANGED clientVars
  BY <1>0, <1>6, TypePartsPrime DEF CtrlC, MainUnchanged, Mains
<1>7. CASE CloseServed \/ CloseRaises
  BY <1>0, <1>7, TypePartsPrime DEF CloseServed, CloseRaises, RaiseCtrlC, MainUnchanged
<1>8. CASE CloseDone
  BY <1>0, <1>8, TypePartsPrime DEF CloseDone, LinkEnded, MainUnchanged
<1> QED
  BY <1>1, <1>2, <1>3, <1>4, <1>5, <1>6, <1>7, <1>8 DEF MainStep, ConsoleStep, CloseStep

LEMMA OutsideTyped ==
    ASSUME TypeInv, UserStep \/ SystemStep
    PROVE  TypeOK'
<1> USE DEF RestOK, ProcessTypeOK, tableVars, mainVars, serverVars, clientVars, processVars
<1>0. TypeOK /\ RestOK /\ req \in [Reqs -> Request]
  BY TypeParts DEF TypeInv
<1>1. ASSUME NEW r \in Reqs, NEW op \in Ops, NEW p \in Pids, NEW by \in Pids \cup {NoPid},
             Issue(r, op, p, by)
      PROVE  TypeOK'
  <2>1. "sent" \in Steps /\ "no" \in Prompts
    BY DEF Steps, Serving, Prompts
  <2>2. req' \in [Reqs -> Request]
    BY <1>0, <1>1, <2>1 DEF Issue, Request
  <2>3. events' \in 0 .. MaxEvents
    BY <1>0, <1>1, EventsAssumption DEF Issue, InBounds, Event
  <2> QED BY <1>0, <1>1, <2>2, <2>3, TypePartsPrime DEF Issue
<1>2. ASSUME NEW r \in Reqs, NEW p \in Pids,
             \/ ClientAttach(r, p) \/ ClientLaunch(r, p) \/ ClientKill(r, p)
             \/ \E op \in Ops, by \in Pids \cup {NoPid} : ClientUse(r, op, p, by)
      PROVE  TypeOK'
  BY <1>1, <1>2 DEF ClientAttach, ClientLaunch, ClientKill, ClientUse, Ops
<1>3. ASSUME NEW p \in Pids, ClientReadyCall(p), UNCHANGED events
      PROVE  TypeOK'
  BY <1>0, <1>3, TypePartsPrime DEF ClientReadyCall
<1>4. CASE CloseCall /\ UNCHANGED events
  BY <1>0, <1>4, TypePartsPrime DEF CloseCall
<1>5. ASSUME NEW p \in Pids, ProcessDies(p)
      PROVE  TypeOK'
  BY <1>0, <1>5, TypePartsPrime, EventsAssumption DEF ProcessDies, Event, Die, Lives, Instances
<1>6. ASSUME NEW p \in Pids, MonitorHit(p), UNCHANGED <<clientVars, events>>
      PROVE  TypeOK'
  BY <1>0, <1>6, TypePartsPrime DEF MonitorHit, MonitorTo, MonitorUnchanged, Monitors
<1>7. CASE UserCtrlC
  BY <1>0, <1>7, TypePartsPrime, EventsAssumption DEF UserCtrlC, Event, RaiseCtrlC, MainUnchanged
<1>8. CASE SessionBreaks
  BY <1>0, <1>8, TypePartsPrime, EventsAssumption
  DEF SessionBreaks, Event, LinkBreaks, LinkEnded, RaiseCtrlC, MainUnchanged
<1> QED BY <1>2, <1>3, <1>4, <1>5, <1>6, <1>7, <1>8 DEF UserStep, SystemStep

----------------------------------------------------------------------------
(* The invariant.                                                          *)

Inv == TypeInv /\ Watched /\ ReadyIsWatched
Steady == ProcessInv /\ RequestInv /\ Watched /\ ReadyIsWatched

\* What most steps leave alone.
LEMMA ProcessKept ==
    ASSUME ProcessInv, UNCHANGED <<fate, processVars, pending>>
    PROVE  ProcessInv'
  BY DEF ProcessInv, processVars, Alive

LEMMA RequestKept ==
    ASSUME RequestInv,
           \/ UNCHANGED req
           \/ \A r \in Reqs : req'[r].pid = req[r].pid /\ (At(r, "idle") => req'[r].pc = "idle")
    PROVE  RequestInv'
  BY DEF RequestInv, At

LEMMA WatchKept ==
    ASSUME Watched, ReadyIsWatched, UNCHANGED <<vic, mon, offline, crec>>,
           Connected' => Connected,
           ClientReady' => ClientReady
    PROVE  Watched' /\ ReadyIsWatched'
  BY DEF Watched, ReadyIsWatched, MonitorEnded, Listed, VictimReady

LEMMA CrashKeeps ==
    ASSUME Inv, NEW how \in Fates \ {"running"}, Crash(how), UNCHANGED clientVars
    PROVE  Steady'
<1>0. req \in [Reqs -> Request]
  BY TypeParts DEF Inv, TypeInv
<1>1. ProcessInv'
  BY DEF Inv, TypeInv, ProcessInv, Crash, Alive, processVars
<1>2. RequestInv'
  <2>1. \A r \in Reqs : req'[r].pid = req[r].pid /\ (At(r, "idle") => req'[r].pc = "idle")
    BY <1>0 DEF Crash, Request, At, Serving
  <2> QED BY <2>1, RequestKept DEF Inv, TypeInv
<1>3. Watched' /\ ReadyIsWatched'
  BY DEF Crash, All, Watched, ReadyIsWatched, MonitorEnded, Connected, Listed
<1> QED BY <1>1, <1>2, <1>3 DEF Steady

LEMMA VictimSteady ==
    ASSUME Inv, NEW p \in Pids, VictimStep(p)
    PROVE  Steady'
<1> USE DEF RestOK, ProcessTypeOK, tableVars, mainVars, serverVars, clientVars, processVars
<1>0. RestOK /\ ProcessInv /\ RequestInv /\ Watched /\ ReadyIsWatched
  BY TypeParts DEF Inv, TypeInv
<1>1. RequestInv'
  <2>1. UNCHANGED req
    BY DEF VictimStep, Online, OnlineFails, OnlineBegin, VictimOffline
  <2> QED BY <1>0, <2>1, RequestKept
<1>2. CASE Online(p) /\ UNCHANGED clientVars
  <2>1. ProcessInv'
    BY <1>0, <1>2 DEF Online, OnlineBegin, ProcessInv, Alive
  <2>2. Watched' /\ ReadyIsWatched'
    BY <1>0, <1>2 DEF Online, OnlineBegin, Watched, ReadyIsWatched, MonitorEnded, Listed, Connected,
       NodeUp, ClientReady, VictimReady
  <2> QED BY <1>1, <2>1, <2>2 DEF Steady
<1>3. CASE OnlineFails(p) /\ UNCHANGED clientVars
  <2>1. ProcessInv'
    BY <1>0, <1>3 DEF OnlineFails, OnlineBegin, Die, ProcessInv, Alive
  <2>2. Watched' /\ ReadyIsWatched'
    BY <1>0, <1>3 DEF OnlineFails, OnlineBegin, Watched, ReadyIsWatched, MonitorEnded, Listed,
       Connected, NodeUp, ClientReady, VictimReady
  <2> QED BY <1>1, <2>1, <2>2 DEF Steady
<1>4. CASE VictimOffline(p) /\ UNCHANGED clientVars
  <2>1. ProcessInv'
    BY <1>0, <1>4 DEF VictimOffline, Offlined, ProcessInv, Alive
  <2>2. Watched' /\ ReadyIsWatched'
    BY <1>0, <1>4 DEF VictimOffline, StartOffline, Watched, ReadyIsWatched, MonitorEnded, Listed,
       Connected, NodeUp, ClientReady, VictimReady
  <2> QED BY <1>1, <2>1, <2>2 DEF Steady
<1>5. ASSUME Rundown(p) \/ Unloaded(p) \/ UnloadAgain(p), UNCHANGED <<serverVars, clientVars>>
      PROVE  Steady'
  <2>1. ASSUME Rundown(p) PROVE ProcessInv'
    BY <1>0, <1>5, <2>1 DEF Rundown, ProcessInv, Alive
  <2>2. ASSUME NEW instance, Release(p, instance), refs[p] > 0, unload[p] > 0,
               \/ instance = "none"
               \/ instance = inst[p] /\ inst[p] \in {"rundown", "leaving"} /\ unload[p] > 1
        PROVE  ProcessInv'
    <3>1. CASE refs[p] = 1 /\ unload[p] > 1
      BY <1>0, <1>5, <2>2, <3>1 DEF Release, Die, ProcessInv, Alive
    <3>2. CASE ~(refs[p] = 1 /\ unload[p] > 1)
      <4>1. /\ inst' = [inst EXCEPT ![p] = instance]
            /\ refs' = [refs EXCEPT ![p] = @ - 1]
            /\ unload' = [unload EXCEPT ![p] = @ - 1]
        BY <2>2, <3>2 DEF Release
      <4> QED BY <1>0, <1>5, <2>2, <3>2, <4>1 DEF ProcessInv, Alive
    <3> QED BY <3>1, <3>2
  <2>3. ASSUME Unloaded(p) PROVE ProcessInv'
    BY <1>0, <2>2, <2>3 DEF Unloaded, ProcessInv
  <2>4. ASSUME UnloadAgain(p) PROVE ProcessInv'
    <3>1. unload[p] > 0 /\ refs[p] > 0 /\ (inst[p] \in {"rundown", "leaving"} => unload[p] > 1)
      BY <1>0, <2>4 DEF UnloadAgain, Surplus, ProcessInv
    <3> QED BY <2>2, <2>4, <3>1 DEF UnloadAgain
  <2>5. Watched' /\ ReadyIsWatched'
    BY <1>0, <1>5, WatchKept DEF Connected, NodeUp, ClientReady
  <2> QED BY <1>1, <1>5, <2>1, <2>3, <2>4, <2>5 DEF Steady
<1> QED BY <1>2, <1>3, <1>4, <1>5 DEF VictimStep

LEMMA OfflineSteady ==
    ASSUME Inv, NEW p \in Pids, OfflineStep(p)
    PROVE  Steady'
<1> USE DEF RestOK, ProcessTypeOK, tableVars, mainVars, serverVars, clientVars
<1>0. RestOK /\ ProcessInv /\ RequestInv /\ Watched /\ ReadyIsWatched /\ req \in [Reqs -> Request]
  BY TypeParts DEF Inv, TypeInv
<1>1. CASE OfflineLock(p) /\ UNCHANGED clientVars
  <2>1. ProcessInv' /\ RequestInv'
    BY <1>0, <1>1, ProcessKept, RequestKept DEF OfflineLock
  <2>2. Watched' /\ ReadyIsWatched'
    BY <1>0, <1>1 DEF OfflineLock, Watched, ReadyIsWatched, MonitorEnded, Listed, Connected, NodeUp,
       ClientReady, VictimReady
  <2> QED BY <2>1, <2>2 DEF Steady
<1>2. CASE OfflineErase(p) /\ UNCHANGED clientVars
  <2>1. \A r \in Reqs : req'[r].pid = req[r].pid /\ (At(r, "idle") => req'[r].pc = "idle")
    BY <1>0, <1>2 DEF OfflineErase, Erased, Request, At
  <2>2. ProcessInv' /\ RequestInv'
    BY <1>0, <1>2, <2>1, ProcessKept, RequestKept DEF OfflineErase
  <2>3. Watched' /\ ReadyIsWatched'
    BY <1>0, <1>2 DEF OfflineErase, Watched, ReadyIsWatched, MonitorEnded, Listed, Connected, NodeUp,
       ClientReady, VictimReady
  <2> QED BY <2>2, <2>3 DEF Steady
<1>3. CASE (OfflineTwice(p) \/ ServerGone(p)) /\ UNCHANGED clientVars
  BY <1>3, CrashKeeps DEF OfflineTwice, ServerGone, Fates
<1> QED BY <1>1, <1>2, <1>3 DEF OfflineStep

\* A monitor moves on; it tells the client of the end of its victim before it ends itself.
LEMMA MonitorMoves ==
    ASSUME Inv, NEW p \in Pids, NEW pc, ~MonitorEnded(p), MonitorTo(p, pc),
           \/ pc \notin {"none", "check", "done"}
           \/ pc = "check" /\ ~(Connected' /\ ClientReady' /\ VictimReady(p)'),
           UNCHANGED <<fate, vic, pending, offline, mainVars, processVars, closing, closeEvt>>,
           \A q \in Pids : VictimReady(q)' => VictimReady(q) \/ (q = p /\ pc # "check"),
           \/ UNCHANGED req
           \/ \A r \in Reqs : req'[r].pid = req[r].pid /\ (At(r, "idle") => req'[r].pc = "idle")
    PROVE  Steady'
<1>0. RestOK /\ ProcessInv /\ RequestInv /\ Watched /\ ReadyIsWatched
  BY TypeParts DEF Inv, TypeInv
<1>1. ProcessInv' /\ RequestInv'
  BY <1>0, ProcessKept, RequestKept
<1>2. mon' = [mon EXCEPT ![p] = pc] /\ mon \in [Pids -> Monitors]
  BY <1>0 DEF MonitorTo, RestOK
<1>3. Watched'
  BY <1>0, <1>2 DEF Watched, MonitorEnded, Listed
<1>4. (Connected' => Connected) /\ (ClientReady' => ClientReady)
  BY DEF Connected, NodeUp, ClientReady, mainVars
<1>5. ReadyIsWatched'
  BY <1>0, <1>2, <1>4 DEF ReadyIsWatched
<1> QED BY <1>1, <1>3, <1>5 DEF Steady

LEMMA MonitorSteady ==
    ASSUME Inv, NEW p \in Pids, MonitorStep(p)
    PROVE  Steady'
<1> USE DEF RestOK, ProcessTypeOK, tableVars, mainVars, clientVars
<1>0. RestOK /\ ProcessInv /\ RequestInv /\ Watched /\ ReadyIsWatched /\ req \in [Reqs -> Request]
  BY TypeParts DEF Inv, TypeInv
<1>1. ASSUME \/ MonitorListen(p) \/ MonitorStopped(p) \/ MonitorFails(p) \/ MonitorNotify(p)
             \/ MonitorNotifyFails(p) \/ MonitorOffline(p) \/ MonitorResume(p),
             UNCHANGED clientVars
      PROVE  Steady'
  <2>1. PICK pc \in Monitors \ {"none", "check", "done"} : MonitorTo(p, pc)
    BY <1>1 DEF MonitorListen, MonitorStopped, MonitorFails, MonitorNotify, MonitorNotifyFails,
       MonitorOffline, MonitorResume, Monitors
  <2>2. ~MonitorEnded(p)
    BY <1>1 DEF MonitorListen, MonitorStopped, MonitorFails, MonitorNotify, MonitorNotifyFails,
       MonitorOffline, MonitorResume, MonitorAt, MonitorEnded
  <2>3. UNCHANGED <<fate, vic, pending, offline, req, mainVars, processVars>>
    BY <1>1 DEF MonitorListen, MonitorStopped, MonitorFails, MonitorNotify, MonitorNotifyFails,
       MonitorOffline, MonitorResume, MonitorUnchanged
  <2>4. \A q \in Pids : VictimReady(q)' => VictimReady(q)
    BY <1>1 DEF VictimReady
  <2>5. UNCHANGED <<closing, closeEvt>>
    BY <1>1
  <2> HIDE DEF tableVars, mainVars, clientVars, RestOK, ProcessTypeOK
  <2> QED BY <2>1, <2>2, <2>3, <2>4, <2>5, MonitorMoves
<1>2. CASE MonitorOfflineFails(p) /\ UNCHANGED clientVars
  <2>1. ~Connected'
    BY <1>2 DEF MonitorOfflineFails, MonitorUnchanged, Connected, NodeUp
  <2> QED
    BY <1>2, <2>1, MonitorMoves
    DEF MonitorOfflineFails, MonitorAt, MonitorEnded, MonitorUnchanged, VictimReady
<1>3. CASE (MonitorRpcGone(p) \/ MonitorNodeGone(p)) /\ UNCHANGED clientVars
  BY <1>3, CrashKeeps DEF MonitorRpcGone, MonitorNodeGone, Fates
<1>4. CASE MonitorCheck(p) /\ UNCHANGED clientVars
  <2>1. ProcessInv' /\ RequestInv'
    BY <1>0, <1>4, ProcessKept, RequestKept DEF MonitorCheck, MonitorUnchanged
  <2>2. Watched' /\ ReadyIsWatched'
    BY <1>0, <1>4 DEF MonitorCheck, MonitorAt, MonitorTo, MonitorUnchanged, OfflineByMonitor,
       StartOffline, Watched, ReadyIsWatched, MonitorEnded, Listed, Connected, NodeUp, ClientReady,
       VictimReady
  <2> QED BY <2>1, <2>2 DEF Steady
<1>5. CASE NotifyRaises(p) \/ NotifyAnswers(p)
  <2>1. PICK pc \in {"failed", "resume"} : MonitorTo(p, pc)
    BY <1>5 DEF NotifyRaises, NotifyAnswers
  <2>2. ~MonitorEnded(p)
    BY <1>5 DEF NotifyRaises, NotifyAnswers, MonitorAt, MonitorEnded
  <2>3. UNCHANGED <<fate, vic, pending, offline, req, mainVars, processVars, clientVars>>
    BY <1>5 DEF NotifyRaises, NotifyAnswers, MonitorUnchanged
  <2>4. \A q \in Pids : VictimReady(q)' => VictimReady(q)
    BY <2>3 DEF VictimReady
  <2> QED BY <2>1, <2>2, <2>3, <2>4, MonitorMoves
<1>6. CASE NotifyArrives(p)
  <2>1. \A q \in Pids : VictimReady(q)' => VictimReady(q) \/ q = p
    BY <1>0, <1>6 DEF NotifyArrives, Marked, VictimReady
  <2>2. PICK pc \in {"initial", "handler"} : MonitorTo(p, pc)
    BY <1>6 DEF NotifyArrives
  <2>3. ~MonitorEnded(p)
    BY <1>6 DEF NotifyArrives, MonitorAt, MonitorEnded
  <2>4. UNCHANGED <<fate, vic, pending, offline, req, mainVars, processVars, closing, closeEvt>>
    BY <1>6 DEF NotifyArrives, MonitorUnchanged
  <2> QED BY <2>1, <2>2, <2>3, <2>4, MonitorMoves
<1>7. CASE ClientOffline(p)
  <2>1. \A q \in Pids : VictimReady(q)' => VictimReady(q)
    BY <1>0, <1>7 DEF ClientOffline, VictimReady
  <2>2. ~(ClientReady' /\ VictimReady(p)')
    BY <1>0, <1>7 DEF ClientOffline, ClientReady, VictimReady
  <2>3. \/ UNCHANGED req
        \/ \A r \in Reqs : req'[r].pid = req[r].pid /\ (At(r, "idle") => req'[r].pc = "idle")
    BY <1>0, <1>7 DEF ClientOffline, Told, Request, At
  <2> QED BY <1>7, <2>1, <2>2, <2>3, MonitorMoves DEF ClientOffline, MonitorAt, MonitorEnded
<1> QED BY <1>1, <1>2, <1>3, <1>4, <1>5, <1>6, <1>7 DEF MonitorStep

LEMMA RequestSteady ==
    ASSUME Inv, NEW r \in Reqs, RequestStep(r)
    PROVE  Steady'
<1> USE DEF RestOK, ProcessTypeOK, tableVars, mainVars, clientVars, processVars
<1>0. /\ RestOK /\ ProcessInv /\ RequestInv /\ Watched /\ ReadyIsWatched
      /\ req \in [Reqs -> Request]
  BY TypeParts DEF Inv, TypeInv
<1> DEFINE p == req[r].pid
           Same == \A s \in Reqs : req'[s].pid = req[s].pid /\ (At(s, "idle") => req'[s].pc = "idle")
<1>1. ASSUME RequestUnchanged, UNCHANGED clientVars
      PROVE  Watched' /\ ReadyIsWatched'
  BY <1>0, <1>1, WatchKept DEF RequestUnchanged, Connected, NodeUp, ClientReady
<1>2. ASSUME NEW pc, Goto(r, pc), ~At(r, "idle")
      PROVE  RequestInv'
  <2>1. Same
    BY <1>0, <1>2 DEF Goto, Request, At
  <2> QED BY <1>0, <2>1, RequestKept
<1>3. ASSUME \/ ServeRefused(r) \/ ServeEntered(r) \/ ServeLeft(r) \/ ServeUse(r) \/ ServeNoVictim(r)
             \/ ServeEval(r) \/ Evaluate(r) \/ ServeInput(r) \/ InputExecute(r) \/ InputOutput(r)
             \/ InputExecuted(r) \/ InputReleased(r),
             UNCHANGED clientVars
      PROVE  Steady'
  <2>1. /\ RequestUnchanged /\ UNCHANGED <<pending, processVars>> /\ ~At(r, "idle")
        /\ \E pc \in Steps : Goto(r, pc)
    BY <1>3 DEF ServeRefused, ServeEntered, ServeLeft, ServeUse, ServeNoVictim, ServeEval, Evaluate,
       ServeInput, InputExecute, InputOutput, InputExecuted, InputReleased, Steps, Serving, Serve, At
  <2> QED BY <1>0, <1>1, <1>2, <1>3, <2>1, ProcessKept DEF Steady, RequestUnchanged
<1>4. CASE (InputNodeGone(r) \/ InputVictimGone(r)) /\ UNCHANGED clientVars
  BY <1>4, CrashKeeps DEF InputNodeGone, InputVictimGone, Fates
<1>5. CASE (ServeAttach(r) \/ ServeLaunch(r)) /\ UNCHANGED clientVars
  <2>1. ~At(r, "idle") /\ RequestUnchanged /\ Goto(r, "enter") /\ p \in Pids
    BY <1>0, <1>5 DEF ServeAttach, ServeLaunch, Serve, At, RequestInv
  <2>2. /\ inst' = [inst EXCEPT ![p] = InstanceLoaded(p)] /\ refs' = [refs EXCEPT ![p] = @ + 1]
        /\ pending' = [pending EXCEPT ![p] = @ + 1] /\ UNCHANGED <<unload, fate>>
    BY <1>5 DEF ServeAttach, ServeLaunch, LoadModule, NodePending, RequestUnchanged
  <2>3. ProcessInv'
    BY <1>0, <2>1, <2>2 DEF ProcessInv, Alive, InstanceLoaded
  <2> QED BY <1>1, <1>2, <1>5, <2>1, <2>3 DEF Steady
<1>6. CASE ServeKill(r) /\ UNCHANGED clientVars
  <2>1. ~At(r, "idle") /\ RequestUnchanged /\ Goto(r, "answer")
    BY <1>6 DEF ServeKill, Serve, At
  <2>2. ProcessInv'
    BY <1>0, <1>6 DEF ServeKill, Die, ProcessInv, Alive, RequestUnchanged
  <2> QED BY <1>1, <1>2, <1>6, <2>1, <2>2 DEF Steady
<1>7. CASE ServeDetach(r) /\ UNCHANGED clientVars
  <2>1. ~At(r, "idle") /\ RequestUnchanged /\ \E pc \in Steps : Goto(r, pc)
    BY <1>7 DEF ServeDetach, Serve, At, Steps, Serving
  <2>2. ProcessInv'
    BY <1>0, <1>7 DEF ServeDetach, StartUnload, Linked, ProcessInv, Alive, RequestUnchanged
  <2> QED BY <1>1, <1>2, <1>7, <2>1, <2>2 DEF Steady
<1>8. ASSUME NEW heard \in BOOLEAN, InputPrompt(r, heard), UNCHANGED clientVars
      PROVE  Steady'
  <2>1. r \in DOMAIN req /\ ~At(r, "idle")
    BY <1>0, <1>8 DEF InputPrompt, At
  <2>2. PICK pc, told : \/ req' = [req EXCEPT ![r].pc = pc]
                        \/ req' = [Told(p, "yes") EXCEPT ![r].pc = pc]
                        \/ req' = [req EXCEPT ![r].pc = pc, ![r].told = told]
    BY <1>8 DEF InputPrompt, Goto
  <2>3. Same
    <3>1. /\ Told(p, "yes") = [s \in Reqs |-> Told(p, "yes")[s]]
          /\ \A s \in Reqs : /\ DOMAIN Told(p, "yes")[s] = DOMAIN req[s]
                            /\ Told(p, "yes")[s].pid = req[s].pid
                            /\ Told(p, "yes")[s].pc = req[s].pc
      BY <1>0 DEF Told, Request
    <3>2. CASE req' = [Told(p, "yes") EXCEPT ![r].pc = pc]
      BY <1>0, <2>1, <3>1, <3>2 DEF Request, At
    <3>3. CASE req' = [req EXCEPT ![r].pc = pc]
      BY <1>0, <2>1, <3>3 DEF Request, At
    <3>4. CASE req' = [req EXCEPT ![r].pc = pc, ![r].told = told]
      BY <1>0, <2>1, <3>4 DEF Request, At
    <3> QED BY <2>2, <3>2, <3>3, <3>4
  <2> QED
    BY <1>0, <1>1, <1>8, <2>3, ProcessKept, RequestKept DEF InputPrompt, RequestUnchanged, Steady
<1>9. CASE ClientAnswer(r) \/ ClientRaises(r) \/ ClientPrompted(r) \/ ClientGone(r) \/ ClientAttached(r)
  <2>1. UNCHANGED <<fate, tableVars, mainVars, processVars, clientVars>>
    BY <1>9 DEF ClientAnswer, ClientRaises, ClientPrompted, ClientGone, ClientAttached, RequestEnds
  <2>2. Same
    BY <1>0, <1>9
    DEF ClientAnswer, ClientRaises, ClientPrompted, ClientGone, ClientAttached, RequestEnds, Goto,
        Request, At
  <2>3. (Connected' => Connected) /\ (ClientReady' => ClientReady)
    BY <2>1 DEF Connected, NodeUp, ClientReady
  <2> QED BY <1>0, <2>1, <2>2, <2>3, ProcessKept, RequestKept, WatchKept DEF Steady
<1>10. CASE ClientNew(r)
  <2>1. UNCHANGED <<fate, tableVars, mainVars, processVars, closing, closeEvt>>
    BY <1>10 DEF ClientNew
  <2>2. Same
    BY <1>0, <1>10 DEF ClientNew, Told, Request, At
  <2>3. \A q \in Pids : VictimReady(q)' => VictimReady(q)
    BY <1>0, <1>10 DEF ClientNew, VictimReady
  <2>4. Watched' /\ ReadyIsWatched'
    BY <1>0, <2>1, <2>3
    DEF Watched, ReadyIsWatched, MonitorEnded, Listed, Connected, NodeUp, ClientReady
  <2> QED BY <1>0, <2>1, <2>2, <2>4, ProcessKept, RequestKept DEF Steady
<1>11. (Connected /\ crec[p] # "none") \in BOOLEAN
  OBVIOUS
<1> QED
  BY <1>3, <1>4, <1>5, <1>6, <1>7, <1>8, <1>9, <1>10, <1>11 DEF RequestStep

LEMMA MainSteady ==
    ASSUME Inv, MainStep \/ ConsoleStep \/ CloseStep
    PROVE  Steady'
<1> USE DEF RestOK, ProcessTypeOK, tableVars, mainVars, clientVars
<1>0. RestOK /\ ProcessInv /\ RequestInv /\ Watched /\ ReadyIsWatched
  BY TypeParts DEF Inv, TypeInv
<1>1. ASSUME UNCHANGED <<fate, vic, pending, mon, offline, req, crec>>, ProcessInv',
             (Connected /\ ClientReady)' => Connected /\ ClientReady
      PROVE  Steady'
  <2>1. RequestInv'
    BY <1>0, <1>1, RequestKept
  <2>2. Watched' /\ ReadyIsWatched'
    BY <1>0, <1>1 DEF Watched, ReadyIsWatched, MonitorEnded, Listed, VictimReady
  <2> QED BY <1>1, <2>1, <2>2 DEF Steady
<1>2. ASSUME MainStarts \/ MainFini \/ MainReset \/ MainCollect \/ MainDetached \/ MainAgain \/ CtrlC,
             UNCHANGED clientVars
      PROVE  Steady'
  <2>1. UNCHANGED <<fate, vic, pending, mon, offline, req, processVars>>
    BY <1>2 DEF MainStarts, MainFini, MainReset, MainCollect, MainDetached, MainAgain, CtrlC,
       MainUnchanged
  <2>2. Connected' => Connected
    BY <1>2 DEF MainStarts, MainFini, MainReset, MainCollect, MainDetached, MainAgain, CtrlC, MainAt,
       LinkEnded, Connected, NodeUp
  <2> QED BY <1>0, <1>1, <1>2, <2>1, <2>2, ProcessKept DEF ClientReady
<1>3. ASSUME NEW p \in Pids, MainDetach(p), UNCHANGED clientVars
      PROVE  Steady'
  <2>1. ProcessInv'
    BY <1>0, <1>3 DEF MainDetach, MainUnchanged, StartUnload, Linked, ProcessInv, Alive
  <2> QED BY <1>1, <1>3, <2>1 DEF MainDetach, MainUnchanged, Connected, NodeUp, ClientReady
<1>4. ASSUME (\E p \in Pids : MainDetachFails(p)) \/ CtrlKills, UNCHANGED clientVars
      PROVE  Steady'
  BY <1>4, CrashKeeps DEF MainDetachFails, CtrlKills, Fates
<1>5. CASE SessionShutdown
  BY <1>0, <1>1, <1>5, ProcessKept
  DEF SessionShutdown, MainShutdown, MainAt, MainUnchanged, ShutdownTold, Connected, NodeUp, ClientReady
<1>6. CASE CloseServed \/ CloseRaises
  <2>1. UNCHANGED <<fate, vic, pending, mon, offline, req, crec, processVars>>
    BY <1>6 DEF CloseServed, CloseRaises, MainUnchanged, serverVars, tableVars
  <2>2. UNCHANGED <<main, link, closeEvt>> /\ closing # "closed"
    BY <1>6 DEF CloseServed, CloseRaises, serverVars
  <2>3. ProcessInv'
    BY <1>0, <2>1, ProcessKept
  <2> QED BY <1>1, <2>1, <2>2, <2>3 DEF Connected, NodeUp, ClientReady
<1>7. CASE CloseDone
  <2>1. ProcessInv' /\ RequestInv'
    BY <1>0, <1>7, ProcessKept, RequestKept DEF CloseDone, MainUnchanged
  <2>2. Watched' /\ ReadyIsWatched'
    BY <1>0, <1>7
    DEF CloseDone, MainUnchanged, Watched, ReadyIsWatched, MonitorEnded, Listed, ClientReady
  <2> QED BY <2>1, <2>2 DEF Steady
<1> QED BY <1>2, <1>3, <1>4, <1>5, <1>6, <1>7 DEF MainStep, ConsoleStep, CloseStep

LEMMA OutsideSteady ==
    ASSUME Inv, UserStep \/ SystemStep
    PROVE  Steady'
<1> USE DEF RestOK, ProcessTypeOK, tableVars, mainVars, clientVars, serverVars
<1>0. RestOK /\ ProcessInv /\ RequestInv /\ Watched /\ ReadyIsWatched /\ req \in [Reqs -> Request]
  BY TypeParts DEF Inv, TypeInv
<1>1. ASSUME NEW r \in Reqs, NEW op, NEW p \in Pids, NEW by, Issue(r, op, p, by)
      PROVE  Steady'
  <2>1. RequestInv'
    BY <1>0, <1>1 DEF Issue, RequestInv, At
  <2> QED
    BY <1>0, <1>1, <2>1, ProcessKept, WatchKept DEF Issue, Connected, NodeUp, Steady
<1>2. ASSUME NEW r \in Reqs, NEW p \in Pids,
             \/ ClientAttach(r, p) \/ ClientLaunch(r, p) \/ ClientKill(r, p)
             \/ \E op \in Ops, by \in Pids \cup {NoPid} : ClientUse(r, op, p, by)
      PROVE  Steady'
  BY <1>1, <1>2 DEF ClientAttach, ClientLaunch, ClientKill, ClientUse
<1>3. ASSUME NEW p \in Pids, ClientReadyCall(p)
      PROVE  Steady'
  <2>1. ProcessInv' /\ RequestInv'
    BY <1>0, <1>3, ProcessKept, RequestKept DEF ClientReadyCall
  <2>2. Watched' /\ ReadyIsWatched'
    BY <1>0, <1>3 DEF ClientReadyCall, Watched, ReadyIsWatched, MonitorEnded, Listed, Connected, NodeUp,
       ClientReady, VictimReady
  <2> QED BY <2>1, <2>2 DEF Steady
<1>4. CASE CloseCall
  <2>1. ProcessInv' /\ RequestInv'
    BY <1>0, <1>4, ProcessKept, RequestKept DEF CloseCall
  <2>2. Watched' /\ ReadyIsWatched'
    BY <1>0, <1>4 DEF CloseCall, Watched, ReadyIsWatched, MonitorEnded, Listed, Connected, NodeUp,
       ClientReady, VictimReady
  <2> QED BY <2>1, <2>2 DEF Steady
<1>5. ASSUME NEW p \in Pids, ProcessDies(p)
      PROVE  Steady'
  <2>1. ProcessInv'
    BY <1>0, <1>5 DEF ProcessDies, Die, ProcessInv, Alive
  <2> QED
    BY <1>0, <1>5, <2>1, RequestKept, WatchKept
    DEF ProcessDies, Connected, NodeUp, ClientReady, Steady
<1>6. ASSUME NEW p \in Pids, MonitorHit(p), UNCHANGED clientVars
      PROVE  Steady'
  <2>1. \A q \in Pids : VictimReady(q)' => VictimReady(q)
    BY <1>6 DEF VictimReady
  <2> QED
    BY <1>6, <2>1, MonitorMoves DEF MonitorHit, MonitorAt, MonitorUnchanged, MonitorEnded
<1>7. CASE UserCtrlC \/ SessionBreaks
  <2>1. UNCHANGED <<fate, processVars, pending, req, vic, mon, offline, crec, closeEvt>>
    BY <1>7 DEF UserCtrlC, SessionBreaks, LinkBreaks, MainUnchanged
  <2>2. (Connected' => Connected) /\ (ClientReady' => ClientReady)
    BY <1>7 DEF UserCtrlC, SessionBreaks, LinkBreaks, Connected, NodeUp, ClientReady
  <2> QED BY <1>0, <2>1, <2>2, ProcessKept, RequestKept, WatchKept DEF Steady
<1> QED BY <1>2, <1>3, <1>4, <1>5, <1>6, <1>7 DEF UserStep, SystemStep

----------------------------------------------------------------------------
(* Theorems.                                                               *)

LEMMA InitInv == Init => Inv
<1> SUFFICES ASSUME Init PROVE Inv
  OBVIOUS
<1> USE DEF Init, ProcessInit, ServerInit, All
<1>1. RestOK
  <2>1. ProcessTypeOK
    BY DEF ProcessTypeOK, Lives, Instances
  <2>2. fate \in Fates /\ mon \in [Pids -> Monitors] /\ main \in Mains
    BY DEF Fates, Monitors, Mains
  <2>3. events \in 0 .. MaxEvents
    BY EventsAssumption
  <2> QED BY <2>1, <2>2, <2>3 DEF RestOK
<1>2. req \in [Reqs -> Request]
  BY DEF NoReq, Request, Ops, Steps, Serving, Prompts
<1>3. ProcessInv /\ RequestInv
  BY DEF ProcessInv, RequestInv, NoReq, At
<1>4. Watched /\ ReadyIsWatched
  BY DEF Watched, ReadyIsWatched, MonitorEnded, VictimReady
<1> QED BY <1>1, <1>2, <1>3, <1>4, TypeParts DEF Inv, TypeInv

LEMMA NextInv == Inv /\ [Next]_vars => Inv'
<1> SUFFICES ASSUME Inv, [Next]_vars PROVE Inv'
  OBVIOUS
<1>0. TypeInv
  BY DEF Inv
<1>1. ASSUME TypeOK', Steady' PROVE Inv'
  BY <1>1 DEF Steady, Inv, TypeInv
<1>2. ASSUME NEW p \in Pids, VictimStep(p) \/ OfflineStep(p) \/ MonitorStep(p), UNCHANGED events
      PROVE  Inv'
  BY <1>0, <1>1, <1>2, VictimTyped, VictimSteady, OfflineTyped, OfflineSteady, MonitorTyped,
     MonitorSteady
<1>3. ASSUME NEW r \in Reqs, RequestStep(r), UNCHANGED events
      PROVE  Inv'
  BY <1>0, <1>1, <1>3, RequestTyped, RequestSteady
<1>4. ASSUME MainStep \/ ConsoleStep \/ CloseStep, UNCHANGED events
      PROVE  Inv'
  BY <1>0, <1>1, <1>4, MainTyped, MainSteady
<1>5. CASE UserStep \/ SystemStep
  BY <1>0, <1>1, <1>5, OutsideTyped, OutsideSteady
<1>6. CASE UNCHANGED vars
  <2>1. TypeOK'
    BY <1>0, <1>6, TypeParts, TypePartsPrime
    DEF TypeInv, RestOK, ProcessTypeOK, vars, processVars, serverVars, tableVars, mainVars, clientVars
  <2>2. ProcessInv' /\ RequestInv'
    BY <1>0, <1>6, ProcessKept, RequestKept DEF TypeInv, vars, serverVars, tableVars
  <2>3. Watched' /\ ReadyIsWatched'
    BY <1>6, WatchKept
    DEF Inv, vars, serverVars, tableVars, mainVars, clientVars, Connected, NodeUp, ClientReady
  <2> QED BY <1>1, <2>1, <2>2, <2>3 DEF Steady
<1> QED BY <1>2, <1>3, <1>4, <1>5, <1>6 DEF Next

\* The types of processes, server and client, for any number of processes and requests.  The
\* counters never go below zero: no module is released more often than it was loaded, and no
\* victim comes online without a node that waits for it (victim.cpp 42-56, initfini.cpp 30).
THEOREM SessionTypeCorrect == Spec => []TypeOK
<1>1. Inv => TypeOK
  BY DEF Inv, TypeInv
<1> QED BY <1>1, InitInv, NextInv, PTL DEF Spec

\* A victim in the table has a monitor or a thread on its way to take it out, and a monitor runs
\* only as long as its victim is in the table.
THEOREM VictimsAreWatched == Spec => []Watched
<1>1. Inv => Watched
  BY DEF Inv
<1> QED BY <1>1, InitInv, NextInv, PTL DEF Spec

\* A victim that the client believes in is one the server has, and whose end it will report.
THEOREM ReadyVictimsAreListed == Spec => []ReadyIsListed
<1>1. Inv => ReadyIsListed
  BY DEF Inv, Watched, ReadyIsWatched, ReadyIsListed, MonitorEnded, Listed
<1> QED BY <1>1, InitInv, NextInv, PTL DEF Spec

----------------------------------------------------------------------------
(* What ends the server.                                                   *)

\* Where an input or a prompt is while it is served.
InputPlaces == {"ref", "exec", "output", "outside", "prompting", "dangling"}

\* The operation of a request in the places that only some operations come to.
OpInv ==
    \A r \in Reqs :
        /\ At(r, "idle") => req[r].op = "use"
        /\ At(r, "ready") => req[r].op \in {"attach", "launch"}
        /\ req[r].pc \in InputPlaces => req[r].op \in {"input", "prompt"}

\* Nothing has happened yet that ServerSurvives excepts.
Calm ==
    /\ Alive
    /\ \A r \in Reqs : req[r].op \notin {"detach", "kill"}
    /\ \A p \in Pids : life[p] # "dead"
    /\ link = "up"
    /\ main \in {"gap", "registered", "waiting"}

\* As long as there is a monitor, the victim is in the table; one thread takes it out of there, and
\* only after the monitor.
PlaceOK(p) ==
    /\ mon[p] = "none" => vic[p] = "out" /\ offline[p] = 0
    /\ mon[p] = "done" => \/ vic[p] = "in" /\ offline[p] = 1
                          \/ vic[p] = "ending" /\ offline[p] = 0
    /\ mon[p] \notin {"none", "done"} => vic[p] = "in" /\ offline[p] = 0

\* The client refused the initial break, as attach() had no record of the victim yet: the
\* monitor is ending or has ended while the process goes on.
Forsaken(p) == inst[p] = "up" /\ mon[p] \in {"none", "failed", "offline", "check", "done"}

\* No input was ever made for p.
Unprompted(p) == \A r \in Reqs : req[r].pid = p => req[r].op \notin {"input", "prompt"}

VictimCalm(p) ==
    /\ inst[p] \in {"none", "starting", "up"} /\ unload[p] = 0
    /\ mon[p] # "none" => inst[p] = "up"
    /\ PlaceOK(p)

\* Nobody has to do with a victim whose monitor has ended.
ClientCalm(p) ==
    /\ crec[p] = "none" \/ Forsaken(p) => Unprompted(p)
    /\ inst[p] # "up" \/ Forsaken(p) => ~VictimReady(p)

Quiet ==
    /\ ClientReady
    /\ \A r \in Reqs : ~At(r, "dangling")
    /\ \A p \in Pids : VictimCalm(p) /\ ClientCalm(p)

CalmInv == Calm => Quiet

\* (action) Request r remains the same, and moves to a place where it may be.
Proceeds(r) ==
    /\ req'[r].op = req[r].op /\ req'[r].pid = req[r].pid
    /\ \/ req'[r].pc = req[r].pc
       \/ req'[r].pc \notin {"idle", "ready"} \cup InputPlaces
       \/ req'[r].pc = "ready" /\ req[r].op \in {"attach", "launch"}
       \/ req'[r].pc \in InputPlaces /\ req[r].op \in {"input", "prompt"}

LEMMA GotoProceeds ==
    ASSUME req \in [Reqs -> Request], NEW r \in Reqs, NEW pc, Goto(r, pc),
           \/ pc \notin {"idle", "ready"} \cup InputPlaces
           \/ pc = "ready" /\ req[r].op \in {"attach", "launch"}
           \/ pc \in InputPlaces /\ req[r].op \in {"input", "prompt"}
    PROVE  \A s \in Reqs : Proceeds(s) /\ (At(s, "dangling")' => At(s, "dangling") \/ pc = "dangling")
  BY DEF Goto, Request, Proceeds, At

LEMMA CrashProceeds ==
    ASSUME req \in [Reqs -> Request], NEW how, Crash(how)
    PROVE  \A s \in Reqs : Proceeds(s)
  BY DEF Crash, Request, Proceeds, Serving, InputPlaces

LEMMA ToldFacts ==
    ASSUME req \in [Reqs -> Request], NEW p, NEW told
    PROVE  /\ DOMAIN Told(p, told) = Reqs
           /\ \A s \in Reqs : /\ DOMAIN Told(p, told)[s] = DOMAIN req[s]
                              /\ Told(p, told)[s].op = req[s].op
                              /\ Told(p, told)[s].pid = req[s].pid
                              /\ Told(p, told)[s].pc = req[s].pc
  BY DEF Told, Request

\* In every step the requests proceed, but for one that is made and one that becomes a prompt.
LEMMA RequestsProceed ==
    ASSUME TypeInv, OpInv, NEW r \in Reqs, RequestStep(r), ~ClientAttached(r)
    PROVE  \A s \in Reqs : Proceeds(s) /\ (At(s, "dangling")' => At(s, "dangling"))
<1>0. req \in [Reqs -> Request]
  BY TypeParts DEF TypeInv
<1> DEFINE Goal == \A s \in Reqs : Proceeds(s) /\ (At(s, "dangling")' => At(s, "dangling"))
           p == req[r].pid
<1>1. ASSUME NEW pc, Goto(r, pc), pc \notin {"idle", "ready"} \cup InputPlaces
      PROVE  Goal
  BY <1>0, <1>1, GotoProceeds DEF InputPlaces
<1>2. CASE \/ ServeAttach(r) \/ ServeLaunch(r) \/ ServeRefused(r) \/ ServeEntered(r) \/ ServeKill(r)
           \/ ServeDetach(r) \/ ServeLeft(r) \/ ServeUse(r) \/ ServeNoVictim(r) \/ ServeEval(r)
           \/ Evaluate(r)
  <2>1. \E pc \in {"enter", "error", "answer", "leave", "call"} : Goto(r, pc)
    BY <1>2 DEF ServeAttach, ServeLaunch, ServeRefused, ServeEntered, ServeKill, ServeDetach, ServeLeft,
       ServeUse, ServeNoVictim, ServeEval, Evaluate
  <2> QED BY <1>1, <2>1 DEF InputPlaces
<1>3. CASE ServeInput(r) \/ InputExecute(r) \/ InputOutput(r) \/ InputExecuted(r) \/ InputReleased(r)
  <2>1. \E pc \in (InputPlaces \ {"dangling"}) \cup {"answer", "error"} : Goto(r, pc)
    BY <1>3 DEF ServeInput, InputExecute, InputOutput, InputExecuted, InputReleased, InputPlaces
  <2>2. req[r].op \in {"input", "prompt"}
    BY <1>3 DEF ServeInput, InputExecute, InputOutput, InputExecuted, InputReleased, InputPlaces,
       OpInv, At, Serve
  <2> QED BY <1>0, <2>1, <2>2, GotoProceeds DEF InputPlaces
<1>4. CASE InputNodeGone(r) \/ InputVictimGone(r)
  <2>1. PICK how : Crash(how)
    BY <1>4 DEF InputNodeGone, InputVictimGone
  <2> QED BY <1>0, <2>1, CrashProceeds DEF Crash, Request, At
<1>5. ASSUME NEW heard \in BOOLEAN, InputPrompt(r, heard)
      PROVE  Goal
  <2>1. PICK pc, told :
            /\ pc \in {"answer", "error"}
            /\ \/ req' = [req EXCEPT ![r].pc = pc]
               \/ req' = [Told(p, "yes") EXCEPT ![r].pc = pc]
               \/ req' = [req EXCEPT ![r].pc = pc, ![r].told = told]
    BY <1>5 DEF InputPrompt, Goto
  <2>2. CASE req' = [req EXCEPT ![r].pc = pc]
    BY <1>1, <2>1, <2>2 DEF Goto, InputPlaces
  <2>3. CASE req' = [Told(p, "yes") EXCEPT ![r].pc = pc]
    BY <1>0, <2>1, <2>3, ToldFacts DEF Request, Proceeds, InputPlaces, At
  <2>4. CASE req' = [req EXCEPT ![r].pc = pc, ![r].told = told]
    BY <1>0, <2>1, <2>4 DEF Request, Proceeds, InputPlaces, At
  <2> QED BY <2>1, <2>2, <2>3, <2>4
<1>6. CASE ClientNew(r)
  BY <1>0, <1>6, ToldFacts DEF ClientNew, Request, Proceeds, InputPlaces, At
<1>7. CASE ClientAnswer(r) \/ ClientRaises(r) \/ ClientPrompted(r) \/ ClientGone(r)
  <2>1. \E pc \in {"gone", "done", "silent", "raised", "mute"} : Goto(r, pc) \/ RequestEnds(r, pc)
    BY <1>7 DEF ClientAnswer, ClientRaises, ClientPrompted, ClientGone
  <2>2. ASSUME NEW pc \in {"gone", "done", "silent", "raised", "mute"}, RequestEnds(r, pc)
        PROVE  Goal
    BY <1>0, <2>2 DEF RequestEnds, Request, Proceeds, InputPlaces, At
  <2> QED BY <1>1, <2>1, <2>2 DEF InputPlaces
<1>8. (Connected /\ crec[p] # "none") \in BOOLEAN
  OBVIOUS
<1> QED BY <1>2, <1>3, <1>4, <1>5, <1>6, <1>7, <1>8 DEF RequestStep

\* (action) The user makes request r.
Made(r, op, p) ==
    /\ req'[r].op = op /\ req'[r].pid = p /\ req'[r].pc = "sent"
    /\ \A s \in Reqs \ {r} : req'[s] = req[s]
    /\ op \in {"input", "use", "eval"} => VictimReady(p)
    /\ op \in {"attach", "launch", "kill", "use", "eval", "input", "detach"}
    /\ At(r, "idle")
    /\ UNCHANGED <<fate, tableVars, mainVars, processVars, clientVars>>

LEMMA UserMakes ==
    ASSUME TypeInv, UserStep, ~CloseCall, \A p \in Pids : ~ClientReadyCall(p)
    PROVE  \E r \in Reqs, p \in Pids, op \in Ops : Made(r, op, p)
<1>1. req \in [Reqs -> Request]
  BY TypeParts DEF TypeInv
<1>2. PICK r \in Reqs, p \in Pids :
          \/ ClientAttach(r, p) \/ ClientLaunch(r, p) \/ ClientKill(r, p)
          \/ \E op \in Ops, by \in Pids \cup {NoPid} : ClientUse(r, op, p, by)
  BY DEF UserStep
<1>3. PICK op, by : /\ op \in Ops /\ Issue(r, op, p, by)
                    /\ op \in {"input", "use", "eval"} => VictimReady(p)
                    /\ op \in {"attach", "launch", "kill", "use", "eval", "input", "detach"}
  BY <1>2 DEF ClientAttach, ClientLaunch, ClientKill, ClientUse, Ops
<1> QED BY <1>1, <1>3 DEF Issue, Made, Idle, Request

LEMMA StepRequests ==
    ASSUME TypeInv, OpInv, [Next]_vars
    PROVE  \/ /\ \A s \in Reqs : Proceeds(s)
              /\ \/ \A s \in Reqs : At(s, "dangling")' => At(s, "dangling")
                 \/ \E p \in Pids : OfflineErase(p)
           \/ \E r \in Reqs : ClientAttached(r)
           \/ \E r \in Reqs, p \in Pids, op \in Ops : Made(r, op, p)
<1>0. req \in [Reqs -> Request]
  BY TypeParts DEF TypeInv
<1> DEFINE Goal == \A s \in Reqs : Proceeds(s) /\ (At(s, "dangling")' => At(s, "dangling"))
<1>1. ASSUME UNCHANGED req PROVE Goal
  BY <1>1 DEF Proceeds, At
<1>2. ASSUME NEW how, Crash(how) PROVE Goal
  BY <1>0, <1>2, CrashProceeds DEF Crash, Request, At
<1>3. ASSUME NEW p \in Pids, VictimStep(p) PROVE Goal
  BY <1>1, <1>3 DEF VictimStep, Online, OnlineFails, OnlineBegin, VictimOffline, serverVars
<1>4. ASSUME NEW p \in Pids, OfflineStep(p), ~OfflineErase(p) PROVE Goal
  BY <1>1, <1>2, <1>4 DEF OfflineStep, OfflineLock, OfflineTwice, ServerGone
<1>5. ASSUME NEW p \in Pids, OfflineErase(p) PROVE \A s \in Reqs : Proceeds(s)
  BY <1>0, <1>5 DEF OfflineErase, Erased, Request, Proceeds, OpInv, InputPlaces
<1>6. ASSUME NEW p \in Pids, MonitorStep(p) PROVE Goal
  <2>1. CASE MonitorRpcGone(p) \/ MonitorNodeGone(p)
    BY <1>2, <2>1 DEF MonitorRpcGone, MonitorNodeGone
  <2>2. CASE ClientOffline(p)
    BY <1>0, <2>2, <1>1, ToldFacts DEF ClientOffline, Proceeds, At
  <2>3. CASE UNCHANGED req
    BY <1>1, <2>3
  <2> QED BY <1>6, <2>1, <2>2, <2>3 DEF MonitorStep, MonitorListen, MonitorStopped, MonitorFails,
     MonitorNotify, MonitorNotifyFails, MonitorResume, MonitorOffline, MonitorOfflineFails,
     MonitorCheck, NotifyRaises, NotifyArrives, NotifyAnswers, MonitorUnchanged
<1>7. CASE MainStep \/ ConsoleStep \/ CloseStep
  <2>1. CASE \/ \E p \in Pids : MainDetachFails(p)
             \/ CtrlKills
    BY <1>2, <2>1 DEF MainDetachFails, CtrlKills
  <2>2. CASE UNCHANGED req
    BY <1>1, <2>2
  <2> QED BY <1>7, <2>1, <2>2 DEF MainStep, ConsoleStep, CloseStep, MainStarts, MainFini, MainReset,
     MainCollect, MainDetached, MainAgain, MainDetach, SessionShutdown, MainShutdown, CtrlC,
     CloseServed, CloseRaises, CloseDone, MainUnchanged, serverVars
<1>8. CASE SystemStep
  BY <1>1, <1>8 DEF SystemStep, ProcessDies, MonitorHit, MonitorUnchanged, UserCtrlC, SessionBreaks, LinkBreaks,
     MainUnchanged, serverVars
<1>9. CASE CloseCall \/ (\E p \in Pids : ClientReadyCall(p)) \/ UNCHANGED vars
  BY <1>1, <1>9 DEF CloseCall, ClientReadyCall, serverVars, vars
<1>10. CASE UserStep
  BY <1>9, <1>10, UserMakes
<1> QED BY <1>3, <1>4, <1>5, <1>6, <1>7, <1>8, <1>9, <1>10, RequestsProceed DEF Next

LEMMA InitOp == Init => OpInv
  BY DEF Init, ServerInit, OpInv, NoReq, At, InputPlaces

LEMMA NextOp == TypeInv /\ OpInv /\ [Next]_vars => OpInv'
<1> SUFFICES ASSUME TypeInv, OpInv, [Next]_vars PROVE OpInv'
  OBVIOUS
<1>0. req \in [Reqs -> Request]
  BY TypeParts DEF TypeInv
<1>1. CASE \A s \in Reqs : Proceeds(s)
  BY <1>1 DEF OpInv, Proceeds, At, InputPlaces
<1>2. ASSUME NEW r \in Reqs, ClientAttached(r) PROVE OpInv'
  BY <1>0, <1>2 DEF ClientAttached, Goto, Request, OpInv, At, InputPlaces
<1>3. ASSUME NEW r \in Reqs, NEW p \in Pids, NEW op \in Ops, Made(r, op, p) PROVE OpInv'
  BY <1>0, <1>3 DEF Made, Request, OpInv, At, InputPlaces
<1> QED BY <1>1, <1>2, <1>3, StepRequests

\* The ways in which the server ends.
Crashes ==
    \/ \E p \in Pids : \/ OfflineTwice(p) \/ ServerGone(p) \/ MonitorRpcGone(p) \/ MonitorNodeGone(p)
                       \/ MainDetachFails(p)
    \/ \E r \in Reqs : InputNodeGone(r) \/ InputVictimGone(r)
    \/ CtrlKills

LEMMA CrashesEnd == Crashes => fate = "running" /\ fate' # "running"
  BY DEF Crashes, OfflineTwice, ServerGone, MonitorRpcGone, MonitorNodeGone, MainDetachFails,
     InputNodeGone, InputVictimGone, CtrlKills, Crash, MonitorAt, MainAt, Alive

LEMMA FateKept == [Next]_vars => UNCHANGED fate \/ Crashes
<1> SUFFICES ASSUME [Next]_vars, ~Crashes PROVE UNCHANGED fate
  OBVIOUS
<1> USE DEF serverVars, Crashes
<1>1. ASSUME NEW p \in Pids, VictimStep(p) PROVE UNCHANGED fate
  BY <1>1 DEF VictimStep, Online, OnlineFails, OnlineBegin, VictimOffline
<1>2. ASSUME NEW p \in Pids, OfflineStep(p) PROVE UNCHANGED fate
  BY <1>2 DEF OfflineStep, OfflineLock, OfflineErase
<1>3. ASSUME NEW p \in Pids, MonitorStep(p) PROVE UNCHANGED fate
  BY <1>3 DEF MonitorStep, MonitorListen, MonitorStopped, MonitorFails, MonitorNotify,
     MonitorNotifyFails, MonitorResume, MonitorOffline, MonitorOfflineFails, MonitorCheck,
     NotifyRaises, NotifyArrives, NotifyAnswers, ClientOffline, MonitorUnchanged
<1>4. ASSUME NEW r \in Reqs, RequestStep(r) PROVE UNCHANGED fate
  BY <1>4 DEF RequestStep, ServeAttach, ServeLaunch, ServeRefused, ServeEntered, ServeKill, ServeDetach,
     ServeLeft, ServeUse, ServeNoVictim, ServeEval, Evaluate, ServeInput, InputExecute, InputOutput,
     InputExecuted, InputReleased, InputPrompt, RequestUnchanged, ClientNew, ClientAnswer, ClientRaises,
     ClientPrompted, ClientAttached, ClientGone, RequestEnds
<1>5. CASE MainStep \/ ConsoleStep \/ CloseStep
  BY <1>5 DEF MainStep, ConsoleStep, CloseStep, MainStarts, MainFini, MainReset, MainCollect,
     MainDetached, MainAgain, MainDetach, SessionShutdown, MainShutdown, CtrlC, CloseServed,
     CloseRaises, CloseDone, MainUnchanged
<1>6. CASE UserStep
  BY <1>6 DEF UserStep, ClientAttach, ClientLaunch, ClientKill, ClientUse, Issue, CloseCall,
     ClientReadyCall
<1>7. CASE SystemStep
  BY <1>7 DEF SystemStep, ProcessDies, MonitorHit, MonitorUnchanged, UserCtrlC, SessionBreaks, LinkBreaks,
     MainUnchanged
<1>8. CASE UNCHANGED vars
  BY <1>8 DEF vars
<1> QED BY <1>1, <1>2, <1>3, <1>4, <1>5, <1>6, <1>7, <1>8 DEF Next

\* Processes do not rise again, connections are not restored and main() goes one way.
LEMMA KeptForGood ==
    ASSUME TypeInv, [Next]_vars, ~Crashes
    PROVE  /\ \A p \in Pids : life[p] = "dead" => life'[p] = "dead"
           /\ link' = "up" => link = "up"
           /\ main' \in {"gap", "registered", "waiting"} => main \in {"gap", "registered", "waiting"}
<1>0. ProcessTypeOK
  BY TypeParts DEF TypeInv, RestOK
<1> DEFINE Goal == /\ \A p \in Pids : life[p] = "dead" => life'[p] = "dead"
                   /\ link' = "up" => link = "up"
                   /\ main' \in {"gap", "registered", "waiting"} =>
                         main \in {"gap", "registered", "waiting"}
<1> USE DEF serverVars, processVars, mainVars, Crashes
<1>1. ASSUME UNCHANGED <<life, main, link>> PROVE Goal
  BY <1>1
<1>2. ASSUME NEW p \in Pids, VictimStep(p) PROVE Goal
  BY <1>0, <1>2 DEF VictimStep, Online, OnlineFails, OnlineBegin, VictimOffline, Offlined, Rundown,
     Unloaded, UnloadAgain, Release, Die, ProcessTypeOK
<1>3. ASSUME NEW p \in Pids, OfflineStep(p) PROVE Goal
  BY <1>1, <1>3 DEF OfflineStep, OfflineLock, OfflineErase
<1>4. ASSUME NEW p \in Pids, MonitorStep(p) PROVE Goal
  BY <1>1, <1>4 DEF MonitorStep, MonitorListen, MonitorStopped, MonitorFails, MonitorNotify,
     MonitorNotifyFails, MonitorResume, MonitorOffline, MonitorOfflineFails, MonitorCheck,
     NotifyRaises, NotifyArrives, NotifyAnswers, ClientOffline, MonitorUnchanged
<1>5. ASSUME NEW r \in Reqs, RequestStep(r) PROVE Goal
  <2>1. CASE ServeLaunch(r) \/ ServeKill(r)
    BY <1>0, <2>1 DEF ServeLaunch, ServeKill, Die, ProcessTypeOK, RequestUnchanged
  <2>2. CASE UNCHANGED <<life, main, link>>
    BY <1>1, <2>2
  <2> QED BY <1>5, <2>1, <2>2 DEF RequestStep, ServeAttach, ServeRefused, ServeEntered, ServeDetach,
     ServeLeft, ServeUse, ServeNoVictim, ServeEval, Evaluate, ServeInput, InputExecute, InputOutput,
     InputExecuted, InputReleased, InputPrompt, RequestUnchanged, ClientNew, ClientAnswer, ClientRaises,
     ClientPrompted, ClientAttached, ClientGone, RequestEnds
<1>6. CASE MainStep \/ ConsoleStep \/ CloseStep
  BY <1>6 DEF MainStep, ConsoleStep, CloseStep, MainStarts, MainFini, MainReset, MainCollect,
     MainDetached, MainAgain, MainDetach, SessionShutdown, MainShutdown, CtrlC, CloseServed,
     CloseRaises, CloseDone, MainUnchanged, MainAt, LinkEnded
<1>7. CASE UserStep
  BY <1>1, <1>7 DEF UserStep, ClientAttach, ClientLaunch, ClientKill, ClientUse, Issue, CloseCall,
     ClientReadyCall
<1>8. CASE SystemStep
  BY <1>0, <1>8 DEF SystemStep, ProcessDies, Die, MonitorHit, MonitorUnchanged, UserCtrlC, SessionBreaks, LinkBreaks,
     Connected, MainUnchanged, ProcessTypeOK
<1>9. CASE UNCHANGED vars
  BY <1>1, <1>9 DEF vars
<1> QED BY <1>2, <1>3, <1>4, <1>5, <1>6, <1>7, <1>8, <1>9 DEF Next

\* What ServerSurvives excepts lasts.
LEMMA CalmBefore ==
    ASSUME TypeInv, OpInv, [Next]_vars, Calm'
    PROVE  Calm
<1>0. RestOK /\ ProcessTypeOK /\ req \in [Reqs -> Request]
  BY TypeParts DEF TypeInv, RestOK
<1>1. Alive /\ ~Crashes
  BY CrashesEnd, FateKept DEF Calm, Alive
<1>2. \A r \in Reqs : req[r].op \notin {"detach", "kill"}
  <2>1. CASE \A s \in Reqs : Proceeds(s)
    BY <2>1 DEF Calm, Proceeds
  <2>2. ASSUME NEW r \in Reqs, ClientAttached(r) PROVE \A s \in Reqs : req[s].op \notin {"detach", "kill"}
    BY <1>0, <2>2 DEF ClientAttached, Goto, Request, OpInv, At, Calm
  <2>3. ASSUME NEW r \in Reqs, NEW p \in Pids, NEW op \in Ops, Made(r, op, p)
        PROVE  \A s \in Reqs : req[s].op \notin {"detach", "kill"}
    BY <2>3 DEF Made, OpInv, At, Calm
  <2> QED BY <2>1, <2>2, <2>3, StepRequests
<1>3. /\ \A p \in Pids : life[p] = "dead" => life'[p] = "dead"
      /\ link' = "up" => link = "up"
      /\ main' \in {"gap", "registered", "waiting"} => main \in {"gap", "registered", "waiting"}
  BY <1>0, <1>1, KeptForGood
<1> QED BY <1>1, <1>2, <1>3 DEF Calm

\* What a step does to the victims that it is not about, and to a victim whose requests proceed.
LEMMA CalmKept ==
    ASSUME NEW p \in Pids, VictimCalm(p), ClientCalm(p), Quiet, \A s \in Reqs : Proceeds(s),
           inst'[p] = inst[p], unload'[p] = unload[p], mon'[p] = mon[p], vic'[p] = vic[p],
           offline'[p] = offline[p],
           \/ crec'[p] = crec[p]
           \/ crec'[p] = "new"
           \/ crec'[p] # "none" /\ inst[p] = "up" /\ ~Forsaken(p)
    PROVE  VictimCalm(p)' /\ ClientCalm(p)'
<1>1. VictimCalm(p)'
  BY DEF VictimCalm, PlaceOK
<1>2. Forsaken(p)' <=> Forsaken(p)
  BY DEF Forsaken
<1>3. Unprompted(p) => Unprompted(p)'
  BY DEF Unprompted, Proceeds
<1> QED BY <1>1, <1>2, <1>3 DEF ClientCalm, VictimReady

\* A monitor moves on while its victim is in the table.
LEMMA CalmMonitor ==
    ASSUME Inv, OpInv, Calm, Quiet, Calm', NEW p \in Pids, MonitorStep(p), [Next]_vars
    PROVE  Quiet'
<1>0. /\ RestOK /\ req \in [Reqs -> Request] /\ ~Crashes /\ fate = "running"
  BY TypeParts, CrashesEnd DEF Inv, TypeInv, Calm, Alive
<1>1. /\ VictimCalm(p) /\ ClientCalm(p) /\ ClientReady /\ Connected /\ NodeUp
      /\ life[p] # "dead"
  BY DEF Quiet, Calm, Connected, NodeUp
<1>2. UNCHANGED <<vic, processVars, mainVars, closing, closeEvt>>
  BY <1>0 DEF MonitorStep, MonitorListen, MonitorRpcGone, MonitorStopped, MonitorFails, MonitorNotify,
     MonitorNotifyFails, MonitorResume, MonitorOffline, MonitorOfflineFails, MonitorNodeGone,
     MonitorCheck, NotifyRaises, NotifyArrives, NotifyAnswers, ClientOffline, MonitorUnchanged,
     clientVars, Crashes
<1>3. /\ UNCHANGED req
      /\ \A q \in Pids \ {p} : mon'[q] = mon[q] /\ offline'[q] = offline[q] /\ crec'[q] = crec[q]
      /\ VictimCalm(p)' /\ ClientCalm(p)'
  <2> DEFINE Goal == /\ UNCHANGED req
                     /\ \A q \in Pids \ {p} :
                           mon'[q] = mon[q] /\ offline'[q] = offline[q] /\ crec'[q] = crec[q]
                     /\ VictimCalm(p)' /\ ClientCalm(p)'
  <2> USE DEF RestOK, processVars, mainVars, clientVars, VictimCalm, PlaceOK, MonitorAt, MonitorTo
  <2>1. ASSUME NEW pc \in Monitors, mon' = [mon EXCEPT ![p] = pc], UNCHANGED <<offline, req, crec>>,
               mon[p] \notin {"none", "done"}, pc \notin {"none", "done"},
               pc \in {"failed", "offline", "check"} =>
                  crec[p] = "none" \/ mon[p] \in {"failed", "offline", "check"}
        PROVE  Goal
    <3>1. VictimCalm(p)'
      BY <1>0, <1>1, <1>2, <2>1
    <3>2. inst[p] = "up" /\ inst'[p] = "up"
      BY <1>1, <1>2, <2>1
    <3>3. ClientCalm(p)'
      BY <1>0, <1>1, <2>1, <3>2 DEF ClientCalm, Forsaken, Unprompted, VictimReady
    <3> QED BY <1>0, <2>1, <3>1, <3>3
  <2>2. CASE /\ MonitorListen(p) \/ MonitorNotify(p) \/ MonitorResume(p) \/ MonitorOffline(p)
             /\ UNCHANGED clientVars
    <3>1. /\ mon[p] \in {"listen", "hit", "resume", "failed"}
          /\ UNCHANGED <<offline, req, crec>>
          /\ \E pc \in {"waiting", "notify", "listen", "offline"} :
                /\ mon' = [mon EXCEPT ![p] = pc]
                /\ pc = "offline" => mon[p] = "failed"
      BY <2>2 DEF MonitorListen, MonitorNotify, MonitorResume, MonitorOffline, MonitorUnchanged
    <3> QED BY <2>1, <3>1 DEF Monitors
  <2>3. CASE MonitorRpcGone(p) \/ MonitorNodeGone(p)
    BY <1>0, <2>3 DEF Crashes
  <2>4. CASE MonitorStopped(p) \/ MonitorFails(p) \/ MonitorNotifyFails(p) \/ MonitorOfflineFails(p)
    BY <1>1, <2>4 DEF MonitorStopped, MonitorFails, MonitorNotifyFails, MonitorOfflineFails, Linked
  <2>5. CASE NotifyRaises(p) \/ NotifyAnswers(p)
    BY <1>0, <1>1, <2>1, <2>5 DEF NotifyRaises, NotifyAnswers, MonitorUnchanged, Monitors
  <2>6. CASE NotifyArrives(p)
    <3>1. PICK pc \in {"initial", "handler"} : mon' = [mon EXCEPT ![p] = pc]
      BY <2>6 DEF NotifyArrives
    <3>2. mon[p] = "notify" /\ UNCHANGED <<offline, req>> /\ crec[p] # "none"
      BY <2>6 DEF NotifyArrives, MonitorUnchanged
    <3>3. crec'[p] # "none" /\ \A q \in Pids \ {p} : crec'[q] = crec[q]
      BY <1>0, <2>6 DEF NotifyArrives, Marked
    <3>4. VictimCalm(p)' /\ inst'[p] = "up"
      BY <1>0, <1>1, <1>2, <3>1, <3>2
    <3>5. ClientCalm(p)'
      BY <1>0, <3>1, <3>3, <3>4 DEF ClientCalm, Forsaken
    <3> QED BY <1>0, <3>1, <3>2, <3>3, <3>4, <3>5
  <2>7. CASE ClientOffline(p)
    <3>1. mon[p] = "offline" /\ mon' = [mon EXCEPT ![p] = "check"] /\ UNCHANGED offline
      BY <2>7 DEF ClientOffline
    <3>2. ~VictimReady(p)
      BY <1>1, <3>1 DEF ClientCalm, Forsaken
    <3>3. UNCHANGED <<crec, req>>
      BY <2>7, <3>2 DEF ClientOffline
    <3> QED BY <2>1, <3>1, <3>3 DEF Monitors
  <2>8. CASE MonitorCheck(p) /\ UNCHANGED clientVars
    <3>1. mon[p] = "check" /\ mon' = [mon EXCEPT ![p] = "done"] /\ UNCHANGED <<req, crec>>
      BY <2>8 DEF MonitorCheck, MonitorUnchanged
    <3>2. vic[p] = "in" /\ offline[p] = 0 /\ inst[p] = "up"
      BY <1>1, <3>1
    <3>3. offline' = [offline EXCEPT ![p] = 1]
      BY <1>0, <2>8, <3>2 DEF MonitorCheck, OfflineByMonitor, StartOffline
    <3>4. VictimCalm(p)' /\ inst'[p] = "up"
      BY <1>0, <1>1, <1>2, <3>1, <3>2, <3>3
    <3>5. ClientCalm(p)'
      BY <1>0, <1>1, <3>1, <3>2, <3>4 DEF ClientCalm, Forsaken, Unprompted, VictimReady
    <3> QED BY <1>0, <3>1, <3>3, <3>4, <3>5
  <2> QED BY <2>2, <2>3, <2>4, <2>5, <2>6, <2>7, <2>8 DEF MonitorStep
<1>4. ClientReady'
  BY <1>1, <1>2 DEF ClientReady
<1>5. \A s \in Reqs : Proceeds(s) /\ ~At(s, "dangling")'
  BY <1>3 DEF Proceeds, At, Quiet
<1>6. ASSUME NEW q \in Pids, q # p PROVE VictimCalm(q)' /\ ClientCalm(q)'
  BY <1>2, <1>3, <1>5, <1>6, CalmKept DEF Quiet, processVars
<1> QED BY <1>3, <1>4, <1>5, <1>6 DEF Quiet

\* Steps that leave victims and monitors alone.
LEMMA CalmStill ==
    ASSUME Quiet, \A s \in Reqs : Proceeds(s) /\ (At(s, "dangling")' => At(s, "dangling")),
           UNCHANGED <<inst, unload, mon, vic, offline, crec>>, ClientReady'
    PROVE  Quiet'
<1>1. \A s \in Reqs : ~At(s, "dangling")'
  BY DEF Quiet
<1>2. ASSUME NEW p \in Pids PROVE VictimCalm(p)' /\ ClientCalm(p)'
  BY CalmKept DEF Quiet
<1> QED BY <1>1, <1>2 DEF Quiet

\* A victim comes online, or the thread its monitor has started takes it out of the table.
LEMMA CalmVictim ==
    ASSUME Inv, OpInv, Calm, Quiet, Calm', NEW p \in Pids, VictimStep(p) \/ OfflineStep(p), [Next]_vars
    PROVE  Quiet'
<1>0. /\ RestOK /\ ProcessTypeOK /\ req \in [Reqs -> Request] /\ ~Crashes /\ fate = "running"
  BY TypeParts, CrashesEnd DEF Inv, TypeInv, Calm, Alive, RestOK
<1>1. VictimCalm(p) /\ ClientCalm(p) /\ ClientReady
  BY DEF Quiet
<1>2. UNCHANGED clientVars
  BY DEF VictimStep, OfflineStep
<1>3. ClientReady'
  BY <1>1, <1>2 DEF ClientReady, clientVars
<1>4. ASSUME \A s \in Reqs : Proceeds(s) /\ ~At(s, "dangling")',
             \A q \in Pids \ {p} : /\ inst'[q] = inst[q] /\ unload'[q] = unload[q] /\ mon'[q] = mon[q]
                                   /\ vic'[q] = vic[q] /\ offline'[q] = offline[q],
             VictimCalm(p)', ClientCalm(p)'
      PROVE  Quiet'
  <2>1. ASSUME NEW q \in Pids, q # p PROVE VictimCalm(q)' /\ ClientCalm(q)'
    BY <1>2, <1>4, <2>1, CalmKept DEF Quiet, clientVars
  <2> QED BY <1>3, <1>4, <2>1 DEF Quiet
<1>5. ASSUME UNCHANGED req PROVE \A s \in Reqs : Proceeds(s) /\ ~At(s, "dangling")'
  BY <1>5 DEF Proceeds, At, Quiet
<1> USE DEF RestOK, ProcessTypeOK, processVars, clientVars, VictimCalm, PlaceOK
<1>6. CASE Online(p)
  <2>1. inst[p] = "starting" /\ mon[p] = "none" /\ UNCHANGED <<req, unload, offline>>
    BY <1>1, <1>6 DEF Online, OnlineBegin
  <2>2. /\ vic' = [vic EXCEPT ![p] = "in"] /\ mon' = [mon EXCEPT ![p] = "listen"]
        /\ inst' = [inst EXCEPT ![p] = "up"]
    BY <1>6 DEF Online, OnlineBegin
  <2>3. VictimCalm(p)'
    BY <1>0, <1>1, <2>1, <2>2
  <2>4. ClientCalm(p)'
    BY <1>0, <1>1, <1>2, <2>1, <2>2 DEF ClientCalm, Forsaken, Unprompted, VictimReady
  <2> QED BY <1>0, <1>4, <1>5, <2>1, <2>2, <2>3, <2>4
<1>7. CASE OnlineFails(p)
  BY <1>0, <1>7 DEF OnlineFails, Die, Calm
<1>8. CASE VictimOffline(p) \/ Rundown(p) \/ Unloaded(p) \/ UnloadAgain(p)
  BY <1>0, <1>1, <1>8 DEF VictimOffline, Offlined, Rundown, Unloaded, UnloadAgain, Surplus
<1>9. CASE OfflineLock(p)
  <2>1. mon[p] = "done" /\ offline[p] = 1
    BY <1>0, <1>1, <1>9 DEF OfflineLock, Monitors
  <2>2. /\ UNCHANGED <<req, mon, inst, unload>> /\ vic' = [vic EXCEPT ![p] = "ending"]
        /\ offline' = [offline EXCEPT ![p] = 0]
    BY <1>0, <1>9, <2>1 DEF OfflineLock
  <2>3. VictimCalm(p)'
    BY <1>0, <1>1, <2>1, <2>2
  <2>4. ClientCalm(p)'
    BY <1>0, <1>1, <1>2, <2>1, <2>2 DEF ClientCalm, Forsaken, Unprompted, VictimReady
  <2> QED BY <1>0, <1>4, <1>5, <2>1, <2>2, <2>3, <2>4
<1>10. CASE OfflineErase(p)
  <2>1. mon[p] = "done" /\ offline[p] = 0 /\ inst[p] = "up"
    BY <1>0, <1>1, <1>10 DEF OfflineErase, Monitors
  <2>2. Unprompted(p)
    BY <1>1, <2>1 DEF ClientCalm, Forsaken
  <2>3. UNCHANGED req
    <3>1. \A s \in Reqs : ~(req[s].pid = p /\ req[s].pc \in {"ref", "outside", "prompting"})
      BY <2>2 DEF Unprompted, OpInv, InputPlaces
    <3>2. req' = [s \in Reqs |-> req[s]]
      BY <1>10, <3>1 DEF OfflineErase, Erased
    <3> QED BY <1>0, <3>2
  <2>4. /\ UNCHANGED <<inst, unload, offline>> /\ vic' = [vic EXCEPT ![p] = "out"]
        /\ mon' = [mon EXCEPT ![p] = "none"]
    BY <1>10 DEF OfflineErase
  <2>5. VictimCalm(p)'
    BY <1>0, <1>1, <2>1, <2>4
  <2>6. ClientCalm(p)'
    BY <1>0, <1>1, <1>2, <2>1, <2>3, <2>4 DEF ClientCalm, Forsaken, Unprompted, VictimReady
  <2> QED BY <1>0, <1>4, <1>5, <2>3, <2>4, <2>5, <2>6
<1>11. CASE OfflineTwice(p) \/ ServerGone(p)
  BY <1>0, <1>11 DEF Crashes
<1> QED BY <1>6, <1>7, <1>8, <1>9, <1>10, <1>11 DEF VictimStep, OfflineStep

\* Only an attach that loads the module for the first time, a new record and a prompt are seen.
LEMMA CalmRequest ==
    ASSUME Inv, OpInv, Calm, Quiet, Calm', NEW r \in Reqs, RequestStep(r), [Next]_vars
    PROVE  Quiet'
<1>0. /\ RestOK /\ ProcessTypeOK /\ req \in [Reqs -> Request] /\ ProcessInv /\ RequestInv /\ TypeInv
      /\ ~Crashes /\ fate = "running"
  BY TypeParts, CrashesEnd DEF Inv, TypeInv, Calm, Alive, RestOK
<1> DEFINE p == req[r].pid
<1>1. UNCHANGED <<vic, mon, offline, closing, closeEvt>> /\ ClientReady'
  <2>1. UNCHANGED <<vic, mon, offline, closing, closeEvt>>
    BY <1>0 DEF RequestStep, ServeAttach, ServeLaunch, ServeRefused, ServeEntered, ServeKill, ServeDetach,
     ServeLeft, ServeUse, ServeNoVictim, ServeEval, Evaluate, ServeInput, InputExecute, InputOutput,
     InputExecuted, InputReleased, InputPrompt, RequestUnchanged, ClientNew, ClientAnswer, ClientRaises, Crashes,
     ClientPrompted, ClientAttached, ClientGone, RequestEnds, tableVars, clientVars
  <2> QED BY <2>1 DEF Quiet, ClientReady
<1>2. ASSUME ~ClientAttached(r)
      PROVE  \A s \in Reqs : Proceeds(s) /\ (At(s, "dangling")' => At(s, "dangling"))
  BY <1>0, <1>2, RequestsProceed
<1>3. CASE (ServeAttach(r) \/ ServeLaunch(r)) /\ UNCHANGED clientVars
  <2>1. p \in Pids /\ ~ClientAttached(r)
    BY <1>0, <1>3 DEF ServeAttach, ServeLaunch, Serve, At, RequestInv, ClientAttached
  <2>2. inst' = [inst EXCEPT ![p] = InstanceLoaded(p)] /\ UNCHANGED <<unload, crec>>
    BY <1>3 DEF ServeAttach, ServeLaunch, LoadModule, clientVars
  <2>3. \A s \in Reqs : Proceeds(s) /\ (At(s, "dangling")' => At(s, "dangling"))
    BY <1>2, <2>1
  <2>4. CASE inst'[p] = inst[p]
    <3>1. UNCHANGED inst
      BY <1>0, <2>2, <2>4 DEF ProcessTypeOK
    <3> QED BY <1>1, <2>2, <2>3, <3>1, CalmStill
  <2>5. ASSUME NEW q \in Pids, q = p, inst'[q] # inst[q] PROVE Quiet'
    <3>1. inst[q] = "none" /\ inst'[q] = "starting"
      BY <1>0, <2>2, <2>5 DEF ProcessTypeOK, ProcessInv, InstanceLoaded
    <3>2. VictimCalm(q) /\ ClientCalm(q)
      BY DEF Quiet
    <3>3. VictimCalm(q)' /\ ClientCalm(q)'
      BY <1>1, <2>2, <2>3, <3>1, <3>2
      DEF VictimCalm, PlaceOK, ClientCalm, Forsaken, Unprompted, VictimReady, Proceeds
    <3>4. ASSUME NEW o \in Pids, o # q PROVE VictimCalm(o)' /\ ClientCalm(o)'
      BY <1>0, <1>1, <2>2, <2>3, <2>5, <3>4, CalmKept DEF Quiet, ProcessTypeOK
    <3> QED BY <1>1, <2>3, <3>3, <3>4 DEF Quiet
  <2> QED BY <2>1, <2>4, <2>5
<1>4. CASE ServeKill(r) \/ ServeDetach(r)
  BY <1>4 DEF ServeKill, ServeDetach, Serve, Calm
<1>5. CASE ClientAttached(r)
  <2>1. p \in Pids /\ VictimReady(p)
    BY <1>0, <1>5 DEF ClientAttached, At, RequestInv
  <2>2. UNCHANGED <<inst, unload, crec>>
    BY <1>5 DEF ClientAttached, processVars, clientVars
  <2>3. \A s \in Reqs : /\ req'[s].pid = req[s].pid
                        /\ req'[s].op = req[s].op \/ s = r
                        /\ At(s, "dangling")' => At(s, "dangling")
    BY <1>0, <1>5 DEF ClientAttached, Goto, Request, At
  <2>4. ASSUME NEW q \in Pids PROVE VictimCalm(q)' /\ ClientCalm(q)'
    <3>1. VictimCalm(q) /\ ClientCalm(q)
      BY DEF Quiet
    <3>2. VictimCalm(q)' /\ (Forsaken(q)' <=> Forsaken(q)) /\ (VictimReady(q)' <=> VictimReady(q))
      BY <1>1, <2>2, <3>1 DEF VictimCalm, PlaceOK, Forsaken, VictimReady
    <3>3. CASE q = p
      BY <2>1, <2>2, <3>1, <3>2, <3>3 DEF ClientCalm, VictimReady
    <3>4. CASE q # p
      BY <2>2, <2>3, <3>1, <3>2, <3>4 DEF ClientCalm, Unprompted
    <3> QED BY <3>2, <3>3, <3>4
  <2> QED BY <1>1, <2>3, <2>4 DEF Quiet
<1>6. CASE ClientNew(r)
  <2>1. ~ClientAttached(r) /\ UNCHANGED <<inst, unload>> /\ crec' = [crec EXCEPT ![p] = "new"]
    BY <1>6 DEF ClientNew, ClientAttached, At, processVars
  <2>2. \A q \in Pids : crec'[q] = crec[q] \/ crec'[q] = "new"
    BY <1>0, <2>1 DEF RestOK
  <2>3. ASSUME NEW q \in Pids PROVE VictimCalm(q)' /\ ClientCalm(q)'
    BY <1>1, <1>2, <2>1, <2>2, CalmKept DEF Quiet
  <2> QED BY <1>1, <1>2, <2>1, <2>3 DEF Quiet
<1>7. CASE UNCHANGED <<inst, unload, crec>> /\ ~ClientAttached(r)
  BY <1>1, <1>2, <1>7, CalmStill
<1> QED BY <1>0, <1>3, <1>4, <1>5, <1>6, <1>7 DEF RequestStep, ServeRefused, ServeEntered,
     ServeLeft, ServeUse, ServeNoVictim, ServeEval, Evaluate, ServeInput, InputExecute, InputOutput,
     InputExecuted, InputReleased, InputPrompt, RequestUnchanged, ClientAnswer, ClientRaises, Crashes,
     ClientPrompted, ClientGone, RequestEnds, tableVars, clientVars, processVars

LEMMA CalmMain ==
    ASSUME Inv, OpInv, Calm, Quiet, Calm', MainStep \/ ConsoleStep \/ CloseStep, [Next]_vars
    PROVE  Quiet'
<1>0. RestOK /\ ~Crashes /\ fate = "running"
  BY TypeParts, CrashesEnd DEF Inv, TypeInv, Calm, Alive
<1>1. ClientReady /\ Connected
  BY DEF Quiet, Calm, Connected, NodeUp
<1>2. main \in {"gap", "registered", "waiting"} /\ main' \in {"gap", "registered", "waiting"}
  BY DEF Calm
<1>3. UNCHANGED <<inst, unload, mon, vic, offline, crec, req, closeEvt>> /\ closing' # "closed"
  BY <1>0, <1>1, <1>2
  DEF MainStep, ConsoleStep, CloseStep, MainStarts, MainFini, MainReset, MainCollect, MainDetached,
      MainAgain, MainDetach, SessionShutdown, MainShutdown, CtrlC, CloseServed, CloseRaises, CloseDone,
      MainUnchanged, MainAt, Crashes, ClientReady, clientVars, processVars
<1>4. ClientReady'
  BY <1>1, <1>3 DEF ClientReady
<1>5. \A s \in Reqs : Proceeds(s) /\ (At(s, "dangling")' => At(s, "dangling"))
  BY <1>3 DEF Proceeds, At
<1> QED BY <1>3, <1>4, <1>5, CalmStill

LEMMA CalmOutside ==
    ASSUME Inv, OpInv, Calm, Quiet, Calm', UserStep \/ SystemStep, [Next]_vars
    PROVE  Quiet'
<1>0. RestOK /\ ProcessTypeOK /\ TypeInv
  BY TypeParts DEF Inv, TypeInv, RestOK
<1>1. ClientReady /\ Connected
  BY DEF Quiet, Calm, Connected, NodeUp
<1>2. ASSUME UNCHANGED <<inst, unload, mon, vic, offline, crec, req, closeEvt>>, closing' # "closed"
      PROVE  Quiet'
  <2>1. ClientReady'
    BY <1>1, <1>2 DEF ClientReady
  <2>2. \A s \in Reqs : Proceeds(s) /\ (At(s, "dangling")' => At(s, "dangling"))
    BY <1>2 DEF Proceeds, At
  <2> QED BY <1>2, <2>1, <2>2, CalmStill
<1>3. ASSUME NEW r \in Reqs, NEW p \in Pids, NEW op \in Ops, Made(r, op, p)
      PROVE  Quiet'
  <2>1. UNCHANGED <<inst, unload, mon, vic, offline, crec>> /\ ClientReady'
    BY <1>1, <1>3 DEF Made, processVars, tableVars, clientVars, ClientReady
  <2>2. ASSUME NEW q \in Pids PROVE VictimCalm(q)' /\ ClientCalm(q)'
    <3>1. VictimCalm(q) /\ ClientCalm(q)
      BY DEF Quiet
    <3>2. VictimCalm(q)' /\ (Forsaken(q)' <=> Forsaken(q)) /\ (VictimReady(q)' <=> VictimReady(q))
      BY <2>1, <3>1 DEF VictimCalm, PlaceOK, Forsaken, VictimReady
    <3>3. CASE q = p /\ op = "input"
      BY <1>3, <2>1, <3>1, <3>2, <3>3 DEF Made, ClientCalm, VictimReady
    <3>4. CASE ~(q = p /\ op = "input")
      BY <1>3, <2>1, <3>1, <3>2, <3>4 DEF Made, ClientCalm, Unprompted
    <3> QED BY <3>2, <3>3, <3>4
  <2>3. \A s \in Reqs : ~At(s, "dangling")'
    BY <1>3 DEF Made, Quiet, At
  <2> QED BY <2>1, <2>2, <2>3 DEF Quiet
<1>4. ASSUME NEW p \in Pids, ClientReadyCall(p) PROVE Quiet'
  <2>1. crec[p] = "ready" /\ crec' = [crec EXCEPT ![p] = "going"]
    BY <1>4 DEF ClientReadyCall
  <2>2. UNCHANGED <<inst, unload, mon, vic, offline, req, closing, closeEvt>>
    BY <1>4 DEF ClientReadyCall, serverVars, tableVars, processVars
  <2>3. \A s \in Reqs : Proceeds(s) /\ ~At(s, "dangling")'
    BY <2>2 DEF Proceeds, At, Quiet
  <2>4. ASSUME NEW q \in Pids PROVE VictimCalm(q)' /\ ClientCalm(q)'
    <3>1. ClientCalm(p) /\ VictimReady(p)
      BY <2>1 DEF Quiet, VictimReady
    <3>2. crec'[q] = crec[q] \/ (crec'[q] # "none" /\ inst[q] = "up" /\ ~Forsaken(q))
      BY <1>0, <2>1, <3>1 DEF ClientCalm, RestOK
    <3> QED BY <2>2, <2>3, <3>2, CalmKept DEF Quiet
  <2> QED BY <1>1, <2>2, <2>3, <2>4 DEF Quiet, ClientReady
<1>5. CASE CloseCall
  BY <1>2, <1>5 DEF CloseCall, serverVars, tableVars, processVars
<1>6. CASE UserStep
  BY <1>0, <1>3, <1>4, <1>5, <1>6, UserMakes
<1>7. ASSUME NEW p \in Pids, ProcessDies(p) PROVE Quiet'
  BY <1>0, <1>7 DEF ProcessDies, Die, Calm, ProcessTypeOK
<1>8. ASSUME NEW p \in Pids, MonitorHit(p), UNCHANGED clientVars PROVE Quiet'
  <2>1. mon[p] = "waiting" /\ mon' = [mon EXCEPT ![p] = "hit"]
    BY <1>8 DEF MonitorHit, MonitorAt, MonitorTo
  <2>2. UNCHANGED <<inst, unload, vic, offline, req, crec, closing, closeEvt>>
    BY <1>8 DEF MonitorHit, MonitorUnchanged, processVars, clientVars
  <2>3. \A s \in Reqs : Proceeds(s) /\ ~At(s, "dangling")'
    BY <2>2 DEF Proceeds, At, Quiet
  <2>4. VictimCalm(p)' /\ ClientCalm(p)'
    BY <1>0, <2>1, <2>2
    DEF Quiet, VictimCalm, PlaceOK, ClientCalm, Forsaken, Unprompted, VictimReady, RestOK
  <2>5. ASSUME NEW q \in Pids, q # p PROVE VictimCalm(q)' /\ ClientCalm(q)'
    <3>1. mon'[q] = mon[q]
      BY <1>0, <2>1, <2>5 DEF RestOK
    <3> QED BY <2>2, <2>3, <3>1, CalmKept DEF Quiet
  <2> QED BY <1>1, <2>2, <2>3, <2>4, <2>5 DEF Quiet, ClientReady
<1>9. CASE UserCtrlC
  BY <1>1, <1>2, <1>9 DEF UserCtrlC, MainUnchanged, processVars, clientVars, ClientReady
<1>10. CASE SessionBreaks
  BY <1>10 DEF SessionBreaks, LinkBreaks, LinkEnded, Calm
<1> QED BY <1>6, <1>7, <1>8, <1>9, <1>10 DEF SystemStep

LEMMA InitCalm == Init => CalmInv
  BY DEF Init, ProcessInit, ServerInit, CalmInv, Quiet, ClientReady, NoReq, At, All, VictimCalm, PlaceOK,
     ClientCalm, Forsaken, Unprompted, VictimReady

LEMMA NextCalm == Inv /\ OpInv /\ CalmInv /\ [Next]_vars => CalmInv'
<1> SUFFICES ASSUME Inv, OpInv, CalmInv, [Next]_vars, Calm' PROVE Quiet'
  BY DEF CalmInv
<1>1. Calm /\ Quiet
  BY CalmBefore DEF Inv, CalmInv
<1>2. CASE UNCHANGED vars
  <2>1. UNCHANGED <<inst, unload, mon, vic, offline, crec, req, closing, closeEvt>>
    BY <1>2 DEF vars, processVars, serverVars, tableVars, clientVars
  <2>2. ClientReady' /\ \A s \in Reqs : Proceeds(s) /\ (At(s, "dangling")' => At(s, "dangling"))
    BY <1>1, <2>1 DEF Quiet, ClientReady, Proceeds, At
  <2> QED BY <1>1, <2>1, <2>2, CalmStill
<1>3. CASE Next
  BY <1>1, <1>3, CalmVictim, CalmMonitor, CalmRequest, CalmMain, CalmOutside DEF Next
<1> QED BY <1>2, <1>3

\* In a quiet session no way leads to the end of the server.
LEMMA CalmSurvives ==
    ASSUME Inv, OpInv, CalmInv, [Next]_vars, fate' # fate, main \in {"registered", "waiting"},
           \A r \in Reqs : req[r].op \notin {"detach", "kill"},
           \A p \in Pids : life[p] # "dead",
           link = "up"
    PROVE  FALSE
<1>1. Crashes /\ Alive
  BY FateKept, CrashesEnd DEF Alive
<1>2. Quiet /\ NodeUp
  BY <1>1 DEF CalmInv, Calm, NodeUp
<1>3. ASSUME NEW p \in Pids, OfflineTwice(p) \/ MonitorRpcGone(p) PROVE FALSE
  <2>1. offline \in [Pids -> Nat] /\ VictimCalm(p)
    BY <1>2, TypeParts DEF Inv, TypeInv, RestOK, Quiet
  <2>2. offline[p] > 0 => vic[p] = "in"
    BY <2>1 DEF VictimCalm, PlaceOK
  <2>3. mon[p] \in {"listen", "hit"} => vic[p] = "in"
    BY <2>1 DEF VictimCalm, PlaceOK
  <2> QED BY <1>3, <2>2, <2>3 DEF OfflineTwice, MonitorRpcGone, MonitorAt, Listed
<1>4. ASSUME NEW r \in Reqs, InputVictimGone(r) PROVE FALSE
  BY <1>2, <1>4 DEF InputVictimGone, Quiet
<1> QED
  BY <1>1, <1>2, <1>3, <1>4
  DEF Crashes, ServerGone, MonitorNodeGone, MainDetachFails, MainAt, InputNodeGone, CtrlKills, CtrlHandled

\* As long as no victim leaves, the connection lasts and main() takes Ctrl-C, nothing that is
\* requested, in whatever order and of however many processes, ends the server: no monitor uses
\* what was reset under it (debugger.cpp 127, 179, 192, 240), no second thread looks for a victim
\* that was taken out (victim.cpp 81), no Input works on one that was erased (rpc.cpp 423).
THEOREM ServerIsNotBroughtDown == Spec => ServerSurvives
<1> DEFINE I == Inv /\ OpInv /\ CalmInv
<1>1. Init => I
  BY InitInv, InitOp, InitCalm
<1>2. I /\ [Next]_vars => I'
  BY NextInv, NextOp, NextCalm DEF Inv
<1>3. I /\ [Next]_vars =>
          [fate' # fate =>
              \/ \E r \in Reqs : req[r].op \in {"detach", "kill"}
              \/ \E p \in Pids : life[p] = "dead"
              \/ link # "up"
              \/ main \notin {"registered", "waiting"}]_vars
  BY CalmSurvives
<1> QED BY <1>1, <1>2, <1>3, PTL DEF Spec, ServerSurvives
=============================================================================
