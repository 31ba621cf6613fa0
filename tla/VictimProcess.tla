--------------------------- MODULE VictimProcess ---------------------------
(***************************************************************************)
(* Debugged processes as the server sees them: whether the process runs,   *)
(* whether its victim module is loaded, and how far its Victim object is   *)
(* (src/DollDbg.Victim: dllmain.cpp, initfini.cpp, rpc.cpp).  Threads,     *)
(* hooks and stubs are left to VictimHooks.                                *)
(***************************************************************************)
EXTENDS Naturals

CONSTANT Pids       \* processes that are debugged

VARIABLES
    life,           \* of the process: "none" (not created), "alive", "dead"
    inst,           \* the Victim object: "none", "starting", "up", "rundown" (its destructor
                    \* has begun), "leaving" (and has called Offline)
    refs,           \* how many times the module is loaded
    unload          \* threads in _unloadThreadProc()

processVars == <<life, inst, refs, unload>>

Lives == {"none", "alive", "dead"}
Instances == {"none", "starting", "up", "rundown", "leaving"}

\* The connection of the victim with the server lives and dies with the Victim object.
Linked(p) == inst[p] # "none"

\* DllMain runs at the first load only and constructs the singleton; the constructor's thread
\* connects to the server and calls Online.
InstanceLoaded(p) == IF refs[p] = 0 THEN "starting" ELSE inst[p]

LoadModule(p) ==
    /\ inst' = [inst EXCEPT ![p] = InstanceLoaded(p)]
    /\ refs' = [refs EXCEPT ![p] = @ + 1]

\* The process ends, for whatever reason.
Die(p) ==
    /\ life' = [life EXCEPT ![p] = "dead"]
    /\ inst' = [inst EXCEPT ![p] = "none"]
    /\ refs' = [refs EXCEPT ![p] = 0]
    /\ unload' = [unload EXCEPT ![p] = 0]

\* Detach, by request or after the connection was lost, starts a thread that unloads.
StartUnload(p) == unload' = [unload EXCEPT ![p] = @ + 1]

\* The thread takes the instance and the destructor sets _hitStop.
Rundown(p) ==
    /\ inst[p] = "up"
    /\ unload[p] > 0
    /\ inst' = [inst EXCEPT ![p] = "rundown"]
    /\ UNCHANGED <<life, refs, unload>>

\* The destructor calls Offline.
Offlined(p) ==
    /\ inst[p] = "rundown"
    /\ inst' = [inst EXCEPT ![p] = "leaving"]
    /\ UNCHANGED <<life, refs, unload>>

\* FreeLibraryAndExitThread(): with the last reference code goes away that other unload threads
\* run in.
Release(p, object) ==
    IF refs[p] = 1 /\ unload[p] > 1
    THEN Die(p)
    ELSE /\ inst' = [inst EXCEPT ![p] = object]
         /\ refs' = [refs EXCEPT ![p] = @ - 1]
         /\ unload' = [unload EXCEPT ![p] = @ - 1]
         /\ UNCHANGED life

\* The object is deleted and the module released.
Unloaded(p) == inst[p] = "leaving" /\ Release(p, "none")

\* Threads in _unloadThreadProc() that have not taken the instance.
Surplus(p) == unload[p] - (IF inst[p] \in {"rundown", "leaving"} THEN 1 ELSE 0)

\* A second thread finds no instance to delete and releases the module all the same.
UnloadAgain(p) ==
    /\ inst[p] \in {"rundown", "leaving", "none"}
    /\ Surplus(p) > 0
    /\ Release(p, inst[p])

ProcessInit ==
    /\ life \in [Pids -> {"none", "alive"}]
    /\ inst = [p \in Pids |-> "none"]
    /\ refs = [p \in Pids |-> 0]
    /\ unload = [p \in Pids |-> 0]

\* One process by itself, from when its victim is in the server's table.
VictimNext ==
    \E p \in Pids :
        \/ life[p] = "alive" /\ refs[p] > 0 /\ LoadModule(p) /\ UNCHANGED <<life, unload>>
        \/ life[p] = "alive" /\ Die(p)
        \/ Linked(p) /\ StartUnload(p) /\ UNCHANGED <<life, inst, refs>>
        \/ Rundown(p) \/ Offlined(p) \/ Unloaded(p) \/ UnloadAgain(p)

VictimSpec ==
    /\ life = [p \in Pids |-> "alive"]
    /\ inst = [p \in Pids |-> "up"]
    /\ refs = [p \in Pids |-> 1]
    /\ unload = [p \in Pids |-> 0]
    /\ [][VictimNext]_processVars

ProcessTypeOK ==
    /\ life \in [Pids -> Lives]
    /\ inst \in [Pids -> Instances]
    /\ refs \in [Pids -> Nat]
    /\ unload \in [Pids -> Nat]
=============================================================================
