---------------------------- MODULE HookActions ----------------------------
(***************************************************************************)
(* What a breakpoint means to the user (class BpAction, Breakpoint.py): a  *)
(* thread that enters a function stops or runs its body.  A stopped thread *)
(* stays where it is until the user has decided about this very stop; Go   *)
(* runs the body, Skip leaves the function without running it, and         *)
(* BreakOnReturn runs the body and stops once more when it is done.        *)
(***************************************************************************)
EXTENDS Naturals, Sequences, SequencesExt

CONSTANTS Threads, VAs

VARIABLES
    acts,     \* each thread's functions under way
    decision  \* what the user has decided about a stopped thread

vars == <<acts, decision>>

Decisions == {"Go", "Skip", "BreakOnReturn"}

\* phase is "entry" (stopped before the body), "body" or "exit" (stopped after it);
\* onRet is TRUE when the thread is to stop again.
Activation == [va : VAs, phase : {"entry", "body", "exit"}, onRet : BOOLEAN]

Running(t) == acts[t] = <<>> \/ Last(acts[t]).phase = "body"
Stopped(t) == ~Running(t)

Init ==
    /\ acts \in [Threads -> {<<>>} \cup
                    {<<[va |-> va, phase |-> "entry", onRet |-> FALSE]>> : va \in VAs}]
    /\ decision = [t \in Threads |-> "none"]

Enter(t, va, phase) ==
    /\ Running(t)
    /\ acts' = [acts EXCEPT ![t] = Append(@, [va |-> va, phase |-> phase, onRet |-> FALSE])]
    /\ UNCHANGED decision

Decide(t, d) ==
    /\ Stopped(t)
    /\ decision[t] = "none"
    /\ decision' = [decision EXCEPT ![t] = d]
    /\ UNCHANGED acts

\* A thread whose return was stopped returns, whatever was decided.
Resume(t) ==
    /\ Stopped(t)
    /\ decision[t] # "none"
    /\ decision' = [decision EXCEPT ![t] = "none"]
    /\ LET top == Last(acts[t]) IN
         acts' = [acts EXCEPT ![t] =
                    IF top.phase = "exit" \/ decision[t] = "Skip"
                    THEN Front(@)
                    ELSE Front(@) \o <<[va |-> top.va, phase |-> "body",
                                       onRet |-> decision[t] = "BreakOnReturn"]>>]

\* The initial break ends and the entry point has a breakpoint: the thread stops in it.
StopAgain(t) ==
    /\ Stopped(t)
    /\ decision[t] = "Go"
    /\ decision' = [decision EXCEPT ![t] = "none"]
    /\ UNCHANGED acts

\* The body is done.
Leave(t) ==
    /\ acts[t] # <<>>
    /\ Last(acts[t]).phase = "body"
    /\ LET top == Last(acts[t]) IN
         acts' = [acts EXCEPT ![t] =
                    IF top.onRet
                    THEN Front(@) \o <<[va |-> top.va, phase |-> "exit", onRet |-> FALSE]>>
                    ELSE Front(@)]
    /\ UNCHANGED decision

Next ==
    \E t \in Threads :
        \/ \E va \in VAs, phase \in {"entry", "body"} : Enter(t, va, phase)
        \/ \E d \in Decisions : Decide(t, d)
        \/ Resume(t)
        \/ StopAgain(t)
        \/ Leave(t)

Spec == Init /\ [][Next]_vars
============================================================================
