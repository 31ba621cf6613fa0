------------------------------ MODULE RpcCalls ------------------------------
(***************************************************************************)
(* What the users of class Rpc rely on (call(), rpc.h): a call is refused, *)
(* or it is pending until the peer has answered it and it returns, or      *)
(* until it fails.  Each happens at most once, and an answer only ever     *)
(* ends the call it was given to.                                          *)
(***************************************************************************)
CONSTANT Calls

VARIABLES
    status,    \* what the caller of each call() sees
    answered   \* the calls the peer has answered

vars == <<status, answered>>

Init ==
    /\ status = [c \in Calls |-> "idle"]
    /\ answered = {}

Begin(c) ==
    /\ status[c] = "idle"
    /\ status' = [status EXCEPT ![c] = "pending"]
    /\ UNCHANGED answered

\* The node is not ready, already closed, or the channel is reserved.
Refuse(c) ==
    /\ status[c] = "idle"
    /\ status' = [status EXCEPT ![c] = "failed"]
    /\ UNCHANGED answered

\* The peer answers a call; the caller may meanwhile have been told it failed.
Answer(c) ==
    /\ status[c] \in {"pending", "failed"}
    /\ c \notin answered
    /\ answered' = answered \cup {c}
    /\ UNCHANGED status

Return(c) ==
    /\ status[c] = "pending"
    /\ c \in answered
    /\ status' = [status EXCEPT ![c] = "returned"]
    /\ UNCHANGED answered

\* The connection closes: several pending calls fail at once.
Fail ==
    /\ \E failing \in SUBSET {c \in Calls : status[c] = "pending"} :
          status' = [c \in Calls |-> IF c \in failing THEN "failed" ELSE status[c]]
    /\ UNCHANGED answered

Next ==
    \/ \E c \in Calls : Begin(c) \/ Refuse(c) \/ Answer(c) \/ Return(c)
    \/ Fail

Spec == Init /\ [][Next]_vars
============================================================================
