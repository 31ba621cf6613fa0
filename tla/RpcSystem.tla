----------------------------- MODULE RpcSystem -----------------------------
(***************************************************************************)
(* An Rpc node (RpcNode) closed by its environment: the connection, which  *)
(* may be lost, and the peer, which makes calls of its own and answers     *)
(* every call it receives exactly once, in any order, under the id it came *)
(* with.  Peers are another instance of class Rpc or the Python client.    *)
(***************************************************************************)
EXTENDS RpcNode

CONSTANTS
    MayLoseLink,   \* whether the connection can be lost
    MayDestroy     \* whether the owner destroys the node

ASSUME FaultAssumption == MayLoseLink \in BOOLEAN /\ MayDestroy \in BOOLEAN

VARIABLES
    peerLast,      \* the peer's _lastResponse
    peerRequests,  \* the peer's _requests: which of its calls is open under each id
    peerCalled,    \* the calls the peer has made
    peerTodo,      \* requests of this node the peer has read and not answered
    peerMisled     \* the peer got an answer for an id that is not the answered call's

peerVars == <<peerLast, peerRequests, peerCalled, peerTodo, peerMisled>>
vars == <<nodeVars, peerVars>>

localVars == <<life, channels, slotVars, waiting, dispatchVars, receiveVars, callVars, workVars>>

Init ==
    /\ NodeInit
    /\ peerLast = 0
    /\ peerRequests = [i \in Ids |-> NoCall]
    /\ peerCalled = {}
    /\ peerTodo = {}
    /\ peerMisled = FALSE

PeerFrame(p, id) == [chan |-> ChannelOf[p], id |-> id, ok |-> TRUE, tok |-> p]

\* The peer calls; like this node it registers the promise unless the id is taken.
PeerCall(p) ==
    LET id == (peerLast + 1) % IdSpace IN
    /\ Alive /\ link = "up" /\ life # "new"
    /\ p \notin peerCalled
    /\ peerCalled' = peerCalled \cup {p}
    /\ peerLast' = id
    /\ peerRequests' = IF peerRequests[id] = NoCall THEN [peerRequests EXCEPT ![id] = p]
                                                    ELSE peerRequests
    /\ inq' = Append(inq, PeerFrame(p, id))
    /\ UNCHANGED <<localVars, link, outq, peerTodo, peerMisled>>

\* The peer reads a request.
PeerTakeRequest ==
    /\ Alive /\ link = "up" /\ outq # <<>>
    /\ Head(outq).chan # CHANNEL_RESPONSE
    /\ peerTodo' = peerTodo \cup {Head(outq)}
    /\ outq' = Tail(outq)
    /\ UNCHANGED <<localVars, link, inq, peerLast, peerRequests, peerCalled, peerMisled>>

\* The peer reads an answer.
PeerTakeResponse ==
    /\ Alive /\ link = "up" /\ outq # <<>>
    /\ LET f == Head(outq) IN
         /\ f.chan = CHANNEL_RESPONSE
         /\ peerMisled' = (peerMisled \/ peerRequests[f.id] # f.tok)
         /\ peerRequests' = [peerRequests EXCEPT ![f.id] = NoCall]
    /\ outq' = Tail(outq)
    /\ UNCHANGED <<localVars, link, inq, peerLast, peerCalled, peerTodo>>

\* The peer answers a request it has read.
PeerAnswer ==
    /\ Alive /\ link = "up"
    /\ \E f \in peerTodo, ok \in BOOLEAN :
         /\ peerTodo' = peerTodo \ {f}
         /\ inq' = Append(inq, ResponseFrame(f.tok, f.id, ok))
    /\ UNCHANGED <<localVars, link, outq, peerLast, peerRequests, peerCalled, peerMisled>>

LinkDown ==
    /\ MayLoseLink /\ Alive
    /\ link = "up" /\ life # "new"
    /\ link' = "down"
    /\ UNCHANGED <<localVars, inq, outq, peerVars>>

Next ==
    \/ DispatchRequest /\ UNCHANGED peerVars
    \/ DispatchAnswer /\ UNCHANGED peerVars
    \/ DispatchUnknownAnswer /\ UNCHANGED peerVars
    \/ DispatchCall /\ UNCHANGED peerVars
    \/ DispatchUnknownChannel /\ UNCHANGED peerVars
    \/ DispatchResponse /\ UNCHANGED peerVars
    \/ DispatchGet /\ UNCHANGED peerVars
    \/ DispatchException /\ UNCHANGED peerVars
    \/ DispatchTellClosed /\ UNCHANGED peerVars
    \/ DispatchClear /\ UNCHANGED peerVars
    \/ DispatchCallback /\ UNCHANGED peerVars
    \/ DispatchSend /\ UNCHANGED peerVars
    \/ DispatchSendFail /\ UNCHANGED peerVars
    \/ ReceiveBegin /\ UNCHANGED peerVars
    \/ ReceiveFrame /\ UNCHANGED peerVars
    \/ ReceiveFail /\ UNCHANGED peerVars
    \/ PublishIncoming /\ UNCHANGED peerVars
    \/ PublishException /\ UNCHANGED peerVars
    \/ \E p \in PeerCalls : HandlerEnd(p) /\ UNCHANGED peerVars
    \/ \E p \in PeerCalls : PublishResponse(p) /\ UNCHANGED peerVars
    \/ \E p \in PeerCalls : WorkerReturn(p) /\ UNCHANGED peerVars
    \/ \E c \in Calls : CallBegin(c) /\ UNCHANGED peerVars
    \/ \E c \in Calls : PublishRequest(c) /\ UNCHANGED peerVars
    \/ \E ch \in Channels : RegisterChannel(ch) /\ UNCHANGED peerVars
    \/ \E ch \in Channels : UnregisterChannel(ch) /\ UNCHANGED peerVars
    \/ Ready /\ UNCHANGED peerVars
    \/ MayDestroy /\ (DestroyUnready \/ Destroy) /\ UNCHANGED peerVars
    \/ JoinReceiver /\ UNCHANGED peerVars
    \/ JoinDispatcher /\ UNCHANGED peerVars
    \/ \E t \in Threads : CvWait(t) /\ UNCHANGED peerVars
    \/ \E t \in Threads : SpuriousWakeup(t) /\ UNCHANGED peerVars
    \/ \E p \in PeerCalls : PeerCall(p)
    \/ PeerTakeRequest
    \/ PeerTakeResponse
    \/ PeerAnswer
    \/ LinkDown

Spec == Init /\ [][Next]_vars

----------------------------------------------------------------------------
SlotTypeOK ==
    /\ life \in {"new", "ready", "joinReceiver", "joinDispatcher", "destroyed"}
    /\ channels \subseteq Channels
    /\ reason \in Reasons
    /\ request \in Calls \cup {NoCall}
    /\ incoming \in Frame
    /\ response \in Ids
    /\ exception \in BOOLEAN
    /\ waiting \subseteq Threads

DispatchTypeOK ==
    /\ dpc \in {"off", "idle", "send", "get", "closing", "callback", "stuck", "exited",
                "terminated"}
    /\ sending \in Frame
    /\ unsent \subseteq Ids
    /\ lastResponse \in Ids
    /\ requests \in [Ids -> Calls \cup {NoCall}]
    /\ workers \in [Ids -> PeerCalls \cup {NoCall}]

ThreadTypeOK ==
    /\ rpcv \in {"off", "loop", "recv", "deliver", "raise", "done"}
    /\ received \in Frame
    /\ call \in [Calls -> {"idle", "posting", "posted", "value", "error", "closed", "broken",
                          "rethrown", "notReady", "invalid"}]
    /\ got \in [Calls -> Tokens]
    /\ wpc \in [PeerCalls -> {"idle", "running", "finishing", "returning", "finished"}]
    /\ wid \in [PeerCalls -> Ids]
    /\ wok \in [PeerCalls -> BOOLEAN]

EnvironmentTypeOK ==
    /\ link \in {"up", "down"}
    /\ inq \in Seq(Frame)
    /\ outq \in Seq(Frame)
    /\ peerLast \in Ids
    /\ peerRequests \in [Ids -> PeerCalls \cup {NoCall}]
    /\ peerCalled \subseteq PeerCalls
    /\ peerTodo \subseteq Frame
    /\ peerMisled \in BOOLEAN

\* The type invariant of the node and its environment (the members of class Rpc, rpc.h).
TypeOK == SlotTypeOK /\ DispatchTypeOK /\ ThreadTypeOK /\ EnvironmentTypeOK

----------------------------------------------------------------------------
(* Safety.                                                                 *)

\* The promise of a call() under way (Rpc.cpp 278-291) is in exactly one place, the
\* slot's _request or one entry of _requests, until it is resolved; a call() that is not
\* waiting has no promise anywhere.  No interleaving of callers, receiver and dispatcher,
\* no id reuse and no disconnect loses or duplicates one.
PromiseHeldOnce ==
    /\ \A c \in Calls : call[c] = "posted" <=> (request = c \/ \E i \in Ids : requests[i] = c)
    /\ \A i \in Ids : requests[i] # NoCall =>
          /\ request # requests[i]
          /\ \A j \in Ids : requests[j] = requests[i] => i = j

\* An id was given to a call() while an earlier one was still waiting under it
\* (_lastResponse, a uint16_t, has wrapped around, Rpc.cpp 60 and 262).
IdReused ==
    \/ \E c \in Calls : call[c] = "broken"
    \/ request # NoCall /\ ~(reason = "request" /\ dpc \in {"idle", "exited"})

\* As long as no id is reused while it is in use, a call() that returns, returns the
\* answer to its own request (Rpc.cpp 69-74), whatever the order of the answers.
OwnAnswer ==
    IdReused \/ \A c \in Calls : call[c] \in {"value", "error"} => got[c] = c

\* The peer's counterpart: every answer this node sends carries the id under which the
\* peer still waits for it, so the peer is answered at most once and never finds an
\* unknown id (Rpc.cpp 82, 110-126, 143).
PeerNotMisled == ~peerMisled

\* case response never finds its worker gone (_workers.at, Rpc.cpp 110) and its get()
\* waits for a worker that has left its critical section; every other future in _workers
\* belongs to a worker that has yet to publish.
WorkersTracked ==
    /\ DispatcherRuns("response") =>
          /\ workers[response] # NoCall
          /\ wpc[workers[response]] \in {"returning", "finished"}
    /\ dpc = "get" => wpc[sending.tok] \in {"returning", "finished"}
    /\ \A i \in Ids : workers[i] # NoCall /\ wpc[workers[i]] \in {"returning", "finished"} =>
          reason = "response" /\ response = i /\ dpc = "idle"

\* No wake-up is lost between notify_one() of the dispatcher and notify_all() of the
\* others (Rpc.cpp 157, 182, 194, 211, 288): a full slot never finds the dispatcher
\* asleep, and an empty slot never finds every thread that wants it asleep.
NoLostWakeup ==
    /\ reason # "none" => Dispatcher \notin waiting
    /\ dpc = "idle" /\ reason = "none" /\ waiting \ {Dispatcher} # {} =>
          \E t \in Threads \ waiting : Publishing(t)

\* The dispatcher thread, and with it the process, is ended by an exception only after
\* the connection is lost, the node is being destroyed or an id was reused.
NoUnprovokedTerminate ==
    dpc = "terminated" => link = "down" \/ life = "joinReceiver" \/ IdReused

----------------------------------------------------------------------------
(* What call() promises (RpcCalls), and how this node implements it.       *)

\* The frame is an answer the peer gave to c.
Answers(f, c) == f.chan = CHANNEL_RESPONSE /\ f.tok = c

\* What the caller of each call() sees, and the calls that have been answered.
CallStatus ==
    [c \in Calls |->
        CASE call[c] = "idle" -> "idle"
          [] call[c] \in {"posting", "posted"} -> "pending"
          [] call[c] \in {"value", "error"} -> "returned"
          [] OTHER -> "failed"]

AnsweredCalls ==
    {c \in Calls :
        \/ got[c] = c
        \/ Answers(incoming, c) \/ Answers(received, c)
        \/ \E n \in DOMAIN inq : Answers(inq[n], c)}

Contract == INSTANCE RpcCalls WITH status <- CallStatus, answered <- AnsweredCalls

\* With fewer calls than ids, the node, with its slot, maps and threads, implements the
\* contract: call() returns the peer's answer to this very call, after the peer gave it,
\* or fails, and either happens once.
ImplementsRpcCalls == Contract!Spec

----------------------------------------------------------------------------
(* Liveness.  Every thread that can run runs eventually, handlers end, and *)
(* the peer reads and answers; nobody has to call, fail or destroy.        *)

DispatcherStep ==
    \/ DispatchRequest \/ DispatchAnswer \/ DispatchUnknownAnswer \/ DispatchCall
    \/ DispatchUnknownChannel \/ DispatchResponse \/ DispatchGet \/ DispatchException
    \/ DispatchTellClosed \/ DispatchClear \/ DispatchCallback \/ DispatchSend
    \/ DispatchSendFail

ReceiverStep ==
    ReceiveBegin \/ ReceiveFrame \/ ReceiveFail \/ PublishIncoming \/ PublishException

WorkerStep(p) == HandlerEnd(p) \/ PublishResponse(p) \/ WorkerReturn(p)

JoinStep == JoinReceiver \/ JoinDispatcher

Fairness ==
    /\ WF_vars(DispatcherStep /\ UNCHANGED peerVars)
    /\ WF_vars(ReceiverStep /\ UNCHANGED peerVars)
    /\ \A p \in PeerCalls : WF_vars(WorkerStep(p) /\ UNCHANGED peerVars)
    /\ \A c \in Calls : WF_vars(PublishRequest(c) /\ UNCHANGED peerVars)
    /\ WF_vars(JoinStep /\ UNCHANGED peerVars)
    /\ WF_vars(PeerTakeRequest \/ PeerTakeResponse)
    /\ WF_vars(PeerAnswer)

FairSpec == Spec /\ Fairness

Resolved(c) == call[c] \in {"value", "error", "closed", "broken"}

\* While the connection holds, every call() returns (Rpc.cpp 265-292): no thread waits
\* for the slot forever.
CallsReturn == \A c \in Calls : call[c] = "posting" ~> (Resolved(c) \/ link = "down")

\* While the connection holds, every call of the peer is answered.
PeerCallsAnswered ==
    \A p \in PeerCalls :
        p \in peerCalled ~> (link = "down" \/ \A i \in Ids : peerRequests[i] # p)

\* After the connection is lost, every call() whose promise had been registered by the
\* dispatcher ends (Rpc.cpp 135-137), unless a failing send ends the process.
FailureReachesCallers ==
    \A c \in Calls :
        (link = "down" /\ \E i \in Ids : requests[i] = c) ~> (Resolved(c) \/ ~Alive)

\* What the comment in ~Rpc() (Rpc.cpp 20-21) says: cancelling the transport stops the
\* receiver, which stops the dispatcher, so that the destructor returns.
DestructorReturns == life = "joinReceiver" ~> (life = "destroyed" \/ ~Alive)

\* What the comment in ~Rpc() (Rpc.cpp 21) says of a lost connection: the exception that
\* the receiver posts stops the dispatcher, which runs the users' fail-safe callback last.
ExceptionStopsDispatcher == reason = "exception" ~> (dpc = "exited" \/ ~Alive)
============================================================================
