----------------------------- MODULE RpcProofs -----------------------------
(***************************************************************************)
(* Proofs about RpcSystem, for any number of calls, channels, ids and any  *)
(* pipe size.                                                              *)
(***************************************************************************)
EXTENDS RpcSystem, TLAPS

\* Every frame that asks for a handler names a call of the peer, a published request has
\* a promise, and a future in get() a worker: what the dispatcher takes for granted.
IncomingOK ==
    /\ \A n \in DOMAIN inq : inq[n].chan # CHANNEL_RESPONSE => inq[n].tok \in PeerCalls
    /\ received.chan # CHANNEL_RESPONSE => received.tok \in PeerCalls
    /\ incoming.chan # CHANNEL_RESPONSE => incoming.tok \in PeerCalls

DispatchOK ==
    /\ reason = "request" /\ dpc = "idle" => request \in Calls
    /\ dpc = "get" => sending.tok \in PeerCalls
    /\ dpc \in {"send", "get", "closing"} => reason # "none"
    /\ dpc = "off" => reason = "none" /\ waiting = {}
    /\ life = "new" => dpc = "off"

TypeInv == TypeOK /\ IncomingOK /\ DispatchOK

LEMMA IdsFacts == 0 \in Ids /\ \A i \in Ids : (i + 1) % IdSpace \in Ids
  BY IdSpaceAssumption DEF Ids

LEMMA FrameFacts ==
    /\ NoFrame \in Frame /\ NoFrame.chan = CHANNEL_RESPONSE /\ NoFrame.tok = NoCall
    /\ \A c \in Calls \cup PeerCalls, i \in Ids :
          [chan |-> ChannelOf[c], id |-> i, ok |-> TRUE, tok |-> c] \in Frame
    /\ \A t \in Tokens, i \in Ids, b \in BOOLEAN :
          [chan |-> CHANNEL_RESPONSE, id |-> i, ok |-> b, tok |-> t] \in Frame
    /\ \A f \in Frame : f.id \in Ids /\ f.tok \in Tokens /\ f.ok \in BOOLEAN
    /\ \A f \in Frame, b \in BOOLEAN : [f EXCEPT !.ok = b] \in Frame
  BY IdsFacts, ChannelAssumption DEF NoFrame, Frame, Tokens, CHANNEL_RESPONSE

LEMMA TokenFacts ==
    /\ NoCall \in Tokens /\ Calls \subseteq Tokens /\ PeerCalls \subseteq Tokens
    /\ NoCall \notin Calls /\ NoCall \notin PeerCalls
    /\ \A c \in Calls : c \notin PeerCalls
  BY InvocationAssumption DEF Tokens

LEMMA FreeSlotFacts ==
    ASSUME FreeSlot, waiting \subseteq Threads
    PROVE  reason' = "none" /\ dpc' = "idle" /\ waiting' \subseteq Threads
  BY DEF FreeSlot, NotifyOne, Threads

\* What the steps of the two queues do.
LEMMA SeqFacts ==
    ASSUME NEW S, NEW q \in Seq(S)
    PROVE  /\ <<>> \in Seq(S)
           /\ \A f \in S :
                /\ Append(q, f) \in Seq(S)
                /\ DOMAIN Append(q, f) = DOMAIN q \cup {Len(q) + 1}
                /\ Len(q) + 1 \notin DOMAIN q
                /\ \A n \in DOMAIN q : Append(q, f)[n] = q[n]
                /\ Append(q, f)[Len(q) + 1] = f
           /\ q # <<>> =>
                /\ Head(q) \in S /\ 1 \in DOMAIN q /\ Head(q) = q[1]
                /\ Tail(q) \in Seq(S)
                /\ \A n \in DOMAIN Tail(q) : n + 1 \in DOMAIN q /\ n + 1 # 1 /\ Tail(q)[n] = q[n + 1]
  OBVIOUS

LEMMA InitTypeInv == Init => TypeInv
<1> SUFFICES ASSUME Init PROVE TypeInv
  OBVIOUS
<1> USE DEF Init, NodeInit
<1>1. SlotTypeOK
  BY IdsFacts, FrameFacts DEF SlotTypeOK, Reasons
<1>2. DispatchTypeOK
  BY IdsFacts, FrameFacts DEF DispatchTypeOK
<1>3. ThreadTypeOK
  BY IdsFacts, FrameFacts DEF ThreadTypeOK, Tokens
<1>4. EnvironmentTypeOK
  <2>1. inq \in Seq(Frame) /\ outq \in Seq(Frame)
    BY SeqFacts
  <2> QED BY <2>1, IdsFacts DEF EnvironmentTypeOK
<1>5. IncomingOK
  BY FrameFacts DEF IncomingOK
<1>6. DispatchOK
  BY DEF DispatchOK
<1> QED BY <1>1, <1>2, <1>3, <1>4, <1>5, <1>6 DEF TypeInv, TypeOK

LEMMA NextTypeInv == TypeInv /\ [Next]_vars => TypeInv'
<1> SUFFICES ASSUME TypeInv, [Next]_vars PROVE TypeInv'
  OBVIOUS
<1> USE IdsFacts, FrameFacts DEF TypeInv, TypeOK, SlotTypeOK, DispatchTypeOK, ThreadTypeOK, EnvironmentTypeOK, IncomingOK, DispatchOK
<1> USE DEF vars, nodeVars, peerVars, localVars, slotVars, dispatchVars, receiveVars, callVars, workVars, linkVars
<1>1. CASE DispatchRequest /\ UNCHANGED peerVars
  <2> USE DEF DispatchRequest, DispatcherRuns, StartSend, NewResponse, EmplacePromise, RequestFrame
  <2>1. request \in Calls /\ NewResponse \in Ids
    BY <1>1
  <2>2. SlotTypeOK' /\ DispatchOK' /\ IncomingOK'
    BY <1>1
  <2>3. DispatchTypeOK'
    BY <1>1, <2>1
  <2>4. ThreadTypeOK' /\ EnvironmentTypeOK'
    BY <1>1
  <2> QED BY <2>2, <2>3, <2>4
<1>2. CASE DispatchAnswer /\ UNCHANGED peerVars
  <2> USE DEF DispatchAnswer, DispatcherRuns, EraseRequest
  <2>1. SlotTypeOK' /\ DispatchOK'
    BY <1>2, FreeSlotFacts DEF Reasons
  <2>2. DispatchTypeOK'
    BY <1>2, FreeSlotFacts
  <2>3. ThreadTypeOK' /\ EnvironmentTypeOK' /\ IncomingOK'
    BY <1>2
  <2> QED BY <2>1, <2>2, <2>3
<1>3. CASE DispatchUnknownAnswer /\ UNCHANGED peerVars
  BY <1>3, SeqFacts DEF DispatchUnknownAnswer, DispatcherRuns, StartSend, FreeSlot, NotifyOne, NotifyAll, SlotEmpty, Publishing, MtxFree, Reasons
<1>4. CASE DispatchCall /\ UNCHANGED peerVars
  <2> USE DEF DispatchCall, DispatcherRuns
  <2>1. incoming.tok \in PeerCalls /\ incoming.id \in Ids
    BY <1>4, ChannelAssumption
  <2>2. SlotTypeOK' /\ DispatchOK'
    BY <1>4, FreeSlotFacts DEF Reasons
  <2>3. DispatchTypeOK'
    BY <1>4, <2>1, FreeSlotFacts
  <2>4. ThreadTypeOK' /\ EnvironmentTypeOK' /\ IncomingOK'
    BY <1>4, <2>1
  <2> QED BY <2>2, <2>3, <2>4
<1>5. CASE DispatchUnknownChannel /\ UNCHANGED peerVars
  <2> USE DEF DispatchUnknownChannel, DispatcherRuns, StartSend, ResponseFrame
  <2>1. SlotTypeOK' /\ DispatchOK' /\ IncomingOK'
    BY <1>5
  <2>2. DispatchTypeOK'
    BY <1>5
  <2>3. ThreadTypeOK' /\ EnvironmentTypeOK'
    BY <1>5
  <2> QED BY <2>1, <2>2, <2>3
<1>6. CASE DispatchResponse /\ UNCHANGED peerVars
  <2> USE DEF DispatchResponse, DispatcherRuns, ResponseFrame, EraseWorker
  <2>1. workers[response] \in Tokens
    BY TokenFacts
  <2>2. SlotTypeOK' /\ DispatchOK' /\ IncomingOK'
    BY <1>6
  <2>3. DispatchTypeOK'
    BY <1>6, <2>1
  <2>4. ThreadTypeOK' /\ EnvironmentTypeOK'
    BY <1>6
  <2> QED BY <2>2, <2>3, <2>4
<1>7. CASE DispatchGet /\ UNCHANGED peerVars
  <2> USE DEF DispatchGet, StartSend
  <2>1. wok[sending.tok] \in BOOLEAN
    BY <1>7
  <2>2. SlotTypeOK' /\ DispatchOK' /\ IncomingOK'
    BY <1>7
  <2>3. DispatchTypeOK'
    BY <1>7, <2>1
  <2>4. ThreadTypeOK' /\ EnvironmentTypeOK'
    BY <1>7
  <2> QED BY <2>2, <2>3, <2>4
<1>8. CASE DispatchException /\ UNCHANGED peerVars
  BY <1>8, SeqFacts DEF DispatchException, DispatcherRuns, StartSend, FreeSlot, NotifyOne, NotifyAll, SlotEmpty, Publishing, MtxFree, Reasons, CloseRegistered
<1>9. CASE DispatchTellClosed /\ UNCHANGED peerVars
  <2> USE DEF DispatchTellClosed, StartSend, ResponseFrame
  <2>1. PICK i \in unsent : unsent' = unsent \ {i} /\ StartSend(ResponseFrame(workers[i], i, FALSE))
    BY <1>9
  <2>2. i \in Ids /\ workers[i] \in Tokens
    BY TokenFacts
  <2>3. SlotTypeOK' /\ DispatchOK' /\ IncomingOK'
    BY <1>9, <2>1
  <2>4. DispatchTypeOK'
    BY <1>9, <2>1, <2>2
  <2>5. ThreadTypeOK' /\ EnvironmentTypeOK'
    BY <1>9
  <2> QED BY <2>3, <2>4, <2>5
<1>10. CASE DispatchClear /\ UNCHANGED peerVars
  BY <1>10, SeqFacts DEF DispatchClear, DispatcherRuns, StartSend, FreeSlot, NotifyOne, NotifyAll, SlotEmpty, Publishing, MtxFree, Reasons
<1>11. CASE DispatchCallback /\ UNCHANGED peerVars
  BY <1>11, SeqFacts DEF DispatchCallback, DispatcherRuns, StartSend, FreeSlot, NotifyOne, NotifyAll, SlotEmpty, Publishing, MtxFree, Reasons
<1>12. CASE DispatchSend /\ UNCHANGED peerVars
  <2> USE DEF DispatchSend
  <2>1. SlotTypeOK' /\ DispatchOK' /\ IncomingOK'
    BY <1>12, FreeSlotFacts DEF Reasons
  <2>2. DispatchTypeOK' /\ ThreadTypeOK'
    BY <1>12, FreeSlotFacts
  <2>3. outq' \in Seq(Frame)
    BY <1>12, SeqFacts
  <2>4. EnvironmentTypeOK'
    BY <1>12, <2>3
  <2> QED BY <2>1, <2>2, <2>4
<1>13. CASE DispatchSendFail /\ UNCHANGED peerVars
  BY <1>13, SeqFacts DEF DispatchSendFail, DispatcherRuns, StartSend, FreeSlot, NotifyOne, NotifyAll, SlotEmpty, Publishing, MtxFree, Reasons
<1>14. CASE ReceiveBegin /\ UNCHANGED peerVars
  BY <1>14, SeqFacts DEF ReceiveBegin, DispatcherRuns, StartSend, FreeSlot, NotifyOne, NotifyAll, SlotEmpty, Publishing, MtxFree, Reasons
<1>15. CASE ReceiveFrame /\ UNCHANGED peerVars
  BY <1>15, SeqFacts DEF ReceiveFrame, DispatcherRuns, StartSend, FreeSlot, NotifyOne, NotifyAll, SlotEmpty, Publishing, MtxFree, Reasons
<1>16. CASE ReceiveFail /\ UNCHANGED peerVars
  BY <1>16, SeqFacts DEF ReceiveFail, DispatcherRuns, StartSend, FreeSlot, NotifyOne, NotifyAll, SlotEmpty, Publishing, MtxFree, Reasons
<1>17. CASE PublishIncoming /\ UNCHANGED peerVars
  BY <1>17, SeqFacts DEF PublishIncoming, DispatcherRuns, StartSend, FreeSlot, NotifyOne, NotifyAll, SlotEmpty, Publishing, MtxFree, Reasons
<1>18. CASE PublishException /\ UNCHANGED peerVars
  BY <1>18, SeqFacts DEF PublishException, DispatcherRuns, StartSend, FreeSlot, NotifyOne, NotifyAll, SlotEmpty, Publishing, MtxFree, Reasons
<1>19. ASSUME NEW p \in PeerCalls, HandlerEnd(p) /\ UNCHANGED peerVars PROVE TypeInv'
  BY <1>19 DEF HandlerEnd, DispatcherRuns, StartSend, FreeSlot, NotifyOne, NotifyAll, SlotEmpty, Publishing, MtxFree, Reasons, AfterHandler
<1>20. ASSUME NEW p \in PeerCalls, PublishResponse(p) /\ UNCHANGED peerVars PROVE TypeInv'
  BY <1>20 DEF PublishResponse, DispatcherRuns, StartSend, FreeSlot, NotifyOne, NotifyAll, SlotEmpty, Publishing, MtxFree, Reasons
<1>21. ASSUME NEW p \in PeerCalls, WorkerReturn(p) /\ UNCHANGED peerVars PROVE TypeInv'
  BY <1>21 DEF WorkerReturn, DispatcherRuns, StartSend, FreeSlot, NotifyOne, NotifyAll, SlotEmpty, Publishing, MtxFree, Reasons
<1>22. ASSUME NEW c \in Calls, CallBegin(c) /\ UNCHANGED peerVars PROVE TypeInv'
  BY <1>22 DEF CallBegin, DispatcherRuns, StartSend, FreeSlot, NotifyOne, NotifyAll, SlotEmpty, Publishing, MtxFree, Reasons
<1>23. ASSUME NEW c \in Calls, PublishRequest(c) /\ UNCHANGED peerVars PROVE TypeInv'
  BY <1>23 DEF PublishRequest, DispatcherRuns, StartSend, FreeSlot, NotifyOne, NotifyAll, SlotEmpty, Publishing, MtxFree, Reasons
<1>24. ASSUME NEW ch \in Channels, RegisterChannel(ch) /\ UNCHANGED peerVars PROVE TypeInv'
  BY <1>24 DEF RegisterChannel, DispatcherRuns, StartSend, FreeSlot, NotifyOne, NotifyAll, SlotEmpty, Publishing, MtxFree, Reasons
<1>25. ASSUME NEW ch \in Channels, UnregisterChannel(ch) /\ UNCHANGED peerVars PROVE TypeInv'
  BY <1>25 DEF UnregisterChannel, DispatcherRuns, StartSend, FreeSlot, NotifyOne, NotifyAll, SlotEmpty, Publishing, MtxFree, Reasons
<1>26. CASE Ready /\ UNCHANGED peerVars
  BY <1>26 DEF Ready, DispatcherRuns, StartSend, FreeSlot, NotifyOne, NotifyAll, SlotEmpty, Publishing, MtxFree, Reasons
<1>27. CASE DestroyUnready /\ UNCHANGED peerVars
  BY <1>27 DEF DestroyUnready, DispatcherRuns, StartSend, FreeSlot, NotifyOne, NotifyAll, SlotEmpty, Publishing, MtxFree, Reasons
<1>28. CASE Destroy /\ UNCHANGED peerVars
  <2> USE DEF Destroy, CancelRead, CancelWrite
  <2>1. SlotTypeOK' /\ DispatchOK' /\ IncomingOK'
    BY <1>28
  <2>2. DispatchTypeOK'
    BY <1>28
  <2>3. ThreadTypeOK' /\ EnvironmentTypeOK'
    BY <1>28
  <2> QED BY <2>1, <2>2, <2>3
<1>29. CASE JoinReceiver /\ UNCHANGED peerVars
  BY <1>29 DEF JoinReceiver, DispatcherRuns, StartSend, FreeSlot, NotifyOne, NotifyAll, SlotEmpty, Publishing, MtxFree, Reasons
<1>30. CASE JoinDispatcher /\ UNCHANGED peerVars
  BY <1>30 DEF JoinDispatcher, DispatcherRuns, StartSend, FreeSlot, NotifyOne, NotifyAll, SlotEmpty, Publishing, MtxFree, Reasons
<1>31. ASSUME NEW t \in Threads, CvWait(t) /\ UNCHANGED peerVars PROVE TypeInv'
  BY <1>31 DEF CvWait, MtxFree
<1>32. ASSUME NEW t \in Threads, SpuriousWakeup(t) /\ UNCHANGED peerVars PROVE TypeInv'
  BY <1>32 DEF SpuriousWakeup, MtxFree
<1>33. ASSUME NEW p \in PeerCalls, PeerCall(p) PROVE TypeInv'
  BY <1>33, SeqFacts, ChannelAssumption DEF PeerCall, PeerFrame
<1>34. CASE PeerTakeRequest
  BY <1>34, SeqFacts DEF PeerTakeRequest, ResponseFrame
<1>35. CASE PeerTakeResponse
  <2> USE DEF PeerTakeResponse
  <2>1. outq' \in Seq(Frame) /\ Head(outq).id \in Ids
    BY <1>35, SeqFacts
  <2>2. EnvironmentTypeOK'
    BY <1>35, <2>1
  <2> QED BY <1>35, <2>2
<1>36. CASE PeerAnswer
  <2> USE DEF PeerAnswer
  <2>1. PICK f \in peerTodo, ok \in BOOLEAN :
          peerTodo' = peerTodo \ {f} /\ inq' = Append(inq, ResponseFrame(f.tok, f.id, ok))
    BY <1>36
  <2>2. ResponseFrame(f.tok, f.id, ok) \in Frame
        /\ ResponseFrame(f.tok, f.id, ok).chan = CHANNEL_RESPONSE
    BY DEF ResponseFrame
  <2>3. inq' \in Seq(Frame) /\ IncomingOK'
    BY <1>36, <2>1, <2>2, SeqFacts
  <2>4. EnvironmentTypeOK'
    BY <1>36, <2>1, <2>3
  <2> QED BY <1>36, <2>3, <2>4
<1>37. CASE LinkDown
  BY <1>37, SeqFacts DEF LinkDown, ResponseFrame
<1>38. CASE UNCHANGED vars
  BY <1>38
<1> QED
  BY <1>1, <1>2, <1>3, <1>4, <1>5, <1>6, <1>7, <1>8, <1>9, <1>10, <1>11, <1>12, <1>13, <1>14, <1>15, <1>16, <1>17, <1>18, <1>19, <1>20, <1>21, <1>22, <1>23, <1>24, <1>25, <1>26, <1>27, <1>28, <1>29, <1>30, <1>31, <1>32, <1>33, <1>34, <1>35, <1>36, <1>37, <1>38 DEF Next

\* The members of the node and of its environment always have their types.
THEOREM TypeCorrect == Spec => []TypeOK
<1>1. Init => TypeInv
  BY InitTypeInv
<1>2. TypeInv /\ [Next]_vars => TypeInv'
  BY NextTypeInv
<1>3. TypeInv => TypeOK
  BY DEF TypeInv
<1> QED BY <1>1, <1>2, <1>3, PTL DEF Spec

----------------------------------------------------------------------------
(* The promise of every call().                                            *)

LEMMA InitPromise == Init => PromiseHeldOnce
  BY TokenFacts DEF Init, NodeInit, PromiseHeldOnce

\* Only five actions touch a promise.
LEMMA OtherStepsKeepPromises ==
    ASSUME [Next]_vars,
           ~DispatchRequest, ~DispatchAnswer, ~DispatchException,
           \A c \in Calls : ~CallBegin(c) /\ ~PublishRequest(c)
    PROVE  UNCHANGED <<call, request, requests>>
<1> USE DEF vars, nodeVars, slotVars, dispatchVars, callVars, localVars
<1>1. CASE UNCHANGED vars
  BY <1>1
<1>2. CASE Next
  BY <1>2 DEF Next, DispatchUnknownAnswer, DispatchCall, DispatchUnknownChannel,
       DispatchResponse, DispatchGet, DispatchTellClosed, DispatchClear, DispatchCallback,
       DispatchSend, DispatchSendFail, ReceiveBegin, ReceiveFrame, ReceiveFail,
       PublishIncoming, PublishException, HandlerEnd, PublishResponse, WorkerReturn,
       RegisterChannel, UnregisterChannel, Ready, DestroyUnready, Destroy, JoinReceiver,
       JoinDispatcher, CvWait, SpuriousWakeup, PeerCall, PeerTakeRequest, PeerTakeResponse,
       PeerAnswer, LinkDown
<1> QED BY <1>1, <1>2

LEMMA NextPromise == TypeInv /\ PromiseHeldOnce /\ [Next]_vars => PromiseHeldOnce'
<1> SUFFICES ASSUME TypeInv, PromiseHeldOnce, [Next]_vars PROVE PromiseHeldOnce'
  OBVIOUS
<1> USE DEF PromiseHeldOnce
<1>0. /\ requests \in [Ids -> Calls \cup {NoCall}]
      /\ request \in Calls \cup {NoCall}
      /\ call \in [Calls -> {"idle", "posting", "posted", "value", "error", "closed", "broken",
                            "rethrown", "notReady", "invalid"}]
  BY DEF TypeInv, TypeOK, DispatchTypeOK, SlotTypeOK, ThreadTypeOK
<1>1. CASE DispatchRequest
  <2>1. request \in Calls /\ NewResponse \in Ids /\ UNCHANGED call
    BY <1>1, IdsFacts
    DEF TypeInv, TypeOK, DispatchTypeOK, DispatchOK, DispatchRequest, DispatcherRuns,
        NewResponse, callVars
  <2> DEFINE id == NewResponse
  <2>2. CASE requests[id] = NoCall
    <3>1. requests' = [requests EXCEPT ![id] = request] /\ request' = NoCall
      BY <1>1, <2>2 DEF DispatchRequest, EmplacePromise
    <3> HIDE DEF id
    <3> QED BY <1>0, <2>1, <2>2, <3>1, TokenFacts DEF id
  <2>3. CASE requests[id] # NoCall
    BY <1>1, <2>1, <2>3 DEF DispatchRequest, EmplacePromise
  <2> QED BY <2>2, <2>3
<1>2. CASE DispatchAnswer
  <2> DEFINE id == incoming.id
             c == requests[id]
  <2>1. id \in Ids /\ c \in Calls /\ UNCHANGED request
    BY <1>0, <1>2, FrameFacts DEF TypeInv, TypeOK, SlotTypeOK, DispatchAnswer
  <2>2. /\ requests' = [requests EXCEPT ![id] = NoCall]
        /\ \E s \in {"value", "error"} : call' = [call EXCEPT ![c] = s]
    BY <1>2 DEF DispatchAnswer, EraseRequest
  <2> HIDE DEF id
  <2> QED BY <1>0, <2>1, <2>2, TokenFacts
<1>3. CASE DispatchException
  BY <1>0, <1>3, TokenFacts DEF DispatchException, CloseRegistered, slotVars
<1>4. ASSUME NEW c \in Calls, CallBegin(c) PROVE PromiseHeldOnce'
  BY <1>0, <1>4 DEF CallBegin, slotVars, dispatchVars
<1>5. ASSUME NEW c \in Calls, PublishRequest(c) PROVE PromiseHeldOnce'
  <2>1. call[c] = "posting" /\ request' = c /\ UNCHANGED requests
    BY <1>5, InvocationAssumption DEF PublishRequest, SlotEmpty, Publishing, dispatchVars
  <2>2. \A d \in Calls : call'[d] = IF d = c THEN "posted"
                                   ELSE IF d = request THEN "broken" ELSE call[d]
    BY <1>5 DEF PublishRequest
  <2> QED BY <1>0, <2>1, <2>2, TokenFacts
<1>6. CASE UNCHANGED <<call, request, requests>>
  BY <1>6
<1> QED BY <1>1, <1>2, <1>3, <1>4, <1>5, <1>6, OtherStepsKeepPromises

\* No interleaving of the node's threads with its peer and a lost connection loses or
\* duplicates the promise a call() waits for.
THEOREM PromisesHeldOnce == Spec => []PromiseHeldOnce
<1>1. Init => TypeInv /\ PromiseHeldOnce
  BY InitTypeInv, InitPromise
<1>2. TypeInv /\ PromiseHeldOnce /\ [Next]_vars => (TypeInv /\ PromiseHeldOnce)'
  BY NextTypeInv, NextPromise
<1> QED BY <1>1, <1>2, PTL DEF Spec

----------------------------------------------------------------------------
(* The workers.                                                            *)

\* f asks this node to run the handler for the peer's call p.
Asks(f, p) == f.chan # CHANNEL_RESPONSE /\ f.tok = p

\* A peer's call has at most one request under way, and none once its worker runs.
Fresh ==
    /\ \A p \in PeerCalls : wpc[p] # "idle" => p \in peerCalled
    /\ \A p \in PeerCalls :
         /\ \A n \in DOMAIN inq : Asks(inq[n], p) =>
               /\ p \in peerCalled /\ wpc[p] = "idle"
               /\ ~Asks(received, p) /\ ~Asks(incoming, p)
               /\ \A m \in DOMAIN inq : Asks(inq[m], p) => m = n
         /\ Asks(received, p) => p \in peerCalled /\ wpc[p] = "idle" /\ ~Asks(incoming, p)
         /\ Asks(incoming, p) => p \in peerCalled /\ wpc[p] = "idle"

LEMMA InitFresh == Init => Fresh
  BY FrameFacts DEF Init, NodeInit, Fresh, Asks

\* The actions that move a peer's request or start, advance or end its worker.
LEMMA FreshSteps ==
    ASSUME [Next]_vars
    PROVE  \/ (DispatchAnswer \/ DispatchUnknownChannel) /\ UNCHANGED peerVars
           \/ DispatchCall /\ UNCHANGED peerVars
           \/ ReceiveFrame /\ UNCHANGED peerVars
           \/ PublishIncoming /\ UNCHANGED peerVars
           \/ PeerAnswer
           \/ \E p \in PeerCalls :
                /\ HandlerEnd(p) \/ PublishResponse(p) \/ WorkerReturn(p)
                /\ UNCHANGED peerVars
           \/ \E p \in PeerCalls : PeerCall(p)
           \/ UNCHANGED <<inq, received, incoming, wpc, peerCalled>>
<1> USE DEF vars, nodeVars, slotVars, dispatchVars, receiveVars, callVars, workVars, linkVars,
            peerVars, localVars
<1>1. CASE UNCHANGED vars
  BY <1>1
<1>2. CASE Next
  BY <1>2 DEF Next, DispatchRequest, DispatchUnknownAnswer, DispatchResponse, DispatchGet,
       DispatchException, DispatchTellClosed, DispatchClear, DispatchCallback, DispatchSend,
       DispatchSendFail, ReceiveBegin, ReceiveFail, PublishException, CallBegin,
       PublishRequest, EmplacePromise, RegisterChannel, UnregisterChannel, Ready, DestroyUnready,
       Destroy, JoinReceiver, JoinDispatcher, CvWait, SpuriousWakeup, PeerTakeRequest,
       PeerTakeResponse, LinkDown
<1> QED BY <1>1, <1>2

LEMMA NextFresh == TypeInv /\ Fresh /\ [Next]_vars => Fresh'
<1> SUFFICES ASSUME TypeInv, Fresh, [Next]_vars PROVE Fresh'
  OBVIOUS
<1> USE DEF Fresh, Asks
<1>0. /\ inq \in Seq(Frame) /\ received \in Frame /\ incoming \in Frame
      /\ wpc \in [PeerCalls -> {"idle", "running", "finishing", "returning", "finished"}]
  BY DEF TypeInv, TypeOK, SlotTypeOK, ThreadTypeOK, EnvironmentTypeOK
<1>1. CASE (DispatchAnswer \/ DispatchUnknownChannel) /\ UNCHANGED peerVars
  BY <1>1, FrameFacts
  DEF DispatchAnswer, DispatchUnknownChannel, receiveVars, workVars, linkVars, peerVars
<1>2. CASE DispatchCall /\ UNCHANGED peerVars
  <2>1. incoming.tok \in PeerCalls /\ Asks(incoming, incoming.tok)
    BY <1>2, ChannelAssumption DEF TypeInv, TypeOK, SlotTypeOK, IncomingOK, DispatchCall
  <2>2. /\ wpc' = [wpc EXCEPT ![incoming.tok] = "running"]
        /\ incoming' = NoFrame
        /\ UNCHANGED <<inq, received, peerCalled>>
    BY <1>2 DEF DispatchCall, receiveVars, linkVars, peerVars
  <2> QED BY <1>0, <2>1, <2>2, FrameFacts
<1>3. CASE ReceiveFrame /\ UNCHANGED peerVars
  <2>1. /\ received' = Head(inq) /\ inq' = Tail(inq) /\ inq # <<>>
        /\ UNCHANGED <<incoming, wpc, peerCalled>>
    BY <1>3 DEF ReceiveFrame, slotVars, workVars, peerVars
  <2>2. /\ 1 \in DOMAIN inq /\ Head(inq) = inq[1]
        /\ \A n \in DOMAIN inq' : n + 1 \in DOMAIN inq /\ n + 1 # 1 /\ inq'[n] = inq[n + 1]
    BY <1>0, <2>1, SeqFacts
  <2>3. \A m, n \in DOMAIN inq' : m + 1 = n + 1 => m = n
    BY <1>0, <2>1
  <2> QED BY <2>1, <2>2, <2>3
<1>4. CASE PublishIncoming /\ UNCHANGED peerVars
  BY <1>4, FrameFacts DEF PublishIncoming, workVars, linkVars, peerVars
<1>5. CASE PeerAnswer
  <2>1. PICK f \in peerTodo, ok \in BOOLEAN :
          inq' = Append(inq, ResponseFrame(f.tok, f.id, ok))
    BY <1>5 DEF PeerAnswer
  <2>2. ResponseFrame(f.tok, f.id, ok) \in Frame
        /\ ResponseFrame(f.tok, f.id, ok).chan = CHANNEL_RESPONSE
    BY FrameFacts DEF ResponseFrame, TypeInv, TypeOK, EnvironmentTypeOK
  <2>3. UNCHANGED <<received, incoming, wpc, peerCalled>>
    BY <1>5 DEF PeerAnswer, localVars, slotVars, receiveVars, workVars
  <2> QED BY <1>0, <2>1, <2>2, <2>3, SeqFacts
<1>6. ASSUME NEW p \in PeerCalls,
             HandlerEnd(p) \/ PublishResponse(p) \/ WorkerReturn(p), UNCHANGED peerVars
      PROVE  Fresh'
  <2>1. /\ wpc[p] # "idle"
        /\ \E s \in {"finishing", "returning", "finished"} : wpc' = [wpc EXCEPT ![p] = s]
        /\ UNCHANGED <<inq, received, incoming, peerCalled>>
    BY <1>6, InvocationAssumption
    DEF HandlerEnd, AfterHandler, PublishResponse, SlotEmpty, Publishing, WorkerReturn,
        slotVars, receiveVars, linkVars, peerVars
  <2> QED BY <1>0, <2>1
<1>7. ASSUME NEW p \in PeerCalls, PeerCall(p) PROVE Fresh'
  <2> DEFINE id == (peerLast + 1) % IdSpace
             f == PeerFrame(p, id)
  <2>1. /\ p \notin peerCalled /\ peerCalled' = peerCalled \cup {p}
        /\ inq' = Append(inq, f)
        /\ UNCHANGED <<received, incoming, wpc>>
    BY <1>7 DEF PeerCall, localVars, slotVars, receiveVars, workVars
  <2>2. f \in Frame /\ f.tok = p
    BY IdsFacts, FrameFacts DEF PeerFrame, TypeInv, TypeOK, EnvironmentTypeOK
  <2> HIDE DEF f
  <2> QED BY <1>0, <2>1, <2>2, SeqFacts
<1>8. CASE UNCHANGED <<inq, received, incoming, wpc, peerCalled>>
  BY <1>8
<1> QED BY <1>1, <1>2, <1>3, <1>4, <1>5, <1>6, <1>7, <1>8, FreshSteps

\* WorkersTracked made inductive: a running worker is the one registered under its id,
\* unless the dispatcher is stuck on a reused id, and none runs once the node is closed.
WorkerInv ==
    /\ \A i \in Ids : workers[i] # NoCall =>
          /\ wid[workers[i]] = i
          /\ wpc[workers[i]] # "idle"
          /\ wpc[workers[i]] \in {"returning", "finished"} =>
                reason = "response" /\ response = i /\ dpc = "idle"
    /\ \A p \in PeerCalls : wpc[p] \in {"running", "finishing"} =>
          workers[wid[p]] = p \/ dpc = "stuck"
    /\ reason = "response" /\ dpc = "idle" =>
          /\ workers[response] # NoCall
          /\ wpc[workers[response]] \in {"returning", "finished"}
    /\ dpc = "get" => wpc[sending.tok] \in {"returning", "finished"}
    /\ dpc \in {"callback", "exited"} => \A i \in Ids : workers[i] = NoCall

LEMMA InitWorker == Init => WorkerInv
  BY DEF Init, NodeInit, WorkerInv

LEMMA NextWorker == TypeInv /\ Fresh /\ WorkerInv /\ [Next]_vars => WorkerInv'
<1> SUFFICES ASSUME TypeInv, Fresh, WorkerInv, [Next]_vars PROVE WorkerInv'
  OBVIOUS
<1> USE DEF WorkerInv
<1> USE DEF vars, nodeVars, slotVars, dispatchVars, receiveVars, callVars, workVars, linkVars,
            peerVars, localVars
<1>0. /\ workers \in [Ids -> PeerCalls \cup {NoCall}]
      /\ wpc \in [PeerCalls -> {"idle", "running", "finishing", "returning", "finished"}]
      /\ wid \in [PeerCalls -> Ids]
      /\ response \in Ids
      /\ dpc = "get" => sending.tok \in PeerCalls
      /\ dpc = "off" => reason = "none"
      /\ life = "new" => dpc = "off"
  BY DEF TypeInv, TypeOK, DispatchTypeOK, SlotTypeOK, ThreadTypeOK, DispatchOK
<1>1. CASE DispatchRequest \/ DispatchUnknownAnswer \/ DispatchUnknownChannel
  BY <1>1 DEF DispatchRequest, DispatchUnknownAnswer, DispatchUnknownChannel, DispatcherRuns,
       StartSend
<1>2. CASE DispatchAnswer \/ DispatchSend
  BY <1>2 DEF DispatchAnswer, DispatchSend, DispatcherRuns, FreeSlot
<1>3. CASE DispatchCall
  <2> DEFINE p == incoming.tok
             id == incoming.id
  <2>1. p \in PeerCalls /\ id \in Ids /\ wpc[p] = "idle"
    BY <1>3, ChannelAssumption, FrameFacts
    DEF DispatchCall, TypeInv, TypeOK, SlotTypeOK, IncomingOK, Fresh, Asks
  <2>2. /\ wpc' = [wpc EXCEPT ![p] = "running"]
        /\ wid' = [wid EXCEPT ![p] = id]
        /\ dpc = "idle" /\ reason = "incoming"
    BY <1>3 DEF DispatchCall, DispatcherRuns
  <2>3. CASE workers[id] = NoCall
    <3>1. workers' = [workers EXCEPT ![id] = p] /\ reason' = "none" /\ dpc' = "idle"
      BY <1>3, <2>3 DEF DispatchCall, FreeSlot
    <3> HIDE DEF p, id
    <3> QED BY <1>0, <2>1, <2>2, <2>3, <3>1, TokenFacts
  <2>4. CASE workers[id] # NoCall
    <3>1. workers' = workers /\ dpc' = "stuck"
      BY <1>3, <2>4 DEF DispatchCall
    <3> HIDE DEF p, id
    <3> QED BY <1>0, <2>1, <2>2, <3>1, TokenFacts
  <2> QED BY <2>3, <2>4
<1>4. CASE DispatchResponse
  <2>1. /\ workers[response] \in PeerCalls /\ dpc = "idle" /\ reason = "response"
        /\ workers' = [workers EXCEPT ![response] = NoCall]
        /\ dpc' = "get" /\ sending'.tok = workers[response]
        /\ UNCHANGED <<wpc, wid, reason, response>>
    BY <1>0, <1>4 DEF DispatchResponse, DispatcherRuns, ResponseFrame, EraseWorker
  <2> QED BY <1>0, <2>1, TokenFacts
<1>5. CASE DispatchGet \/ DispatchTellClosed \/ DispatchSendFail
  BY <1>5 DEF DispatchGet, DispatchTellClosed, DispatchSendFail, StartSend
<1>6. CASE DispatchException
  BY <1>6 DEF DispatchException, DispatcherRuns
<1>7. CASE DispatchClear
  <2>1. dpc = "closing" /\ \A i \in Ids : workers[i] # NoCall => wpc[workers[i]] = "finished"
    BY <1>7 DEF DispatchClear
  <2>2. \A i \in Ids : workers[i] = NoCall
    BY <2>1
  <2>3. \A q \in PeerCalls : wpc[q] \notin {"running", "finishing"}
    BY <1>0, <2>1, <2>2, TokenFacts
  <2>4. /\ workers' = [i \in Ids |-> NoCall] /\ reason' = "none" /\ dpc' = "callback"
        /\ UNCHANGED <<wpc, wid>>
    BY <1>7 DEF DispatchClear
  <2> QED BY <2>3, <2>4
<1>8. CASE DispatchCallback
  BY <1>8 DEF DispatchCallback
<1>9. CASE PublishIncoming \/ PublishException
  BY <1>0, <1>9 DEF PublishIncoming, PublishException, SlotEmpty
<1>10. ASSUME NEW p \in PeerCalls, HandlerEnd(p) PROVE WorkerInv'
  BY <1>0, <1>10, TokenFacts DEF HandlerEnd, AfterHandler
<1>11. ASSUME NEW p \in PeerCalls, PublishResponse(p) PROVE WorkerInv'
  <2>1. /\ wpc[p] = "finishing" /\ dpc \in {"idle", "exited"} /\ reason = "none"
        /\ wpc' = [wpc EXCEPT ![p] = "returning"]
        /\ reason' = "response" /\ response' = wid[p]
        /\ UNCHANGED <<workers, wid, dpc, sending>>
    BY <1>11, InvocationAssumption DEF PublishResponse, SlotEmpty, Publishing, MtxFree
  <2>2. workers[wid[p]] = p /\ wid[p] \in Ids /\ dpc = "idle"
    BY <1>0, <2>1, TokenFacts
  <2> QED BY <1>0, <2>1, <2>2, TokenFacts
<1>12. ASSUME NEW p \in PeerCalls, WorkerReturn(p) PROVE WorkerInv'
  <2>1. /\ wpc[p] = "returning" /\ wpc' = [wpc EXCEPT ![p] = "finished"]
        /\ UNCHANGED <<workers, wid, dpc, sending, reason, response>>
    BY <1>12 DEF WorkerReturn
  <2> QED BY <1>0, <2>1, TokenFacts
<1>13. ASSUME NEW c \in Calls, PublishRequest(c) PROVE WorkerInv'
  BY <1>0, <1>13 DEF PublishRequest, SlotEmpty
<1>14. CASE Ready
  BY <1>0, <1>14 DEF Ready
<1>15. CASE Destroy
  BY <1>15 DEF Destroy, CancelWrite
<1>16. CASE UNCHANGED <<workers, wpc, wid, dpc, sending, reason, response>>
  BY <1>16
<1>17. CASE UNCHANGED vars
  BY <1>16, <1>17
<1>18. CASE Next
  BY <1>1, <1>2, <1>3, <1>4, <1>5, <1>6, <1>7, <1>8, <1>9, <1>10, <1>11, <1>12, <1>13, <1>14,
     <1>15, <1>16, <1>18
  DEF Next, ReceiveBegin, ReceiveFrame, ReceiveFail, CallBegin, RegisterChannel,
      UnregisterChannel, DestroyUnready, JoinReceiver, JoinDispatcher, CvWait, SpuriousWakeup,
      PeerCall, PeerTakeRequest, PeerTakeResponse, PeerAnswer, LinkDown
<1> QED BY <1>17, <1>18

\* _workers always names the future the dispatcher looks for, and a future still in it
\* outside case response belongs to a worker that has yet to publish.
THEOREM WorkersAreTracked == Spec => []WorkersTracked
<1>1. Init => TypeInv /\ Fresh /\ WorkerInv
  BY InitTypeInv, InitFresh, InitWorker
<1>2. TypeInv /\ Fresh /\ WorkerInv /\ [Next]_vars => (TypeInv /\ Fresh /\ WorkerInv)'
  BY NextTypeInv, NextFresh, NextWorker
<1>3. WorkerInv => WorkersTracked
  BY DEF WorkerInv, WorkersTracked, DispatcherRuns
<1> QED BY <1>1, <1>2, <1>3, PTL DEF Spec

----------------------------------------------------------------------------
(* The condition variable.                                                 *)

\* NoLostWakeup made inductive: only the dispatcher and threads that want to publish wait.
WakeInv ==
    /\ NoLostWakeup
    /\ \A t \in waiting : t = Dispatcher \/ Publishing(t)

LEMMA InitWake == Init => WakeInv
  BY DEF Init, NodeInit, WakeInv, NoLostWakeup

LEMMA DispatcherNeverPublishes == ~Publishing(Dispatcher)
  BY InvocationAssumption DEF Publishing, Dispatcher, Receiver

\* Whoever wants to publish before the step wants to publish after it.
PublishersStay == \A t \in Threads : Publishing(t) => Publishing(t)'

\* A step that neither wakes anybody nor touches _reason.
LEMMA QuietStepWakes ==
    ASSUME TypeOK, WakeInv, PublishersStay, UNCHANGED <<waiting, reason>>,
           dpc' = "idle" => dpc = "idle" \/ waiting = {}
    PROVE  WakeInv'
  BY DEF WakeInv, NoLostWakeup, PublishersStay, TypeOK, SlotTypeOK

\* The end of a case: notify_one() wakes a publisher, since the dispatcher is awake.
LEMMA FreeSlotWakes ==
    ASSUME TypeOK, WakeInv, PublishersStay, reason # "none", FreeSlot
    PROVE  WakeInv'
<1>1. PICK rest \in NotifyOne : waiting' = rest \cup {Dispatcher}
  BY DEF FreeSlot
<1>2. Dispatcher \notin waiting /\ waiting \subseteq Threads
  BY DEF WakeInv, NoLostWakeup, TypeOK, SlotTypeOK
<1>3. reason' = "none"
  BY DEF FreeSlot
<1>4. CASE waiting = {}
  BY <1>1, <1>3, <1>4 DEF NotifyOne, WakeInv, NoLostWakeup
<1>5. CASE waiting # {}
  <2>1. PICK t \in waiting : rest = waiting \ {t}
    BY <1>1, <1>5 DEF NotifyOne
  <2>2. t \in Threads \ waiting' /\ Publishing(t)'
    BY <1>1, <1>2, <2>1 DEF WakeInv, PublishersStay
  <2>3. \A u \in waiting' : u = Dispatcher \/ Publishing(u)'
    BY <1>1, <1>2, <2>1 DEF WakeInv, PublishersStay
  <2> QED BY <1>3, <2>2, <2>3 DEF WakeInv, NoLostWakeup
<1> QED BY <1>4, <1>5

LEMMA NextWake ==
    TypeInv /\ PromiseHeldOnce /\ Fresh /\ WakeInv /\ [Next]_vars => WakeInv'
<1> SUFFICES ASSUME TypeInv, PromiseHeldOnce, Fresh, WakeInv, [Next]_vars PROVE WakeInv'
  OBVIOUS
<1> USE DEF vars, nodeVars, slotVars, dispatchVars, receiveVars, callVars, workVars, linkVars,
            peerVars, localVars
<1>0. /\ TypeOK
      /\ call \in [Calls -> {"idle", "posting", "posted", "value", "error", "closed", "broken",
                            "rethrown", "notReady", "invalid"}]
      /\ wpc \in [PeerCalls -> {"idle", "running", "finishing", "returning", "finished"}]
      /\ dpc = "off" => waiting = {}
      /\ life = "new" => dpc = "off"
      /\ dpc = "send" => reason # "none"
  BY DEF TypeInv, TypeOK, ThreadTypeOK, DispatchOK
<1>1. ASSUME UNCHANGED <<rpcv, call, wpc>> PROVE PublishersStay
  BY <1>1 DEF PublishersStay, Publishing
<1>2. CASE DispatchRequest \/ DispatchUnknownAnswer \/ DispatchUnknownChannel \/ DispatchResponse
           \/ DispatchGet \/ DispatchTellClosed \/ DispatchCallback \/ DispatchSendFail
  <2>1. UNCHANGED <<rpcv, call, wpc, waiting, reason>> /\ dpc' # "idle"
    BY <1>2 DEF DispatchRequest, DispatchUnknownAnswer, DispatchUnknownChannel, DispatchResponse,
         DispatchGet, DispatchTellClosed, DispatchCallback, DispatchSendFail, StartSend
  <2> QED BY <1>0, <1>1, <2>1, QuietStepWakes
<1>3. CASE DispatchAnswer
  <2> DEFINE c == requests[incoming.id]
  <2>1. c \in Calls /\ call[c] = "posted" /\ UNCHANGED <<rpcv, wpc>>
    BY <1>3, FrameFacts
    DEF DispatchAnswer, PromiseHeldOnce, TypeInv, TypeOK, SlotTypeOK, DispatchTypeOK
  <2>2. \E r \in {"value", "error"} : call' = [call EXCEPT ![c] = r]
    BY <1>3 DEF DispatchAnswer
  <2>3. PublishersStay
    BY <1>0, <2>1, <2>2 DEF PublishersStay, Publishing
  <2>4. reason # "none" /\ FreeSlot
    BY <1>3 DEF DispatchAnswer, DispatcherRuns
  <2> QED BY <1>0, <2>3, <2>4, FreeSlotWakes
<1>4. CASE DispatchCall
  <2>1. /\ wpc[incoming.tok] = "idle" /\ incoming.tok \in PeerCalls
        /\ wpc' = [wpc EXCEPT ![incoming.tok] = "running"]
        /\ UNCHANGED <<rpcv, call>>
    BY <1>4, ChannelAssumption
    DEF DispatchCall, TypeInv, TypeOK, SlotTypeOK, IncomingOK, Fresh, Asks
  <2>2. PublishersStay
    BY <1>0, <2>1 DEF PublishersStay, Publishing
  <2>3. CASE workers[incoming.id] = NoCall
    <3>1. reason # "none" /\ FreeSlot
      BY <1>4, <2>3 DEF DispatchCall, DispatcherRuns
    <3> QED BY <1>0, <2>2, <3>1, FreeSlotWakes
  <2>4. CASE workers[incoming.id] # NoCall
    <3>1. UNCHANGED <<reason, waiting>> /\ dpc' = "stuck"
      BY <1>4, <2>4 DEF DispatchCall
    <3> QED BY <1>0, <2>2, <3>1, QuietStepWakes
  <2> QED BY <2>3, <2>4
<1>5. CASE DispatchSend
  <2>1. UNCHANGED <<rpcv, call, wpc>>
    BY <1>5 DEF DispatchSend
  <2>2. CASE reason = "exception"
    <3>1. UNCHANGED <<reason, waiting>> /\ dpc' # "idle"
      BY <1>5, <2>2 DEF DispatchSend
    <3> QED BY <1>0, <1>1, <2>1, <3>1, QuietStepWakes
  <2>3. CASE reason # "exception"
    <3>1. FreeSlot /\ reason # "none"
      BY <1>0, <1>5, <2>3 DEF DispatchSend
    <3> QED BY <1>0, <1>1, <2>1, <3>1, FreeSlotWakes
  <2> QED BY <2>2, <2>3
<1>6. CASE DispatchException
  <2>1. UNCHANGED <<rpcv, wpc, waiting, reason>> /\ dpc' # "idle" /\ call' = CloseRegistered
    BY <1>6 DEF DispatchException
  <2>2. \A c \in Calls : call[c] = "posting" => call'[c] = "posting"
    BY <1>0, <2>1 DEF CloseRegistered, PromiseHeldOnce
  <2>3. PublishersStay
    BY <2>1, <2>2 DEF PublishersStay, Publishing
  <2> QED BY <1>0, <2>1, <2>3, QuietStepWakes
<1>7. CASE DispatchClear
  <2>1. /\ UNCHANGED <<rpcv, call, wpc>>
        /\ reason' = "none" /\ dpc' = "callback" /\ waiting' \subseteq waiting
    BY <1>7 DEF DispatchClear, NotifyOne
  <2> QED BY <1>0, <1>1, <2>1 DEF WakeInv, NoLostWakeup, PublishersStay, TypeOK, SlotTypeOK
<1>8. CASE ReceiveBegin \/ ReceiveFrame \/ ReceiveFail
  <2>1. /\ rpcv \notin {"deliver", "raise"}
        /\ UNCHANGED <<call, wpc, waiting, reason, dpc>>
    BY <1>8 DEF ReceiveBegin, ReceiveFrame, ReceiveFail
  <2>2. PublishersStay
    BY <2>1 DEF PublishersStay, Publishing
  <2> QED BY <1>0, <2>1, <2>2, QuietStepWakes
<1>9. CASE \/ PublishIncoming \/ PublishException
           \/ \E p \in PeerCalls : PublishResponse(p)
           \/ \E c \in Calls : PublishRequest(c)
  <2>1. waiting' = {} /\ reason' # "none"
    BY <1>9 DEF PublishIncoming, PublishException, PublishResponse, PublishRequest, NotifyAll
  <2> QED BY <2>1 DEF WakeInv, NoLostWakeup
<1>10. ASSUME NEW p \in PeerCalls, HandlerEnd(p) \/ WorkerReturn(p) PROVE WakeInv'
  <2>1. /\ wpc[p] \in {"running", "returning"}
        /\ \E s \in {"finishing", "finished"} : wpc' = [wpc EXCEPT ![p] = s]
        /\ UNCHANGED <<rpcv, call, waiting, reason, dpc>>
    BY <1>10 DEF HandlerEnd, AfterHandler, WorkerReturn
  <2>2. PublishersStay
    BY <1>0, <2>1 DEF PublishersStay, Publishing
  <2> QED BY <1>0, <2>1, <2>2, QuietStepWakes
<1>11. ASSUME NEW c \in Calls, CallBegin(c) PROVE WakeInv'
  <2>1. /\ call[c] = "idle"
        /\ \A d \in Calls : d # c => call'[d] = call[d]
        /\ UNCHANGED <<rpcv, wpc, waiting, reason, dpc>>
    BY <1>0, <1>11 DEF CallBegin
  <2>2. PublishersStay
    BY <1>0, <2>1 DEF PublishersStay, Publishing
  <2> QED BY <1>0, <2>1, <2>2, QuietStepWakes
<1>12. CASE Ready
  <2>1. /\ waiting = {} /\ rpcv' = "loop"
        /\ UNCHANGED <<call, wpc, waiting, reason>>
    BY <1>0, <1>12 DEF Ready
  <2> QED BY <2>1 DEF WakeInv, NoLostWakeup
<1>13. CASE Destroy
  <2>1. /\ UNCHANGED <<call, wpc, waiting, reason>>
        /\ rpcv \in {"deliver", "raise"} => rpcv' = rpcv
        /\ dpc' = "idle" => dpc = "idle"
    BY <1>13 DEF Destroy, CancelRead, CancelWrite
  <2>2. PublishersStay
    BY <2>1 DEF PublishersStay, Publishing
  <2> QED BY <1>0, <2>1, <2>2, QuietStepWakes
<1>14. ASSUME NEW t \in Threads, CvWait(t) PROVE WakeInv'
  <2>1. /\ waiting' = waiting \cup {t}
        /\ UNCHANGED <<rpcv, call, wpc, reason, dpc>>
        /\ \/ t = Dispatcher /\ reason = "none"
           \/ Publishing(t) /\ reason # "none"
    BY <1>14 DEF CvWait
  <2>2. \A u \in Threads : Publishing(u) => Publishing(u)' /\ u # Dispatcher
    BY <2>1, DispatcherNeverPublishes DEF Publishing
  <2> QED BY <1>0, <2>1, <2>2 DEF WakeInv, NoLostWakeup, TypeOK, SlotTypeOK
<1>15. ASSUME NEW t \in Threads, SpuriousWakeup(t) PROVE WakeInv'
  <2>1. waiting' = waiting \ {t} /\ UNCHANGED <<rpcv, call, wpc, reason, dpc>>
    BY <1>15 DEF SpuriousWakeup
  <2> QED BY <1>0, <1>1, <2>1 DEF WakeInv, NoLostWakeup, PublishersStay, TypeOK, SlotTypeOK
<1>16. CASE UNCHANGED <<rpcv, call, wpc, waiting, reason, dpc>>
  BY <1>0, <1>1, <1>16, QuietStepWakes
<1>17. CASE UNCHANGED vars
  BY <1>16, <1>17
<1>18. CASE Next
  BY <1>2, <1>3, <1>4, <1>5, <1>6, <1>7, <1>8, <1>9, <1>10, <1>11, <1>12, <1>13, <1>14, <1>15,
     <1>16, <1>18
  DEF Next, RegisterChannel, UnregisterChannel, DestroyUnready, JoinReceiver, JoinDispatcher,
      PeerCall, PeerTakeRequest, PeerTakeResponse, PeerAnswer, LinkDown
<1> QED BY <1>17, <1>18

\* The mix of notify_one() and notify_all() on one condition variable loses no wake-up.
THEOREM NoWakeupIsLost == Spec => []NoLostWakeup
<1> DEFINE Inv == TypeInv /\ PromiseHeldOnce /\ Fresh /\ WakeInv
<1>1. Init => Inv
  BY InitTypeInv, InitPromise, InitFresh, InitWake
<1>2. Inv /\ [Next]_vars => Inv'
  BY NextTypeInv, NextPromise, NextFresh, NextWake
<1>3. Inv => NoLostWakeup
  BY DEF WakeInv
<1> QED BY <1>1, <1>2, <1>3, PTL DEF Spec
============================================================================
