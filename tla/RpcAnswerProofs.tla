-------------------------- MODULE RpcAnswerProofs --------------------------
(***************************************************************************)
(* Proofs about RpcSystem, continued: every answer reaches the call it was *)
(* given for, on either side of the connection, and the node ends its      *)
(* process only when the connection, its owner or a reused id makes it.    *)
(***************************************************************************)
EXTENDS RpcProofs, FiniteSetTheorems

----------------------------------------------------------------------------
(* Frames.                                                                 *)

\* What the frames on each of their stations are: requests of this node on their way out,
\* answers on their way in, and nothing where nothing is expected.
FrameInv ==
    /\ \A c \in Calls : call[c] = "posting" \/ request = c => ChannelOf[c] # CHANNEL_RESPONSE
    /\ sending.tok \in Calls <=> sending.chan # CHANNEL_RESPONSE
    /\ \A n \in DOMAIN outq : outq[n].tok \in Calls <=> outq[n].chan # CHANNEL_RESPONSE
    /\ \A f \in peerTodo : f.tok \in Calls
    /\ \A n \in DOMAIN inq : inq[n].chan = CHANNEL_RESPONSE => inq[n].tok \in Calls
    /\ rpcv = "deliver" /\ received.chan = CHANNEL_RESPONSE => received.tok \in Calls
    /\ rpcv # "deliver" => received = NoFrame
    /\ reason # "incoming" \/ dpc \in {"send", "get", "closing"} => incoming = NoFrame
    /\ reason = "incoming" /\ dpc = "idle" /\ incoming.chan = CHANNEL_RESPONSE =>
          incoming.tok \in Calls
    /\ dpc = "callback" => reason = "none"
    /\ dpc = "closing" => reason = "exception"
    /\ dpc = "get" => reason = "response"
    /\ life = "new" => rpcv = "off"

LEMMA SetOkFacts ==
    \A f \in Frame : \A b :
        /\ [f EXCEPT !.ok = b].tok = f.tok
        /\ [f EXCEPT !.ok = b].id = f.id
        /\ [f EXCEPT !.ok = b].chan = f.chan
  BY DEF Frame

\* A cancelled write leaves nothing, or the frame with another body.
LEMMA CancelWriteFacts ==
    ASSUME sending \in Frame, CancelWrite
    PROVE  \/ /\ UNCHANGED dpc
              /\ sending'.tok = sending.tok
              /\ sending'.id = sending.id
              /\ sending'.chan = sending.chan
           \/ /\ dpc = "send" /\ sending' = NoFrame
              /\ dpc' = IF reason = "exception" THEN "closing" ELSE "terminated"
<1>1. CASE UNCHANGED <<dpc, sending>>
  BY <1>1
<1>2. CASE ~UNCHANGED <<dpc, sending>>
  BY <1>2, SetOkFacts DEF CancelWrite
<1> QED BY <1>1, <1>2

LEMMA InitFrame == Init => FrameInv
  BY TokenFacts, FrameFacts DEF Init, NodeInit, FrameInv

LEMMA NextFrame == TypeInv /\ FrameInv /\ [Next]_vars => FrameInv'
<1> SUFFICES ASSUME TypeInv, FrameInv, [Next]_vars PROVE FrameInv'
  OBVIOUS
<1> USE DEF FrameInv
<1> USE DEF vars, nodeVars, slotVars, dispatchVars, receiveVars, callVars, workVars, linkVars,
            peerVars, localVars
<1>0. /\ inq \in Seq(Frame) /\ outq \in Seq(Frame) /\ peerTodo \subseteq Frame
      /\ received \in Frame /\ incoming \in Frame /\ sending \in Frame
      /\ call \in [Calls -> {"idle", "posting", "posted", "value", "error", "closed", "broken",
                            "rethrown", "notReady", "invalid"}]
      /\ requests \in [Ids -> Calls \cup {NoCall}]
      /\ workers \in [Ids -> PeerCalls \cup {NoCall}]
      /\ request \in Calls \cup {NoCall}
      /\ unsent \subseteq Ids
      /\ response \in Ids
      /\ incoming.chan # CHANNEL_RESPONSE => incoming.tok \in PeerCalls
      /\ dpc \in {"send", "get", "closing"} => reason # "none"
      /\ dpc = "off" => reason = "none"
      /\ life = "new" => dpc = "off"
      /\ reason = "request" /\ dpc = "idle" => request \in Calls
  BY DEF TypeInv, TypeOK, SlotTypeOK, DispatchTypeOK, ThreadTypeOK, EnvironmentTypeOK, IncomingOK,
     DispatchOK
<1>1. CASE DispatchRequest /\ UNCHANGED peerVars
  BY <1>0, <1>1, TokenFacts
  DEF DispatchRequest, DispatcherRuns, StartSend, EmplacePromise, RequestFrame
<1>2. CASE DispatchAnswer /\ UNCHANGED peerVars
  <2>1. requests[incoming.id] \in Calls /\ UNCHANGED <<request, sending, outq, peerTodo, inq, received, rpcv, life>>
    BY <1>0, <1>2, FrameFacts DEF DispatchAnswer
  <2>2. /\ reason' = "none" /\ dpc' = "idle" /\ incoming' = NoFrame
        /\ \A c \in Calls : call'[c] = "posting" => call[c] = "posting"
    BY <1>0, <1>2 DEF DispatchAnswer, FreeSlot
  <2> QED BY <2>1, <2>2
<1>3. CASE DispatchUnknownAnswer /\ UNCHANGED peerVars
  BY <1>0, <1>3 DEF DispatchUnknownAnswer, DispatcherRuns
<1>28. CASE DispatchGet /\ UNCHANGED peerVars
  <2>1. sending'.tok = sending.tok /\ sending'.chan = sending.chan
    BY <1>0, <1>28, SetOkFacts DEF DispatchGet, StartSend
  <2> QED BY <1>0, <1>28, <2>1 DEF DispatchGet, StartSend
<1>4. CASE DispatchCall /\ UNCHANGED peerVars
  BY <1>0, <1>4 DEF DispatchCall, DispatcherRuns, FreeSlot
<1>5. CASE DispatchUnknownChannel /\ UNCHANGED peerVars
  BY <1>0, <1>5, TokenFacts, ChannelAssumption
  DEF DispatchUnknownChannel, DispatcherRuns, StartSend, ResponseFrame
<1>6. CASE DispatchResponse /\ UNCHANGED peerVars
  BY <1>0, <1>6, TokenFacts DEF DispatchResponse, DispatcherRuns, ResponseFrame
<1>7. CASE DispatchException /\ UNCHANGED peerVars
  BY <1>0, <1>7 DEF DispatchException, DispatcherRuns, CloseRegistered
<1>8. CASE DispatchTellClosed /\ UNCHANGED peerVars
  <2>1. PICK i \in unsent : sending' = ResponseFrame(workers[i], i, FALSE)
    BY <1>8 DEF DispatchTellClosed, StartSend
  <2>2. sending'.chan = CHANNEL_RESPONSE /\ sending'.tok \notin Calls
    BY <1>0, <2>1, TokenFacts DEF ResponseFrame
  <2> QED BY <1>0, <1>8, <2>2 DEF DispatchTellClosed, StartSend
<1>9. CASE (DispatchClear \/ DispatchCallback) /\ UNCHANGED peerVars
  BY <1>0, <1>9 DEF DispatchClear, DispatchCallback
<1>10. CASE DispatchSend /\ UNCHANGED peerVars
  <2>1. outq' = Append(outq, sending) /\ sending' = NoFrame
    BY <1>10 DEF DispatchSend
  <2>2. \A n \in DOMAIN outq' : outq'[n].tok \in Calls <=> outq'[n].chan # CHANNEL_RESPONSE
    BY <1>0, <2>1, SeqFacts
  <2>3. CASE reason = "exception"
    BY <1>10, <2>1, <2>2, <2>3, FrameFacts, TokenFacts DEF DispatchSend
  <2>4. CASE reason # "exception"
    <3>1. reason' = "none" /\ dpc' = "idle"
      BY <1>10, <2>4 DEF DispatchSend, FreeSlot
    <3>2. incoming = NoFrame
      BY <1>10 DEF DispatchSend
    <3> QED BY <1>10, <2>1, <2>2, <3>1, <3>2, FrameFacts, TokenFacts DEF DispatchSend
  <2> QED BY <2>3, <2>4
<1>11. CASE DispatchSendFail /\ UNCHANGED peerVars
  BY <1>0, <1>11, FrameFacts, TokenFacts DEF DispatchSendFail
<1>12. CASE (ReceiveBegin \/ ReceiveFail) /\ UNCHANGED peerVars
  BY <1>12 DEF ReceiveBegin, ReceiveFail
<1>13. CASE ReceiveFrame /\ UNCHANGED peerVars
  BY <1>0, <1>13, SeqFacts DEF ReceiveFrame
<1>14. CASE PublishIncoming /\ UNCHANGED peerVars
  BY <1>0, <1>14, FrameFacts DEF PublishIncoming, SlotEmpty, MtxFree
<1>15. CASE PublishException /\ UNCHANGED peerVars
  BY <1>0, <1>15 DEF PublishException, SlotEmpty, MtxFree
<1>16. ASSUME NEW p \in PeerCalls, PublishResponse(p), UNCHANGED peerVars PROVE FrameInv'
  BY <1>0, <1>16 DEF PublishResponse, SlotEmpty, MtxFree
<1>17. ASSUME NEW c \in Calls, CallBegin(c), UNCHANGED peerVars PROVE FrameInv'
  BY <1>0, <1>17 DEF CallBegin
<1>18. ASSUME NEW c \in Calls, PublishRequest(c), UNCHANGED peerVars PROVE FrameInv'
  <2>1. call[c] = "posting" /\ reason = "none" /\ dpc # "callback"
    BY <1>18, InvocationAssumption DEF PublishRequest, SlotEmpty, Publishing, MtxFree
  <2> QED BY <1>0, <1>18, <2>1 DEF PublishRequest
<1>19. CASE Ready /\ UNCHANGED peerVars
  BY <1>0, <1>19 DEF Ready
<1>20. CASE Destroy /\ UNCHANGED peerVars
  <2>1. sending'.tok \in Calls <=> sending'.chan # CHANNEL_RESPONSE
    BY <1>0, <1>20, FrameFacts, TokenFacts, CancelWriteFacts DEF Destroy
  <2>2. dpc' # dpc => \/ dpc = "send" /\ dpc' = "closing" /\ reason = "exception"
                      \/ dpc = "send" /\ dpc' = "terminated"
    BY <1>0, <1>20, CancelWriteFacts DEF Destroy
  <2> QED BY <1>0, <1>20, <2>1, <2>2 DEF Destroy, CancelRead
<1>21. ASSUME NEW p \in PeerCalls, PeerCall(p) PROVE FrameInv'
  <2>1. PICK i \in Ids : inq' = Append(inq, PeerFrame(p, i))
    BY <1>21, IdsFacts DEF PeerCall, TypeInv, TypeOK, EnvironmentTypeOK
  <2>2. PeerFrame(p, i) \in Frame /\ PeerFrame(p, i).chan # CHANNEL_RESPONSE
    BY FrameFacts, ChannelAssumption DEF PeerFrame
  <2>3. \A n \in DOMAIN inq' : inq'[n].chan = CHANNEL_RESPONSE => inq'[n].tok \in Calls
    BY <1>0, <2>1, <2>2, SeqFacts
  <2> QED BY <1>21, <2>3 DEF PeerCall
<1>22. CASE PeerTakeRequest
  BY <1>0, <1>22, SeqFacts DEF PeerTakeRequest
<1>23. CASE PeerTakeResponse
  BY <1>0, <1>23, SeqFacts DEF PeerTakeResponse
<1>24. CASE PeerAnswer
  <2>1. PICK f \in peerTodo, ok \in BOOLEAN : /\ peerTodo' = peerTodo \ {f}
                                             /\ inq' = Append(inq, ResponseFrame(f.tok, f.id, ok))
    BY <1>24 DEF PeerAnswer
  <2>2. ResponseFrame(f.tok, f.id, ok) \in Frame /\ ResponseFrame(f.tok, f.id, ok).tok = f.tok
    BY <1>0, FrameFacts DEF ResponseFrame
  <2>3. \A n \in DOMAIN inq' : inq'[n].chan = CHANNEL_RESPONSE => inq'[n].tok \in Calls
    BY <1>0, <2>1, <2>2, SeqFacts
  <2> QED BY <1>24, <2>1, <2>3 DEF PeerAnswer
<1>25. CASE UNCHANGED <<sending, outq, peerTodo, inq, received, incoming, requests, call, request,
                       dpc, reason, rpcv, life>>
  BY <1>25
<1>26. CASE UNCHANGED vars
  BY <1>25, <1>26
<1>27. CASE Next
  BY <1>1, <1>2, <1>3, <1>4, <1>5, <1>6, <1>7, <1>8, <1>9, <1>10, <1>11, <1>12, <1>13, <1>14,
     <1>15, <1>16, <1>17, <1>18, <1>19, <1>20, <1>21, <1>22, <1>23, <1>24, <1>25, <1>27, <1>28
  DEF Next, HandlerEnd, WorkerReturn, RegisterChannel, UnregisterChannel, DestroyUnready,
      JoinReceiver, JoinDispatcher, CvWait, SpuriousWakeup, LinkDown
<1> QED BY <1>26, <1>27

\* The request of c, or the answer to it, is on its way, with this id.
InFlight(c, id) ==
    \/ sending.tok = c /\ sending.id = id
    \/ \E n \in DOMAIN outq : outq[n].tok = c /\ outq[n].id = id
    \/ \E f \in peerTodo : f.tok = c /\ f.id = id
    \/ \E n \in DOMAIN inq : inq[n].tok = c /\ inq[n].id = id
    \/ received.tok = c /\ received.id = id
    \/ incoming.tok = c /\ incoming.id = id

\* There is one frame for c at most: none on a later station than the first.
OneFrame(c) ==
    /\ received.tok = c => incoming.tok # c
    /\ \A n \in DOMAIN inq : inq[n].tok = c =>
          /\ received.tok # c /\ incoming.tok # c
          /\ \A m \in DOMAIN inq : inq[m].tok = c => m = n
    /\ \A f \in peerTodo : f.tok = c =>
          /\ \A n \in DOMAIN inq : inq[n].tok # c
          /\ received.tok # c /\ incoming.tok # c
          /\ \A g \in peerTodo : g.tok = c => g = f
    /\ \A n \in DOMAIN outq : outq[n].tok = c =>
          /\ \A f \in peerTodo : f.tok # c
          /\ \A m \in DOMAIN inq : inq[m].tok # c
          /\ received.tok # c /\ incoming.tok # c
          /\ \A m \in DOMAIN outq : outq[m].tok = c => m = n
    /\ sending.tok = c =>
          /\ \A n \in DOMAIN outq : outq[n].tok # c
          /\ \A f \in peerTodo : f.tok # c
          /\ \A m \in DOMAIN inq : inq[m].tok # c
          /\ received.tok # c /\ incoming.tok # c

\* The dispatcher looks up no id any more.
Over ==
    \/ dpc \in {"closing", "callback", "exited", "terminated"}
    \/ dpc = "send" /\ reason = "exception"

\* A frame on its way names the id its call is registered under, and a call that returned
\* has its own answer.
Answerable(c) ==
    /\ OneFrame(c)
    /\ \A id \in Ids : InFlight(c, id) =>
          /\ Over \/ requests[id] = c
          /\ call[c] \in {"posted", "closed"} /\ request # c /\ got[c] # c
    /\ call[c] \in {"idle", "posting"} => got[c] # c
    /\ call[c] = "posted" /\ request = c => got[c] # c
    /\ call[c] \in {"value", "error"} => got[c] = c

\* OwnAnswer made inductive.
AnswerInv == IdReused \/ \A c \in Calls : Answerable(c)

----------------------------------------------------------------------------
(* The calls of this node.                                                 *)

LEMMA InitAnswer == Init => AnswerInv
  BY TokenFacts, FrameFacts DEF Init, NodeInit, AnswerInv, Answerable, OneFrame, InFlight

\* Once an id was reused, a broken promise or one stuck in the slot stays as a witness.
LEMMA ReuseStays ==
    ASSUME TypeInv, FrameInv, PromiseHeldOnce, IdReused, [Next]_vars
    PROVE  IdReused'
<1> USE DEF vars, nodeVars, slotVars, dispatchVars, receiveVars, callVars, localVars
<1>0. /\ call \in [Calls -> {"idle", "posting", "posted", "value", "error", "closed", "broken",
                            "rethrown", "notReady", "invalid"}]
      /\ request \in Calls \cup {NoCall}
      /\ request # NoCall => call[request] = "posted"
      /\ \A i \in Ids : requests[i] # NoCall => requests[i] \in Calls /\ call[requests[i]] = "posted"
      /\ dpc = "callback" => reason = "none"
      /\ dpc = "off" => reason = "none"
      /\ life = "new" => dpc = "off"
      /\ incoming.id \in Ids
  BY FrameFacts
  DEF TypeInv, TypeOK, SlotTypeOK, DispatchTypeOK, ThreadTypeOK, DispatchOK, FrameInv,
      PromiseHeldOnce
<1>1. ASSUME NEW c \in Calls, call[c] = "broken" PROVE call'[c] = "broken"
  <2>1. CASE DispatchAnswer
    BY <1>0, <1>1, <2>1 DEF DispatchAnswer
  <2>2. CASE DispatchException
    BY <1>0, <1>1, <2>2, TokenFacts DEF DispatchException, CloseRegistered
  <2>3. ASSUME NEW d \in Calls, CallBegin(d) PROVE call'[c] = "broken"
    BY <1>0, <1>1, <2>3 DEF CallBegin
  <2>4. ASSUME NEW d \in Calls, PublishRequest(d) PROVE call'[c] = "broken"
    <3>1. call[d] = "posting"
      BY <2>4, InvocationAssumption DEF PublishRequest, SlotEmpty, Publishing
    <3> QED BY <1>0, <1>1, <2>4, <3>1 DEF PublishRequest
  <2>5. CASE DispatchRequest
    BY <1>1, <2>5 DEF DispatchRequest
  <2> QED BY <1>1, <2>1, <2>2, <2>3, <2>4, <2>5, OtherStepsKeepPromises
<1>2. ASSUME request # NoCall, ~(reason = "request" /\ dpc \in {"idle", "exited"})
      PROVE  IdReused'
  <2>1. CASE DispatchRequest \/ DispatchAnswer \/ DispatchException
    BY <1>0, <1>2, <2>1
    DEF DispatchRequest, DispatcherRuns, StartSend, DispatchAnswer, FreeSlot, DispatchException,
        IdReused
  <2>2. ASSUME NEW c \in Calls, CallBegin(c) PROVE IdReused'
    BY <1>2, <2>2 DEF CallBegin, IdReused
  <2>3. ASSUME NEW c \in Calls, PublishRequest(c) PROVE IdReused'
    <3>1. call[c] = "posting" /\ request \in Calls /\ request # c
      BY <1>0, <1>2, <2>3, InvocationAssumption DEF PublishRequest, SlotEmpty, Publishing
    <3>2. call'[request] = "broken"
      BY <1>0, <2>3, <3>1 DEF PublishRequest
    <3> QED BY <3>1, <3>2 DEF IdReused
  <2>4. CASE UNCHANGED request
    <3>1. CASE UNCHANGED <<reason, dpc>>
      BY <1>2, <2>4, <3>1 DEF IdReused
    <3>2. CASE Next
      BY <1>0, <1>2, <2>4, <2>1, <2>2, <2>3, <3>1, <3>2
      DEF Next, IdReused, DispatchUnknownAnswer, DispatchCall, DispatchUnknownChannel, DispatcherRuns,
       DispatchResponse, DispatchGet, DispatchTellClosed, DispatchClear, DispatchCallback, StartSend,
       DispatchSend, DispatchSendFail, ReceiveBegin, ReceiveFrame, ReceiveFail, FreeSlot,
       PublishIncoming, PublishException, SlotEmpty, MtxFree, HandlerEnd, PublishResponse, WorkerReturn,
       RegisterChannel, UnregisterChannel, Ready, DestroyUnready, Destroy, CancelWrite, JoinReceiver,
       JoinDispatcher, CvWait, SpuriousWakeup, PeerCall, PeerTakeRequest, PeerTakeResponse,
       PeerAnswer, LinkDown
    <3> QED BY <3>1, <3>2
  <2> QED BY <2>1, <2>2, <2>3, <2>4, OtherStepsKeepPromises
<1> QED BY <1>1, <1>2 DEF IdReused

\* A frame for one of this node's calls moves on to the next station, or is dropped; but
\* for DispatchRequest, no step makes one.
LEMMA FramesMove ==
    ASSUME TypeInv, FrameInv, NEW c \in Calls, OneFrame(c), [Next]_vars, ~DispatchRequest
    PROVE  OneFrame(c)' /\ \A id \in Ids : InFlight(c, id)' => InFlight(c, id)
<1> USE DEF OneFrame, InFlight
<1> USE DEF vars, nodeVars, slotVars, dispatchVars, receiveVars, callVars, workVars, linkVars,
            peerVars, localVars
<1>0. /\ inq \in Seq(Frame) /\ outq \in Seq(Frame) /\ peerTodo \subseteq Frame
      /\ received \in Frame /\ incoming \in Frame /\ sending \in Frame
      /\ workers \in [Ids -> PeerCalls \cup {NoCall}]
      /\ unsent \subseteq Ids
      /\ response \in Ids
      /\ incoming.chan # CHANNEL_RESPONSE => incoming.tok \in PeerCalls
      /\ \A n \in DOMAIN outq : outq[n].tok = c => outq[n].chan # CHANNEL_RESPONSE
      /\ rpcv # "deliver" => received = NoFrame
      /\ reason # "incoming" \/ dpc \in {"send", "get", "closing"} => incoming = NoFrame
      /\ NoFrame.tok # c
      /\ c \notin PeerCalls /\ c # NoCall
  BY TokenFacts, FrameFacts
  DEF TypeInv, TypeOK, SlotTypeOK, DispatchTypeOK, ThreadTypeOK, EnvironmentTypeOK, IncomingOK,
      FrameInv
<1> DEFINE Moved == OneFrame(c)' /\ \A id \in Ids : InFlight(c, id)' => InFlight(c, id)
<1>1. CASE (DispatchAnswer \/ DispatchCall) /\ UNCHANGED peerVars
  BY <1>0, <1>1 DEF DispatchAnswer, DispatchCall
<1>2. CASE DispatchUnknownChannel /\ UNCHANGED peerVars
  <2>1. sending'.tok # c /\ incoming'.tok # c
    BY <1>0, <1>2 DEF DispatchUnknownChannel, StartSend, ResponseFrame
  <2> QED BY <1>2, <2>1 DEF DispatchUnknownChannel
<1>3. CASE DispatchResponse /\ UNCHANGED peerVars
  <2>1. sending'.tok # c
    BY <1>0, <1>3 DEF DispatchResponse, ResponseFrame
  <2> QED BY <1>3, <2>1 DEF DispatchResponse
<1>4. CASE DispatchGet /\ UNCHANGED peerVars
  <2>1. sending'.tok = sending.tok /\ sending'.id = sending.id
    BY <1>0, <1>4, SetOkFacts DEF DispatchGet, StartSend
  <2> QED BY <1>4, <2>1 DEF DispatchGet
<1>5. CASE DispatchTellClosed /\ UNCHANGED peerVars
  <2>1. PICK i \in unsent : sending' = ResponseFrame(workers[i], i, FALSE)
    BY <1>5 DEF DispatchTellClosed, StartSend
  <2>2. sending'.tok # c
    BY <1>0, <2>1 DEF ResponseFrame
  <2> QED BY <1>5, <2>2 DEF DispatchTellClosed
<1>6. CASE DispatchSend /\ UNCHANGED peerVars
  <2>1. /\ outq' = Append(outq, sending) /\ sending'.tok # c
        /\ UNCHANGED <<peerTodo, inq, received, incoming>>
    BY <1>0, <1>6 DEF DispatchSend
  <2>2. /\ DOMAIN outq' = DOMAIN outq \cup {Len(outq) + 1} /\ Len(outq) + 1 \notin DOMAIN outq
        /\ \A n \in DOMAIN outq : outq'[n] = outq[n]
        /\ outq'[Len(outq) + 1] = sending
    BY <1>0, <2>1, SeqFacts
  <2> QED BY <2>1, <2>2
<1>7. CASE DispatchSendFail /\ UNCHANGED peerVars
  BY <1>0, <1>7 DEF DispatchSendFail
<1>8. CASE ReceiveFrame /\ UNCHANGED peerVars
  <2>1. /\ received' = Head(inq) /\ inq' = Tail(inq) /\ inq # <<>> /\ received.tok # c
        /\ UNCHANGED <<sending, outq, peerTodo, incoming>>
    BY <1>0, <1>8 DEF ReceiveFrame
  <2>2. /\ 1 \in DOMAIN inq /\ received' = inq[1]
        /\ \A n \in DOMAIN inq' : n + 1 \in DOMAIN inq /\ n + 1 # 1 /\ inq'[n] = inq[n + 1]
    BY <1>0, <2>1, SeqFacts
  <2>3. \A m, n \in DOMAIN inq' : m + 1 = n + 1 => m = n
    BY <1>0, <2>1
  <2> QED BY <2>1, <2>2, <2>3
<1>9. CASE PublishIncoming /\ UNCHANGED peerVars
  BY <1>0, <1>9 DEF PublishIncoming, SlotEmpty
<1>10. CASE Destroy /\ UNCHANGED peerVars
  <2>1. sending'.tok # c \/ (sending'.tok = sending.tok /\ sending'.id = sending.id)
    BY <1>0, <1>10, CancelWriteFacts DEF Destroy
  <2> QED BY <1>10, <2>1 DEF Destroy
<1>11. ASSUME NEW p \in PeerCalls, PeerCall(p) PROVE Moved
  <2>1. PICK i \in Ids : inq' = Append(inq, PeerFrame(p, i))
    BY <1>11, IdsFacts DEF PeerCall, TypeInv, TypeOK, EnvironmentTypeOK
  <2>2. PeerFrame(p, i) \in Frame /\ PeerFrame(p, i).tok # c
    BY <1>0, FrameFacts DEF PeerFrame
  <2>3. /\ DOMAIN inq' = DOMAIN inq \cup {Len(inq) + 1} /\ Len(inq) + 1 \notin DOMAIN inq
        /\ \A n \in DOMAIN inq : inq'[n] = inq[n]
        /\ inq'[Len(inq) + 1].tok # c
    BY <1>0, <2>1, <2>2, SeqFacts
  <2>4. UNCHANGED <<sending, outq, peerTodo, received, incoming>>
    BY <1>11 DEF PeerCall
  <2> QED BY <2>3, <2>4
<1>12. CASE PeerTakeRequest
  <2>1. /\ outq # <<>> /\ peerTodo' = peerTodo \cup {Head(outq)} /\ outq' = Tail(outq)
        /\ UNCHANGED <<sending, inq, received, incoming>>
    BY <1>12 DEF PeerTakeRequest
  <2>2. /\ 1 \in DOMAIN outq /\ Head(outq) = outq[1]
        /\ \A n \in DOMAIN outq' : n + 1 \in DOMAIN outq /\ n + 1 # 1 /\ outq'[n] = outq[n + 1]
    BY <1>0, <2>1, SeqFacts
  <2>3. \A m, n \in DOMAIN outq' : m + 1 = n + 1 => m = n
    BY <1>0, <2>1
  <2> QED BY <2>1, <2>2, <2>3
<1>13. CASE PeerTakeResponse
  <2>1. /\ outq # <<>> /\ outq' = Tail(outq)
        /\ UNCHANGED <<sending, inq, received, incoming, peerTodo>>
    BY <1>13 DEF PeerTakeResponse
  <2>2. \A n \in DOMAIN outq' : n + 1 \in DOMAIN outq /\ outq'[n] = outq[n + 1]
    BY <1>0, <2>1, SeqFacts
  <2>3. \A m, n \in DOMAIN outq' : m + 1 = n + 1 => m = n
    BY <1>0, <2>1
  <2> QED BY <2>1, <2>2, <2>3
<1>14. CASE PeerAnswer
  <2>1. PICK f \in peerTodo, ok \in BOOLEAN : /\ peerTodo' = peerTodo \ {f}
                                             /\ inq' = Append(inq, ResponseFrame(f.tok, f.id, ok))
    BY <1>14 DEF PeerAnswer
  <2> DEFINE g == ResponseFrame(f.tok, f.id, ok)
  <2>2. g \in Frame /\ g.tok = f.tok /\ g.id = f.id
    BY <1>0, FrameFacts DEF ResponseFrame
  <2>3. /\ DOMAIN inq' = DOMAIN inq \cup {Len(inq) + 1} /\ Len(inq) + 1 \notin DOMAIN inq
        /\ \A n \in DOMAIN inq : inq'[n] = inq[n]
        /\ inq'[Len(inq) + 1] = g
    BY <1>0, <2>1, <2>2, SeqFacts
  <2>4. UNCHANGED <<sending, outq, received, incoming>>
    BY <1>14 DEF PeerAnswer
  <2> HIDE DEF g
  <2> QED BY <2>1, <2>2, <2>3, <2>4
<1>15. CASE UNCHANGED <<sending, outq, peerTodo, inq, received, incoming>>
  BY <1>15
<1>16. CASE UNCHANGED vars
  BY <1>15, <1>16
<1>17. CASE Next
  <2> HIDE DEF OneFrame, InFlight
  <2> QED BY <1>1, <1>2, <1>3, <1>4, <1>5, <1>6, <1>7, <1>8, <1>9, <1>10, <1>11, <1>12, <1>13, <1>14,
     <1>15, <1>17
  DEF Next, DispatchUnknownAnswer, DispatchException, DispatchClear, DispatchCallback, ReceiveBegin,
      ReceiveFail, PublishException, HandlerEnd, PublishResponse, WorkerReturn, CallBegin,
      PublishRequest, RegisterChannel, UnregisterChannel, Ready, DestroyUnready, JoinReceiver,
      JoinDispatcher, CvWait, SpuriousWakeup, LinkDown
<1> QED BY <1>16, <1>17

\* The dispatcher that looks up no id any more never does again.
LEMMA OverStays == TypeInv /\ FrameInv /\ Over /\ [Next]_vars => Over'
<1> SUFFICES ASSUME TypeInv, FrameInv, Over, [Next]_vars PROVE Over'
  OBVIOUS
<1> USE DEF Over
<1> USE DEF vars, nodeVars, slotVars, dispatchVars, localVars
<1>0. /\ dpc # "off" /\ dpc # "idle" /\ dpc # "get" /\ life # "new"
      /\ dpc = "closing" => reason = "exception"
  BY DEF TypeInv, DispatchOK, FrameInv
<1>1. CASE DispatchTellClosed \/ DispatchClear \/ DispatchCallback \/ DispatchSend \/ DispatchSendFail
  BY <1>0, <1>1
  DEF DispatchTellClosed, StartSend, DispatchClear, DispatchCallback, DispatchSend, DispatchSendFail
<1>2. CASE Destroy
  BY <1>2 DEF Destroy, CancelWrite
<1>3. CASE \/ PublishIncoming \/ PublishException
           \/ \E p \in PeerCalls : PublishResponse(p)
           \/ \E c \in Calls : PublishRequest(c)
  BY <1>0, <1>3
  DEF PublishIncoming, PublishException, PublishResponse, PublishRequest, SlotEmpty, MtxFree
<1>4. CASE UNCHANGED <<reason, dpc>>
  BY <1>4
<1>5. CASE Next
  BY <1>0, <1>1, <1>2, <1>3, <1>4, <1>5
  DEF Next, DispatchRequest, DispatchAnswer, DispatchUnknownAnswer, DispatchCall,
      DispatchUnknownChannel, DispatchResponse, DispatchGet, DispatchException, DispatcherRuns,
      ReceiveBegin, ReceiveFrame, ReceiveFail, HandlerEnd, WorkerReturn, CallBegin, RegisterChannel,
      UnregisterChannel, Ready, DestroyUnready, JoinReceiver, JoinDispatcher, CvWait,
      SpuriousWakeup, PeerCall, PeerTakeRequest, PeerTakeResponse, PeerAnswer, LinkDown
<1> QED BY <1>4, <1>5

\* The actions that make a frame, look one up or change what a call() waits for.
LEMMA AnswerSteps ==
    ASSUME [Next]_vars
    PROVE  \/ DispatchRequest /\ UNCHANGED peerVars
           \/ DispatchAnswer /\ UNCHANGED peerVars
           \/ DispatchException
           \/ \E c \in Calls : CallBegin(c) \/ PublishRequest(c)
           \/ ~DispatchRequest /\ UNCHANGED <<call, request, requests, got>>
<1> USE DEF vars, nodeVars, slotVars, dispatchVars, callVars, localVars
<1> DEFINE Quiet == /\ dpc # "idle" \/ reason # "request" \/ dpc' # "send"
                    /\ UNCHANGED <<call, request, requests, got>>
<1>1. UNCHANGED <<dpc, call, request, requests, got>> => Quiet
  OBVIOUS
<1>2. ASSUME Next
      PROVE  \/ DispatchRequest /\ UNCHANGED peerVars
             \/ DispatchAnswer /\ UNCHANGED peerVars
             \/ DispatchException
             \/ \E c \in Calls : CallBegin(c) \/ PublishRequest(c)
             \/ Quiet
  BY <1>1, <1>2
  DEF Next, DispatchUnknownAnswer, DispatchCall, DispatchUnknownChannel, DispatchResponse,
      DispatchGet, DispatchTellClosed, DispatchClear, DispatchCallback, DispatchSend,
      DispatchSendFail, DispatcherRuns, ReceiveBegin, ReceiveFrame, ReceiveFail, PublishIncoming,
      PublishException, HandlerEnd, PublishResponse, WorkerReturn, RegisterChannel,
      UnregisterChannel, Ready, DestroyUnready, Destroy, CancelWrite, JoinReceiver, JoinDispatcher,
      CvWait, SpuriousWakeup, PeerCall, PeerTakeRequest, PeerTakeResponse, PeerAnswer, LinkDown
<1>3. Quiet => ~DispatchRequest
  BY DEF DispatchRequest, DispatcherRuns, StartSend
<1> QED BY <1>1, <1>2, <1>3

LEMMA NextAnswer ==
    TypeInv /\ FrameInv /\ PromiseHeldOnce /\ AnswerInv /\ [Next]_vars => AnswerInv'
<1> SUFFICES ASSUME TypeInv, FrameInv, PromiseHeldOnce, AnswerInv, [Next]_vars, ~IdReused',
                    NEW c \in Calls
             PROVE  Answerable(c)'
  BY DEF AnswerInv
<1>0. /\ requests \in [Ids -> Calls \cup {NoCall}]
      /\ request \in Calls \cup {NoCall}
      /\ call \in [Calls -> {"idle", "posting", "posted", "value", "error", "closed", "broken",
                            "rethrown", "notReady", "invalid"}]
      /\ got \in [Calls -> Tokens]
      /\ incoming \in Frame /\ incoming.id \in Ids
      /\ NoCall \notin Calls
  BY FrameFacts, TokenFacts DEF TypeInv, TypeOK, DispatchTypeOK, SlotTypeOK, ThreadTypeOK
<1>1. /\ \A d \in Calls : Answerable(d)
      /\ Answerable(c) /\ OneFrame(c)
  BY ReuseStays DEF AnswerInv, Answerable
<1>2. Over => Over'
  BY OverStays
<1>3. ~DispatchRequest => OneFrame(c)' /\ \A id \in Ids : InFlight(c, id)' => InFlight(c, id)
  BY <1>1, FramesMove
<1>4. CASE ~DispatchRequest /\ UNCHANGED <<call, request, requests, got>>
  BY <1>1, <1>2, <1>3, <1>4 DEF Answerable
<1>5. CASE DispatchRequest /\ UNCHANGED peerVars
  <2> DEFINE r == request
             i == NewResponse
  <2>1. /\ r \in Calls /\ call[r] = "posted" /\ i \in Ids /\ ~Over
        /\ sending' = RequestFrame(r, i) /\ dpc' = "send"
        /\ UNCHANGED <<call, got, outq, peerTodo, inq, received, incoming>>
    BY <1>0, <1>5, IdsFacts
    DEF DispatchRequest, DispatcherRuns, StartSend, Over, NewResponse, PromiseHeldOnce, TypeInv,
        TypeOK, DispatchTypeOK, DispatchOK, callVars, linkVars, receiveVars, peerVars
  <2>2. /\ requests[i] = NoCall /\ request' = NoCall
        /\ requests' = [requests EXCEPT ![i] = r]
    BY <1>0, <1>5, <2>1 DEF DispatchRequest, EmplacePromise, IdReused
  <2>3. sending'.tok = r /\ sending'.id = i
    BY <2>1 DEF RequestFrame
  <2> HIDE DEF i, Over
  <2>4. CASE c = r
    <3>1. \A id \in Ids : ~InFlight(c, id)
      BY <1>1, <2>4 DEF Answerable
    <3>2. /\ \A n \in DOMAIN outq : outq[n].tok # c
          /\ \A f \in peerTodo : f.tok # c
          /\ \A n \in DOMAIN inq : inq[n].tok # c
          /\ received.tok # c /\ incoming.tok # c
      <4>1. /\ \A n \in DOMAIN outq : outq[n].id \in Ids
            /\ \A f \in peerTodo : f.id \in Ids
            /\ \A n \in DOMAIN inq : inq[n].id \in Ids
            /\ received.id \in Ids /\ incoming.id \in Ids
        BY FrameFacts
        DEF TypeInv, TypeOK, SlotTypeOK, ThreadTypeOK, EnvironmentTypeOK
      <4> QED BY <3>1, <4>1 DEF InFlight
    <3>3. OneFrame(c)'
      BY <2>1, <3>2 DEF OneFrame
    <3>4. \A id \in Ids : InFlight(c, id)' => id = i
      BY <2>1, <2>3, <3>2 DEF InFlight
    <3>5. call[c] = "posted" /\ got[c] # c
      BY <1>1, <2>1, <2>4 DEF Answerable
    <3> QED BY <1>0, <2>1, <2>2, <2>4, <3>3, <3>4, <3>5 DEF Answerable
  <2>5. CASE c # r
    <3>1. OneFrame(c)'
      BY <1>1, <2>1, <2>3, <2>5 DEF OneFrame
    <3>2. \A id \in Ids : InFlight(c, id)' => InFlight(c, id)
      BY <2>1, <2>3, <2>5 DEF InFlight
    <3> QED BY <1>0, <1>1, <2>1, <2>2, <2>5, <3>1, <3>2 DEF Answerable
  <2> QED BY <2>4, <2>5
<1>6. CASE DispatchAnswer /\ UNCHANGED peerVars
  <2> DEFINE d == incoming.tok
             i == incoming.id
  <2>1. /\ d \in Calls /\ ~Over /\ ~DispatchRequest /\ i \in Ids
        /\ requests' = [requests EXCEPT ![i] = NoCall]
        /\ \E s \in {"value", "error"} : call' = [call EXCEPT ![requests[i]] = s]
        /\ got' = [got EXCEPT ![requests[i]] = d]
        /\ incoming' = NoFrame
        /\ UNCHANGED <<request, sending, outq, peerTodo, inq, received>>
    BY <1>0, <1>6
    DEF DispatchAnswer, DispatchRequest, DispatcherRuns, EraseRequest, FrameInv, Over, linkVars,
        receiveVars, peerVars
  <2>2. InFlight(d, i)
    BY DEF InFlight
  <2>3. requests[i] = d
    BY <1>1, <2>1, <2>2 DEF Answerable
  <2> HIDE DEF d, i, Over
  <2>4. CASE c = d
    <3>1. \A id \in Ids : ~InFlight(c, id)'
      BY <1>1, <2>1, <2>4, TokenFacts, FrameFacts DEF OneFrame, InFlight, d
    <3> QED BY <1>0, <1>3, <2>1, <2>3, <2>4, <3>1 DEF Answerable
  <2>5. CASE c # d
    BY <1>0, <1>1, <1>3, <2>1, <2>3, <2>5 DEF Answerable
  <2> QED BY <2>4, <2>5
<1>7. CASE DispatchException
  <2>1. /\ ~DispatchRequest /\ Over'
        /\ \A d \in Calls : call'[d] = call[d] \/ call'[d] = "closed"
        /\ UNCHANGED <<request, got>>
    BY <1>0, <1>7
    DEF DispatchException, DispatchRequest, DispatcherRuns, CloseRegistered, Over, slotVars
  <2> QED BY <1>0, <1>1, <1>3, <2>1 DEF Answerable
<1>8. ASSUME NEW d \in Calls, CallBegin(d) PROVE Answerable(c)'
  <2>1. /\ ~DispatchRequest /\ call[d] = "idle"
        /\ \A e \in Calls : e # d => call'[e] = call[e]
        /\ call'[d] \in {"rethrown", "notReady", "invalid", "posting"}
        /\ UNCHANGED <<request, requests, got>>
    BY <1>0, <1>8
    DEF CallBegin, DispatchRequest, DispatcherRuns, StartSend, slotVars, dispatchVars
  <2> QED BY <1>0, <1>1, <1>2, <1>3, <2>1 DEF Answerable
<1>9. ASSUME NEW d \in Calls, PublishRequest(d) PROVE Answerable(c)'
  <2>1. /\ call[d] = "posting" /\ request' = d
        /\ \A e \in Calls : call'[e] = IF e = d THEN "posted"
                                       ELSE IF e = request THEN "broken" ELSE call[e]
        /\ ~DispatchRequest
        /\ UNCHANGED <<requests, got>>
    BY <1>9, InvocationAssumption
    DEF PublishRequest, SlotEmpty, Publishing, DispatchRequest, DispatcherRuns, dispatchVars
  <2>2. request = NoCall
    BY <1>0, <2>1 DEF IdReused, PromiseHeldOnce
  <2> QED BY <1>0, <1>1, <1>2, <1>3, <2>1, <2>2 DEF Answerable
<1> QED BY <1>4, <1>5, <1>6, <1>7, <1>8, <1>9, AnswerSteps

\* Answers may come in any order and the ids may wrap around: as long as no id is given
\* out while it is in use, call() returns the answer to its own request (Rpc.cpp 60-74).
THEOREM AnswersReachTheirCalls == Spec => []OwnAnswer
<1> DEFINE Inv == TypeInv /\ FrameInv /\ PromiseHeldOnce /\ AnswerInv
<1>1. Init => Inv
  BY InitTypeInv, InitFrame, InitPromise, InitAnswer
<1>2. Inv /\ [Next]_vars => Inv'
  BY NextTypeInv, NextFrame, NextPromise, NextAnswer
<1>3. Inv => OwnAnswer
  BY DEF AnswerInv, Answerable, OwnAnswer
<1> QED BY <1>1, <1>2, <1>3, PTL DEF Spec

\* An answer for an id nobody waits under arrives only after an id was reused.
LEMMA AnswersAreExpected ==
    ASSUME TypeInv, FrameInv, AnswerInv, DispatchUnknownAnswer
    PROVE  IdReused
<1>1. /\ incoming.tok \in Calls /\ incoming.id \in Ids /\ requests[incoming.id] \notin Calls
      /\ ~Over
  BY FrameFacts, TokenFacts
  DEF DispatchUnknownAnswer, DispatcherRuns, FrameInv, Over, TypeInv, TypeOK, SlotTypeOK
<1>2. InFlight(incoming.tok, incoming.id)
  BY DEF InFlight
<1> QED BY <1>1, <1>2 DEF AnswerInv, Answerable

LEMMA NextTerminate ==
    ASSUME TypeInv, FrameInv, PromiseHeldOnce, AnswerInv, NoUnprovokedTerminate, [Next]_vars
    PROVE  NoUnprovokedTerminate'
<1> USE DEF NoUnprovokedTerminate
<1> USE DEF vars, nodeVars, slotVars, dispatchVars, linkVars, localVars
<1>0. IdReused => IdReused'
  BY ReuseStays
<1>1. CASE DispatchUnknownAnswer
  BY <1>0, <1>1, AnswersAreExpected
<1>2. CASE DispatchSendFail
  BY <1>2 DEF DispatchSendFail
<1>3. CASE Destroy
  BY <1>3 DEF Destroy
<1>4. CASE JoinReceiver
  BY <1>4 DEF JoinReceiver, Alive
<1>5. CASE LinkDown \/ JoinDispatcher
  BY <1>0, <1>5 DEF LinkDown, JoinDispatcher
<1>6. CASE UNCHANGED <<dpc, link, life>>
  BY <1>0, <1>6
<1>7. CASE \/ DispatchRequest \/ DispatchAnswer \/ DispatchCall \/ DispatchUnknownChannel
           \/ DispatchResponse \/ DispatchGet \/ DispatchException \/ DispatchTellClosed
           \/ DispatchClear \/ DispatchCallback \/ DispatchSend \/ Ready
  <2>1. dpc' # "terminated"
    BY <1>7
    DEF DispatchRequest, DispatchAnswer, DispatchCall, DispatchUnknownChannel, DispatchResponse,
        DispatchGet, DispatchException, DispatchTellClosed, DispatchClear, DispatchCallback,
        DispatchSend, StartSend, FreeSlot, Ready
  <2> QED BY <2>1
<1>8. CASE Next
  BY <1>0, <1>1, <1>2, <1>3, <1>4, <1>5, <1>6, <1>7, <1>8
  DEF Next, ReceiveBegin, ReceiveFrame, ReceiveFail, PublishIncoming,
      PublishException, HandlerEnd, PublishResponse, WorkerReturn, CallBegin, PublishRequest,
      RegisterChannel, UnregisterChannel, DestroyUnready, CvWait, SpuriousWakeup, PeerCall,
      PeerTakeRequest, PeerTakeResponse, PeerAnswer, MtxFree
<1> QED BY <1>6, <1>8

\* _requests.at() and the failing lock of the catch block end the process (Rpc.cpp 69 and
\* 115-126) only after a disconnect, in the destructor or after an id was reused.
THEOREM TerminateIsProvoked == Spec => []NoUnprovokedTerminate
<1> DEFINE Inv == TypeInv /\ FrameInv /\ PromiseHeldOnce /\ AnswerInv /\ NoUnprovokedTerminate
<1>1. Init => Inv
  <2>1. Init => NoUnprovokedTerminate
    BY DEF Init, NodeInit, NoUnprovokedTerminate
  <2> QED BY <2>1, InitTypeInv, InitFrame, InitPromise, InitAnswer
<1>2. Inv /\ [Next]_vars => Inv'
  BY NextTypeInv, NextFrame, NextPromise, NextAnswer, NextTerminate
<1> QED BY <1>1, <1>2, PTL DEF Spec

----------------------------------------------------------------------------
(* The calls of the peer.                                                  *)

\* The dispatcher tells the callers of running workers that the connection is closed.
Closing == dpc = "closing" \/ (dpc = "send" /\ reason = "exception")

\* The request of p on its way to a handler, with this id.
AskedWith(p, id) ==
    \/ \E n \in DOMAIN inq : Asks(inq[n], p) /\ inq[n].id = id
    \/ Asks(received, p) /\ received.id = id
    \/ Asks(incoming, p) /\ incoming.id = id

\* The answer to p on its way back, with this id.
AnsweredWith(p, id) ==
    \/ sending.tok = p /\ sending.id = id
    \/ \E n \in DOMAIN outq : outq[n].tok = p /\ outq[n].id = id

\* The worker of p is registered under this id and its caller has yet to be answered.
WorkedOn(p, id) == workers[id] = p /\ (Closing => id \in unsent)

\* A call of the peer that is on its way in, worked on or on its way back is open on the
\* other side under the id it came with.
OpenAtPeer ==
    \A p \in PeerCalls, id \in Ids :
        AskedWith(p, id) \/ WorkedOn(p, id) \/ AnsweredWith(p, id) =>
            peerRequests[id] = p /\ p \in peerCalled

\* It is answered once.
AnsweredOnce ==
    /\ \A p \in PeerCalls, id \in Ids :
          AskedWith(p, id) \/ WorkedOn(p, id) => \A i \in Ids : ~AnsweredWith(p, i)
    /\ \A n \in DOMAIN outq : outq[n].tok \in PeerCalls =>
          /\ sending.tok # outq[n].tok
          /\ \A m \in DOMAIN outq : outq[m].tok = outq[n].tok => m = n

\* Every frame on its way out belongs to a call.
OutgoingOK ==
    /\ dpc = "send" => sending.tok # NoCall
    /\ \A n \in DOMAIN outq : outq[n].tok # NoCall
    /\ Closing => \A i \in unsent : workers[i] # NoCall

\* PeerNotMisled made inductive.
PeerInv == PeerNotMisled /\ OpenAtPeer /\ AnsweredOnce /\ OutgoingOK

\* The peer gives out an id only when it is free: what a peer with fewer than IdSpace
\* calls open at a time does.
PeerIdFree ==
    peerCalled' # peerCalled => peerRequests[(peerLast + 1) % IdSpace] = NoCall

LEMMA InitPeer == Init => PeerInv
  BY TokenFacts, FrameFacts
  DEF Init, NodeInit, PeerInv, PeerNotMisled, OpenAtPeer, AnsweredOnce, OutgoingOK, AskedWith,
      WorkedOn, AnsweredWith, Closing, Asks

\* A worker is registered once, and no longer asked for.
LEMMA WorkedOnOnce ==
    ASSUME TypeInv, Fresh, WorkerInv, NEW p \in PeerCalls, NEW i \in Ids, workers[i] = p
    PROVE  /\ \A j \in Ids : workers[j] = p => j = i
           /\ \A id \in Ids : ~AskedWith(p, id)
  BY TokenFacts DEF WorkerInv, Fresh, AskedWith

\* Steps that open nothing: what is on its way afterwards was on its way before.
LEMMA QuietPeerStep ==
    ASSUME PeerInv, UNCHANGED <<peerRequests, peerCalled, peerMisled>>,
           \A p \in PeerCalls, id \in Ids : AskedWith(p, id)' => AskedWith(p, id),
           \A p \in PeerCalls, id \in Ids : WorkedOn(p, id)' => WorkedOn(p, id),
           \A p \in PeerCalls, id \in Ids : AnsweredWith(p, id)' => AnsweredWith(p, id)
    PROVE  /\ PeerNotMisled' /\ OpenAtPeer'
           /\ \A p \in PeerCalls, id \in Ids :
                 AskedWith(p, id)' \/ WorkedOn(p, id)' => \A i \in Ids : ~AnsweredWith(p, i)'
  BY DEF PeerInv, PeerNotMisled, OpenAtPeer, AnsweredOnce

LEMMA NextPeer ==
    ASSUME TypeInv, FrameInv, Fresh, WorkerInv, PeerInv, PeerIdFree, [Next]_vars
    PROVE  PeerInv'
<1> USE DEF vars, nodeVars, slotVars, dispatchVars, receiveVars, callVars, workVars, linkVars,
            peerVars, localVars
<1>0. /\ inq \in Seq(Frame) /\ outq \in Seq(Frame)
      /\ received \in Frame /\ incoming \in Frame /\ sending \in Frame
      /\ workers \in [Ids -> PeerCalls \cup {NoCall}]
      /\ peerRequests \in [Ids -> PeerCalls \cup {NoCall}]
      /\ unsent \subseteq Ids /\ response \in Ids /\ peerLast \in Ids
      /\ incoming.chan # CHANNEL_RESPONSE => incoming.tok \in PeerCalls
      /\ CHANNEL_RESPONSE \notin channels
      /\ dpc = "get" => sending.tok \in PeerCalls
      /\ dpc = "closing" => reason = "exception"
      /\ dpc = "get" => reason = "response"
      /\ dpc \in {"send", "get", "closing"} => reason # "none"
      /\ life = "new" => dpc = "off"
  BY ChannelAssumption
  DEF TypeInv, TypeOK, SlotTypeOK, DispatchTypeOK, ThreadTypeOK, EnvironmentTypeOK, IncomingOK,
      DispatchOK, FrameInv
<1>quiet. ASSUME UNCHANGED <<peerRequests, peerCalled, peerMisled, outq, sending>>,
             \A p \in PeerCalls, id \in Ids : AskedWith(p, id)' => AskedWith(p, id),
             \A p \in PeerCalls, id \in Ids : WorkedOn(p, id)' => WorkedOn(p, id),
             OutgoingOK'
      PROVE  PeerInv'
  <2>1. \A p \in PeerCalls, id \in Ids : AnsweredWith(p, id)' => AnsweredWith(p, id)
    BY <1>quiet DEF AnsweredWith
  <2>2. /\ PeerNotMisled' /\ OpenAtPeer'
        /\ \A p \in PeerCalls, id \in Ids :
                 AskedWith(p, id)' \/ WorkedOn(p, id)' => \A i \in Ids : ~AnsweredWith(p, i)'
    BY <1>quiet, <2>1, QuietPeerStep
  <2>3. AnsweredOnce'
    BY <1>quiet, <2>2 DEF PeerInv, AnsweredOnce
  <2> QED BY <1>quiet, <2>2, <2>3 DEF PeerInv
<1>asked. ASSUME UNCHANGED <<inq, received, incoming>>
      PROVE  \A p \in PeerCalls, id \in Ids : AskedWith(p, id)' => AskedWith(p, id)
  BY <1>asked DEF AskedWith
<1>1. CASE DispatchRequest /\ UNCHANGED peerVars
  <2>1. /\ sending'.tok \notin PeerCalls /\ sending'.tok # NoCall
        /\ dpc' = "send" /\ reason' = "request" /\ dpc = "idle"
        /\ UNCHANGED <<workers, unsent, outq, inq, received, incoming>>
    BY <1>1, TokenFacts
    DEF DispatchRequest, DispatcherRuns, StartSend, RequestFrame, TypeInv, DispatchOK
  <2>2. OutgoingOK' /\ \A p \in PeerCalls, id \in Ids : WorkedOn(p, id)' => WorkedOn(p, id)
    BY <2>1 DEF PeerInv, OutgoingOK, WorkedOn, Closing
  <2>3. \A p \in PeerCalls, id \in Ids : AnsweredWith(p, id)' => AnsweredWith(p, id)
    BY <2>1 DEF AnsweredWith
  <2>4. /\ PeerNotMisled' /\ OpenAtPeer'
        /\ \A p \in PeerCalls, id \in Ids :
                 AskedWith(p, id)' \/ WorkedOn(p, id)' => \A i \in Ids : ~AnsweredWith(p, i)'
    BY <1>1, <1>asked, <2>1, <2>2, <2>3, QuietPeerStep
  <2>5. AnsweredOnce'
    BY <2>1, <2>4 DEF PeerInv, AnsweredOnce
  <2> QED BY <2>2, <2>4, <2>5 DEF PeerInv
<1>2. CASE (DispatchAnswer \/ DispatchUnknownAnswer) /\ UNCHANGED peerVars
  <2>1. \A p \in PeerCalls, id \in Ids : AskedWith(p, id)' => AskedWith(p, id)
    BY <1>2, FrameFacts DEF DispatchAnswer, DispatchUnknownAnswer, AskedWith, Asks
  <2>2. /\ dpc = "idle" /\ dpc' \in {"idle", "terminated"}
        /\ UNCHANGED <<workers, unsent, outq, sending>>
    BY <1>2 DEF DispatchAnswer, DispatchUnknownAnswer, DispatcherRuns, FreeSlot
  <2>3. OutgoingOK' /\ \A p \in PeerCalls, id \in Ids : WorkedOn(p, id)' => WorkedOn(p, id)
    BY <2>2 DEF PeerInv, OutgoingOK, WorkedOn, Closing
  <2> QED BY <1>2, <1>quiet, <2>1, <2>2, <2>3
<1>3. CASE DispatchCall /\ UNCHANGED peerVars
  <2> DEFINE p == incoming.tok
             i == incoming.id
  <2>1. /\ p \in PeerCalls /\ i \in Ids /\ Asks(incoming, p) /\ dpc = "idle"
        /\ incoming' = NoFrame /\ dpc' \in {"idle", "stuck"}
        /\ workers' = workers \/ workers' = [workers EXCEPT ![i] = p]
        /\ UNCHANGED <<unsent, outq, sending, inq, received>>
    BY <1>0, <1>3, FrameFacts DEF DispatchCall, DispatcherRuns, FreeSlot, Asks
  <2>2. \A q \in PeerCalls, id \in Ids : AskedWith(q, id)' => AskedWith(q, id)
    BY <2>1, FrameFacts DEF AskedWith, Asks
  <2>3. AskedWith(p, i)
    BY <2>1 DEF AskedWith
  <2> HIDE DEF p, i
  <2>4. /\ PeerNotMisled' /\ OpenAtPeer'
        /\ \A q \in PeerCalls, id \in Ids : AnsweredWith(q, id)' => AnsweredWith(q, id)
        /\ OutgoingOK'
    <3>1. \A q \in PeerCalls, id \in Ids : AnsweredWith(q, id)' => AnsweredWith(q, id)
      BY <2>1 DEF AnsweredWith
    <3>2. \A q \in PeerCalls, id \in Ids :
             WorkedOn(q, id)' => WorkedOn(q, id) \/ (q = p /\ id = i)
      BY <1>0, <2>1 DEF WorkedOn, Closing
    <3>3. OpenAtPeer'
      BY <1>3, <2>2, <2>3, <3>1, <3>2 DEF PeerInv, OpenAtPeer
    <3> QED BY <1>3, <2>1, <3>1, <3>3 DEF PeerInv, PeerNotMisled, OutgoingOK, Closing
  <2>5. AnsweredOnce'
    <3>1. \A q \in PeerCalls, id \in Ids :
             WorkedOn(q, id)' => WorkedOn(q, id) \/ (q = p /\ id = i)
      BY <1>0, <2>1 DEF WorkedOn, Closing
    <3> QED BY <2>1, <2>2, <2>3, <2>4, <3>1 DEF PeerInv, AnsweredOnce
  <2> QED BY <2>4, <2>5 DEF PeerInv
\* The answer to p starts on its way: p was asked for or worked on, and is no longer.
<1>4. ASSUME NEW p \in PeerCalls, NEW i \in Ids, AskedWith(p, i) \/ WorkedOn(p, i),
             sending'.tok = p, sending'.id = i, OutgoingOK',
             \A id \in Ids : ~AskedWith(p, id)' /\ ~WorkedOn(p, id)',
             \A q \in PeerCalls, id \in Ids : AskedWith(q, id)' => AskedWith(q, id),
             \A q \in PeerCalls, id \in Ids : WorkedOn(q, id)' => WorkedOn(q, id),
             UNCHANGED <<outq, peerVars>>
      PROVE  PeerInv'
  <2>1. \A q \in PeerCalls, id \in Ids :
          AnsweredWith(q, id)' => AnsweredWith(q, id) \/ (q = p /\ id = i)
    BY <1>4 DEF AnsweredWith
  <2>2. OpenAtPeer'
    BY <1>4, <2>1 DEF PeerInv, OpenAtPeer
  <2>3. \A n \in DOMAIN outq : outq[n].tok # p
    <3>1. \A n \in DOMAIN outq : outq[n].id \in Ids
      BY <1>0, FrameFacts
    <3> QED BY <1>4, <3>1 DEF PeerInv, AnsweredOnce, AnsweredWith
  <2>4. AnsweredOnce'
    <3>1. \A q \in PeerCalls, id \in Ids :
             AskedWith(q, id)' \/ WorkedOn(q, id)' => \A j \in Ids : ~AnsweredWith(q, j)'
      BY <1>4, <2>1 DEF PeerInv, AnsweredOnce
    <3>2. \A n \in DOMAIN outq' : outq'[n].tok \in PeerCalls =>
            /\ sending'.tok # outq'[n].tok
            /\ \A m \in DOMAIN outq' : outq'[m].tok = outq'[n].tok => m = n
      BY <1>4, <2>3 DEF PeerInv, AnsweredOnce
    <3> QED BY <3>1, <3>2 DEF AnsweredOnce
  <2> QED BY <1>4, <2>2, <2>4 DEF PeerInv, PeerNotMisled
<1>5. CASE DispatchUnknownChannel /\ UNCHANGED peerVars
  <2>1. PICK p \in PeerCalls, i \in Ids :
          /\ p = incoming.tok /\ i = incoming.id /\ Asks(incoming, p)
          /\ sending' = ResponseFrame(p, i, FALSE)
    BY <1>0, <1>5, FrameFacts DEF DispatchUnknownChannel, StartSend, Asks
  <2>2. /\ dpc = "idle" /\ reason' = "incoming" /\ dpc' = "send" /\ incoming' = NoFrame
        /\ UNCHANGED <<workers, unsent, outq, inq, received, peerVars>>
    BY <1>5 DEF DispatchUnknownChannel, DispatcherRuns, StartSend
  <2>3. AskedWith(p, i)
    BY <2>1 DEF AskedWith
  <2>4. \A q \in PeerCalls, id \in Ids : AskedWith(q, id)' => AskedWith(q, id)
    BY <2>2, FrameFacts DEF AskedWith, Asks
  <2>5. \A id \in Ids : ~AskedWith(p, id)'
    <3>1. ~Asks(received, p) /\ \A n \in DOMAIN inq : ~Asks(inq[n], p)
      BY <2>1 DEF Fresh
    <3> QED BY <2>2, <3>1, FrameFacts DEF AskedWith, Asks
  <2>6. \A id \in Ids : workers[id] # p
    BY <2>1, <2>3, WorkedOnOnce
  <2>7. sending'.tok = p /\ sending'.id = i
    BY <2>1 DEF ResponseFrame
  <2>8. /\ \A q \in PeerCalls, id \in Ids : WorkedOn(q, id)' => WorkedOn(q, id)
        /\ \A id \in Ids : ~WorkedOn(p, id)'
    BY <2>2, <2>6 DEF WorkedOn, Closing
  <2>9. OutgoingOK'
    BY <2>2, <2>7, TokenFacts DEF PeerInv, OutgoingOK, Closing
  <2> QED BY <1>4, <2>2, <2>3, <2>4, <2>5, <2>7, <2>8, <2>9
<1>6. CASE DispatchResponse /\ UNCHANGED peerVars
  <2>1. PICK p \in PeerCalls, i \in Ids :
          /\ p = workers[i] /\ i = response
          /\ workers' = [workers EXCEPT ![i] = NoCall]
          /\ sending' = ResponseFrame(p, i, TRUE)
    BY <1>0, <1>6 DEF DispatchResponse, EraseWorker
  <2>2. /\ dpc = "idle" /\ dpc' = "get"
        /\ UNCHANGED <<unsent, outq, inq, received, incoming, peerVars>>
    BY <1>6 DEF DispatchResponse, DispatcherRuns
  <2>3. sending'.tok = p /\ sending'.id = i
    BY <2>1 DEF ResponseFrame
  <2>4. WorkedOn(p, i)
    BY <2>1, <2>2 DEF WorkedOn, Closing
  <2>5. /\ \A j \in Ids : workers[j] = p => j = i
        /\ \A id \in Ids : ~AskedWith(p, id)'
    BY <2>1, <2>2, <1>asked, WorkedOnOnce
  <2>6. /\ \A q \in PeerCalls, id \in Ids : WorkedOn(q, id)' => WorkedOn(q, id)
        /\ \A id \in Ids : ~WorkedOn(p, id)'
    BY <1>0, <2>1, <2>2, <2>5, TokenFacts DEF WorkedOn, Closing
  <2>7. OutgoingOK'
    BY <2>2 DEF PeerInv, OutgoingOK, Closing
  <2> QED BY <1>4, <1>asked, <2>2, <2>3, <2>4, <2>5, <2>6, <2>7
<1>8. CASE DispatchException /\ UNCHANGED peerVars
  <2>1. /\ dpc' = "closing" /\ dpc = "idle" /\ unsent' = {i \in Ids : workers[i] # NoCall}
        /\ UNCHANGED <<workers, outq, sending, inq, received, incoming>>
    BY <1>8 DEF DispatchException, DispatcherRuns
  <2>2. OutgoingOK' /\ \A p \in PeerCalls, id \in Ids : WorkedOn(p, id)' => WorkedOn(p, id)
    BY <2>1 DEF PeerInv, OutgoingOK, WorkedOn, Closing
  <2> QED BY <1>8, <1>quiet, <1>asked, <2>1, <2>2
<1>9. CASE DispatchTellClosed /\ UNCHANGED peerVars
  <2>1. PICK i \in unsent : unsent' = unsent \ {i} /\ sending' = ResponseFrame(workers[i], i, FALSE)
    BY <1>9 DEF DispatchTellClosed, StartSend
  <2>2. /\ dpc = "closing" /\ dpc' = "send" /\ reason' = "exception"
        /\ UNCHANGED <<workers, outq, inq, received, incoming, peerVars>>
    BY <1>0, <1>9 DEF DispatchTellClosed, StartSend
  <2>3. PICK p \in PeerCalls : p = workers[i]
    BY <1>0, <2>1, <2>2 DEF PeerInv, OutgoingOK, Closing
  <2>4. sending'.tok = p /\ sending'.id = i /\ i \in Ids
    BY <1>0, <2>1, <2>3 DEF ResponseFrame
  <2>5. WorkedOn(p, i)
    BY <2>1, <2>3 DEF WorkedOn
  <2>6. /\ \A j \in Ids : workers[j] = p => j = i
        /\ \A id \in Ids : ~AskedWith(p, id)'
    BY <2>2, <2>3, <2>4, <1>asked, WorkedOnOnce
  <2>7. /\ \A q \in PeerCalls, id \in Ids : WorkedOn(q, id)' => WorkedOn(q, id)
        /\ \A id \in Ids : ~WorkedOn(p, id)'
    BY <2>1, <2>2, <2>6 DEF WorkedOn, Closing
  <2>8. OutgoingOK'
    BY <2>1, <2>2, <2>4, TokenFacts DEF PeerInv, OutgoingOK, Closing
  <2> QED BY <1>4, <1>asked, <2>2, <2>4, <2>5, <2>6, <2>7, <2>8
<1>10. CASE DispatchClear /\ UNCHANGED peerVars
  <2>1. /\ dpc' = "callback" /\ \A i \in Ids : workers'[i] = NoCall
        /\ UNCHANGED <<outq, sending, inq, received, incoming>>
    BY <1>10 DEF DispatchClear
  <2>2. OutgoingOK' /\ \A p \in PeerCalls, id \in Ids : WorkedOn(p, id)' => WorkedOn(p, id)
    BY <2>1, TokenFacts DEF PeerInv, OutgoingOK, WorkedOn, Closing
  <2> QED BY <1>10, <1>quiet, <1>asked, <2>1, <2>2
\* Nothing is left of the frame being sent.
<1>11. ASSUME UNCHANGED <<peerVars, outq, inq, received, incoming, workers, unsent>>,
              \/ sending'.tok \notin PeerCalls
              \/ sending'.tok = sending.tok /\ sending'.id = sending.id,
              OutgoingOK',
              Closing => Closing'
       PROVE  PeerInv'
  <2>1. \A p \in PeerCalls, id \in Ids : AnsweredWith(p, id)' => AnsweredWith(p, id)
    BY <1>11 DEF AnsweredWith
  <2>2. \A p \in PeerCalls, id \in Ids : WorkedOn(p, id)' => WorkedOn(p, id)
    BY <1>11 DEF WorkedOn
  <2>3. /\ PeerNotMisled' /\ OpenAtPeer'
        /\ \A p \in PeerCalls, id \in Ids :
                 AskedWith(p, id)' \/ WorkedOn(p, id)' => \A i \in Ids : ~AnsweredWith(p, i)'
    BY <1>11, <1>asked, <2>1, <2>2, QuietPeerStep
  <2>4. AnsweredOnce'
    BY <1>11, <2>3 DEF PeerInv, AnsweredOnce
  <2> QED BY <1>11, <2>3, <2>4 DEF PeerInv
<1>7. CASE DispatchGet /\ UNCHANGED peerVars
  <2>1. /\ sending'.tok = sending.tok /\ sending'.id = sending.id /\ sending.tok \in PeerCalls
        /\ dpc = "get" /\ dpc' = "send" /\ reason' = reason
        /\ UNCHANGED <<workers, unsent, outq, inq, received, incoming>>
    BY <1>0, <1>7, SetOkFacts DEF DispatchGet, StartSend
  <2>2. OutgoingOK'
    BY <1>0, <2>1, TokenFacts DEF PeerInv, OutgoingOK, Closing
  <2> QED BY <1>7, <1>11, <2>1, <2>2 DEF Closing
<1>12. CASE DispatchSend /\ UNCHANGED peerVars
  <2>1. /\ outq' = Append(outq, sending) /\ sending' = NoFrame /\ dpc = "send"
        /\ UNCHANGED <<inq, received, incoming, workers, unsent>>
        /\ \/ reason = "exception" /\ dpc' = "closing"
           \/ reason # "exception" /\ dpc' = "idle"
    BY <1>12 DEF DispatchSend, FreeSlot
  <2>2. /\ DOMAIN outq' = DOMAIN outq \cup {Len(outq) + 1} /\ Len(outq) + 1 \notin DOMAIN outq
        /\ \A n \in DOMAIN outq : outq'[n] = outq[n]
        /\ outq'[Len(outq) + 1] = sending
    BY <1>0, <2>1, SeqFacts
  <2>3. OutgoingOK'
    BY <2>1, <2>2 DEF PeerInv, OutgoingOK, Closing
  <2>4. \A p \in PeerCalls, id \in Ids : WorkedOn(p, id)' => WorkedOn(p, id)
    BY <2>1 DEF WorkedOn, Closing
  <2>5. \A p \in PeerCalls, id \in Ids : AnsweredWith(p, id)' => AnsweredWith(p, id)
    BY <2>1, <2>2, FrameFacts, TokenFacts DEF AnsweredWith
  <2>6. /\ PeerNotMisled' /\ OpenAtPeer'
        /\ \A p \in PeerCalls, id \in Ids :
                 AskedWith(p, id)' \/ WorkedOn(p, id)' => \A i \in Ids : ~AnsweredWith(p, i)'
    BY <1>12, <1>asked, <2>1, <2>4, <2>5, QuietPeerStep
  <2>7. \A n \in DOMAIN outq' : outq'[n].tok \in PeerCalls =>
          /\ sending'.tok # outq'[n].tok
          /\ \A m \in DOMAIN outq' : outq'[m].tok = outq'[n].tok => m = n
    BY <2>1, <2>2, FrameFacts, TokenFacts DEF PeerInv, AnsweredOnce
  <2>8. AnsweredOnce'
    BY <2>6, <2>7 DEF AnsweredOnce
  <2> QED BY <2>3, <2>6, <2>8 DEF PeerInv
<1>13. CASE DispatchSendFail /\ UNCHANGED peerVars
  <2>1. /\ sending' = NoFrame /\ dpc = "send" /\ reason' = reason
        /\ dpc' = IF reason = "exception" THEN "closing" ELSE "terminated"
        /\ UNCHANGED <<outq, inq, received, incoming, workers, unsent>>
    BY <1>13 DEF DispatchSendFail
  <2>2. OutgoingOK' /\ (Closing => Closing')
    BY <2>1 DEF PeerInv, OutgoingOK, Closing
  <2> QED BY <1>11, <1>13, <2>1, <2>2, FrameFacts, TokenFacts
<1>14. CASE Destroy /\ UNCHANGED peerVars
  <2>1. /\ \/ sending' = NoFrame
           \/ sending'.tok = sending.tok /\ sending'.id = sending.id
        /\ UNCHANGED <<outq, inq, received, incoming, workers, unsent, reason>>
    BY <1>0, <1>14, CancelWriteFacts DEF Destroy
  <2>2. OutgoingOK' /\ (Closing => Closing')
    BY <1>0, <1>14, <2>1, CancelWriteFacts, FrameFacts DEF PeerInv, OutgoingOK, Closing, Destroy
  <2> QED BY <1>11, <1>14, <2>1, <2>2, FrameFacts, TokenFacts
<1>15. CASE ReceiveFrame /\ UNCHANGED peerVars
  <2>1. /\ received' = Head(inq) /\ inq' = Tail(inq) /\ inq # <<>>
        /\ UNCHANGED <<incoming, sending, outq, workers, unsent, reason, dpc>>
    BY <1>15 DEF ReceiveFrame
  <2>2. /\ 1 \in DOMAIN inq /\ received' = inq[1]
        /\ \A n \in DOMAIN inq' : n + 1 \in DOMAIN inq /\ inq'[n] = inq[n + 1]
    BY <1>0, <2>1, SeqFacts
  <2>3. \A p \in PeerCalls, id \in Ids : AskedWith(p, id)' => AskedWith(p, id)
    BY <2>1, <2>2 DEF AskedWith, Asks
  <2>4. OutgoingOK' /\ \A p \in PeerCalls, id \in Ids : WorkedOn(p, id)' => WorkedOn(p, id)
    BY <2>1 DEF PeerInv, OutgoingOK, WorkedOn, Closing
  <2> QED BY <1>15, <1>quiet, <2>1, <2>3, <2>4
<1>16. CASE PublishIncoming /\ UNCHANGED peerVars
  <2>1. /\ incoming' = received /\ received' = NoFrame /\ dpc \in {"idle", "exited"}
        /\ UNCHANGED <<inq, sending, outq, workers, unsent, dpc>>
    BY <1>16 DEF PublishIncoming, SlotEmpty, MtxFree
  <2>2. \A p \in PeerCalls, id \in Ids : AskedWith(p, id)' => AskedWith(p, id)
    BY <2>1, FrameFacts DEF AskedWith, Asks
  <2>3. OutgoingOK' /\ \A p \in PeerCalls, id \in Ids : WorkedOn(p, id)' => WorkedOn(p, id)
    BY <2>1 DEF PeerInv, OutgoingOK, WorkedOn, Closing
  <2> QED BY <1>16, <1>quiet, <2>1, <2>2, <2>3
<1>17. ASSUME NEW p \in PeerCalls, PeerCall(p) PROVE PeerInv'
  <2>1. PICK i \in Ids :
          /\ peerRequests[i] = NoCall /\ peerRequests' = [peerRequests EXCEPT ![i] = p]
          /\ inq' = Append(inq, PeerFrame(p, i))
    BY <1>0, <1>17, IdsFacts DEF PeerCall, PeerIdFree
  <2>2. /\ p \notin peerCalled /\ peerCalled' = peerCalled \cup {p}
        /\ UNCHANGED <<received, incoming, sending, outq, workers, unsent, reason, dpc, peerMisled>>
    BY <1>17 DEF PeerCall
  <2>3. PeerFrame(p, i) \in Frame /\ PeerFrame(p, i).tok = p /\ PeerFrame(p, i).id = i
    BY FrameFacts DEF PeerFrame
  <2>4. \A q \in PeerCalls, id \in Ids : AskedWith(q, id)' => AskedWith(q, id) \/ (q = p /\ id = i)
    BY <1>0, <2>1, <2>2, <2>3, SeqFacts DEF AskedWith, Asks
  <2>5. /\ \A q \in PeerCalls, id \in Ids : WorkedOn(q, id)' <=> WorkedOn(q, id)
        /\ \A q \in PeerCalls, id \in Ids : AnsweredWith(q, id)' <=> AnsweredWith(q, id)
        /\ OutgoingOK'
    BY <2>2 DEF PeerInv, OutgoingOK, WorkedOn, AnsweredWith, Closing
  <2>6. OpenAtPeer'
    BY <1>0, <2>1, <2>2, <2>4, <2>5, TokenFacts DEF PeerInv, OpenAtPeer
  <2>7. AnsweredOnce'
    BY <2>2, <2>4, <2>5 DEF PeerInv, OpenAtPeer, AnsweredOnce
  <2> QED BY <2>2, <2>5, <2>6, <2>7 DEF PeerInv, PeerNotMisled
<1>18. CASE PeerTakeRequest \/ PeerTakeResponse
  <2>1. /\ outq # <<>> /\ outq' = Tail(outq)
        /\ UNCHANGED <<inq, received, incoming, sending, workers, unsent, reason, dpc, peerCalled>>
    BY <1>18 DEF PeerTakeRequest, PeerTakeResponse
  <2>2. PICK f \in Frame : f = outq[1]
    BY <1>0, <2>1, SeqFacts
  <2>3. /\ 1 \in DOMAIN outq /\ Head(outq) = f
        /\ \A n \in DOMAIN outq' : n + 1 \in DOMAIN outq /\ n + 1 # 1 /\ outq'[n] = outq[n + 1]
    BY <1>0, <2>1, <2>2, SeqFacts
  <2>4. \A m, n \in DOMAIN outq' : m + 1 = n + 1 => m = n
    BY <1>0, <2>1
  <2>5. /\ f.tok \in Calls <=> f.chan # CHANNEL_RESPONSE
        /\ f.tok # NoCall /\ f.tok \in Tokens /\ f.id \in Ids
    BY <2>2, <2>3, FrameFacts DEF FrameInv, PeerInv, OutgoingOK
  <2>6. /\ OutgoingOK'
        /\ \A p \in PeerCalls, id \in Ids : WorkedOn(p, id)' => WorkedOn(p, id)
        /\ \A p \in PeerCalls, id \in Ids : AnsweredWith(p, id)' => AnsweredWith(p, id)
    BY <2>1, <2>3 DEF PeerInv, OutgoingOK, WorkedOn, AnsweredWith, Closing
  <2>7. \A n \in DOMAIN outq' : outq'[n].tok \in PeerCalls =>
          /\ sending'.tok # outq'[n].tok
          /\ \A m \in DOMAIN outq' : outq'[m].tok = outq'[n].tok => m = n
    BY <2>1, <2>3, <2>4 DEF PeerInv, AnsweredOnce
  <2>8. CASE f.chan # CHANNEL_RESPONSE
    <3>1. UNCHANGED <<peerRequests, peerMisled>>
      BY <1>18, <2>3, <2>8 DEF PeerTakeRequest, PeerTakeResponse
    <3>2. /\ PeerNotMisled' /\ OpenAtPeer'
          /\ \A p \in PeerCalls, id \in Ids :
                 AskedWith(p, id)' \/ WorkedOn(p, id)' => \A i \in Ids : ~AnsweredWith(p, i)'
      BY <1>asked, <2>1, <2>6, <3>1, QuietPeerStep
    <3> QED BY <2>6, <2>7, <3>2 DEF PeerInv, AnsweredOnce
  <2>9. CASE f.chan = CHANNEL_RESPONSE
    <3>1. f.tok \in PeerCalls
      BY <2>5, <2>9 DEF Tokens
    <3>2. AnsweredWith(f.tok, f.id) /\ f.id \in Ids
      BY <2>2, <2>3, <2>5 DEF AnsweredWith
    <3>3. /\ peerMisled' = (peerMisled \/ peerRequests[f.id] # f.tok)
          /\ peerRequests' = [peerRequests EXCEPT ![f.id] = NoCall]
      BY <1>18, <2>3, <2>9 DEF PeerTakeRequest, PeerTakeResponse
    <3>4. peerRequests[f.id] = f.tok /\ PeerNotMisled'
      BY <3>1, <3>2, <3>3 DEF PeerInv, PeerNotMisled, OpenAtPeer
    <3>5. \A id \in Ids : ~AskedWith(f.tok, id) /\ ~WorkedOn(f.tok, id) /\ ~AnsweredWith(f.tok, id)'
      <4>1. \A id \in Ids : ~AskedWith(f.tok, id) /\ ~WorkedOn(f.tok, id)
        BY <3>1, <3>2 DEF PeerInv, AnsweredOnce
      <4>2. sending.tok # f.tok /\ \A n \in DOMAIN outq' : outq'[n].tok # f.tok
        BY <2>2, <2>3, <3>1 DEF PeerInv, AnsweredOnce
      <4> QED BY <2>1, <4>1, <4>2 DEF AnsweredWith
    <3>6. OpenAtPeer'
      <4> SUFFICES ASSUME NEW p \in PeerCalls, NEW id \in Ids,
                          AskedWith(p, id)' \/ WorkedOn(p, id)' \/ AnsweredWith(p, id)'
                   PROVE  (peerRequests[id] = p /\ p \in peerCalled)'
        BY DEF OpenAtPeer
      <4>1. AskedWith(p, id) \/ WorkedOn(p, id) \/ AnsweredWith(p, id)
        BY <1>asked, <2>1, <2>6
      <4>2. p # f.tok
        BY <1>asked, <2>1, <2>6, <3>5
      <4> QED BY <1>0, <2>1, <3>3, <3>4, <4>1, <4>2 DEF PeerInv, OpenAtPeer
    <3>7. AnsweredOnce'
      BY <1>asked, <2>1, <2>6, <2>7 DEF PeerInv, AnsweredOnce
    <3> QED BY <2>6, <3>4, <3>6, <3>7 DEF PeerInv
  <2> QED BY <2>8, <2>9
<1>19. CASE PeerAnswer
  <2>1. PICK f \in peerTodo, ok \in BOOLEAN : inq' = Append(inq, ResponseFrame(f.tok, f.id, ok))
    BY <1>19 DEF PeerAnswer
  <2>2. ResponseFrame(f.tok, f.id, ok) \in Frame
        /\ ResponseFrame(f.tok, f.id, ok).chan = CHANNEL_RESPONSE
    BY FrameFacts DEF ResponseFrame, TypeInv, TypeOK, EnvironmentTypeOK
  <2>3. UNCHANGED <<received, incoming, sending, outq, workers, unsent, reason, dpc,
                    peerRequests, peerCalled, peerMisled>>
    BY <1>19 DEF PeerAnswer
  <2>4. \A p \in PeerCalls, id \in Ids : AskedWith(p, id)' => AskedWith(p, id)
    BY <1>0, <2>1, <2>2, <2>3, SeqFacts DEF AskedWith, Asks
  <2>5. OutgoingOK' /\ \A p \in PeerCalls, id \in Ids : WorkedOn(p, id)' => WorkedOn(p, id)
    BY <2>3 DEF PeerInv, OutgoingOK, WorkedOn, Closing
  <2> QED BY <1>quiet, <2>3, <2>4, <2>5
<1>20. CASE /\ UNCHANGED <<inq, received, incoming, sending, outq, workers, unsent, peerVars>>
            /\ UNCHANGED <<reason, dpc>> \/ {dpc, dpc'} \subseteq {"off", "idle", "callback", "exited"}
  <2>1. OutgoingOK' /\ \A p \in PeerCalls, id \in Ids : WorkedOn(p, id)' => WorkedOn(p, id)
    BY <1>20 DEF PeerInv, OutgoingOK, WorkedOn, Closing
  <2> QED BY <1>20, <1>quiet, <1>asked, <2>1
<1>21. CASE UNCHANGED vars
  BY <1>20, <1>21
<1>22. CASE Next
  BY <1>0, <1>1, <1>2, <1>3, <1>5, <1>6, <1>7, <1>8, <1>9, <1>10, <1>12, <1>13, <1>14, <1>15, <1>16,
     <1>17, <1>18, <1>19, <1>20, <1>22
  DEF Next, DispatchCallback, ReceiveBegin, ReceiveFail, PublishException, HandlerEnd,
      PublishResponse, WorkerReturn, CallBegin, PublishRequest, SlotEmpty, MtxFree,
      RegisterChannel, UnregisterChannel, Ready, DestroyUnready, JoinReceiver, JoinDispatcher,
      CvWait, SpuriousWakeup, LinkDown
<1> QED BY <1>21, <1>22

\* While a peer gives out only ids that are free, every answer of this node carries the id
\* its caller waits under, and nobody is answered twice (Rpc.cpp 82, 110-126, 143).
THEOREM PeerIsNotMisled == Spec /\ [][PeerIdFree]_vars => []PeerNotMisled
<1> DEFINE Inv == TypeInv /\ FrameInv /\ Fresh /\ WorkerInv /\ PeerInv
<1>1. Init => Inv
  BY InitTypeInv, InitFrame, InitFresh, InitWorker, InitPeer
<1>2. Inv /\ [Next]_vars /\ [PeerIdFree]_vars => Inv'
  <2>1. UNCHANGED vars => PeerIdFree
    BY DEF vars, peerVars, PeerIdFree
  <2> QED BY <2>1, NextTypeInv, NextFrame, NextFresh, NextWorker, NextPeer
<1>3. Inv => PeerNotMisled
  BY DEF PeerInv
<1> QED BY <1>1, <1>2, <1>3, PTL DEF Spec
============================================================================
