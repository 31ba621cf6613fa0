------------------------- MODULE RpcContractProofs -------------------------
(***************************************************************************)
(* Proofs about RpcSystem when fewer calls are made than there are ids, so *)
(* that _lastResponse (uint16_t) does not wrap around: no id is reused, no *)
(* peer is misled, and the node implements RpcCalls.                       *)
(***************************************************************************)
EXTENDS RpcAnswerProofs

----------------------------------------------------------------------------
(* The ids of this node.                                                   *)

\* The calls that were given an id.
Dispatched ==
    {c \in Calls : call[c] \in {"posted", "value", "error", "closed", "broken"} /\ request # c}

\* Ids are given out once each, from 1 on.
CountInv ==
    /\ ~IdReused
    /\ lastResponse = Cardinality(Dispatched)
    /\ \A i \in Ids : requests[i] # NoCall => i <= lastResponse

LEMMA InitCount == Init => CountInv
<1> SUFFICES ASSUME Init PROVE CountInv
  OBVIOUS
<1>1. Dispatched = {}
  BY DEF Init, NodeInit, Dispatched
<1> QED BY <1>1, FS_EmptySet DEF Init, NodeInit, CountInv, IdReused

\* Unless the request in the slot is dispatched, a promise stays there only while the slot
\* waits for the dispatcher.
LEMMA NoReuseSteps ==
    ASSUME TypeInv, FrameInv, PromiseHeldOnce, ~IdReused, [Next]_vars, ~DispatchRequest
    PROVE  ~IdReused'
<1> USE DEF vars, nodeVars, slotVars, dispatchVars, callVars, localVars
<1>0. /\ call \in [Calls -> {"idle", "posting", "posted", "value", "error", "closed", "broken",
                            "rethrown", "notReady", "invalid"}]
      /\ requests \in [Ids -> Calls \cup {NoCall}]
      /\ request \in Calls \cup {NoCall}
      /\ \A c \in Calls : call[c] # "broken"
      /\ request # NoCall => reason = "request" /\ dpc \in {"idle", "exited"}
      /\ life = "new" => dpc = "off"
  BY DEF TypeInv, TypeOK, SlotTypeOK, DispatchTypeOK, ThreadTypeOK, DispatchOK, IdReused
<1>1. \A c \in Calls : call'[c] # "broken"
  <2>1. CASE DispatchAnswer
    BY <1>0, <2>1 DEF DispatchAnswer
  <2>2. CASE DispatchException
    BY <1>0, <2>2 DEF DispatchException, CloseRegistered
  <2>3. ASSUME NEW d \in Calls, CallBegin(d) PROVE \A c \in Calls : call'[c] # "broken"
    BY <1>0, <2>3 DEF CallBegin
  <2>4. ASSUME NEW d \in Calls, PublishRequest(d) PROVE \A c \in Calls : call'[c] # "broken"
    <3>1. request = NoCall
      BY <1>0, <2>4 DEF PublishRequest, SlotEmpty
    <3> QED BY <1>0, <2>4, <3>1, TokenFacts DEF PublishRequest
  <2> QED BY <1>0, <2>1, <2>2, <2>3, <2>4, OtherStepsKeepPromises
<1>2. request' # NoCall => reason' = "request" /\ dpc' \in {"idle", "exited"}
  <2>1. CASE DispatchAnswer \/ DispatchException
    BY <1>0, <2>1 DEF DispatchAnswer, DispatchException, DispatcherRuns
  <2>2. ASSUME NEW d \in Calls, CallBegin(d)
        PROVE  request' # NoCall => reason' = "request" /\ dpc' \in {"idle", "exited"}
    BY <1>0, <2>2 DEF CallBegin
  <2>3. ASSUME NEW d \in Calls, PublishRequest(d)
        PROVE  request' # NoCall => reason' = "request" /\ dpc' \in {"idle", "exited"}
    BY <2>3 DEF PublishRequest, SlotEmpty, MtxFree
  <2>4. CASE UNCHANGED request
    <3>1. SUFFICES ASSUME request # NoCall, reason = "request", dpc \in {"idle", "exited"}
                   PROVE  reason' = "request" /\ dpc' \in {"idle", "exited"}
      BY <1>0, <2>4
    <3>2. CASE UNCHANGED <<reason, dpc>>
      BY <3>1, <3>2
    <3>3. ~DispatchUnknownAnswer /\ ~DispatchCall /\ ~DispatchUnknownChannel /\ ~DispatchResponse
      BY <3>1
      DEF DispatchUnknownAnswer, DispatchCall, DispatchUnknownChannel, DispatchResponse,
          DispatcherRuns
    <3>4. /\ ~DispatchGet /\ ~DispatchTellClosed /\ ~DispatchClear /\ ~DispatchCallback
          /\ ~DispatchSend /\ ~DispatchSendFail /\ ~Ready
          /\ CancelWrite => UNCHANGED dpc
      BY <1>0, <3>1
      DEF DispatchGet, DispatchTellClosed, DispatchClear, DispatchCallback, DispatchSend,
          DispatchSendFail, Ready, CancelWrite
    <3>5. CASE Next
      BY <2>1, <2>2, <2>3, <2>4, <3>1, <3>2, <3>3, <3>4, <3>5
      DEF Next, ReceiveBegin, ReceiveFrame, ReceiveFail, PublishIncoming, PublishException,
          SlotEmpty, HandlerEnd, PublishResponse, WorkerReturn, RegisterChannel, UnregisterChannel,
          DestroyUnready, Destroy, JoinReceiver, JoinDispatcher, CvWait, SpuriousWakeup, PeerCall,
          PeerTakeRequest, PeerTakeResponse, PeerAnswer, LinkDown
    <3> QED BY <3>2, <3>5
  <2> QED BY <2>1, <2>2, <2>3, <2>4, OtherStepsKeepPromises
<1> QED BY <1>1, <1>2 DEF IdReused

\* Nor does any other step give out an id.
LEMMA OtherStepsKeepIds ==
    ASSUME [Next]_vars, ~DispatchRequest
    PROVE  UNCHANGED lastResponse
<1> USE DEF vars, nodeVars, dispatchVars, localVars
<1>1. CASE Next
  BY <1>1 DEF Next, DispatchAnswer, DispatchUnknownAnswer, DispatchCall, DispatchUnknownChannel,
       DispatchResponse, DispatchGet, DispatchException, DispatchTellClosed, DispatchClear,
       DispatchCallback, DispatchSend, DispatchSendFail, ReceiveBegin, ReceiveFrame, ReceiveFail,
       PublishIncoming, PublishException, HandlerEnd, PublishResponse, WorkerReturn, CallBegin,
       PublishRequest, RegisterChannel, UnregisterChannel, Ready, DestroyUnready, Destroy,
       JoinReceiver, JoinDispatcher, CvWait, SpuriousWakeup, PeerCall, PeerTakeRequest,
       PeerTakeResponse, PeerAnswer, LinkDown
<1> QED BY <1>1

LEMMA NextCount ==
    ASSUME IsFiniteSet(Calls), Cardinality(Calls) < IdSpace,
           TypeInv, FrameInv, PromiseHeldOnce, CountInv, [Next]_vars
    PROVE  CountInv'
<1>0. /\ call \in [Calls -> {"idle", "posting", "posted", "value", "error", "closed", "broken",
                            "rethrown", "notReady", "invalid"}]
      /\ requests \in [Ids -> Calls \cup {NoCall}]
      /\ request \in Calls \cup {NoCall}
      /\ incoming.id \in Ids
      /\ ~IdReused
      /\ request # NoCall => reason = "request"
      /\ \A i \in Ids : requests[i] # NoCall => requests[i] \in Calls /\ call[requests[i]] = "posted"
                                                /\ request # requests[i]
      /\ NoCall \notin Calls
  BY FrameFacts, TokenFacts
  DEF TypeInv, TypeOK, SlotTypeOK, DispatchTypeOK, ThreadTypeOK, CountInv, IdReused,
      PromiseHeldOnce
<1>1. CASE DispatchRequest
  <2>1. PICK r \in Calls : r = request /\ call[r] = "posted" /\ r \notin Dispatched
    BY <1>1 DEF DispatchRequest, DispatcherRuns, TypeInv, DispatchOK, PromiseHeldOnce, Dispatched
  <2>2. /\ IsFiniteSet(Dispatched) /\ Dispatched \cup {r} \subseteq Calls
        /\ Cardinality(Dispatched) \in Nat /\ Cardinality(Calls) \in Nat
        /\ Cardinality(Dispatched \cup {r}) = Cardinality(Dispatched) + 1
        /\ Cardinality(Dispatched \cup {r}) <= Cardinality(Calls)
    <3>1. Dispatched \subseteq Calls /\ Dispatched \cup {r} \subseteq Calls
      BY DEF Dispatched
    <3>2. IsFiniteSet(Dispatched) /\ Cardinality(Dispatched) \in Nat /\ Cardinality(Calls) \in Nat
      BY <3>1, FS_Subset, FS_CardinalityType
    <3>3. Cardinality(Dispatched \cup {r}) = Cardinality(Dispatched) + 1
      BY <2>1, <3>2, FS_AddElement
    <3>4. Cardinality(Dispatched \cup {r}) <= Cardinality(Calls)
      BY <3>1, FS_Subset
    <3> QED BY <3>1, <3>2, <3>3, <3>4
  <2>3. lastResponse + 1 < IdSpace /\ lastResponse \in Nat /\ NewResponse = lastResponse + 1
        /\ NewResponse \in Ids
    BY <2>2, IdSpaceAssumption DEF CountInv, NewResponse, Ids
  <2>4. requests[NewResponse] = NoCall
    BY <2>3 DEF CountInv, Ids
  <2>5. /\ requests' = [requests EXCEPT ![NewResponse] = r] /\ request' = NoCall
        /\ lastResponse' = NewResponse /\ UNCHANGED call
    BY <1>1, <2>1, <2>4 DEF DispatchRequest, EmplacePromise, callVars
  <2>6. Dispatched' = Dispatched \cup {r}
    BY <1>0, <2>1, <2>5 DEF Dispatched
  <2>7. ~IdReused'
    BY <1>0, <2>5 DEF IdReused
  <2>8. \A i \in Ids : requests'[i] # NoCall => i <= lastResponse'
    BY <1>0, <2>3, <2>5 DEF CountInv, Ids
  <2> QED BY <2>2, <2>3, <2>5, <2>6, <2>7, <2>8 DEF CountInv
<1>2. CASE ~DispatchRequest
  <2>1. ~IdReused' /\ UNCHANGED lastResponse
    BY <1>2, NoReuseSteps, OtherStepsKeepIds DEF CountInv
  <2>2. /\ Dispatched' = Dispatched
        /\ \A i \in Ids : requests'[i] # NoCall => requests[i] # NoCall
    <3>1. CASE DispatchAnswer
      <4>1. PICK i \in Ids : /\ requests[i] # NoCall
                             /\ requests' = [requests EXCEPT ![i] = NoCall]
                             /\ \E s \in {"value", "error"} : call' = [call EXCEPT ![requests[i]] = s]
        BY <1>0, <3>1 DEF DispatchAnswer, EraseRequest
      <4>2. UNCHANGED request
        BY <3>1 DEF DispatchAnswer
      <4> QED BY <1>0, <4>1, <4>2 DEF Dispatched
    <3>2. CASE DispatchException
      BY <1>0, <3>2 DEF DispatchException, CloseRegistered, Dispatched, slotVars
    <3>3. ASSUME NEW d \in Calls, CallBegin(d)
          PROVE  /\ Dispatched' = Dispatched
                 /\ \A i \in Ids : requests'[i] # NoCall => requests[i] # NoCall
      <4>1. /\ call[d] = "idle" /\ \A e \in Calls : e # d => call'[e] = call[e]
            /\ call'[d] \in {"rethrown", "notReady", "invalid", "posting"}
            /\ UNCHANGED <<request, requests>>
        BY <1>0, <3>3 DEF CallBegin, slotVars, dispatchVars
      <4> QED BY <4>1 DEF Dispatched
    <3>4. ASSUME NEW d \in Calls, PublishRequest(d)
          PROVE  /\ Dispatched' = Dispatched
                 /\ \A i \in Ids : requests'[i] # NoCall => requests[i] # NoCall
      <4>1. /\ call[d] = "posting" /\ request' = d /\ request = NoCall /\ UNCHANGED requests
            /\ \A e \in Calls : call'[e] = IF e = d THEN "posted" ELSE call[e]
        BY <1>0, <3>4, InvocationAssumption
        DEF PublishRequest, SlotEmpty, Publishing, dispatchVars
      <4> QED BY <1>0, <4>1 DEF Dispatched
    <3>5. CASE UNCHANGED <<call, request, requests>>
      BY <3>5 DEF Dispatched
    <3> QED BY <1>2, <3>1, <3>2, <3>3, <3>4, <3>5, OtherStepsKeepPromises
  <2> QED BY <2>1, <2>2 DEF CountInv
<1> QED BY <1>1, <1>2

\* A node that makes fewer calls than there are ids (65535 at most) reuses none, so that
\* OwnAnswer and NoUnprovokedTerminate hold of it without their proviso (Rpc.cpp 60, 262).
THEOREM NoIdIsReused ==
    ASSUME IsFiniteSet(Calls), Cardinality(Calls) < IdSpace
    PROVE  Spec => []~IdReused
<1> DEFINE Inv == TypeInv /\ FrameInv /\ PromiseHeldOnce /\ CountInv
<1>1. Init => Inv
  BY InitTypeInv, InitFrame, InitPromise, InitCount
<1>2. Inv /\ [Next]_vars => Inv'
  BY NextTypeInv, NextFrame, NextPromise, NextCount
<1>3. Inv => ~IdReused
  BY DEF CountInv
<1> QED BY <1>1, <1>2, <1>3, PTL DEF Spec

----------------------------------------------------------------------------
(* The ids of the peer.                                                    *)

PeerCountInv ==
    /\ peerLast = Cardinality(peerCalled)
    /\ \A i \in Ids : peerRequests[i] # NoCall => i <= peerLast

LEMMA InitPeerCount == Init => PeerCountInv
  BY FS_EmptySet DEF Init, PeerCountInv

\* The id after the last one is a new one.
LEMMA PeerIdsAreFree ==
    ASSUME IsFiniteSet(PeerCalls), Cardinality(PeerCalls) < IdSpace,
           TypeInv, PeerCountInv, NEW p \in PeerCalls, p \notin peerCalled
    PROVE  /\ (peerLast + 1) % IdSpace = peerLast + 1
           /\ peerLast + 1 = Cardinality(peerCalled \cup {p})
           /\ peerLast \in Nat /\ peerLast + 1 \in Ids
           /\ peerRequests[peerLast + 1] = NoCall
<1>1. peerCalled \subseteq PeerCalls /\ peerCalled \cup {p} \subseteq PeerCalls
  BY DEF TypeInv, TypeOK, EnvironmentTypeOK
<1>2. /\ IsFiniteSet(peerCalled)
      /\ Cardinality(peerCalled) \in Nat /\ Cardinality(PeerCalls) \in Nat
  BY <1>1, FS_Subset, FS_CardinalityType
<1>3. Cardinality(peerCalled \cup {p}) = Cardinality(peerCalled) + 1
  BY <1>2, FS_AddElement
<1>4. Cardinality(peerCalled \cup {p}) <= Cardinality(PeerCalls)
  BY <1>1, FS_Subset
<1>5. peerLast \in Nat /\ peerLast + 1 < IdSpace /\ peerLast + 1 = Cardinality(peerCalled \cup {p})
  BY <1>2, <1>3, <1>4, IdSpaceAssumption DEF PeerCountInv
<1>6. (peerLast + 1) % IdSpace = peerLast + 1 /\ peerLast + 1 \in Ids
  BY <1>5, IdSpaceAssumption DEF Ids
<1>7. peerRequests[peerLast + 1] = NoCall
  BY <1>5, <1>6 DEF PeerCountInv
<1> QED BY <1>5, <1>6, <1>7

LEMMA NextPeerCount ==
    ASSUME IsFiniteSet(PeerCalls), Cardinality(PeerCalls) < IdSpace,
           TypeInv, PeerCountInv, [Next]_vars
    PROVE  PeerCountInv' /\ PeerIdFree
<1> USE DEF vars, nodeVars, linkVars, peerVars, localVars
<1>0. /\ peerRequests \in [Ids -> PeerCalls \cup {NoCall}]
      /\ NoCall \notin PeerCalls
  BY TokenFacts DEF TypeInv, TypeOK, EnvironmentTypeOK
<1>1. ASSUME NEW p \in PeerCalls, PeerCall(p) PROVE PeerCountInv' /\ PeerIdFree
  <2>1. p \notin peerCalled /\ peerCalled' = peerCalled \cup {p}
    BY <1>1 DEF PeerCall
  <2>2. /\ (peerLast + 1) % IdSpace = peerLast + 1
        /\ peerLast + 1 = Cardinality(peerCalled \cup {p})
        /\ peerLast \in Nat /\ peerLast + 1 \in Ids
        /\ peerRequests[peerLast + 1] = NoCall
    BY <2>1, PeerIdsAreFree
  <2>3. peerLast' = peerLast + 1 /\ peerRequests' = [peerRequests EXCEPT ![peerLast + 1] = p]
    BY <1>1, <2>2 DEF PeerCall
  <2>4. PeerCountInv'
    BY <1>0, <2>1, <2>2, <2>3 DEF PeerCountInv, Ids
  <2> QED BY <2>2, <2>4 DEF PeerIdFree
<1>2. CASE PeerTakeResponse
  BY <1>0, <1>2 DEF PeerTakeResponse, PeerCountInv, PeerIdFree
<1>3. CASE UNCHANGED <<peerLast, peerRequests, peerCalled>>
  BY <1>3 DEF PeerCountInv, PeerIdFree
<1>4. CASE Next
  BY <1>1, <1>2, <1>3, <1>4 DEF Next, PeerTakeRequest, PeerAnswer, LinkDown
<1> QED BY <1>3, <1>4

\* A peer that makes fewer calls than there are ids is never misled.
THEOREM ShortRunPeerIsNotMisled ==
    ASSUME IsFiniteSet(PeerCalls), Cardinality(PeerCalls) < IdSpace
    PROVE  Spec => []PeerNotMisled
<1> DEFINE Inv == TypeInv /\ FrameInv /\ Fresh /\ WorkerInv /\ PeerInv /\ PeerCountInv
<1>1. Init => Inv
  BY InitTypeInv, InitFrame, InitFresh, InitWorker, InitPeer, InitPeerCount
<1>2. Inv /\ [Next]_vars => Inv'
  BY NextTypeInv, NextFrame, NextFresh, NextWorker, NextPeerCount, NextPeer
<1>3. Inv => PeerNotMisled
  BY DEF PeerInv
<1> QED BY <1>1, <1>2, <1>3, PTL DEF Spec

----------------------------------------------------------------------------
(* What call() promises.                                                   *)

\* The state the refinement is proved from.
ContractInv == TypeInv /\ FrameInv /\ PromiseHeldOnce /\ AnswerInv /\ ~IdReused

LEMMA InitContract == Init => Contract!Init
  BY FrameFacts, TokenFacts
  DEF Init, NodeInit, Contract!Init, CallStatus, AnsweredCalls, Answers

LEMMA NextContract == ContractInv /\ [Next]_vars => [Contract!Next]_Contract!vars
<1> SUFFICES ASSUME ContractInv, [Next]_vars
             PROVE  [Contract!Next]_Contract!vars
  OBVIOUS
<1> USE DEF ContractInv
<1> USE DEF vars, nodeVars, slotVars, dispatchVars, receiveVars, callVars, workVars, linkVars,
            peerVars, localVars
<1>0. /\ call \in [Calls -> {"idle", "posting", "posted", "value", "error", "closed", "broken",
                            "rethrown", "notReady", "invalid"}]
      /\ requests \in [Ids -> Calls \cup {NoCall}]
      /\ request \in Calls \cup {NoCall}
      /\ inq \in Seq(Frame) /\ received \in Frame /\ incoming \in Frame
      /\ peerTodo \subseteq Frame
      /\ got \in [Calls -> Tokens]
      /\ CHANNEL_RESPONSE \notin channels
      /\ NoCall \notin Calls
  BY TokenFacts, ChannelAssumption
  DEF TypeInv, TypeOK, SlotTypeOK, DispatchTypeOK, ThreadTypeOK, EnvironmentTypeOK
<1>1. CASE DispatchAnswer
  <2>1. PICK c \in Calls, i \in Ids :
          /\ c = incoming.tok /\ i = incoming.id /\ Answers(incoming, c)
          /\ requests[i] # NoCall /\ ~Over
    BY <1>0, <1>1, FrameFacts DEF DispatchAnswer, DispatcherRuns, FrameInv, Answers, Over
  <2>2. requests[i] = c
    BY <2>1 DEF AnswerInv, Answerable, InFlight
  <2>3. /\ call[c] = "posted" /\ got' = [got EXCEPT ![c] = c] /\ incoming' = NoFrame
        /\ call' = [call EXCEPT ![c] = IF incoming.ok THEN "value" ELSE "error"]
        /\ UNCHANGED <<received, inq>>
    BY <1>0, <1>1, <2>1, <2>2 DEF DispatchAnswer, PromiseHeldOnce
  <2>4. c \in AnsweredCalls
    BY <2>1 DEF AnsweredCalls
  <2>5. \A d \in Calls : d \in AnsweredCalls' <=> d \in AnsweredCalls
    <3>1. \A d \in Calls : d # c => got'[d] = got[d] /\ ~Answers(incoming, d)
      BY <1>0, <2>1, <2>3 DEF Answers
    <3>2. c \in AnsweredCalls'
      BY <1>0, <2>3 DEF AnsweredCalls
    <3> QED BY <2>3, <2>4, <3>1, <3>2, FrameFacts, TokenFacts DEF AnsweredCalls, Answers
  <2>6. UNCHANGED AnsweredCalls
    BY <2>5 DEF AnsweredCalls
  <2>7. CallStatus[c] = "pending" /\ CallStatus' = [CallStatus EXCEPT ![c] = "returned"]
    BY <1>0, <2>3 DEF CallStatus
  <2> QED BY <2>4, <2>6, <2>7 DEF Contract!Next, Contract!Return
<1>2. CASE DispatchException
  <2> DEFINE failing == {c \in Calls : \E i \in Ids : requests[i] = c}
  <2>1. \A c \in Calls : call'[c] = IF c \in failing THEN "closed" ELSE call[c]
    BY <1>2 DEF DispatchException, CloseRegistered
  <2>2. \A c \in failing : call[c] = "posted"
    BY DEF PromiseHeldOnce
  <2>3. UNCHANGED AnsweredCalls
    BY <1>2 DEF DispatchException, AnsweredCalls
  <2>4. /\ failing \in SUBSET {c \in Calls : CallStatus[c] = "pending"}
        /\ CallStatus' = [c \in Calls |-> IF c \in failing THEN "failed" ELSE CallStatus[c]]
    BY <1>0, <2>1, <2>2 DEF CallStatus
  <2> HIDE DEF failing
  <2> QED BY <2>3, <2>4 DEF Contract!Next, Contract!Fail
<1>3. ASSUME NEW c \in Calls, CallBegin(c) PROVE [Contract!Next]_Contract!vars
  <2>1. /\ call[c] = "idle"
        /\ \A d \in Calls : d # c => call'[d] = call[d]
        /\ call'[c] \in {"rethrown", "notReady", "invalid", "posting"}
        /\ UNCHANGED <<got, received, incoming, inq>>
    BY <1>0, <1>3 DEF CallBegin
  <2>2. UNCHANGED AnsweredCalls
    BY <2>1 DEF AnsweredCalls
  <2>3. CallStatus[c] = "idle"
    BY <2>1 DEF CallStatus
  <2>4. \/ CallStatus' = [CallStatus EXCEPT ![c] = "pending"]
        \/ CallStatus' = [CallStatus EXCEPT ![c] = "failed"]
    BY <2>1 DEF CallStatus
  <2> QED BY <2>2, <2>3, <2>4 DEF Contract!Next, Contract!Begin, Contract!Refuse
<1>4. ASSUME NEW c \in Calls, PublishRequest(c) PROVE [Contract!Next]_Contract!vars
  <2>1. /\ call[c] = "posting" /\ request = NoCall
        /\ \A d \in Calls : call'[d] = IF d = c THEN "posted" ELSE call[d]
        /\ UNCHANGED <<got, received, incoming, inq>>
    BY <1>0, <1>4, InvocationAssumption
    DEF PublishRequest, SlotEmpty, Publishing, IdReused
  <2>2. UNCHANGED <<CallStatus, AnsweredCalls>>
    BY <2>1 DEF CallStatus, AnsweredCalls
  <2> QED BY <2>2 DEF Contract!vars
\* The frame of an answer moves on to the next station.
<1>5. ASSUME UNCHANGED <<call, got>>,
             \A c \in Calls :
                \/ Answers(incoming, c) \/ Answers(received, c)
                \/ \E n \in DOMAIN inq : Answers(inq[n], c)
                <=>
                \/ Answers(incoming', c) \/ Answers(received', c)
                \/ \E n \in DOMAIN inq' : Answers(inq'[n], c)
      PROVE  [Contract!Next]_Contract!vars
  <2>1. UNCHANGED <<CallStatus, AnsweredCalls>>
    BY <1>5 DEF CallStatus, AnsweredCalls
  <2> QED BY <2>1 DEF Contract!vars
<1>6. CASE DispatchCall \/ DispatchUnknownChannel
  <2>1. /\ incoming.chan # CHANNEL_RESPONSE /\ incoming' = NoFrame
        /\ UNCHANGED <<call, got, received, inq>>
    BY <1>0, <1>6 DEF DispatchCall, DispatchUnknownChannel
  <2> QED BY <1>5, <2>1, FrameFacts, TokenFacts DEF Answers
<1>7. CASE ReceiveFrame
  <2>1. /\ received = NoFrame /\ received' = Head(inq) /\ inq' = Tail(inq) /\ inq # <<>>
        /\ UNCHANGED <<call, got, incoming>>
    BY <1>7 DEF ReceiveFrame, FrameInv
  <2>2. /\ 1 \in DOMAIN inq /\ received' = inq[1]
        /\ \A n \in DOMAIN inq' : n + 1 \in DOMAIN inq /\ inq'[n] = inq[n + 1]
        /\ \A n \in DOMAIN inq : n = 1 \/ \E m \in DOMAIN inq' : n = m + 1
    <3>1. \A n \in DOMAIN inq : n = 1 \/ \E m \in DOMAIN inq' : n = m + 1
      <4> SUFFICES ASSUME NEW n \in DOMAIN inq, n # 1 PROVE n - 1 \in DOMAIN inq' /\ n = (n - 1) + 1
        OBVIOUS
      <4> QED BY <1>0, <2>1
    <3> QED BY <1>0, <2>1, <3>1, SeqFacts
  <2>3. \A c \in Calls :
          (Answers(received', c) \/ \E n \in DOMAIN inq' : Answers(inq'[n], c))
            <=> \E n \in DOMAIN inq : Answers(inq[n], c)
    BY <2>2
  <2>4. \A c \in Calls : ~Answers(received, c)
    BY <2>1, FrameFacts, TokenFacts DEF Answers
  <2> QED BY <1>5, <2>1, <2>3, <2>4
<1>8. CASE PublishIncoming
  <2>1. /\ incoming = NoFrame /\ incoming' = received /\ received' = NoFrame
        /\ UNCHANGED <<call, got, inq>>
    BY <1>8 DEF PublishIncoming, SlotEmpty, FrameInv
  <2> QED BY <1>5, <2>1, FrameFacts, TokenFacts DEF Answers
<1>9. ASSUME NEW p \in PeerCalls, PeerCall(p) PROVE [Contract!Next]_Contract!vars
  <2>1. PICK i \in Ids : inq' = Append(inq, PeerFrame(p, i))
    BY <1>9, IdsFacts DEF PeerCall, TypeInv, TypeOK, EnvironmentTypeOK
  <2>2. PeerFrame(p, i) \in Frame /\ PeerFrame(p, i).chan # CHANNEL_RESPONSE
    BY FrameFacts, ChannelAssumption DEF PeerFrame
  <2>3. UNCHANGED <<call, got, received, incoming>>
    BY <1>9 DEF PeerCall
  <2>4. \A c \in Calls : (\E n \in DOMAIN inq' : Answers(inq'[n], c))
                           <=> \E n \in DOMAIN inq : Answers(inq[n], c)
    BY <1>0, <2>1, <2>2, SeqFacts DEF Answers
  <2> QED BY <1>5, <2>3, <2>4
<1>10. CASE PeerAnswer
  <2>1. PICK f \in peerTodo, ok \in BOOLEAN : inq' = Append(inq, ResponseFrame(f.tok, f.id, ok))
    BY <1>10 DEF PeerAnswer
  <2>2. PICK c \in Calls : c = f.tok
    BY <2>1 DEF FrameInv
  <2>3. PICK g \in Frame : /\ g = ResponseFrame(f.tok, f.id, ok)
                           /\ g.chan = CHANNEL_RESPONSE /\ g.tok = c
    BY <1>0, <2>1, <2>2, FrameFacts DEF ResponseFrame
  <2>4. InFlight(c, f.id) /\ f.id \in Ids
    BY <1>0, <2>2, FrameFacts DEF InFlight
  <2>5. /\ call[c] \in {"posted", "closed"} /\ got[c] # c
        /\ received.tok # c /\ incoming.tok # c /\ \A n \in DOMAIN inq : inq[n].tok # c
    BY <2>2, <2>4 DEF AnswerInv, Answerable, OneFrame
  <2>6. UNCHANGED <<call, got, received, incoming>>
    BY <1>10 DEF PeerAnswer
  <2>7. \A d \in Calls : (\E n \in DOMAIN inq' : Answers(inq'[n], d))
                           <=> (\E n \in DOMAIN inq : Answers(inq[n], d)) \/ d = c
    BY <1>0, <2>1, <2>3, SeqFacts DEF Answers
  <2>8. c \notin AnsweredCalls /\ AnsweredCalls' = AnsweredCalls \cup {c}
    BY <2>5, <2>6, <2>7 DEF AnsweredCalls, Answers
  <2>9. UNCHANGED CallStatus /\ CallStatus[c] \in {"pending", "failed"}
    BY <2>5, <2>6 DEF CallStatus
  <2> QED BY <2>8, <2>9 DEF Contract!Next, Contract!Answer
<1>11. CASE UNCHANGED <<call, got, received, incoming, inq>>
  BY <1>5, <1>11
<1>12. CASE UNCHANGED vars
  BY <1>11, <1>12
<1>13. CASE Next
  <2>1. UNCHANGED <<call, got>> \/ DispatchAnswer \/ DispatchException \/ DispatchRequest
        \/ \E c \in Calls : CallBegin(c) \/ PublishRequest(c)
    BY AnswerSteps
  <2> QED
  BY <1>1, <1>2, <1>3, <1>4, <1>6, <1>7, <1>8, <1>9, <1>10, <1>11, <1>13, <2>1
  DEF Next, DispatchRequest, DispatchUnknownAnswer, DispatchResponse, DispatchGet,
      DispatchTellClosed, DispatchClear, DispatchCallback, DispatchSend, DispatchSendFail,
      ReceiveBegin, ReceiveFail, PublishException, HandlerEnd, PublishResponse, WorkerReturn,
      RegisterChannel, UnregisterChannel, Ready, DestroyUnready, Destroy, JoinReceiver,
      JoinDispatcher, CvWait, SpuriousWakeup, PeerTakeRequest, PeerTakeResponse, LinkDown
<1> QED BY <1>12, <1>13

\* A node that makes fewer calls than there are ids implements RpcCalls: call() returns the
\* peer's answer to this very call, after the peer gave it, or fails, and either happens
\* once (rpc.h, Rpc.cpp 265-292).
THEOREM NodeImplementsRpcCalls ==
    ASSUME IsFiniteSet(Calls), Cardinality(Calls) < IdSpace
    PROVE  Spec => ImplementsRpcCalls
<1> DEFINE Inv == TypeInv /\ FrameInv /\ PromiseHeldOnce /\ AnswerInv /\ CountInv
<1>1. Init => Inv /\ Contract!Init
  BY InitTypeInv, InitFrame, InitPromise, InitAnswer, InitCount, InitContract
<1>2. Inv /\ [Next]_vars => Inv'
  BY NextTypeInv, NextFrame, NextPromise, NextAnswer, NextCount
<1>3. Inv /\ [Next]_vars => [Contract!Next]_Contract!vars
  BY NextContract DEF ContractInv, CountInv
<1> QED BY <1>1, <1>2, <1>3, PTL DEF Spec, ImplementsRpcCalls, Contract!Spec
============================================================================
