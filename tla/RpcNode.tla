------------------------------ MODULE RpcNode ------------------------------
(***************************************************************************)
(* One node of DollDbg's symmetric RPC (class Rpc, src/DollDbg.Rpc/Rpc.cpp)*)
(* with all of its threads: the dispatcher, the receiver, one std::async   *)
(* worker for each call the peer makes, the threads inside call(), and the *)
(* owner that constructs, readies and destroys the node.  They meet at one *)
(* slot (_reason with _request, _incoming, _response or _exception)        *)
(* guarded by _dispatcherMtx and _dispatcherCv.                            *)
(*                                                                         *)
(* The dispatcher keeps _dispatcherMtx from its wake-up to its next wait,  *)
(* so its critical section spans several states.  Every other critical     *)
(* section neither blocks nor calls out and is one step, possible when the *)
(* dispatcher does not own the mutex.                                      *)
(***************************************************************************)
EXTENDS Naturals, Sequences, FiniteSets

CONSTANTS
    Calls,      \* invocations of call() on this node; a thread calling twice is two members
    PeerCalls,  \* invocations of call() on the peer; each is served by a worker of this node
    NoCall,     \* no invocation: an empty promise, future or frame
    Channels,   \* the application's channels
    ChannelOf,  \* the channel argument of every invocation
    IdSpace,    \* number of response ids: 2^16 in the code (response_t is uint16_t)
    PipeSize    \* frames the transport takes before send() blocks

CHANNEL_RESPONSE == 0
Ids == 0 .. IdSpace - 1
Dispatcher == "dispatcher"
Receiver == "receiver"
Threads == {Dispatcher, Receiver} \cup Calls \cup PeerCalls

ASSUME IdSpaceAssumption == IdSpace \in Nat \ {0}
ASSUME PipeSizeAssumption == PipeSize \in Nat \ {0}
ASSUME InvocationAssumption ==
    /\ Calls \cap PeerCalls = {}
    /\ NoCall \notin Calls \cup PeerCalls
    /\ {Dispatcher, Receiver} \cap (Calls \cup PeerCalls) = {}
ASSUME ChannelAssumption ==
    /\ Channels \subseteq Nat \ {CHANNEL_RESPONSE}
    /\ ChannelOf \in [Calls \cup PeerCalls -> Channels \cup {CHANNEL_RESPONSE}]
    /\ \A p \in PeerCalls : ChannelOf[p] # CHANNEL_RESPONSE

VARIABLES
    life,         \* "new", "ready", then ~Rpc(): "joinReceiver", "joinDispatcher", "destroyed"
    channels,     \* _channels: the channels that have a handler
    reason,       \* _reason
    request,      \* the invocation whose promise is in _request
    incoming,     \* _incoming
    response,     \* _response
    exception,    \* _exception is set
    waiting,      \* the threads blocked in _dispatcherCv.wait()
    dpc,          \* where the dispatcher is
    sending,      \* the frame the dispatcher is sending
    unsent,       \* workers still to be told that the connection is closed
    lastResponse, \* _lastResponse
    requests,     \* _requests: the promise registered under each id
    workers,      \* _workers: the worker whose future is registered under each id
    rpcv,         \* where the receiver is
    received,     \* the frame the receiver has read and not yet published
    call,         \* where each invocation of call() is, or how it ended
    got,          \* the invocation whose answer each call() returned
    wpc,          \* where each worker is
    wid,          \* the response id each worker was started with
    wok,          \* whether each worker's handler returned (or threw)
    link,         \* whether the connection is "up" or "down"
    inq,          \* frames on their way to this node
    outq          \* frames on their way to the peer

slotVars == <<reason, request, incoming, response, exception>>
dispatchVars == <<dpc, sending, unsent, lastResponse, requests, workers>>
receiveVars == <<rpcv, received>>
callVars == <<call, got>>
workVars == <<wpc, wid, wok>>
linkVars == <<link, inq, outq>>
nodeVars == <<life, channels, slotVars, waiting, dispatchVars, receiveVars,
              callVars, workVars, linkVars>>

----------------------------------------------------------------------------
(* Frames: a header and its body.  "ok" is FALSE when the length field is  *)
(* LENGTH_ERROR; "tok" is the invocation the body belongs to.              *)

Tokens == Calls \cup PeerCalls \cup {NoCall}

Frame == [chan : Channels \cup {CHANNEL_RESPONSE}, id : Ids, ok : BOOLEAN, tok : Tokens]

NoFrame == [chan |-> CHANNEL_RESPONSE, id |-> 0, ok |-> FALSE, tok |-> NoCall]

\* (mutant) the id before the increment goes into the header
StaleRequestFrame(c, id) == [chan |-> ChannelOf[c], id |-> lastResponse, ok |-> TRUE, tok |-> c]
RequestFrame(c, id) == [chan |-> ChannelOf[c], id |-> id, ok |-> TRUE, tok |-> c]

\* (mutant) the id of an answer is not brought into network byte order
SwappedResponseFrame(p, id, ok) ==
    [chan |-> CHANNEL_RESPONSE, id |-> id * 256, ok |-> ok, tok |-> p]
ResponseFrame(p, id, ok) == [chan |-> CHANNEL_RESPONSE, id |-> id, ok |-> ok, tok |-> p]

Reasons == {"none", "request", "incoming", "response", "exception"}

\* The places where a thread other than the dispatcher is about to fill the slot.
Publishing(t) ==
    \/ t = Receiver /\ rpcv \in {"deliver", "raise"}
    \/ t \in Calls /\ call[t] = "posting"
    \/ t \in PeerCalls /\ wpc[t] = "finishing"

\* The dispatcher owns _dispatcherMtx everywhere but in its wait and after its return;
\* before it starts nobody asks for it.
MtxFree == dpc \in {"idle", "exited"}

\* std::terminate() takes every thread of the process with it.
Alive == dpc # "terminated"

\* (mutant) publish without waiting for the slot
SlotUnchecked(t) == Publishing(t) /\ MtxFree /\ t \notin waiting

\* Lock _dispatcherMtx and get past the wait for an empty slot.
SlotEmpty(t) ==
    /\ Publishing(t)
    /\ MtxFree
    /\ t \notin waiting
    /\ reason = "none"

----------------------------------------------------------------------------
(* The condition variable.                                                 *)

\* A thread that finds its predicate false enters the wait; the dispatcher waits for a
\* full slot, everybody else for an empty one.
CvWait(t) ==
    /\ MtxFree
    /\ t \notin waiting
    /\ \/ t = Dispatcher /\ dpc = "idle" /\ reason = "none"
       \/ Publishing(t) /\ reason # "none"
    /\ waiting' = waiting \cup {t}
    /\ UNCHANGED <<life, channels, slotVars, dispatchVars, receiveVars, callVars, workVars,
                   linkVars>>

\* std::condition_variable may wake a thread that nobody notified.
SpuriousWakeup(t) ==
    /\ Alive
    /\ t \in waiting
    /\ waiting' = waiting \ {t}
    /\ UNCHANGED <<life, channels, slotVars, dispatchVars, receiveVars, callVars, workVars,
                   linkVars>>

\* (mutant) no notification
NoNotify == {waiting}

\* notify_one() wakes one of the waiting threads, if there is one.
NotifyOne == IF waiting = {} THEN {{}} ELSE {waiting \ {t} : t \in waiting}

\* notify_all() wakes them all.
NotifyAll == {{}}

\* The end of a case: empty the slot, notify_one(), and, the mutex still owned, go back
\* to the wait.
FreeSlot ==
    /\ reason' = "none"
    /\ dpc' = "idle"
    /\ \E rest \in NotifyOne : waiting' = rest \cup {Dispatcher}

----------------------------------------------------------------------------
(* _dispatch()                                                             *)

DispatcherRuns(r) ==
    /\ dpc = "idle"
    /\ Dispatcher \notin waiting
    /\ reason = r

StartSend(f) ==
    /\ dpc' = "send"
    /\ sending' = f

\* _newResponse(): ++_lastResponse on a uint16_t.
NewResponse == (lastResponse + 1) % IdSpace

\* (mutant) the promise is assigned, whatever is registered under the id
AssignPromise(id) ==
    /\ requests' = [requests EXCEPT ![id] = request]
    /\ request' = NoCall

\* _requests.emplace() leaves the promise in _request when the id is taken.
EmplacePromise(id) ==
    IF requests[id] = NoCall
    THEN /\ requests' = [requests EXCEPT ![id] = request]
         /\ request' = NoCall
    ELSE UNCHANGED <<requests, request>>

\* (mutant) _requests.erase() is forgotten
KeepRequest(id) == requests
EraseRequest(id) == [requests EXCEPT ![id] = NoCall]

\* (mutant) _workers.erase() is forgotten
KeepWorker(id) == workers
EraseWorker(id) == [workers EXCEPT ![id] = NoCall]

\* case request.
DispatchRequest ==
    /\ DispatcherRuns("request")
    /\ lastResponse' = NewResponse
    /\ EmplacePromise(NewResponse)
    /\ StartSend(RequestFrame(request, NewResponse))
    /\ UNCHANGED <<life, channels, reason, incoming, response, exception, waiting, unsent,
                   workers, receiveVars, callVars, workVars, linkVars>>

\* case incoming, a response: its promise is resolved.
DispatchAnswer ==
    /\ DispatcherRuns("incoming")
    /\ incoming.chan = CHANNEL_RESPONSE
    /\ LET c == requests[incoming.id] IN
         /\ c # NoCall
         /\ requests' = EraseRequest(incoming.id)
         /\ call' = [call EXCEPT ![c] = IF incoming.ok THEN "value" ELSE "error"]
         /\ got' = [got EXCEPT ![c] = incoming.tok]
    /\ incoming' = NoFrame
    /\ FreeSlot
    /\ UNCHANGED <<life, channels, request, response, exception, sending, unsent, lastResponse,
                   workers, receiveVars, workVars, linkVars>>

\* case incoming, a response nobody waits for: _requests.at() throws out of the thread.
DispatchUnknownAnswer ==
    /\ DispatcherRuns("incoming")
    /\ incoming.chan = CHANNEL_RESPONSE
    /\ requests[incoming.id] = NoCall
    /\ dpc' = "terminated"
    /\ UNCHANGED <<life, channels, slotVars, waiting, sending, unsent, lastResponse, requests,
                   workers, receiveVars, callVars, workVars, linkVars>>

\* case incoming, a request for a channel with a handler: std::async() starts a worker.
\* When the id is taken, emplace() drops the future, whose destructor waits for the
\* worker, and the worker needs the mutex the dispatcher owns: no step leaves "stuck".
DispatchCall ==
    /\ DispatcherRuns("incoming")
    /\ incoming.chan \in channels
    /\ wpc' = [wpc EXCEPT ![incoming.tok] = "running"]
    /\ wid' = [wid EXCEPT ![incoming.tok] = incoming.id]
    /\ IF workers[incoming.id] = NoCall
       THEN /\ workers' = [workers EXCEPT ![incoming.id] = incoming.tok]
            /\ FreeSlot
       ELSE /\ dpc' = "stuck"
            /\ UNCHANGED <<workers, reason, waiting>>
    /\ incoming' = NoFrame
    /\ UNCHANGED <<life, channels, request, response, exception, sending, unsent, lastResponse,
                   requests, receiveVars, callVars, wok, linkVars>>

\* case incoming, a request for a channel without a handler.
DispatchUnknownChannel ==
    /\ DispatcherRuns("incoming")
    /\ incoming.chan \notin channels \cup {CHANNEL_RESPONSE}
    /\ StartSend(ResponseFrame(incoming.tok, incoming.id, FALSE))
    /\ incoming' = NoFrame
    /\ UNCHANGED <<life, channels, reason, request, response, exception, waiting, unsent,
                   lastResponse, requests, workers, receiveVars, callVars, workVars, linkVars>>

\* case response: the future is moved out of _workers.
DispatchResponse ==
    /\ DispatcherRuns("response")
    /\ workers[response] # NoCall
    /\ workers' = EraseWorker(response)
    /\ dpc' = "get"
    /\ sending' = ResponseFrame(workers[response], response, TRUE)
    /\ UNCHANGED <<life, channels, slotVars, waiting, unsent, lastResponse, requests,
                   receiveVars, callVars, workVars, linkVars>>

\* responseFuture.get() waits until the worker has returned, then the answer is sent:
\* the value, or the exception the handler threw.
DispatchGet ==
    /\ dpc = "get"
    /\ wpc[sending.tok] = "finished"
    /\ StartSend([sending EXCEPT !.ok = wok[sending.tok]])
    /\ UNCHANGED <<life, channels, slotVars, waiting, unsent, lastResponse, requests, workers,
                   receiveVars, callVars, workVars, linkVars>>

\* (mutant) the promises are dropped without an exception
ForgetRegistered == call

\* set_exception(connection_closed) on every registered promise.
CloseRegistered ==
    [c \in Calls |-> IF \E i \in Ids : requests[i] = c THEN "closed" ELSE call[c]]

\* case exception: every registered promise fails ...
DispatchException ==
    /\ DispatcherRuns("exception")
    /\ call' = CloseRegistered
    /\ requests' = [i \in Ids |-> NoCall]
    /\ unsent' = {i \in Ids : workers[i] # NoCall}
    /\ dpc' = "closing"
    /\ UNCHANGED <<life, channels, slotVars, waiting, sending, lastResponse, workers,
                   receiveVars, got, workVars, linkVars>>

\* ... every running worker's caller is told, in the order of the map ...
DispatchTellClosed ==
    /\ dpc = "closing"
    /\ \E i \in unsent :
         /\ \A j \in unsent : i <= j
         /\ unsent' = unsent \ {i}
         /\ StartSend(ResponseFrame(workers[i], i, FALSE))
    /\ UNCHANGED <<life, channels, slotVars, waiting, lastResponse, requests, workers,
                   receiveVars, callVars, workVars, linkVars>>

\* ... and _workers.clear() destroys the futures, which waits for every worker.
DispatchClear ==
    /\ dpc = "closing"
    /\ unsent = {}
    /\ \A i \in Ids : workers[i] # NoCall => wpc[workers[i]] = "finished"
    /\ workers' = [i \in Ids |-> NoCall]
    /\ reason' = "none"
    /\ waiting' \in NotifyOne
    /\ dpc' = "callback"
    /\ UNCHANGED <<life, channels, request, incoming, response, exception, sending, unsent,
                   lastResponse, requests, receiveVars, callVars, workVars, linkVars>>

\* _exc_callback(_exception), the mutex still owned; then the thread ends.
DispatchCallback ==
    /\ dpc = "callback"
    /\ dpc' = "exited"
    /\ UNCHANGED <<life, channels, slotVars, waiting, sending, unsent, lastResponse, requests,
                   workers, receiveVars, callVars, workVars, linkVars>>

----------------------------------------------------------------------------
(* _sendBuffer() and _sendException(), which only the dispatcher calls.    *)

DispatchSend ==
    /\ dpc = "send"
    /\ link = "up"
    /\ Len(outq) < PipeSize
    /\ outq' = Append(outq, sending)
    /\ sending' = NoFrame
    /\ IF reason = "exception"
       THEN dpc' = "closing" /\ UNCHANGED <<reason, waiting>>
       ELSE FreeSlot
    /\ UNCHANGED <<life, channels, request, incoming, response, exception, unsent, lastResponse,
                   requests, workers, receiveVars, callVars, workVars, link, inq>>

\* A failed send: the catch block locks _dispatcherMtx, which this thread owns.  MSVC's
\* std::mutex answers with a system_error.  Only case exception swallows it; in case
\* response the handler of system_error runs into the same failure.
DispatchSendFail ==
    /\ dpc = "send"
    /\ link = "down"
    /\ dpc' = IF reason = "exception" THEN "closing" ELSE "terminated"
    /\ sending' = NoFrame
    /\ UNCHANGED <<life, channels, slotVars, waiting, unsent, lastResponse, requests, workers,
                   receiveVars, callVars, workVars, linkVars>>

----------------------------------------------------------------------------
(* _receive()                                                              *)

\* The receiver has come back to _transport->recv() and issues the read.
ReceiveBegin ==
    /\ Alive
    /\ rpcv = "loop"
    /\ rpcv' = "recv"
    /\ UNCHANGED <<life, channels, slotVars, waiting, dispatchVars, received, callVars,
                   workVars, linkVars>>

\* The read completes with a frame; what was sent before a disconnect may still arrive.
ReceiveFrame ==
    /\ Alive
    /\ rpcv = "recv"
    /\ inq # <<>>
    /\ received' = Head(inq)
    /\ inq' = Tail(inq)
    /\ rpcv' = "deliver"
    /\ UNCHANGED <<life, channels, slotVars, waiting, dispatchVars, callVars, workVars, link,
                   outq>>

\* The read fails: the connection is lost.
ReceiveFail ==
    /\ Alive
    /\ rpcv = "recv"
    /\ link = "down"
    /\ rpcv' = "raise"
    /\ UNCHANGED <<life, channels, slotVars, waiting, dispatchVars, received, callVars,
                   workVars, linkVars>>

PublishIncoming ==
    /\ rpcv = "deliver"
    /\ SlotEmpty(Receiver)
    /\ incoming' = received
    /\ received' = NoFrame
    /\ reason' = "incoming"
    /\ waiting' \in NotifyAll
    /\ rpcv' = "loop"
    /\ UNCHANGED <<life, channels, request, response, exception, dispatchVars, callVars,
                   workVars, linkVars>>

PublishException ==
    /\ rpcv = "raise"
    /\ SlotEmpty(Receiver)
    /\ exception' = TRUE
    /\ reason' = "exception"
    /\ waiting' \in NotifyAll
    /\ rpcv' = "done"
    /\ UNCHANGED <<life, channels, request, incoming, response, dispatchVars, received,
                   callVars, workVars, linkVars>>

----------------------------------------------------------------------------
(* _work()                                                                 *)

\* (mutant) no finally object: a handler that throws leaves without publishing
AfterHandlerUnguarded(ok) == IF ok THEN "finishing" ELSE "finished"

\* The finally object publishes the response of a handler that returns or throws.
AfterHandler(ok) == "finishing"

HandlerEnd(p) ==
    /\ Alive
    /\ wpc[p] = "running"
    /\ \E ok \in BOOLEAN :
          /\ wok' = [wok EXCEPT ![p] = ok]
          /\ wpc' = [wpc EXCEPT ![p] = AfterHandler(ok)]
    /\ UNCHANGED <<life, channels, slotVars, waiting, dispatchVars, receiveVars, callVars, wid,
                   linkVars>>

PublishResponse(p) ==
    /\ SlotEmpty(p)
    /\ response' = wid[p]
    /\ reason' = "response"
    /\ waiting' \in NotifyAll
    /\ wpc' = [wpc EXCEPT ![p] = "returning"]
    /\ UNCHANGED <<life, channels, request, incoming, exception, dispatchVars, receiveVars,
                   callVars, wid, wok, linkVars>>

\* Only now, after the finally object is gone, does the future become ready.
WorkerReturn(p) ==
    /\ Alive
    /\ wpc[p] = "returning"
    /\ wpc' = [wpc EXCEPT ![p] = "finished"]
    /\ UNCHANGED <<life, channels, slotVars, waiting, dispatchVars, receiveVars, callVars, wid,
                   wok, linkVars>>

----------------------------------------------------------------------------
(* call().  The check of _exception takes no lock, so the receiver can set *)
(* _exception between CallBegin and PublishRequest.  The racing read sees  *)
(* the pointer before or after the assignment, as the two orders do.       *)

CallBegin(c) ==
    /\ Alive
    /\ call[c] = "idle"
    /\ life \in {"new", "ready"}
    /\ call' = [call EXCEPT ![c] =
                  CASE exception -> "rethrown"
                    [] ~exception /\ life = "new" -> "notReady"
                    [] ~exception /\ life # "new" /\ ChannelOf[c] = CHANNEL_RESPONSE -> "invalid"
                    [] OTHER -> "posting"]
    /\ UNCHANGED <<life, channels, slotVars, waiting, dispatchVars, receiveVars, got, workVars,
                   linkVars>>

\* Assigning _request destroys a promise that was left there: its future is broken.
PublishRequest(c) ==
    /\ SlotEmpty(c)
    /\ request' = c
    /\ reason' = "request"
    /\ waiting' \in NotifyAll
    /\ call' = [d \in Calls |->
                  CASE d = c -> "posted"
                    [] d # c /\ d = request -> "broken"
                    [] OTHER -> call[d]]
    /\ UNCHANGED <<life, channels, incoming, response, exception, dispatchVars, receiveVars,
                   got, workVars, linkVars>>

----------------------------------------------------------------------------
(* The owner: registration, ready(), ~Rpc().                               *)

\* _channelsMtx is the dispatcher's for the whole of case incoming's second half.
ChannelsMtxFree == ~(reason = "incoming" /\ dpc \in {"send", "stuck"})

\* A worker holds a reference to its handler: like its callers do, the model never
\* replaces or erases a handler that is running.
HandlerUnused(ch) == \A p \in PeerCalls : wpc[p] = "running" => ChannelOf[p] # ch

RegisterChannel(ch) ==
    /\ Alive
    /\ life \in {"new", "ready"}
    /\ ChannelsMtxFree
    /\ HandlerUnused(ch)
    /\ channels' = channels \cup {ch}
    /\ UNCHANGED <<life, slotVars, waiting, dispatchVars, receiveVars, callVars, workVars,
                   linkVars>>

UnregisterChannel(ch) ==
    /\ Alive
    /\ life \in {"new", "ready"}
    /\ ChannelsMtxFree
    /\ HandlerUnused(ch)
    /\ channels' = channels \ {ch}
    /\ UNCHANGED <<life, slotVars, waiting, dispatchVars, receiveVars, callVars, workVars,
                   linkVars>>

\* _ready(), once: the transport is there and both threads start.
Ready ==
    /\ life = "new"
    /\ life' = "ready"
    /\ dpc' = "idle"
    /\ rpcv' = "loop"
    /\ UNCHANGED <<channels, slotVars, waiting, sending, unsent, lastResponse, requests,
                   workers, received, callVars, workVars, linkVars>>

\* _transport->cancel() ends the read that is pending and no later one.  A pending write
\* fails as in DispatchSendFail, except that the handler of system_error in case response
\* can now send its exception.
CancelRead == rpcv' = IF rpcv = "recv" THEN "raise" ELSE rpcv

CancelWrite ==
    \/ UNCHANGED <<dpc, sending>>
    \/ /\ dpc = "send"
       /\ reason = "response" /\ sending.ok
       /\ sending' = [sending EXCEPT !.ok = FALSE]
       /\ dpc' = dpc
    \/ /\ dpc = "send"
       /\ reason = "exception" \/ ~sending.ok
       /\ sending' = NoFrame
       /\ dpc' = IF reason = "exception" THEN "closing" ELSE "terminated"

\* ~Rpc() begins.  Its caller has no call() under way on the object it destroys.
Destroy ==
    /\ Alive
    /\ life = "ready"
    /\ \A c \in Calls : call[c] \notin {"posting", "posted"}
    /\ life' = "joinReceiver"
    /\ CancelRead
    /\ CancelWrite
    /\ UNCHANGED <<channels, slotVars, waiting, unsent, lastResponse, requests, workers,
                   received, callVars, workVars, linkVars>>

\* ~Rpc() of a node that never became ready has nothing to stop.
DestroyUnready ==
    /\ life = "new"
    /\ life' = "destroyed"
    /\ UNCHANGED <<channels, slotVars, waiting, dispatchVars, receiveVars, callVars, workVars,
                   linkVars>>

JoinReceiver ==
    /\ Alive
    /\ life = "joinReceiver"
    /\ rpcv = "done"
    /\ life' = "joinDispatcher"
    /\ UNCHANGED <<channels, slotVars, waiting, dispatchVars, receiveVars, callVars, workVars,
                   linkVars>>

\* The members go, and with _transport its handle.
JoinDispatcher ==
    /\ life = "joinDispatcher"
    /\ dpc = "exited"
    /\ life' = "destroyed"
    /\ link' = "down"
    /\ UNCHANGED <<channels, slotVars, waiting, dispatchVars, receiveVars, callVars, workVars,
                   inq, outq>>

----------------------------------------------------------------------------
NodeInit ==
    /\ life = "new"
    /\ channels = {}
    /\ reason = "none" /\ request = NoCall /\ incoming = NoFrame /\ response = 0
    /\ exception = FALSE
    /\ waiting = {}
    /\ dpc = "off" /\ sending = NoFrame /\ unsent = {} /\ lastResponse = 0
    /\ requests = [i \in Ids |-> NoCall]
    /\ workers = [i \in Ids |-> NoCall]
    /\ rpcv = "off" /\ received = NoFrame
    /\ call = [c \in Calls |-> "idle"]
    /\ got = [c \in Calls |-> NoCall]
    /\ wpc = [p \in PeerCalls |-> "idle"]
    /\ wid = [p \in PeerCalls |-> 0]
    /\ wok = [p \in PeerCalls |-> TRUE]
    /\ link = "up" /\ inq = <<>> /\ outq = <<>>
============================================================================
