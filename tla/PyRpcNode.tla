----------------------------- MODULE PyRpcNode -----------------------------
(***************************************************************************)
(* The RPC node of the client (src/DollDbg.Client/DollDbg/_Rpc/Rpc.py): an *)
(* asyncio program.  Its tasks are the callers of call(), the workers that *)
(* run handlers, the receiver, and the one that calls close(); a task runs *)
(* until an await suspends it.  Over a named pipe every send does, over    *)
(* TCP one that finds more in the stream's buffer than its limit; where it *)
(* does not, nobody else runs between header and buffer, which is one of   *)
(* the schedules here.                                                     *)
(*                                                                         *)
(* No exception callback is installed (Client.py 377), and the server uses *)
(* registered channels only.                                               *)
(***************************************************************************)
EXTENDS Naturals, FiniteSets

CONSTANTS
    MaxCalls,   \* bound: calls of the program
    MaxWorks    \* bound: requests of the server

ASSUME BoundsAssumption == MaxCalls \in Nat /\ MaxWorks \in Nat

VARIABLES
    conn,       \* "up", "lost" (broken from outside), "closed"
    wire,       \* whose header has been sent without its buffer so far, or Whole, or Mixed
    requests,   \* _requests: calls with a future in the table
    future,     \* the future of each call: "none", "pending", "value", "exception"
    workers,    \* _workers
    cancelled,  \* workers whose task has been told to end
    pc,         \* where callers and workers are
    receiver,   \* "receiving", "closing", "ended"
    closer,     \* close() of the program: "no", "closing", "ended" (returned or raised)
    loop,       \* close() of "receiver" and "closer": the worker it is at, the dict it began with
    late        \* history: calls made after close() of the program had begun

vars == <<conn, wire, requests, future, workers, cancelled, pc, receiver, closer, loop, late>>

\* Tasks are numbered as they come, which is the order of the dicts.
Calls == 1 .. MaxCalls
Works == MaxCalls + 1 .. MaxCalls + MaxWorks
Tasks == Calls \cup Works

\* Frames were sent in one piece, or a buffer did not follow its header.
Whole == 0
Mixed == MaxCalls + MaxWorks + 1

Closers == {"receiver", "closer"}
NoLoop == [at |-> 0, seen |-> {}, part |-> "header"]

\* Header and buffer are sent.
WithHeader(t) == IF wire = Whole THEN t ELSE Mixed
WithBuffer(t) == IF wire = t THEN Whole ELSE Mixed

At(t, where) == pc[t] = where
Goes(t, where) == pc' = [pc EXCEPT ![t] = where]

\* Of the tasks to come, t is the next.
InTurn(t) == \A s \in Tasks : pc[s] = pc[t] /\ pc[t] \in {"idle", "none"} => t <= s

----------------------------------------------------------------------------
(* close(), called by "receiver", "closer" or a "task" that cannot send.   *)
(* "open" are the calls in the table.                                      *)

\* A future that has an exception already takes no other: InvalidStateError, and close() gets
\* no further.  It is the first of the dict if there is one.
Refused(open) == \E c \in open : future[c] = "exception"

Excepted(open) == [c \in Calls |-> IF c \in open THEN "exception" ELSE future[c]]

\* (mutant) the workers are told first, and the futures are not reached
ExcLast(open) == IF workers = {} THEN Excepted(open) ELSE future

\* Every call gets the exception.
ExcAll(open) == Excepted(open)

\* The first worker of the dict, if there is one.
First == {w \in workers : \A v \in workers : w <= v}

\* The calling task goes on, or ends; closing the node cancels the receiver.
Ends(who, finished) ==
    /\ closer' = IF who = "closer" THEN "ended" ELSE closer
    /\ receiver' = IF who = "receiver" \/ finished THEN "ended" ELSE receiver

\* Nothing can be sent any more.  If there is a worker to be told, close() calls itself until
\* Python raises: receiver and transport are left as they are.
CloseBroken(who, open) ==
    LET finished == ~Refused(open) /\ workers = {} IN
    /\ future' = IF Refused(open) THEN future ELSE ExcAll(open)
    /\ cancelled' = IF Refused(open) THEN cancelled ELSE cancelled \cup First
    /\ conn' = IF finished THEN "closed" ELSE conn
    /\ Ends(who, finished)

CloseRefused(who, open) ==
    /\ Refused(open)
    /\ Ends(who, FALSE)
    /\ UNCHANGED <<conn, wire, future, cancelled, loop>>

CloseAtOnce(who, open) ==
    /\ ~Refused(open)
    /\ workers = {}
    /\ future' = ExcAll(open)
    /\ conn' = "closed"
    /\ Ends(who, TRUE)
    /\ UNCHANGED <<wire, cancelled, loop>>

\* Cancel worker w and send the header of its answer, or send the buffer.
Tell(who, w, seen, part) ==
    /\ cancelled' = cancelled \cup {w}
    /\ wire' = IF part = "header" THEN WithHeader(w) ELSE WithBuffer(w)
    /\ loop' = [loop EXCEPT ![who] = [at |-> w, seen |-> seen, part |-> part]]

\* The workers are told one by one, and each send suspends close().
CloseSuspended(who, open) ==
    /\ ~Refused(open)
    /\ \E w \in First : Tell(who, w, workers, "header")
    /\ future' = ExcAll(open)
    /\ closer' = IF who = "closer" THEN "closing" ELSE closer
    /\ receiver' = IF who = "receiver" THEN "closing" ELSE receiver
    /\ UNCHANGED conn

CloseUp(who, open) ==
    /\ conn = "up"
    /\ CloseRefused(who, open) \/ CloseAtOnce(who, open) \/ CloseSuspended(who, open)

InLoop(who) == IF who = "closer" THEN closer = "closing" ELSE receiver = "closing"
Telling(who, part) == InLoop(who) /\ loop[who].part = part /\ conn = "up"
LoopUnchanged == UNCHANGED <<requests, workers, pc, late>>

TellBuffer(who) ==
    /\ Telling(who, "header")
    /\ Tell(who, loop[who].at, loop[who].seen, "buffer")
    /\ UNCHANGED <<conn, future, receiver, closer>>
    /\ LoopUnchanged

\* The dict is as it was when the loop began; or it has kept its size at least, and whether the
\* loop goes on, skips a worker, ends or raises depends on how the dict is laid out.
Same(who) == workers = loop[who].seen
SameSize(who) == Cardinality(workers) = Cardinality(loop[who].seen)

\* Workers behind the one that has been told.
Behind(who) == {w \in workers : w > loop[who].at}

TellNext(who) ==
    /\ Telling(who, "buffer")
    /\ SameSize(who)
    /\ \E w \in Behind(who) :
        /\ Same(who) => \A v \in Behind(who) : w <= v
        /\ Tell(who, w, loop[who].seen, "header")
    /\ UNCHANGED <<conn, future, receiver, closer>>
    /\ LoopUnchanged

\* All workers have been told, or RuntimeError: receiver and transport are left as they are.
TellEnds(who) ==
    /\ Telling(who, "buffer")
    /\ \E finished \in BOOLEAN :
        /\ finished => SameSize(who) /\ (Same(who) => Behind(who) = {})
        /\ ~finished => ~Same(who)
        /\ conn' = IF finished THEN "closed" ELSE conn
        /\ Ends(who, finished)
    /\ loop' = [loop EXCEPT ![who] = NoLoop]
    /\ UNCHANGED <<wire, future, cancelled>>
    /\ LoopUnchanged

\* The connection has gone while close() was suspended: it closes once more, and raises.
TellFails(who) ==
    /\ InLoop(who)
    /\ conn # "up"
    /\ CloseBroken(who, requests)
    /\ loop' = [loop EXCEPT ![who] = NoLoop]
    /\ UNCHANGED wire
    /\ LoopUnchanged

----------------------------------------------------------------------------
(* Callers and workers.                                                    *)

SendHeader(t) == wire' = WithHeader(t) /\ Goes(t, "header")

SendUnchanged == UNCHANGED <<conn, cancelled, receiver, closer, loop>>

\* In a send, or about to begin one.
Sending(t) == At(t, "idle") \/ At(t, "handler") \/ At(t, "header") \/ At(t, "buffer")

CallBegin(c) ==
    /\ At(c, "idle")
    /\ InTurn(c)
    /\ conn = "up"
    /\ requests' = requests \cup {c}
    /\ future' = [future EXCEPT ![c] = "pending"]
    /\ SendHeader(c)
    /\ late' = IF closer = "no" THEN late ELSE late \cup {c}
    /\ UNCHANGED workers
    /\ SendUnchanged

\* The caller closes the node and, whether that raises or not, gets an exception.
CallBroken(c) ==
    /\ Sending(c)
    /\ InTurn(c)
    /\ conn # "up"
    /\ requests' = IF At(c, "idle") THEN requests \cup {c} ELSE requests
    /\ CloseBroken("task", requests')
    /\ Goes(c, "raised")
    /\ UNCHANGED <<wire, workers, loop, late>>

SendBuffer(t) ==
    /\ At(t, "header")
    /\ t \notin cancelled
    /\ conn = "up"
    /\ wire' = WithBuffer(t)
    /\ Goes(t, "buffer")
    /\ UNCHANGED <<requests, future, workers, late>>
    /\ SendUnchanged

CallSent(c) ==
    /\ At(c, "buffer")
    /\ Goes(c, "future")
    /\ UNCHANGED <<wire, requests, future, workers, late>>
    /\ SendUnchanged

CallReturns(c) ==
    /\ At(c, "future")
    /\ future[c] \in {"value", "exception"}
    /\ Goes(c, IF future[c] = "value" THEN "done" ELSE "raised")
    /\ UNCHANGED <<wire, requests, future, workers, late>>
    /\ SendUnchanged

\* The handler returns, or raises and its exception is the answer.
HandlerEnds(w) ==
    /\ At(w, "handler")
    /\ w \notin cancelled
    /\ conn = "up"
    /\ SendHeader(w)
    /\ UNCHANGED <<requests, future, workers, late>>
    /\ SendUnchanged

\* The answer is sent, or the task has been cancelled.
WorkerEnds(w) ==
    /\ \/ At(w, "buffer")
       \/ w \in cancelled /\ Sending(w)
    /\ Goes(w, "done")
    /\ workers' = workers \ {w}
    /\ UNCHANGED <<wire, requests, future, late>>
    /\ SendUnchanged

\* The worker closes the node, which raises as it is in the table itself.
WorkerBroken(w) ==
    /\ Sending(w)
    /\ conn # "up"
    /\ w \notin cancelled
    /\ CloseBroken("task", requests)
    /\ Goes(w, "done")
    /\ workers' = workers \ {w}
    /\ UNCHANGED <<wire, requests, loop, late>>

----------------------------------------------------------------------------
(* The receiver.                                                           *)

Intact == wire # Mixed

Receiving == receiver = "receiving" /\ conn = "up"

\* The server has got the call in one piece and answers.
Answered(c) == Receiving /\ Intact /\ c \in requests /\ (At(c, "buffer") \/ At(c, "future"))

\* (mutant) the future stays in the table
KeepRequest(c) == requests

PopRequest(c) == requests \ {c}

ReceiveAnswer(c) ==
    /\ Answered(c)
    /\ future[c] = "pending"
    /\ requests' = PopRequest(c)
    /\ future' = [future EXCEPT ![c] = "value"]
    /\ UNCHANGED <<conn, wire, workers, cancelled, pc, receiver, closer, loop, late>>

\* A close() that failed has left the receiver running and an exception in the future: the
\* receiver closes the node in its turn.
ReceiveLateAnswer(c) ==
    /\ Answered(c)
    /\ future[c] = "exception"
    /\ requests' = PopRequest(c)
    /\ CloseUp("receiver", requests')
    /\ UNCHANGED <<workers, pc, late>>

ReceiveRequest(w) ==
    /\ Receiving
    /\ At(w, "none")
    /\ InTurn(w)
    /\ workers' = workers \cup {w}
    /\ Goes(w, "handler")
    /\ UNCHANGED <<conn, wire, requests, future, cancelled, receiver, closer, loop, late>>

\* (mutant) the receiver goes on with its loop
ReceiverRetries ==
    /\ receiver = "receiving"
    /\ conn # "up"
    /\ UNCHANGED vars

ReceiverBroken ==
    /\ receiver = "receiving"
    /\ conn # "up"
    /\ CloseBroken("receiver", requests)
    /\ UNCHANGED <<wire, requests, workers, pc, loop, late>>

----------------------------------------------------------------------------
Lose ==
    /\ conn = "up"
    /\ conn' = "lost"
    /\ UNCHANGED <<wire, requests, future, workers, cancelled, pc, receiver, closer, loop, late>>

Close ==
    /\ closer = "no"
    /\ \/ CloseUp("closer", requests)
       \/ conn # "up" /\ CloseBroken("closer", requests) /\ UNCHANGED <<wire, loop>>
    /\ UNCHANGED <<requests, workers, pc, late>>

Init ==
    /\ conn = "up"
    /\ wire = Whole
    /\ requests = {}
    /\ future = [c \in Calls |-> "none"]
    /\ workers = {}
    /\ cancelled = {}
    /\ pc = [t \in Tasks |-> IF t \in Calls THEN "idle" ELSE "none"]
    /\ receiver = "receiving"
    /\ closer = "no"
    /\ loop = [who \in Closers |-> NoLoop]
    /\ late = {}

CallStep(c) ==
    \/ ~At(c, "idle") /\ CallBroken(c)
    \/ SendBuffer(c) \/ CallSent(c) \/ CallReturns(c)

WorkerStep(w) == SendBuffer(w) \/ WorkerEnds(w)

CloseStep(who) == TellBuffer(who) \/ TellNext(who) \/ TellEnds(who) \/ TellFails(who)

ReceiverStep ==
    ReceiverBroken \/ \E c \in Calls : ReceiveAnswer(c) \/ ReceiveLateAnswer(c)

Next ==
    \/ \E c \in Calls : CallBegin(c) \/ CallBroken(c) \/ CallStep(c)
    \/ \E w \in Works : ReceiveRequest(w) \/ HandlerEnds(w) \/ WorkerBroken(w) \/ WorkerStep(w)
    \/ \E who \in Closers : CloseStep(who)
    \/ ReceiverStep \/ Lose \/ Close

Spec == Init /\ [][Next]_vars

----------------------------------------------------------------------------
(* Properties.                                                             *)

TypeOK ==
    /\ conn \in {"up", "lost", "closed"}
    /\ wire \in Whole .. Mixed
    /\ requests \subseteq {c \in Calls : future[c] # "value"}
    /\ future \in [Calls -> {"none", "pending", "value", "exception"}]
    /\ workers = {w \in Works : pc[w] \in {"handler", "header", "buffer"}}
    /\ cancelled \subseteq Works
    /\ pc \in [Tasks -> {"idle", "none", "handler", "header", "buffer", "future", "done", "raised"}]
    /\ receiver \in {"receiving", "closing", "ended"}
    /\ closer \in {"no", "closing", "ended"}
    /\ loop \in [Closers -> [at : {0} \cup Works, seen : SUBSET Works, part : {"header", "buffer"}]]
    /\ late \subseteq Calls

\* Whoever waits for an answer is told when there is nobody left to bring it: once the receiver
\* has ended, no call is pending that was made before close() (Rpc.py 81-103, 140-152).  Callers,
\* workers, receiver and the program close the node one after another and on top of each other,
\* and most of these close() stop half-way: on a future that has an exception already, on a dict
\* that has changed, or on sends that fail for ever.
NobodyForgotten == receiver = "ended" => \A c \in Calls \ late : future[c] # "pending"

\* Receiver and workers run on, and tasks that are suspended in a send get on; the server
\* answers.  Nothing ends a handler.
Fairness ==
    /\ \A c \in Calls : WF_vars(CallStep(c))
    /\ \A w \in Works : WF_vars(WorkerStep(w))
    /\ \A who \in Closers : WF_vars(CloseStep(who))
    /\ WF_vars(ReceiverStep)

FairSpec == Spec /\ Fairness

\* Every call returns or raises (Rpc.py 109-122), also when the connection is lost in the middle
\* of it, however many workers and callers notice and close the node one after another.  The
\* exceptions are calls made after close() has begun, which may be forgotten (Rpc.py 142-152), and
\* frames that got mixed, which are not answered.
CallsReturn ==
    \A c \in Calls :
        pc[c] \in {"header", "buffer", "future"} ~>
            pc[c] \in {"done", "raised"} \/ c \in late \/ ~Intact
=============================================================================
