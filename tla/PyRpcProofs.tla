----------------------------- MODULE PyRpcProofs -----------------------------
(***************************************************************************)
(* Proofs about PyRpcNode, for any number of calls and requests.           *)
(***************************************************************************)
EXTENDS PyRpcNode, TLAPS

Places == {"idle", "none", "handler", "header", "buffer", "future", "done", "raised"}

\* A worker that has yet to end.
Working == {"handler", "header", "buffer"}

\* Workers are never where only callers are, a call is answered after it was made, a close() that
\* is suspended is at a worker, and whoever waits for an answer is in the table.
TableInv ==
    /\ \A w \in Works : pc[w] \in Working \cup {"none", "done"}
    /\ \A c \in Calls : pc[c] = "idle" => future[c] # "value"
    /\ \A who \in Closers : InLoop(who) => loop[who].at \in Works
    /\ \A c \in Calls : future[c] = "pending" => c \in requests

TypeInv == TypeOK /\ TableInv

\* Somebody has closed the node, or tried to.
Begun == closer # "no" \/ receiver # "receiving" \/ \E c \in Calls : future[c] = "exception"

\* Nobody does before the program or a lost connection, and whoever does leaves no call pending
\* that was made before close().
ForgetInv ==
    /\ Begun => closer # "no" \/ conn # "up"
    /\ Begun => \A c \in Calls \ late : future[c] # "pending"

----------------------------------------------------------------------------
LEMMA TaskFacts ==
    /\ \A t \in Tasks : t \in Whole .. Mixed /\ t # Whole
    /\ Whole \in Whole .. Mixed /\ Mixed \in Whole .. Mixed /\ Mixed # Whole
    /\ Calls \subseteq Tasks /\ Works \subseteq Tasks
    /\ \A t \in Calls : t \notin Works
  BY BoundsAssumption DEF Tasks, Calls, Works, Whole, Mixed

LEMMA WireFacts ==
    ASSUME TypeOK, NEW t \in Tasks
    PROVE  WithHeader(t) \in Whole .. Mixed /\ WithBuffer(t) \in Whole .. Mixed
  BY TaskFacts DEF TypeOK, WithHeader, WithBuffer

Futures == {"none", "pending", "value", "exception"}
Loops == [at : {0} \cup Works, seen : SUBSET Works, part : {"header", "buffer"}]

LEMMA LoopFacts == NoLoop \in Loops
  BY DEF NoLoop, Loops

----------------------------------------------------------------------------
(* close().                                                                *)

\* What is handed to close(): the calls in the table, with all that wait for an answer.
Table(open) ==
    /\ open \subseteq {c \in Calls : future[c] # "value"}
    /\ \A c \in Calls : future[c] = "pending" => c \in open

\* Of the invariants, what close() changes.
CloseTypes(open) ==
    /\ conn \in {"up", "lost", "closed"}
    /\ wire \in Whole .. Mixed
    /\ Table(open)
    /\ future \in [Calls -> Futures]
    /\ cancelled \subseteq Works
    /\ receiver \in {"receiving", "closing", "ended"}
    /\ closer \in {"no", "closing", "ended"}
    /\ loop \in [Closers -> Loops]
    /\ \A who \in Closers : InLoop(who) => loop[who].at \in Works

\* What is about the tasks.
TaskTypes ==
    /\ workers = {w \in Works : pc[w] \in Working}
    /\ pc \in [Tasks -> Places]
    /\ \A w \in Works : pc[w] \in Working \cup {"none", "done"}
    /\ late \subseteq Calls

Answers == \A c \in Calls : pc[c] = "idle" => future[c] # "value"

LEMMA TypeParts ==
    /\ TypeInv <=> TaskTypes /\ Answers /\ CloseTypes(requests)
    /\ TypeInv' <=> TaskTypes' /\ Answers' /\ CloseTypes(requests)'
  BY DEF TypeInv, TypeOK, TableInv, TaskTypes, Answers, CloseTypes, Table, Working, Places, Futures,
     Loops

\* What close() does to the futures: all that wait for an answer get an exception.
LEMMA ExcFacts ==
    ASSUME future \in [Calls -> Futures], NEW open, Table(open)
    PROVE  /\ ExcAll(open) \in [Calls -> Futures]
           /\ \A c \in Calls : ExcAll(open)[c] # "pending"
           /\ \A c \in Calls : ExcAll(open)[c] = "value" => future[c] = "value" /\ c \notin open
  BY DEF ExcAll, Excepted, Table, Futures

\* close() when nothing can be sent.
LEMMA BrokenKeeps ==
    ASSUME TypeInv, NEW who \in Closers \cup {"task"}, NEW open, Table(open), CloseBroken(who, open)
    PROVE  /\ future' \in [Calls -> Futures]
           /\ \A c \in Calls : future'[c] = "value" => future[c] = "value"
           /\ Table(open)'
           /\ cancelled' \subseteq Works
           /\ conn' \in {conn, "closed"}
           /\ receiver' \in {receiver, "ended"}
           /\ closer' \in {closer, "ended"}
           /\ who = "receiver" => receiver' = "ended"
           /\ who = "closer" => closer' = "ended"
<1> USE DEF TypeInv, TypeOK, TableInv, Futures
<1>1. future' \in {future, ExcAll(open)}
  BY DEF CloseBroken
<1>2. /\ future' \in [Calls -> Futures]
      /\ \A c \in Calls : future'[c] = "value" => future[c] = "value"
      /\ Table(open)'
  BY <1>1, ExcFacts DEF Table
<1>3. cancelled' \subseteq Works /\ conn' \in {conn, "closed"}
  BY DEF CloseBroken, First
<1>4. /\ receiver' \in {receiver, "ended"} /\ closer' \in {closer, "ended"}
      /\ who = "receiver" => receiver' = "ended"
      /\ who = "closer" => closer' = "ended"
  BY DEF CloseBroken, Ends
<1> QED
  BY <1>2, <1>3, <1>4

LEMMA TellKeeps ==
    ASSUME TypeInv, NEW who \in Closers, NEW w \in Works, NEW seen \in SUBSET Works,
           NEW part \in {"header", "buffer"}, Tell(who, w, seen, part)
    PROVE  /\ cancelled' \subseteq Works
           /\ wire' \in Whole .. Mixed
           /\ loop' \in [Closers -> Loops]
           /\ loop'[who].at = w
           /\ \A x \in Closers : x # who => loop'[x] = loop[x]
<1>1. PICK e : e = [at |-> w, seen |-> seen, part |-> part]
  OBVIOUS
<1>2. e \in Loops /\ e.at = w
  BY <1>1 DEF Loops
<1>3. loop' = [loop EXCEPT ![who] = e] /\ cancelled' = cancelled \cup {w}
  BY <1>1 DEF Tell
<1>4. wire' \in Whole .. Mixed
  BY WireFacts, TaskFacts DEF Tell, TypeInv
<1> QED
  BY <1>2, <1>3, <1>4 DEF TypeInv, TypeOK, Loops

\* close() while the connection is up.
LEMMA UpKeeps ==
    ASSUME TypeInv, NEW who \in Closers, ~InLoop(who), NEW open, Table(open), CloseUp(who, open)
    PROVE  CloseTypes(open)' /\ \A c \in Calls : future'[c] = "value" => future[c] = "value"
<1>0. CloseTypes(requests)
  BY TypeParts
<1> USE <1>0 DEF CloseTypes
<1>1. CASE CloseRefused(who, open)
  BY <1>1 DEF CloseRefused, Ends, Table, InLoop
<1>2. CASE CloseAtOnce(who, open)
  <2>1. /\ future' = ExcAll(open) /\ conn' = "closed" /\ UNCHANGED <<wire, cancelled, loop>>
        /\ receiver' = "ended" /\ closer' \in {closer, "ended"}
    BY <1>2 DEF CloseAtOnce, Ends
  <2>2. Table(open)' /\ future' \in [Calls -> Futures]
    BY <2>1, ExcFacts DEF Table
  <2> QED
    BY <2>1, <2>2, ExcFacts DEF InLoop
<1>3. CASE CloseSuspended(who, open)
  <2>1. PICK w \in First : Tell(who, w, workers, "header")
    BY <1>3 DEF CloseSuspended
  <2>2. /\ future' = ExcAll(open) /\ conn' = conn
        /\ closer' = IF who = "closer" THEN "closing" ELSE closer
        /\ receiver' = IF who = "receiver" THEN "closing" ELSE receiver
    BY <1>3 DEF CloseSuspended
  <2>3. w \in Works /\ workers \in SUBSET Works
    BY <2>1 DEF First, TypeInv, TypeOK
  <2>4. /\ cancelled' \subseteq Works
        /\ wire' \in Whole .. Mixed
        /\ loop' \in [Closers -> Loops]
        /\ loop'[who].at \in Works
        /\ \A x \in Closers : x # who => loop'[x] = loop[x]
    BY <2>1, <2>3, TellKeeps
  <2>5. Table(open)' /\ future' \in [Calls -> Futures]
    BY <2>2, ExcFacts DEF Table
  <2>6. \A x \in Closers : InLoop(x)' => loop'[x].at \in Works
    BY <2>2, <2>4 DEF InLoop, Closers
  <2> QED
    BY <2>2, <2>4, <2>5, <2>6, ExcFacts
<1> QED
  BY <1>1, <1>2, <1>3 DEF CloseUp

----------------------------------------------------------------------------
(* The steps of tasks.                                                     *)

LEMMA InitType == Init => TypeInv
<1> SUFFICES ASSUME Init PROVE TypeInv
  OBVIOUS
<1>1. TaskTypes /\ Answers
  BY TaskFacts DEF Init, TaskTypes, Answers, Places, Working
<1>2. CloseTypes(requests)
  BY TaskFacts, LoopFacts DEF Init, CloseTypes, Table, InLoop, Closers, Futures
<1> QED
  BY <1>1, <1>2, TypeParts

\* A task goes from one place to another, a worker within the dict.
LEMMA StayTask ==
    ASSUME TaskTypes, NEW t \in Tasks, NEW p \in Places, Goes(t, p), workers' = workers,
           late' \subseteq Calls, t \in Works => pc[t] \in Working /\ p \in Working
    PROVE  TaskTypes'
  BY DEF TaskTypes, Goes, Working

\* A worker leaves the dict, or comes into it.
LEMMA LeaveTask ==
    ASSUME TaskTypes, NEW w \in Works, Goes(w, "done"), workers' = workers \ {w}, late' = late
    PROVE  TaskTypes'
  BY TaskFacts DEF TaskTypes, Goes, Working, Places

LEMMA EnterTask ==
    ASSUME TaskTypes, NEW w \in Works, Goes(w, "handler"), workers' = workers \cup {w}, late' = late
    PROVE  TaskTypes'
  BY TaskFacts DEF TaskTypes, Goes, Working, Places

\* Nobody begins twice.
LEMMA StayAnswers ==
    ASSUME Answers, TaskTypes, NEW t \in Tasks, NEW p \in Places \ {"idle"}, Goes(t, p),
           \A c \in Calls : future'[c] = "value" => future[c] = "value"
    PROVE  Answers'
  BY DEF Answers, TaskTypes, Goes

\* What a caller or worker does while the connection is up.
LEMMA SendType ==
    ASSUME TypeInv, NEW t \in Tasks,
           \/ t \in Calls /\ (CallBegin(t) \/ CallSent(t) \/ CallReturns(t))
           \/ SendBuffer(t)
           \/ t \in Works /\ (HandlerEnds(t) \/ WorkerEnds(t))
    PROVE  TypeInv'
<1>0. TaskTypes /\ Answers /\ CloseTypes(requests) /\ TypeOK
  BY TypeParts DEF TypeInv
<1> USE DEF SendUnchanged
<1>1. CASE t \in Calls /\ CallBegin(t)
  <2>1. /\ pc[t] = "idle" /\ UNCHANGED <<workers, conn, cancelled, receiver, closer, loop>>
        /\ requests' = requests \cup {t} /\ future' = [future EXCEPT ![t] = "pending"]
        /\ wire' = WithHeader(t) /\ Goes(t, "header")
        /\ late' \in {late, late \cup {t}}
    BY <1>1 DEF CallBegin, SendHeader, At
  <2>2. TaskTypes'
    BY <1>0, <1>1, <2>1, StayTask, TaskFacts DEF Places, TaskTypes
  <2>3. Answers'
    BY <1>0, <1>1, <2>1, StayAnswers, TaskFacts DEF Places, CloseTypes
  <2>4. wire' \in Whole .. Mixed
    BY <1>0, <2>1, WireFacts
  <2>5. Table(requests)' /\ future' \in [Calls -> Futures]
    BY <1>0, <1>1, <2>1 DEF CloseTypes, Table, Futures
  <2>6. CloseTypes(requests)'
    BY <1>0, <2>1, <2>4, <2>5 DEF CloseTypes, InLoop
  <2> QED
    BY <2>2, <2>3, <2>6, TypeParts
<1>2. CASE t \in Calls /\ (CallSent(t) \/ CallReturns(t))
  <2>1. /\ UNCHANGED <<wire, requests, future, workers, conn, cancelled, receiver, closer, loop, late>>
        /\ Goes(t, "future") \/ Goes(t, "done") \/ Goes(t, "raised")
    BY <1>2 DEF CallSent, CallReturns
  <2>2. TaskTypes'
    BY <1>0, <1>2, <2>1, StayTask, TaskFacts DEF Places, TaskTypes
  <2>3. Answers'
    BY <1>0, <2>1, StayAnswers DEF Places
  <2>4. CloseTypes(requests)'
    BY <1>0, <2>1 DEF CloseTypes, Table, InLoop
  <2> QED
    BY <2>2, <2>3, <2>4, TypeParts
<1>3. CASE SendBuffer(t)
  <2>1. /\ UNCHANGED <<requests, future, workers, conn, cancelled, receiver, closer, loop, late>>
        /\ pc[t] = "header" /\ Goes(t, "buffer") /\ wire' = WithBuffer(t)
    BY <1>3 DEF SendBuffer, At
  <2>2. TaskTypes'
    BY <1>0, <2>1, StayTask DEF Places, TaskTypes, Working
  <2>3. Answers'
    BY <1>0, <2>1, StayAnswers DEF Places
  <2>4. CloseTypes(requests)'
    BY <1>0, <2>1, WireFacts DEF CloseTypes, Table, InLoop
  <2> QED
    BY <2>2, <2>3, <2>4, TypeParts
<1>4. CASE t \in Works /\ HandlerEnds(t)
  <2>1. /\ UNCHANGED <<requests, future, workers, conn, cancelled, receiver, closer, loop, late>>
        /\ pc[t] = "handler" /\ Goes(t, "header") /\ wire' = WithHeader(t)
    BY <1>4 DEF HandlerEnds, SendHeader, At
  <2>2. TaskTypes'
    BY <1>0, <2>1, StayTask DEF Places, TaskTypes, Working
  <2>3. Answers'
    BY <1>0, <2>1, StayAnswers DEF Places
  <2>4. CloseTypes(requests)'
    BY <1>0, <2>1, WireFacts DEF CloseTypes, Table, InLoop
  <2> QED
    BY <2>2, <2>3, <2>4, TypeParts
<1>5. CASE t \in Works /\ WorkerEnds(t)
  <2>1. /\ UNCHANGED <<wire, requests, future, conn, cancelled, receiver, closer, loop, late>>
        /\ Goes(t, "done") /\ workers' = workers \ {t}
    BY <1>5 DEF WorkerEnds
  <2>2. TaskTypes'
    BY <1>0, <1>5, <2>1, LeaveTask
  <2>3. Answers'
    BY <1>0, <2>1, StayAnswers DEF Places
  <2>4. CloseTypes(requests)'
    BY <1>0, <2>1 DEF CloseTypes, Table, InLoop
  <2> QED
    BY <2>2, <2>3, <2>4, TypeParts
<1> QED
  BY <1>1, <1>2, <1>3, <1>4, <1>5

\* close() in a task that finds the connection gone.
LEMMA BrokenType ==
    ASSUME TypeInv,
           \/ \E c \in Calls : CallBroken(c)
           \/ \E w \in Works : WorkerBroken(w)
           \/ ReceiverBroken
           \/ \E who \in Closers : TellFails(who)
           \/ Close /\ conn # "up"
    PROVE  TypeInv'
<1>0. TaskTypes /\ Answers /\ CloseTypes(requests)
  BY TypeParts
<1>1. ASSUME NEW who \in Closers \cup {"task"}, NEW open, Table(open), CloseBroken(who, open),
             requests' = open, wire' = wire, loop' \in [Closers -> Loops],
             \A x \in Closers : InLoop(x)' => InLoop(x) /\ loop'[x] = loop[x]
      PROVE  CloseTypes(requests)' /\ \A c \in Calls : future'[c] = "value" => future[c] = "value"
  <2>1. CloseTypes(open)' /\ \A c \in Calls : future'[c] = "value" => future[c] = "value"
    BY <1>0, <1>1, BrokenKeeps DEF CloseTypes
  <2> QED
    BY <1>1, <2>1 DEF CloseTypes, Table
<1>2. ASSUME UNCHANGED loop, closer' \in {closer, "ended"}, receiver' \in {receiver, "ended"}
      PROVE  /\ loop' \in [Closers -> Loops]
             /\ \A x \in Closers : InLoop(x)' => InLoop(x) /\ loop'[x] = loop[x]
  BY <1>0, <1>2 DEF CloseTypes, InLoop
<1>3. ASSUME NEW c \in Calls, CallBroken(c) PROVE TypeInv'
  <2>1. /\ Goes(c, "raised") /\ UNCHANGED <<wire, workers, loop, late>>
        /\ requests' \in {requests, requests \cup {c}} /\ CloseBroken("task", requests')
        /\ requests' # requests => pc[c] = "idle"
    BY <1>3 DEF CallBroken, At
  <2>2. PICK open : open = requests'
    OBVIOUS
  <2>3. Table(open)
    BY <1>0, <2>1, <2>2 DEF CloseTypes, Table, Answers
  <2>4. closer' \in {closer, "ended"} /\ receiver' \in {receiver, "ended"}
    BY <2>1 DEF CloseBroken, Ends
  <2>5. CloseTypes(requests)' /\ \A x \in Calls : future'[x] = "value" => future[x] = "value"
    BY <1>1, <1>2, <2>1, <2>2, <2>3, <2>4
  <2>6. TaskTypes' /\ Answers'
    BY <1>0, <2>1, <2>5, StayTask, StayAnswers, TaskFacts DEF Places, TaskTypes
  <2> QED
    BY <2>5, <2>6, TypeParts
<1>4. ASSUME NEW w \in Works, WorkerBroken(w) PROVE TypeInv'
  <2>1. /\ Goes(w, "done") /\ UNCHANGED <<wire, requests, loop, late>>
        /\ workers' = workers \ {w} /\ CloseBroken("task", requests)
    BY <1>4 DEF WorkerBroken
  <2>2. closer' \in {closer, "ended"} /\ receiver' \in {receiver, "ended"}
    BY <2>1 DEF CloseBroken, Ends
  <2>3. CloseTypes(requests)' /\ \A x \in Calls : future'[x] = "value" => future[x] = "value"
    BY <1>0, <1>1, <1>2, <2>1, <2>2 DEF CloseTypes
  <2>4. TaskTypes' /\ Answers'
    BY <1>0, <2>1, <2>3, LeaveTask, StayAnswers, TaskFacts DEF Places
  <2> QED
    BY <2>3, <2>4, TypeParts
<1>5. CASE ReceiverBroken \/ (Close /\ conn # "up")
  <2>1. /\ UNCHANGED <<wire, requests, workers, pc, loop, late>>
        /\ \E who \in Closers : CloseBroken(who, requests)
    BY <1>5 DEF ReceiverBroken, Close, CloseUp, Closers
  <2>2. closer' \in {closer, "ended"} /\ receiver' \in {receiver, "ended"}
    BY <2>1 DEF CloseBroken, Ends
  <2>3. CloseTypes(requests)' /\ \A x \in Calls : future'[x] = "value" => future[x] = "value"
    BY <1>0, <1>1, <1>2, <2>1, <2>2 DEF CloseTypes
  <2>4. TaskTypes' /\ Answers'
    BY <1>0, <2>1, <2>3 DEF TaskTypes, Answers
  <2> QED
    BY <2>3, <2>4, TypeParts
<1>6. ASSUME NEW who \in Closers, TellFails(who) PROVE TypeInv'
  <2>1. /\ UNCHANGED <<wire, requests, workers, pc, late>>
        /\ loop' = [loop EXCEPT ![who] = NoLoop] /\ CloseBroken(who, requests)
    BY <1>6 DEF TellFails, LoopUnchanged
  <2>2. /\ closer' \in {closer, "ended"} /\ receiver' \in {receiver, "ended"}
        /\ who = "closer" => closer' = "ended"
        /\ who = "receiver" => receiver' = "ended"
    BY <2>1 DEF CloseBroken, Ends
  <2>3. loop' \in [Closers -> Loops]
    BY <1>0, <2>1, LoopFacts DEF CloseTypes
  <2>4. \A x \in Closers : InLoop(x)' => InLoop(x) /\ loop'[x] = loop[x]
    BY <1>0, <2>1, <2>2 DEF InLoop, CloseTypes, Closers
  <2>5. CloseTypes(requests)' /\ \A x \in Calls : future'[x] = "value" => future[x] = "value"
    BY <1>0, <1>1, <2>1, <2>3, <2>4 DEF CloseTypes
  <2>6. TaskTypes' /\ Answers'
    BY <1>0, <2>1, <2>5 DEF TaskTypes, Answers
  <2> QED
    BY <2>5, <2>6, TypeParts
<1> QED
  BY <1>3, <1>4, <1>5, <1>6

\* close() goes on where it was suspended.
LEMMA LoopType ==
    ASSUME TypeInv, NEW who \in Closers, TellBuffer(who) \/ TellNext(who) \/ TellEnds(who)
    PROVE  TypeInv'
<1>0. /\ TaskTypes /\ Answers /\ CloseTypes(requests)
      /\ workers \subseteq Works /\ loop[who].seen \in SUBSET Works
  BY TypeParts DEF TypeInv, TypeOK
<1>1. UNCHANGED <<requests, workers, pc, late, future>> /\ InLoop(who)
  BY DEF TellBuffer, TellNext, TellEnds, LoopUnchanged, Telling
<1>2. TaskTypes' /\ Answers'
  BY <1>0, <1>1 DEF TaskTypes, Answers
<1>3. CASE TellBuffer(who) \/ TellNext(who)
  <2>1. /\ UNCHANGED <<conn, receiver, closer>>
        /\ \E w \in Works, part \in {"header", "buffer"} : Tell(who, w, loop[who].seen, part)
    BY <1>0, <1>1, <1>3 DEF TellBuffer, TellNext, Behind, CloseTypes
  <2>2. CloseTypes(requests)'
    BY <1>0, <1>1, <2>1, TellKeeps DEF CloseTypes, Table, InLoop
  <2> QED
    BY <1>2, <2>2, TypeParts
<1>4. CASE TellEnds(who)
  <2>1. /\ UNCHANGED <<wire, cancelled>> /\ loop' = [loop EXCEPT ![who] = NoLoop]
        /\ conn' \in {conn, "closed"}
        /\ closer' \in {closer, "ended"} /\ receiver' \in {receiver, "ended"}
        /\ who = "closer" => closer' = "ended"
        /\ who = "receiver" => receiver' = "ended"
    BY <1>4 DEF TellEnds, Ends
  <2>2. loop' \in [Closers -> Loops]
    BY <1>0, <2>1, LoopFacts DEF CloseTypes
  <2>3. \A x \in Closers : InLoop(x)' => InLoop(x) /\ loop'[x] = loop[x]
    BY <1>0, <2>1 DEF InLoop, CloseTypes, Closers
  <2>4. CloseTypes(requests)'
    BY <1>0, <1>1, <2>1, <2>2, <2>3 DEF CloseTypes, Table
  <2> QED
    BY <1>2, <2>4, TypeParts
<1> QED
  BY <1>3, <1>4

\* What the receiver, a lost connection, and close() of the program do.
LEMMA ReceiveType ==
    ASSUME TypeInv,
           \/ \E c \in Calls : ReceiveAnswer(c) \/ ReceiveLateAnswer(c)
           \/ \E w \in Works : ReceiveRequest(w)
           \/ Lose
           \/ Close /\ conn = "up"
    PROVE  TypeInv'
<1>0. TaskTypes /\ Answers /\ CloseTypes(requests)
  BY TypeParts
<1>1. ASSUME NEW c \in Calls, ReceiveAnswer(c) PROVE TypeInv'
  <2>1. /\ requests' = requests \ {c} /\ future' = [future EXCEPT ![c] = "value"] /\ pc[c] # "idle"
        /\ UNCHANGED <<conn, wire, workers, cancelled, pc, receiver, closer, loop, late>>
    BY <1>1 DEF ReceiveAnswer, Answered, PopRequest, At
  <2>2. Table(requests)' /\ future' \in [Calls -> Futures]
    BY <1>0, <2>1 DEF CloseTypes, Table, Futures
  <2>3. CloseTypes(requests)'
    BY <1>0, <2>1, <2>2 DEF CloseTypes, InLoop
  <2>4. TaskTypes' /\ Answers'
    BY <1>0, <2>1 DEF TaskTypes, Answers, CloseTypes
  <2> QED
    BY <2>3, <2>4, TypeParts
<1>2. ASSUME NEW c \in Calls, ReceiveLateAnswer(c) PROVE TypeInv'
  <2>1. /\ requests' = requests \ {c} /\ future[c] = "exception" /\ receiver = "receiving"
        /\ CloseUp("receiver", requests \ {c}) /\ UNCHANGED <<workers, pc, late>>
    BY <1>2 DEF ReceiveLateAnswer, Answered, Receiving, PopRequest
  <2>2. PICK open : open = requests \ {c}
    OBVIOUS
  <2>3. Table(open) /\ ~InLoop("receiver")
    BY <1>0, <2>1, <2>2 DEF CloseTypes, Table, InLoop
  <2>4. CloseTypes(open)' /\ \A x \in Calls : future'[x] = "value" => future[x] = "value"
    BY <2>1, <2>2, <2>3, UpKeeps DEF Closers
  <2>5. CloseTypes(requests)'
    BY <2>1, <2>2, <2>4 DEF CloseTypes, Table
  <2>6. TaskTypes' /\ Answers'
    BY <1>0, <2>1, <2>4 DEF TaskTypes, Answers
  <2> QED
    BY <2>5, <2>6, TypeParts
<1>3. ASSUME NEW w \in Works, ReceiveRequest(w) PROVE TypeInv'
  <2>1. /\ UNCHANGED <<conn, wire, requests, future, cancelled, receiver, closer, loop, late>>
        /\ Goes(w, "handler") /\ workers' = workers \cup {w}
    BY <1>3 DEF ReceiveRequest
  <2>2. TaskTypes' /\ Answers'
    BY <1>0, <2>1, EnterTask, StayAnswers, TaskFacts DEF Places
  <2>3. CloseTypes(requests)'
    BY <1>0, <2>1 DEF CloseTypes, Table, InLoop
  <2> QED
    BY <2>2, <2>3, TypeParts
<1>4. CASE Lose
  BY <1>0, <1>4, TypeParts DEF Lose, CloseTypes, Table, InLoop, TaskTypes, Answers
<1>5. CASE Close /\ conn = "up"
  <2>1. CloseUp("closer", requests) /\ closer = "no" /\ UNCHANGED <<requests, workers, pc, late>>
    BY <1>5 DEF Close
  <2>2. Table(requests) /\ ~InLoop("closer")
    BY <1>0, <2>1 DEF CloseTypes, InLoop
  <2>3. CloseTypes(requests)' /\ \A x \in Calls : future'[x] = "value" => future[x] = "value"
    BY <2>1, <2>2, UpKeeps DEF Closers, CloseTypes, Table
  <2>4. TaskTypes' /\ Answers'
    BY <1>0, <2>1, <2>3 DEF TaskTypes, Answers
  <2> QED
    BY <2>3, <2>4, TypeParts
<1> QED
  BY <1>1, <1>2, <1>3, <1>4, <1>5

LEMMA NextType == TypeInv /\ [Next]_vars => TypeInv'
<1> SUFFICES ASSUME TypeInv, [Next]_vars PROVE TypeInv'
  OBVIOUS
<1>1. CASE UNCHANGED vars
  BY <1>1, TypeParts DEF vars, TaskTypes, Answers, CloseTypes, Table, InLoop
<1>2. CASE Next
  <2>1. Close => (Close /\ conn = "up") \/ (Close /\ conn # "up")
    OBVIOUS
  <2> QED
    BY <1>2, <2>1, SendType, BrokenType, LoopType, ReceiveType, TaskFacts
    DEF Next, CallStep, WorkerStep, CloseStep, ReceiverStep
<1> QED
  BY <1>1, <1>2

\* The types of the client's node, for any number of calls and requests: in particular a task is
\* in the dict of workers as long as it runs, whatever tasks close the node in between
\* (Rpc.py 78-79, 98, 145), and no call is left in the table whose future has a value, on which
\* close() would raise InvalidStateError (Rpc.py 142-144).
THEOREM PyNodeTypeCorrect == Spec => []TypeOK
<1> QED
  BY InitType, NextType, PTL DEF Spec, TypeInv

----------------------------------------------------------------------------
(* Nobody waits in vain.                                                   *)

\* A future takes an exception once, so that a close() that stops at one finds the rest told.
LEMMA RefusedBegun ==
    ASSUME NEW open, Table(open), Refused(open)
    PROVE  Begun
  BY DEF Table, Refused, Begun

\* Whichever way close() ends, all that waited are told, or were by an earlier one.
LEMMA CloseForgets ==
    ASSUME TypeInv, ForgetInv, NEW who, NEW open, Table(open), late' = late,
           CloseBroken(who, open) \/ CloseUp(who, open)
    PROVE  \A c \in Calls \ late' : future'[c] # "pending"
<1>1. CASE Refused(open)
  <2>1. Begun /\ future' = future
    BY <1>1, RefusedBegun DEF CloseBroken, CloseUp, CloseRefused, CloseAtOnce, CloseSuspended
  <2> QED
    BY <2>1 DEF ForgetInv
<1>2. CASE ~Refused(open)
  <2>1. future' = ExcAll(open)
    BY <1>2 DEF CloseBroken, CloseUp, CloseRefused, CloseAtOnce, CloseSuspended
  <2> QED
    BY <2>1, ExcFacts DEF TypeInv, TypeOK, Futures
<1> QED
  BY <1>1, <1>2

LEMMA NextForget == TypeInv /\ ForgetInv /\ [Next]_vars => ForgetInv'
<1> SUFFICES ASSUME TypeInv, ForgetInv, [Next]_vars PROVE ForgetInv'
  OBVIOUS
<1>0. future \in [Calls -> Futures] /\ Table(requests)
  BY TypeParts DEF CloseTypes
\* Steps that close nothing.
<1>1. ASSUME UNCHANGED <<conn, receiver, closer>>, late \subseteq late',
             \A c \in Calls : future'[c] = "exception" => future[c] = "exception",
             \A c \in Calls \ late' : future'[c] = "pending" => future[c] = "pending" \/ ~Begun
      PROVE  ForgetInv'
  <2>1. Begun' => Begun
    BY <1>1 DEF Begun
  <2> QED
    BY <1>1, <2>1 DEF ForgetInv
\* Steps that close the node, for the program or on a connection that has gone.
<1>2. ASSUME \A c \in Calls \ late' : future'[c] # "pending",
             closer' # "no" \/ conn' # "up"
      PROVE  ForgetInv'
  BY <1>2 DEF ForgetInv
<1>3. ASSUME NEW who, NEW open, CloseBroken(who, open), conn # "up" PROVE conn' # "up"
  BY <1>3 DEF CloseBroken
<1>4. ASSUME NEW c \in Calls, CallBegin(c) PROVE ForgetInv'
  <2>1. /\ UNCHANGED <<conn, receiver, closer>> /\ conn = "up"
        /\ future' = [future EXCEPT ![c] = "pending"]
        /\ late' = IF closer = "no" THEN late ELSE late \cup {c}
    BY <1>4 DEF CallBegin, SendUnchanged
  <2>2. c \in late' \/ ~Begun
    BY <2>1 DEF ForgetInv
  <2> QED
    BY <1>0, <1>1, <2>1, <2>2
<1>5. ASSUME NEW c \in Calls, CallBroken(c) PROVE ForgetInv'
  <2>1. /\ requests' \in {requests, requests \cup {c}} /\ CloseBroken("task", requests')
        /\ requests' # requests => pc[c] = "idle"
        /\ conn # "up" /\ late' = late
    BY <1>5 DEF CallBroken, At
  <2>2. PICK open : open = requests'
    OBVIOUS
  <2>3. Table(open)
    BY <1>0, <2>1, <2>2 DEF Table, TypeInv, TableInv
  <2> QED
    BY <1>2, <1>3, <2>1, <2>2, <2>3, CloseForgets
<1>6. ASSUME NEW t \in Tasks,
             SendBuffer(t) \/ CallSent(t) \/ CallReturns(t) \/ HandlerEnds(t) \/ WorkerEnds(t)
             \/ ReceiveRequest(t)
      PROVE  ForgetInv'
  <2>1. UNCHANGED <<conn, receiver, closer, late, future>>
    BY <1>6 DEF SendBuffer, CallSent, CallReturns, HandlerEnds, WorkerEnds, ReceiveRequest, SendUnchanged
  <2> QED
    BY <1>1, <2>1
<1>7. ASSUME NEW w \in Works, WorkerBroken(w) PROVE ForgetInv'
  <2>1. CloseBroken("task", requests) /\ conn # "up" /\ late' = late
    BY <1>7 DEF WorkerBroken
  <2> QED
    BY <1>0, <1>2, <1>3, <2>1, CloseForgets
<1>8. ASSUME NEW who \in Closers, CloseStep(who) PROVE ForgetInv'
  <2>1. CASE TellFails(who)
    <3>1. CloseBroken(who, requests) /\ conn # "up" /\ late' = late
      BY <2>1 DEF TellFails, LoopUnchanged
    <3> QED
      BY <1>0, <1>2, <1>3, <3>1, CloseForgets
  <2>2. CASE TellBuffer(who) \/ TellNext(who)
    <3>1. UNCHANGED <<conn, receiver, closer, late, future>>
      BY <2>2 DEF TellBuffer, TellNext, LoopUnchanged
    <3> QED
      BY <1>1, <3>1
  <2>3. CASE TellEnds(who)
    <3>1. /\ UNCHANGED <<late, future>> /\ InLoop(who)
          /\ conn' \in {conn, "closed"} /\ closer' \in {closer, "ended"}
      BY <2>3 DEF TellEnds, LoopUnchanged, Telling, Ends
    <3>2. Begun
      BY <3>1 DEF InLoop, Begun
    <3> QED
      BY <1>2, <3>1, <3>2 DEF ForgetInv
  <2> QED
    BY <1>8, <2>1, <2>2, <2>3 DEF CloseStep
<1>9. ASSUME NEW c \in Calls, ReceiveAnswer(c) PROVE ForgetInv'
  <2>1. future' = [future EXCEPT ![c] = "value"] /\ UNCHANGED <<conn, receiver, closer, late>>
    BY <1>9 DEF ReceiveAnswer
  <2> QED
    BY <1>0, <1>1, <2>1
<1>10. ASSUME NEW c \in Calls, ReceiveLateAnswer(c) PROVE ForgetInv'
  <2>1. /\ future[c] = "exception" /\ conn = "up" /\ late' = late
        /\ CloseUp("receiver", requests \ {c})
    BY <1>10 DEF ReceiveLateAnswer, Answered, Receiving, PopRequest
  <2>2. Table(requests \ {c})
    BY <1>0, <2>1 DEF Table
  <2>3. closer # "no" /\ closer' = closer
    BY <2>1 DEF ForgetInv, Begun, CloseUp, CloseRefused, CloseAtOnce, CloseSuspended, Ends
  <2>4. PICK open : open = requests \ {c}
    OBVIOUS
  <2> QED
    BY <1>2, <2>1, <2>2, <2>3, <2>4, CloseForgets
<1>11. CASE ReceiverBroken
  <2>1. CloseBroken("receiver", requests) /\ conn # "up" /\ late' = late
    BY <1>11 DEF ReceiverBroken
  <2> QED
    BY <1>0, <1>2, <1>3, <2>1, CloseForgets
<1>12. CASE Lose
  BY <1>12 DEF Lose, ForgetInv, Begun
<1>13. CASE Close
  <2>1. late' = late /\ (CloseUp("closer", requests) \/ CloseBroken("closer", requests))
    BY <1>13 DEF Close
  <2>2. closer' # "no"
    BY <2>1 DEF CloseUp, CloseRefused, CloseAtOnce, CloseSuspended, CloseBroken, Ends
  <2> QED
    BY <1>0, <1>2, <2>1, <2>2, CloseForgets
<1>14. CASE UNCHANGED vars
  BY <1>1, <1>14 DEF vars
<1> QED
  BY <1>4, <1>5, <1>6, <1>7, <1>8, <1>9, <1>10, <1>11, <1>12, <1>13, <1>14, TaskFacts
  DEF Next, CallStep, WorkerStep, ReceiverStep

\* Once the receiver has ended no call is pending that was made before close() (Rpc.py 81-103,
\* 140-152): every way to end it leads through a close() that has told all of the table, or has
\* met a future that an earlier close() had told, and that one had told them all.
THEOREM PyNobodyForgotten == Spec => []NobodyForgotten
<1>1. Init => TypeInv /\ ForgetInv
  BY InitType DEF Init, ForgetInv, Begun
<1>2. TypeInv /\ ForgetInv /\ [Next]_vars => (TypeInv /\ ForgetInv)'
  BY NextType, NextForget
<1>3. ForgetInv => NobodyForgotten
  BY DEF ForgetInv, NobodyForgotten, Begun
<1> QED
  BY <1>1, <1>2, <1>3, PTL DEF Spec
=============================================================================
