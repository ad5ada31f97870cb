------------------------- MODULE BlockDeviceProofs -------------------------
(***************************************************************************)
(* Proofs about BlockDevice, for every set of trackers, every number of    *)
(* beats, and every depth of the buffers: its types, that the assertion of *)
(* the widget on write data cannot fail while the target sends a beat      *)
(* later than its request, and that the device acts as an atomic store.    *)
(***************************************************************************)
EXTENDS BlockDevice, SequenceTheorems, TLAPS

-----------------------------------------------------------------------------
\* What the runs' type invariant leaves open: whole records and the driver's
\* queues; and that the counter of a write never runs out before its beats.

Job == [op : Op, value : Value, sent : 0 .. Beats, got : Seq(Value)]
Tracker == [data : Seq(Value), size : {0, Beats}]

Owes(t) == job[t].op = "write" /\ job[t].sent < Beats

TargetTyped ==
  /\ job \in [Tag -> Job]
  /\ \A t \in Tag : Len(job[t].got) < Beats

WidgetTyped ==
  /\ reqBuf \in Seq(Request) /\ Len(reqBuf) <= ReqDepth
  /\ dataBuf \in Seq(Beat) /\ Len(dataBuf) <= DataDepth
  /\ rRespBuf \in Seq(Beat) /\ Len(rRespBuf) <= RespDepth
  /\ wAckBuf \in Seq(Tag) /\ Len(wAckBuf) <= AckDepth
  /\ count \in [Tag -> 0 .. Beats] /\ valid \in [Tag -> BOOLEAN]
  /\ \A t \in Tag : Owes(t) => count[t] > 0
  /\ returnWrite \in BOOLEAN /\ beatsLeft \in 0 .. Beats
  /\ alarm \in BOOLEAN

DriverTyped ==
  /\ requests \in Seq(Request) /\ reqData \in Seq(Beat)
  /\ responses \in Seq(Beat) /\ acks \in Seq(Tag)
  /\ file \in Sector /\ pending \in BOOLEAN
  /\ tracker \in [Tag -> Tracker]
  /\ \A t \in Tag : Len(tracker[t].data) < Beats

Typed == TargetTyped /\ WidgetTyped /\ DriverTyped

\* What the constants are.
LEMMA Sizes ==
  /\ Beats \in Nat /\ Beats > 0 /\ ReqDepth \in Nat /\ ReqDepth > 0
  /\ DataDepth \in Nat /\ DataDepth > 0 /\ RespDepth \in Nat /\ RespDepth > 0
  /\ AckDepth \in Nat /\ AckDepth > 0
  /\ Zero \in Value /\ SameCycle \in BOOLEAN
BY BlockDeviceAssumption

\* The queue of at most one element is empty or holds that element.
LEMMA QueuedOne ==
  ASSUME NEW x
  PROVE  Queued({x}) = <<x>>
BY DEF Queued

LEMMA QueuedNone == Queued({}) = <<>>
BY DEF Queued

LEMMA AtMostOneIs ==
  ASSUME NEW S, NEW r \in AtMostOne(S)
  PROVE  r = {} \/ \E x \in S : r = {x}
BY Zenon DEF AtMostOne

LEMMA QueuedIsSeq ==
  ASSUME NEW S, NEW r \in AtMostOne(S)
  PROVE  Queued(r) \in Seq(S) /\ Len(Queued(r)) <= 1
<1>1. CASE r = {}
  <2>1. Queued(r) = <<>>
    BY <1>1, QueuedNone, Zenon
  <2> QED
    BY <2>1, EmptySeq
<1>2. ASSUME NEW x \in S, r = {x}
      PROVE  Queued(r) \in Seq(S) /\ Len(Queued(r)) <= 1
  <2>1. Queued(r) = <<x>>
    BY <1>2, QueuedOne, Zenon
  <2> QED
    BY <2>1
<1> QED
  BY <1>1, <1>2, AtMostOneIs

\* A queue that gives its first element, or nothing, or gets one more.
LEMMA QueueSteps ==
  ASSUME NEW S, NEW q \in Seq(S)
  PROVE  /\ Len(q) \in Nat
         /\ q # <<>> => /\ Tail(q) \in Seq(S) /\ Len(Tail(q)) = Len(q) - 1
                        /\ Head(q) \in S
         /\ \A x \in S : Append(q, x) \in Seq(S)
                         /\ Len(Append(q, x)) = Len(q) + 1
BY HeadTailProperties, LenProperties, AppendProperties

\* A cycle's response, and what a cycle does to the jobs.
Response(ready) ==
  IF Idle \/ ~ready THEN <<>>
  ELSE IF returnWrite THEN <<[tag |-> Head(wAckBuf)]>>
  ELSE <<Head(rRespBuf)>>

BeatValue(v, t) == IF job[t].op = "free" THEN v ELSE job[t].value

\* The parameters of a cycle.
CycleOf(r, v, b, ready, pick) ==
  /\ r \in Requests /\ v \in Value /\ ready \in BOOLEAN /\ pick \in Picks
  /\ b \in AtMostOne({t \in Tag : CanSend(t, r)})
  /\ TargetCycle(r, v, b, ready, pick)

LEMMA CycleIsOne ==
  ASSUME Cycle
  PROVE  \E r, v, b, ready, pick : CycleOf(r, v, b, ready, pick)
BY DEF Cycle, CycleWith, AnyBeat, CycleOf

\* A request is for a free tag, and a beat is of a write that owes one or, when
\* the target may, of the write that is requested with it.
LEMMA CycleInputs ==
  ASSUME NEW r \in Requests, NEW b \in AtMostOne({t \in Tag : CanSend(t, r)})
  PROVE  /\ r \subseteq Request /\ b \subseteq Tag
         /\ \A q1, q2 \in r : q1 = q2
         /\ \A t1, t2 \in b : t1 = t2
         /\ \A t \in Tag : Asks(r, t) => job[t].op = "free"
         /\ \A t \in Tag : AsksWrite(r, t) => Asks(r, t)
         /\ \A t \in b : Owes(t) \/ (SameCycle /\ AsksWrite(r, t))
         /\ Queued(r) \in Seq(Request) /\ Len(Queued(r)) <= 1
<1> DEFINE R == {q \in Request : job[q.tag].op = "free"}
           B == {t \in Tag : CanSend(t, r)}
<1>1. r = {} \/ \E q \in R : r = {q}
  BY AtMostOneIs DEF Requests
<1>2. b = {} \/ \E t \in B : b = {t}
  BY AtMostOneIs
<1>3. Queued(r) \in Seq(R) /\ Len(Queued(r)) <= 1
  BY QueuedIsSeq DEF Requests
<1>4. R \subseteq Request
  OBVIOUS
<1>5. Queued(r) \in Seq(Request)
  BY <1>3, <1>4, SeqMonotonic
<1>6. r \subseteq R /\ b \subseteq B
  BY <1>1, <1>2
<1>7. \A q1, q2 \in r : q1 = q2
  BY <1>1
<1>8. \A t1, t2 \in b : t1 = t2
  BY <1>2
<1>9. \A t \in Tag : Asks(r, t) => job[t].op = "free"
  BY <1>6 DEF Asks
<1>10. \A t \in Tag : AsksWrite(r, t) => Asks(r, t)
  BY DEF Asks, AsksWrite
<1>11. \A t \in b : Owes(t) \/ (SameCycle /\ AsksWrite(r, t))
  BY <1>6 DEF CanSend, Owes
<1> QED
  BY <1>3, <1>4, <1>5, <1>6, <1>7, <1>8, <1>9, <1>10, <1>11
-----------------------------------------------------------------------------
\* What a cycle does to one job: the request and the beat, then the response.

Moved(r, v, b, t) ==
  [op    |-> IF ~Asks(r, t) THEN job[t].op
             ELSE IF AsksWrite(r, t) THEN "write" ELSE "read",
   value |-> IF Asks(r, t) THEN v ELSE job[t].value,
   sent  |-> (IF Asks(r, t) THEN 0 ELSE job[t].sent)
                + (IF t \in b THEN 1 ELSE 0),
   got   |-> IF Asks(r, t) THEN <<>> ELSE job[t].got]

RespondsTo(ready, t) == Response(ready) # <<>> /\ Response(ready)[1].tag = t

\* After the cycle: a job that gets no response has moved; one that gets its
\* acknowledgement or its last beat is over; another read has one beat more.
JobAfter(r, v, b, ready, t) ==
  LET m == Moved(r, v, b, t) IN
  IF ~RespondsTo(ready, t) THEN m
  ELSE IF returnWrite \/ Len(m.got) + 1 = Beats THEN Fresh
  ELSE [op |-> m.op, value |-> m.value, sent |-> m.sent,
        got |-> Append(m.got, Response(ready)[1].value)]

LEMMA FreshIs ==
  Fresh.op = "free" /\ Fresh.value = Zero /\ Fresh.sent = 0 /\ Fresh.got = <<>>
BY DEF Fresh

LEMMA MovedTyped ==
  ASSUME Typed, NEW r \in Requests, NEW v \in Value,
         NEW b \in AtMostOne({t \in Tag : CanSend(t, r)}), NEW t \in Tag
  PROVE  /\ Moved(r, v, b, t) \in Job
         /\ Len(Moved(r, v, b, t).got) < Beats
<1> DEFINE m == Moved(r, v, b, t)
<1>1. job[t] \in Job /\ Len(job[t].got) < Beats
  BY DEF Typed, TargetTyped
<1>2. m.op \in Op
  BY <1>1 DEF Moved, Job, Op
<1>3. m.value \in Value
  BY <1>1 DEF Moved, Job
<1>4. t \in b => (~Asks(r, t) /\ job[t].sent < Beats) \/ Asks(r, t)
  BY CycleInputs DEF Owes
<1>5. m.sent \in 0 .. Beats
  BY <1>1, <1>4, Sizes DEF Moved, Job
<1>6. m.got \in Seq(Value) /\ Len(m.got) < Beats
  BY <1>1, Sizes, EmptySeq DEF Moved, Job
<1> QED
  BY <1>2, <1>3, <1>5, <1>6 DEF Moved, Job

LEMMA SetField ==
  ASSUME NEW o, NEW x, NEW n, NEW g, NEW y
  PROVE  LET rec == [op |-> o, value |-> x, sent |-> n, got |-> g] IN
         /\ [rec EXCEPT !.got = y] = [op |-> o, value |-> x, sent |-> n, got |-> y]
         /\ [rec EXCEPT !.sent = y] = [op |-> o, value |-> x, sent |-> y, got |-> g]
OBVIOUS

LEMMA AdvanceIs ==
  ASSUME Typed, NEW r \in Requests, NEW v \in Value,
         NEW b \in AtMostOne({t \in Tag : CanSend(t, r)}),
         NEW ready \in BOOLEAN, NEW t \in Tag
  PROVE  Advance(t, r, v, b, Response(ready)) = JobAfter(r, v, b, ready, t)
<1> DEFINE asked == IF Asks(r, t)
                    THEN [Fresh EXCEPT !.op = IF AsksWrite(r, t) THEN "write"
                                              ELSE "read",
                                       !.value = v]
                    ELSE job[t]
           sent == IF t \in b THEN [asked EXCEPT !.sent = @ + 1] ELSE asked
           m == Moved(r, v, b, t)
           response == Response(ready)
<1>1. job[t] \in Job
  BY DEF Typed, TargetTyped
<1>2. asked = [op |-> IF ~Asks(r, t) THEN job[t].op
                      ELSE IF AsksWrite(r, t) THEN "write" ELSE "read",
               value |-> IF Asks(r, t) THEN v ELSE job[t].value,
               sent |-> IF Asks(r, t) THEN 0 ELSE job[t].sent,
               got |-> IF Asks(r, t) THEN <<>> ELSE job[t].got]
  BY <1>1 DEF Job, Fresh
<1>3. sent = m
  <2>1. CASE t \in b
    <3> DEFINE n == IF Asks(r, t) THEN 0 ELSE job[t].sent
    <3>1. [asked EXCEPT !.sent = n + 1] =
            [op |-> IF ~Asks(r, t) THEN job[t].op
                    ELSE IF AsksWrite(r, t) THEN "write" ELSE "read",
             value |-> IF Asks(r, t) THEN v ELSE job[t].value,
             sent |-> n + 1,
             got |-> IF Asks(r, t) THEN <<>> ELSE job[t].got]
      <4> HIDE DEF n, asked
      <4> QED
        BY <1>2, SetField DEF n
    <3>3. m.sent = n + 1
      BY <2>1 DEF Moved
    <3>2. asked.sent = n
      BY <1>2
    <3> QED
      BY <2>1, <3>1, <3>2, <3>3 DEF Moved
  <2>2. CASE t \notin b
    BY <1>1, <1>2, <2>2, Sizes DEF Moved, Job
  <2> QED
    BY <2>1, <2>2
<1>4. [m EXCEPT !.got = Append(@, response[1].value)] =
        [op |-> m.op, value |-> m.value, sent |-> m.sent,
         got |-> Append(m.got, response[1].value)]
  <2>1. m = [op |-> m.op, value |-> m.value, sent |-> m.sent, got |-> m.got]
    BY DEF Moved
  <2> DEFINE o == m.op
             x == m.value
             n == m.sent
             g == m.got
             y == Append(m.got, response[1].value)
  <2>2. m = [op |-> o, value |-> x, sent |-> n, got |-> g]
    BY <2>1
  <2> HIDE DEF m, response, o, x, n, g, y
  <2>3. [m EXCEPT !.got = y] = [op |-> o, value |-> x, sent |-> n, got |-> y]
    BY <2>2, SetField
  <2> QED
    BY <2>3, Zenon DEF o, x, n, g, y
<1>5. Advance(t, r, v, b, response) =
        IF response = <<>> \/ response[1].tag # t THEN sent
        ELSE IF returnWrite \/ Len(sent.got) + 1 = Beats THEN Fresh
        ELSE [sent EXCEPT !.got = Append(@, response[1].value)]
  BY DEF Advance
<1> HIDE DEF asked, sent, m, response
<1> QED
  BY <1>3, <1>4, <1>5, Zenon DEF m, response, JobAfter, RespondsTo

\* The response is a whole beat, or an acknowledgement that was queued.
LEMMA ResponseIs ==
  ASSUME Typed, NEW ready \in BOOLEAN, Fires
  PROVE  /\ ~Idle /\ ready /\ returnWrite =>
              wAckBuf # <<>> /\ Response(ready) = <<[tag |-> Head(wAckBuf)]>>
         /\ ~Idle /\ ready /\ ~returnWrite =>
              rRespBuf # <<>> /\ Response(ready) = <<Head(rRespBuf)>>
         /\ (Idle \/ ~ready) <=> Response(ready) = <<>>
BY DEF Typed, WidgetTyped, Fires, RespStalled, AckStalled, Idle, Response

LEMMA JobAfterTyped ==
  ASSUME Typed, NEW r \in Requests, NEW v \in Value,
         NEW b \in AtMostOne({t \in Tag : CanSend(t, r)}),
         NEW ready \in BOOLEAN, NEW t \in Tag, Fires
  PROVE  /\ JobAfter(r, v, b, ready, t) \in Job
         /\ Len(JobAfter(r, v, b, ready, t).got) < Beats
<1> DEFINE m == Moved(r, v, b, t)
<1>1. m \in Job /\ Len(m.got) < Beats
  BY MovedTyped
<1>2. Fresh \in Job /\ Len(Fresh.got) < Beats
  BY Sizes, EmptySeq DEF Fresh, Job, Op
<1>3. CASE RespondsTo(ready, t) /\ ~returnWrite /\ Len(m.got) + 1 # Beats
  <2> DEFINE x == Response(ready)[1].value
  <2>1. rRespBuf # <<>> /\ Response(ready) = <<Head(rRespBuf)>>
    BY <1>3, ResponseIs DEF RespondsTo
  <2>2. x \in Value
    <3>1. Head(rRespBuf) \in Beat
      BY <2>1, HeadTailProperties DEF Typed, WidgetTyped
    <3>2. x = Head(rRespBuf).value
      BY <2>1
    <3> QED
      BY <3>1, <3>2 DEF Beat
  <2>3. Append(m.got, x) \in Seq(Value) /\ Len(Append(m.got, x)) < Beats
    <3>1. m.got \in Seq(Value)
      BY <1>1 DEF Job
    <3> HIDE DEF m, x
    <3>2. Len(m.got) \in Nat
      BY <3>1, LenProperties
    <3> QED
      BY <1>1, <1>3, <2>2, <3>1, <3>2, AppendProperties, Sizes
  <2>4. JobAfter(r, v, b, ready, t) =
          [op |-> m.op, value |-> m.value, sent |-> m.sent,
           got |-> Append(m.got, x)]
    BY <1>3 DEF JobAfter
  <2> HIDE DEF m, x
  <2> QED
    BY <1>1, <2>3, <2>4 DEF Job
<1> QED
  BY <1>1, <1>2, <1>3 DEF JobAfter

\* The jobs after a cycle, typed.
LEMMA CycleJob ==
  ASSUME Typed, NEW r, NEW v, NEW b, NEW ready, NEW pick,
         CycleOf(r, v, b, ready, pick)
  PROVE  /\ job' = [t \in Tag |-> JobAfter(r, v, b, ready, t)]
         /\ TargetTyped'
<1>1. /\ r \in Requests /\ v \in Value /\ ready \in BOOLEAN
      /\ b \in AtMostOne({t \in Tag : CanSend(t, r)})
  BY DEF CycleOf
<1>2. job' = [t \in Tag |-> Advance(t, r, v, b, Response(ready))] /\ Fires
  BY DEF CycleOf, TargetCycle, Response
<1>3. job' = [t \in Tag |-> JobAfter(r, v, b, ready, t)]
  BY <1>1, <1>2, AdvanceIs
<1>4. \A t \in Tag : /\ JobAfter(r, v, b, ready, t) \in Job
                     /\ Len(JobAfter(r, v, b, ready, t).got) < Beats
  BY <1>1, <1>2, JobAfterTyped
<1> QED
  BY <1>3, <1>4 DEF TargetTyped

\* A write that still owes beats after a cycle is the one that was moved.
LEMMA StillOwes ==
  ASSUME Typed, NEW r, NEW v, NEW b, NEW ready, NEW pick,
         CycleOf(r, v, b, ready, pick), NEW t \in Tag, job'[t].op # "free"
  PROVE  /\ job'[t].op = Moved(r, v, b, t).op
         /\ job'[t].sent = Moved(r, v, b, t).sent
         /\ job'[t].value = Moved(r, v, b, t).value
<1>1. job'[t] = JobAfter(r, v, b, ready, t)
  BY CycleJob
<1>2. Fresh.op = "free"
  BY DEF Fresh
<1> QED
  BY <1>1, <1>2 DEF JobAfter

LEMMA CycleTyped ==
  ASSUME Typed, NEW r, NEW v, NEW b, NEW ready, NEW pick,
         CycleOf(r, v, b, ready, pick)
  PROVE  Typed'
<1>1. /\ r \in Requests /\ v \in Value /\ ready \in BOOLEAN
      /\ b \in AtMostOne({t \in Tag : CanSend(t, r)}) /\ pick \in Picks
      /\ TargetCycle(r, v, b, ready, pick) /\ Fires
  BY DEF CycleOf, TargetCycle
<1>2. TargetTyped'
  BY CycleJob
<1>3. DriverTyped'
  BY <1>1 DEF TargetCycle, driver, Typed, DriverTyped
<1>4. reqBuf' \in Seq(Request) /\ Len(reqBuf') <= ReqDepth
  <2>1. Queued(r) \in Seq(Request) /\ Len(Queued(r)) <= 1
    BY <1>1, CycleInputs
  <2>2. reqBuf' = reqBuf \o Queued(r) /\ Len(reqBuf) < ReqDepth
    BY <1>1 DEF TargetCycle, Fires
  <2> QED
    BY <2>1, <2>2, ConcatProperties, LenProperties, Sizes
       DEF Typed, WidgetTyped
<1>5. dataBuf' \in Seq(Beat) /\ Len(dataBuf') <= DataDepth
  <2> DEFINE sent == {[tag |-> t, value |-> BeatValue(v, t)] : t \in b}
  <2>1. sent \in AtMostOne(Beat)
    <3>1. b = {} \/ \E t \in Tag : b = {t}
      BY <1>1, AtMostOneIs
    <3>2. \A t \in Tag : BeatValue(v, t) \in Value
      BY <1>1 DEF BeatValue, Typed, TargetTyped, Job
    <3>3. sent = {} \/ \E x \in Beat : sent = {x}
      <4>1. CASE b = {}
        BY <4>1
      <4>2. ASSUME NEW t \in Tag, b = {t}
            PROVE  \E x \in Beat : sent = {x}
        <5>1. [tag |-> t, value |-> BeatValue(v, t)] \in Beat
          BY <3>2 DEF Beat
        <5>2. sent = {[tag |-> t, value |-> BeatValue(v, t)]}
          BY <4>2
        <5> QED
          BY <5>1, <5>2, Zenon
      <4> QED
        BY <3>1, <4>1, <4>2
    <3> HIDE DEF sent
    <3> QED
      BY <3>3, Zenon DEF AtMostOne
  <2>2. dataBuf' = dataBuf \o Queued(sent) /\ Len(dataBuf) < DataDepth
    BY <1>1 DEF TargetCycle, Fires, BeatValue
  <2> HIDE DEF sent
  <2> QED
    BY <2>1, <2>2, QueuedIsSeq, ConcatProperties, LenProperties, Sizes
       DEF Typed, WidgetTyped
<1>6. rRespBuf' \in Seq(Beat) /\ Len(rRespBuf') <= RespDepth
  <2>1. \/ rRespBuf' = rRespBuf
        \/ rRespBuf # <<>> /\ rRespBuf' = Tail(rRespBuf)
    BY <1>1, ResponseIs DEF TargetCycle, Response
  <2>2. rRespBuf \in Seq(Beat) /\ Len(rRespBuf) <= RespDepth
    BY DEF Typed, WidgetTyped
  <2>3. CASE rRespBuf' = rRespBuf
    BY <2>2, <2>3
  <2>4. CASE rRespBuf # <<>> /\ rRespBuf' = Tail(rRespBuf)
    <3>1. /\ rRespBuf' \in Seq(Beat) /\ Len(rRespBuf) \in Nat
          /\ Len(rRespBuf') = Len(rRespBuf) - 1
      BY <2>2, <2>4, QueueSteps
    <3> QED
      BY <2>2, <3>1, Sizes
  <2> QED
    BY <2>1, <2>3, <2>4
<1>7. wAckBuf' \in Seq(Tag) /\ Len(wAckBuf') <= AckDepth
  <2>1. \/ wAckBuf' = wAckBuf
        \/ wAckBuf # <<>> /\ wAckBuf' = Tail(wAckBuf)
    BY <1>1, ResponseIs DEF TargetCycle, Response
  <2>2. wAckBuf \in Seq(Tag) /\ Len(wAckBuf) <= AckDepth
    BY DEF Typed, WidgetTyped
  <2> QED
    BY <2>1, <2>2, QueueSteps, Sizes
<1>8. /\ count' = [t \in Tag |-> NextCount(t, r, b)]
      /\ valid' = [t \in Tag |-> NextValid(t, r, b)]
  BY <1>1 DEF TargetCycle
<1>9. ASSUME NEW t \in Tag
      PROVE  /\ NextCount(t, r, b) \in 0 .. Beats
             /\ NextValid(t, r, b) \in BOOLEAN
  <2>1. count[t] \in 0 .. Beats /\ valid[t] \in BOOLEAN
    BY DEF Typed, WidgetTyped
  <2>2. t \in b /\ ~AsksWrite(r, t) => count[t] > 0
    BY <1>1, CycleInputs DEF Typed, WidgetTyped
  <2>3. NextCount(t, r, b) \in 0 .. Beats
    BY <2>1, <2>2, Sizes DEF NextCount
  <2>4. NextValid(t, r, b) \in BOOLEAN
    BY <2>1, Zenon DEF NextValid
  <2> QED
    BY <2>3, <2>4
<1>10. ASSUME NEW t \in Tag, Owes(t)'
       PROVE  NextCount(t, r, b) > 0
  <2> DEFINE m == Moved(r, v, b, t)
  <2>1. m.op = "write" /\ m.sent < Beats
    BY <1>10, StillOwes DEF Owes
  <2>2. count[t] \in 0 .. Beats /\ job[t].sent \in 0 .. Beats
    BY DEF Typed, WidgetTyped, TargetTyped, Job
  <2>3. CASE Asks(r, t)
    <3>1. AsksWrite(r, t) /\ (t \in b => Beats > 1)
      BY <2>1, <2>3, Sizes DEF Moved
    <3> QED
      BY <2>2, <3>1, Sizes DEF NextCount, WriteDone
  <2>4. CASE ~Asks(r, t)
    <3>1. job[t].op = "write" /\ job[t].sent < Beats
      BY <2>1, <2>2, <2>4, Sizes DEF Moved
    <3>2. count[t] > 0 /\ ~AsksWrite(r, t)
      BY <1>1, <2>4, <3>1, CycleInputs DEF Typed, WidgetTyped, Owes
    <3> QED
      BY <2>2, <3>2, Sizes DEF NextCount, WriteDone
  <2> QED
    BY <2>3, <2>4
<1>11. alarm' \in BOOLEAN
  <2>1. alarm' = (alarm \/ \E t \in Tag : Unallocated(t, r, b))
    BY <1>1 DEF TargetCycle
  <2> QED
    BY <2>1, Zenon
<1>12. returnWrite' \in BOOLEAN
  <2>1. returnWrite' = IF AtEnd(ready) THEN pick = "write" ELSE returnWrite
    BY <1>1 DEF TargetCycle
  <2> QED
    BY <2>1 DEF Typed, WidgetTyped
<1>13. beatsLeft' \in 0 .. Beats
  <2>1. beatsLeft' = IF AtEnd(ready) THEN IF pick = "read" THEN Beats ELSE 0
                     ELSE IF ~returnWrite /\ ready THEN beatsLeft - 1
                     ELSE beatsLeft
    BY <1>1 DEF TargetCycle
  <2> QED
    BY <2>1, Sizes DEF AtEnd, Idle, Typed, WidgetTyped
<1>14. WidgetTyped'
  BY <1>4, <1>5, <1>6, <1>7, <1>8, <1>9, <1>10, <1>11, <1>12, <1>13
     DEF WidgetTyped
<1> QED
  BY <1>2, <1>3, <1>14 DEF Typed

-----------------------------------------------------------------------------
\* The driver's steps keep the types.

\* What handling a beat does: the beats of a write that lacks some are kept,
\* and the last one writes the sector.
LEMMA HandleDataIs ==
  ASSUME Typed, HandleData
  PROVE  \E t \in Tag, x \in Value :
           LET data == Append(tracker[t].data, x) IN
           /\ reqData # <<>> /\ t = Head(reqData).tag
           /\ x = Head(reqData).value
           /\ tracker[t].size = Beats /\ reqData' = Tail(reqData)
           /\ data \in Seq(Value) /\ Len(data) = Len(tracker[t].data) + 1
           /\ Len(data) <= Beats
           /\ Len(data) < Beats =>
                /\ tracker' = [tracker EXCEPT ![t] =
                                 [data |-> data, size |-> Beats]]
                /\ UNCHANGED <<file, acks>>
           /\ Len(data) = Beats =>
                /\ tracker' = [tracker EXCEPT ![t] = [data |-> <<>>, size |-> 0]]
                /\ file' = data /\ acks' = Append(acks, t)
<1> DEFINE t == Head(reqData).tag
           x == Head(reqData).value
           data == Append(tracker[t].data, x)
<1>1. reqData # <<>> /\ tracker[t].size > 0 /\ reqData' = Tail(reqData)
  BY DEF HandleData, CanAccept
<1>2. Head(reqData) \in Beat
  BY <1>1, QueueSteps DEF Typed, DriverTyped
<1>3. t \in Tag /\ x \in Value
  BY <1>2 DEF Beat
<1>4. tracker[t] \in Tracker /\ Len(tracker[t].data) < Beats
  BY <1>3 DEF Typed, DriverTyped
<1>5. tracker[t].size = Beats
  BY <1>1, <1>4 DEF Tracker
<1>6. tracker[t].data \in Seq(Value) /\ Len(tracker[t].data) \in Nat
  BY <1>4, LenProperties DEF Tracker
<1>7. data \in Seq(Value) /\ Len(data) = Len(tracker[t].data) + 1
  BY <1>3, <1>6, AppendProperties
<1>8. Len(data) <= Beats
  BY <1>4, <1>6, <1>7, Sizes
<1>9. IF Len(data) < tracker[t].size
      THEN /\ tracker' = [tracker EXCEPT ![t].data = data]
           /\ UNCHANGED <<file, acks>>
      ELSE /\ file' = data
           /\ tracker' = [tracker EXCEPT ![t] = [data |-> <<>>, size |-> 0]]
           /\ acks' = Append(acks, t)
  BY DEF HandleData
<1>10. [tracker EXCEPT ![t].data = data] =
         [tracker EXCEPT ![t] = [data |-> data, size |-> Beats]]
  <2> HIDE DEF data, t
  <2>1. [tracker[t] EXCEPT !.data = data] = [data |-> data, size |-> Beats]
    BY <1>4, <1>5 DEF Tracker
  <2>2. [tracker EXCEPT ![t].data = data] =
          [tracker EXCEPT ![t] = [tracker[t] EXCEPT !.data = data]]
    OBVIOUS
  <2> QED
    BY <2>1, <2>2, Zenon
<1> HIDE DEF t, x, data
<1>11. /\ Len(data) < Beats =>
            /\ tracker' = [tracker EXCEPT ![t] = [data |-> data, size |-> Beats]]
            /\ UNCHANGED <<file, acks>>
       /\ Len(data) = Beats =>
            /\ tracker' = [tracker EXCEPT ![t] = [data |-> <<>>, size |-> 0]]
            /\ file' = data /\ acks' = Append(acks, t)
  BY <1>5, <1>8, <1>9, <1>10, Sizes
<1> QED
  BY <1>1, <1>3, <1>5, <1>7, <1>8, <1>11 DEF t, x, data

LEMMA HandleDataTyped ==
  ASSUME Typed, HandleData
  PROVE  DriverTyped'
<1>1. PICK t \in Tag, x \in Value :
        LET data == Append(tracker[t].data, x) IN
        /\ reqData # <<>> /\ tracker[t].size = Beats
        /\ reqData' = Tail(reqData)
        /\ data \in Seq(Value) /\ Len(data) <= Beats
        /\ Len(data) = Len(tracker[t].data) + 1
        /\ Len(data) < Beats =>
             /\ tracker' = [tracker EXCEPT ![t] = [data |-> data, size |-> Beats]]
             /\ UNCHANGED <<file, acks>>
        /\ Len(data) = Beats =>
             /\ tracker' = [tracker EXCEPT ![t] = [data |-> <<>>, size |-> 0]]
             /\ file' = data /\ acks' = Append(acks, t)
  BY HandleDataIs
<1> DEFINE data == Append(tracker[t].data, x)
<1>2. UNCHANGED <<requests, responses, pending>>
  BY DEF HandleData
<1>3. reqData' \in Seq(Beat)
  BY <1>1, QueueSteps DEF Typed, DriverTyped
<1>4. data \in Seq(Value) /\ Len(data) \in Nat /\ Len(data) <= Beats
  BY <1>1, LenProperties
<1>5. CASE Len(data) < Beats
  <2>1. [data |-> data, size |-> Beats] \in Tracker
    BY <1>4, Sizes DEF Tracker
  <2>2. tracker' = [tracker EXCEPT ![t] = [data |-> data, size |-> Beats]]
    BY <1>1, <1>5
  <2>3. UNCHANGED <<file, acks>>
    BY <1>1, <1>5
  <2> HIDE DEF data
  <2>4. tracker' \in [Tag -> Tracker]
    BY <2>1, <2>2 DEF Typed, DriverTyped
  <2>5. \A u \in Tag : Len(tracker'[u].data) < Beats
    BY <1>5, <2>2 DEF Typed, DriverTyped
  <2> QED
    BY <1>2, <1>3, <2>3, <2>4, <2>5 DEF Typed, DriverTyped
<1>6. CASE Len(data) = Beats
  <2>1. [data |-> <<>>, size |-> 0] \in Tracker /\ Len(<<>>) < Beats
    BY Sizes, EmptySeq DEF Tracker
  <2>2. tracker' = [tracker EXCEPT ![t] = [data |-> <<>>, size |-> 0]]
    BY <1>1, <1>6
  <2>3. file' = data /\ acks' = Append(acks, t)
    BY <1>1, <1>6
  <2>4. file' \in Sector
    BY <1>4, <1>6, <2>3, LenProperties DEF Sector
  <2>5. acks' \in Seq(Tag)
    BY <2>3, QueueSteps DEF Typed, DriverTyped
  <2>6. tracker' \in [Tag -> Tracker]
    BY <2>1, <2>2 DEF Typed, DriverTyped
  <2>7. \A u \in Tag : Len(tracker'[u].data) < Beats
    BY <2>1, <2>2 DEF Typed, DriverTyped
  <2> QED
    BY <1>2, <1>3, <2>4, <2>5, <2>6, <2>7 DEF Typed, DriverTyped
<1> QED
  BY <1>4, <1>5, <1>6, Sizes

\* A sector's worth of beats, as do_read queues them.
ReadBeats(t) == [i \in 1 .. Beats |-> [tag |-> t, value |-> file[i]]]

LEMMA ReadBeatsTyped ==
  ASSUME Typed, NEW t \in Tag
  PROVE  /\ ReadBeats(t) \in Seq(Beat) /\ Len(ReadBeats(t)) = Beats
         /\ \A i \in 1 .. Beats : ReadBeats(t)[i] = [tag |-> t, value |-> file[i]]
<1>1. file \in [1 .. Beats -> Value]
  BY DEF Typed, DriverTyped, Sector
<1>2. \A i \in 1 .. Beats : [tag |-> t, value |-> file[i]] \in Beat
  BY <1>1 DEF Beat
<1>3. ReadBeats(t) \in [1 .. Beats -> Beat]
  BY <1>2 DEF ReadBeats
<1> QED
  BY <1>3, Sizes DEF ReadBeats

LEMMA DoReadTyped ==
  ASSUME Typed, DoRead
  PROVE  /\ Head(requests) \in Request /\ Tail(requests) \in Seq(Request)
         /\ responses' = responses \o ReadBeats(Head(requests).tag)
         /\ DriverTyped'
<1> DEFINE t == Head(requests).tag
<1>1. /\ Head(requests) \in Request /\ Tail(requests) \in Seq(Request)
      /\ requests' = Tail(requests)
  BY QueueSteps DEF DoRead, Typed, DriverTyped
<1>2. t \in Tag
  BY <1>1 DEF Request
<1>3. responses' = responses \o ReadBeats(t)
  BY DEF DoRead, ReadBeats
<1>4. ReadBeats(t) \in Seq(Beat)
  BY <1>2, ReadBeatsTyped
<1> HIDE DEF t
<1>5. responses' \in Seq(Beat)
  BY <1>3, <1>4, ConcatProperties DEF Typed, DriverTyped
<1>6. UNCHANGED <<reqData, acks, file, pending, tracker>>
  BY DEF DoRead
<1> QED
  BY <1>1, <1>3, <1>5, <1>6 DEF t, Typed, DriverTyped

LEMMA DoWriteTyped ==
  ASSUME Typed, DoWrite
  PROVE  /\ Head(requests) \in Request /\ Tail(requests) \in Seq(Request)
         /\ DriverTyped'
<1>1. /\ Head(requests) \in Request /\ Tail(requests) \in Seq(Request)
      /\ requests' = Tail(requests)
  BY QueueSteps DEF DoWrite, Typed, DriverTyped
<1>2. [data |-> <<>>, size |-> Beats] \in Tracker /\ Len(<<>>) < Beats
  BY Sizes, EmptySeq DEF Tracker
<1>3. tracker' = [tracker EXCEPT ![Head(requests).tag] =
                    [data |-> <<>>, size |-> Beats]]
  BY DEF DoWrite
<1>4. tracker' \in [Tag -> Tracker]
  BY <1>2, <1>3 DEF Typed, DriverTyped
<1>5. \A t \in Tag : Len(tracker'[t].data) < Beats
  BY <1>2, <1>3 DEF Typed, DriverTyped
<1>6. UNCHANGED <<reqData, responses, acks, file, pending>>
  BY DEF DoWrite
<1> QED
  BY <1>1, <1>4, <1>5, <1>6 DEF Typed, DriverTyped

\* The widget's registers that the driver never writes.
WidgetOwn == <<count, valid, writesDue, readsDue, returnWrite, beatsLeft, alarm>>

LEMMA SendingTyped ==
  ASSUME Typed, SendAck \/ SendBeat
  PROVE  Typed'
<1>1. CASE SendAck
  <2>1. /\ acks # <<>> /\ Len(wAckBuf) < AckDepth
        /\ wAckBuf' = Append(wAckBuf, Head(acks)) /\ acks' = Tail(acks)
        /\ UNCHANGED <<target, reqBuf, dataBuf, rRespBuf, WidgetOwn, file,
                       requests, reqData, responses, tracker, pending>>
    BY <1>1 DEF SendAck, WidgetOwn
  <2>2. acks' \in Seq(Tag) /\ Head(acks) \in Tag
    BY <2>1, QueueSteps DEF Typed, DriverTyped
  <2>3. wAckBuf' \in Seq(Tag) /\ Len(wAckBuf') <= AckDepth
    BY <2>1, <2>2, QueueSteps, Sizes DEF Typed, WidgetTyped
  <2>4. DriverTyped'
    BY <2>1, <2>2 DEF Typed, DriverTyped
  <2>5. WidgetTyped' /\ TargetTyped'
    BY <2>1, <2>3 DEF Typed, WidgetTyped, TargetTyped, WidgetOwn, target, Owes
  <2> QED
    BY <2>4, <2>5 DEF Typed
<1>2. CASE SendBeat
  <2>1. /\ responses # <<>> /\ Len(rRespBuf) < RespDepth
        /\ rRespBuf' = Append(rRespBuf, Head(responses))
        /\ responses' = Tail(responses)
        /\ UNCHANGED <<target, reqBuf, dataBuf, wAckBuf, WidgetOwn, file,
                       requests, reqData, acks, tracker, pending>>
    BY <1>2 DEF SendBeat, WidgetOwn
  <2>2. responses' \in Seq(Beat) /\ Head(responses) \in Beat
    BY <2>1, QueueSteps DEF Typed, DriverTyped
  <2>3. rRespBuf' \in Seq(Beat) /\ Len(rRespBuf') <= RespDepth
    BY <2>1, <2>2, QueueSteps, Sizes DEF Typed, WidgetTyped
  <2>4. DriverTyped'
    BY <2>1, <2>2 DEF Typed, DriverTyped
  <2>5. WidgetTyped' /\ TargetTyped'
    BY <2>1, <2>3 DEF Typed, WidgetTyped, TargetTyped, WidgetOwn, target, Owes
  <2> QED
    BY <2>4, <2>5 DEF Typed
<1> QED
  BY <1>1, <1>2

LEMMA TakingTyped ==
  ASSUME Typed, TakeRequest \/ TakeBeat
  PROVE  Typed'
<1>1. CASE TakeRequest
  <2>1. /\ reqBuf # <<>> /\ reqBuf' = Tail(reqBuf)
        /\ requests' = Append(requests, Head(reqBuf))
        /\ UNCHANGED <<target, dataBuf, rRespBuf, wAckBuf, WidgetOwn, file,
                       reqData, responses, acks, tracker, pending>>
    BY <1>1 DEF TakeRequest, WidgetOwn
  <2>2. reqBuf' \in Seq(Request) /\ Len(reqBuf') <= ReqDepth
        /\ Head(reqBuf) \in Request
    BY <2>1, QueueSteps, Sizes DEF Typed, WidgetTyped
  <2>3. requests' \in Seq(Request)
    BY <2>1, <2>2, QueueSteps DEF Typed, DriverTyped
  <2>4. DriverTyped'
    BY <2>1, <2>3 DEF Typed, DriverTyped
  <2>5. WidgetTyped' /\ TargetTyped'
    BY <2>1, <2>2 DEF Typed, WidgetTyped, TargetTyped, WidgetOwn, target, Owes
  <2> QED
    BY <2>4, <2>5 DEF Typed
<1>2. CASE TakeBeat
  <2>1. /\ dataBuf # <<>> /\ dataBuf' = Tail(dataBuf)
        /\ reqData' = Append(reqData, Head(dataBuf))
        /\ UNCHANGED <<target, reqBuf, rRespBuf, wAckBuf, WidgetOwn, file,
                       requests, responses, acks, tracker, pending>>
    BY <1>2 DEF TakeBeat, WidgetOwn
  <2>2. dataBuf' \in Seq(Beat) /\ Len(dataBuf') <= DataDepth
        /\ Head(dataBuf) \in Beat
    BY <2>1, QueueSteps, Sizes DEF Typed, WidgetTyped
  <2>3. reqData' \in Seq(Beat)
    BY <2>1, <2>2, QueueSteps DEF Typed, DriverTyped
  <2>4. DriverTyped'
    BY <2>1, <2>3 DEF Typed, DriverTyped
  <2>5. WidgetTyped' /\ TargetTyped'
    BY <2>1, <2>2 DEF Typed, WidgetTyped, TargetTyped, WidgetOwn, target, Owes
  <2> QED
    BY <2>4, <2>5 DEF Typed
<1> QED
  BY <1>1, <1>2

\* Where the driver is, and its flag, say nothing of the transactions.
Turns == \/ Tick \/ AcksSent \/ DataSent \/ RequestsTaken \/ BeatsTaken
         \/ Served \/ Handled

LEMMA TurnsKeep ==
  ASSUME Typed, Turns \/ UNCHANGED vars
  PROVE  /\ UNCHANGED <<target, widget, file, requests, reqData, responses, acks,
                        tracker>>
         /\ pending' \in BOOLEAN
<1>1. pending \in BOOLEAN
  BY DEF Typed, DriverTyped
<1>2. CASE DataSent
  BY <1>2, Zenon DEF DataSent
<1> QED
  BY <1>1, <1>2
     DEF Turns, Tick, AcksSent, RequestsTaken, BeatsTaken, Served, Handled, vars,
         driver

LEMMA DriverIs ==
  ASSUME [Next]_vars
  PROVE  Cycle \/ SendAck \/ SendBeat \/ TakeRequest \/ TakeBeat \/ DoRead
         \/ DoWrite \/ HandleData \/ Turns \/ UNCHANGED vars
BY DEF Next, Driver, Turns

LEMMA TypedInit == Init => Typed
<1> SUFFICES ASSUME Init PROVE Typed
  OBVIOUS
<1>1. \A S : <<>> \in Seq(S) /\ Len(<<>>) = 0
  BY EmptySeq
<1>2. Fresh \in Job /\ Len(Fresh.got) < Beats /\ Fresh.op = "free"
  BY <1>1, Sizes DEF Fresh, Job, Op
<1>3. [data |-> <<>>, size |-> 0] \in Tracker
  BY <1>1, Sizes DEF Tracker
<1>4. TargetTyped
  BY <1>2 DEF Init, TargetTyped
<1>5. WidgetTyped
  <2>1. reqBuf = <<>> /\ dataBuf = <<>> /\ rRespBuf = <<>> /\ wAckBuf = <<>>
    BY DEF Init
  <2>2. count \in [Tag -> 0 .. Beats] /\ valid \in [Tag -> BOOLEAN]
    BY Sizes DEF Init
  <2>3. \A t \in Tag : ~Owes(t)
    BY <1>2 DEF Init, Owes
  <2>4. returnWrite \in BOOLEAN /\ alarm \in BOOLEAN
    BY DEF Init
  <2>5. beatsLeft \in 0 .. Beats
    BY Sizes DEF Init
  <2> QED
    BY <1>1, <2>1, <2>2, <2>3, <2>4, <2>5, Sizes DEF WidgetTyped
<1>6. tracker \in [Tag -> Tracker] /\ \A t \in Tag : Len(tracker[t].data) < Beats
  BY <1>1, <1>3, Sizes DEF Init
<1>7. file \in Sector
  BY Sizes DEF Init, Sector
<1>8. DriverTyped
  BY <1>1, <1>6, <1>7 DEF Init, DriverTyped
<1> QED
  BY <1>4, <1>5, <1>8 DEF Typed

LEMMA TypedStep ==
  ASSUME Typed, [Next]_vars
  PROVE  Typed'
<1>1. CASE Cycle
  BY <1>1, CycleIsOne, CycleTyped
<1>2. CASE SendAck \/ SendBeat
  BY <1>2, SendingTyped
<1>3. CASE TakeRequest \/ TakeBeat
  BY <1>3, TakingTyped
<1>4. CASE DoRead \/ DoWrite \/ HandleData
  <2>1. UNCHANGED <<target, widget>>
    BY <1>4 DEF DoRead, DoWrite, HandleData
  <2>2. DriverTyped'
    BY <1>4, DoReadTyped, DoWriteTyped, HandleDataTyped
  <2> QED
    BY <2>1, <2>2 DEF Typed, WidgetTyped, TargetTyped, Owes, target, widget
<1>5. CASE Turns \/ UNCHANGED vars
  <2>1. /\ UNCHANGED <<target, widget, file, requests, reqData, responses, acks,
                       tracker>>
        /\ pending' \in BOOLEAN
    BY <1>5, TurnsKeep
  <2>2. DriverTyped'
    BY <2>1 DEF Typed, DriverTyped
  <2> QED
    BY <2>1, <2>2 DEF Typed, WidgetTyped, TargetTyped, Owes, target, widget
<1> QED
  BY <1>1, <1>2, <1>3, <1>4, <1>5, DriverIs

LEMMA TypedAlways == Spec => []Typed
<1>1. Init => Typed
  BY TypedInit
<1>2. Typed /\ [Next]_vars => Typed'
  BY TypedStep
<1> QED
  BY <1>1, <1>2, PTL DEF Spec

\* The types of blockdev.cc and of the widget: no buffer of the widget ever
\* holds more than it has room for, whatever its depth, no counter leaves its
\* range, and no tracker collects more beats than its transaction has.
THEOREM TypeCorrect == Spec => []TypeOK
<1>1. Typed => TypeOK
  <2> SUFFICES ASSUME Typed PROVE TypeOK
    OBVIOUS
  <2>1. ASSUME NEW t \in Tag
        PROVE  /\ job[t].op \in Op /\ job[t].value \in Value
               /\ job[t].sent \in 0 .. Beats /\ Len(job[t].got) < Beats
               /\ tracker[t].size \in {0, Beats}
               /\ Len(tracker[t].data) <= Beats
               /\ count[t] \in 0 .. Beats /\ valid[t] \in BOOLEAN
    <3>1. tracker[t] \in Tracker /\ Len(tracker[t].data) < Beats
      BY DEF Typed, DriverTyped
    <3>2. Len(tracker[t].data) <= Beats
      BY <3>1, Sizes, LenProperties DEF Tracker
    <3> QED
      BY <3>1, <3>2 DEF Typed, TargetTyped, WidgetTyped, Job, Tracker
  <2> QED
    BY <2>1 DEF TypeOK, Typed, WidgetTyped, DriverTyped
<1> QED
  BY <1>1, TypedAlways, PTL

-----------------------------------------------------------------------------
\* The counter of a write that owes beats is the number of them, when no beat
\* leaves with its request: a counter that still holds the 1 of the last write
\* is set anew before the first beat of this one.

Counted ==
  /\ \A t \in Tag : Owes(t) => valid[t] /\ count[t] = Beats - job[t].sent
  /\ alarm = FALSE

LEMMA CountedCycle ==
  ASSUME Typed, Counted, SameCycle = FALSE,
         NEW r, NEW v, NEW b, NEW ready, NEW pick,
         CycleOf(r, v, b, ready, pick)
  PROVE  Counted'
<1>1. /\ r \in Requests /\ b \in AtMostOne({t \in Tag : CanSend(t, r)})
      /\ TargetCycle(r, v, b, ready, pick)
  BY DEF CycleOf
<1>2. /\ count' = [t \in Tag |-> NextCount(t, r, b)]
      /\ valid' = [t \in Tag |-> NextValid(t, r, b)]
      /\ alarm' = (alarm \/ \E t \in Tag : Unallocated(t, r, b))
  BY <1>1 DEF TargetCycle
<1>3. \A t \in b : t \in Tag /\ Owes(t) /\ ~Asks(r, t)
  BY <1>1, CycleInputs DEF Owes
<1>4. alarm' = FALSE
  <2>1. \A t \in Tag : ~Unallocated(t, r, b)
    BY <1>3 DEF Counted, Unallocated
  <2> QED
    BY <1>2, <2>1, Zenon DEF Counted
<1>5. ASSUME NEW t \in Tag, Owes(t)'
      PROVE  NextValid(t, r, b) /\ NextCount(t, r, b) = Beats - job'[t].sent
  <2> DEFINE m == Moved(r, v, b, t)
  <2>1. m.op = "write" /\ m.sent < Beats /\ job'[t].sent = m.sent
    BY <1>5, StillOwes DEF Owes
  <2>2. job[t].sent \in 0 .. Beats /\ count[t] \in 0 .. Beats
    BY DEF Typed, TargetTyped, WidgetTyped, Job
  <2>3. CASE Asks(r, t)
    <3>1. AsksWrite(r, t) /\ t \notin b /\ m.sent = 0
      BY <1>3, <2>1, <2>3 DEF Moved
    <3> QED
      BY <2>1, <3>1, Sizes DEF NextCount, NextValid, WriteDone
  <2>4. CASE ~Asks(r, t)
    <3>1. Owes(t) /\ ~AsksWrite(r, t)
      BY <1>1, <2>1, <2>2, <2>4, CycleInputs, Sizes DEF Moved, Owes
    <3>2. valid[t] /\ count[t] = Beats - job[t].sent
      BY <3>1 DEF Counted
    <3>3. m.sent = job[t].sent + (IF t \in b THEN 1 ELSE 0)
      BY <2>4 DEF Moved
    <3> QED
      BY <2>1, <2>2, <3>1, <3>2, <3>3, Sizes DEF NextCount, NextValid, WriteDone
  <2> QED
    BY <2>3, <2>4
<1> QED
  BY <1>2, <1>4, <1>5 DEF Counted

\* No beat arrives for a tracker that expects none: the assertion of the widget
\* on write data (BlockDeviceBridgeModule.scala) holds for every number of
\* trackers and of beats and every depth of the buffers, if the target sends
\* the first beat of a write after its request.
THEOREM DataIsExpectedAlways ==
  ASSUME SameCycle = FALSE
  PROVE  Spec => []DataIsExpected
<1>1. Init => Counted
  BY DEF Init, Counted, Owes, Fresh
<1>2. Typed /\ Counted /\ [Next]_vars => Counted'
  <2> SUFFICES ASSUME Typed, Counted, [Next]_vars PROVE Counted'
    OBVIOUS
  <2>1. CASE Cycle
    BY <2>1, CycleIsOne, CountedCycle
  <2>2. CASE ~Cycle
    <3>1. UNCHANGED <<job, count, valid, alarm>>
      BY <2>2, DriverIs, TurnsKeep
         DEF SendAck, SendBeat, TakeRequest, TakeBeat, DoRead, DoWrite,
             HandleData, vars, target, widget
    <3> QED
      BY <3>1 DEF Counted, Owes
  <2> QED
    BY <2>1, <2>2
<1>3. Counted => DataIsExpected
  BY DEF Counted, DataIsExpected
<1> QED
  BY <1>1, <1>2, <1>3, TypedAlways, PTL DEF Spec

-----------------------------------------------------------------------------
\* What a queue holds after it lost its first element, or got one or several.

LEMMA Popped ==
  ASSUME NEW S, NEW q \in Seq(S), q # <<>>
  PROVE  /\ Tail(q) \in Seq(S) /\ Len(Tail(q)) = Len(q) - 1
         /\ Head(q) = q[1] /\ Head(q) \in S
         /\ Len(q) \in Nat /\ Len(q) > 0
         /\ DOMAIN q = 1 .. Len(q) /\ DOMAIN Tail(q) = 1 .. Len(q) - 1
         /\ \A i \in 1 .. Len(q) - 1 : Tail(q)[i] = q[i + 1]
<1>1. Tail(q) \in Seq(S) /\ Len(Tail(q)) = Len(q) - 1
  BY HeadTailProperties
<1>2. DOMAIN Tail(q) = 1 .. Len(q) - 1
  BY <1>1, LenProperties
<1> QED
  BY <1>1, <1>2, HeadTailProperties, LenProperties, EmptySeq

LEMMA Joined ==
  ASSUME NEW S, NEW q \in Seq(S), NEW w \in Seq(S)
  PROVE  /\ q \o w \in Seq(S) /\ Len(q \o w) = Len(q) + Len(w)
         /\ Len(q) \in Nat /\ Len(w) \in Nat
         /\ DOMAIN q = 1 .. Len(q) /\ DOMAIN w = 1 .. Len(w)
         /\ DOMAIN (q \o w) = 1 .. Len(q) + Len(w)
         /\ \A i \in 1 .. Len(q) : (q \o w)[i] = q[i]
         /\ \A i \in 1 .. Len(w) : (q \o w)[Len(q) + i] = w[i]
<1>1. q \o w \in Seq(S) /\ Len(q \o w) = Len(q) + Len(w)
  BY ConcatProperties
<1>2. DOMAIN (q \o w) = 1 .. Len(q) + Len(w)
  BY <1>1, LenProperties
<1>3. Len(q) \in Nat /\ Len(w) \in Nat
  BY LenProperties
<1> QED
  BY <1>1, <1>2, <1>3, ConcatProperties, LenProperties

LEMMA Pushed ==
  ASSUME NEW S, NEW q \in Seq(S), NEW x \in S
  PROVE  /\ Append(q, x) \in Seq(S) /\ Len(Append(q, x)) = Len(q) + 1
         /\ Len(q) \in Nat /\ DOMAIN q = 1 .. Len(q)
         /\ DOMAIN Append(q, x) = 1 .. Len(q) + 1
         /\ \A i \in 1 .. Len(q) : Append(q, x)[i] = q[i]
         /\ Append(q, x)[Len(q) + 1] = x
         /\ q \o <<x>> = Append(q, x)
<1>1. Append(q, x) \in Seq(S) /\ Len(Append(q, x)) = Len(q) + 1
  BY AppendProperties
<1>2. DOMAIN Append(q, x) = 1 .. Len(q) + 1
  BY <1>1, LenProperties
<1> QED
  BY <1>1, <1>2, AppendProperties, LenProperties, AppendIsConcat

\* Two queues in a row: what leaves the one for the other stays, and what
\* leaves the first, or enters the second, leaves or enters the row.
LEMMA RowPass ==
  ASSUME NEW S, NEW q \in Seq(S), NEW w \in Seq(S), w # <<>>
  PROVE  Append(q, Head(w)) \o Tail(w) = q \o w
<1>1. Head(w) \in S /\ Tail(w) \in Seq(S) /\ Append(q, Head(w)) \in Seq(S)
  BY Popped, AppendProperties
<1> SUFFICES ASSUME NEW x \in S, NEW l \in Seq(S), NEW y \in Seq(S),
                    x = Head(w), l = Append(q, x), y = Tail(w)
             PROVE  l \o y = q \o w
  BY <1>1
<1>2. Len(y) = Len(w) - 1 /\ Len(w) \in Nat /\ Len(w) > 0 /\ x = w[1]
      /\ \A i \in 1 .. Len(w) - 1 : y[i] = w[i + 1]
  BY Popped
<1>3. Len(l) = Len(q) + 1 /\ Len(q) \in Nat
      /\ (\A i \in 1 .. Len(q) : l[i] = q[i]) /\ l[Len(q) + 1] = x
  BY Pushed
<1>4. /\ l \o y \in Seq(S) /\ Len(l \o y) = Len(l) + Len(y)
      /\ \A i \in 1 .. Len(l) : (l \o y)[i] = l[i]
      /\ \A i \in 1 .. Len(y) : (l \o y)[Len(l) + i] = y[i]
  BY Joined
<1>5. /\ q \o w \in Seq(S) /\ Len(q \o w) = Len(q) + Len(w)
      /\ \A i \in 1 .. Len(q) : (q \o w)[i] = q[i]
      /\ \A i \in 1 .. Len(w) : (q \o w)[Len(q) + i] = w[i]
  BY Joined
<1>6. ASSUME NEW i \in 1 .. Len(q) + Len(w)
      PROVE  (l \o y)[i] = (q \o w)[i]
  <2>1. CASE i <= Len(q)
    BY <1>2, <1>3, <1>4, <1>5, <2>1
  <2>2. CASE i = Len(q) + 1
    BY <1>2, <1>3, <1>4, <1>5, <2>2
  <2>3. CASE i > Len(q) + 1
    <3>1. PICK k \in 1 .. Len(w) - 1 : i = Len(q) + 1 + k
      <4>1. i - (Len(q) + 1) \in 1 .. Len(w) - 1
        BY <1>2, <1>3, <2>3
      <4>2. i = Len(q) + 1 + (i - (Len(q) + 1))
        BY <1>3
      <4> QED
        BY <4>1, <4>2
    <3>2. k + 1 \in 1 .. Len(w) /\ i = Len(q) + (k + 1) /\ i = Len(l) + k
          /\ k \in 1 .. Len(y)
      BY <1>2, <1>3, <3>1
    <3>3. (l \o y)[i] = y[k] /\ (q \o w)[i] = w[k + 1]
      BY <1>4, <1>5, <3>2
    <3> QED
      BY <1>2, <3>3
  <2> QED
    BY <1>3, <2>1, <2>2, <2>3
<1>7. Len(l \o y) = Len(q) + Len(w)
  BY <1>2, <1>3, <1>4
<1> QED
  BY <1>4, <1>5, <1>6, <1>7, SeqEqual

LEMMA RowOut ==
  ASSUME NEW S, NEW q \in Seq(S), NEW w \in Seq(S), q # <<>>
  PROVE  /\ q \o w # <<>> /\ Head(q \o w) = Head(q)
         /\ Tail(q) \o w = Tail(q \o w)
<1>1. /\ q \o w \in Seq(S) /\ Len(q \o w) = Len(q) + Len(w)
      /\ Len(w) \in Nat
      /\ \A i \in 1 .. Len(q) : (q \o w)[i] = q[i]
      /\ \A i \in 1 .. Len(w) : (q \o w)[Len(q) + i] = w[i]
  BY Joined
<1>2. /\ Tail(q) \in Seq(S) /\ Len(Tail(q)) = Len(q) - 1
      /\ Len(q) \in Nat /\ Len(q) > 0 /\ Head(q) = q[1]
      /\ \A i \in 1 .. Len(q) - 1 : Tail(q)[i] = q[i + 1]
  BY Popped
<1>3. q \o w # <<>>
  BY <1>1, <1>2, EmptySeq
<1>4. /\ Tail(q \o w) \in Seq(S) /\ Len(Tail(q \o w)) = Len(q) + Len(w) - 1
      /\ Head(q \o w) = (q \o w)[1]
      /\ \A i \in 1 .. Len(q) + Len(w) - 1 : Tail(q \o w)[i] = (q \o w)[i + 1]
  BY <1>1, <1>3, Popped
<1>5. /\ Tail(q) \o w \in Seq(S)
      /\ Len(Tail(q) \o w) = Len(q) - 1 + Len(w)
      /\ \A i \in 1 .. Len(q) - 1 : (Tail(q) \o w)[i] = Tail(q)[i]
      /\ \A i \in 1 .. Len(w) : (Tail(q) \o w)[Len(q) - 1 + i] = w[i]
  BY <1>2, Joined
<1>6. ASSUME NEW i \in 1 .. Len(q) + Len(w) - 1
      PROVE  (Tail(q) \o w)[i] = Tail(q \o w)[i]
  <2>1. CASE i <= Len(q) - 1
    BY <1>1, <1>2, <1>4, <1>5, <2>1
  <2>2. CASE i > Len(q) - 1
    <3> DEFINE k == i - (Len(q) - 1)
    <3>1. k \in 1 .. Len(w) /\ i = Len(q) - 1 + k /\ i + 1 = Len(q) + k
      BY <1>1, <1>2, <2>2
    <3> HIDE DEF k
    <3> QED
      BY <1>1, <1>4, <1>5, <3>1
  <2> QED
    BY <1>1, <1>2, <2>1, <2>2
<1> QED
  BY <1>1, <1>2, <1>3, <1>4, <1>5, <1>6, SeqEqual

LEMMA RowIn ==
  ASSUME NEW S, NEW q \in Seq(S), NEW w \in Seq(S), NEW x \in Seq(S)
  PROVE  q \o (w \o x) = (q \o w) \o x
BY ConcatAssociative

-----------------------------------------------------------------------------
\* The four queues between the target and the file, each half in the widget and
\* half in the driver: requests, the beats of writes, the beats of reads, and
\* acknowledgements.  What only passes from one half to the other is no change.

Coming == reqData \o dataBuf
rows == <<Asking, Coming, Answers, Acked>>

LEMMA RowsTyped ==
  ASSUME Typed
  PROVE  /\ Asking \in Seq(Request) /\ Coming \in Seq(Beat)
         /\ Answers \in Seq(Beat) /\ Acked \in Seq(Tag)
BY Joined DEF Typed, WidgetTyped, DriverTyped, Asking, Coming, Answers, Acked

LEMMA TagsTyped ==
  ASSUME Typed
  PROVE  /\ \A i \in DOMAIN Asking : Asking[i] \in Request /\ Asking[i].tag \in Tag
         /\ \A i \in DOMAIN Coming : Coming[i] \in Beat /\ Coming[i].tag \in Tag
         /\ \A i \in DOMAIN Answers : Answers[i] \in Beat /\ Answers[i].tag \in Tag
         /\ \A i \in DOMAIN Acked : Acked[i] \in Tag
<1>1. \A i \in DOMAIN Asking : Asking[i] \in Request
  BY RowsTyped, LenProperties
<1>2. \A i \in DOMAIN Coming : Coming[i] \in Beat
  BY RowsTyped, LenProperties
<1>3. \A i \in DOMAIN Answers : Answers[i] \in Beat
  BY RowsTyped, LenProperties
<1>4. \A i \in DOMAIN Acked : Acked[i] \in Tag
  BY RowsTyped, LenProperties
<1> QED
  BY <1>1, <1>2, <1>3, <1>4 DEF Request, Beat

LEMMA PassingKeeps ==
  ASSUME Typed,
         SendAck \/ SendBeat \/ TakeRequest \/ TakeBeat \/ Turns
         \/ UNCHANGED vars
  PROVE  UNCHANGED <<rows, job, tracker, file>>
<1>1. /\ requests \in Seq(Request) /\ reqBuf \in Seq(Request)
      /\ reqData \in Seq(Beat) /\ dataBuf \in Seq(Beat)
      /\ rRespBuf \in Seq(Beat) /\ responses \in Seq(Beat)
      /\ wAckBuf \in Seq(Tag) /\ acks \in Seq(Tag)
  BY DEF Typed, WidgetTyped, DriverTyped
<1>2. CASE SendAck
  <2>1. Acked' = Acked
    BY <1>1, <1>2, RowPass DEF SendAck, Acked
  <2> QED
    BY <1>2, <2>1 DEF SendAck, rows, Asking, Coming, Answers, target
<1>3. CASE SendBeat
  <2>1. Answers' = Answers
    BY <1>1, <1>3, RowPass DEF SendBeat, Answers
  <2> QED
    BY <1>3, <2>1 DEF SendBeat, rows, Asking, Coming, Acked, target
<1>4. CASE TakeRequest
  <2>1. Asking' = Asking
    BY <1>1, <1>4, RowPass DEF TakeRequest, Asking
  <2> QED
    BY <1>4, <2>1 DEF TakeRequest, rows, Coming, Answers, Acked, target
<1>5. CASE TakeBeat
  <2>1. Coming' = Coming
    BY <1>1, <1>5, RowPass DEF TakeBeat, Coming
  <2> QED
    BY <1>5, <2>1 DEF TakeBeat, rows, Asking, Answers, Acked, target
<1>6. CASE Turns \/ UNCHANGED vars
  <2>1. UNCHANGED <<target, widget, file, requests, reqData, responses, acks,
                    tracker>>
    BY <1>6, TurnsKeep
  <2> QED
    BY <2>1 DEF rows, Asking, Coming, Answers, Acked, target, widget
<1> QED
  BY <1>2, <1>3, <1>4, <1>5, <1>6

LEMMA DoReadRows ==
  ASSUME Typed, DoRead
  PROVE  /\ Asking # <<>> /\ Asking' = Tail(Asking)
         /\ ~Head(Asking).write
         /\ Answers' = Answers \o ReadBeats(Head(Asking).tag)
         /\ UNCHANGED <<Coming, Acked, job, tracker, file>>
<1>1. /\ requests \in Seq(Request) /\ reqBuf \in Seq(Request)
      /\ rRespBuf \in Seq(Beat) /\ responses \in Seq(Beat)
      /\ requests # <<>>
  BY DEF Typed, WidgetTyped, DriverTyped, DoRead
<1>2. Asking # <<>> /\ Head(Asking) = Head(requests)
      /\ Asking' = Tail(Asking)
  BY <1>1, RowOut DEF DoRead, Asking, widget
<1>3. responses' = responses \o ReadBeats(Head(Asking).tag)
  BY <1>2, DoReadTyped
<1>4. ReadBeats(Head(Asking).tag) \in Seq(Beat)
  BY <1>2, DoReadTyped, ReadBeatsTyped DEF Request
<1>5. Answers' = Answers \o ReadBeats(Head(Asking).tag)
  <2> DEFINE y == ReadBeats(Head(Asking).tag)
  <2>1. /\ y \in Seq(Beat)
        /\ responses' = responses \o y
        /\ rRespBuf' = rRespBuf
    <3>1. rRespBuf' = rRespBuf
      BY DEF DoRead, widget
    <3>2. y \in Seq(Beat)
      BY ONLY <1>4
    <3>3. responses' = responses \o y
      BY ONLY <1>3
    <3> QED
      BY ONLY <3>1, <3>2, <3>3
  <2> HIDE DEF y
  <2>2. rRespBuf \o (responses \o y) = (rRespBuf \o responses) \o y
    BY <1>1, <2>1, RowIn
  <2>3. Answers' = rRespBuf \o (responses \o y)
    BY <2>1 DEF Answers
  <2>4. Answers' = (rRespBuf \o responses) \o y
    BY <2>2, <2>3
  <2> QED
    BY <2>4 DEF Answers, y
<1> QED
  BY <1>2, <1>5 DEF DoRead, Coming, Acked, target, widget

LEMMA DoWriteRows ==
  ASSUME Typed, DoWrite
  PROVE  /\ Asking # <<>> /\ Asking' = Tail(Asking)
         /\ Head(Asking).write
         /\ tracker' = [tracker EXCEPT ![Head(Asking).tag] =
                          [data |-> <<>>, size |-> Beats]]
         /\ UNCHANGED <<Coming, Answers, Acked, job, file>>
<1>1. /\ requests \in Seq(Request) /\ reqBuf \in Seq(Request)
      /\ requests # <<>>
  BY DEF Typed, WidgetTyped, DriverTyped, DoWrite
<1>2. Asking # <<>> /\ Head(Asking) = Head(requests)
      /\ Asking' = Tail(Asking)
  BY <1>1, RowOut DEF DoWrite, Asking, widget
<1> QED
  BY <1>2 DEF DoWrite, Coming, Answers, Acked, target, widget

LEMMA HandleDataRows ==
  ASSUME Typed, HandleData
  PROVE  \E t \in Tag, x \in Value :
           LET data == Append(tracker[t].data, x) IN
           /\ Coming # <<>> /\ Coming' = Tail(Coming)
           /\ t = Coming[1].tag /\ x = Coming[1].value
           /\ tracker[t].size = Beats
           /\ data \in Seq(Value) /\ Len(data) = Len(tracker[t].data) + 1
           /\ Len(data) <= Beats
           /\ Len(data) < Beats =>
                /\ tracker' = [tracker EXCEPT ![t] =
                                 [data |-> data, size |-> Beats]]
                /\ UNCHANGED <<file, Acked>>
           /\ Len(data) = Beats =>
                /\ tracker' = [tracker EXCEPT ![t] = [data |-> <<>>, size |-> 0]]
                /\ file' = data /\ Acked' = Append(Acked, t)
           /\ UNCHANGED <<Asking, Answers, job>>
<1>1. /\ reqData \in Seq(Beat) /\ dataBuf \in Seq(Beat)
      /\ wAckBuf \in Seq(Tag) /\ acks \in Seq(Tag)
  BY DEF Typed, WidgetTyped, DriverTyped
<1>2. PICK t \in Tag, x \in Value :
        LET data == Append(tracker[t].data, x) IN
        /\ reqData # <<>> /\ t = Head(reqData).tag /\ x = Head(reqData).value
        /\ tracker[t].size = Beats /\ reqData' = Tail(reqData)
        /\ data \in Seq(Value) /\ Len(data) = Len(tracker[t].data) + 1
        /\ Len(data) <= Beats
        /\ Len(data) < Beats =>
             /\ tracker' = [tracker EXCEPT ![t] = [data |-> data, size |-> Beats]]
             /\ UNCHANGED <<file, acks>>
        /\ Len(data) = Beats =>
             /\ tracker' = [tracker EXCEPT ![t] = [data |-> <<>>, size |-> 0]]
             /\ file' = data /\ acks' = Append(acks, t)
  BY HandleDataIs
<1>3. UNCHANGED <<target, widget, requests, responses>>
  BY DEF HandleData
<1>4. Coming # <<>> /\ Head(Coming) = Head(reqData) /\ Coming' = Tail(Coming)
  <2>1. reqData # <<>> /\ reqData' = Tail(reqData) /\ dataBuf' = dataBuf
    BY <1>2, <1>3 DEF widget
  <2> QED
    BY <1>1, <2>1, RowOut DEF Coming
<1>5. Head(Coming) = Coming[1]
  BY <1>4, RowsTyped, Popped
<1>6. UNCHANGED acks => UNCHANGED Acked
  BY <1>3 DEF Acked, widget
<1>7. acks' = Append(acks, t) => Acked' = Append(Acked, t)
  <2>1. acks \o <<t>> = Append(acks, t) /\ <<t>> \in Seq(Tag)
    BY <1>1, Pushed
  <2>2. Acked \in Seq(Tag)
    BY RowsTyped
  <2>3. Acked \o <<t>> = Append(Acked, t)
    BY <2>2, Pushed
  <2>4. wAckBuf \o (acks \o <<t>>) = (wAckBuf \o acks) \o <<t>>
    BY <1>1, <2>1, RowIn
  <2> QED
    BY <1>3, <2>1, <2>3, <2>4 DEF Acked, widget
<1>8. UNCHANGED <<Asking, Answers, job>>
  BY <1>3 DEF Asking, Answers, target, widget
<1> QED
  BY <1>2, <1>4, <1>5, <1>6, <1>7, <1>8

\* A cycle: at most one request and one beat enter, at most one response leaves.
LEMMA CycleRows ==
  ASSUME Typed, NEW r, NEW v, NEW b, NEW ready, NEW pick,
         CycleOf(r, v, b, ready, pick)
  PROVE  /\ \/ r = {} /\ Asking' = Asking
            \/ \E q \in Request : /\ r = {q} /\ job[q.tag].op = "free"
                                  /\ Asking' = Append(Asking, q)
         /\ \/ b = {} /\ Coming' = Coming
            \/ \E t \in Tag : /\ b = {t} /\ CanSend(t, r)
                              /\ Coming' = Append(Coming,
                                    [tag |-> t, value |-> BeatValue(v, t)])
         /\ \/ Response(ready) = <<>> /\ UNCHANGED <<Answers, Acked>>
            \/ /\ returnWrite /\ Acked # <<>> /\ UNCHANGED Answers
               /\ Response(ready) = <<[tag |-> Acked[1]]>>
               /\ Acked' = Tail(Acked)
            \/ /\ ~returnWrite /\ Answers # <<>> /\ UNCHANGED Acked
               /\ Response(ready) = <<Answers[1]>>
               /\ Answers' = Tail(Answers)
         /\ UNCHANGED <<tracker, file>>
<1>1. /\ r \in Requests /\ v \in Value /\ ready \in BOOLEAN
      /\ b \in AtMostOne({t \in Tag : CanSend(t, r)})
      /\ TargetCycle(r, v, b, ready, pick) /\ Fires
  BY DEF CycleOf, TargetCycle
<1>2. /\ requests \in Seq(Request) /\ reqBuf \in Seq(Request)
      /\ reqData \in Seq(Beat) /\ dataBuf \in Seq(Beat)
      /\ rRespBuf \in Seq(Beat) /\ responses \in Seq(Beat)
      /\ wAckBuf \in Seq(Tag) /\ acks \in Seq(Tag)
  BY DEF Typed, WidgetTyped, DriverTyped
<1>3. UNCHANGED <<requests, reqData, responses, acks, tracker, file>>
  BY <1>1 DEF TargetCycle, driver
<1>4. \/ r = {} /\ Asking' = Asking
      \/ \E q \in Request : /\ r = {q} /\ job[q.tag].op = "free"
                            /\ Asking' = Append(Asking, q)
  <2>1. reqBuf' = reqBuf \o Queued(r)
    BY <1>1 DEF TargetCycle
  <2>2. CASE r = {}
    <3>1. Queued(r) = <<>>
      BY <2>2, QueuedNone, Zenon
    <3>2. reqBuf' = reqBuf
      BY <1>2, <2>1, <3>1, ConcatEmptySeq
    <3> QED
      BY <1>3, <2>2, <3>2 DEF Asking
  <2>3. ASSUME NEW q \in Request, job[q.tag].op = "free", r = {q}
        PROVE  Asking' = Append(Asking, q)
    <3>1. Queued(r) = <<q>>
      BY <2>3, QueuedOne, Zenon
    <3>2. <<q>> \in Seq(Request)
      OBVIOUS
    <3>3. requests \o (reqBuf \o <<q>>) = (requests \o reqBuf) \o <<q>>
      BY <1>2, <3>2, RowIn
    <3>4. Asking \o <<q>> = Append(Asking, q)
      BY RowsTyped, Pushed
    <3> QED
      BY <1>3, <2>1, <3>1, <3>3, <3>4 DEF Asking
  <2>4. r = {} \/ \E q \in {x \in Request : job[x.tag].op = "free"} : r = {q}
    BY <1>1, AtMostOneIs DEF Requests
  <2> QED
    BY <2>2, <2>3, <2>4
<1>5. \/ b = {} /\ Coming' = Coming
      \/ \E t \in Tag : /\ b = {t} /\ CanSend(t, r)
                        /\ Coming' = Append(Coming,
                              [tag |-> t, value |-> BeatValue(v, t)])
  <2> DEFINE sent == {[tag |-> t, value |-> BeatValue(v, t)] : t \in b}
  <2>1. dataBuf' = dataBuf \o Queued(sent)
    BY <1>1 DEF TargetCycle, BeatValue
  <2>2. CASE b = {}
    <3>1. sent = {}
      BY <2>2
    <3>2. Queued(sent) = <<>>
      BY <3>1, QueuedNone, Zenon
    <3> HIDE DEF sent
    <3>3. dataBuf' = dataBuf
      BY <1>2, <2>1, <3>2, ConcatEmptySeq
    <3> QED
      BY <1>3, <2>2, <3>3 DEF Coming
  <2>3. ASSUME NEW t \in Tag, CanSend(t, r), b = {t}
        PROVE  Coming' = Append(Coming, [tag |-> t, value |-> BeatValue(v, t)])
    <3> DEFINE x == [tag |-> t, value |-> BeatValue(v, t)]
    <3>1. sent = {x}
      BY <2>3
    <3>2. Queued(sent) = <<x>>
      BY <3>1, QueuedOne, Zenon
    <3>3. x \in Beat
      BY <1>1 DEF Beat, BeatValue, Typed, TargetTyped, Job
    <3> HIDE DEF sent, x
    <3>4. <<x>> \in Seq(Beat)
      BY <3>3
    <3>5. reqData \o (dataBuf \o <<x>>) = (reqData \o dataBuf) \o <<x>>
      BY <1>2, <3>4, RowIn
    <3>6. Coming \o <<x>> = Append(Coming, x)
      BY <3>3, RowsTyped, Pushed
    <3> QED
      BY <1>3, <2>1, <3>2, <3>5, <3>6 DEF Coming, x
  <2>4. b = {} \/ \E t \in {u \in Tag : CanSend(u, r)} : b = {t}
    BY <1>1, AtMostOneIs
  <2> QED
    BY <2>2, <2>3, <2>4
<1>6. CASE Response(ready) = <<>>
  <2>1. UNCHANGED <<rRespBuf, wAckBuf>>
    BY <1>1, <1>6 DEF TargetCycle, Response
  <2> QED
    BY <1>3, <1>4, <1>5, <1>6, <2>1 DEF Answers, Acked
<1>7. CASE Response(ready) # <<>> /\ returnWrite
  <2>1. /\ wAckBuf # <<>> /\ Response(ready) = <<[tag |-> Head(wAckBuf)]>>
    BY <1>1, <1>7, ResponseIs
  <2>2. wAckBuf' = Tail(wAckBuf) /\ rRespBuf' = rRespBuf
    BY <1>1, <1>7 DEF TargetCycle, Response
  <2>3. Acked # <<>> /\ Head(Acked) = Head(wAckBuf) /\ Acked' = Tail(Acked)
    BY <1>2, <1>3, <2>1, <2>2, RowOut DEF Acked
  <2>4. Head(Acked) = Acked[1]
    BY <2>3, RowsTyped, Popped
  <2>5. UNCHANGED Answers
    BY <1>3, <2>2 DEF Answers
  <2> QED
    BY <1>3, <1>4, <1>5, <1>7, <2>1, <2>3, <2>4, <2>5
<1>8. CASE Response(ready) # <<>> /\ ~returnWrite
  <2>1. /\ rRespBuf # <<>> /\ Response(ready) = <<Head(rRespBuf)>>
    BY <1>1, <1>8, ResponseIs
  <2>2. rRespBuf' = Tail(rRespBuf) /\ wAckBuf' = wAckBuf
    BY <1>1, <1>8 DEF TargetCycle, Response
  <2>3. Answers # <<>> /\ Head(Answers) = Head(rRespBuf)
        /\ Answers' = Tail(Answers)
    BY <1>2, <1>3, <2>1, <2>2, RowOut DEF Answers
  <2>4. Head(Answers) = Answers[1]
    BY <2>3, RowsTyped, Popped
  <2>5. UNCHANGED Acked
    BY <1>3, <2>2 DEF Acked
  <2> QED
    BY <1>3, <1>4, <1>5, <1>8, <2>1, <2>3, <2>4, <2>5
<1> QED
  BY <1>6, <1>7, <1>8

-----------------------------------------------------------------------------
\* Where a transaction is.  A request that was not served is of a transaction
\* of which nothing else is on the way; no two have one tag.
AskingInv ==
  /\ \A i \in DOMAIN Asking :
       job[Asking[i].tag].op = IF Asking[i].write THEN "write" ELSE "read"
  /\ \A i, j \in DOMAIN Asking : Asking[i].tag = Asking[j].tag => i = j
  /\ \A t \in Tag : Asked(t) => /\ job[t].got = <<>>
                                /\ tracker[t].size = 0 /\ ~In(t, Acked)

\* A read that was served has the beats it lacks in one block of the answers.
Block(t, s) ==
  LET last == s + (Beats - Len(job[t].got)) - 1 IN
  /\ last <= Len(Answers)
  /\ \A i \in DOMAIN Answers : Answers[i].tag = t <=> i \in s .. last

AnswersInv ==
  /\ \A i \in DOMAIN Answers :
       job[Answers[i].tag].op = "read" /\ ~Asked(Answers[i].tag)
  /\ \A t \in Tag : job[t].op = "read" /\ ~Asked(t) =>
       \E s \in DOMAIN Answers : Block(t, s)

\* An acknowledgement is of a write whose beats were all taken, and the only one.
AckedInv ==
  /\ \A i \in DOMAIN Acked : /\ job[Acked[i]].op = "write"
                             /\ tracker[Acked[i]].size = 0
  /\ \A i, j \in DOMAIN Acked : Acked[i] = Acked[j] => i = j

\* A tracker collects the beats of a write that was not acknowledged.
TrackerInv ==
  \A t \in Tag :
    /\ tracker[t].size # 0 => job[t].op = "write" /\ ~In(t, Acked)
    /\ tracker[t].size = 0 => tracker[t].data = <<>>
    /\ \A i \in DOMAIN tracker[t].data : tracker[t].data[i] = job[t].value

\* The beats of a write can be numbered in the order they were sent: those on
\* the way follow those that were taken.
Taken(t) == IF In(t, Acked) THEN Beats ELSE Len(tracker[t].data)

Numbered(no) ==
  \A i \in DOMAIN Coming :
    LET t == Coming[i].tag IN
    /\ job[t].op = "write" /\ Coming[i].value = job[t].value
    /\ Taken(t) < no[i] /\ no[i] <= job[t].sent
    /\ \A j \in DOMAIN Coming : i < j /\ Coming[j].tag = t => no[i] < no[j]

ComingInv ==
  /\ \A t \in Tag : job[t].op = "write" => Taken(t) <= job[t].sent
  /\ \E no \in [DOMAIN Coming -> 1 .. Beats] : Numbered(no)

StoreInv ==
  AskingInv /\ AnswersInv /\ AckedInv /\ TrackerInv /\ ComingInv

\* An acknowledged write owes no beat.
LEMMA AckedSent ==
  ASSUME Typed, StoreInv, NEW t \in Tag, In(t, Acked)
  PROVE  /\ job[t].op = "write" /\ job[t].sent = Beats /\ ~Asked(t)
         /\ tracker[t].size = 0
<1>1. job[t].op = "write" /\ tracker[t].size = 0
  BY DEF In, StoreInv, AckedInv
<1>2. Beats <= job[t].sent
  BY <1>1 DEF StoreInv, ComingInv, Taken
<1>3. job[t].sent \in 0 .. Beats
  BY DEF Typed, TargetTyped, Job
<1>4. ~Asked(t)
  BY DEF StoreInv, AskingInv
<1> QED
  BY <1>1, <1>2, <1>3, <1>4, Sizes

\* The transaction a cycle responds to: a write that was acknowledged, or a read
\* that was served; it sends nothing in that cycle.
Acknowledges(t) ==
  /\ job[t].op = "write" /\ job'[t].op = "free"
  /\ Acked # <<>> /\ t = Acked[1] /\ Acked' = Tail(Acked)
  /\ Answers' = Answers

Returns(t) ==
  /\ job[t].op = "read"
  /\ Answers # <<>> /\ t = Answers[1].tag /\ Answers' = Tail(Answers)
  /\ Acked' = Acked
  /\ Len(job[t].got) + 1 = Beats => job'[t].op = "free"
  /\ Len(job[t].got) + 1 # Beats =>
       /\ job'[t].op = "read" /\ job'[t].value = job[t].value
       /\ job'[t].got = Append(job[t].got, Answers[1].value)

LEMMA Responded ==
  ASSUME Typed, StoreInv, NEW r, NEW v, NEW b, NEW ready, NEW pick,
         CycleOf(r, v, b, ready, pick), NEW t \in Tag, RespondsTo(ready, t)
  PROVE  /\ ~Asks(r, t) /\ t \notin b /\ ~Asked(t)
         /\ Acknowledges(t) \/ Returns(t)
<1>1. r \in Requests /\ b \in AtMostOne({u \in Tag : CanSend(u, r)})
  BY DEF CycleOf
<1>2. job'[t] = JobAfter(r, v, b, ready, t)
  BY CycleJob
<1>3. Asking \in Seq(Request) /\ Answers \in Seq(Beat) /\ Acked \in Seq(Tag)
  BY RowsTyped
<1>4. CASE /\ returnWrite /\ Acked # <<>> /\ UNCHANGED Answers
           /\ Response(ready) = <<[tag |-> Acked[1]]>> /\ Acked' = Tail(Acked)
  <2>1. t = Acked[1]
    BY <1>4 DEF RespondsTo
  <2>2. In(t, Acked)
    BY <1>3, <1>4, <2>1, Popped DEF In
  <2>3. job[t].op = "write" /\ job[t].sent = Beats /\ ~Asked(t)
    BY <2>2, AckedSent
  <2>4. ~Asks(r, t) /\ t \notin b
    BY <1>1, <2>3, CycleInputs, Sizes DEF Owes
  <2>5. job'[t].op = "free"
    BY <1>2, <1>4, FreshIs DEF JobAfter
  <2> QED
    BY <1>4, <2>1, <2>3, <2>4, <2>5 DEF Acknowledges
<1>5. CASE /\ ~returnWrite /\ Answers # <<>> /\ UNCHANGED Acked
           /\ Response(ready) = <<Answers[1]>> /\ Answers' = Tail(Answers)
  <2>1. t = Answers[1].tag /\ Response(ready)[1].value = Answers[1].value
    BY <1>5 DEF RespondsTo
  <2>2. 1 \in DOMAIN Answers
    BY <1>3, <1>5, Popped
  <2>3. job[t].op = "read" /\ ~Asked(t)
    BY <2>1, <2>2 DEF StoreInv, AnswersInv
  <2>4. ~Asks(r, t) /\ t \notin b
    BY <1>1, <2>3, CycleInputs DEF Owes
  <2>5. /\ Moved(r, v, b, t).op = "read"
        /\ Moved(r, v, b, t).value = job[t].value
        /\ Moved(r, v, b, t).sent = job[t].sent
        /\ Moved(r, v, b, t).got = job[t].got
    <3>1. job[t].sent \in 0 .. Beats
      BY DEF Typed, TargetTyped, Job
    <3> QED
      BY <2>3, <2>4, <3>1, Sizes DEF Moved
  <2>6. ASSUME Len(job[t].got) + 1 = Beats PROVE job'[t].op = "free"
    BY <1>2, <1>5, <2>5, <2>6, FreshIs DEF JobAfter
  <2>7. ASSUME Len(job[t].got) + 1 # Beats
        PROVE  /\ job'[t].op = "read" /\ job'[t].value = job[t].value
               /\ job'[t].got = Append(job[t].got, Answers[1].value)
    <3>1. job'[t] = [op |-> Moved(r, v, b, t).op,
                     value |-> Moved(r, v, b, t).value,
                     sent |-> Moved(r, v, b, t).sent,
                     got |-> Append(Moved(r, v, b, t).got,
                                    Response(ready)[1].value)]
      <4>1. /\ Response(ready) # <<>> /\ Response(ready)[1].tag = t
            /\ ~returnWrite
        BY <1>5 DEF RespondsTo
      <4>2. Len(Moved(r, v, b, t).got) + 1 # Beats
        BY <2>5, <2>7
      <4> QED
        BY <1>2, <4>1, <4>2 DEF JobAfter
    <3>2. /\ job'[t].op = Moved(r, v, b, t).op
          /\ job'[t].value = Moved(r, v, b, t).value
          /\ job'[t].got = Append(Moved(r, v, b, t).got, Response(ready)[1].value)
      BY <3>1
    <3> QED
      BY <2>1, <2>5, <3>2
  <2> QED
    BY <1>5, <2>1, <2>3, <2>4, <2>6, <2>7 DEF Returns
<1> QED
  BY <1>4, <1>5, CycleRows DEF RespondsTo

\* A transaction that is requested in a cycle: nothing of it was on the way.
LEMMA NewlyAsked ==
  ASSUME Typed, StoreInv, NEW r, NEW v, NEW b, NEW ready, NEW pick,
         CycleOf(r, v, b, ready, pick), NEW t \in Tag, Asks(r, t)
  PROVE  /\ job[t].op = "free" /\ ~Asked(t) /\ ~In(t, Acked)
         /\ \A i \in DOMAIN Answers : Answers[i].tag # t
         /\ \A i \in DOMAIN Coming : Coming[i].tag # t
         /\ tracker[t].size = 0 /\ tracker[t].data = <<>>
         /\ job'[t].op = (IF AsksWrite(r, t) THEN "write" ELSE "read")
         /\ job'[t].value = v /\ job'[t].got = <<>>
         /\ job'[t].sent = IF t \in b THEN 1 ELSE 0
<1>1. job[t].op = "free"
  BY CycleInputs DEF CycleOf
<1>2. ~Asked(t) /\ ~In(t, Acked)
  BY <1>1 DEF StoreInv, AskingInv, AckedInv, Asked, In
<1>3. /\ \A i \in DOMAIN Answers : Answers[i].tag # t
      /\ \A i \in DOMAIN Coming : Coming[i].tag # t
  BY <1>1 DEF StoreInv, AnswersInv, ComingInv, Numbered
<1>4. tracker[t].size = 0 /\ tracker[t].data = <<>>
  BY <1>1 DEF StoreInv, TrackerInv
<1>5. ~RespondsTo(ready, t)
  BY Responded
<1>6. job'[t] = Moved(r, v, b, t)
  BY <1>5, CycleJob DEF JobAfter
<1> QED
  BY <1>1, <1>2, <1>3, <1>4, <1>6 DEF Moved

\* The other transactions only send.
LEMMA OnlySends ==
  ASSUME Typed, NEW r, NEW v, NEW b, NEW ready, NEW pick,
         CycleOf(r, v, b, ready, pick), NEW t \in Tag,
         ~Asks(r, t), ~RespondsTo(ready, t)
  PROVE  /\ job'[t].op = job[t].op /\ job'[t].value = job[t].value
         /\ job'[t].got = job[t].got
         /\ job'[t].sent = job[t].sent + (IF t \in b THEN 1 ELSE 0)
         /\ t \in b => Owes(t)
<1>1. job'[t] = Moved(r, v, b, t)
  BY CycleJob DEF JobAfter
<1>2. t \in b => Owes(t)
  BY CycleInputs DEF CycleOf
<1> QED
  BY <1>1, <1>2 DEF Moved

-----------------------------------------------------------------------------
\* A cycle keeps the invariant.

\* What is in a queue after its head left, or an element entered.
LEMMA InTail ==
  ASSUME NEW S, NEW q \in Seq(S), q # <<>>, NEW x,
         \A i, j \in DOMAIN q : q[i] = q[j] => i = j
  PROVE  In(x, Tail(q)) <=> In(x, q) /\ x # q[1]
<1>1. /\ DOMAIN q = 1 .. Len(q) /\ DOMAIN Tail(q) = 1 .. Len(q) - 1
      /\ Len(q) \in Nat /\ Len(q) > 0
      /\ \A i \in 1 .. Len(q) - 1 : Tail(q)[i] = q[i + 1]
  BY Popped
<1>2. ASSUME In(x, Tail(q)) PROVE In(x, q) /\ x # q[1]
  <2>1. PICK i \in 1 .. Len(q) - 1 : q[i + 1] = x
    BY <1>1, <1>2 DEF In
  <2>2. i + 1 \in DOMAIN q /\ 1 \in DOMAIN q /\ i + 1 # 1
    BY <1>1
  <2> QED
    BY <2>1, <2>2 DEF In
<1>3. ASSUME In(x, q), x # q[1] PROVE In(x, Tail(q))
  <2>1. PICK i \in DOMAIN q : q[i] = x
    BY <1>3 DEF In
  <2>2. i - 1 \in 1 .. Len(q) - 1 /\ (i - 1) + 1 = i
    BY <1>1, <1>3, <2>1
  <2>3. Tail(q)[i - 1] = x
    BY <1>1, <2>1, <2>2
  <2> QED
    BY <1>1, <2>2, <2>3 DEF In
<1> QED
  BY <1>2, <1>3

LEMMA InAppend ==
  ASSUME NEW S, NEW q \in Seq(S), NEW y \in S, NEW x
  PROVE  In(x, Append(q, y)) <=> In(x, q) \/ x = y
<1>1. /\ DOMAIN q = 1 .. Len(q) /\ DOMAIN Append(q, y) = 1 .. Len(q) + 1
      /\ Len(q) \in Nat /\ Append(q, y)[Len(q) + 1] = y
      /\ \A i \in 1 .. Len(q) : Append(q, y)[i] = q[i]
  BY Pushed
<1>2. \A i \in 1 .. Len(q) + 1 : i \in 1 .. Len(q) \/ i = Len(q) + 1
  BY <1>1
<1>3. /\ \A i \in 1 .. Len(q) : i \in 1 .. Len(q) + 1
      /\ Len(q) + 1 \in 1 .. Len(q) + 1
  BY <1>1
<1> QED
  BY <1>1, <1>2, <1>3 DEF In

LEMMA AskedAfter ==
  ASSUME Typed, NEW r, NEW v, NEW b, NEW ready, NEW pick,
         CycleOf(r, v, b, ready, pick), NEW t \in Tag
  PROVE  Asked(t)' <=> Asked(t) \/ Asks(r, t)
<1>1. CASE r = {} /\ Asking' = Asking
  BY <1>1 DEF Asked, Asks
<1>2. ASSUME NEW q \in Request, r = {q}, Asking' = Append(Asking, q)
      PROVE  Asked(t)' <=> Asked(t) \/ Asks(r, t)
  <2>1. /\ DOMAIN Asking = 1 .. Len(Asking) /\ Len(Asking) \in Nat
        /\ DOMAIN Asking' = 1 .. Len(Asking) + 1
        /\ \A i \in 1 .. Len(Asking) : Asking'[i] = Asking[i]
        /\ Asking'[Len(Asking) + 1] = q
    BY <1>2, RowsTyped, Pushed
  <2>2. Asks(r, t) <=> q.tag = t
    BY <1>2 DEF Asks
  <2>3. \A i \in DOMAIN Asking' : i \in DOMAIN Asking \/ i = Len(Asking) + 1
    BY <2>1
  <2>4. Len(Asking) + 1 \in DOMAIN Asking' /\ DOMAIN Asking \subseteq DOMAIN Asking'
    BY <2>1
  <2>5. ASSUME Asked(t)' PROVE Asked(t) \/ Asks(r, t)
    BY <2>1, <2>2, <2>3, <2>5 DEF Asked
  <2>6. ASSUME Asked(t) \/ Asks(r, t) PROVE Asked(t)'
    BY <2>1, <2>2, <2>4, <2>6 DEF Asked
  <2> QED
    BY <2>5, <2>6
<1> QED
  BY <1>1, <1>2, CycleRows

LEMMA AckedAfter ==
  ASSUME Typed, StoreInv, NEW r, NEW v, NEW b, NEW ready, NEW pick,
         CycleOf(r, v, b, ready, pick), NEW t \in Tag
  PROVE  In(t, Acked)' <=> In(t, Acked) /\ ~RespondsTo(ready, t)
<1>1. CASE Response(ready) = <<>> /\ UNCHANGED <<Answers, Acked>>
  BY <1>1 DEF RespondsTo, In
<1>2. CASE /\ returnWrite /\ Acked # <<>> /\ UNCHANGED Answers
           /\ Response(ready) = <<[tag |-> Acked[1]]>> /\ Acked' = Tail(Acked)
  <2>1. RespondsTo(ready, t) <=> t = Acked[1]
    BY <1>2 DEF RespondsTo
  <2>2. \A i, j \in DOMAIN Acked : Acked[i] = Acked[j] => i = j
    BY DEF StoreInv, AckedInv
  <2>3. In(t, Tail(Acked)) <=> In(t, Acked) /\ t # Acked[1]
    BY <1>2, <2>2, RowsTyped, InTail
  <2> QED
    BY <1>2, <2>1, <2>3 DEF In
<1>3. CASE /\ ~returnWrite /\ Answers # <<>> /\ UNCHANGED Acked
           /\ Response(ready) = <<Answers[1]>> /\ Answers' = Tail(Answers)
  <2>1. RespondsTo(ready, t) => ~In(t, Acked)
    BY <1>3, Responded, AckedSent DEF Acknowledges, Returns
  <2> QED
    BY <1>3, <2>1 DEF In
<1> QED
  BY <1>1, <1>2, <1>3, CycleRows

\* Where a block ends.
LEMMA BlockEnds ==
  ASSUME NEW n \in Nat, n < Beats, NEW s \in Nat
  PROVE  /\ s + (Beats - n) - 1 \in Nat /\ s + (Beats - n) - 1 >= s
         /\ s \in s .. s + (Beats - n) - 1
<1>1. PICK d \in Nat : d = Beats - n - 1
  BY Sizes
<1>2. s + (Beats - n) - 1 = s + d
  BY <1>1, Sizes
<1>3. s + d \in Nat /\ s + d >= s /\ s \in s .. s + d
  BY <1>1
<1> QED
  BY <1>2, <1>3

\* The block of a read shrinks as its beats are returned, and moves up as those
\* of others are.
LEMMA CycleBlock ==
  ASSUME Typed, StoreInv, NEW r, NEW v, NEW b, NEW ready, NEW pick,
         CycleOf(r, v, b, ready, pick), NEW t \in Tag,
         job'[t].op = "read", job[t].op = "read", ~Asked(t),
         NEW s \in DOMAIN Answers, Block(t, s)
  PROVE  \/ /\ UNCHANGED Answers /\ job'[t].got = job[t].got
            /\ Block(t, s)'
         \/ /\ Answers' = Tail(Answers) /\ Answers # <<>>
            /\ job'[t].got = job[t].got
            /\ s > 1 /\ s - 1 \in DOMAIN Answers' /\ Block(t, s - 1)'
         \/ /\ Answers' = Tail(Answers) /\ Answers # <<>> /\ s = 1
            /\ job'[t].got = Append(job[t].got, Answers[1].value)
            /\ 1 \in DOMAIN Answers' /\ Block(t, 1)'
<1> DEFINE n == Len(job[t].got)
           last == s + (Beats - n) - 1
<1>1. n \in Nat /\ n < Beats /\ job[t].got \in Seq(Value)
  <2>1. job[t].got \in Seq(Value) /\ n < Beats
    BY DEF Typed, TargetTyped, Job
  <2> QED
    BY <2>1, LenProperties
<1>2. /\ last <= Len(Answers)
      /\ \A i \in DOMAIN Answers : Answers[i].tag = t <=> i \in s .. last
  BY DEF Block
<1>3. /\ DOMAIN Answers = 1 .. Len(Answers) /\ Len(Answers) \in Nat
      /\ s \in Nat /\ s > 0 /\ s <= Len(Answers) /\ last \in Nat /\ last >= s
  <2>1. DOMAIN Answers = 1 .. Len(Answers) /\ Len(Answers) \in Nat
    BY RowsTyped, LenProperties
  <2>2. s \in 1 .. Len(Answers)
    BY <2>1
  <2>3. s \in Nat /\ s > 0 /\ s <= Len(Answers)
    BY <2>1, <2>2
  <2>4. last \in Nat /\ last >= s
    BY <1>1, <2>3, BlockEnds
  <2> QED
    BY <2>1, <2>3, <2>4
<1>4. ~Asks(r, t)
  BY CycleInputs DEF CycleOf
<1>5. CASE UNCHANGED Answers
  <2>1. ~RespondsTo(ready, t)
    <3>1. Answers # <<>> => Tail(Answers) # Answers
      BY RowsTyped, Popped
    <3> QED
      BY <1>5, <3>1, Responded DEF Acknowledges, Returns
  <2>2. job'[t].got = job[t].got
    BY <1>4, <2>1, OnlySends
  <2> QED
    BY <1>5, <2>2 DEF Block
<1>6. CASE ~(UNCHANGED Answers)
  <2>1. /\ ~returnWrite /\ Answers # <<>>
        /\ Response(ready) = <<Answers[1]>> /\ Answers' = Tail(Answers)
    BY <1>6, CycleRows
  <2>2. RespondsTo(ready, t) <=> Answers[1].tag = t
    BY <2>1 DEF RespondsTo
  <2>3. /\ DOMAIN Answers' = 1 .. Len(Answers) - 1
        /\ Len(Answers') = Len(Answers) - 1
        /\ \A i \in 1 .. Len(Answers) - 1 : Answers'[i] = Answers[i + 1]
    BY <2>1, RowsTyped, Popped
  <2>4. \A i \in 1 .. Len(Answers) - 1 :
          Answers'[i].tag = t <=> i + 1 \in s .. last
    BY <1>2, <1>3, <2>3
  <2>5. CASE ~RespondsTo(ready, t)
    <3>1. job'[t].got = job[t].got
      BY <1>4, <2>5, OnlySends
    <3>2. s > 1
      BY <1>2, <1>3, <2>2, <2>5
    <3>3. s - 1 \in DOMAIN Answers' /\ last - 1 <= Len(Answers')
      BY <1>2, <1>3, <2>3, <3>2
    <3>4. \A i \in 1 .. Len(Answers) - 1 :
            i + 1 \in s .. last <=> i \in s - 1 .. last - 1
      BY <1>3
    <3>5. (s - 1) + (Beats - Len(job'[t].got)) - 1 = last - 1
      BY <1>1, <1>3, <3>1, Sizes
    <3> HIDE DEF last
    <3>6. Block(t, s - 1)'
      BY <2>3, <2>4, <3>3, <3>4, <3>5 DEF Block
    <3> QED
      BY <2>1, <3>1, <3>2, <3>3, <3>6
  <2>6. CASE RespondsTo(ready, t)
    <3>1. Returns(t)
      BY <2>6, Responded DEF Acknowledges
    <3>2. n + 1 # Beats
      BY <3>1 DEF Returns
    <3>3. job'[t].got = Append(job[t].got, Answers[1].value)
      BY <3>1, <3>2 DEF Returns
    <3>4. s = 1
      BY <1>2, <1>3, <2>2, <2>6
    <3>5. Answers[1] \in Beat
      BY <2>1, RowsTyped, Popped
    <3>6. Len(job'[t].got) = n + 1
      BY <1>1, <3>3, <3>5, Pushed DEF Beat
    <3>7. last - 1 >= 1 /\ last - 1 <= Len(Answers') /\ 1 \in DOMAIN Answers'
      <4>1. PICK z \in Nat : z = last
        BY <1>3
      <4>2. z = Beats - n
        BY <1>1, <3>4, <4>1, Sizes
      <4>3. z >= 2
        BY <1>1, <3>2, <4>2, Sizes
      <4>4. z <= Len(Answers) /\ Len(Answers) \in Nat
        BY <1>2, <1>3, <4>1
      <4>5. Len(Answers') = Len(Answers) - 1 /\ 1 \in 1 .. Len(Answers) - 1
        BY <2>3, <4>3, <4>4
      <4> QED
        BY <2>3, <4>1, <4>3, <4>4, <4>5
    <3>8. \A i \in 1 .. Len(Answers) - 1 :
            i + 1 \in s .. last <=> i \in 1 .. last - 1
      BY <1>3, <3>4
    <3>9. 1 + (Beats - Len(job'[t].got)) - 1 = last - 1
      BY <1>1, <3>4, <3>6, Sizes
    <3> HIDE DEF last
    <3>10. Block(t, 1)'
      BY <2>3, <2>4, <3>7, <3>8, <3>9 DEF Block
    <3> QED
      BY <2>1, <3>3, <3>4, <3>7, <3>10
  <2> QED
    BY <2>5, <2>6
<1> QED
  BY <1>5, <1>6

LEMMA AskingCycle ==
  ASSUME Typed, StoreInv, NEW r, NEW v, NEW b, NEW ready, NEW pick,
         CycleOf(r, v, b, ready, pick)
  PROVE  AskingInv'
<1>1. UNCHANGED tracker
  BY CycleRows
<1>2. ASSUME NEW t \in Tag, Asked(t)
      PROVE  /\ job'[t].op = job[t].op /\ job'[t].got = job[t].got
             /\ ~Asks(r, t)
  <2>1. ~Asks(r, t) /\ ~RespondsTo(ready, t)
    BY <1>2, NewlyAsked, Responded
  <2> QED
    BY <2>1, OnlySends
<1>3. ASSUME NEW t \in Tag, Asked(t)'
      PROVE  /\ job'[t].got = <<>>
             /\ tracker'[t].size = 0 /\ ~In(t, Acked)'
  <2>1. Asked(t) \/ Asks(r, t)
    BY <1>3, AskedAfter
  <2>2. CASE Asked(t)
    BY <1>1, <1>2, <2>2, AckedAfter DEF StoreInv, AskingInv
  <2>3. CASE Asks(r, t)
    BY <1>1, <2>3, NewlyAsked, AckedAfter
  <2> QED
    BY <2>1, <2>2, <2>3
<1>4. \A i \in DOMAIN Asking : Asking[i].tag \in Tag /\ Asked(Asking[i].tag)
  BY TagsTyped DEF Asked
<1>5. \A i \in DOMAIN Asking :
        job'[Asking[i].tag].op = IF Asking[i].write THEN "write" ELSE "read"
  BY <1>2, <1>4 DEF StoreInv, AskingInv
<1>6. \A i, j \in DOMAIN Asking : Asking[i].tag = Asking[j].tag => i = j
  BY DEF StoreInv, AskingInv
<1>7. CASE Asking' = Asking
  BY <1>3, <1>5, <1>6, <1>7 DEF AskingInv
<1>8. ASSUME NEW q \in Request, r = {q}, Asking' = Append(Asking, q)
      PROVE  AskingInv'
  <2>1. /\ DOMAIN Asking = 1 .. Len(Asking) /\ Len(Asking) \in Nat
        /\ DOMAIN Asking' = 1 .. Len(Asking) + 1
        /\ \A i \in 1 .. Len(Asking) : Asking'[i] = Asking[i]
        /\ Asking'[Len(Asking) + 1] = q
    BY <1>8, RowsTyped, Pushed
  <2>2. q.tag \in Tag /\ Asks(r, q.tag)
    BY <1>8 DEF Asks, Request
  <2>3. AsksWrite(r, q.tag) <=> q.write
    <3>1. q = [tag |-> q.tag, write |-> q.write] /\ q.write \in BOOLEAN
      BY DEF Request
    <3> QED
      BY <1>8, <3>1 DEF AsksWrite
  <2>4. job'[q.tag].op = IF q.write THEN "write" ELSE "read"
    BY <2>2, <2>3, NewlyAsked
  <2>5. \A i \in DOMAIN Asking : Asking[i].tag # q.tag
    BY <2>2, NewlyAsked DEF Asked
  <2>6. \A i \in DOMAIN Asking' : i \in DOMAIN Asking \/ i = Len(Asking) + 1
    BY <2>1
  <2>7. \A i \in DOMAIN Asking' :
          job'[Asking'[i].tag].op = IF Asking'[i].write THEN "write" ELSE "read"
    BY <1>5, <2>1, <2>4, <2>6
  <2>8. \A i, j \in DOMAIN Asking' : Asking'[i].tag = Asking'[j].tag => i = j
    BY <1>6, <2>1, <2>5, <2>6
  <2> QED
    BY <1>3, <2>7, <2>8 DEF AskingInv
<1> QED
  BY <1>7, <1>8, CycleRows

LEMMA AnswersCycle ==
  ASSUME Typed, StoreInv, NEW r, NEW v, NEW b, NEW ready, NEW pick,
         CycleOf(r, v, b, ready, pick)
  PROVE  AnswersInv'
<1>1. ASSUME NEW t \in Tag, job'[t].op = "read", ~Asked(t)'
      PROVE  job[t].op = "read" /\ ~Asked(t)
  <2>1. ~Asks(r, t) /\ ~Asked(t)
    BY <1>1, AskedAfter
  <2>2. CASE RespondsTo(ready, t)
    BY <1>1, <2>1, <2>2, Responded DEF Acknowledges, Returns
  <2>3. CASE ~RespondsTo(ready, t)
    BY <1>1, <2>1, <2>3, OnlySends
  <2> QED
    BY <2>1, <2>2, <2>3
<1>2. ASSUME NEW t \in Tag, job'[t].op = "read", ~Asked(t)'
      PROVE  \E s \in DOMAIN Answers' : Block(t, s)'
  <2>1. PICK s \in DOMAIN Answers : Block(t, s)
    BY <1>1, <1>2 DEF StoreInv, AnswersInv
  <2> QED
    BY <1>1, <1>2, <2>1, CycleBlock
<1>3. ASSUME NEW t \in Tag, NEW i \in DOMAIN Answers, Answers[i].tag = t,
             i = 1 => UNCHANGED Answers
      PROVE  job'[t].op = "read" /\ ~Asked(t)'
  <2>1. job[t].op = "read" /\ ~Asked(t)
    BY <1>3 DEF StoreInv, AnswersInv
  <2>2. ~Asks(r, t)
    BY <2>1, NewlyAsked
  <2>3. ~Asked(t)'
    BY <2>1, <2>2, AskedAfter
  <2>4. CASE ~RespondsTo(ready, t)
    BY <2>1, <2>2, <2>3, <2>4, OnlySends
  <2>5. CASE RespondsTo(ready, t)
    <3>1. /\ Answers # <<>> /\ t = Answers[1].tag /\ Answers' = Tail(Answers)
          /\ Len(job[t].got) + 1 # Beats => job'[t].op = "read"
      BY <2>1, <2>5, Responded DEF Acknowledges, Returns
    <3>2. /\ DOMAIN Answers = 1 .. Len(Answers) /\ Len(Answers) \in Nat
          /\ Len(Answers) > 0
      BY <3>1, RowsTyped, Popped
    <3>3. PICK s \in DOMAIN Answers : Block(t, s)
      BY <2>1 DEF StoreInv, AnswersInv
    <3>4. \A k \in DOMAIN Answers :
            Answers[k].tag = t <=> k \in s .. s + (Beats - Len(job[t].got)) - 1
      BY <3>3 DEF Block
    <3>5. Len(job[t].got) \in Nat
      BY LenProperties DEF Typed, TargetTyped, Job
    <3>6. i # 1
      <4>1. Tail(Answers) # Answers
        BY <3>1, RowsTyped, Popped
      <4> QED
        BY <1>3, <3>1, <4>1
    <3>8. i \in 1 .. Len(Answers) /\ s \in 1 .. Len(Answers)
          /\ 1 \in DOMAIN Answers
      BY <3>2
    <3>7. Len(job[t].got) + 1 # Beats
      <4> DEFINE last == s + (Beats - Len(job[t].got)) - 1
      <4>1. 1 \in s .. last /\ i \in s .. last
        BY <1>3, <3>1, <3>4, <3>8
      <4>2. s = 1 /\ last >= 2
        <5>1. s \in Nat /\ s > 0 /\ i \in Nat /\ i > 1
          BY <3>2, <3>6, <3>8
        <5>2. last \in Int
          BY <3>5, <5>1, Sizes
        <5> HIDE DEF last
        <5> QED
          BY <4>1, <5>1, <5>2
      <4> QED
        BY <3>5, <4>2, Sizes
    <3> QED
      BY <2>3, <3>1, <3>7
  <2> QED
    BY <2>4, <2>5
<1>4. \A i \in DOMAIN Answers : Answers[i].tag \in Tag
  BY TagsTyped
<1>5. ASSUME NEW i \in DOMAIN Answers'
      PROVE  (job[Answers[i].tag].op = "read" /\ ~Asked(Answers[i].tag))'
  <2>1. CASE UNCHANGED Answers
    BY <1>3, <1>4, <2>1
  <2>2. CASE Answers # <<>> /\ Answers' = Tail(Answers)
    <3>1. /\ DOMAIN Answers = 1 .. Len(Answers) /\ Len(Answers) \in Nat
          /\ DOMAIN Answers' = 1 .. Len(Answers) - 1
          /\ Answers'[i] = Answers[i + 1]
      BY <2>2, RowsTyped, Popped
    <3>2. i + 1 \in DOMAIN Answers /\ i + 1 # 1
      BY <3>1
    <3>3. PICK t \in Tag : Answers[i + 1].tag = t
      BY <1>4, <3>2
    <3>4. job'[t].op = "read" /\ ~Asked(t)'
      BY <1>3, <3>2, <3>3
    <3> QED
      BY <3>1, <3>3, <3>4
  <2> QED
    BY <2>1, <2>2, CycleRows
<1> QED
  BY <1>2, <1>5 DEF AnswersInv

LEMMA AckedCycle ==
  ASSUME Typed, StoreInv, NEW r, NEW v, NEW b, NEW ready, NEW pick,
         CycleOf(r, v, b, ready, pick)
  PROVE  AckedInv'
<1>1. UNCHANGED tracker
  BY CycleRows
<1>2. ASSUME NEW t \in Tag, In(t, Acked), In(t, Acked)'
      PROVE  job'[t].op = "write" /\ tracker'[t].size = 0
  <2>1. job[t].op = "write" /\ tracker[t].size = 0
    BY <1>2, AckedSent
  <2>2. ~RespondsTo(ready, t)
    BY <1>2, AckedAfter
  <2>3. ~Asks(r, t)
    BY <2>1, NewlyAsked
  <2> QED
    BY <1>1, <2>1, <2>2, <2>3, OnlySends
<1>3. \A i \in DOMAIN Acked : Acked[i] \in Tag /\ In(Acked[i], Acked)
  BY TagsTyped DEF In
<1>4. \A i, j \in DOMAIN Acked : Acked[i] = Acked[j] => i = j
  BY DEF StoreInv, AckedInv
<1>5. CASE Acked' = Acked
  <2>1. \A i \in DOMAIN Acked' : In(Acked[i], Acked)'
    BY DEF In
  <2>2. \A i \in DOMAIN Acked' :
          job'[Acked'[i]].op = "write" /\ tracker'[Acked'[i]].size = 0
    BY <1>2, <1>3, <1>5, <2>1
  <2> QED
    BY <1>4, <1>5, <2>2 DEF AckedInv
<1>6. CASE Acked # <<>> /\ Acked' = Tail(Acked)
  <2>1. /\ DOMAIN Acked = 1 .. Len(Acked) /\ Len(Acked) \in Nat
        /\ DOMAIN Acked' = 1 .. Len(Acked) - 1
        /\ \A i \in 1 .. Len(Acked) - 1 : Acked'[i] = Acked[i + 1]
    BY <1>6, RowsTyped, Popped
  <2>2. \A i \in DOMAIN Acked' : i + 1 \in DOMAIN Acked /\ Acked'[i] = Acked[i + 1]
    BY <2>1
  <2>3. \A i \in DOMAIN Acked' : In(Acked[i], Acked)'
    BY DEF In
  <2>4. \A i \in DOMAIN Acked' :
          job'[Acked'[i]].op = "write" /\ tracker'[Acked'[i]].size = 0
    BY <1>2, <1>3, <2>2, <2>3
  <2>5. ASSUME NEW i \in DOMAIN Acked', NEW j \in DOMAIN Acked',
               Acked'[i] = Acked'[j]
        PROVE  i = j
    <3>1. i + 1 = j + 1
      BY <1>4, <2>2, <2>5
    <3> QED
      BY <2>1, <3>1
  <2> QED
    BY <2>4, <2>5 DEF AckedInv
<1> QED
  BY <1>5, <1>6, CycleRows

LEMMA TrackerCycle ==
  ASSUME Typed, StoreInv, NEW r, NEW v, NEW b, NEW ready, NEW pick,
         CycleOf(r, v, b, ready, pick)
  PROVE  TrackerInv'
<1>1. UNCHANGED tracker
  BY CycleRows
<1>2. ASSUME NEW t \in Tag
      PROVE  /\ tracker[t].size # 0 => job'[t].op = "write" /\ ~In(t, Acked)'
             /\ tracker[t].size = 0 => tracker[t].data = <<>>
             /\ \A i \in DOMAIN tracker[t].data :
                  tracker[t].data[i] = job'[t].value
  <2>1. /\ tracker[t].size # 0 => job[t].op = "write" /\ ~In(t, Acked)
        /\ tracker[t].size = 0 => tracker[t].data = <<>>
        /\ \A i \in DOMAIN tracker[t].data : tracker[t].data[i] = job[t].value
    BY DEF StoreInv, TrackerInv
  <2>2. CASE tracker[t].size = 0
    BY <2>1, <2>2, EmptySeq
  <2>3. CASE tracker[t].size # 0
    <3>1. ~Asks(r, t)
      BY <2>3, NewlyAsked
    <3>2. ~RespondsTo(ready, t)
      <4>1. Acknowledges(t) => In(t, Acked)
        <5>1. Acked # <<>> => 1 \in DOMAIN Acked
          BY RowsTyped, Popped
        <5> QED
          BY <5>1 DEF Acknowledges, In
      <4> QED
        BY <2>1, <2>3, <4>1, Responded DEF Returns
    <3>3. job'[t].op = job[t].op /\ job'[t].value = job[t].value
      BY <3>1, <3>2, OnlySends
    <3> QED
      BY <2>1, <2>3, <3>3, AckedAfter
  <2> QED
    BY <2>2, <2>3
<1> QED
  BY <1>1, <1>2 DEF TrackerInv

LEMMA TakenTyped ==
  ASSUME Typed, NEW t \in Tag
  PROVE  Taken(t) \in 0 .. Beats
BY Sizes, LenProperties DEF Taken, Typed, DriverTyped, Tracker

LEMMA ComingCycle ==
  ASSUME Typed, StoreInv, NEW r, NEW v, NEW b, NEW ready, NEW pick,
         CycleOf(r, v, b, ready, pick)
  PROVE  ComingInv'
<1> DEFINE taken(t) == Taken(t)
           L == Len(Coming)
<1>1. UNCHANGED tracker
  BY CycleRows
<1>2. /\ job' \in [Tag -> Job]
      /\ \A t \in Tag : job[t].sent \in 0 .. Beats /\ job'[t].sent \in 0 .. Beats
  BY CycleJob DEF TargetTyped, Typed, Job
<1>3. ASSUME NEW t \in Tag, ~RespondsTo(ready, t)
      PROVE  Taken(t)' = Taken(t)
  BY <1>1, <1>3, AckedAfter DEF Taken
<1>4. ASSUME NEW t \in Tag, Asks(r, t)
      PROVE  Taken(t)' = 0
  <2>1. ~In(t, Acked)' /\ tracker[t].data = <<>>
    BY <1>4, NewlyAsked, AckedAfter
  <2> QED
    BY <1>1, <2>1, EmptySeq DEF Taken
<1>5. ASSUME NEW t \in Tag, job'[t].op = "write"
      PROVE  Taken(t)' <= job'[t].sent
  <2>1. CASE Asks(r, t)
    BY <1>2, <1>4, <2>1, Sizes
  <2>2. CASE ~Asks(r, t)
    <3>1. ~RespondsTo(ready, t)
      BY <1>5, Responded DEF Acknowledges, Returns
    <3>2. job[t].op = "write"
          /\ job'[t].sent = job[t].sent + (IF t \in b THEN 1 ELSE 0)
      BY <1>5, <2>2, <3>1, OnlySends
    <3>3. Taken(t) <= job[t].sent
      BY <3>2 DEF StoreInv, ComingInv
    <3> QED
      BY <1>2, <1>3, <3>1, <3>2, <3>3, TakenTyped, Sizes
  <2> QED
    BY <2>1, <2>2
<1>6. PICK no \in [DOMAIN Coming -> 1 .. Beats] : Numbered(no)
  BY DEF StoreInv, ComingInv
<1>7. /\ DOMAIN Coming = 1 .. L /\ L \in Nat
  BY RowsTyped, LenProperties
<1>8. \A i \in DOMAIN Coming : no[i] \in 1 .. Beats
  BY <1>6
<1>9. ASSUME NEW i \in DOMAIN Coming, NEW t \in Tag, Coming[i].tag = t
      PROVE  /\ job'[t].op = "write" /\ Coming[i].value = job'[t].value
             /\ ~Asks(r, t) /\ Taken(t)' < no[i] /\ no[i] <= job'[t].sent
             /\ no[i] <= job[t].sent
             /\ \A j \in DOMAIN Coming : i < j /\ Coming[j].tag = t => no[i] < no[j]
  <2>1. /\ job[t].op = "write" /\ Coming[i].value = job[t].value
        /\ Taken(t) < no[i] /\ no[i] <= job[t].sent
        /\ \A j \in DOMAIN Coming : i < j /\ Coming[j].tag = t => no[i] < no[j]
    BY <1>6, <1>9 DEF Numbered
  <2>2. ~Asks(r, t)
    BY <2>1, NewlyAsked
  <2>3. ~RespondsTo(ready, t)
    <3>1. ~In(t, Acked)
      BY <1>8, <2>1, Sizes DEF Taken
    <3>2. Acked # <<>> => 1 \in DOMAIN Acked
      BY RowsTyped, Popped
    <3> QED
      BY <2>1, <3>1, <3>2, Responded DEF Acknowledges, Returns, In
  <2>4. /\ job'[t].op = job[t].op /\ job'[t].value = job[t].value
        /\ job'[t].sent = job[t].sent + (IF t \in b THEN 1 ELSE 0)
    BY <2>2, <2>3, OnlySends
  <2>5. no[i] <= job'[t].sent
    BY <1>2, <1>8, <2>1, <2>4, Sizes
  <2> QED
    BY <1>3, <2>1, <2>2, <2>3, <2>4, <2>5
<1>10. CASE b = {} /\ Coming' = Coming
  <2>1. Numbered(no)'
    BY <1>9, <1>10, TagsTyped DEF Numbered
  <2> QED
    BY <1>5, <1>6, <1>10, <2>1 DEF ComingInv
<1>11. ASSUME NEW u \in Tag, b = {u}, CanSend(u, r),
              Coming' = Append(Coming, [tag |-> u, value |-> BeatValue(v, u)])
       PROVE  ComingInv'
  <2> DEFINE x == [tag |-> u, value |-> BeatValue(v, u)]
  <2>0. PICK m : m = job'[u].sent
    OBVIOUS
  <2>1. /\ job'[u].op = "write" /\ job'[u].value = BeatValue(v, u)
        /\ m \in 1 .. Beats /\ Taken(u)' < m
        /\ Asks(r, u) \/ m = job[u].sent + 1
    <3>1. ~RespondsTo(ready, u)
      BY <1>11, Responded
    <3>2. CASE Asks(r, u)
      <4>1. AsksWrite(r, u) /\ job[u].op = "free" /\ job'[u].sent = 1
            /\ job'[u].op = "write" /\ job'[u].value = v
        BY <1>11, <3>2, NewlyAsked DEF CanSend
      <4> QED
        BY <1>4, <2>0, <3>2, <4>1, Sizes DEF BeatValue
    <3>3. CASE ~Asks(r, u)
      <4>1. /\ Owes(u) /\ job'[u].op = job[u].op
            /\ job'[u].value = job[u].value
            /\ job'[u].sent = job[u].sent + 1
        BY <1>11, <3>1, <3>3, OnlySends
      <4>2. Taken(u) <= job[u].sent
        BY <4>1 DEF Owes, StoreInv, ComingInv
      <4>3. BeatValue(v, u) = job[u].value
        BY <4>1 DEF Owes, BeatValue
      <4> QED
        BY <1>2, <1>3, <2>0, <3>1, <4>1, <4>2, <4>3, TakenTyped, Sizes DEF Owes
    <3> QED
      BY <3>2, <3>3
  <2>2. x \in Beat
    BY <1>2, <2>1 DEF Beat, Job
  <2>3. /\ DOMAIN Coming' = 1 .. L + 1 /\ Coming'[L + 1] = x
        /\ \A i \in 1 .. L : Coming'[i] = Coming[i]
    BY <1>11, <2>2, RowsTyped, Pushed
  <2>4. PICK no2 \in [DOMAIN Coming' -> 1 .. Beats] :
          no2 = [i \in 1 .. L + 1 |-> IF i <= L THEN no[i] ELSE m]
    <3>1. [i \in 1 .. L + 1 |-> IF i <= L THEN no[i] ELSE m]
            \in [1 .. L + 1 -> 1 .. Beats]
      BY <1>7, <1>8, <2>0, <2>1
    <3>2. DOMAIN Coming' = 1 .. L + 1
      BY <2>3
    <3> QED
      BY <3>1, <3>2, Zenon
  <2>5. /\ \A i \in 1 .. L : no2[i] = no[i]
        /\ no2[L + 1] = m
    BY <1>7, <2>4
  <2>6. ASSUME NEW i \in 1 .. L + 1, NEW t \in Tag, Coming'[i].tag = t
        PROVE  /\ job'[t].op = "write" /\ Coming'[i].value = job'[t].value
               /\ Taken(t)' < no2[i] /\ no2[i] <= job'[t].sent
               /\ \A j \in 1 .. L + 1 :
                    i < j /\ Coming'[j].tag = t => no2[i] < no2[j]
    <3>1. CASE i <= L
      <4>1. i \in DOMAIN Coming /\ Coming'[i] = Coming[i] /\ no2[i] = no[i]
        BY <1>7, <2>3, <2>5, <2>6, <3>1
      <4>2. /\ job'[t].op = "write" /\ Coming[i].value = job'[t].value
            /\ ~Asks(r, t) /\ Taken(t)' < no[i] /\ no[i] <= job'[t].sent
            /\ no[i] <= job[t].sent
            /\ \A j \in DOMAIN Coming :
                 i < j /\ Coming[j].tag = t => no[i] < no[j]
        BY <1>9, <2>6, <4>1
      <4>3. ASSUME NEW j \in 1 .. L + 1, i < j, Coming'[j].tag = t
            PROVE  no[i] < no2[j]
        <5>1. CASE j <= L
          BY <1>7, <2>3, <2>5, <4>2, <4>3, <5>1
        <5>2. CASE j = L + 1
          <6>1. t = u
            BY <2>3, <4>3, <5>2
          <6>2. no2[j] = job[t].sent + 1
            BY <2>1, <2>5, <4>2, <5>2, <6>1
          <6> QED
            BY <1>2, <1>8, <4>1, <4>2, <6>2
        <5> QED
          BY <1>7, <5>1, <5>2
      <4> QED
        BY <4>1, <4>2, <4>3
    <3>2. CASE i = L + 1
      <4>1. t = u /\ no2[i] = m /\ Coming'[i].value = BeatValue(v, u)
        BY <2>3, <2>5, <2>6, <3>2
      <4>2. \A j \in 1 .. L + 1 : ~(i < j)
        BY <1>7, <3>2
      <4> QED
        BY <1>2, <2>0, <2>1, <4>1, <4>2
    <3> QED
      BY <1>7, <3>1, <3>2
  <2>7. \A i \in DOMAIN Coming' : Coming'[i].tag \in Tag
    BY <1>7, <2>3, TagsTyped
  <2>8. Numbered(no2)'
    BY <2>3, <2>6, <2>7 DEF Numbered
  <2> QED
    BY <1>5, <2>4, <2>8 DEF ComingInv
<1>12. \/ b = {} /\ Coming' = Coming
       \/ \E t \in Tag : /\ b = {t} /\ CanSend(t, r)
                         /\ Coming' = Append(Coming,
                               [tag |-> t, value |-> BeatValue(v, t)])
  BY CycleRows
<1> QED
  BY <1>10, <1>11, <1>12

LEMMA StoreInvCycle ==
  ASSUME Typed, StoreInv, NEW r, NEW v, NEW b, NEW ready, NEW pick,
         CycleOf(r, v, b, ready, pick)
  PROVE  StoreInv'
BY AskingCycle, AnswersCycle, AckedCycle, TrackerCycle, ComingCycle DEF StoreInv

-----------------------------------------------------------------------------
\* The driver keeps the invariant.

LEMMA StoreInvPassing ==
  ASSUME StoreInv, UNCHANGED <<rows, job, tracker>>
  PROVE  StoreInv'
BY DEF StoreInv, AskingInv, AnswersInv, AckedInv, TrackerInv, ComingInv, Numbered,
       Taken, Block, Asked, In, rows

\* Serving takes the oldest request.
LEMMA AskingServed ==
  ASSUME Typed, StoreInv, Asking # <<>>, Asking' = Tail(Asking)
  PROVE  /\ Head(Asking).tag \in Tag /\ Asked(Head(Asking).tag)
         /\ job[Head(Asking).tag].op =
              IF Head(Asking).write THEN "write" ELSE "read"
         /\ \A u \in Tag : Asked(u)' <=> Asked(u) /\ u # Head(Asking).tag
         /\ \A i \in DOMAIN Asking' :
              i + 1 \in DOMAIN Asking /\ Asking'[i] = Asking[i + 1]
         /\ \A i, j \in DOMAIN Asking' : Asking'[i].tag = Asking'[j].tag => i = j
<1> DEFINE t == Head(Asking).tag
<1>1. /\ DOMAIN Asking = 1 .. Len(Asking) /\ Len(Asking) \in Nat
      /\ Len(Asking) > 0 /\ Head(Asking) = Asking[1]
      /\ DOMAIN Asking' = 1 .. Len(Asking) - 1
      /\ \A i \in 1 .. Len(Asking) - 1 : Asking'[i] = Asking[i + 1]
  BY RowsTyped, Popped
<1>2. 1 \in DOMAIN Asking
  BY <1>1
<1>3. t \in Tag /\ Asked(t)
  BY <1>1, <1>2, TagsTyped DEF Asked
<1>4. /\ job[t].op = IF Head(Asking).write THEN "write" ELSE "read"
      /\ \A i, j \in DOMAIN Asking : Asking[i].tag = Asking[j].tag => i = j
  BY <1>1, <1>2 DEF StoreInv, AskingInv
<1>5. \A i \in DOMAIN Asking' :
        i + 1 \in DOMAIN Asking /\ Asking'[i] = Asking[i + 1]
  BY <1>1
<1>6. ASSUME NEW u \in Tag, Asked(u)'
      PROVE  Asked(u) /\ u # t
  <2>1. PICK i \in DOMAIN Asking' : Asking[i + 1].tag = u
    BY <1>5, <1>6 DEF Asked
  <2>2. i + 1 \in DOMAIN Asking /\ i + 1 # 1
    BY <1>1, <2>1
  <2> QED
    BY <1>1, <1>2, <1>4, <2>1, <2>2 DEF Asked
<1>7. ASSUME NEW u \in Tag, Asked(u), u # t
      PROVE  Asked(u)'
  <2>1. PICK i \in DOMAIN Asking : Asking[i].tag = u
    BY <1>7 DEF Asked
  <2>2. i # 1
    BY <1>1, <1>7, <2>1
  <2>3. i - 1 \in DOMAIN Asking' /\ (i - 1) + 1 = i
    BY <1>1, <2>1, <2>2
  <2>4. Asking'[i - 1].tag = u
    BY <1>5, <2>1, <2>3
  <2> QED
    BY <2>3, <2>4 DEF Asked
<1>8. ASSUME NEW i \in DOMAIN Asking', NEW j \in DOMAIN Asking',
             Asking'[i].tag = Asking'[j].tag
      PROVE  i = j
  <2>1. i + 1 = j + 1
    BY <1>4, <1>5, <1>8
  <2> QED
    BY <1>1, <2>1
<1> QED
  BY <1>3, <1>4, <1>5, <1>6, <1>7, <1>8

\* Nothing is sent and nothing is taken.
LEMMA ComingKept ==
  ASSUME Typed, StoreInv, UNCHANGED <<Coming, job>>,
         \A t \in Tag : Taken(t)' = Taken(t)
  PROVE  ComingInv'
<1>1. PICK no \in [DOMAIN Coming -> 1 .. Beats] : Numbered(no)
  BY DEF StoreInv, ComingInv
<1>2. \A t \in Tag : job'[t].op = "write" => Taken(t)' <= job'[t].sent
  BY DEF StoreInv, ComingInv
<1>3. Numbered(no)'
  BY <1>1, TagsTyped DEF Numbered
<1> QED
  BY <1>1, <1>2, <1>3 DEF ComingInv

\* What do_read adds to the answers, and where the blocks of the reads are then.
LEMMA DoReadAnswers ==
  ASSUME Typed, StoreInv, DoRead, NEW t, t = Head(Asking).tag
  PROVE  /\ t \in Tag /\ Asked(t) /\ job[t].op = "read" /\ job[t].got = <<>>
         /\ DOMAIN Answers = 1 .. Len(Answers) /\ Len(Answers) \in Nat
         /\ DOMAIN Answers' = 1 .. Len(Answers) + Beats
         /\ Len(Answers') = Len(Answers) + Beats
         /\ \A i \in 1 .. Len(Answers) : /\ Answers'[i] = Answers[i]
                                         /\ Answers[i].tag # t
         /\ \A i \in 1 .. Beats :
              Answers'[Len(Answers) + i] = [tag |-> t, value |-> file[i]]
         /\ \A i \in 1 .. Len(Answers) + Beats :
              i > Len(Answers) => Answers'[i].tag = t
<1> DEFINE L == Len(Answers)
<1>1. /\ Asking # <<>> /\ Asking' = Tail(Asking) /\ ~Head(Asking).write
      /\ Answers' = Answers \o ReadBeats(t)
  BY DoReadRows
<1>2. t \in Tag /\ Asked(t) /\ job[t].op = "read"
  BY <1>1, AskingServed
<1>3. job[t].got = <<>>
  BY <1>2 DEF StoreInv, AskingInv
<1>4. PICK w \in Seq(Beat) : w = ReadBeats(t)
  BY <1>2, ReadBeatsTyped
<1>5. Len(w) = Beats /\ \A i \in 1 .. Beats : w[i] = [tag |-> t, value |-> file[i]]
  BY <1>2, <1>4, ReadBeatsTyped
<1>6. Answers' = Answers \o w /\ Answers \in Seq(Beat)
  BY <1>1, <1>4, RowsTyped
<1>7. /\ DOMAIN Answers = 1 .. L /\ L \in Nat
      /\ DOMAIN Answers' = 1 .. L + Len(w) /\ Len(Answers') = L + Len(w)
      /\ \A i \in 1 .. L : Answers'[i] = Answers[i]
      /\ \A i \in 1 .. Len(w) : Answers'[L + i] = w[i]
  BY <1>6, Joined
<1>8. \A i \in 1 .. L : Answers[i].tag # t
  BY <1>2, <1>7 DEF StoreInv, AnswersInv
<1>9. ASSUME NEW i \in 1 .. L + Beats, i > L
      PROVE  Answers'[i].tag = t
  <2>1. i - L \in 1 .. Beats /\ L + (i - L) = i
    BY <1>7, <1>9, Sizes
  <2>2. Answers'[i] = w[i - L]
    BY <1>5, <1>7, <2>1
  <2>3. w[i - L] = [tag |-> t, value |-> file[i - L]]
    BY <1>5, <2>1
  <2> QED
    BY <2>2, <2>3
<1> QED
  BY <1>2, <1>3, <1>5, <1>7, <1>8, <1>9

LEMMA DoReadBlocks ==
  ASSUME Typed, StoreInv, DoRead, NEW t, t = Head(Asking).tag, NEW u \in Tag,
         NEW s, IF u = t THEN s = Len(Answers) + 1
                ELSE s \in DOMAIN Answers /\ Block(u, s)
  PROVE  s \in DOMAIN Answers' /\ Block(u, s)'
<1> DEFINE L == Len(Answers)
<1>1. /\ t \in Tag /\ job[t].got = <<>> /\ UNCHANGED job
      /\ DOMAIN Answers = 1 .. L /\ L \in Nat
      /\ DOMAIN Answers' = 1 .. L + Beats /\ Len(Answers') = L + Beats
      /\ \A i \in 1 .. L : Answers'[i] = Answers[i] /\ Answers[i].tag # t
      /\ \A i \in 1 .. L + Beats : i > L => Answers'[i].tag = t
  BY DoReadAnswers, DoReadRows
<1>2. Len(job[u].got) \in Nat /\ Len(job[u].got) < Beats
  BY LenProperties DEF Typed, TargetTyped, Job
<1>3. CASE u = t
  <2>1. s = L + 1 /\ s \in DOMAIN Answers'
    BY <1>1, <1>3, Sizes
  <2>2. s + (Beats - Len(job'[u].got)) - 1 = L + Beats
    <3>1. job'[u].got = <<>>
      BY <1>1, <1>3
    <3>2. Len(job'[u].got) = 0
      BY <3>1, EmptySeq
    <3> QED
      BY <1>1, <2>1, <3>2, Sizes
  <2>3. \A i \in 1 .. L + Beats : Answers'[i].tag = u <=> i \in s .. L + Beats
    BY <1>1, <1>3, <2>1
  <2> QED
    BY <1>1, <2>1, <2>2, <2>3, Sizes DEF Block
<1>4. CASE u # t
  <2> DEFINE last == s + (Beats - Len(job[u].got)) - 1
  <2>1. s \in 1 .. L
    BY <1>1, <1>4
  <2>2. /\ last <= L
        /\ \A i \in 1 .. L : Answers[i].tag = u <=> i \in s .. last
    BY <1>1, <1>4 DEF Block
  <2>3. last \in Int
    BY <1>2, <2>1, Sizes
  <2> HIDE DEF last
  <2>4. \A i \in 1 .. L + Beats : Answers'[i].tag = u <=> i \in s .. last
    BY <1>1, <1>4, <2>1, <2>2, <2>3
  <2>5. last <= L + Beats /\ s \in DOMAIN Answers'
    BY <1>1, <2>1, <2>2, <2>3, Sizes
  <2> QED
    BY <1>1, <2>4, <2>5 DEF Block, last
<1> QED
  BY <1>3, <1>4

LEMMA StoreInvDoRead ==
  ASSUME Typed, StoreInv, DoRead
  PROVE  StoreInv'
<1>0. PICK t : t = Head(Asking).tag
  OBVIOUS
<1> DEFINE L == Len(Answers)
<1>1. /\ Asking # <<>> /\ Asking' = Tail(Asking) /\ ~Head(Asking).write
      /\ UNCHANGED <<Coming, Acked, job, tracker>>
  BY DoReadRows
<1>2. /\ t \in Tag /\ Asked(t) /\ job[t].op = "read"
      /\ \A u \in Tag : Asked(u)' <=> Asked(u) /\ u # t
      /\ \A i \in DOMAIN Asking' :
           i + 1 \in DOMAIN Asking /\ Asking'[i] = Asking[i + 1]
      /\ \A i, j \in DOMAIN Asking' : Asking'[i].tag = Asking'[j].tag => i = j
  BY <1>0, <1>1, AskingServed
<1>3. AskingInv'
  <2>1. \A i \in DOMAIN Asking' :
          job'[Asking'[i].tag].op = IF Asking'[i].write THEN "write" ELSE "read"
    BY <1>1, <1>2 DEF StoreInv, AskingInv
  <2>2. \A u \in Tag : Asked(u)' => /\ job'[u].got = <<>>
                                    /\ tracker'[u].size = 0 /\ ~In(u, Acked)'
    BY <1>1, <1>2 DEF StoreInv, AskingInv, In
  <2> QED
    BY <1>2, <2>1, <2>2 DEF AskingInv
<1>4. /\ DOMAIN Answers = 1 .. L /\ L \in Nat
      /\ DOMAIN Answers' = 1 .. L + Beats
      /\ \A i \in 1 .. L : Answers'[i] = Answers[i] /\ Answers[i].tag # t
      /\ \A i \in 1 .. L + Beats : i > L => Answers'[i].tag = t
  BY <1>0, DoReadAnswers
<1>5. ASSUME NEW i \in 1 .. L + Beats
      PROVE  (job[Answers[i].tag].op = "read" /\ ~Asked(Answers[i].tag))'
  <2>1. CASE i <= L
    <3>1. i \in DOMAIN Answers /\ Answers'[i] = Answers[i]
      BY <1>4, <2>1
    <3>2. PICK u \in Tag : u = Answers[i].tag
      BY <3>1, TagsTyped
    <3>3. job[u].op = "read" /\ ~Asked(u)'
      BY <1>2, <3>1, <3>2 DEF StoreInv, AnswersInv
    <3> QED
      BY <1>1, <3>1, <3>2, <3>3
  <2>2. CASE i > L
    <3>1. job[t].op = "read" /\ ~Asked(t)' /\ Answers'[i].tag = t
      BY <1>2, <1>4, <2>2
    <3> QED
      BY <1>1, <3>1
  <2> QED
    BY <1>4, <2>1, <2>2
<1>6. ASSUME NEW u \in Tag, job'[u].op = "read", ~Asked(u)'
      PROVE  \E s \in DOMAIN Answers' : Block(u, s)'
  <2>1. CASE u = t
    <3>1. PICK s : s = L + 1
      OBVIOUS
    <3> QED
      BY <1>0, <2>1, <3>1, DoReadBlocks
  <2>2. CASE u # t
    <3>1. job[u].op = "read" /\ ~Asked(u)
      BY <1>1, <1>2, <1>6, <2>2
    <3>2. PICK s \in DOMAIN Answers : Block(u, s)
      BY <3>1 DEF StoreInv, AnswersInv
    <3> QED
      BY <1>0, <2>2, <3>2, DoReadBlocks
  <2> QED
    BY <2>1, <2>2
<1>7. AnswersInv'
  BY <1>4, <1>5, <1>6 DEF AnswersInv
<1>8. AckedInv' /\ TrackerInv'
  BY <1>1 DEF StoreInv, AckedInv, TrackerInv, In
<1>9. ComingInv'
  <2>1. \A u \in Tag : Taken(u)' = Taken(u)
    BY <1>1 DEF Taken, In
  <2> QED
    BY <1>1, <2>1, ComingKept
<1> QED
  BY <1>3, <1>7, <1>8, <1>9 DEF StoreInv

LEMMA StoreInvDoWrite ==
  ASSUME Typed, StoreInv, DoWrite
  PROVE  /\ StoreInv' /\ job[Head(Asking).tag].op = "write"
         /\ \A u \in Tag : Asked(u)' <=> Asked(u) /\ u # Head(Asking).tag
<1>0. PICK t : t = Head(Asking).tag
  OBVIOUS
<1>1. /\ Asking # <<>> /\ Asking' = Tail(Asking) /\ Head(Asking).write
      /\ tracker' = [tracker EXCEPT ![t] = [data |-> <<>>, size |-> Beats]]
      /\ UNCHANGED <<Coming, Answers, Acked, job>>
  BY <1>0, DoWriteRows
<1>2. /\ t \in Tag /\ Asked(t) /\ job[t].op = "write"
      /\ \A u \in Tag : Asked(u)' <=> Asked(u) /\ u # t
      /\ \A i \in DOMAIN Asking' :
           i + 1 \in DOMAIN Asking /\ Asking'[i] = Asking[i + 1]
      /\ \A i, j \in DOMAIN Asking' : Asking'[i].tag = Asking'[j].tag => i = j
  BY <1>0, <1>1, AskingServed
<1>3. tracker[t].size = 0 /\ tracker[t].data = <<>> /\ ~In(t, Acked)
  BY <1>2 DEF StoreInv, AskingInv, TrackerInv
<1>4. /\ \A u \in Tag : u # t => tracker'[u] = tracker[u]
      /\ tracker'[t] = [data |-> <<>>, size |-> Beats]
  BY <1>1, <1>2 DEF Typed, DriverTyped
<1>5. AskingInv'
  <2>1. \A i \in DOMAIN Asking' :
          job'[Asking'[i].tag].op = IF Asking'[i].write THEN "write" ELSE "read"
    BY <1>1, <1>2 DEF StoreInv, AskingInv
  <2>2. \A u \in Tag : Asked(u)' => /\ job'[u].got = <<>>
                                    /\ tracker'[u].size = 0 /\ ~In(u, Acked)'
    BY <1>1, <1>2, <1>4 DEF StoreInv, AskingInv, In
  <2> QED
    BY <1>2, <2>1, <2>2 DEF AskingInv
<1>6. AnswersInv'
  <2>1. \A u \in Tag : job[u].op = "read" => (Asked(u)' <=> Asked(u))
    BY <1>2
  <2>2. ASSUME NEW i \in DOMAIN Answers
        PROVE  (job[Answers[i].tag].op = "read" /\ ~Asked(Answers[i].tag))'
    <3>1. PICK u \in Tag : u = Answers[i].tag
      BY TagsTyped
    <3>2. job[u].op = "read" /\ ~Asked(u)
      BY <3>1 DEF StoreInv, AnswersInv
    <3> QED
      BY <1>1, <2>1, <3>1, <3>2
  <2>3. ASSUME NEW u \in Tag, job[u].op = "read", ~Asked(u)'
        PROVE  \E s \in DOMAIN Answers : Block(u, s)'
    <3>1. PICK s \in DOMAIN Answers : Block(u, s)
      BY <2>1, <2>3 DEF StoreInv, AnswersInv
    <3>2. Block(u, s)'
      BY <1>1, <3>1 DEF Block
    <3> QED
      BY <3>2
  <2> QED
    BY <1>1, <2>2, <2>3 DEF AnswersInv
<1>7. AckedInv'
  <2>1. \A i \in DOMAIN Acked : Acked[i] \in Tag /\ Acked[i] # t
    BY <1>3, TagsTyped DEF In
  <2> QED
    BY <1>1, <1>4, <2>1 DEF StoreInv, AckedInv
<1>8. TrackerInv'
  <2>1. ASSUME NEW u \in Tag
        PROVE  /\ tracker'[u].size # 0 => job'[u].op = "write" /\ ~In(u, Acked)'
               /\ tracker'[u].size = 0 => tracker'[u].data = <<>>
               /\ \A i \in DOMAIN tracker'[u].data :
                    tracker'[u].data[i] = job'[u].value
    <3>1. CASE u = t
      BY <1>1, <1>2, <1>3, <1>4, <3>1 DEF In
    <3>2. CASE u # t
      BY <1>1, <1>4, <3>2 DEF StoreInv, TrackerInv, In
    <3> QED
      BY <3>1, <3>2
  <2> QED
    BY <2>1 DEF TrackerInv
<1>9. ComingInv'
  <2>1. ASSUME NEW u \in Tag
        PROVE  Taken(u)' = Taken(u)
    <3>1. In(u, Acked)' <=> In(u, Acked)
      BY <1>1 DEF In
    <3>2. tracker'[u].data = tracker[u].data
      BY <1>3, <1>4
    <3> QED
      BY <3>1, <3>2 DEF Taken
  <2> QED
    BY <1>1, <2>1, ComingKept
<1> QED
  BY <1>0, <1>2, <1>5, <1>6, <1>7, <1>8, <1>9 DEF StoreInv

\* A beat that is handled is the next of its write; the last one writes the
\* sector and is acknowledged.
LEMMA HandleDataTakes ==
  ASSUME Typed, StoreInv, HandleData
  PROVE  \E t \in Tag, x \in Value :
           /\ Coming # <<>> /\ Coming' = Tail(Coming) /\ t = Coming[1].tag
           /\ job[t].op = "write" /\ x = job[t].value
           /\ tracker[t].size = Beats /\ ~In(t, Acked)
           /\ UNCHANGED <<Asking, Answers, job>>
           /\ \A u \in Tag : u # t => tracker'[u] = tracker[u]
           /\ \/ /\ tracker'[t].data = Append(tracker[t].data, x)
                 /\ tracker'[t].size = Beats
                 /\ UNCHANGED <<file, Acked>>
              \/ /\ Len(tracker[t].data) + 1 = Beats
                 /\ tracker'[t].data = <<>> /\ tracker'[t].size = 0
                 /\ file' = [i \in 1 .. Beats |-> job[t].value]
                 /\ Acked' = Append(Acked, t)
<1>1. PICK t \in Tag, x \in Value :
        LET data == Append(tracker[t].data, x) IN
        /\ Coming # <<>> /\ Coming' = Tail(Coming)
        /\ t = Coming[1].tag /\ x = Coming[1].value
        /\ tracker[t].size = Beats
        /\ data \in Seq(Value) /\ Len(data) = Len(tracker[t].data) + 1
        /\ Len(data) <= Beats
        /\ Len(data) < Beats =>
             /\ tracker' = [tracker EXCEPT ![t] = [data |-> data, size |-> Beats]]
             /\ UNCHANGED <<file, Acked>>
        /\ Len(data) = Beats =>
             /\ tracker' = [tracker EXCEPT ![t] = [data |-> <<>>, size |-> 0]]
             /\ file' = data /\ Acked' = Append(Acked, t)
        /\ UNCHANGED <<Asking, Answers, job>>
  BY HandleDataRows
<1> DEFINE data == Append(tracker[t].data, x)
<1>2. 1 \in DOMAIN Coming
  BY <1>1, RowsTyped, Popped
<1>3. job[t].op = "write" /\ x = job[t].value
  BY <1>1, <1>2 DEF StoreInv, ComingInv, Numbered
<1>4. ~In(t, Acked) /\ \A i \in DOMAIN tracker[t].data :
                          tracker[t].data[i] = job[t].value
  <2>1. tracker[t].size # 0
    BY <1>1, Sizes
  <2>2. TrackerInv
    BY DEF StoreInv
  <2> QED
    BY <2>1, <2>2 DEF TrackerInv
<1>5. tracker \in [Tag -> Tracker] /\ tracker[t].data \in Seq(Value)
  BY DEF Typed, DriverTyped, Tracker
<1>6. data \in Seq(Value) /\ Len(data) \in Nat /\ Len(data) <= Beats
      /\ Len(data) = Len(tracker[t].data) + 1
  BY <1>1, LenProperties
<1>7. CASE Len(data) < Beats
  <2>1. /\ tracker' = [tracker EXCEPT ![t] = [data |-> data, size |-> Beats]]
        /\ UNCHANGED <<file, Acked>>
    BY <1>1, <1>7
  <2> HIDE DEF data
  <2>2. tracker'[t] = [data |-> data, size |-> Beats]
        /\ \A u \in Tag : u # t => tracker'[u] = tracker[u]
    BY <1>5, <2>1
  <2>3. tracker'[t].data = data /\ tracker'[t].size = Beats
    BY <2>2
  <2> QED
    BY <1>1, <1>3, <1>4, <2>1, <2>2, <2>3 DEF data
<1>8. CASE Len(data) = Beats
  <2>1. /\ tracker' = [tracker EXCEPT ![t] = [data |-> <<>>, size |-> 0]]
        /\ file' = data /\ Acked' = Append(Acked, t)
    BY <1>1, <1>8
  <2>2. tracker'[t] = [data |-> <<>>, size |-> 0]
        /\ \A u \in Tag : u # t => tracker'[u] = tracker[u]
    BY <1>5, <2>1
  <2>3. tracker'[t].data = <<>> /\ tracker'[t].size = 0
    BY <2>2
  <2>4. data = [i \in 1 .. Beats |-> job[t].value]
    <3>1. /\ DOMAIN tracker[t].data = 1 .. Len(tracker[t].data)
          /\ Len(tracker[t].data) \in Nat
          /\ DOMAIN data = 1 .. Len(tracker[t].data) + 1
          /\ \A i \in 1 .. Len(tracker[t].data) : data[i] = tracker[t].data[i]
          /\ data[Len(tracker[t].data) + 1] = x
      BY <1>5, Pushed
    <3>2. Len(tracker[t].data) + 1 = Beats
      BY <1>6, <1>8
    <3>3. data \in [1 .. Beats -> Value]
      BY <1>6, <1>8, LenProperties
    <3> HIDE DEF data
    <3>4. \A i \in 1 .. Beats : data[i] = job[t].value
      BY <1>3, <1>4, <3>1, <3>2
    <3> QED
      BY <3>3, <3>4
  <2>5. Len(tracker[t].data) + 1 = Beats
    BY <1>6, <1>8
  <2> HIDE DEF data
  <2> QED
    BY <1>1, <1>3, <1>4, <2>1, <2>2, <2>3, <2>4, <2>5
<1> QED
  BY <1>6, <1>7, <1>8, Sizes

LEMMA StoreInvHandleData ==
  ASSUME Typed, StoreInv, HandleData
  PROVE  StoreInv'
<1>1. PICK t \in Tag, x \in Value :
        /\ Coming # <<>> /\ Coming' = Tail(Coming) /\ t = Coming[1].tag
        /\ job[t].op = "write" /\ x = job[t].value
        /\ tracker[t].size = Beats /\ ~In(t, Acked)
        /\ UNCHANGED <<Asking, Answers, job>>
        /\ \A u \in Tag : u # t => tracker'[u] = tracker[u]
        /\ \/ /\ tracker'[t].data = Append(tracker[t].data, x)
              /\ tracker'[t].size = Beats
              /\ UNCHANGED <<file, Acked>>
           \/ /\ Len(tracker[t].data) + 1 = Beats
              /\ tracker'[t].data = <<>> /\ tracker'[t].size = 0
              /\ file' = [i \in 1 .. Beats |-> job[t].value]
              /\ Acked' = Append(Acked, t)
  BY HandleDataTakes
<1>0. Beats # 0
  BY Sizes
<1>10. /\ UNCHANGED <<Asking, Answers, job>> /\ Beats # 0
       /\ tracker[t].size = Beats /\ job[t].op = "write"
       /\ job[t].value = x /\ job'[t].value = x
       /\ \A u \in Tag : u # t => tracker'[u] = tracker[u]
  BY <1>0, <1>1
<1>11. AskingInv /\ AnswersInv /\ AckedInv /\ TrackerInv /\ ComingInv
  BY DEF StoreInv
<1>2. tracker[t].data \in Seq(Value)
  BY DEF Typed, DriverTyped, Tracker
<1>3. \A u \in Tag : u # t => (In(u, Acked)' <=> In(u, Acked))
  <2>1. CASE UNCHANGED Acked
    BY <2>1 DEF In
  <2>2. CASE Acked' = Append(Acked, t)
    <3>1. \A u \in Tag : In(u, Append(Acked, t)) <=> In(u, Acked) \/ u = t
      BY RowsTyped, InAppend
    <3> QED
      BY <2>2, <3>1 DEF In
  <2> QED
    BY <1>1, <2>1, <2>2
<1>4. AskingInv'
  <2>1. \A u \in Tag : Asked(u)' <=> Asked(u)
    BY <1>1 DEF Asked
  <2>2. ASSUME NEW u \in Tag, Asked(u)
        PROVE  /\ job'[u].got = <<>>
               /\ tracker'[u].size = 0 /\ ~In(u, Acked)'
    <3>1. job[u].got = <<>> /\ tracker[u].size = 0 /\ ~In(u, Acked)
      BY <1>11, <2>2 DEF AskingInv
    <3>2. u # t
      BY <1>10, <3>1
    <3>3. ~In(u, Acked)'
      BY <1>3, <3>1, <3>2
    <3> QED
      BY <1>10, <3>1, <3>2, <3>3
  <2> QED
    BY <1>10, <1>11, <2>1, <2>2 DEF AskingInv
<1>5. AnswersInv'
  BY <1>10, <1>11 DEF AnswersInv, Asked, Block
<1>6. \A i \in DOMAIN Acked : Acked[i] \in Tag /\ Acked[i] # t
  BY <1>1, TagsTyped DEF In
<1>7. AckedInv'
  <2>1. CASE UNCHANGED Acked
    BY <1>10, <1>6, <1>11, <2>1 DEF AckedInv
  <2>2. CASE tracker'[t].size = 0 /\ Acked' = Append(Acked, t)
    <3>1. /\ DOMAIN Acked = 1 .. Len(Acked) /\ Len(Acked) \in Nat
          /\ DOMAIN Acked' = 1 .. Len(Acked) + 1
          /\ \A i \in 1 .. Len(Acked) : Acked'[i] = Acked[i]
          /\ Acked'[Len(Acked) + 1] = t
      BY <2>2, RowsTyped, Pushed
    <3>2. \A i \in DOMAIN Acked' : i \in DOMAIN Acked \/ i = Len(Acked) + 1
      BY <3>1
    <3>3. \A i \in DOMAIN Acked' :
            job'[Acked'[i]].op = "write" /\ tracker'[Acked'[i]].size = 0
      <4>1. \A i \in DOMAIN Acked :
              job'[Acked[i]].op = "write" /\ tracker'[Acked[i]].size = 0
        BY <1>10, <1>6, <1>11 DEF AckedInv
      <4>2. job'[t].op = "write" /\ tracker'[t].size = 0
        BY <1>10, <2>2
      <4>3. \A i \in DOMAIN Acked : Acked'[i] = Acked[i]
        BY <3>1
      <4> QED
        BY <3>1, <3>2, <4>1, <4>2, <4>3
    <3>4. \A i, j \in DOMAIN Acked' : Acked'[i] = Acked'[j] => i = j
      <4>1. \A i, j \in DOMAIN Acked : Acked[i] = Acked[j] => i = j
        BY <1>11 DEF AckedInv
      <4>2. \A i \in DOMAIN Acked : Acked'[i] = Acked[i] /\ Acked'[i] # t
        BY <1>6, <3>1
      <4> QED
        BY <3>1, <3>2, <4>1, <4>2
    <3> QED
      BY <3>3, <3>4 DEF AckedInv
  <2> QED
    BY <1>1, <2>1, <2>2
<1>8. TrackerInv'
  <2>1. ASSUME NEW u \in Tag, u # t
        PROVE  /\ tracker'[u].size # 0 => job'[u].op = "write" /\ ~In(u, Acked)'
               /\ tracker'[u].size = 0 => tracker'[u].data = <<>>
               /\ \A i \in DOMAIN tracker'[u].data :
                    tracker'[u].data[i] = job'[u].value
    BY <1>10, <1>3, <1>11, <2>1 DEF TrackerInv
  <2>2. CASE /\ tracker'[t].data = Append(tracker[t].data, x)
             /\ tracker'[t].size = Beats /\ UNCHANGED <<file, Acked>>
    <3>1. /\ DOMAIN tracker[t].data = 1 .. Len(tracker[t].data)
          /\ Len(tracker[t].data) \in Nat
          /\ DOMAIN tracker'[t].data = 1 .. Len(tracker[t].data) + 1
          /\ \A i \in 1 .. Len(tracker[t].data) :
               tracker'[t].data[i] = tracker[t].data[i]
          /\ tracker'[t].data[Len(tracker[t].data) + 1] = x
      BY <1>2, <2>2, Pushed
    <3>2. \A i \in DOMAIN tracker[t].data : tracker[t].data[i] = job[t].value
      BY <1>11 DEF TrackerInv
    <3>3. ASSUME NEW i \in DOMAIN tracker'[t].data
          PROVE  tracker'[t].data[i] = job'[t].value
      <4>1. CASE i \in 1 .. Len(tracker[t].data)
        BY <1>10, <3>1, <3>2, <4>1
      <4>2. CASE i = Len(tracker[t].data) + 1
        BY <1>10, <3>1, <4>2
      <4> QED
        BY <3>1, <4>1, <4>2
    <3>4. ~In(t, Acked)'
      BY <1>1, <2>2 DEF In
    <3>5. tracker'[t].size # 0 /\ job'[t].op = "write"
      BY <1>10, <2>2
    <3> QED
      BY <2>1, <3>3, <3>4, <3>5 DEF TrackerInv
  <2>3. CASE tracker'[t].data = <<>> /\ tracker'[t].size = 0
    <3>1. \A i \in DOMAIN tracker'[t].data : tracker'[t].data[i] = job'[t].value
      BY <2>3
    <3> QED
      BY <2>1, <2>3, <3>1 DEF TrackerInv
  <2> QED
    BY <1>1, <2>2, <2>3
<1>9. ComingInv'
  <2>1. ASSUME NEW u \in Tag, u # t
        PROVE  Taken(u)' = Taken(u)
    BY <1>1, <1>3, <2>1 DEF Taken
  <2>2. Taken(t)' = Taken(t) + 1
    <3>1. Taken(t) = Len(tracker[t].data) /\ Len(tracker[t].data) \in Nat
      BY <1>1, <1>2, LenProperties DEF Taken
    <3>2. CASE tracker'[t].data = Append(tracker[t].data, x) /\ UNCHANGED Acked
      <4>1. Len(tracker'[t].data) = Len(tracker[t].data) + 1
        BY <1>2, <3>2, Pushed
      <4>2. ~In(t, Acked)'
        BY <1>1, <3>2 DEF In
      <4> QED
        BY <3>1, <4>1, <4>2 DEF Taken
    <3>3. CASE /\ Len(tracker[t].data) + 1 = Beats
               /\ Acked' = Append(Acked, t)
      <4>1. In(t, Append(Acked, t))
        BY RowsTyped, InAppend
      <4>2. In(t, Acked)'
        BY <3>3, <4>1 DEF In
      <4> QED
        BY <3>1, <3>3, <4>2 DEF Taken
    <3> QED
      BY <1>1, <3>2, <3>3
  <2>3. PICK no \in [DOMAIN Coming -> 1 .. Beats] : Numbered(no)
    BY DEF StoreInv, ComingInv
  <2>4. /\ DOMAIN Coming = 1 .. Len(Coming) /\ Len(Coming) \in Nat
        /\ Len(Coming) > 0
        /\ DOMAIN Coming' = 1 .. Len(Coming) - 1
        /\ \A i \in 1 .. Len(Coming) - 1 : Coming'[i] = Coming[i + 1]
    BY <1>1, RowsTyped, Popped
  <2>5. 1 \in DOMAIN Coming
    BY <2>4
  <2>6. /\ \A i \in DOMAIN Coming : no[i] \in 1 .. Beats
        /\ Taken(t) \in Nat
    BY <2>3, TakenTyped, Sizes
  <2>7. \A u \in Tag : job[u].sent \in 0 .. Beats
    BY DEF Typed, TargetTyped, Job
  <2>8. /\ Taken(t) + 1 <= no[1] /\ no[1] <= job[t].sent
        /\ \A j \in DOMAIN Coming : 1 < j /\ Coming[j].tag = t => no[1] < no[j]
    <3>1. 1 \in DOMAIN Coming /\ Coming[1].tag = t
      BY <1>1, <2>5
    <3>2. /\ Taken(t) < no[1] /\ no[1] <= job[t].sent
          /\ \A j \in DOMAIN Coming : 1 < j /\ Coming[j].tag = t => no[1] < no[j]
      BY <2>3, <3>1 DEF Numbered
    <3>3. no[1] \in Nat /\ Taken(t) \in Nat
      BY <2>6, <3>1
    <3> QED
      BY <3>2, <3>3
  <2>9. ASSUME NEW u \in Tag, job'[u].op = "write"
        PROVE  Taken(u)' <= job'[u].sent
    <3>1. CASE u = t
      BY <1>1, <2>2, <2>5, <2>6, <2>7, <2>8, <3>1
    <3>2. CASE u # t
      BY <1>1, <2>1, <2>9, <3>2 DEF StoreInv, ComingInv
    <3> QED
      BY <3>1, <3>2
  <2>10. PICK no2 \in [DOMAIN Coming' -> 1 .. Beats] :
           no2 = [i \in 1 .. Len(Coming) - 1 |-> no[i + 1]]
    <3>1. [i \in 1 .. Len(Coming) - 1 |-> no[i + 1]]
            \in [1 .. Len(Coming) - 1 -> 1 .. Beats]
      BY <2>4, <2>6
    <3> QED
      BY <2>4, <3>1
  <2>11. \A i \in DOMAIN Coming' : /\ i + 1 \in DOMAIN Coming /\ i + 1 > 1
                                   /\ Coming'[i] = Coming[i + 1]
                                   /\ no2[i] = no[i + 1]
    BY <2>4, <2>10
  <2>12. ASSUME NEW i \in DOMAIN Coming', NEW u \in Tag, Coming'[i].tag = u
         PROVE  /\ job'[u].op = "write" /\ Coming'[i].value = job'[u].value
                /\ Taken(u)' < no2[i] /\ no2[i] <= job'[u].sent
                /\ \A j \in DOMAIN Coming' :
                     i < j /\ Coming'[j].tag = u => no2[i] < no2[j]
    <3>1. /\ job[u].op = "write" /\ Coming[i + 1].value = job[u].value
          /\ Taken(u) < no[i + 1] /\ no[i + 1] <= job[u].sent
          /\ \A j \in DOMAIN Coming :
               i + 1 < j /\ Coming[j].tag = u => no[i + 1] < no[j]
      BY <2>3, <2>11, <2>12 DEF Numbered
    <3>2. Taken(u)' < no[i + 1]
      <4>1. CASE u = t
        BY <2>2, <2>5, <2>6, <2>8, <2>11, <2>12, <4>1
      <4>2. CASE u # t
        BY <2>1, <3>1, <4>2
      <4> QED
        BY <4>1, <4>2
    <3>3. ASSUME NEW j \in DOMAIN Coming', i < j, Coming'[j].tag = u
          PROVE  no2[i] < no2[j]
      <4>1. i + 1 < j + 1
        BY <2>4, <3>3
      <4> QED
        BY <2>11, <3>1, <3>3, <4>1
    <3> QED
      BY <1>1, <2>11, <3>1, <3>2, <3>3
  <2>13. \A i \in DOMAIN Coming' : Coming'[i].tag \in Tag
    BY <2>11, TagsTyped
  <2>14. Numbered(no2)'
    BY <2>12, <2>13 DEF Numbered
  <2> QED
    BY <2>9, <2>10, <2>14 DEF ComingInv
<1> QED
  BY <1>4, <1>5, <1>7, <1>8, <1>9 DEF StoreInv

LEMMA StoreInvInit == Init => StoreInv
<1> SUFFICES ASSUME Init PROVE StoreInv
  OBVIOUS
<1>1. Asking = <<>> /\ Coming = <<>> /\ Answers = <<>> /\ Acked = <<>>
  BY ConcatEmptySeq, EmptySeq DEF Init, Asking, Coming, Answers, Acked
<1>2. DOMAIN <<>> = {}
  BY EmptySeq, LenProperties
<1>3. \A t \in Tag : /\ job[t].op = "free" /\ job[t].got = <<>>
                     /\ tracker[t].size = 0 /\ tracker[t].data = <<>>
  BY FreshIs DEF Init
<1>4. AskingInv
  BY <1>1, <1>2 DEF AskingInv, Asked
<1>5. AnswersInv
  BY <1>1, <1>2, <1>3 DEF AnswersInv
<1>6. AckedInv
  BY <1>1, <1>2 DEF AckedInv
<1>7. TrackerInv
  BY <1>2, <1>3 DEF TrackerInv
<1>8. ComingInv
  <2> DEFINE no == [i \in DOMAIN Coming |-> 1]
  <2>1. no \in [DOMAIN Coming -> 1 .. Beats]
    BY Sizes
  <2>2. Numbered(no)
    BY <1>1, <1>2 DEF Numbered
  <2>3. \E n \in [DOMAIN Coming -> 1 .. Beats] : Numbered(n)
    BY <2>1, <2>2, Zenon
  <2> QED
    BY <1>3, <2>3 DEF ComingInv
<1> QED
  BY <1>4, <1>5, <1>6, <1>7, <1>8 DEF StoreInv

LEMMA StoreInvStep ==
  ASSUME Typed, StoreInv, [Next]_vars
  PROVE  StoreInv'
<1>1. CASE Cycle
  BY <1>1, CycleIsOne, StoreInvCycle
<1>2. CASE DoRead
  BY <1>2, StoreInvDoRead
<1>3. CASE DoWrite
  BY <1>3, StoreInvDoWrite
<1>4. CASE HandleData
  BY <1>4, StoreInvHandleData
<1>5. CASE SendAck \/ SendBeat \/ TakeRequest \/ TakeBeat \/ Turns
           \/ UNCHANGED vars
  BY <1>5, PassingKeeps, StoreInvPassing
<1> QED
  BY <1>1, <1>2, <1>3, <1>4, <1>5, DriverIs

LEMMA StoreInvAlways == Spec => [](Typed /\ StoreInv)
<1>1. Init => Typed /\ StoreInv
  BY TypedInit, StoreInvInit
<1>2. Typed /\ StoreInv /\ [Next]_vars => (Typed /\ StoreInv)'
  BY TypedStep, StoreInvStep
<1> QED
  BY <1>1, <1>2, PTL DEF Spec

-----------------------------------------------------------------------------
\* The device acts as an atomic store.

\* What a read whose block of answers begins at s gets.
AnswerFrom(t, s) ==
  LET n == Len(job[t].got) IN
  [k \in 1 .. Beats |-> IF k <= n THEN job[t].got[k]
                        ELSE Answers[s + (k - n) - 1].value]

\* A read that was served: its answer is whole.
Found(t, s) ==
  /\ t \in Tag /\ job[t].op = "read" /\ ~Asked(t)
  /\ s \in DOMAIN Answers /\ Block(t, s)

LEMMA AnswerIs ==
  Typed => \A t, s : Found(t, s) => Answer(t) = AnswerFrom(t, s)
<1> SUFFICES ASSUME Typed, NEW t, NEW s, Found(t, s)
             PROVE  Answer(t) = AnswerFrom(t, s)
  OBVIOUS
<1>1. DOMAIN Answers = 1 .. Len(Answers) /\ Len(Answers) \in Nat
  BY RowsTyped, LenProperties
<1>2. Len(job[t].got) \in Nat /\ Len(job[t].got) < Beats
  BY LenProperties DEF Typed, TargetTyped, Job, Found
<1>3. \A i \in DOMAIN Answers :
        Answers[i].tag = t <=> i \in s .. s + (Beats - Len(job[t].got)) - 1
  BY DEF Found, Block
<1>4. s \in 1 .. Len(Answers)
  BY <1>1 DEF Found
<1>5. Answers[s].tag = t
  <2>1. s \in s .. s + (Beats - Len(job[t].got)) - 1
    <3>1. PICK n \in Nat : n = Len(job[t].got)
      BY <1>2
    <3>2. n < Beats /\ s \in Nat
      BY <1>1, <1>2, <1>4, <3>1
    <3>3. s \in s .. s + (Beats - n) - 1
      BY <3>2, BlockEnds
    <3> QED
      BY <3>1, <3>3
  <2> QED
    BY <1>1, <1>3, <1>4, <2>1
<1>6. ASSUME NEW j \in 1 .. s - 1 PROVE Answers[j].tag # t
  <2>1. j \in DOMAIN Answers /\ j < s /\ j \in Nat
    BY <1>1, <1>4
  <2> QED
    BY <1>2, <1>3, <1>4, <2>1
<1>7. ASSUME NEW i \in DOMAIN Answers, Answers[i].tag = t,
             \A j \in 1 .. i - 1 : Answers[j].tag # t
      PROVE  i = s
  <2>1. i >= s
    BY <1>1, <1>2, <1>3, <1>4, <1>7
  <2>2. ~(s \in 1 .. i - 1)
    BY <1>5, <1>7
  <2> QED
    BY <1>1, <1>4, <2>1, <2>2
<1>8. First(t) = s
  BY <1>1, <1>4, <1>5, <1>6, <1>7 DEF First
<1> QED
  BY <1>8 DEF Answer, AnswerFrom, Found

\* A read that is done has its block.
LEMMA FoundIs ==
  Typed /\ StoreInv =>
    \A t \in Tag : job[t].op = "read" /\ Phase(t) = "done" =>
      \E s : Found(t, s)
  BY DEF Phase, StoreInv, AnswersInv, Found

LEMMA PhaseIs ==
  \A t \in Tag :
    /\ job[t].op = "free" => Phase(t) = "free"
    /\ job[t].op = "read" => Phase(t) = IF Asked(t) THEN "asked" ELSE "done"
    /\ job[t].op = "write" => Phase(t) = IF In(t, Acked) THEN "done" ELSE "asked"
  BY DEF Phase

LEMMA AnswerIsNext ==
  Typed' => \A t, s : Found(t, s)' => Answer(t)' = AnswerFrom(t, s)'
<1>1. (Typed => \A t, s : Found(t, s) => Answer(t) = AnswerFrom(t, s))'
  BY AnswerIs, PTL
<1> QED
  BY <1>1

\* What a cycle does to a transaction: it is requested, it ends, or it stays in
\* its phase.
LEMMA CyclePhase ==
  ASSUME Typed, StoreInv, NEW r, NEW v, NEW b, NEW ready, NEW pick,
         CycleOf(r, v, b, ready, pick), NEW t \in Tag
  PROVE  \/ Asks(r, t) /\ Phase(t) = "free" /\ Phase(t)' = "asked"
         \/ ~Asks(r, t) /\ Phase(t) = "done" /\ Phase(t)' = "free"
         \/ /\ ~Asks(r, t) /\ Phase(t)' = Phase(t)
            /\ job'[t].op = job[t].op /\ job'[t].value = job[t].value
<1>1. Asked(t)' <=> Asked(t) \/ Asks(r, t)
  BY AskedAfter
<1>2. In(t, Acked)' <=> In(t, Acked) /\ ~RespondsTo(ready, t)
  BY AckedAfter
<1>3. CASE Asks(r, t)
  <2>1. /\ job[t].op = "free" /\ ~In(t, Acked)
        /\ job'[t].op = IF AsksWrite(r, t) THEN "write" ELSE "read"
    BY <1>3, NewlyAsked
  <2> QED
    BY <1>1, <1>2, <1>3, <2>1 DEF Phase
<1>4. CASE ~Asks(r, t) /\ ~RespondsTo(ready, t)
  BY <1>1, <1>2, <1>4, OnlySends DEF Phase
<1>5. CASE RespondsTo(ready, t)
  <2>1. ~Asks(r, t) /\ ~Asked(t)
    BY <1>5, Responded
  <2>2. CASE Acknowledges(t)
    <3>1. 1 \in DOMAIN Acked
      BY <2>2, RowsTyped, Popped DEF Acknowledges
    <3>2. In(t, Acked)
      BY <2>2, <3>1 DEF Acknowledges, In
    <3> QED
      BY <2>1, <2>2, <3>2 DEF Phase, Acknowledges
  <2>3. CASE Returns(t)
    BY <1>1, <2>1, <2>3 DEF Phase, Returns
  <2> QED
    BY <1>5, <2>2, <2>3, Responded
<1> QED
  BY <1>3, <1>4, <1>5

\* The beats of a block are in the answers,
LEMMA BlockHolds ==
  ASSUME NEW s \in Nat, s > 0, NEW n \in Nat, NEW k \in Nat, n < k, k <= Beats,
         NEW l \in Nat, s + (Beats - n) - 1 <= l
  PROVE  s + (k - n) - 1 \in 1 .. l
<1>1. PICK d \in Nat : k = n + d + 1
  <2>1. k - n - 1 \in Nat /\ k = n + (k - n - 1) + 1
    OBVIOUS
  <2> QED
    BY <2>1
<1>2. PICK e \in Nat : Beats = k + e
  <2>1. Beats - k \in Nat /\ Beats = k + (Beats - k)
    BY Sizes
  <2> QED
    BY <2>1
<1>3. s + d + e <= l
  BY <1>1, <1>2
<1>4. s + d \in 1 .. l
  BY <1>3
<1> QED
  BY <1>1, <1>4

\* and one place further on when the first answer has left.
LEMMA BlockMoves ==
  ASSUME NEW s \in Nat, s > 1, NEW n \in Nat, NEW k \in Nat, n < k, k <= Beats,
         NEW l \in Nat, s + (Beats - n) - 1 <= l
  PROVE  \E i \in 1 .. l - 1 :
           i = (s - 1) + (k - n) - 1 /\ i + 1 = s + (k - n) - 1
<1>1. PICK d \in Nat : k = n + d + 1
  <2>1. k - n - 1 \in Nat /\ k = n + (k - n - 1) + 1
    OBVIOUS
  <2> QED
    BY <2>1
<1>2. PICK e \in Nat : Beats = k + e
  <2>1. Beats - k \in Nat /\ Beats = k + (Beats - k)
    BY Sizes
  <2> QED
    BY <2>1
<1>3. s + d + e <= l
  BY <1>1, <1>2
<1>4. s - 1 + d \in 1 .. l - 1
  BY <1>3
<1> QED
  BY <1>1, <1>4

\* or has been returned itself.
LEMMA BlockPops ==
  ASSUME NEW n \in Nat, NEW k \in Nat, n + 1 < k, k <= Beats,
         NEW l \in Nat, 1 + (Beats - n) - 1 <= l
  PROVE  \E i \in 1 .. l - 1 :
           i = 1 + (k - (n + 1)) - 1 /\ i + 1 = 1 + (k - n) - 1
<1>1. PICK d \in Nat : k = n + d + 2
  <2>1. k - n - 2 \in Nat /\ k = n + (k - n - 2) + 2
    OBVIOUS
  <2> QED
    BY <2>1
<1>2. PICK e \in Nat : Beats = k + e
  <2>1. Beats - k \in Nat /\ Beats = k + (Beats - k)
    BY Sizes
  <2> QED
    BY <2>1
<1>3. d + 1 \in 1 .. l - 1
  BY <1>1, <1>2
<1> QED
  BY <1>1, <1>3

\* The answer of a read stays the same while its beats are returned.
LEMMA CycleAnswerFrom ==
  ASSUME Typed, StoreInv, NEW r, NEW v, NEW b, NEW ready, NEW pick,
         CycleOf(r, v, b, ready, pick), NEW t \in Tag,
         job'[t].op = "read", job[t].op = "read", ~Asked(t),
         NEW s \in DOMAIN Answers, Block(t, s)
  PROVE  \E z : /\ z \in DOMAIN Answers' /\ Block(t, z)'
                /\ AnswerFrom(t, z)' = AnswerFrom(t, s)
<1>0. Len(job[t].got) < Beats /\ job[t].got \in Seq(Value)
  BY DEF Typed, TargetTyped, Job
<1>1. PICK n \in Nat : n = Len(job[t].got) /\ n < Beats
  BY <1>0, LenProperties
<1>2. /\ DOMAIN Answers = 1 .. Len(Answers) /\ Len(Answers) \in Nat
      /\ s \in 1 .. Len(Answers) /\ Answers \in Seq(Beat)
  BY RowsTyped, LenProperties
<1>3. s + (Beats - n) - 1 <= Len(Answers)
  BY <1>1 DEF Block
<1>4. CASE /\ UNCHANGED Answers /\ job'[t].got = job[t].got
           /\ Block(t, s)'
  <2>1. AnswerFrom(t, s)' = AnswerFrom(t, s)
    BY <1>4 DEF AnswerFrom
  <2> QED
    BY <1>4, <2>1
<1>5. CASE /\ Answers' = Tail(Answers) /\ Answers # <<>>
           /\ job'[t].got = job[t].got
           /\ s > 1 /\ s - 1 \in DOMAIN Answers' /\ Block(t, s - 1)'
  <2>1. PICK z : z = s - 1
    OBVIOUS
  <2>2. \A i \in 1 .. Len(Answers) - 1 : Answers'[i] = Answers[i + 1]
    BY <1>2, <1>5, Popped
  <2>3. ASSUME NEW k \in 1 .. Beats, ~(k <= n)
        PROVE  Answers'[z + (k - n) - 1].value = Answers[s + (k - n) - 1].value
    <3>1. PICK i \in 1 .. Len(Answers) - 1 :
            i = z + (k - n) - 1 /\ i + 1 = s + (k - n) - 1
      <4>1. n \in Nat /\ k \in Nat /\ n < k /\ k <= Beats
        BY <1>1, <2>3, Sizes
      <4>2. s \in Nat /\ s > 1 /\ Len(Answers) \in Nat
        BY <1>2, <1>5
      <4>3. \E i \in 1 .. Len(Answers) - 1 :
              i = (s - 1) + (k - n) - 1 /\ i + 1 = s + (k - n) - 1
        BY <1>3, <4>1, <4>2, BlockMoves
      <4> QED
        BY <2>1, <4>3
    <3> QED
      BY <2>2, <3>1
  <2>4. AnswerFrom(t, z)' = AnswerFrom(t, s)
    BY <1>1, <1>5, <2>3 DEF AnswerFrom
  <2>5. z \in DOMAIN Answers' /\ Block(t, z)'
    BY <1>5, <2>1
  <2> QED
    BY <2>4, <2>5
<1>6. CASE /\ Answers' = Tail(Answers) /\ Answers # <<>> /\ s = 1
           /\ job'[t].got = Append(job[t].got, Answers[1].value)
           /\ 1 \in DOMAIN Answers' /\ Block(t, 1)'
  <2>1. \A i \in 1 .. Len(Answers) - 1 : Answers'[i] = Answers[i + 1]
    BY <1>2, <1>6, Popped
  <2>2. Answers[1].value \in Value
    <3>1. 1 \in 1 .. Len(Answers)
      BY <1>2, <1>6
    <3>2. Answers[1] \in Beat
      BY <1>2, <3>1, ElementOfSeq
    <3> QED
      BY <3>2 DEF Beat
  <2>3. /\ Len(job'[t].got) = n + 1
        /\ job'[t].got[n + 1] = Answers[1].value
        /\ \A k \in 1 .. n : job'[t].got[k] = job[t].got[k]
    BY <1>0, <1>1, <1>6, <2>2, Pushed
  <2>4. ASSUME NEW k \in 1 .. Beats
        PROVE  (IF k <= Len(job'[t].got) THEN job'[t].got[k]
                ELSE Answers'[1 + (k - Len(job'[t].got)) - 1].value)
             = (IF k <= n THEN job[t].got[k]
                ELSE Answers[s + (k - n) - 1].value)
    <3>1. CASE k <= n
      <4>1. k <= n + 1 /\ k \in 1 .. n
        BY <1>1, <3>1
      <4> QED
        BY <2>3, <3>1, <4>1
    <3>2. CASE k = n + 1
      <4>1. ~(k <= n) /\ k <= n + 1 /\ s + (k - n) - 1 = 1
        BY <1>1, <1>6, <3>2
      <4> QED
        BY <2>3, <3>2, <4>1
    <3>3. CASE k > n + 1
      <4>1. n \in Nat /\ k \in Nat /\ n + 1 < k /\ k <= Beats /\ 1 <= Len(Answers)
        BY <1>1, <1>2, <1>6, <3>3, Sizes
      <4>2. 1 + (Beats - n) - 1 <= Len(Answers)
        BY <1>3, <1>6
      <4>3. PICK i \in 1 .. Len(Answers) - 1 :
              i = 1 + (k - (n + 1)) - 1 /\ i + 1 = 1 + (k - n) - 1
        BY <1>2, <4>1, <4>2, BlockPops
      <4>4. Answers'[i] = Answers[s + (k - n) - 1]
        BY <1>6, <2>1, <4>3
      <4>5. ~(k <= n) /\ ~(k <= n + 1)
        BY <4>1
      <4>6. 1 + (k - Len(job'[t].got)) - 1 = i /\ ~(k <= Len(job'[t].got))
        BY <2>3, <4>3, <4>5
      <4>7. (IF k <= Len(job'[t].got) THEN job'[t].got[k]
             ELSE Answers'[1 + (k - Len(job'[t].got)) - 1].value)
            = Answers'[i].value
        BY <4>6
      <4>8. (IF k <= n THEN job[t].got[k]
             ELSE Answers[s + (k - n) - 1].value)
            = Answers[s + (k - n) - 1].value
        BY <4>5
      <4> QED
        BY <4>4, <4>7, <4>8
    <3> QED
      BY <1>1, <3>1, <3>2, <3>3
  <2>5. AnswerFrom(t, 1)' = AnswerFrom(t, s)
    BY <1>1, <2>4 DEF AnswerFrom
  <2> QED
    BY <1>6, <2>5
<1> QED
  BY <1>4, <1>5, <1>6, CycleBlock

LEMMA CycleAnswer ==
  ASSUME Typed, Typed', StoreInv, NEW r, NEW v, NEW b, NEW ready, NEW pick,
         CycleOf(r, v, b, ready, pick), NEW t \in Tag,
         Phase(t)' = "done"
  PROVE  Answer(t)' = Answer(t)
<1>1. /\ ~Asks(r, t) /\ Phase(t) = "done" /\ job'[t].op = job[t].op
  BY CyclePhase
<1>2. CASE job[t].op # "read"
  BY <1>1, <1>2 DEF Answer
<1>3. CASE job[t].op = "read"
  <2>1. PICK s : Found(t, s)
    BY <1>1, <1>3, FoundIs
  <2>2. PICK z : /\ z \in DOMAIN Answers' /\ Block(t, z)'
                 /\ AnswerFrom(t, z)' = AnswerFrom(t, s)
    BY <1>1, <1>3, <2>1, CycleAnswerFrom DEF Found
  <2>3. ~Asked(t)'
    BY <1>1, <2>1, AskedAfter DEF Found
  <2>4. Found(t, z)'
    BY <1>1, <1>3, <2>2, <2>3 DEF Found
  <2> QED
    BY <2>1, <2>2, <2>4, AnswerIs, AnswerIsNext
<1> QED
  BY <1>2, <1>3

\* A cycle is an exchange.
LEMMA CycleExchanges ==
  ASSUME Typed, Typed', StoreInv, NEW r, NEW v, NEW b, NEW ready, NEW pick,
         CycleOf(r, v, b, ready, pick)
  PROVE  Store!Exchange
<1> DEFINE asked == {t \in Tag : Asks(r, t)}
           answered == {t \in Tag : /\ ~Asks(r, t) /\ Phase(t) = "done"
                                    /\ Phase(t)' = "free"}
<1>1. \A t \in Tag :
        \/ Asks(r, t) /\ Phase(t) = "free" /\ Phase(t)' = "asked"
        \/ ~Asks(r, t) /\ Phase(t) = "done" /\ Phase(t)' = "free"
        \/ /\ ~Asks(r, t) /\ Phase(t)' = Phase(t)
           /\ job'[t].op = job[t].op /\ job'[t].value = job[t].value
  BY CyclePhase
<1>2. \A t \in Tag : Phase(t)' = "done" => Answer(t)' = Answer(t)
  BY CycleAnswer
<1>3. file' = file
  BY CycleRows
<1>4. \A t \in answered : Phase(t) = "done"
  OBVIOUS
<1>5. \A t \in asked : Phase(t) = "free"
  BY <1>1
<1>6. \A t \in Tag : Phase(t)' = IF t \in asked THEN "asked"
                                 ELSE IF t \in answered THEN "free" ELSE Phase(t)
  BY <1>1
<1>7. \A t \in Tag \ (asked \cup answered) :
        job'[t].op = job[t].op /\ job'[t].value = job[t].value
  BY <1>1
<1>8. asked \in SUBSET Tag /\ answered \in SUBSET Tag
  OBVIOUS
<1> HIDE DEF asked, answered
<1> QED
  BY <1>2, <1>3, <1>4, <1>5, <1>6, <1>7, <1>8 DEF Store!Exchange

\* Serving a read is the instant at which it takes effect.
LEMMA DoReadFinds ==
  ASSUME Typed, Typed', StoreInv, DoRead, NEW t, t = Head(Asking).tag
  PROVE  /\ t \in Tag /\ Phase(t) = "asked" /\ Phase(t)' = "done"
         /\ job[t].op = "read" /\ Answer(t)' = file
         /\ \A u \in Tag \ {t} : Phase(u)' = Phase(u)
         /\ UNCHANGED <<job, file>>
<1>1. /\ t \in Tag /\ Asked(t) /\ job[t].op = "read" /\ job[t].got = <<>>
      /\ DOMAIN Answers = 1 .. Len(Answers) /\ Len(Answers) \in Nat
      /\ \A i \in 1 .. Beats :
           Answers'[Len(Answers) + i] = [tag |-> t, value |-> file[i]]
  BY DoReadAnswers
<1>2. /\ UNCHANGED <<job, file, Acked>> /\ Asking # <<>>
      /\ Asking' = Tail(Asking)
  BY DoReadRows
<1>3. \A u \in Tag : Asked(u)' <=> Asked(u) /\ u # t
  BY <1>2, AskingServed
<1>4. Phase(t) = "asked" /\ Phase(t)' = "done"
  BY <1>1, <1>2, <1>3 DEF Phase
<1>5. ASSUME NEW u \in Tag \ {t} PROVE Phase(u)' = Phase(u)
  BY <1>2, <1>3 DEF Phase, In
<1>6. PICK s : s = Len(Answers) + 1
  OBVIOUS
<1>7. s \in DOMAIN Answers' /\ Block(t, s)'
  BY <1>1, <1>6, DoReadBlocks
<1>8. Found(t, s)'
  BY <1>1, <1>2, <1>3, <1>7 DEF Found
<1>9. Answer(t)' = AnswerFrom(t, s)'
  BY <1>8, AnswerIsNext
<1>10. job'[t].got = <<>> /\ Len(job'[t].got) = 0
  BY <1>1, <1>2, EmptySeq
<1>11. ASSUME NEW k \in 1 .. Beats
       PROVE  /\ ~(k <= Len(job'[t].got))
              /\ Answers'[s + (k - Len(job'[t].got)) - 1].value = file[k]
  <2>1. PICK l \in Nat : l = Len(Answers)
    BY <1>1
  <2>2. k \in Nat /\ k > 0
    BY Sizes
  <2>3. ~(k <= 0) /\ s + (k - 0) - 1 = l + k
    BY <1>6, <2>1, <2>2
  <2>4. Answers'[l + k].value = file[k]
    <3>1. Answers'[Len(Answers) + k] = [tag |-> t, value |-> file[k]]
      BY <1>1
    <3>2. Answers'[l + k] = [tag |-> t, value |-> file[k]]
      BY <2>1, <3>1
    <3> QED
      BY <3>2
  <2> QED
    BY <1>10, <2>3, <2>4
<1>12. AnswerFrom(t, s)' = [k \in 1 .. Beats |-> file[k]]
  BY <1>11 DEF AnswerFrom
<1>13. file = [k \in 1 .. Beats |-> file[k]]
  BY DEF Typed, DriverTyped, Sector
<1> QED
  BY <1>1, <1>2, <1>4, <1>5, <1>9, <1>12, <1>13

\* It changes no answer of another read.
LEMMA DoReadLeaves ==
  ASSUME Typed, Typed', StoreInv, DoRead, NEW t, t = Head(Asking).tag,
         NEW u \in Tag, u # t, Phase(u) = "done"
  PROVE  Answer(u)' = Answer(u)
<1>1. /\ UNCHANGED job /\ Phase(u)' = Phase(u)
  BY DoReadFinds
<1>2. CASE job[u].op # "read"
  BY <1>1, <1>2 DEF Answer
<1>3. CASE job[u].op = "read"
  <2>1. PICK s : Found(u, s)
    BY <1>3, FoundIs
  <2>2. s \in DOMAIN Answers' /\ Block(u, s)'
    BY <2>1, DoReadBlocks DEF Found
  <2>3. ~Asked(u)'
    BY <1>1, <1>3 DEF Phase
  <2>4. Found(u, s)'
    BY <1>1, <1>3, <2>2, <2>3 DEF Found
  <2>5. Len(job[u].got) \in Nat /\ Len(job[u].got) < Beats
    BY LenProperties DEF Typed, TargetTyped, Job
  <2>6. /\ DOMAIN Answers = 1 .. Len(Answers) /\ Len(Answers) \in Nat
        /\ \A i \in 1 .. Len(Answers) : Answers'[i] = Answers[i]
    BY DoReadAnswers
  <2>7. ASSUME NEW k \in 1 .. Beats, ~(k <= Len(job[u].got))
        PROVE  s + (k - Len(job[u].got)) - 1 \in 1 .. Len(Answers)
    <3>1. PICK n \in Nat : n = Len(job[u].got)
      BY <2>5
    <3>2. k \in Nat /\ n < k /\ k <= Beats
      BY <2>7, <3>1, Sizes
    <3>3. s \in Nat /\ s > 0
      BY <2>1, <2>6 DEF Found
    <3>4. s + (Beats - n) - 1 <= Len(Answers)
      BY <2>1, <3>1 DEF Found, Block
    <3>5. s + (k - n) - 1 \in 1 .. Len(Answers)
      BY <2>6, <3>2, <3>3, <3>4, BlockHolds
    <3> QED
      BY <3>1, <3>5
  <2>8. AnswerFrom(u, s)' = AnswerFrom(u, s)
    BY <1>1, <2>6, <2>7 DEF AnswerFrom
  <2> QED
    BY <2>1, <2>4, <2>8, AnswerIs, AnswerIsNext
<1> QED
  BY <1>2, <1>3

LEMMA DoReadTakesEffect ==
  ASSUME Typed, Typed', StoreInv, DoRead
  PROVE  \E t \in Tag : Store!TakeEffect(t)
<1>1. PICK t : t = Head(Asking).tag
  OBVIOUS
<1>2. /\ t \in Tag /\ Phase(t) = "asked" /\ Phase(t)' = "done"
      /\ job[t].op = "read" /\ Answer(t)' = file
      /\ \A u \in Tag \ {t} : Phase(u)' = Phase(u)
      /\ UNCHANGED <<job, file>>
  BY <1>1, DoReadFinds
<1>3. \A u \in Tag \ {t} : Phase(u) = "done" => Answer(u)' = Answer(u)
  BY <1>1, DoReadLeaves
<1>4. Store!TakeEffect(t)
  BY <1>2, <1>3 DEF Store!TakeEffect
<1> QED
  BY <1>2, <1>4

\* What the target and the answers decide.
LEMMA KeptAnswers ==
  ASSUME UNCHANGED <<job, Answers>>, NEW u \in Tag,
         job[u].op = "read" => (Asked(u)' <=> Asked(u))
  PROVE  /\ Answer(u)' = Answer(u)
         /\ (In(u, Acked)' <=> In(u, Acked)) => Phase(u)' = Phase(u)
<1>1. First(u)' = First(u)
  BY DEF First
<1>2. Answer(u)' = Answer(u)
  BY <1>1 DEF Answer
<1>3. (In(u, Acked)' <=> In(u, Acked)) => Phase(u)' = Phase(u)
  BY DEF Phase
<1> QED
  BY <1>2, <1>3

\* The last beat of a write is the instant at which it takes effect.
LEMMA HandleDataTakesEffect ==
  ASSUME Typed, StoreInv, HandleData
  PROVE  \/ \E t \in Tag : Store!TakeEffect(t)
         \/ UNCHANGED <<Asking, Answers, Acked, job, file>>
<1>1. PICK t \in Tag :
        /\ job[t].op = "write" /\ ~In(t, Acked)
        /\ UNCHANGED <<Asking, Answers, job>>
        /\ \/ UNCHANGED <<file, Acked>>
           \/ /\ file' = [i \in 1 .. Beats |-> job[t].value]
              /\ Acked' = Append(Acked, t)
  BY HandleDataTakes
<1>2. ASSUME file' = [i \in 1 .. Beats |-> job[t].value],
             Acked' = Append(Acked, t)
      PROVE  Store!TakeEffect(t)
  <2>1. \A u \in Tag : In(u, Acked)' <=> In(u, Acked) \/ u = t
    <3>1. \A u \in Tag : In(u, Append(Acked, t)) <=> In(u, Acked) \/ u = t
      BY RowsTyped, InAppend
    <3> QED
      BY <1>2, <3>1 DEF In
  <2>2. \A u \in Tag : Asked(u)' <=> Asked(u)
    BY <1>1 DEF Asked
  <2>3. \A u \in Tag : Answer(u)' = Answer(u)
    BY <1>1, <2>2, KeptAnswers
  <2>4. \A u \in Tag \ {t} : Phase(u)' = Phase(u)
    BY <1>1, <2>1, <2>2, KeptAnswers
  <2>5. Phase(t) = "asked" /\ Phase(t)' = "done"
    BY <1>1, <2>1 DEF Phase
  <2> QED
    BY <1>1, <1>2, <2>3, <2>4, <2>5 DEF Store!TakeEffect
<1> QED
  BY <1>1, <1>2

\* A write that is served waits for its beats.
LEMMA DoWriteKeeps ==
  ASSUME Typed, StoreInv, DoWrite, NEW u \in Tag
  PROVE  /\ Phase(u)' = Phase(u) /\ Answer(u)' = Answer(u)
         /\ UNCHANGED <<job, file>>
<1>1. /\ Asking # <<>> /\ Asking' = Tail(Asking) /\ Head(Asking).write
      /\ UNCHANGED <<Answers, Acked, job, file>>
  BY DoWriteRows
<1>2. /\ job[Head(Asking).tag].op = "write"
      /\ \A w \in Tag : Asked(w)' <=> Asked(w) /\ w # Head(Asking).tag
  BY <1>1, AskingServed
<1>3. job[u].op = "read" => (Asked(u)' <=> Asked(u))
  BY <1>2
<1>4. In(u, Acked)' <=> In(u, Acked)
  BY <1>1 DEF In
<1> QED
  BY <1>1, <1>3, <1>4, KeptAnswers

\* The variables of the abstract store, in the order of its specification.
StoreVars ==
  <<file,
    [t \in Tag |-> Phase(t)],
    [t \in Tag |-> [i \in 1 .. Beats |-> job[t].value]],
    [t \in Tag |-> job[t].op = "write"],
    [t \in Tag |-> Answer(t)]>>

LEMMA StoreStutters ==
  ASSUME UNCHANGED <<job, file>>,
         \A u \in Tag : Phase(u)' = Phase(u) /\ Answer(u)' = Answer(u)
  PROVE  UNCHANGED StoreVars
BY DEF StoreVars

LEMMA KeptRows ==
  ASSUME UNCHANGED <<Asking, Answers, Acked, job, file>>
  PROVE  UNCHANGED StoreVars
<1>1. ASSUME NEW u \in Tag
      PROVE  Phase(u)' = Phase(u) /\ Answer(u)' = Answer(u)
  <2>1. Asked(u)' <=> Asked(u)
    BY DEF Asked
  <2>2. In(u, Acked)' <=> In(u, Acked)
    BY DEF In
  <2> QED
    BY <2>1, <2>2, KeptAnswers
<1> QED
  BY <1>1, StoreStutters

LEMMA StoreStep ==
  ASSUME Typed, StoreInv, [Next]_vars
  PROVE  [Store!Next]_StoreVars
<1>1. Typed'
  BY TypedStep
<1>2. CASE Cycle
  <2>1. Store!Exchange
    BY <1>1, <1>2, CycleIsOne, CycleExchanges
  <2> QED
    BY <2>1 DEF Store!Next
<1>3. CASE DoRead
  <2>1. \E t \in Tag : Store!TakeEffect(t)
    BY <1>1, <1>3, DoReadTakesEffect
  <2> QED
    BY <2>1 DEF Store!Next
<1>4. CASE DoWrite
  BY <1>4, DoWriteRows, DoWriteKeeps, StoreStutters
<1>5. CASE HandleData
  <2>1. CASE \E t \in Tag : Store!TakeEffect(t)
    BY <2>1 DEF Store!Next
  <2>2. CASE UNCHANGED <<Asking, Answers, Acked, job, file>>
    BY <2>2, KeptRows
  <2> QED
    BY <1>5, <2>1, <2>2, HandleDataTakesEffect
<1>6. CASE SendAck \/ SendBeat \/ TakeRequest \/ TakeBeat \/ Turns
           \/ UNCHANGED vars
  BY <1>6, PassingKeeps, KeptRows DEF rows
<1> QED
  BY <1>2, <1>3, <1>4, <1>5, <1>6, DriverIs

LEMMA StoreInit == Init => Store!Init
<1> SUFFICES ASSUME Init PROVE Store!Init
  OBVIOUS
<1>1. \A t \in Tag : job[t].op = "free" /\ job[t].value \in Value
  BY Sizes, FreshIs DEF Init
<1>2. \A t \in Tag : Phase(t) = "free"
  BY <1>1, PhaseIs
<1>3. file = [i \in 1 .. Beats |-> Zero]
  BY DEF Init
<1>4. [t \in Tag |-> [i \in 1 .. Beats |-> job[t].value]] \in [Tag -> Sector]
  BY <1>1 DEF Sector
<1>5. [t \in Tag |-> job[t].op = "write"] \in [Tag -> BOOLEAN]
  OBVIOUS
<1> QED
  BY <1>2, <1>3, <1>4, <1>5 DEF Store!Init

\* The bridge implements the atomic store: a transaction of the target takes
\* effect at one instant between its request and its response, when the driver
\* reads the file or writes the last beat to it, and a read returns the whole
\* sector as it is at that instant, whatever the widget, the driver and the
\* target do in between.
THEOREM ActsAsStoreAlways == Spec => ActsAsStore
<1>1. Init => Store!Init
  BY StoreInit
<1>2. Typed /\ StoreInv /\ [Next]_vars => [Store!Next]_StoreVars
  BY StoreStep
<1> QED
  BY <1>1, <1>2, StoreInvAlways, PTL
     DEF Spec, ActsAsStore, Store!BlockStoreSpec, StoreVars

=============================================================================
