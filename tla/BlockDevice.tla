---------------------------- MODULE BlockDevice ----------------------------
(***************************************************************************)
(* The block device bridge: the widget on the FPGA                         *)
(* (BlockDeviceBridgeModule.scala), which exchanges one token per target   *)
(* cycle with the simulated design and may stall it, and the driver on the *)
(* host (blockdev.cc), which polls the widget's registers and serves the   *)
(* requests from a file.  Every register access of the driver is a step,   *)
(* so target cycles fall between any two of them.                          *)
(*                                                                         *)
(* The latencies are programmable: a transaction whose latency has begun   *)
(* may be due at any later cycle, in order within its pipe.  The disk is   *)
(* one sector, of Beats beats.  The target is reset before the first       *)
(* request and never after it.                                             *)
(***************************************************************************)
EXTENDS Naturals, FiniteSets, Sequences

CONSTANTS
  Tag,        \* the trackers
  Value,      \* what a beat may hold
  Zero,       \* what the file holds at first
  Beats,      \* beats of a transaction
  ReqDepth,   \* of reqBuf (10 in the widget)
  DataDepth,  \* of dataBuf (32)
  RespDepth,  \* of rRespBuf (32)
  AckDepth,   \* of wAckBuf (4)
  SameCycle   \* whether the target sends a first beat along with its request

ASSUME BlockDeviceAssumption ==
  /\ {Beats, ReqDepth, DataDepth, RespDepth, AckDepth} \subseteq Nat \ {0}
  /\ Zero \in Value
  /\ SameCycle \in BOOLEAN

VARIABLES
  \* the design under simulation
  job,       \* per tag: its transaction
  \* the widget
  reqBuf, dataBuf, rRespBuf, wAckBuf,
  count,     \* per tag: write beats still to come (wBeatCounters)
  valid,     \* per tag: whether they are expected (wValid)
  writesDue, readsDue,   \* transactions in the two latency pipes
  returnWrite,           \* an acknowledgement is being returned
  beatsLeft,             \* of the read being returned (readRespBeatsLeft)
  alarm,     \* whether an assertion of the widget has failed
  \* the driver
  file,
  pc,        \* where tick() is
  requests, reqData, responses, acks,
  tracker,   \* per tag: the beats of a write so far, and how many are to come
  pending    \* resp_data_pending

target == <<job>>
widget == <<reqBuf, dataBuf, rRespBuf, wAckBuf, count, valid, writesDue,
            readsDue, returnWrite, beatsLeft, alarm>>
driver == <<file, pc, requests, reqData, responses, acks, tracker, pending>>
vars == <<target, widget, driver>>

Request == [tag : Tag, write : BOOLEAN]
Beat == [tag : Tag, value : Value]
Sector == [1 .. Beats -> Value]
Op == {"free", "read", "write"}

\* sent counts the beats of a write that left, got holds those of a read.
Fresh == [op |-> "free", value |-> Zero, sent |-> 0, got |-> <<>>]

Init ==
  /\ job = [t \in Tag |-> Fresh]
  /\ reqBuf = <<>> /\ dataBuf = <<>> /\ rRespBuf = <<>> /\ wAckBuf = <<>>
  /\ count = [t \in Tag |-> 0] /\ valid = [t \in Tag |-> FALSE]
  /\ writesDue = 0 /\ readsDue = 0 /\ alarm = FALSE
  /\ returnWrite = FALSE /\ beatsLeft = 0
  /\ file = [i \in 1 .. Beats |-> Zero]
  /\ pc = "rest"
  /\ requests = <<>> /\ reqData = <<>> /\ responses = <<>> /\ acks = <<>>
  /\ tracker = [t \in Tag |-> [data |-> <<>>, size |-> 0]]
  /\ pending = FALSE

-----------------------------------------------------------------------------
\* A target cycle.

\* The widget fires only with room for what may come and with the response
\* that is due at hand: otherwise the target waits.
RespStalled == beatsLeft # 0 /\ rRespBuf = <<>>
AckStalled == returnWrite /\ wAckBuf = <<>>
Fires ==
  /\ Len(reqBuf) < ReqDepth /\ Len(dataBuf) < DataDepth
  /\ ~RespStalled /\ ~AckStalled

\* In a cycle the target may send one request, for a free tag, and one beat, of
\* a write requested before, or along with it: sets of at most one element.
AtMostOne(S) == {{}} \cup {{x} : x \in S}
Queued(S) == IF S = {} THEN <<>> ELSE <<CHOOSE x \in S : TRUE>>
Requests == AtMostOne({q \in Request : job[q.tag].op = "free"})
Asks(r, t) == \E q \in r : q.tag = t
AsksWrite(r, t) == [tag |-> t, write |-> TRUE] \in r
CanSend(t, r) ==
  \/ job[t].op = "write" /\ job[t].sent < Beats
  \/ SameCycle /\ AsksWrite(r, t)

\* The job of t after a cycle with request r of value v, beat b, and a response
\* (a sequence of at most one) that is an acknowledgement or a beat.
Advance(t, r, v, b, response) ==
  LET asked == IF Asks(r, t)
               THEN [Fresh EXCEPT !.op = IF AsksWrite(r, t) THEN "write"
                                         ELSE "read",
                                  !.value = v]
               ELSE job[t]
      sent == IF t \in b THEN [asked EXCEPT !.sent = @ + 1] ELSE asked
  IN IF response = <<>> \/ response[1].tag # t THEN sent
     ELSE IF returnWrite \/ Len(sent.got) + 1 = Beats THEN Fresh
     ELSE [sent EXCEPT !.got = Append(@, response[1].value)]

\* The beat counter of t: wDone, wReqFire, wDataFire in that order.  A counter
\* keeps its 1 when its write is complete.
WriteDone(t, b) == t \in b /\ count[t] = 1

\* Mutant: the counter always takes the first beat for sent.
NextCountShort(t, r, b) ==
  IF WriteDone(t, b) THEN count[t]
  ELSE IF AsksWrite(r, t) THEN Beats - 1
  ELSE IF t \in b THEN count[t] - 1 ELSE count[t]

NextCount(t, r, b) ==
  IF WriteDone(t, b) THEN count[t]
  ELSE IF AsksWrite(r, t) THEN IF t \in b THEN Beats - 1 ELSE Beats
  ELSE IF t \in b THEN count[t] - 1 ELSE count[t]

NextValid(t, r, b) == ~WriteDone(t, b) /\ (valid[t] \/ AsksWrite(r, t))

Unallocated(t, r, b) ==
  t \in b /\ ~valid[t] /\ (WriteDone(t, b) \/ ~AsksWrite(r, t))

\* The scheduler: with the response at an end, or none, it takes up what is
\* due, a write first.  Whether a transaction is due depends on its latency.
Idle == ~returnWrite /\ beatsLeft = 0
AtEnd(ready) == Idle \/ (ready /\ (returnWrite \/ beatsLeft = 1))
Picks ==
  {"none"} \cup {p \in {"write"} : writesDue > 0}
           \cup {p \in {"read"} : readsDue > 0}

\* One token in each direction.
TargetCycle(r, v, b, ready, pick) ==
  LET response == IF Idle \/ ~ready THEN <<>>
                  ELSE IF returnWrite THEN <<[tag |-> Head(wAckBuf)]>>
                  ELSE <<Head(rRespBuf)>>
      picked == IF AtEnd(ready) THEN pick ELSE "none"
      value(t) == IF job[t].op = "free" THEN v ELSE job[t].value
  IN
  /\ Fires
  /\ job' = [t \in Tag |-> Advance(t, r, v, b, response)]
  /\ reqBuf' = reqBuf \o Queued(r)
  /\ dataBuf' = dataBuf \o Queued({[tag |-> t, value |-> value(t)] : t \in b})
  /\ rRespBuf' = IF response # <<>> /\ ~returnWrite THEN Tail(rRespBuf)
                 ELSE rRespBuf
  /\ wAckBuf' = IF response # <<>> /\ returnWrite THEN Tail(wAckBuf)
                ELSE wAckBuf
  /\ count' = [t \in Tag |-> NextCount(t, r, b)]
  /\ valid' = [t \in Tag |-> NextValid(t, r, b)]
  /\ alarm' = (alarm \/ \E t \in Tag : Unallocated(t, r, b))
  /\ writesDue' = writesDue + Cardinality({t \in b : WriteDone(t, b)})
                            - Cardinality({picked} \cap {"write"})
  /\ readsDue' = readsDue + Cardinality({q \in r : ~q.write})
                          - Cardinality({picked} \cap {"read"})
  /\ returnWrite' = IF AtEnd(ready) THEN pick = "write" ELSE returnWrite
  /\ beatsLeft' = IF AtEnd(ready) THEN IF pick = "read" THEN Beats ELSE 0
                  ELSE IF ~returnWrite /\ ready THEN beatsLeft - 1
                  ELSE beatsLeft
  /\ UNCHANGED driver

CycleWith(beats, readies, picks) ==
  \E r \in Requests, v \in Value, ready \in readies, pick \in picks :
    \E b \in beats[r] :
      /\ (\A q \in r : ~q.write) => v = Zero
      /\ TargetCycle(r, v, b, ready, pick)

AnyBeat == [r \in Requests |-> AtMostOne({t \in Tag : CanSend(t, r)})]

Cycle == CycleWith(AnyBeat, BOOLEAN, Picks)

-----------------------------------------------------------------------------
\* The driver.  tick() returns at once when there is nothing to do; else it
\* sends what is left over, receives, serves, and sends.

Go(to) == pc' = to

Tick ==
  /\ pc = "rest"
  /\ pending \/ reqBuf # <<>> \/ dataBuf # <<>>
  /\ Go(IF pending THEN "send_acks" ELSE "recv_requests")
  /\ UNCHANGED <<target, widget, file, requests, reqData, responses, acks,
                 tracker, pending>>

\* send(), first for what the last tick left over, then at the end of the tick.
SendAck ==
  /\ pc \in {"send_acks", "last_acks"}
  /\ acks # <<>> /\ Len(wAckBuf) < AckDepth
  /\ wAckBuf' = Append(wAckBuf, Head(acks))
  /\ acks' = Tail(acks)
  /\ UNCHANGED <<target, reqBuf, dataBuf, rRespBuf, count, valid, writesDue,
                 readsDue, returnWrite, beatsLeft, alarm, file, pc, requests, reqData,
                 responses, tracker, pending>>

AcksSent ==
  /\ pc \in {"send_acks", "last_acks"}
  /\ acks = <<>> \/ Len(wAckBuf) = AckDepth
  /\ Go(IF pc = "send_acks" THEN "send_data" ELSE "last_data")
  /\ UNCHANGED <<target, widget, file, requests, reqData, responses, acks,
                 tracker, pending>>

\* Mutant: rdata_ready is not read.
SendBeatBlind ==
  /\ pc \in {"send_data", "last_data"}
  /\ responses # <<>>
  /\ rRespBuf' = Append(rRespBuf, Head(responses))
  /\ responses' = Tail(responses)
  /\ UNCHANGED <<target, reqBuf, dataBuf, wAckBuf, count, valid, writesDue,
                 readsDue, returnWrite, beatsLeft, alarm, file, pc, requests, reqData, acks,
                 tracker, pending>>

SendBeat ==
  /\ pc \in {"send_data", "last_data"}
  /\ responses # <<>> /\ Len(rRespBuf) < RespDepth
  /\ rRespBuf' = Append(rRespBuf, Head(responses))
  /\ responses' = Tail(responses)
  /\ UNCHANGED <<target, reqBuf, dataBuf, wAckBuf, count, valid, writesDue,
                 readsDue, returnWrite, beatsLeft, alarm, file, pc, requests, reqData, acks,
                 tracker, pending>>

\* Mutant: the driver waits until the widget has taken all beats.
DataSentWaits ==
  /\ pc \in {"send_data", "last_data"}
  /\ responses = <<>> \/ Len(rRespBuf) = RespDepth
  /\ pending' = (responses # <<>> \/ acks # <<>>)
  /\ Go(IF responses # <<>> THEN pc
        ELSE IF pc = "send_data" THEN "recv_requests" ELSE "rest")
  /\ UNCHANGED <<target, widget, file, requests, reqData, responses, acks,
                 tracker>>

DataSent ==
  /\ pc \in {"send_data", "last_data"}
  /\ responses = <<>> \/ Len(rRespBuf) = RespDepth
  /\ pending' = (responses # <<>> \/ acks # <<>>)
  /\ Go(IF pc = "send_data" THEN "recv_requests" ELSE "rest")
  /\ UNCHANGED <<target, widget, file, requests, reqData, responses, acks,
                 tracker>>

\* recv(): all requests that are there, then all beats.
TakeRequest ==
  /\ pc = "recv_requests"
  /\ reqBuf # <<>>
  /\ requests' = Append(requests, Head(reqBuf))
  /\ reqBuf' = Tail(reqBuf)
  /\ UNCHANGED <<target, dataBuf, rRespBuf, wAckBuf, count, valid, writesDue,
                 readsDue, returnWrite, beatsLeft, alarm, file, pc, reqData, responses, acks,
                 tracker, pending>>

RequestsTaken ==
  /\ pc = "recv_requests"
  /\ reqBuf = <<>>
  /\ Go("recv_data")
  /\ UNCHANGED <<target, widget, file, requests, reqData, responses, acks,
                 tracker, pending>>

TakeBeat ==
  /\ pc = "recv_data"
  /\ dataBuf # <<>>
  /\ reqData' = Append(reqData, Head(dataBuf))
  /\ dataBuf' = Tail(dataBuf)
  /\ UNCHANGED <<target, reqBuf, rRespBuf, wAckBuf, count, valid, writesDue,
                 readsDue, returnWrite, beatsLeft, alarm, file, pc, requests, responses, acks,
                 tracker, pending>>

BeatsTaken ==
  /\ pc = "recv_data"
  /\ dataBuf = <<>>
  /\ Go("serve")
  /\ UNCHANGED <<target, widget, file, requests, reqData, responses, acks,
                 tracker, pending>>

\* do_read: the whole sector at once, queued beat by beat.
DoRead ==
  /\ pc = "serve" /\ requests # <<>> /\ ~Head(requests).write
  /\ responses' = responses \o
       [i \in 1 .. Beats |-> [tag |-> Head(requests).tag, value |-> file[i]]]
  /\ requests' = Tail(requests)
  /\ UNCHANGED <<target, widget, file, pc, reqData, acks, tracker, pending>>

\* do_write: a tracker for the beats to come.
DoWrite ==
  /\ pc = "serve" /\ requests # <<>> /\ Head(requests).write
  /\ tracker' = [tracker EXCEPT ![Head(requests).tag] =
                                  [data |-> <<>>, size |-> Beats]]
  /\ requests' = Tail(requests)
  /\ UNCHANGED <<target, widget, file, pc, reqData, responses, acks, pending>>

Served ==
  /\ pc = "serve" /\ requests = <<>>
  /\ Go("handle")
  /\ UNCHANGED <<target, widget, file, requests, reqData, responses, acks,
                 tracker, pending>>

\* can_accept: a beat whose request was not served yet waits.
CanAccept == reqData # <<>> /\ tracker[Head(reqData).tag].size > 0

\* Mutant: every beat is written to the file as it comes.
HandleDataInPlace ==
  /\ pc = "handle" /\ CanAccept
  /\ LET t == Head(reqData).tag
         data == Append(tracker[t].data, Head(reqData).value)
     IN /\ file' = [file EXCEPT ![Len(data)] = Head(reqData).value]
        /\ IF Len(data) < tracker[t].size
           THEN /\ tracker' = [tracker EXCEPT ![t].data = data]
                /\ UNCHANGED acks
           ELSE /\ tracker' = [tracker EXCEPT ![t] = [data |-> <<>>, size |-> 0]]
                /\ acks' = Append(acks, t)
  /\ reqData' = Tail(reqData)
  /\ UNCHANGED <<target, widget, pc, requests, responses, pending>>

\* handle_data: the last beat writes the sector and queues the acknowledgement.
HandleData ==
  /\ pc = "handle" /\ CanAccept
  /\ LET t == Head(reqData).tag
         data == Append(tracker[t].data, Head(reqData).value)
     IN IF Len(data) < tracker[t].size
        THEN /\ tracker' = [tracker EXCEPT ![t].data = data]
             /\ UNCHANGED <<file, acks>>
        ELSE /\ file' = data
             /\ tracker' = [tracker EXCEPT ![t] = [data |-> <<>>, size |-> 0]]
             /\ acks' = Append(acks, t)
  /\ reqData' = Tail(reqData)
  /\ UNCHANGED <<target, widget, pc, requests, responses, pending>>

Handled ==
  /\ pc = "handle" /\ ~CanAccept
  /\ Go("last_acks")
  /\ UNCHANGED <<target, widget, file, requests, reqData, responses, acks,
                 tracker, pending>>

Driver ==
  \/ Tick \/ SendAck \/ AcksSent \/ SendBeat \/ DataSent
  \/ TakeRequest \/ RequestsTaken \/ TakeBeat \/ BeatsTaken
  \/ DoRead \/ DoWrite \/ Served \/ HandleData \/ Handled

Next == Cycle \/ Driver

Spec == Init /\ [][Next]_vars

\* The simulation loop calls tick() for ever; the target takes responses and
\* sends the beats it owes again and again; every latency ends, and a due
\* transaction gets its turn.
Responds == CycleWith(AnyBeat, {TRUE}, Picks)
TakesUp(kind) ==
  AtEnd(TRUE) /\ CycleWith(AnyBeat, {TRUE}, Picks \cap {kind})
Sends(t) ==
  LET own == [r \in Requests |-> IF CanSend(t, r) THEN {{t}} ELSE {}]
  IN CycleWith(own, BOOLEAN, Picks)

FairSpec ==
  /\ Spec
  /\ WF_vars(Driver)
  /\ SF_vars(Responds)
  /\ SF_vars(TakesUp("write"))
  /\ SF_vars(TakesUp("read"))
  /\ \A t \in Tag : SF_vars(Sends(t))

-----------------------------------------------------------------------------
\* Properties

TypeOK ==
  /\ \A t \in Tag :
       /\ job[t].op \in Op /\ job[t].value \in Value
       /\ job[t].sent \in 0 .. Beats /\ Len(job[t].got) < Beats
       /\ tracker[t].size \in {0, Beats} /\ Len(tracker[t].data) <= Beats
       /\ count[t] \in 0 .. Beats /\ valid[t] \in BOOLEAN
  /\ reqBuf \in Seq(Request) /\ Len(reqBuf) <= ReqDepth
  /\ dataBuf \in Seq(Beat) /\ Len(dataBuf) <= DataDepth
  /\ rRespBuf \in Seq(Beat) /\ Len(rRespBuf) <= RespDepth
  /\ wAckBuf \in Seq(Tag) /\ Len(wAckBuf) <= AckDepth
  /\ returnWrite \in BOOLEAN /\ beatsLeft \in 0 .. Beats
  /\ file \in Sector
  /\ {alarm, pending} \subseteq BOOLEAN

\* The transactions of the target are those of an atomic store: a read returns
\* one whole content of the sector, none of it older than what was acknowledged
\* before the read was asked, and no answer goes to another transaction.
In(t, q) == \E i \in DOMAIN q : q[i] = t
Asking == requests \o reqBuf       \* oldest first
Answers == rRespBuf \o responses
Acked == wAckBuf \o acks

Asked(t) == \E i \in DOMAIN Asking : Asking[i].tag = t
Phase(t) ==
  CASE job[t].op = "free" -> "free"
    [] job[t].op = "read" -> IF Asked(t) THEN "asked" ELSE "done"
    [] OTHER -> IF In(t, Acked) THEN "done" ELSE "asked"

\* What a read that was served has got, and what is on its way to it.
First(t) ==
  CHOOSE i \in DOMAIN Answers :
    Answers[i].tag = t /\ \A j \in 1 .. i - 1 : Answers[j].tag # t
Answer(t) ==
  IF job[t].op # "read" \/ Asked(t) THEN <<>>
  ELSE LET n == Len(job[t].got) IN
       [k \in 1 .. Beats |-> IF k <= n THEN job[t].got[k]
                             ELSE Answers[First(t) + (k - n) - 1].value]

Store == INSTANCE BlockStore WITH
  Content <- Sector,
  Blank <- [i \in 1 .. Beats |-> Zero],
  store <- file,
  phase <- [t \in Tag |-> Phase(t)],
  writing <- [t \in Tag |-> job[t].op = "write"],
  order <- [t \in Tag |-> [i \in 1 .. Beats |-> job[t].value]],
  answer <- [t \in Tag |-> Answer(t)]

ActsAsStore == Store!BlockStoreSpec

\* No beat arrives for a tracker that expects none (the widget's assertion
\* "Write data received for unallocated tracker").
DataIsExpected == ~alarm

\* Every transaction ends: a full buffer, a stall of the target for a response
\* and the driver's early return never wait for each other.
TransactionsEnd == \A t \in Tag : (job[t].op # "free") ~> (job[t].op = "free")
=============================================================================
