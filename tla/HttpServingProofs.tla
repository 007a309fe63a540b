-------------------------- MODULE HttpServingProofs --------------------------
(* Proofs about HttpServing, for any requests, however they are split, any    *)
(* sizes of chunk, response and send buffer, both clients and both loops.     *)
EXTENDS HttpServing, TLAPS

Events == (SUBSET {"IN", "OUT", "HUP"}) \ {{}}

EventTypes == /\ tasks \in Seq(Events)
              /\ pc \in {"idle", "reading", "writing", "hangup"}
              /\ mask \in {"IN", "OUT"} /\ edge \in BOOLEAN
              /\ link \in {"up", "fin", "broken", "closed"}

\* What the handler thread does is what the first task says; a task is for
\* reading or for writing, and a hang-up is of a connection that broke.
Dispatch == /\ pc # "idle" => tasks # <<>>
            /\ pc = "reading" => "IN" \in tasks[1]
            /\ pc = "writing" => "OUT" \in tasks[1]
            /\ pc = "hangup" => link \in {"broken", "closed"}
            /\ \A k \in 1..Len(tasks) : ~({"IN", "OUT"} \subseteq tasks[k])
            /\ \A k \in 1..Len(tasks) : "HUP" \in tasks[k] => link \in {"broken", "closed"}

\* A task for writing that is not begun yet, or is being run.
WriteDue == \E k \in 1..Len(tasks) : "OUT" \in tasks[k] /\ (k > 1 \/ pc # "reading")

\* NoResponseForgotten, with the event that will be about the response: while
\* the descriptor is registered for writing there is one, or the send buffer is
\* full.
Armed == /\ response_queue_ # <<>> => mask = "OUT"
         /\ mask = "OUT" /\ link \in {"up", "fin"} => edge \/ Len(snd) = SendBuffer \/ WriteDue

EventInv == EventTypes /\ Dispatch /\ Armed

-----------------------------------------------------------------------------
StreamTypes == /\ unsent \in Seq(Wire) /\ rcv \in Seq(Wire) /\ read_buffer_ \in Seq(Wire)
               /\ handled \in Seq(Seq(Wire))

\* How many bytes of Input were consumed, and how many the client has sent.
Consumed == Start[Len(handled) + 1]
Reached == Len(Input) - Len(unsent)

\* read_buffer_, rcv and unsent are Input from where the last request ended,
\* until the connection breaks and takes what was under way.
InStream == /\ Len(handled) <= Len(Bodies)
            /\ Consumed + Len(read_buffer_) <= Len(Input)
            /\ \A k \in 1..Len(read_buffer_) : read_buffer_[k] = Input[Consumed + k]
            /\ Len(unsent) <= Len(Input)
            /\ \A k \in 1..Len(unsent) : unsent[k] = Input[Reached + k]
            /\ IF link \in {"up", "fin"}
                 THEN /\ Reached = Consumed + Len(read_buffer_) + Len(rcv)
                      /\ \A k \in 1..Len(rcv) : rcv[k] = Input[Consumed + Len(read_buffer_) + k]
                 ELSE rcv = <<>>

StreamInv == StreamTypes /\ InStream /\ FramingExact

QueueTypes == /\ response_queue_ \in Seq(Requests)
              /\ got \in Seq(Units) /\ snd \in Seq(Units)
              /\ Len(snd) <= SendBuffer

\* The queue is what was handled and not taken from it yet, in order.
Taken == Len(handled) - Len(response_queue_)
InTurn == /\ Len(response_queue_) <= Len(handled)
          /\ \A k \in 1..Len(response_queue_) : response_queue_[k] = Taken + k

QueueInv == QueueTypes /\ InTurn

Inv == EventInv /\ StreamInv /\ QueueInv

-----------------------------------------------------------------------------
\* The send buffer has room: for a response when the client waits for each, for
\* all of them when it pipelines.
AnswersFit == /\ ResponseLen <= SendBuffer
              /\ TRUE \in Clients => ResponseLen * Len(Bodies) <= SendBuffer

\* The client has, or is about to receive, the responses taken from the queue,
\* unit by unit.  (ResponsesInOrder with products in place of quotients.)
OnWire == /\ Len(got) + Len(snd) = Taken * ResponseLen
          /\ \A i \in 1..Taken, r \in 1..ResponseLen :
               (got \o snd)[(i - 1) * ResponseLen + r] = <<i, r>>

\* A client that waits is at most one request ahead of what was handled, and at
\* most one response behind.
Waits == ~pipelining =>
           /\ Len(got) + ResponseLen >= Len(handled) * ResponseLen
           /\ link \in {"up", "fin"} =>
                \/ Reached = Consumed
                \/ /\ Len(handled) < Len(Bodies)
                   /\ Consumed < Reached /\ Reached <= Start[Len(handled) + 2]
                   /\ Len(got) = Len(handled) * ResponseLen

OrderInv == pipelining \in Clients /\ OnWire /\ Waits

-----------------------------------------------------------------------------
(* Sequences                                                                  *)

\* Concatenation.
LEMMA Concatenation ==
  ASSUME NEW S, NEW s \in Seq(S), NEW t \in Seq(S)
  PROVE  /\ s \o t \in Seq(S)
         /\ Len(s \o t) = Len(s) + Len(t)
         /\ \A i \in 1..Len(s) : (s \o t)[i] = s[i]
         /\ \A i \in 1..Len(t) : (s \o t)[Len(s) + i] = t[i]
OBVIOUS

\* What send and recv take of a buffer, and what they leave.
LEMMA Slices ==
  ASSUME NEW S, NEW s \in Seq(S), NEW n \in 0..Len(s)
  PROVE  /\ SubSeq(s, 1, n) \in Seq(S) /\ Len(SubSeq(s, 1, n)) = n
         /\ \A i \in 1..n : SubSeq(s, 1, n)[i] = s[i]
         /\ SubSeq(s, n + 1, Len(s)) \in Seq(S) /\ Len(SubSeq(s, n + 1, Len(s))) = Len(s) - n
         /\ \A i \in 1..Len(s) - n : SubSeq(s, n + 1, Len(s))[i] = s[n + i]
OBVIOUS

\* Append.
LEMMA Appending ==
  ASSUME NEW S, NEW s \in Seq(S), NEW e \in S
  PROVE  /\ Append(s, e) \in Seq(S)
         /\ Len(Append(s, e)) = Len(s) + 1 /\ Append(s, e) # <<>>
         /\ \A i \in 1..Len(s) : Append(s, e)[i] = s[i]
         /\ Append(s, e)[Len(s) + 1] = e
OBVIOUS

\* The first element and the others.
LEMMA Tailing ==
  ASSUME NEW S, NEW s \in Seq(S), s # <<>>
  PROVE  /\ Len(s) \in Nat \ {0} /\ Head(s) = s[1] /\ s[1] \in S
         /\ Tail(s) \in Seq(S) /\ Len(Tail(s)) = Len(s) - 1
         /\ \A i \in 1..Len(s) - 1 : Tail(s)[i] = s[i + 1]
OBVIOUS

-----------------------------------------------------------------------------
(* The bytes of a request                                                     *)

\* A request has its header line, its blank line and its body.
LEMMA RequestBytes ==
  ASSUME NEW i \in Requests
  PROVE  /\ Bodies[i] \in Nat /\ Bytes(i) \in Seq(Wire) /\ Len(Bytes(i)) = 2 + Bodies[i]
         /\ Bytes(i)[1] = Byte(i, IF Bodies[i] > 0 THEN "length" ELSE "line")
         /\ Bytes(i)[2] = Byte(i, "blank")
         /\ \A k \in 1..2 + Bodies[i] : Bytes(i)[k].req = i
<1>1. Bodies[i] \in Nat
  BY HttpServingAssumption DEF Requests
<1> DEFINE a == Byte(i, IF Bodies[i] > 0 THEN "length" ELSE "line")
           b == Byte(i, "blank")
           c == Byte(i, "body")
           h == <<a, b>>
           t == [k \in 1..Bodies[i] |-> c]
<1>2. a \in Wire /\ b \in Wire /\ c \in Wire /\ a.req = i /\ b.req = i /\ c.req = i
  BY DEF Byte, Wire
<1>3. Bytes(i) = h \o t
  BY DEF Bytes
<1> HIDE DEF a, b, c
<1>4. h \in Seq(Wire) /\ Len(h) = 2 /\ h[1] = a /\ h[2] = b
  BY <1>2
<1>5. t \in Seq(Wire) /\ Len(t) = Bodies[i] /\ \A k \in 1..Bodies[i] : t[k] = c
  BY <1>1, <1>2
<1> HIDE DEF h, t
<1>6. /\ Bytes(i) \in Seq(Wire) /\ Len(Bytes(i)) = 2 + Bodies[i]
      /\ \A k \in 1..2 : Bytes(i)[k] = h[k]
      /\ \A k \in 1..Bodies[i] : Bytes(i)[2 + k] = t[k]
  <2>1. h \in Seq(Wire) /\ t \in Seq(Wire)
    BY <1>4, <1>5
  <2>2. /\ h \o t \in Seq(Wire) /\ Len(h \o t) = Len(h) + Len(t)
        /\ \A k \in 1..Len(h) : (h \o t)[k] = h[k]
        /\ \A k \in 1..Len(t) : (h \o t)[Len(h) + k] = t[k]
    BY <2>1, Concatenation
  <2> QED
    BY <1>3, <1>4, <1>5, <2>2
<1>7. ASSUME NEW k \in 1..2 + Bodies[i] PROVE Bytes(i)[k].req = i
  <2>1. CASE k \in 1..2
    BY <1>2, <1>4, <1>6, <2>1
  <2>2. CASE k \notin 1..2
    <3>1. k - 2 \in 1..Bodies[i] /\ 2 + (k - 2) = k
      BY <1>1, <2>2
    <3> QED
      BY <1>2, <1>5, <1>6, <3>1
  <2> QED
    BY <2>1, <2>2
<1> QED
  BY <1>1, <1>4, <1>6, <1>7 DEF a, b

\* Where the bytes of request i are in Input.
LEMMA InputBytes ==
  ASSUME NEW i \in Requests
  PROVE  /\ Start[i] \in Nat /\ Start[i + 1] = Start[i] + 2 + Bodies[i]
         /\ \A k \in 1..2 + Bodies[i] : Input[Start[i] + k] = Bytes(i)[k]
         /\ SubSeq(Input, Start[i] + 1, Start[i + 1]) = Bytes(i)
<1>0. Len(Bodies) \in Nat /\ i \in 1..Len(Bodies) + 1
  BY HttpServingAssumption DEF Requests
<1>1. /\ Start[i] \in Nat /\ Start[i + 1] = Start[i] + 2 + Bodies[i]
      /\ SubSeq(Input, Start[i] + 1, Start[i + 1]) = Bytes(i)
      /\ Input \in Seq(Wire)
  BY <1>0, InputAssumption
<1>2. Bodies[i] \in Nat
  BY RequestBytes
<1>3. ASSUME NEW k \in 1..2 + Bodies[i] PROVE Input[Start[i] + k] = Bytes(i)[k]
  <2> DEFINE a == Start[i]  b == Start[i + 1]
  <2>1. a \in Nat /\ b \in Nat /\ k \in 1..b - a
    BY <1>1, <1>2
  <2>2. SubSeq(Input, a + 1, b)[k] = Input[a + k]
    <3> HIDE DEF a, b
    <3> QED
      BY <1>1, <2>1
  <2> QED
    BY <1>1, <2>2
<1> QED
  BY <1>1, <1>3

\* Phase 2 of OnReadable: in a buffer that holds the stream from the start of a
\* request on, the blank line is found and the length is that of the request.
LEMMA LengthFound ==
  ASSUME NEW i \in Requests, NEW buf \in Seq(Wire), Len(buf) >= 2,
         \A k \in 1..Len(buf) : buf[k] = Input[Start[i] + k]
  PROVE  /\ HeaderEnds(buf) # {} /\ buf # <<>> /\ Head(buf).req = i
         /\ RequestLen(buf) = 2 + Bodies[i]
<1>1. /\ Bodies[i] \in Nat
      /\ \A k \in 1..2 + Bodies[i] : Input[Start[i] + k] = Bytes(i)[k]
      /\ Bytes(i)[1] = Byte(i, IF Bodies[i] > 0 THEN "length" ELSE "line")
      /\ Bytes(i)[2] = Byte(i, "blank")
  BY RequestBytes, InputBytes
<1>2. /\ buf[1] = Byte(i, IF Bodies[i] > 0 THEN "length" ELSE "line")
      /\ buf[2] = Byte(i, "blank")
  <2>0. Bodies[i] \in Nat /\ Len(buf) \in Nat
    BY <1>1
  <2>1. 1 \in 1..2 + Bodies[i] /\ 2 \in 1..2 + Bodies[i] /\ 1 \in 1..Len(buf) /\ 2 \in 1..Len(buf)
    BY <2>0
  <2>2. buf[1] = Bytes(i)[1] /\ buf[2] = Bytes(i)[2]
    BY <1>1, <2>1
  <2> QED
    BY <1>1, <2>2
<1>3. Head(buf).req = i /\ buf # <<>>
  BY <1>2 DEF Byte
<1>4. HeaderEnd(buf) = 2 /\ HeaderEnds(buf) # {}
  <2>1. 2 \in HeaderEnds(buf) /\ 1 \notin HeaderEnds(buf) /\ HeaderEnds(buf) \subseteq Nat \ {0}
    BY <1>2 DEF HeaderEnds, Byte
  <2>2. \A j \in HeaderEnds(buf) : 2 <= j
    BY <2>1
  <2>3. \A k \in HeaderEnds(buf) : (\A j \in HeaderEnds(buf) : k <= j) => k = 2
    BY <2>1, <2>2
  <2> QED
    BY <2>1, <2>2, <2>3 DEF HeaderEnd
<1>5. ContentLength(buf) = Bodies[i]
  <2>1. CASE Bodies[i] > 0
    <3>1. buf[1].kind = "length"
      BY <1>2, <2>1 DEF Byte
    <3> QED
      BY <1>3, <1>4, <3>1 DEF ContentLength
  <2>2. CASE ~(Bodies[i] > 0)
    <3>1. Bodies[i] = 0
      BY <1>1, <2>2
    <3>2. buf[1].kind # "length" /\ buf[2].kind # "length"
      BY <1>2, <2>2 DEF Byte
    <3>3. \A k \in 1..2 : k = 1 \/ k = 2
      OBVIOUS
    <3> QED
      BY <1>4, <3>1, <3>2, <3>3 DEF ContentLength
  <2> QED
    BY <2>1, <2>2
<1> QED
  BY <1>3, <1>4, <1>5 DEF RequestLen

\* Such a buffer is complete only with the whole of that request, and what is
\* taken from it is that request.
LEMMA FirstRequest ==
  ASSUME NEW h \in Nat, h <= Len(Bodies), NEW buf \in Seq(Wire),
         Start[h + 1] + Len(buf) <= Len(Input),
         \A k \in 1..Len(buf) : buf[k] = Input[Start[h + 1] + k],
         Complete(buf)
  PROVE  /\ h + 1 \in Requests
         /\ Head(buf).req = h + 1
         /\ RequestLen(buf) = 2 + Bodies[h + 1]
         /\ RequestLen(buf) \in 0..Len(buf)
         /\ SubSeq(buf, 1, RequestLen(buf)) = Bytes(h + 1)
<1>1. Len(Bodies) \in Nat /\ Len(Input) \in Nat /\ Start[Len(Bodies) + 1] = Len(Input)
  BY HttpServingAssumption, InputAssumption
<1>2. PICK m \in 1..Len(buf) : buf[m].kind = "blank"
  BY DEF Complete, HeaderEnds
<1>3. h + 1 \in Requests
  <2>1. h # Len(Bodies)
    BY <1>1, <1>2
  <2> QED
    BY <1>1, <2>1 DEF Requests
<1> DEFINE i == h + 1
<1>4. /\ Bodies[i] \in Nat /\ Bytes(i) \in Seq(Wire) /\ Len(Bytes(i)) = 2 + Bodies[i]
      /\ \A k \in 1..2 + Bodies[i] : Input[Start[i] + k] = Bytes(i)[k]
      /\ Bytes(i)[1] = Byte(i, IF Bodies[i] > 0 THEN "length" ELSE "line")
  BY <1>3, RequestBytes, InputBytes
<1>5. \A k \in 1..Len(buf) : k \in 1..2 + Bodies[i] => buf[k] = Bytes(i)[k]
  BY <1>4
<1>6. Len(buf) >= 2
  <2>0. Byte(i, IF Bodies[i] > 0 THEN "length" ELSE "line").kind # "blank"
    BY DEF Byte
  <2>1. Bytes(i)[1].kind # "blank"
    BY <1>4, <2>0
  <2>2. m # 1
    <3>1. 1 \in 1..2 + Bodies[i]
      BY <1>4
    <3> QED
      BY <1>2, <1>5, <2>1, <3>1
  <2> QED
    BY <1>2, <2>2
<1>7. Head(buf).req = i /\ RequestLen(buf) = 2 + Bodies[i]
  BY <1>3, <1>6, LengthFound
<1>8. RequestLen(buf) \in 0..Len(buf)
  BY <1>4, <1>7 DEF Complete
<1>9. SubSeq(buf, 1, RequestLen(buf)) = Bytes(i)
  <2> DEFINE n == RequestLen(buf)  t == SubSeq(buf, 1, n)  b == Bytes(i)
  <2>1. t \in Seq(Wire) /\ Len(t) = n /\ \A k \in 1..n : t[k] = buf[k]
    BY <1>8, Slices
  <2>2. b \in Seq(Wire) /\ Len(b) = n /\ n \in Nat /\ \A k \in 1..n : buf[k] = b[k]
    BY <1>4, <1>5, <1>7, <1>8
  <2>3. \A k \in 1..n : t[k] = b[k]
    BY <2>1, <2>2
  <2> HIDE DEF t, b, n
  <2> QED
    BY <2>1, <2>2, <2>3 DEF t, b, n
<1> QED
  BY <1>3, <1>7, <1>8, <1>9

-----------------------------------------------------------------------------
(* Events                                                                     *)

\* Return ends the first task, or goes on with its hang-up.
LEMMA Returning ==
  ASSUME EventTypes, tasks # <<>>, Return
  PROVE  /\ tasks' \in Seq(Events)
         /\ \/ pc' = "hangup" /\ tasks' = tasks /\ Len(tasks) \in Nat \ {0} /\ "HUP" \in tasks[1]
            \/ /\ pc' = "idle" /\ Len(tasks) \in Nat \ {0} /\ Len(tasks') = Len(tasks) - 1
               /\ \A k \in 1..Len(tasks) - 1 : tasks'[k] = tasks[k + 1]
<1>1. tasks \in Seq(Events)
  BY DEF EventTypes
<1>2. /\ Len(tasks) \in Nat \ {0} /\ Head(tasks) = tasks[1]
      /\ Tail(tasks) \in Seq(Events) /\ Len(Tail(tasks)) = Len(tasks) - 1
      /\ \A k \in 1..Len(tasks) - 1 : Tail(tasks)[k] = tasks[k + 1]
  BY <1>1, Tailing
<1>3. CASE "HUP" \in Head(tasks) /\ ~(inline /\ "IN" \in Head(tasks))
  <2>1. pc' = "hangup" /\ tasks' = tasks
    BY <1>3 DEF Return
  <2> QED
    BY <1>1, <1>2, <1>3, <2>1
<1>4. CASE ~("HUP" \in Head(tasks) /\ ~(inline /\ "IN" \in Head(tasks)))
  <2>1. pc' = "idle" /\ tasks' = Tail(tasks)
    BY <1>4 DEF Return
  <2> QED
    BY <1>2, <2>1
<1> QED
  BY <1>3, <1>4

\* Dispatch after a Return: nothing is being done, or the hang-up.
LEMMA ReturnDispatch ==
  ASSUME EventTypes, Dispatch, tasks # <<>>, Return, link' = link
  PROVE  Dispatch'
<1>1. CASE pc' = "hangup" /\ tasks' = tasks /\ Len(tasks) \in Nat \ {0} /\ "HUP" \in tasks[1]
  <2>1. 1 \in 1..Len(tasks)
    BY <1>1
  <2>2. link \in {"broken", "closed"}
    BY <1>1, <2>1 DEF Dispatch
  <2> QED
    BY <1>1, <2>2 DEF Dispatch
<1>2. CASE /\ pc' = "idle" /\ Len(tasks) \in Nat \ {0} /\ Len(tasks') = Len(tasks) - 1
           /\ \A k \in 1..Len(tasks) - 1 : tasks'[k] = tasks[k + 1]
  <2>1. \A k \in 1..Len(tasks') : k + 1 \in 1..Len(tasks) /\ tasks'[k] = tasks[k + 1]
    BY <1>2
  <2> QED
    BY <1>2, <2>1 DEF Dispatch
<1> QED
  BY <1>1, <1>2, Returning

\* A Return from reading leaves a task for writing that is due.
LEMMA ReturnDue ==
  ASSUME EventTypes, Dispatch, pc = "reading", Return, link \in {"up", "fin"}, WriteDue
  PROVE  WriteDue'
<1>0. tasks # <<>>
  BY DEF Dispatch
<1>1. PICK k \in 1..Len(tasks) : "OUT" \in tasks[k] /\ k > 1
  BY DEF WriteDue
<1>2. CASE pc' = "hangup" /\ tasks' = tasks /\ Len(tasks) \in Nat \ {0} /\ "HUP" \in tasks[1]
  <2>1. 1 \in 1..Len(tasks)
    BY <1>2
  <2> QED
    BY <1>2, <2>1 DEF Dispatch
<1>3. CASE /\ pc' = "idle" /\ Len(tasks) \in Nat \ {0} /\ Len(tasks') = Len(tasks) - 1
           /\ \A j \in 1..Len(tasks) - 1 : tasks'[j] = tasks[j + 1]
  <2>1. k - 1 \in 1..Len(tasks') /\ k - 1 \in 1..Len(tasks) - 1 /\ (k - 1) + 1 = k
    BY <1>1, <1>3
  <2>2. tasks'[k - 1] = tasks[k]
    BY <1>3, <2>1
  <2>3. pc' # "reading"
    BY <1>3
  <2> QED
    BY <1>1, <2>1, <2>2, <2>3 DEF WriteDue
<1> QED
  BY <1>0, <1>2, <1>3, Returning

\* Nothing is queued at the start.
LEMMA InitEvents == Init => EventInv
<1> SUFFICES ASSUME Init PROVE EventInv
  OBVIOUS
<1>1. tasks \in Seq(Events) /\ Len(tasks) = 0
  BY DEF Init
<1>2. EventTypes
  BY <1>1 DEF Init, EventTypes
<1>3. Dispatch
  BY <1>1 DEF Init, Dispatch
<1>4. Armed
  BY DEF Init, Armed
<1> QED
  BY <1>2, <1>3, <1>4 DEF EventInv

\* The client and the network: making room in the send buffer of a descriptor
\* that is registered for writing puts it into the ready list.
LEMMA ClientEvents ==
  ASSUME EventInv, (\E n \in 1..Len(unsent) : ClientSend(n)) \/ ClientRead \/ ClientFin \/ Break
  PROVE  EventInv'
<1> USE DEF EventInv
<1>1. UNCHANGED <<response_queue_, mask, tasks, pc>>
  BY DEF ClientSend, ClientRead, ClientFin, Break, client, buffers
<1>2. CASE \E n \in 1..Len(unsent) : ClientSend(n)
  <2>1. link' = link /\ snd' = snd /\ edge' \in BOOLEAN /\ (edge => edge')
    BY <1>2 DEF ClientSend, EventTypes
  <2> QED
    BY <1>1, <2>1 DEF EventTypes, Dispatch, Armed, WriteDue
<1>3. CASE ClientRead
  <2>1. link' = link /\ edge' \in BOOLEAN /\ (mask = "OUT" => edge')
    BY <1>3 DEF ClientRead, EventTypes
  <2> QED
    BY <1>1, <2>1 DEF EventTypes, Dispatch, Armed
<1>4. CASE ClientFin
  <2>1. /\ link = "up" /\ link' = "fin" /\ snd' = snd /\ edge' \in BOOLEAN /\ (edge => edge')
    BY <1>4 DEF ClientFin, EventTypes, buffers
  <2> QED
    BY <1>1, <2>1 DEF EventTypes, Dispatch, Armed, WriteDue
<1>5. CASE Break
  <2>1. link' = "broken" /\ edge' \in BOOLEAN
    BY <1>5 DEF Break
  <2> QED
    BY <1>1, <2>1 DEF EventTypes, Dispatch, Armed
<1> QED
  BY <1>2, <1>3, <1>4, <1>5

\* epoll_wait: the descriptor of a response that waits leaves the ready list
\* only as a task for writing, or because the send buffer is full.
LEMMA EpollEvents ==
  ASSUME EventInv, Len(snd) \in Nat, Len(snd) <= SendBuffer, EpollWait
  PROVE  EventInv'
<1> DEFINE events == {e \in {"IN", "OUT", "HUP"} :
                        \/ e = "IN" /\ mask = "IN" /\ Readable
                        \/ e = "OUT" /\ mask = "OUT" /\ Writable
                        \/ e = "HUP" /\ link = "broken"}
<1>0. SendBuffer \in Nat
  BY HttpServingAssumption
<1>1. /\ edge' = FALSE /\ tasks' = IF events = {} THEN tasks ELSE Append(tasks, events)
      /\ UNCHANGED <<response_queue_, snd, mask, pc, link>>
  BY DEF EpollWait, buffers
<1>2. /\ ~({"IN", "OUT"} \subseteq events)
      /\ "HUP" \in events => link = "broken"
      /\ mask = "OUT" /\ Len(snd) # SendBuffer => "OUT" \in events
      /\ events \in SUBSET {"IN", "OUT", "HUP"}
  <2>1. ~("IN" \in events /\ "OUT" \in events)
    OBVIOUS
  <2>2. mask = "OUT" /\ Len(snd) # SendBuffer => "OUT" \in events
    BY <1>0 DEF Writable
  <2> QED
    BY <2>1, <2>2
<1> HIDE DEF events
<1>3. CASE events = {}
  <2>1. tasks' = tasks
    BY <1>1, <1>3
  <2> QED
    BY <1>1, <1>2, <1>3, <2>1 DEF EventInv, EventTypes, Dispatch, Armed, WriteDue
<1>4. CASE events # {}
  <2>0. tasks \in Seq(Events) /\ events \in Events
    BY <1>2, <1>4 DEF EventInv, EventTypes, Events
  <2>1. /\ tasks' \in Seq(Events) /\ Len(tasks) \in Nat /\ Len(tasks') = Len(tasks) + 1
        /\ tasks' # <<>>
        /\ \A k \in 1..Len(tasks) : tasks'[k] = tasks[k]
        /\ tasks'[Len(tasks) + 1] = events
    BY <1>1, <1>4, <2>0, Appending
  <2>2. EventTypes'
    BY <1>1, <2>1 DEF EventInv, EventTypes
  <2>3. \A k \in 1..Len(tasks') : k = Len(tasks) + 1 \/ k \in 1..Len(tasks)
    BY <2>1
  <2>4. pc # "idle" => Len(tasks) > 0 /\ tasks'[1] = tasks[1]
    BY <2>0, <2>1 DEF EventInv, Dispatch
  <2>5. Dispatch'
    BY <1>1, <1>2, <2>1, <2>3, <2>4 DEF EventInv, Dispatch
  <2>6. Armed'
    <3>1. CASE Len(snd) = SendBuffer \/ mask # "OUT" \/ link \notin {"up", "fin"}
      BY <1>1, <3>1 DEF EventInv, Armed
    <3>2. CASE Len(snd) # SendBuffer /\ mask = "OUT" /\ link \in {"up", "fin"}
      <4>1. mask = "OUT" /\ "OUT" \in events
        BY <1>2, <3>2
      <4>2. Len(tasks) + 1 \in 1..Len(tasks') /\ (Len(tasks) + 1 > 1 \/ pc' # "reading")
        BY <1>1, <2>0, <2>1, <2>4
      <4>3. WriteDue'
        BY <2>1, <4>1, <4>2 DEF WriteDue
      <4> QED
        BY <1>1, <4>1, <4>3 DEF Armed
    <3> QED
      BY <3>1, <3>2
  <2> QED
    BY <2>2, <2>5, <2>6 DEF EventInv
<1> QED
  BY <1>3, <1>4

\* The handlers: HandleRead queues a response and arms for writing at once, the
\* other steps take from the queue or leave it; OnReadable ends tasks for
\* reading only, so that the one for writing stays.
LEMMA HandlerEvents ==
  ASSUME EventInv, Len(snd) \in Nat, Len(snd) <= SendBuffer, Handler
  PROVE  EventInv'
<1> USE DEF EventInv
<1>0. SendBuffer \in Nat
  BY HttpServingAssumption
<1>1. CASE TakeTask
  <2>1. UNCHANGED <<response_queue_, snd, mask, edge, tasks, link>> /\ tasks # <<>>
    BY <1>1 DEF TakeTask, buffers
  <2>2. tasks \in Seq(Events)
    BY DEF EventTypes
  <2>3. Len(tasks) \in Nat \ {0} /\ Head(tasks) = tasks[1] /\ tasks[1] \in Events /\ 1 \in 1..Len(tasks)
    BY <2>1, <2>2, Tailing
  <2>4. \/ pc' = "reading" /\ "IN" \in tasks[1]
        \/ pc' = "writing" /\ "IN" \notin tasks[1] /\ "OUT" \in tasks[1]
        \/ pc' = "hangup" /\ "IN" \notin tasks[1] /\ "OUT" \notin tasks[1]
    <3>0. ~("IN" \in tasks[1] /\ "OUT" \in tasks[1])
      BY <2>3 DEF Dispatch
    <3>1. pc' = CASE "IN" \in tasks[1] -> "reading" [] "OUT" \in tasks[1] -> "writing" [] OTHER -> "hangup"
      BY <1>1, <2>3 DEF TakeTask
    <3>2. CASE "IN" \in tasks[1]
      BY <3>0, <3>1, <3>2
    <3>3. CASE "IN" \notin tasks[1] /\ "OUT" \in tasks[1]
      BY <3>1, <3>3
    <3>4. CASE "IN" \notin tasks[1] /\ "OUT" \notin tasks[1]
      BY <3>1, <3>4
    <3> QED
      BY <3>2, <3>3, <3>4
  <2>5. pc' = "hangup" => "HUP" \in tasks[1]
    BY <2>3, <2>4 DEF Events
  <2>6. EventTypes' /\ Dispatch'
    BY <2>1, <2>3, <2>4, <2>5 DEF EventTypes, Dispatch
  <2>7. WriteDue => WriteDue'
    <3>1. pc' = "reading" => "OUT" \notin tasks[1]
      BY <2>3, <2>4 DEF Dispatch
    <3>2. \A k \in 1..Len(tasks) : k > 1 \/ k = 1
      OBVIOUS
    <3> QED
      BY <2>1, <3>1, <3>2 DEF WriteDue
  <2> QED
    BY <2>1, <2>6, <2>7 DEF Armed
<1>2. CASE HangUp
  <2>1. pc = "hangup" /\ pc' = "idle" /\ link' = "closed" /\ tasks' = Tail(tasks) /\ tasks # <<>>
        /\ UNCHANGED <<response_queue_, snd, mask, edge>>
    BY <1>2 DEF HangUp, Dispatch, buffers
  <2>2. tasks \in Seq(Events)
    BY DEF EventTypes
  <2>3. /\ tasks' \in Seq(Events) /\ Len(tasks) \in Nat \ {0} /\ Len(tasks') = Len(tasks) - 1
        /\ \A k \in 1..Len(tasks) - 1 : tasks'[k] = tasks[k + 1]
    BY <2>1, <2>2, Tailing
  <2>4. \A k \in 1..Len(tasks') : k + 1 \in 1..Len(tasks) /\ tasks'[k] = tasks[k + 1]
    BY <2>3
  <2> QED
    BY <2>1, <2>3, <2>4 DEF EventTypes, Dispatch, Armed
<1>3. CASE Recv
  BY <1>3 DEF Recv, EventTypes, Dispatch, Armed, WriteDue
<1>4. CASE RecvEnd \/ Incomplete
  <2>1. /\ pc = "reading" /\ Return /\ UNCHANGED <<response_queue_, snd, mask, edge, link>>
    BY <1>4 DEF RecvEnd, Incomplete, buffers
  <2>2. tasks # <<>>
    BY <2>1 DEF Dispatch
  <2>3. Dispatch' /\ EventTypes'
    BY <2>1, <2>2, Returning, ReturnDispatch DEF EventTypes
  <2>4. link \in {"up", "fin"} /\ WriteDue => WriteDue'
    BY <2>1, ReturnDue
  <2> QED
    BY <2>1, <2>3, <2>4 DEF Armed
<1>5. CASE HandleRead
  <2>1. /\ pc = "reading" /\ Return /\ UNCHANGED <<snd, link>> /\ mask' = "OUT"
        /\ edge' = (Len(snd) < SendBuffer \/ link = "broken")
    BY <1>5 DEF HandleRead, Arm, Writable
  <2>2. tasks # <<>>
    BY <2>1 DEF Dispatch
  <2>3. Dispatch' /\ EventTypes'
    BY <2>1, <2>2, Returning, ReturnDispatch DEF EventTypes
  <2>4. edge' \/ Len(snd') = SendBuffer
    <3>1. CASE Len(snd) < SendBuffer
      BY <2>1, <3>1
    <3>2. CASE Len(snd) = SendBuffer
      BY <2>1, <3>2
    <3> QED
      BY <1>0, <3>1, <3>2
  <2> QED
    BY <2>1, <2>3, <2>4 DEF Armed
<1>6. CASE Send
  <2>1. /\ pc = "writing" /\ UNCHANGED <<mask, edge, tasks, pc, link>> /\ response_queue_ # <<>>
    BY <1>6 DEF Send
  <2>2. 1 \in 1..Len(tasks) /\ "OUT" \in tasks[1]
    BY <2>1 DEF Dispatch, EventTypes
  <2>3. WriteDue'
    BY <2>1, <2>2 DEF WriteDue
  <2> QED
    BY <2>1, <2>3 DEF Armed, EventTypes, Dispatch
<1>7. CASE SendFails
  <2>1. /\ pc = "writing" /\ Return /\ UNCHANGED <<response_queue_, snd, mask, edge, link>>
        /\ Len(snd) = SendBuffer \/ link \in {"broken", "closed"}
    BY <1>7 DEF SendFails, buffers
  <2>2. tasks # <<>>
    BY <2>1 DEF Dispatch
  <2>3. Dispatch' /\ EventTypes'
    BY <2>1, <2>2, Returning, ReturnDispatch DEF EventTypes
  <2> QED
    BY <2>1, <2>3 DEF Armed
<1>8. CASE AllSent
  <2>1. /\ pc = "writing" /\ Return /\ UNCHANGED <<response_queue_, link>> /\ mask' = "IN"
        /\ edge' = (rcv' # <<>> \/ link' \in {"fin", "broken"})
        /\ response_queue_ = <<>>
    BY <1>8 DEF AllSent, Arm, Readable, buffers
  <2>2. tasks # <<>>
    BY <2>1 DEF Dispatch
  <2>3. Dispatch' /\ EventTypes'
    BY <2>1, <2>2, Returning, ReturnDispatch DEF EventTypes
  <2> QED
    BY <2>1, <2>3 DEF Armed
<1> QED
  BY <1>1, <1>2, <1>3, <1>4, <1>5, <1>6, <1>7, <1>8 DEF Handler

-----------------------------------------------------------------------------
(* The stream of bytes                                                        *)

\* The positions of Input.
LEMMA Positions ==
  /\ Len(Bodies) \in Nat /\ Input \in Seq(Wire) /\ Len(Input) \in Nat
  /\ Start[1] = 0 /\ Start[Len(Bodies) + 1] = Len(Input)
  /\ \A h \in Nat : h <= Len(Bodies) => Start[h + 1] \in Nat
<1>1. Len(Bodies) \in Nat
  BY HttpServingAssumption
<1>2. \A h \in Nat : h <= Len(Bodies) => h + 1 \in 1..Len(Bodies) + 1
  BY <1>1
<1> QED
  BY <1>1, <1>2, InputAssumption

\* Everything is still to be sent.
LEMMA InitStream == Init => StreamInv
<1> SUFFICES ASSUME Init PROVE StreamInv
  OBVIOUS
<1>1. /\ unsent = Input /\ Len(rcv) = 0 /\ Len(read_buffer_) = 0 /\ Len(handled) = 0
      /\ rcv = <<>> /\ read_buffer_ = <<>> /\ handled = <<>> /\ link = "up"
  BY DEF Init
<1>2. Consumed = 0 /\ Reached = 0
  BY <1>1, Positions DEF Consumed, Reached
<1>3. StreamTypes
  BY <1>1, Positions DEF StreamTypes
<1>4. InStream
  BY <1>1, <1>2, Positions DEF InStream
<1>5. FramingExact
  BY <1>1 DEF FramingExact
<1> QED
  BY <1>3, <1>4, <1>5 DEF StreamInv

\* Steps that move no bytes.
LEMMA StreamKept ==
  ASSUME StreamInv, UNCHANGED <<unsent, rcv, read_buffer_, handled>>,
         link \in {"up", "fin"} <=> link' \in {"up", "fin"}
  PROVE  StreamInv'
BY DEF StreamInv, StreamTypes, InStream, FramingExact, Consumed, Reached

\* The client's bytes go from unsent to the receive buffer.
LEMMA ClientSendStream ==
  ASSUME StreamInv, NEW n \in 1..Len(unsent), ClientSend(n)
  PROVE  StreamInv'
<1> DEFINE a == SubSeq(unsent, 1, n)  b == SubSeq(unsent, n + 1, Len(unsent))
<1>0. unsent \in Seq(Wire) /\ rcv \in Seq(Wire) /\ n \in 0..Len(unsent)
  BY DEF StreamInv, StreamTypes
<1>1. /\ link = "up" /\ link' = "up" /\ rcv' = rcv \o a /\ unsent' = b
      /\ UNCHANGED <<read_buffer_, handled>>
  BY DEF ClientSend
<1>2. /\ a \in Seq(Wire) /\ Len(a) = n /\ \A k \in 1..n : a[k] = unsent[k]
      /\ b \in Seq(Wire) /\ Len(b) = Len(unsent) - n
      /\ \A k \in 1..Len(unsent) - n : b[k] = unsent[n + k]
  BY <1>0, Slices
<1> HIDE DEF a, b
<1>3. /\ rcv' \in Seq(Wire) /\ Len(rcv') = Len(rcv) + n
      /\ \A k \in 1..Len(rcv) : rcv'[k] = rcv[k]
      /\ \A k \in 1..n : rcv'[Len(rcv) + k] = unsent[k]
  <2>0. rcv \in Seq(Wire) /\ a \in Seq(Wire)
    BY <1>0, <1>2
  <2>1. /\ rcv \o a \in Seq(Wire) /\ Len(rcv \o a) = Len(rcv) + Len(a)
        /\ \A k \in 1..Len(rcv) : (rcv \o a)[k] = rcv[k]
        /\ \A k \in 1..Len(a) : (rcv \o a)[Len(rcv) + k] = a[k]
    BY <2>0, Concatenation
  <2> QED
    BY <1>1, <1>2, <2>1
<1>4. /\ Len(unsent) \in Nat /\ Len(rcv) \in Nat /\ Len(read_buffer_) \in Nat /\ Len(Input) \in Nat
      /\ Consumed \in Nat /\ Len(handled) \in Nat
  <2>1. Len(handled) \in Nat /\ Len(handled) <= Len(Bodies) /\ Len(read_buffer_) \in Nat
    BY DEF StreamInv, StreamTypes, InStream
  <2> QED
    BY <1>0, <2>1, Positions DEF Consumed
<1>5. Consumed' = Consumed /\ Reached' = Reached + n /\ Reached = Len(Input) - Len(unsent)
  BY <1>1, <1>2, <1>4 DEF Consumed, Reached
<1>6. /\ Reached = Consumed + Len(read_buffer_) + Len(rcv) /\ Len(unsent) <= Len(Input)
      /\ \A k \in 1..Len(rcv) : rcv[k] = Input[Consumed + Len(read_buffer_) + k]
      /\ \A k \in 1..Len(unsent) : unsent[k] = Input[Reached + k]
  BY <1>1 DEF StreamInv, InStream
<1>7. ASSUME NEW k \in 1..Len(rcv') PROVE rcv'[k] = Input[Consumed + Len(read_buffer_) + k]
  <2>1. CASE k \in 1..Len(rcv)
    BY <1>3, <1>6, <2>1
  <2>2. CASE k \notin 1..Len(rcv)
    <3> DEFINE j == k - Len(rcv)
    <3>1. j \in 1..n /\ j \in 1..Len(unsent) /\ Len(rcv) + j = k
          /\ Reached + j = Consumed + Len(read_buffer_) + k
      BY <1>3, <1>4, <1>6, <2>2
    <3>2. rcv'[k] = unsent[j] /\ unsent[j] = Input[Reached + j]
      <4> HIDE DEF j
      <4> QED
        BY <1>3, <1>6, <3>1
    <3> QED
      BY <3>1, <3>2
  <2> QED
    BY <2>1, <2>2
<1>8. ASSUME NEW k \in 1..Len(unsent') PROVE unsent'[k] = Input[Reached' + k]
  <2>1. n + k \in 1..Len(unsent) /\ Reached' + k = Reached + (n + k) /\ k \in 1..Len(unsent) - n
    BY <1>1, <1>2, <1>4, <1>5
  <2>2. unsent'[k] = unsent[n + k]
    BY <1>1, <1>2, <2>1
  <2> QED
    BY <1>6, <2>1, <2>2
<1>9. /\ Len(unsent') <= Len(Input) /\ Reached' = Consumed + Len(read_buffer_) + Len(rcv')
  <2>1. Len(unsent') = Len(unsent) - n /\ Len(rcv') = Len(rcv) + n
    BY <1>1, <1>2, <1>3
  <2>2. Reached = Consumed + Len(read_buffer_) + Len(rcv) /\ Len(unsent) <= Len(Input)
    BY <1>6
  <2> QED
    BY <1>4, <1>5, <2>1, <2>2
<1>10. InStream'
  BY <1>1, <1>5, <1>7, <1>8, <1>9 DEF StreamInv, InStream
<1>11. StreamTypes' /\ FramingExact'
  BY <1>1, <1>2, <1>3 DEF StreamInv, StreamTypes, FramingExact
<1> QED
  BY <1>10, <1>11 DEF StreamInv

\* A reset takes what is in the receive buffer.
LEMMA BreakStream ==
  ASSUME StreamInv, Break
  PROVE  StreamInv'
<1>1. UNCHANGED <<unsent, read_buffer_, handled>> /\ rcv' = <<>> /\ link' = "broken"
  BY DEF Break, client
<1> QED
  BY <1>1 DEF StreamInv, StreamTypes, InStream, FramingExact, Consumed, Reached

\* recv moves bytes from the receive buffer to the end of read_buffer_.
LEMMA RecvStream ==
  ASSUME StreamInv, link \in {"up", "fin", "broken", "closed"}, Recv
  PROVE  StreamInv'
<1> DEFINE n == IF Len(rcv) < ReadChunk THEN Len(rcv) ELSE ReadChunk
           a == SubSeq(rcv, 1, n)
           b == SubSeq(rcv, n + 1, Len(rcv))
<1>0. rcv \in Seq(Wire) /\ read_buffer_ \in Seq(Wire) /\ n \in 0..Len(rcv)
  <2>1. rcv \in Seq(Wire) /\ read_buffer_ \in Seq(Wire)
    BY DEF StreamInv, StreamTypes
  <2>2. ReadChunk \in Nat
    BY HttpServingAssumption
  <2> QED
    BY <2>1, <2>2
<1>1. /\ link' = link /\ link \in {"up", "fin"} /\ read_buffer_' = read_buffer_ \o a /\ rcv' = b
      /\ UNCHANGED <<unsent, handled>>
  BY DEF Recv, client, StreamInv, InStream
<1> HIDE DEF n
<1>2. /\ a \in Seq(Wire) /\ Len(a) = n /\ \A k \in 1..n : a[k] = rcv[k]
      /\ b \in Seq(Wire) /\ Len(b) = Len(rcv) - n
      /\ \A k \in 1..Len(rcv) - n : b[k] = rcv[n + k]
  BY <1>0, Slices
<1> HIDE DEF a, b
<1> DEFINE r == Len(read_buffer_)
<1>3. /\ read_buffer_' \in Seq(Wire) /\ Len(read_buffer_') = r + n
      /\ \A k \in 1..r : read_buffer_'[k] = read_buffer_[k]
      /\ \A k \in 1..n : read_buffer_'[r + k] = rcv[k]
  <2>0. read_buffer_ \in Seq(Wire) /\ a \in Seq(Wire)
    BY <1>0, <1>2
  <2>1. /\ read_buffer_ \o a \in Seq(Wire) /\ Len(read_buffer_ \o a) = r + Len(a)
        /\ \A k \in 1..r : (read_buffer_ \o a)[k] = read_buffer_[k]
        /\ \A k \in 1..Len(a) : (read_buffer_ \o a)[r + k] = a[k]
    BY <2>0, Concatenation
  <2> QED
    BY <1>1, <1>2, <2>1
<1>4. /\ Len(rcv) \in Nat /\ r \in Nat /\ Len(Input) \in Nat /\ n \in 0..Len(rcv)
      /\ Consumed \in Nat /\ Len(unsent) \in Nat
  <2>1. Len(handled) \in Nat /\ Len(handled) <= Len(Bodies) /\ Len(unsent) \in Nat
    BY DEF StreamInv, StreamTypes, InStream
  <2> QED
    BY <1>0, <2>1, Positions DEF Consumed
<1>5. Consumed' = Consumed /\ Reached' = Reached
  BY <1>1 DEF Consumed, Reached
<1>6. /\ Reached = Consumed + r + Len(rcv) /\ Len(unsent) <= Len(Input)
      /\ Reached = Len(Input) - Len(unsent)
      /\ \A k \in 1..Len(rcv) : rcv[k] = Input[Consumed + r + k]
      /\ \A k \in 1..r : read_buffer_[k] = Input[Consumed + k]
  BY <1>1 DEF StreamInv, InStream, Reached
<1> HIDE DEF r
<1>7. ASSUME NEW k \in 1..Len(read_buffer_') PROVE read_buffer_'[k] = Input[Consumed + k]
  <2>1. CASE k \in 1..r
    BY <1>3, <1>6, <2>1
  <2>2. CASE k \notin 1..r
    <3> DEFINE j == k - r
    <3>1. j \in 1..n /\ j \in 1..Len(rcv) /\ r + j = k /\ Consumed + r + j = Consumed + k
      BY <1>3, <1>4, <2>2
    <3>2. read_buffer_'[k] = rcv[j] /\ rcv[j] = Input[Consumed + r + j]
      <4> HIDE DEF j
      <4> QED
        BY <1>3, <1>6, <3>1
    <3> QED
      BY <3>1, <3>2
  <2> QED
    BY <2>1, <2>2
<1>8. ASSUME NEW k \in 1..Len(rcv') PROVE rcv'[k] = Input[Consumed + Len(read_buffer_') + k]
  <2>1. /\ n + k \in 1..Len(rcv) /\ k \in 1..Len(rcv) - n
        /\ Consumed + Len(read_buffer_') + k = Consumed + r + (n + k)
    BY <1>1, <1>2, <1>3, <1>4
  <2>2. rcv'[k] = rcv[n + k]
    BY <1>1, <1>2, <2>1
  <2> QED
    BY <1>6, <2>1, <2>2
<1>9. /\ Reached' = Consumed + Len(read_buffer_') + Len(rcv')
      /\ Consumed + Len(read_buffer_') <= Len(Input)
  BY <1>1, <1>2, <1>3, <1>4, <1>5, <1>6
<1>10. InStream'
  <2>1. /\ Len(handled') <= Len(Bodies) /\ Len(unsent') <= Len(Input)
        /\ \A k \in 1..Len(unsent') : unsent'[k] = Input[Reached' + k]
    BY <1>1, <1>5 DEF StreamInv, InStream
  <2> QED
    BY <1>1, <1>5, <1>7, <1>8, <1>9, <2>1 DEF InStream
<1>11. StreamTypes' /\ FramingExact'
  BY <1>1, <1>2, <1>3 DEF StreamInv, StreamTypes, FramingExact
<1> QED
  BY <1>10, <1>11 DEF StreamInv

\* Phase 3: HandleRead takes the next request, the whole of it, and queues its
\* response.
LEMMA Handling ==
  ASSUME StreamInv, HandleRead
  PROVE  /\ Len(handled) \in Nat /\ Len(handled) + 1 \in Requests
         /\ handled' = Append(handled, Bytes(Len(handled) + 1))
         /\ response_queue_' = Append(response_queue_, Len(handled) + 1)
         /\ 2 + Bodies[Len(handled) + 1] \in 0..Len(read_buffer_)
         /\ read_buffer_' = SubSeq(read_buffer_, 2 + Bodies[Len(handled) + 1] + 1, Len(read_buffer_))
         /\ UNCHANGED <<unsent, rcv, got, snd, link, pipelining>>
         /\ rcv = <<>> /\ link = "up"
<1> DEFINE h == Len(handled)
<1>1. /\ h \in Nat /\ h <= Len(Bodies) /\ read_buffer_ \in Seq(Wire)
      /\ Start[h + 1] + Len(read_buffer_) <= Len(Input)
      /\ \A k \in 1..Len(read_buffer_) : read_buffer_[k] = Input[Start[h + 1] + k]
  BY DEF StreamInv, StreamTypes, InStream, Consumed
<1>2. Complete(read_buffer_)
  BY DEF HandleRead
<1>3. /\ h + 1 \in Requests /\ Head(read_buffer_).req = h + 1
      /\ RequestLen(read_buffer_) = 2 + Bodies[h + 1]
      /\ RequestLen(read_buffer_) \in 0..Len(read_buffer_)
      /\ SubSeq(read_buffer_, 1, RequestLen(read_buffer_)) = Bytes(h + 1)
  <2> HIDE DEF h
  <2> QED
    BY <1>1, <1>2, FirstRequest
<1>4. /\ handled' = Append(handled, SubSeq(read_buffer_, 1, RequestLen(read_buffer_)))
      /\ read_buffer_' = SubSeq(read_buffer_, RequestLen(read_buffer_) + 1, Len(read_buffer_))
      /\ response_queue_' = Append(response_queue_, Head(read_buffer_).req)
      /\ UNCHANGED <<unsent, rcv, got, snd, link, pipelining>> /\ rcv = <<>> /\ link = "up"
  BY DEF HandleRead, client
<1> QED
  BY <1>1, <1>3, <1>4

\* What is left in read_buffer_ starts where the request ended.
LEMMA HandleReadStream ==
  ASSUME StreamInv, HandleRead
  PROVE  StreamInv'
<1> DEFINE h == Len(handled)
           m == 2 + Bodies[h + 1]
           r == Len(read_buffer_)
           e == Bytes(h + 1)
           t == SubSeq(read_buffer_, m + 1, r)
<1>1. /\ h \in Nat /\ h + 1 \in Requests /\ handled' = Append(handled, e) /\ m \in 0..r
      /\ read_buffer_' = t /\ UNCHANGED <<unsent, rcv, link>> /\ rcv = <<>> /\ link = "up"
  BY Handling
<1>2. e \in Seq(Wire) /\ Start[h + 1] \in Nat /\ Start[(h + 1) + 1] = Start[h + 1] + m
  <2>1. /\ e \in Seq(Wire) /\ Bodies[h + 1] \in Nat /\ Start[h + 1] \in Nat
        /\ Start[(h + 1) + 1] = Start[h + 1] + 2 + Bodies[h + 1]
    BY <1>1, RequestBytes, InputBytes
  <2> QED
    BY <2>1
<1>3. handled \in Seq(Seq(Wire)) /\ read_buffer_ \in Seq(Wire) /\ r \in Nat
  BY DEF StreamInv, StreamTypes
<1>4. /\ t \in Seq(Wire) /\ Len(t) = r - m
      /\ \A k \in 1..r - m : t[k] = read_buffer_[m + k]
  <2> HIDE DEF m
  <2> QED
    BY <1>1, <1>3, Slices
<1>5. /\ handled' \in Seq(Seq(Wire)) /\ Len(handled') = h + 1
      /\ \A k \in 1..h : handled'[k] = handled[k]
      /\ handled'[h + 1] = e
  <2> HIDE DEF e
  <2> QED
    BY <1>1, <1>2, <1>3, Appending
<1>6. Consumed = Start[h + 1] /\ Consumed' = Consumed + m /\ Reached' = Reached
  <2>1. Start[Len(handled') + 1] = Start[(h + 1) + 1]
    BY <1>5
  <2> QED
    BY <1>1, <1>2, <2>1 DEF Consumed, Reached
<1>7. /\ Consumed + r <= Len(Input) /\ Reached = Consumed + r + Len(rcv) /\ Len(rcv) = 0
      /\ \A k \in 1..r : read_buffer_[k] = Input[Consumed + k]
      /\ Len(unsent) <= Len(Input) /\ \A k \in 1..Len(unsent) : unsent[k] = Input[Reached + k]
  BY <1>1 DEF StreamInv, InStream
<1> HIDE DEF m, t, e
<1>8. ASSUME NEW k \in 1..Len(read_buffer_') PROVE read_buffer_'[k] = Input[Consumed' + k]
  <2>0. m \in Nat /\ Consumed \in Nat
    BY <1>1, <1>2, <1>3, <1>6
  <2>1. /\ m + k \in 1..r /\ k \in 1..r - m /\ Consumed' + k = Consumed + (m + k)
    BY <1>1, <1>3, <1>4, <1>6, <2>0
  <2>2. read_buffer_'[k] = read_buffer_[m + k]
    BY <1>1, <1>4, <2>1
  <2> QED
    BY <1>7, <2>1, <2>2
<1>9. InStream'
  <2>1. h + 1 <= Len(Bodies) /\ Len(handled') <= Len(Bodies)
    BY <1>1, <1>5 DEF Requests
  <2>2. Consumed' + Len(read_buffer_') = Consumed + r
    BY <1>1, <1>2, <1>3, <1>4, <1>6
  <2>3. /\ Consumed' + Len(read_buffer_') <= Len(Input)
        /\ Reached' = Consumed' + Len(read_buffer_') + Len(rcv')
    BY <1>1, <1>6, <1>7, <2>2
  <2>4. \A k \in 1..Len(rcv') : rcv'[k] = Input[Consumed' + Len(read_buffer_') + k]
    BY <1>1
  <2> QED
    BY <1>1, <1>6, <1>7, <1>8, <2>1, <2>3, <2>4 DEF InStream
<1>10. FramingExact'
  <2>1. \A k \in 1..h : handled[k] = Bytes(k)
    BY DEF StreamInv, FramingExact
  <2>2. ASSUME NEW k \in 1..h + 1 PROVE handled'[k] = Bytes(k)
    <3>1. CASE k \in 1..h
      BY <1>5, <2>1, <3>1
    <3>2. CASE k = h + 1
      BY <1>5, <3>2 DEF e
    <3> QED
      BY <1>1, <3>1, <3>2
  <2>3. handled' = [k \in 1..Len(handled') |-> handled'[k]]
    BY <1>5
  <2> QED
    BY <1>5, <2>2, <2>3 DEF FramingExact
<1>11. StreamTypes'
  BY <1>1, <1>4, <1>5 DEF StreamInv, StreamTypes
<1> QED
  BY <1>9, <1>10, <1>11 DEF StreamInv

\* Every step keeps the stream.
LEMMA NextStream ==
  ASSUME EventInv, StreamInv, Next
  PROVE  StreamInv'
<1>1. CASE \E n \in 1..Len(unsent) : ClientSend(n)
  BY <1>1, ClientSendStream
<1>2. CASE Break
  BY <1>2, BreakStream
<1>3. CASE Recv
  <2>1. link \in {"up", "fin", "broken", "closed"}
    BY DEF EventInv, EventTypes
  <2> QED
    BY <1>3, <2>1, RecvStream
<1>4. CASE HandleRead
  BY <1>4, HandleReadStream
<1>5. CASE \/ ClientRead \/ ClientFin \/ EpollWait \/ TakeTask \/ HangUp \/ RecvEnd \/ Incomplete
           \/ Send \/ SendFails \/ AllSent \/ Idle
  <2>1. UNCHANGED <<unsent, rcv, read_buffer_, handled>>
    BY <1>5 DEF ClientRead, ClientFin, EpollWait, TakeTask, HangUp, RecvEnd, Incomplete, Send,
                SendFails, AllSent, Idle, client, buffers, vars
  <2>2. link \in {"up", "fin"} <=> link' \in {"up", "fin"}
    <3>1. CASE HangUp
      BY <3>1 DEF HangUp, EventInv, Dispatch
    <3>2. CASE ClientFin
      BY <3>2 DEF ClientFin
    <3>3. CASE \/ ClientRead \/ EpollWait \/ TakeTask \/ RecvEnd \/ Incomplete
               \/ Send \/ SendFails \/ AllSent \/ Idle
      BY <3>3 DEF ClientRead, EpollWait, TakeTask, RecvEnd, Incomplete, Send, SendFails, AllSent,
                  Idle, vars
    <3> QED
      BY <1>5, <3>1, <3>2, <3>3
  <2> QED
    BY <2>1, <2>2, StreamKept
<1> QED
  BY <1>1, <1>2, <1>3, <1>4, <1>5 DEF Next, Handler

-----------------------------------------------------------------------------
(* The responses                                                              *)

\* Nothing is answered yet.
LEMMA InitQueue == Init => QueueInv
<1> SUFFICES ASSUME Init PROVE QueueInv
  OBVIOUS
<1>1. /\ response_queue_ = <<>> /\ got = <<>> /\ snd = <<>> /\ handled = <<>>
      /\ Len(response_queue_) = 0 /\ Len(snd) = 0 /\ Len(handled) = 0
  BY DEF Init
<1>2. SendBuffer \in Nat
  BY HttpServingAssumption
<1> QED
  BY <1>1, <1>2 DEF QueueInv, QueueTypes, InTurn

\* What a send puts into the send buffer: the beginning of a response, as much
\* of it as there is room for.
LEMMA Sending ==
  ASSUME QueueInv, Send
  PROVE  LET n == IF ResponseLen < SendBuffer - Len(snd) THEN ResponseLen ELSE SendBuffer - Len(snd)
         IN  /\ n \in 0..ResponseLen /\ n + Len(snd) <= SendBuffer
             /\ snd' \in Seq(Units) /\ Len(snd) \in Nat /\ Len(snd') = Len(snd) + n
             /\ \A k \in 1..Len(snd) : snd'[k] = snd[k]
             /\ \A k \in 1..n : snd'[Len(snd) + k] = <<response_queue_[1], k>>
<1> DEFINE room == SendBuffer - Len(snd)
           n == IF ResponseLen < room THEN ResponseLen ELSE room
           i == response_queue_[1]
           a == Response(i)
           b == SubSeq(a, 1, n)
<1>0. ResponseLen \in Nat \ {0} /\ SendBuffer \in Nat \ {0}
  BY HttpServingAssumption
<1>1. /\ snd \in Seq(Units) /\ Len(snd) < SendBuffer
      /\ response_queue_ \in Seq(Requests) /\ response_queue_ # <<>>
  BY DEF QueueInv, QueueTypes, Send
<1>2. Head(response_queue_) = i /\ i \in Requests
  BY <1>1, Tailing
<1>3. snd' = snd \o b
  BY <1>2 DEF Send
<1>4. n \in 0..ResponseLen /\ n + Len(snd) <= SendBuffer /\ Len(snd) \in Nat
  BY <1>0, <1>1
<1>5. a \in Seq(Units) /\ Len(a) = ResponseLen /\ \A k \in 1..ResponseLen : a[k] = <<i, k>>
  BY <1>0, <1>2 DEF Response, Units
<1> HIDE DEF a, n, i
<1>6. b \in Seq(Units) /\ Len(b) = n /\ \A k \in 1..n : b[k] = a[k]
  <2>1. n \in 0..Len(a) /\ a \in Seq(Units)
    BY <1>4, <1>5
  <2> QED
    BY <2>1, Slices
<1> HIDE DEF b
<1>7. /\ snd \o b \in Seq(Units) /\ Len(snd \o b) = Len(snd) + Len(b)
      /\ \A k \in 1..Len(snd) : (snd \o b)[k] = snd[k]
      /\ \A k \in 1..Len(b) : (snd \o b)[Len(snd) + k] = b[k]
  <2>1. snd \in Seq(Units) /\ b \in Seq(Units)
    BY <1>1, <1>6
  <2> QED
    BY <2>1, Concatenation
<1>8. \A k \in 1..n : snd'[Len(snd) + k] = <<i, k>>
  <2>1. \A k \in 1..n : k \in 1..ResponseLen
    BY <1>0, <1>4
  <2> QED
    BY <1>3, <1>5, <1>6, <1>7, <2>1
<1>9. snd' \in Seq(Units) /\ Len(snd') = Len(snd) + n /\ \A k \in 1..Len(snd) : snd'[k] = snd[k]
  BY <1>3, <1>6, <1>7
<1> QED
  BY <1>4, <1>8, <1>9 DEF n, i

\* A step pops the first response, or appends that of the next request, or
\* leaves the queue as it is.
LEMMA NextQueue ==
  ASSUME StreamInv, QueueInv, Next
  PROVE  QueueInv'
<1>0. SendBuffer \in Nat
  BY HttpServingAssumption
<1>1. /\ response_queue_ \in Seq(Requests) /\ got \in Seq(Units) /\ snd \in Seq(Units)
      /\ Len(response_queue_) \in Nat /\ Len(handled) \in Nat
      /\ Len(response_queue_) <= Len(handled)
      /\ \A k \in 1..Len(response_queue_) : response_queue_[k] = Taken + k
      /\ Taken = Len(handled) - Len(response_queue_)
  BY DEF QueueInv, QueueTypes, InTurn, StreamInv, StreamTypes, Taken
<1>2. CASE ClientRead
  <2>1. got' = got \o snd /\ snd' = <<>> /\ UNCHANGED <<response_queue_, handled>>
    BY <1>2 DEF ClientRead
  <2>2. got \o snd \in Seq(Units)
    BY <1>1, Concatenation
  <2>3. snd' \in Seq(Units) /\ Len(snd') = 0
    BY <2>1
  <2>4. QueueTypes'
    BY <1>0, <1>1, <2>1, <2>2, <2>3 DEF QueueTypes
  <2> QED
    BY <2>1, <2>4 DEF QueueInv, InTurn, Taken
<1>3. CASE HandleRead
  <2>1. /\ Len(handled) + 1 \in Requests
        /\ handled' = Append(handled, Bytes(Len(handled) + 1))
        /\ response_queue_' = Append(response_queue_, Len(handled) + 1)
        /\ UNCHANGED <<got, snd>>
    BY <1>3, Handling
  <2>2. Bytes(Len(handled) + 1) \in Seq(Wire) /\ handled \in Seq(Seq(Wire))
    BY <2>1, RequestBytes DEF StreamInv, StreamTypes
  <2>3. Len(handled') = Len(handled) + 1
    BY <2>1, <2>2, Appending
  <2>4. /\ response_queue_' \in Seq(Requests) /\ Len(response_queue_') = Len(response_queue_) + 1
        /\ \A k \in 1..Len(response_queue_) : response_queue_'[k] = response_queue_[k]
        /\ response_queue_'[Len(response_queue_) + 1] = Len(handled) + 1
    BY <1>1, <2>1, Appending
  <2>5. Taken' = Taken /\ Taken + (Len(response_queue_) + 1) = Len(handled) + 1
    BY <1>1, <2>3, <2>4 DEF Taken
  <2>6. ASSUME NEW k \in 1..Len(response_queue_') PROVE response_queue_'[k] = Taken' + k
    <3>1. CASE k \in 1..Len(response_queue_)
      BY <1>1, <2>4, <2>5, <3>1
    <3>2. CASE k = Len(response_queue_) + 1
      BY <2>4, <2>5, <3>2
    <3> QED
      BY <1>1, <2>4, <3>1, <3>2
  <2>7. InTurn'
    BY <1>1, <2>3, <2>4, <2>6 DEF InTurn
  <2>8. QueueTypes'
    BY <2>1, <2>4 DEF QueueInv, QueueTypes
  <2> QED
    BY <2>7, <2>8 DEF QueueInv
<1>4. CASE Send
  <2>1. /\ response_queue_' = Tail(response_queue_) /\ response_queue_ # <<>>
        /\ UNCHANGED <<got, handled>>
    BY <1>4 DEF Send, client
  <2>2. /\ response_queue_' \in Seq(Requests) /\ Len(response_queue_) \in Nat \ {0}
        /\ Len(response_queue_') = Len(response_queue_) - 1
        /\ \A k \in 1..Len(response_queue_) - 1 : response_queue_'[k] = response_queue_[k + 1]
    BY <1>1, <2>1, Tailing
  <2>3. Taken' = Taken + 1 /\ Taken \in Nat
    BY <1>1, <2>1, <2>2 DEF Taken
  <2>4. ASSUME NEW k \in 1..Len(response_queue_') PROVE response_queue_'[k] = Taken' + k
    <3>1. k + 1 \in 1..Len(response_queue_) /\ k \in 1..Len(response_queue_) - 1
          /\ Taken' + k = Taken + (k + 1)
      BY <1>1, <2>2, <2>3
    <3> QED
      BY <1>1, <2>2, <3>1
  <2>5. InTurn'
    BY <1>1, <2>1, <2>2, <2>4 DEF InTurn
  <2>6. snd' \in Seq(Units) /\ Len(snd') <= SendBuffer
    <3> DEFINE n == IF ResponseLen < SendBuffer - Len(snd) THEN ResponseLen ELSE SendBuffer - Len(snd)
    <3>1. /\ snd' \in Seq(Units) /\ Len(snd') = Len(snd) + n
          /\ n + Len(snd) <= SendBuffer /\ n \in 0..ResponseLen
      BY <1>4, Sending
    <3>2. Len(snd) \in Nat /\ n \in Nat
      BY <1>1, <3>1, HttpServingAssumption
    <3> HIDE DEF n
    <3> QED
      BY <3>1, <3>2
  <2> QED
    BY <1>1, <2>1, <2>2, <2>5, <2>6 DEF QueueInv, QueueTypes
<1>5. CASE UNCHANGED <<response_queue_, got, snd, handled>>
  BY <1>5 DEF QueueInv, QueueTypes, InTurn, Taken
<1>6. \/ ClientRead \/ HandleRead \/ Send \/ UNCHANGED <<response_queue_, got, snd, handled>>
  BY DEF Next, Handler, ClientSend, ClientFin, Break, EpollWait, TakeTask, HangUp, Recv, RecvEnd,
         Incomplete, SendFails, AllSent, Idle, client, buffers, vars
<1> QED
  BY <1>2, <1>3, <1>4, <1>5, <1>6

-----------------------------------------------------------------------------
(* The theorems                                                               *)

\* The inductive invariant.
LEMMA InvHolds == Spec => []Inv
<1>1. Init => Inv
  BY InitEvents, InitStream, InitQueue DEF Inv
<1>2. Inv /\ [Next]_vars => Inv'
  <2> SUFFICES ASSUME Inv, [Next]_vars PROVE Inv'
    OBVIOUS
  <2>1. CASE UNCHANGED vars
    BY <2>1 DEF vars, Inv, EventInv, EventTypes, Dispatch, Armed, WriteDue, StreamInv, StreamTypes,
                InStream, FramingExact, Consumed, Reached, QueueInv, QueueTypes, InTurn, Taken
  <2>2. CASE Next
    <3>1. EventInv /\ StreamInv /\ QueueInv
      BY DEF Inv
    <3>2. StreamInv' /\ QueueInv'
      BY <2>2, <3>1, NextStream, NextQueue
    <3>3. EventInv'
      <4>1. Len(snd) \in Nat /\ Len(snd) <= SendBuffer
        BY <3>1 DEF QueueInv, QueueTypes
      <4>2. CASE Idle
        BY <3>1, <4>2 DEF Idle, vars, EventInv, EventTypes, Dispatch, Armed, WriteDue
      <4> QED
        BY <2>2, <3>1, <4>1, <4>2, ClientEvents, EpollEvents, HandlerEvents DEF Next
    <3> QED
      BY <3>2, <3>3 DEF Inv
  <2> QED
    BY <2>1, <2>2
<1> QED
  BY <1>1, <1>2, PTL DEF Spec

\* The types of the connection, its buffers and the epoll registration.
THEOREM TypeOKHolds == Spec => []TypeOK
<1>1. Inv => TypeOK
  BY DEF Inv, EventInv, EventTypes, Events, StreamInv, StreamTypes, QueueInv, QueueTypes, TypeOK
<1> QED
  BY <1>1, InvHolds, PTL

\* No response is forgotten in the queue, in neither loop and however late the
\* events are handled: OnReadable and OnWritable arm for the right event.
THEOREM NoResponseForgottenHolds == Spec => []NoResponseForgotten
<1>1. Inv => NoResponseForgotten
  <2> SUFFICES ASSUME Inv, response_queue_ # <<>>, link \in {"up", "fin"}
               PROVE  mask = "OUT" /\ (edge \/ tasks # <<>> \/ Len(snd) = SendBuffer)
    BY DEF NoResponseForgotten
  <2>1. mask = "OUT" /\ (edge \/ Len(snd) = SendBuffer \/ WriteDue)
    BY DEF Inv, EventInv, Armed
  <2>2. WriteDue => tasks # <<>>
    BY DEF WriteDue
  <2> QED
    BY <2>1, <2>2
<1> QED
  BY <1>1, InvHolds, PTL

\* Whatever pieces the bytes of whatever requests arrive in, OnReadable handles
\* the requests in order, each once and whole.
THEOREM FramingExactHolds == Spec => []FramingExact
<1>1. Inv => FramingExact
  BY DEF Inv, StreamInv
<1> QED
  BY <1>1, InvHolds, PTL

-----------------------------------------------------------------------------
(* Responses in order, when the send buffer has room for them                 *)

\* Multiples of the length of a response.
LEMMA Multiples ==
  ASSUME NEW a \in Nat, NEW b \in Nat, NEW F \in Nat \ {0}
  PROVE  /\ a * F \in Nat /\ b * F \in Nat
         /\ (a + 1) * F = a * F + F
         /\ a * F = b * F => a = b
         /\ a * F < b * F => a < b
         /\ a <= b => a * F <= b * F
         /\ a < b => a * F + F <= b * F
OBVIOUS

\* Quotient and remainder.
LEMMA Quotient ==
  ASSUME NEW n \in Nat, NEW F \in Nat \ {0}, NEW L \in Nat, n < L * F
  PROVE  /\ n \div F \in Nat /\ n \div F < L
         /\ n % F \in 0..F - 1
         /\ n = (n \div F) * F + (n % F)
OBVIOUS

\* What the client has and will have, when the send buffer grows by n.
LEMMA Extending ==
  ASSUME NEW S, NEW g \in Seq(S), NEW s \in Seq(S), NEW t \in Seq(S), NEW n \in Nat,
         Len(t) = Len(s) + n, \A k \in 1..Len(s) : t[k] = s[k]
  PROVE  /\ Len(g \o t) = Len(g) + Len(s) + n
         /\ \A k \in 1..Len(g) + Len(s) : (g \o t)[k] = (g \o s)[k]
         /\ \A k \in 1..n : (g \o t)[Len(g) + Len(s) + k] = t[Len(s) + k]
<1>1. Len(g) \in Nat /\ Len(s) \in Nat /\ Len(t) \in Nat
  OBVIOUS
<1>2. /\ Len(g \o t) = Len(g) + Len(t)
      /\ \A k \in 1..Len(g) : (g \o t)[k] = g[k] /\ (g \o s)[k] = g[k]
      /\ \A k \in 1..Len(t) : (g \o t)[Len(g) + k] = t[k]
      /\ \A k \in 1..Len(s) : (g \o s)[Len(g) + k] = s[k]
  <2>1. \A u \in Seq(S) : /\ Len(g \o u) = Len(g) + Len(u)
                          /\ \A k \in 1..Len(g) : (g \o u)[k] = g[k]
                          /\ \A k \in 1..Len(u) : (g \o u)[Len(g) + k] = u[k]
    BY Concatenation
  <2> QED
    BY <2>1
<1>3. ASSUME NEW k \in 1..Len(g) + Len(s) PROVE (g \o t)[k] = (g \o s)[k]
  <2>1. CASE k \in 1..Len(g)
    BY <1>2, <2>1
  <2>2. CASE k \notin 1..Len(g)
    <3> DEFINE j == k - Len(g)
    <3>1. j \in 1..Len(s) /\ j \in 1..Len(t) /\ Len(g) + j = k
      BY <1>1, <2>2
    <3>2. (g \o t)[Len(g) + j] = t[j] /\ (g \o s)[Len(g) + j] = s[j] /\ t[j] = s[j]
      <4> HIDE DEF j
      <4> QED
        BY <1>2, <3>1
    <3> QED
      BY <3>1, <3>2
  <2> QED
    BY <2>1, <2>2
<1>4. ASSUME NEW k \in 1..n PROVE (g \o t)[Len(g) + Len(s) + k] = t[Len(s) + k]
  <2>1. Len(s) + k \in 1..Len(t) /\ Len(g) + Len(s) + k = Len(g) + (Len(s) + k)
    BY <1>1
  <2> QED
    BY <1>2, <2>1
<1> QED
  BY <1>1, <1>2, <1>3, <1>4

\* The numbers of the connection.
LEMMA Numbers ==
  ASSUME Inv
  PROVE  /\ ResponseLen \in Nat \ {0} /\ SendBuffer \in Nat \ {0}
         /\ Len(got) \in Nat /\ Len(snd) \in Nat /\ Len(handled) \in Nat /\ Taken \in Nat
         /\ Taken <= Len(handled) /\ Len(handled) <= Len(Bodies) /\ Len(Bodies) \in Nat
         /\ Len(unsent) \in Nat /\ Len(read_buffer_) \in Nat /\ Len(rcv) \in Nat
         /\ Len(Input) \in Nat /\ Consumed \in Nat
<1>1. ResponseLen \in Nat \ {0} /\ SendBuffer \in Nat \ {0}
  BY HttpServingAssumption
<1>2. /\ Len(got) \in Nat /\ Len(snd) \in Nat /\ Len(handled) \in Nat /\ Len(response_queue_) \in Nat
      /\ Len(unsent) \in Nat /\ Len(read_buffer_) \in Nat /\ Len(rcv) \in Nat
      /\ Len(response_queue_) <= Len(handled) /\ Len(handled) <= Len(Bodies)
  BY DEF Inv, QueueInv, QueueTypes, InTurn, StreamInv, StreamTypes, InStream
<1> QED
  BY <1>1, <1>2, Positions DEF Taken, Consumed

\* A response that is sent fits the send buffer: the client that waits has read
\* all the others.
LEMMA Fits ==
  ASSUME AnswersFit, Inv, OrderInv, response_queue_ # <<>>
  PROVE  Len(snd) + ResponseLen <= SendBuffer
<1> DEFINE h == Len(handled)  R == ResponseLen  t == Taken
<1>1. /\ R \in Nat \ {0} /\ SendBuffer \in Nat /\ Len(got) \in Nat /\ Len(snd) \in Nat
      /\ h \in Nat /\ t \in Nat /\ Len(Bodies) \in Nat /\ h <= Len(Bodies)
  BY Numbers
<1>2. t < h
  BY DEF Inv, QueueInv, QueueTypes, InTurn, StreamInv, StreamTypes, Taken
<1>3. Len(got) + Len(snd) = t * R
  BY DEF OrderInv, OnWire
<1>4. CASE ~pipelining
  <2>1. Len(got) + R >= h * R
    BY <1>4 DEF OrderInv, Waits
  <2> HIDE DEF h, R, t
  <2>2. t * R \in Nat /\ h * R \in Nat /\ t * R + R <= h * R
    BY <1>1, <1>2, Multiples
  <2>3. R <= SendBuffer
    BY DEF AnswersFit, R
  <2>4. Len(snd) = 0
    BY <1>1, <1>3, <2>1, <2>2
  <2> QED
    BY <1>1, <2>3, <2>4 DEF R
<1>5. CASE pipelining
  <2>1. TRUE \in Clients
    BY <1>5, HttpServingAssumption DEF OrderInv
  <2>2. R * Len(Bodies) <= SendBuffer
    BY <2>1 DEF AnswersFit
  <2> HIDE DEF h, R, t
  <2>3. t < Len(Bodies)
    BY <1>1, <1>2
  <2>4. t * R \in Nat /\ Len(Bodies) * R \in Nat /\ t * R + R <= Len(Bodies) * R
    BY <1>1, <2>3, Multiples
  <2>5. R * Len(Bodies) = Len(Bodies) * R
    BY <1>1
  <2> QED
    BY <1>1, <1>3, <2>2, <2>4, <2>5 DEF R
<1> QED
  BY <1>4, <1>5

\* OnWire for every step.
LEMMA NextOnWire ==
  ASSUME AnswersFit, Inv, OrderInv, Next
  PROVE  OnWire'
<1> DEFINE R == ResponseLen  w == got \o snd  t == Taken
<1>1. /\ R \in Nat \ {0} /\ Len(got) \in Nat /\ Len(snd) \in Nat /\ t \in Nat /\ SendBuffer \in Nat
      /\ Len(handled) \in Nat
  BY Numbers
<1>2. /\ got \in Seq(Units) /\ snd \in Seq(Units) /\ response_queue_ \in Seq(Requests)
      /\ handled \in Seq(Seq(Wire))
  BY DEF Inv, QueueInv, QueueTypes, StreamInv, StreamTypes
<1>3. /\ Len(got) + Len(snd) = t * R
      /\ \A i \in 1..t, r \in 1..R : w[(i - 1) * R + r] = <<i, r>>
  BY DEF OrderInv, OnWire
<1>4. CASE ClientRead
  <2>1. got' = w /\ snd' = <<>> /\ UNCHANGED <<response_queue_, handled>>
    BY <1>4 DEF ClientRead
  <2>2. got' \o snd' = w /\ Len(w) = Len(got) + Len(snd) /\ Len(snd') = 0
    <3>1. w \in Seq(Units) /\ Len(w) = Len(got) + Len(snd)
      BY <1>2, Concatenation
    <3> HIDE DEF w
    <3> QED
      BY <2>1, <3>1
  <2>3. Taken' = t
    BY <2>1 DEF Taken
  <2>4. Len(got') + Len(snd') = t * R
    <3>1. Len(got') = Len(got) + Len(snd)
      BY <2>1, <2>2
    <3> HIDE DEF t, R
    <3> QED
      BY <1>1, <1>3, <2>2, <3>1
  <2>5. \A i \in 1..Taken', r \in 1..R : (got' \o snd')[(i - 1) * R + r] = <<i, r>>
    <3> HIDE DEF t, R, w
    <3> QED
      BY <1>3, <2>2, <2>3
  <2> QED
    BY <2>3, <2>4, <2>5 DEF OnWire
<1>5. CASE HandleRead
  <2>1. /\ handled' = Append(handled, Bytes(Len(handled) + 1)) /\ Len(handled) + 1 \in Requests
        /\ response_queue_' = Append(response_queue_, Len(handled) + 1)
        /\ UNCHANGED <<got, snd>>
    BY <1>5, Handling DEF Inv
  <2>2. Bytes(Len(handled) + 1) \in Seq(Wire)
    BY <2>1, RequestBytes
  <2>3. Len(handled') = Len(handled) + 1
    BY <1>2, <2>1, <2>2, Appending
  <2>4. Len(response_queue_') = Len(response_queue_) + 1 /\ Len(response_queue_) \in Nat
    BY <1>2, <2>1, Appending
  <2>5. Taken' = t
    BY <1>1, <2>3, <2>4 DEF Taken
  <2> QED
    BY <1>3, <2>1, <2>5 DEF OnWire
<1>6. CASE Send
  <2>1. /\ response_queue_ # <<>> /\ response_queue_' = Tail(response_queue_) /\ UNCHANGED <<got, handled>>
    BY <1>6 DEF Send, client
  <2>2. Len(response_queue_) \in Nat \ {0} /\ Len(response_queue_') = Len(response_queue_) - 1
    BY <1>2, <2>1, Tailing
  <2>3. Taken' = t + 1
    BY <1>1, <2>1, <2>2 DEF Taken
  <2>4. response_queue_[1] = t + 1
    <3>1. 1 \in 1..Len(response_queue_)
      BY <2>2
    <3> QED
      BY <3>1 DEF Inv, QueueInv, InTurn
  <2>5. Len(snd) + R <= SendBuffer
    BY <2>1, Fits
  <2>6. /\ snd' \in Seq(Units) /\ Len(snd') = Len(snd) + R
        /\ \A k \in 1..Len(snd) : snd'[k] = snd[k]
        /\ \A k \in 1..R : snd'[Len(snd) + k] = <<t + 1, k>>
    <3> DEFINE n == IF ResponseLen < SendBuffer - Len(snd) THEN ResponseLen ELSE SendBuffer - Len(snd)
    <3>1. n = R
      BY <1>1, <2>5
    <3>2. /\ snd' \in Seq(Units) /\ Len(snd') = Len(snd) + n
          /\ \A k \in 1..Len(snd) : snd'[k] = snd[k]
          /\ \A k \in 1..n : snd'[Len(snd) + k] = <<response_queue_[1], k>>
      BY <1>6, Sending DEF Inv
    <3> QED
      BY <2>4, <3>1, <3>2
  <2> DEFINE v == got \o snd'
  <2>7. /\ \A k \in 1..Len(got) + Len(snd) : v[k] = w[k]
        /\ \A k \in 1..R : v[Len(got) + Len(snd) + k] = snd'[Len(snd) + k]
    <3>1. R \in Nat
      BY <1>1
    <3>2. /\ got \in Seq(Units) /\ snd \in Seq(Units) /\ snd' \in Seq(Units)
          /\ Len(snd') = Len(snd) + R /\ \A k \in 1..Len(snd) : snd'[k] = snd[k]
      BY <1>2, <2>6
    <3> HIDE DEF R
    <3>3. /\ \A k \in 1..Len(got) + Len(snd) : (got \o snd')[k] = (got \o snd)[k]
          /\ \A k \in 1..R : (got \o snd')[Len(got) + Len(snd) + k] = snd'[Len(snd) + k]
      BY <3>1, <3>2, Extending
    <3> QED
      BY <3>3
  <2> HIDE DEF v, w, R, t
  <2>8. /\ t * R \in Nat /\ (t + 1) * R = t * R + R
        /\ \A i \in 1..t : (i - 1) * R \in Nat /\ (i - 1) * R + R <= t * R
    <3>1. \A i \in 1..t : i - 1 \in Nat /\ i - 1 < t
      BY <1>1
    <3> QED
      BY <1>1, <3>1, Multiples
  <2>9. ASSUME NEW i \in 1..t + 1, NEW r \in 1..R PROVE v[(i - 1) * R + r] = <<i, r>>
    <3>1. CASE i \in 1..t
      <4>1. (i - 1) * R + r \in 1..Len(got) + Len(snd)
        BY <1>1, <1>3, <2>8, <3>1
      <4> QED
        BY <1>3, <2>7, <3>1, <4>1
    <3>2. CASE i = t + 1
      <4>1. (i - 1) * R + r = Len(got) + Len(snd) + r
        BY <1>1, <1>3, <3>2
      <4> QED
        BY <2>6, <2>7, <3>2, <4>1
    <3> QED
      BY <1>1, <3>1, <3>2
  <2>10. Len(got) + Len(snd') = (t + 1) * R
    <3>1. Len(snd') = Len(snd) + R /\ Len(got) + Len(snd) = t * R /\ (t + 1) * R = t * R + R
      BY <1>3, <2>6, <2>8
    <3> QED
      BY <1>1, <3>1
  <2> QED
    BY <2>1, <2>3, <2>9, <2>10 DEF OnWire, v, R
<1>7. CASE UNCHANGED <<response_queue_, got, snd, handled>>
  BY <1>7 DEF OrderInv, OnWire, Taken
<1>8. \/ ClientRead \/ HandleRead \/ Send \/ UNCHANGED <<response_queue_, got, snd, handled>>
  BY DEF Next, Handler, ClientSend, ClientFin, Break, EpollWait, TakeTask, HangUp, Recv, RecvEnd,
         Incomplete, SendFails, AllSent, Idle, client, buffers, vars
<1> QED
  BY <1>4, <1>5, <1>6, <1>7, <1>8

\* The first byte of a request is where the client is at a boundary.
LEMMA FirstByte ==
  ASSUME NEW i \in Requests
  PROVE  Input[Start[i] + 1].req = i /\ Input[Start[i] + 1].kind \in {"line", "length"}
<1>1. Bodies[i] \in Nat /\ Bytes(i)[1] = Byte(i, IF Bodies[i] > 0 THEN "length" ELSE "line")
  BY RequestBytes
<1>2. 1 \in 1..2 + Bodies[i]
  BY <1>1
<1>3. Input[Start[i] + 1] = Bytes(i)[1]
  BY <1>2, InputBytes
<1> QED
  BY <1>1, <1>3 DEF Byte

\* A client that waits starts a request when it has all responses, and sends no
\* byte of the next one with it.
LEMMA ClientSendWaits ==
  ASSUME Inv, OrderInv, ~pipelining, NEW n \in 1..Len(unsent), ClientSend(n)
  PROVE  Waits'
<1> DEFINE h == Len(handled)  c == Consumed  e == Reached  R == ResponseLen  i == h + 1  L == Len(Bodies)
<1>1. /\ R \in Nat \ {0} /\ h \in Nat /\ L \in Nat /\ h <= L /\ c \in Nat /\ Len(Input) \in Nat
      /\ Len(got) \in Nat /\ Len(unsent) \in Nat /\ Len(read_buffer_) \in Nat /\ Len(rcv) \in Nat
  BY Numbers
<1>2. /\ link = "up" /\ link' = "up" /\ UNCHANGED <<handled, got, pipelining>>
      /\ AtBoundary => Satisfied
      /\ \A k \in 1..n : unsent[k].req = Head(unsent).req
      /\ unsent' = SubSeq(unsent, n + 1, Len(unsent))
  BY DEF ClientSend
<1>3. /\ e = Len(Input) - Len(unsent) /\ e = c + Len(read_buffer_) + Len(rcv)
      /\ \A k \in 1..Len(unsent) : unsent[k] = Input[e + k]
      /\ unsent \in Seq(Wire)
  BY <1>2 DEF Inv, StreamInv, StreamTypes, InStream, Reached
<1>4. unsent # <<>> /\ Head(unsent) = Input[e + 1]
  <2>1. unsent # <<>> /\ 1 \in 1..Len(unsent)
    BY <1>1
  <2> QED
    BY <1>3, <2>1, Tailing
<1>5. e \in Nat /\ c <= e /\ e + n <= Len(Input) /\ n \in Nat /\ n > 0
  BY <1>1, <1>3
<1>6. \A k \in 1..n : Input[e + k].req = Input[e + 1].req
  <2>1. \A k \in 1..n : k \in 1..Len(unsent)
    BY <1>1
  <2> QED
    BY <1>2, <1>3, <1>4, <2>1
<1>7. Input[e + 1].kind \in {"line", "length"} => Len(got) = R * (Input[e + 1].req - 1)
  BY <1>2, <1>4 DEF AtBoundary, Satisfied
<1>8. Consumed' = c /\ Reached' = e + n
  <2>1. n \in 0..Len(unsent)
    BY <1>1
  <2>2. Len(unsent') = Len(unsent) - n
    BY <1>2, <1>3, <2>1, Slices
  <2>3. Reached' = Len(Input) - Len(unsent')
    BY DEF Reached
  <2>4. Consumed' = c
    BY <1>2 DEF Consumed
  <2> QED
    BY <1>1, <1>3, <2>2, <2>3, <2>4
<1>9. /\ Len(got) + R >= h * R
      /\ \/ e = c
         \/ h < L /\ c < e /\ e <= Start[h + 2] /\ Len(got) = h * R
  BY <1>2 DEF OrderInv, Waits
<1>10. c = Start[i] /\ Start[L + 1] = Len(Input)
  BY Positions DEF Consumed
<1> HIDE DEF h, c, e, R, L
<1>11. i \in Requests /\ h < L
  <2>1. h # L
    BY <1>1, <1>5, <1>10
  <2> QED
    BY <1>1, <2>1 DEF Requests, L
<1>12. /\ Bodies[i] \in Nat /\ Start[i + 1] = c + 2 + Bodies[i]
       /\ \A k \in 1..2 + Bodies[i] : Input[c + k].req = i
  <2>1. /\ Bodies[i] \in Nat /\ Start[i + 1] = Start[i] + 2 + Bodies[i]
        /\ \A k \in 1..2 + Bodies[i] : Input[Start[i] + k] = Bytes(i)[k]
    BY <1>11, InputBytes, RequestBytes
  <2>2. \A k \in 1..2 + Bodies[i] : Bytes(i)[k].req = i
    BY <1>11, RequestBytes
  <2> QED
    BY <1>10, <2>1, <2>2
<1>13. \A p \in Nat : p = Start[i + 1] /\ p < Len(Input) =>
          /\ Input[p + 1].req = i + 1 /\ Input[p + 1].kind \in {"line", "length"}
  <2>1. Start[i + 1] < Len(Input) => i + 1 \in Requests
    <3>1. h + 1 # L \/ ~(Start[i + 1] < Len(Input))
      BY <1>1, <1>10
    <3> QED
      BY <1>1, <1>11, <3>1 DEF Requests, L
  <2> QED
    BY <2>1, FirstByte
<1>14. h * R \in Nat /\ i * R = h * R + R /\ R * (i - 1) = h * R /\ R * i = i * R
  BY <1>1, Multiples
<1>15. /\ e < Start[i + 1] /\ Input[e + 1].req = i /\ Len(got) = h * R
  <2>1. CASE e = c
    <3>1. Input[e + 1].req = i /\ Input[e + 1].kind \in {"line", "length"}
      BY <1>10, <1>11, <2>1, FirstByte
    <3>2. Len(got) = R * (i - 1)
      BY <1>7, <3>1
    <3> QED
      BY <1>1, <1>12, <1>14, <2>1, <3>1, <3>2
  <2>2. CASE c < e /\ e <= Start[h + 2] /\ Len(got) = h * R
    <3>1. h + 2 = i + 1 /\ e < Len(Input)
      BY <1>1, <1>5
    <3>2. e # Start[i + 1]
      <4>1. SUFFICES ASSUME e = Start[i + 1] PROVE FALSE
        OBVIOUS
      <4>2. Input[e + 1].req = i + 1 /\ Input[e + 1].kind \in {"line", "length"}
        BY <1>5, <1>13, <3>1, <4>1
      <4>3. Len(got) = R * ((i + 1) - 1)
        BY <1>7, <4>2
      <4>4. (i + 1) - 1 = i
        BY <1>1
      <4>5. Len(got) = i * R
        BY <1>14, <4>3, <4>4
      <4> QED
        BY <1>1, <1>14, <2>2, <4>5
    <3>3. e < Start[i + 1]
      <4>1. Start[i + 1] \in Nat
        BY <1>1, <1>12
      <4>2. e <= Start[i + 1]
        BY <2>2, <3>1
      <4> QED
        BY <1>5, <3>2, <4>1, <4>2
    <3>4. (e + 1) - c \in 1..2 + Bodies[i] /\ c + ((e + 1) - c) = e + 1
      BY <1>1, <1>5, <1>12, <2>2, <3>3
    <3>5. Input[e + 1].req = i
      BY <1>12, <3>4
    <3> QED
      BY <2>2, <3>3, <3>5
  <2> QED
    BY <1>9, <2>1, <2>2
<1>16. e + n <= Start[i + 1]
  <2>1. SUFFICES ASSUME Start[i + 1] < e + n PROVE FALSE
    BY <1>1, <1>5, <1>12
  <2> DEFINE p == Start[i + 1]  k == (p - e) + 1
  <2>2. p \in Nat /\ p < Len(Input) /\ k \in 1..n /\ e + k = p + 1
    <3>1. p \in Nat /\ e < p /\ p < e + n
      <4>1. p \in Nat
        BY <1>1, <1>12
      <4> QED
        BY <1>15, <2>1, <4>1
    <3> HIDE DEF p
    <3> QED
      BY <1>1, <1>5, <3>1
  <2>3. Input[p + 1].req = i + 1
    BY <1>13, <2>2
  <2>4. Input[e + k].req = i
    <3> HIDE DEF k
    <3> QED
      BY <1>6, <1>15, <2>2
  <2> QED
    BY <1>1, <2>2, <2>3, <2>4
<1>17. Start[h + 2] = Start[i + 1]
  BY <1>1
<1>18. /\ Len(got') + R >= h * R /\ h < L
       /\ c < e + n /\ e + n <= Start[h + 2] /\ Len(got') = h * R
  BY <1>1, <1>2, <1>5, <1>9, <1>11, <1>15, <1>16, <1>17
<1> QED
  BY <1>2, <1>8, <1>18 DEF Waits, h, R, L

\* Waits for every step.
LEMMA NextWaits ==
  ASSUME Inv, OrderInv, Next
  PROVE  Waits'
<1>0. pipelining' = pipelining
  BY DEF Next, Handler, ClientSend, ClientRead, ClientFin, Break, EpollWait, TakeTask, HangUp, Recv,
         RecvEnd, Incomplete, HandleRead, Send, SendFails, AllSent, Idle, client, vars
<1>1. SUFFICES ASSUME ~pipelining PROVE Waits'
  BY <1>0 DEF Waits
<1> DEFINE h == Len(handled)  R == ResponseLen
<1>2. /\ R \in Nat \ {0} /\ h \in Nat /\ Taken \in Nat /\ Taken <= h /\ Len(got) \in Nat
      /\ Len(snd) \in Nat /\ Consumed \in Nat /\ Len(read_buffer_) \in Nat /\ Len(rcv) \in Nat
  BY Numbers
<1>3. /\ Len(got) + R >= h * R
      /\ link \in {"up", "fin"} =>
           \/ Reached = Consumed
           \/ /\ h < Len(Bodies) /\ Consumed < Reached /\ Reached <= Start[h + 2]
              /\ Len(got) = h * R
  BY <1>1 DEF OrderInv, Waits
<1>4. CASE \E n \in 1..Len(unsent) : ClientSend(n)
  BY <1>1, <1>4, ClientSendWaits
<1>5. CASE ClientRead
  <2>1. /\ got' = got \o snd /\ snd # <<>> /\ link \in {"up", "fin"}
        /\ UNCHANGED <<handled, unsent, link>>
    BY <1>5 DEF ClientRead
  <2>2. got \in Seq(Units) /\ snd \in Seq(Units)
    BY DEF Inv, QueueInv, QueueTypes
  <2>3. Len(got') = Len(got) + Len(snd) /\ Len(snd) # 0
    <3>1. Len(got \o snd) = Len(got) + Len(snd)
      BY <2>2, Concatenation
    <3> QED
      BY <2>1, <2>2, <3>1
  <2>4. Len(got) + Len(snd) = Taken * R /\ Taken * R <= h * R /\ h * R \in Nat /\ Taken * R \in Nat
    <3>1. Len(got) + Len(snd) = Taken * R
      BY DEF OrderInv, OnWire
    <3> HIDE DEF h, R
    <3> QED
      BY <1>2, <3>1, Multiples
  <2>5. Consumed' = Consumed /\ Reached' = Reached
    BY <2>1 DEF Consumed, Reached
  <2>6. Reached = Consumed
    BY <1>2, <1>3, <2>1, <2>3, <2>4
  <2>7. Len(got') + R >= h * R
    BY <1>2, <1>3, <2>3, <2>4
  <2> QED
    BY <2>1, <2>5, <2>6, <2>7 DEF Waits
<1>6. CASE HandleRead
  <2> DEFINE i == h + 1
  <2>1. /\ i \in Requests /\ handled' = Append(handled, Bytes(i))
        /\ 2 + Bodies[i] \in 0..Len(read_buffer_)
        /\ UNCHANGED <<unsent, got, link>> /\ link = "up"
    BY <1>6, Handling DEF Inv
  <2>2. /\ Bytes(i) \in Seq(Wire) /\ Bodies[i] \in Nat /\ Start[i] \in Nat
        /\ Start[i + 1] = Start[i] + 2 + Bodies[i]
    BY <2>1, RequestBytes, InputBytes
  <2>3. Len(handled') = i
    <3>1. handled \in Seq(Seq(Wire))
      BY DEF Inv, StreamInv, StreamTypes
    <3> QED
      BY <2>1, <2>2, <3>1, Appending
  <2>4. Consumed = Start[i] /\ Consumed' = Start[i + 1] /\ Reached' = Reached
    BY <2>1, <2>3 DEF Consumed, Reached
  <2>5. Reached = Consumed + Len(read_buffer_) + Len(rcv)
    BY <2>1 DEF Inv, StreamInv, InStream
  <2> HIDE DEF h, R
  <2>6. Reached >= Start[i + 1] /\ Reached # Consumed
    <3>1. /\ Bodies[i] \in Nat /\ 2 + Bodies[i] <= Len(read_buffer_)
          /\ Start[i + 1] = Consumed + 2 + Bodies[i]
      BY <1>2, <2>1, <2>2, <2>4
    <3> HIDE DEF i
    <3> QED
      BY <1>2, <2>5, <3>1
  <2>7. h + 2 = i + 1
    BY <1>2
  <2>8. Reached = Start[i + 1] /\ Len(got) = h * R
    <3>1. Reached <= Start[i + 1] /\ Len(got) = h * R
      BY <1>3, <2>1, <2>6, <2>7
    <3>2. Start[i + 1] \in Nat /\ Reached \in Nat
      <4>1. Reached \in Nat
        BY <1>2, <2>5
      <4>2. Start[i] \in Nat /\ Bodies[i] \in Nat /\ Start[i + 1] = Start[i] + 2 + Bodies[i]
        BY <2>2
      <4> HIDE DEF i
      <4> QED
        BY <4>1, <4>2
    <3> HIDE DEF i
    <3> QED
      BY <2>6, <3>1, <3>2
  <2>9. i * R = h * R + R /\ h * R \in Nat
    BY <1>2, Multiples
  <2>10. Len(got') + R >= Len(handled') * R
    <3>1. Len(got') = h * R /\ Len(handled') * R = h * R + R
      BY <2>1, <2>3, <2>8, <2>9
    <3> QED
      BY <1>2, <2>9, <3>1
  <2> QED
    BY <2>4, <2>8, <2>10 DEF Waits, R
<1>7. CASE /\ UNCHANGED <<got, handled, unsent>>
           /\ link' \in {"up", "fin"} => link \in {"up", "fin"}
  BY <1>1, <1>3, <1>7 DEF Waits, Consumed, Reached
<1>8. \/ \E n \in 1..Len(unsent) : ClientSend(n)
      \/ ClientRead \/ HandleRead
      \/ /\ UNCHANGED <<got, handled, unsent>>
         /\ link' \in {"up", "fin"} => link \in {"up", "fin"}
  BY DEF Next, Handler, ClientFin, Break, EpollWait, TakeTask, HangUp, Recv, RecvEnd,
         Incomplete, Send, SendFails, AllSent, Idle, client, buffers, vars
<1> QED
  BY <1>4, <1>5, <1>6, <1>7, <1>8

\* What the theorems about responses rest on.
LEMMA OrderInvHolds ==
  ASSUME AnswersFit
  PROVE  Spec => [](Inv /\ OrderInv)
<1>1. Init => OrderInv
  <2> SUFFICES ASSUME Init PROVE OrderInv
    OBVIOUS
  <2>1. /\ Len(got) = 0 /\ Len(snd) = 0 /\ Len(handled) = 0 /\ Len(response_queue_) = 0
        /\ unsent = Input
    BY DEF Init
  <2>2. Taken = 0 /\ Consumed = 0 /\ Reached = 0
    BY <2>1, Positions DEF Taken, Consumed, Reached
  <2>3. ResponseLen \in Nat \ {0}
    BY HttpServingAssumption
  <2>4. OnWire
    BY <2>1, <2>2, <2>3 DEF OnWire
  <2>5. Waits
    BY <2>1, <2>2, <2>3 DEF Waits
  <2> QED
    BY <2>4, <2>5 DEF OrderInv, Init
<1>2. Inv /\ OrderInv /\ [Next]_vars => OrderInv'
  <2> SUFFICES ASSUME Inv, OrderInv, [Next]_vars PROVE OrderInv'
    OBVIOUS
  <2>1. CASE UNCHANGED vars
    BY <2>1 DEF vars, OrderInv, OnWire, Waits, Taken, Consumed, Reached
  <2>2. CASE Next
    <3>1. pipelining' = pipelining
      BY <2>2 DEF Next, Handler, ClientSend, ClientRead, ClientFin, Break, EpollWait, TakeTask,
                  HangUp, Recv, RecvEnd, Incomplete, HandleRead, Send, SendFails, AllSent, Idle,
                  client, vars
    <3> QED
      BY <2>2, <3>1, NextOnWire, NextWaits DEF OrderInv
  <2> QED
    BY <2>1, <2>2
<1> QED
  BY <1>1, <1>2, InvHolds, PTL DEF Spec

\* When every response fits the socket's send buffer (one of them, for clients
\* that wait; all, for clients that pipeline) the client only ever receives the
\* responses to its requests, in order and whole.  Without room OnWritable pops
\* a response it has sent in part (see SentBeforeRead).
THEOREM ResponsesInOrderHolds ==
  ASSUME AnswersFit
  PROVE  Spec => []ResponsesInOrder
<1>1. Inv /\ OrderInv => ResponsesInOrder
  <2> SUFFICES ASSUME Inv, OrderInv PROVE ResponsesInOrder
    OBVIOUS
  <2> DEFINE w == got \o snd  R == ResponseLen  t == Taken  h == Len(handled)  A == Answers(h)
  <2>1. R \in Nat \ {0} /\ t \in Nat /\ h \in Nat /\ t <= h
    BY Numbers
  <2>2. w \in Seq(Units) /\ Len(w) = t * R
    <3>1. got \in Seq(Units) /\ snd \in Seq(Units)
      BY DEF Inv, QueueInv, QueueTypes
    <3>2. w \in Seq(Units) /\ Len(w) = Len(got) + Len(snd)
      BY <3>1, Concatenation
    <3> QED
      BY <3>2 DEF OrderInv, OnWire
  <2>3. \A i \in 1..t, r \in 1..R : w[(i - 1) * R + r] = <<i, r>>
    BY DEF OrderInv, OnWire
  <2>4. A = [k \in 1..h * R |-> <<((k - 1) \div R) + 1, ((k - 1) % R) + 1>>]
    BY DEF Answers
  <2> HIDE DEF w, R, t, h, A
  <2>5. h * R \in Nat /\ t * R \in Nat /\ t * R <= h * R
    BY <2>1, Multiples
  <2>6. ASSUME NEW k \in 1..t * R PROVE w[k] = A[k]
    <3> DEFINE q == (k - 1) \div R  r == (k - 1) % R
    <3>1. k - 1 \in Nat /\ k - 1 < t * R /\ k \in 1..h * R
      BY <2>5
    <3>2. q \in Nat /\ q < t /\ r \in 0..R - 1 /\ k - 1 = q * R + r
      BY <2>1, <3>1, Quotient
    <3>3. A[k] = <<q + 1, r + 1>>
      BY <2>4, <3>1
    <3> HIDE DEF q, r
    <3>4. q + 1 \in 1..t /\ r + 1 \in 1..R /\ (q + 1) - 1 = q
      BY <2>1, <3>2
    <3>5. q * R \in Nat
      BY <2>1, <3>2, Multiples
    <3>6. q * R + (r + 1) = k
      BY <2>1, <3>2, <3>5
    <3> QED
      BY <2>3, <3>3, <3>4, <3>6
  <2>7. Len(A) = h * R
    BY <2>4, <2>5
  <2>8. SubSeq(w, 1, Len(w)) = SubSeq(A, 1, Len(w))
    BY <2>2, <2>5, <2>6
  <2> QED
    BY <2>2, <2>5, <2>7, <2>8 DEF ResponsesInOrder, IsPrefix, w, A, h
<1> QED
  BY <1>1, OrderInvHolds, PTL

-----------------------------------------------------------------------------
(* A server at rest has answered                                              *)

\* The safety half of EveryRequestAnswered: when the server waits in epoll_wait and
\* the client has read what was sent, a client that waits for each response has
\* those to all requests it has sent.  No request is left in a buffer without an
\* event that will bring it up.
RestsWhenAnswered == Quiet /\ link = "up" /\ snd = <<>> /\ ~pipelining =>
                       \A i \in Requests : Sent(i) => Len(got) >= i * ResponseLen

\* Bytes that wait in the receive buffer of a descriptor that is registered for
\* reading have an event.
ReadDue == mask = "IN" /\ rcv # <<>> /\ link \in {"up", "fin"} =>
             edge \/ \E k \in 1..Len(tasks) : "IN" \in tasks[k]

\* A request of a client that waits is not left in read_buffer_ once it is whole.
WholeIsRead == ~pipelining /\ link = "up" /\ Complete(read_buffer_) => pc = "reading"

RestInv == ReadDue /\ WholeIsRead

\* ReadDue for every step.
LEMMA NextReadDue ==
  ASSUME Inv, ReadDue, Next
  PROVE  ReadDue'
<1> DEFINE InDue == \E k \in 1..Len(tasks) : "IN" \in tasks[k]
<1>0. tasks \in Seq(Events)
  BY DEF Inv, EventInv, EventTypes
<1>1. CASE /\ UNCHANGED <<mask, rcv, tasks>> /\ (edge => edge')
           /\ link' \in {"up", "fin"} => link \in {"up", "fin"}
  BY <1>1 DEF ReadDue
<1>2. CASE mask' = "IN" => edge'
  BY <1>2 DEF ReadDue
<1>3. CASE link' \notin {"up", "fin"} \/ rcv' = <<>>
  BY <1>3 DEF ReadDue
<1>4. CASE EpollWait
  <2> DEFINE events == {e \in {"IN", "OUT", "HUP"} :
                          \/ e = "IN" /\ mask = "IN" /\ Readable
                          \/ e = "OUT" /\ mask = "OUT" /\ Writable
                          \/ e = "HUP" /\ link = "broken"}
  <2>1. /\ tasks' = IF events = {} THEN tasks ELSE Append(tasks, events)
        /\ UNCHANGED <<mask, rcv, link>>
    BY <1>4 DEF EpollWait, buffers
  <2>2. mask = "IN" /\ rcv # <<>> => "IN" \in events
    BY DEF Readable
  <2>3. events \in SUBSET {"IN", "OUT", "HUP"}
    OBVIOUS
  <2> HIDE DEF events
  <2>4. CASE mask = "IN" /\ rcv # <<>>
    <3>1. tasks' = Append(tasks, events) /\ events \in Events
      BY <2>1, <2>2, <2>3, <2>4 DEF Events
    <3>2. Len(tasks) + 1 \in 1..Len(tasks') /\ tasks'[Len(tasks) + 1] = events
      BY <1>0, <3>1, Appending
    <3> QED
      BY <2>2, <2>4, <3>2 DEF ReadDue
  <2> QED
    BY <2>1, <2>4 DEF ReadDue
<1>5. CASE Recv
  <2>1. 1 \in 1..Len(tasks) /\ "IN" \in tasks[1] /\ tasks' = tasks
    BY <1>0, <1>5 DEF Recv, Inv, EventInv, Dispatch
  <2> QED
    BY <2>1 DEF ReadDue
<1>6. CASE SendFails
  <2>1. /\ pc = "writing" /\ Return /\ UNCHANGED <<mask, rcv, edge, link>>
    BY <1>6 DEF SendFails, buffers
  <2>2. tasks # <<>> /\ EventTypes
    BY <2>1 DEF Inv, EventInv, Dispatch
  <2>3. "IN" \notin tasks[1]
    <3>1. 1 \in 1..Len(tasks) /\ "OUT" \in tasks[1]
      BY <1>0, <2>1 DEF Inv, EventInv, Dispatch
    <3> QED
      BY <3>1 DEF Inv, EventInv, Dispatch
  <2>4. ASSUME NEW k \in 1..Len(tasks), "IN" \in tasks[k]
        PROVE  \E j \in 1..Len(tasks') : "IN" \in tasks'[j]
    <3>1. CASE pc' = "hangup" /\ tasks' = tasks
      BY <2>4, <3>1
    <3>2. CASE /\ pc' = "idle" /\ Len(tasks) \in Nat \ {0} /\ Len(tasks') = Len(tasks) - 1
               /\ \A j \in 1..Len(tasks) - 1 : tasks'[j] = tasks[j + 1]
      <4>1. k # 1
        BY <2>3, <2>4
      <4>2. k - 1 \in 1..Len(tasks') /\ k - 1 \in 1..Len(tasks) - 1 /\ (k - 1) + 1 = k
        BY <3>2, <4>1
      <4>3. tasks'[k - 1] = tasks[k]
        BY <3>2, <4>2
      <4> QED
        BY <2>4, <4>2, <4>3
    <3> QED
      BY <2>1, <2>2, <3>1, <3>2, Returning
  <2> QED
    BY <2>1, <2>4 DEF ReadDue
<1>7. CASE AllSent
  <2>1. rcv' # <<>> => edge'
    BY <1>7 DEF AllSent, Arm, Readable
  <2> QED
    BY <2>1 DEF ReadDue
<1>8. CASE \/ \E n \in 1..Len(unsent) : ClientSend(n)
           \/ ClientRead \/ ClientFin \/ TakeTask \/ Send \/ Idle
  <2>1. CASE \E n \in 1..Len(unsent) : ClientSend(n)
    BY <1>2, <2>1 DEF ClientSend
  <2>2. CASE ClientFin
    BY <1>2, <2>2 DEF ClientFin
  <2>3. CASE ClientRead
    BY <1>1, <2>3 DEF ClientRead
  <2>4. CASE TakeTask \/ Send \/ Idle
    BY <1>1, <2>4 DEF TakeTask, Send, Idle, client, buffers, vars
  <2> QED
    BY <1>8, <2>1, <2>2, <2>3, <2>4
<1>9. CASE Break \/ HangUp
  BY <1>3, <1>9 DEF Break, HangUp
<1>10. CASE RecvEnd \/ Incomplete \/ HandleRead
  BY <1>3, <1>10 DEF RecvEnd, Incomplete, HandleRead, buffers
<1> QED
  BY <1>4, <1>5, <1>6, <1>7, <1>8, <1>9, <1>10 DEF Next, Handler

\* HandleRead leaves nothing of a client that waits in read_buffer_.
LEMMA NothingLeft ==
  ASSUME Inv, OrderInv, ~pipelining, HandleRead
  PROVE  read_buffer_' = <<>>
<1> DEFINE h == Len(handled)  i == h + 1  r == Len(read_buffer_)  m == 2 + Bodies[i]
<1>1. /\ i \in Requests /\ m \in 0..r /\ link = "up" /\ h \in Nat
      /\ read_buffer_' = SubSeq(read_buffer_, m + 1, r)
  BY Handling DEF Inv
<1>2. Bodies[i] \in Nat /\ Start[i] \in Nat /\ Start[i + 1] = Start[i] + 2 + Bodies[i]
  BY <1>1, RequestBytes, InputBytes
<1>3. r \in Nat /\ Len(rcv) \in Nat /\ Consumed \in Nat
  BY Numbers
<1>4. Reached = Consumed + r + Len(rcv) /\ Consumed = Start[i] /\ read_buffer_ \in Seq(Wire)
  BY <1>1 DEF Inv, StreamInv, StreamTypes, InStream, Consumed
<1>5. Reached = Consumed \/ Reached <= Start[h + 2]
  BY <1>1 DEF OrderInv, Waits
<1>6. h + 2 = i + 1
  BY <1>1
<1>7. r = m
  <2> DEFINE b == Bodies[i]  s == Start[i + 1]
  <2>1. s = Consumed + 2 + b /\ b \in Nat
    <3>1. Consumed = Start[i]
      BY <1>4
    <3> QED
      BY <1>2, <3>1
  <2>2. m \in 0..r /\ m = 2 + b /\ r \in Nat
    BY <1>1, <1>3
  <2>3. Reached = Consumed \/ Reached <= s
    BY <1>5, <1>6
  <2>4. Reached = Consumed + r + Len(rcv)
    BY <1>4
  <2>5. r = 2 + b
    <3> HIDE DEF b, s, r, m
    <3>1. 2 + b <= r
      BY <2>1, <2>2
    <3> QED
      BY <1>3, <2>1, <2>3, <2>4, <3>1
  <2> QED
    BY <2>5
<1> HIDE DEF r, m
<1>8. Len(SubSeq(read_buffer_, m + 1, r)) = 0 /\ SubSeq(read_buffer_, m + 1, r) \in Seq(Wire)
  BY <1>1, <1>3, <1>4, <1>7, Slices DEF r
<1> QED
  BY <1>1, <1>8

\* WholeIsRead for every step: OnReadable returns to epoll_wait only without a
\* whole request, or with the response queued.
LEMMA NextWholeIsRead ==
  ASSUME Inv, OrderInv, WholeIsRead, Next
  PROVE  WholeIsRead'
<1>0. pipelining' = pipelining
  BY DEF Next, Handler, ClientSend, ClientRead, ClientFin, Break, EpollWait, TakeTask, HangUp, Recv,
         RecvEnd, Incomplete, HandleRead, Send, SendFails, AllSent, Idle, client, vars
<1>1. SUFFICES ASSUME ~pipelining, link' = "up", Complete(read_buffer_)' PROVE pc' = "reading"
  BY <1>0 DEF WholeIsRead
<1>2. CASE HandleRead
  <2>1. read_buffer_' = <<>>
    BY <1>1, <1>2, NothingLeft
  <2>2. ~Complete(read_buffer_)'
    BY <2>1 DEF Complete, HeaderEnds
  <2> QED
    BY <1>1, <2>2
<1>3. CASE Recv
  BY <1>3 DEF Recv
<1>4. CASE read_buffer_' = read_buffer_ /\ link = "up" /\ (pc = "reading" => pc' = "reading")
  <2>1. Complete(read_buffer_)
    BY <1>1, <1>4 DEF Complete, HeaderEnds, RequestLen, HeaderEnd, ContentLength
  <2> QED
    BY <1>1, <1>4, <2>1 DEF WholeIsRead
<1>5. CASE Incomplete
  <2>1. read_buffer_' = read_buffer_ /\ ~Complete(read_buffer_)
    BY <1>5 DEF Incomplete, buffers
  <2> QED
    BY <1>1, <2>1 DEF Complete, HeaderEnds, RequestLen, HeaderEnd, ContentLength
<1>6. CASE ClientFin \/ Break \/ HangUp \/ RecvEnd
  BY <1>1, <1>6 DEF ClientFin, Break, HangUp, RecvEnd
<1>7. CASE \/ \E n \in 1..Len(unsent) : ClientSend(n)
           \/ ClientRead \/ EpollWait \/ TakeTask \/ Send \/ SendFails \/ AllSent \/ Idle
  BY <1>1, <1>4, <1>7 DEF ClientSend, ClientRead, EpollWait, TakeTask, Send, SendFails, AllSent, Idle,
                          client, buffers, vars
<1> QED
  BY <1>2, <1>3, <1>5, <1>6, <1>7 DEF Next, Handler

\* A whole request in read_buffer_ is found complete.
LEMMA WholeIsComplete ==
  ASSUME Inv, Len(handled) + 1 \in Requests,
         Len(read_buffer_) >= 2 + Bodies[Len(handled) + 1]
  PROVE  Complete(read_buffer_)
<1> DEFINE i == Len(handled) + 1
<1>1. /\ read_buffer_ \in Seq(Wire) /\ Len(read_buffer_) \in Nat
      /\ \A k \in 1..Len(read_buffer_) : read_buffer_[k] = Input[Start[i] + k]
  BY DEF Inv, StreamInv, StreamTypes, InStream, Consumed
<1>2. Bodies[i] \in Nat
  BY RequestBytes
<1> HIDE DEF i
<1>3. Len(read_buffer_) >= 2 /\ i \in Requests
  BY <1>1, <1>2 DEF i
<1>4. HeaderEnds(read_buffer_) # {} /\ RequestLen(read_buffer_) = 2 + Bodies[i]
  BY <1>1, <1>3, LengthFound
<1> QED
  BY <1>4 DEF Complete, i

\* A server that waits in epoll_wait owes nothing to a client that waits for its
\* responses, when these fit the send buffer: the safety half of
\* EveryRequestAnswered.
THEOREM RestsWhenAnsweredHolds ==
  ASSUME AnswersFit
  PROVE  Spec => []RestsWhenAnswered
<1>1. Init => RestInv
  <2> SUFFICES ASSUME Init PROVE RestInv
    OBVIOUS
  <2>1. read_buffer_ = <<>> /\ rcv = <<>>
    BY DEF Init
  <2> QED
    BY <2>1 DEF RestInv, ReadDue, WholeIsRead, Complete, HeaderEnds
<1>2. Inv /\ OrderInv /\ RestInv /\ [Next]_vars => RestInv'
  <2> SUFFICES ASSUME Inv, OrderInv, RestInv, [Next]_vars PROVE RestInv'
    OBVIOUS
  <2>1. CASE UNCHANGED vars
    BY <2>1 DEF vars, RestInv, ReadDue, WholeIsRead, Complete, HeaderEnds, RequestLen, HeaderEnd,
                ContentLength
  <2>2. CASE Next
    BY <2>2, NextReadDue, NextWholeIsRead DEF RestInv
  <2> QED
    BY <2>1, <2>2
<1>3. Inv /\ OrderInv /\ RestInv => RestsWhenAnswered
  <2> SUFFICES ASSUME Inv, OrderInv, RestInv, Quiet, link = "up", snd = <<>>, ~pipelining,
                      NEW i \in Requests, Sent(i)
               PROVE  Len(got) >= i * ResponseLen
    BY DEF RestsWhenAnswered
  <2> DEFINE h == Len(handled)  R == ResponseLen
  <2>1. /\ R \in Nat \ {0} /\ SendBuffer \in Nat \ {0} /\ h \in Nat /\ Len(Bodies) \in Nat
        /\ h <= Len(Bodies) /\ Consumed \in Nat /\ Len(Input) \in Nat /\ Len(got) \in Nat
        /\ Len(unsent) \in Nat /\ Len(read_buffer_) \in Nat
    BY Numbers
  <2>2. pc = "idle" /\ tasks = <<>> /\ edge = FALSE /\ Len(snd) = 0 /\ Len(tasks) = 0
    BY DEF Quiet, Inv, EventInv, EventTypes
  <2>3. mask = "IN" /\ response_queue_ = <<>>
    <3>1. ~WriteDue
      BY <2>2 DEF WriteDue
    <3>2. Len(snd) # SendBuffer
      BY <2>1, <2>2
    <3> QED
      BY <2>2, <3>1, <3>2 DEF Inv, EventInv, EventTypes, Armed
  <2>4. rcv = <<>>
    BY <2>2, <2>3 DEF RestInv, ReadDue
  <2>5. ~Complete(read_buffer_)
    BY <2>2 DEF RestInv, WholeIsRead
  <2>6. Len(got) = h * R
    <3>1. Len(response_queue_) = 0
      BY <2>3
    <3>2. Taken = h
      BY <2>1, <3>1 DEF Taken
    <3>3. Len(got) + Len(snd) = Taken * R
      BY DEF OrderInv, OnWire
    <3> HIDE DEF h, R
    <3> QED
      BY <2>1, <2>2, <3>2, <3>3
  <2>7. Reached = Len(Input) - Len(unsent) /\ Reached = Consumed + Len(read_buffer_)
    <3>1. Len(rcv) = 0
      BY <2>4
    <3>2. Reached = Consumed + Len(read_buffer_) + Len(rcv)
      BY DEF Inv, StreamInv, InStream
    <3> QED
      BY <2>1, <3>1, <3>2 DEF Reached
  <2>8. i <= h
    <3>1. CASE h = Len(Bodies)
      BY <2>1, <3>1 DEF Requests
    <3>2. CASE h # Len(Bodies)
      <4> DEFINE j == h + 1  b == Bodies[j]
      <4>1. j \in Requests
        BY <2>1, <3>2 DEF Requests
      <4>2. /\ b \in Nat /\ Start[j + 1] = Consumed + 2 + b
            /\ \A k \in 1..2 + b : Input[Consumed + k].req = j
        <5>1. Consumed = Start[j]
          BY DEF Consumed
        <5>2. /\ b \in Nat /\ Start[j + 1] = Start[j] + 2 + b
              /\ \A k \in 1..2 + b : Input[Start[j] + k] = Bytes(j)[k]
          BY <4>1, InputBytes, RequestBytes
        <5>3. \A k \in 1..2 + b : Bytes(j)[k].req = j
          BY <4>1, RequestBytes
        <5> QED
          BY <5>1, <5>2, <5>3
      <4>3. Start[j + 1] <= Len(Input)
        <5>1. j + 1 \in 1..Len(Bodies) + 1
          BY <2>1, <4>1 DEF Requests
        <5> QED
          BY <2>1, <5>1, InputAssumption
      <4>4. Len(read_buffer_) < 2 + b
        <5>1. ~(Len(read_buffer_) >= 2 + Bodies[Len(handled) + 1])
          BY <2>5, <4>1, WholeIsComplete
        <5> QED
          BY <2>1, <4>2, <5>1
      <4> HIDE DEF b, j
      <4>5. /\ Len(unsent) > 0 /\ Len(read_buffer_) + 1 \in 1..2 + b
            /\ Reached + 1 = Consumed + (Len(read_buffer_) + 1)
        BY <2>1, <2>7, <4>2, <4>3, <4>4
      <4>6. unsent # <<>> /\ Head(unsent) = Input[Reached + 1]
        <5>1. unsent \in Seq(Wire) /\ \A k \in 1..Len(unsent) : unsent[k] = Input[Reached + k]
          BY DEF Inv, StreamInv, StreamTypes, InStream
        <5>2. unsent # <<>> /\ 1 \in 1..Len(unsent)
          BY <2>1, <4>5, <5>1
        <5> QED
          BY <5>1, <5>2, Tailing
      <4>7. Head(unsent).req = j
        BY <4>2, <4>5, <4>6
      <4>8. j > i
        BY <4>6, <4>7 DEF Sent
      <4> QED
        BY <2>1, <4>8 DEF Requests, j
    <3> QED
      BY <3>1, <3>2
  <2>9. i * R <= h * R /\ i * R \in Nat /\ h * R \in Nat
    <3>1. i \in Nat
      BY <2>1 DEF Requests
    <3> HIDE DEF h, R
    <3> QED
      BY <2>1, <2>8, <3>1, Multiples
  <2> QED
    BY <2>6, <2>9
<1> QED
  BY <1>1, <1>2, <1>3, OrderInvHolds, PTL DEF Spec

-----------------------------------------------------------------------------
(* A server at rest has closed what broke                                     *)

\* The safety half of BrokenIsClosed: the backend does not wait in epoll_wait with
\* a connection that broke and was not closed.
RestsWhenClosed == ~inline /\ Quiet => link # "broken"

\* A connection that broke has an event to come, or a task that carries EPOLLHUP.
HupDue == ~inline /\ link = "broken" => edge \/ \E k \in 1..Len(tasks) : "HUP" \in tasks[k]

\* OnReadable and OnWritable return to the hang-up, or leave it to a later task.
LEMMA ReturnHup ==
  ASSUME EventTypes, tasks # <<>>, Return, ~inline,
         NEW k \in 1..Len(tasks), "HUP" \in tasks[k]
  PROVE  \E j \in 1..Len(tasks') : "HUP" \in tasks'[j]
<1>0. tasks \in Seq(Events)
  BY DEF EventTypes
<1>1. CASE pc' = "hangup"
  <2>1. tasks' = tasks
    BY <1>1 DEF Return
  <2> QED
    BY <2>1
<1>2. CASE pc' # "hangup"
  <2>1. "HUP" \notin tasks[1]
    <3>1. Head(tasks) = tasks[1]
      BY <1>0
    <3> QED
      BY <1>2, <3>1 DEF Return
  <2>2. /\ Len(tasks) \in Nat \ {0} /\ Len(tasks') = Len(tasks) - 1
        /\ \A j \in 1..Len(tasks) - 1 : tasks'[j] = tasks[j + 1]
    BY <1>2, Returning
  <2>3. k - 1 \in 1..Len(tasks') /\ k - 1 \in 1..Len(tasks) - 1 /\ (k - 1) + 1 = k
    BY <2>1, <2>2
  <2>4. tasks'[k - 1] = tasks[k]
    BY <2>2, <2>3
  <2> QED
    BY <2>3, <2>4
<1> QED
  BY <1>1, <1>2

\* HupDue for every step.
LEMMA NextHupDue ==
  ASSUME Inv, HupDue, Next
  PROVE  HupDue'
<1>0. tasks \in Seq(Events) /\ EventTypes
  BY DEF Inv, EventInv, EventTypes
<1>1. CASE UNCHANGED <<inline, tasks>> /\ (edge => edge') /\ (link' = "broken" => link = "broken")
  BY <1>1 DEF HupDue
<1>2. CASE link' = "broken" => edge'
  BY <1>2 DEF HupDue
<1>3. CASE EpollWait
  <2> DEFINE events == {e \in {"IN", "OUT", "HUP"} :
                          \/ e = "IN" /\ mask = "IN" /\ Readable
                          \/ e = "OUT" /\ mask = "OUT" /\ Writable
                          \/ e = "HUP" /\ link = "broken"}
  <2>1. tasks' = (IF events = {} THEN tasks ELSE Append(tasks, events)) /\ link' = link
    BY <1>3 DEF EpollWait
  <2>2. link = "broken" => "HUP" \in events
    OBVIOUS
  <2>3. events \in SUBSET {"IN", "OUT", "HUP"}
    OBVIOUS
  <2> HIDE DEF events
  <2>4. CASE link = "broken"
    <3>1. tasks' = Append(tasks, events) /\ events \in Events
      BY <2>1, <2>2, <2>3, <2>4 DEF Events
    <3>2. Len(tasks) + 1 \in 1..Len(tasks') /\ tasks'[Len(tasks) + 1] = events
      BY <1>0, <3>1, Appending
    <3> QED
      BY <2>2, <2>4, <3>2 DEF HupDue
  <2> QED
    BY <2>1, <2>4 DEF HupDue
<1>4. CASE RecvEnd \/ Incomplete \/ SendFails
  <2>1. Return /\ UNCHANGED <<inline, edge, link>> /\ pc \in {"reading", "writing"}
    BY <1>4 DEF RecvEnd, Incomplete, SendFails, client
  <2>2. tasks # <<>>
    BY <2>1 DEF Inv, EventInv, Dispatch
  <2>3. ASSUME ~inline, NEW k \in 1..Len(tasks), "HUP" \in tasks[k]
        PROVE  \E j \in 1..Len(tasks') : "HUP" \in tasks'[j]
    BY <1>0, <2>1, <2>2, <2>3, ReturnHup
  <2> QED
    BY <2>1, <2>3 DEF HupDue
<1>5. CASE HandleRead \/ AllSent \/ Break
  <2>1. link' = "broken" => edge'
    BY <1>5 DEF HandleRead, AllSent, Break, Arm, Readable, Writable
  <2> QED
    BY <1>2, <2>1
<1>6. CASE \/ \E n \in 1..Len(unsent) : ClientSend(n)
           \/ ClientRead \/ ClientFin
  BY <1>1, <1>6 DEF ClientSend, ClientRead, ClientFin, client
<1>7. CASE TakeTask \/ Recv \/ Send \/ Idle
  BY <1>1, <1>7 DEF TakeTask, Recv, Send, Idle, client, vars
<1>8. CASE HangUp
  BY <1>2, <1>8 DEF HangUp
<1> QED
  BY <1>3, <1>4, <1>5, <1>6, <1>7, <1>8 DEF Next, Handler

\* Whatever the mask and the tasks under way when a connection breaks, the backend's
\* loop comes to rest only when HandleClientClosedConnection has closed it: the
\* EPOLLHUP is in the ready list or in a task, and no return from OnReadable or
\* OnWritable loses it.
THEOREM RestsWhenClosedHolds == Spec => []RestsWhenClosed
<1>1. Init => HupDue
  BY DEF Init, HupDue
<1>2. Inv /\ HupDue /\ [Next]_vars => HupDue'
  <2>1. UNCHANGED vars /\ HupDue => HupDue'
    BY DEF vars, HupDue
  <2> QED
    BY <2>1, NextHupDue
<1>3. HupDue => RestsWhenClosed
  <2> SUFFICES ASSUME HupDue, ~inline, Quiet, link = "broken" PROVE FALSE
    BY DEF RestsWhenClosed
  <2>1. ~edge /\ Len(tasks) = 0
    BY DEF Quiet
  <2>2. ~(\E k \in 1..Len(tasks) : "HUP" \in tasks[k])
    BY <2>1
  <2> QED
    BY <2>1, <2>2 DEF HupDue
<1> QED
  BY <1>1, <1>2, <1>3, InvHolds, PTL DEF Spec
=============================================================================
