----------------------------- MODULE HttpServing -----------------------------
(* One HTTP connection: the client, the socket with its two kernel buffers,  *)
(* the edge-triggered epoll registration, the event loop and the             *)
(* HttpConnection (OnReadable, HandleRead, OnWritable).                      *)
(*                                                                           *)
(* The server runs the connection's events one after the other.  That is     *)
(* stream-pocket/main.cpp (inline: the loop calls the handlers itself) and   *)
(* backend/main.cpp with one worker thread (not inline: the loop enqueues    *)
(* tasks, so an event may be handled late).  Requests are well-formed; a     *)
(* request is a sequence of bytes of which the parser tells apart header     *)
(* lines, the blank line that ends the headers, and the body.                *)
EXTENDS Naturals, Sequences, SequencesExt

CONSTANTS Bodies,       \* Bodies[i]: the length of the body of request i
          Input,        \* the bytes of all requests, one request after the other
          Start,        \* Start[i]: how many bytes of Input come before request i
          ReadChunk,    \* MAX_READ_CHUNK_SIZE
          ResponseLen,  \* the size of a response, header and body
          SendBuffer,   \* the size of the socket's send buffer
          Clients,      \* the values pipelining may have
          Loops,        \* the values inline may have
          MayReset      \* the connection may break

ASSUME HttpServingAssumption == /\ Bodies \in Seq(Nat)
                                /\ ReadChunk \in Nat \ {0}
                                /\ ResponseLen \in Nat \ {0}
                                /\ SendBuffer \in Nat \ {0}
                                /\ Clients \subseteq BOOLEAN /\ Loops \subseteq BOOLEAN
                                /\ MayReset \in BOOLEAN

\* A request on the wire: a header line (with the Content-Length if there is a
\* body), the blank line, the body.
Requests == 1..Len(Bodies)
Wire == [req : Requests, kind : {"line", "length", "blank", "body"}]
Byte(i, kind) == [req |-> i, kind |-> kind]
Bytes(i) == <<Byte(i, IF Bodies[i] > 0 THEN "length" ELSE "line"), Byte(i, "blank")>>
              \o [k \in 1..Bodies[i] |-> Byte(i, "body")]

ASSUME InputAssumption ==
  /\ Input \in Seq(Wire)
  /\ Start \in [1..Len(Bodies) + 1 -> 0..Len(Input)]
  /\ Start[1] = 0 /\ Start[Len(Bodies) + 1] = Len(Input)
  /\ \A i \in Requests : /\ Start[i + 1] = Start[i] + 2 + Bodies[i]
                         /\ SubSeq(Input, Start[i] + 1, Start[i + 1]) = Bytes(i)

\* A response on the wire: ResponseLen units.
Units == Requests \X (1..ResponseLen)
Response(i) == [k \in 1..ResponseLen |-> <<i, k>>]

\* The responses to the first n requests, one after the other.
Answers(n) == [k \in 1..n * ResponseLen |->
                 <<((k - 1) \div ResponseLen) + 1, ((k - 1) % ResponseLen) + 1>>]

VARIABLES unsent,           \* what the client has still to send
          rcv,              \* the socket's receive buffer
          read_buffer_,     \* bytes received and not yet consumed
          response_queue_,  \* the requests whose responses wait to be sent
          snd,              \* the socket's send buffer
          got,              \* what the client has received
          handled,          \* the requests handled, as the bytes they came in
          mask,             \* what the descriptor is registered for in epoll
          edge,             \* the descriptor is in epoll's ready list
          tasks,            \* the events enqueued for the worker
          pc,               \* what the thread that runs the handlers does
          link,             \* the connection: up, fin, broken or closed
          pipelining,       \* the client sends without waiting for the answer
          inline            \* handlers run in the event loop, not on a worker

vars == <<unsent, rcv, read_buffer_, response_queue_, snd, got, handled, mask, edge, tasks, pc, link,
          pipelining, inline>>
client == <<unsent, got, pipelining, inline>>
buffers == <<rcv, read_buffer_, response_queue_, snd, handled>>

Readable == rcv # <<>> \/ link \in {"fin", "broken"}
Writable == Len(snd) < SendBuffer \/ link = "broken"

Init == /\ unsent = Input
        /\ rcv = <<>> /\ read_buffer_ = <<>> /\ response_queue_ = <<>>
        /\ snd = <<>> /\ got = <<>> /\ handled = <<>>
        /\ mask = "IN" /\ edge = FALSE /\ tasks = <<>>
        /\ pc = "idle" /\ link = "up"
        /\ pipelining \in Clients /\ inline \in Loops

-----------------------------------------------------------------------------
(* The client and the network                                                *)

\* The client has received every response to what it has sent.
Satisfied == Len(got) = ResponseLen * (IF unsent = <<>> THEN Len(Bodies) ELSE Head(unsent).req - 1)
AtBoundary == IF unsent = <<>> THEN TRUE ELSE Head(unsent).kind \in {"line", "length"}

\* The next bytes arrive, split wherever TCP splits them.
ClientSend(n) == /\ link = "up"
                 /\ n \in 1..Len(unsent)
                 /\ AtBoundary /\ ~pipelining => Satisfied
                 /\ ~pipelining => \A k \in 1..n : unsent[k].req = Head(unsent).req
                 /\ rcv' = rcv \o SubSeq(unsent, 1, n)
                 /\ unsent' = SubSeq(unsent, n + 1, Len(unsent))
                 /\ edge' = (edge \/ mask = "IN")
                 /\ UNCHANGED <<read_buffer_, response_queue_, snd, got, handled, mask, tasks, pc, link,
                                pipelining, inline>>

\* The client reads what is in the send buffer, which makes room.
ClientRead == /\ link \in {"up", "fin"}
              /\ snd # <<>>
              /\ got' = got \o snd
              /\ snd' = <<>>
              /\ edge' = (edge \/ mask = "OUT")
              /\ UNCHANGED <<unsent, rcv, read_buffer_, response_queue_, handled, mask, tasks, pc, link,
                             pipelining, inline>>

\* The client closes its side, perhaps before it has its answer.
ClientFin == /\ link = "up"
             /\ link' = "fin"
             /\ edge' = (edge \/ mask = "IN")
             /\ UNCHANGED <<client, buffers, mask, tasks, pc>>

\* The connection breaks: EPOLLERR and EPOLLHUP are reported whatever the mask.
Break == /\ MayReset
         /\ link \in {"up", "fin"}
         /\ link' = "broken"
         /\ rcv' = <<>>
         /\ edge' = TRUE
         /\ UNCHANGED <<client, read_buffer_, response_queue_, snd, handled, mask, tasks, pc>>

-----------------------------------------------------------------------------
(* The event loop                                                            *)

\* epoll_wait returns the descriptor, with the events it is ready for now; an
\* entry that is ready for nothing any more is dropped.
EpollWait == /\ edge
             /\ link # "closed"
             /\ inline => pc = "idle" /\ tasks = <<>>
             /\ edge' = FALSE
             /\ LET events == {e \in {"IN", "OUT", "HUP"} :
                                 \/ e = "IN" /\ mask = "IN" /\ Readable
                                 \/ e = "OUT" /\ mask = "OUT" /\ Writable
                                 \/ e = "HUP" /\ link = "broken"}
                IN tasks' = IF events = {} THEN tasks ELSE Append(tasks, events)
             /\ UNCHANGED <<client, buffers, mask, pc, link>>

\* The handler thread takes the next event: read first, then write, then close.
\* (The mask holds EPOLLIN or EPOLLOUT, never both.)
TakeTask == /\ pc = "idle"
            /\ tasks # <<>>
            /\ pc' = CASE "IN" \in Head(tasks) -> "reading"
                       [] "OUT" \in Head(tasks) -> "writing"
                       [] OTHER -> "hangup"
            /\ UNCHANGED <<client, buffers, mask, edge, tasks, link>>

\* Mutated form of Return: EPOLLHUP and EPOLLERR are not looked at.
ReturnIgnoresHup == /\ pc' = "idle"
                    /\ tasks' = Tail(tasks)

\* Where the thread goes after OnReadable or OnWritable.  The inline loop of
\* stream-pocket closes only on an event without EPOLLIN.
Return == /\ pc' = IF "HUP" \in Head(tasks) /\ ~(inline /\ "IN" \in Head(tasks))
                      THEN "hangup" ELSE "idle"
          /\ tasks' = IF pc' = "hangup" THEN tasks ELSE Tail(tasks)

\* HandleClientClosedConnection: close the descriptor, forget the connection.
HangUp == /\ pc = "hangup"
          /\ pc' = "idle"
          /\ tasks' = Tail(tasks)
          /\ link' = "closed"
          /\ UNCHANGED <<client, buffers, mask, edge>>

-----------------------------------------------------------------------------
(* HttpConnection::OnReadable                                                *)

\* Phase 1: recv, up to MAX_READ_CHUNK_SIZE bytes, until there are no more.
Recv == /\ pc = "reading"
        /\ rcv # <<>>
        /\ LET n == IF Len(rcv) < ReadChunk THEN Len(rcv) ELSE ReadChunk
           IN /\ read_buffer_' = read_buffer_ \o SubSeq(rcv, 1, n)
              /\ rcv' = SubSeq(rcv, n + 1, Len(rcv))
        /\ UNCHANGED <<client, response_queue_, snd, handled, mask, edge, tasks, pc, link>>

\* recv returns 0 or fails: OnReadable returns, the descriptor stays open.
RecvEnd == /\ pc = "reading"
           /\ rcv = <<>>
           /\ link # "up"
           /\ Return
           /\ UNCHANGED <<client, buffers, mask, edge, link>>

\* Phase 2: the length of the first request in the buffer, if it is complete.
\* It ends with the body that follows the first blank line.
HeaderEnds(buf) == {k \in DOMAIN buf : buf[k].kind = "blank"}
HeaderEnd(buf) == CHOOSE k \in HeaderEnds(buf) : \A j \in HeaderEnds(buf) : k <= j
ContentLength(buf) == IF \E k \in 1..HeaderEnd(buf) : buf[k].kind = "length"
                        THEN Bodies[Head(buf).req] ELSE 0

\* Mutated form of RequestLen: the blank line is counted twice.
RequestLenOffByOne(buf) == HeaderEnd(buf) + ContentLength(buf) + 1

RequestLen(buf) == HeaderEnd(buf) + ContentLength(buf)

Complete(buf) == HeaderEnds(buf) # {} /\ Len(buf) >= RequestLen(buf)

\* Mutated form of Arm: the event mask holds EPOLLET only.
ArmNothing(m) == mask' = "ET" /\ edge' = FALSE

\* EPOLL_CTL_MOD registers for one kind of event and looks at once whether the
\* descriptor is ready for it.
Arm(m) == /\ mask' = m
          /\ edge' = IF m = "IN" THEN Readable' ELSE Writable'

\* EAGAIN, and no complete request yet: wait for more.
Incomplete == /\ pc = "reading"
              /\ rcv = <<>> /\ link = "up"
              /\ ~Complete(read_buffer_)
              /\ Return
              /\ UNCHANGED <<client, buffers, mask, edge, link>>

\* Mutated form of HandleRead: the response is queued, epoll is not told.
HandleReadUnarmed == /\ pc = "reading"
                     /\ rcv = <<>> /\ link = "up"
                     /\ Complete(read_buffer_)
                     /\ LET n == RequestLen(read_buffer_)
                        IN /\ handled' = Append(handled, SubSeq(read_buffer_, 1, n))
                           /\ read_buffer_' = SubSeq(read_buffer_, n + 1, Len(read_buffer_))
                     /\ response_queue_' = Append(response_queue_, Head(read_buffer_).req)
                     /\ UNCHANGED <<client, rcv, snd, link, mask, edge>>
                     /\ Return

\* Phase 3: consume the request, handle it (whatever the handler does it gives
\* a response, a 500 if it throws), queue the response and arm for writing.
HandleRead == /\ pc = "reading"
              /\ rcv = <<>> /\ link = "up"
              /\ Complete(read_buffer_)
              /\ LET n == RequestLen(read_buffer_)
                 IN /\ handled' = Append(handled, SubSeq(read_buffer_, 1, n))
                    /\ read_buffer_' = SubSeq(read_buffer_, n + 1, Len(read_buffer_))
              /\ response_queue_' = Append(response_queue_, Head(read_buffer_).req)
              /\ UNCHANGED <<client, rcv, snd, link>>
              /\ Arm("OUT")
              /\ Return

-----------------------------------------------------------------------------
(* HttpConnection::OnWritable                                                *)

\* Mutated form of Send: the response is not popped.
SendKeeps == /\ pc = "writing"
             /\ response_queue_ # <<>>
             /\ link \in {"up", "fin"}
             /\ Len(snd) < SendBuffer
             /\ LET room == SendBuffer - Len(snd)
                    n == IF ResponseLen < room THEN ResponseLen ELSE room
                IN snd' = snd \o SubSeq(Response(Head(response_queue_)), 1, n)
             /\ UNCHANGED <<client, rcv, read_buffer_, response_queue_, handled, mask, edge, tasks, pc, link>>

\* One send per response.  The socket takes what fits; the response is popped
\* even when that is not all of it.
Send == /\ pc = "writing"
        /\ response_queue_ # <<>>
        /\ link \in {"up", "fin"}
        /\ Len(snd) < SendBuffer
        /\ LET room == SendBuffer - Len(snd)
               n == IF ResponseLen < room THEN ResponseLen ELSE room
           IN snd' = snd \o SubSeq(Response(Head(response_queue_)), 1, n)
        /\ response_queue_' = Tail(response_queue_)
        /\ UNCHANGED <<client, rcv, read_buffer_, handled, mask, edge, tasks, pc, link>>

\* send fails, because the buffer is full or the connection broke: return with
\* the response still queued.
SendFails == /\ pc = "writing"
             /\ response_queue_ # <<>>
             /\ Len(snd) = SendBuffer \/ link \in {"broken", "closed"}
             /\ Return
             /\ UNCHANGED <<client, buffers, mask, edge, link>>

\* Mutated form of AllSent: the descriptor stays registered for writing.
AllSentStaysOut == /\ pc = "writing"
                   /\ response_queue_ = <<>>
                   /\ UNCHANGED <<client, buffers, link, mask, edge>>
                   /\ Return

\* The queue is empty: arm for reading again.
AllSent == /\ pc = "writing"
           /\ response_queue_ = <<>>
           /\ UNCHANGED <<client, buffers, link>>
           /\ Arm("IN")
           /\ Return

-----------------------------------------------------------------------------
\* The server waits in epoll_wait, nothing is in flight.
Quiet == /\ pc = "idle" /\ tasks = <<>>
         /\ ~edge \/ link = "closed"

Idle == Quiet /\ UNCHANGED vars

Handler == \/ TakeTask \/ HangUp \/ Recv \/ RecvEnd \/ Incomplete \/ HandleRead
           \/ Send \/ SendFails \/ AllSent

Next == \/ \E n \in 1..Len(unsent) : ClientSend(n)
        \/ ClientRead \/ ClientFin \/ Break
        \/ EpollWait \/ Handler
        \/ Idle

Spec == Init /\ [][Next]_vars

\* The event loop and the handler thread keep running; the client goes on
\* sending a request it has begun and reading its responses.
FairSpec == /\ Spec
            /\ WF_vars(EpollWait) /\ WF_vars(Handler) /\ WF_vars(ClientRead)
            /\ WF_vars(~AtBoundary /\ \E n \in 1..Len(unsent) : ClientSend(n))

-----------------------------------------------------------------------------
TypeOK == /\ unsent \in Seq(Wire) /\ rcv \in Seq(Wire) /\ read_buffer_ \in Seq(Wire)
          /\ response_queue_ \in Seq(Requests)
          /\ got \in Seq(Units) /\ snd \in Seq(Units)
          /\ handled \in Seq(Seq(Wire))
          /\ Len(snd) <= SendBuffer
          /\ mask \in {"IN", "OUT"} /\ edge \in BOOLEAN
          /\ tasks \in Seq((SUBSET {"IN", "OUT", "HUP"}) \ {{}})
          /\ pc \in {"idle", "reading", "writing", "hangup"}
          /\ link \in {"up", "fin", "broken", "closed"}

\* Incremental parsing is exact: whatever pieces the bytes arrive in, the
\* requests are handled in the order they were sent, each once, with its own
\* header and its whole body and nothing of the next one.
FramingExact == handled = [i \in 1..Len(handled) |-> Bytes(i)]

\* Keep-alive: the descriptor is registered for writing as long as a response
\* waits, and the thread or epoll still has something to do about it, unless
\* the socket is full: no response is forgotten in the queue.
NoResponseForgotten == response_queue_ # <<>> /\ link \in {"up", "fin"} =>
                         /\ mask = "OUT" \/ pc = "writing"
                         /\ edge \/ tasks # <<>> \/ Len(snd) = SendBuffer

\* The client has sent the whole of request i.
Sent(i) == IF unsent = <<>> THEN TRUE ELSE Head(unsent).req > i

Answered(i) == link \in {"broken", "closed"} \/ Len(got) >= i * ResponseLen

\* recv has seen, or will see, the end of the stream behind a request: OnReadable
\* returns at the end and leaves the request in the buffer.
CutOff == link = "fin" /\ rcv \o read_buffer_ # <<>>

\* Keep-alive: a client that waits for each response before it sends the next
\* request gets a whole response to every request, however the request was
\* split, unless the connection breaks or the client closes its side before the
\* request was taken from the buffer.
EveryRequestAnswered == \A i \in Requests : ~pipelining /\ Sent(i) ~> Answered(i) \/ CutOff

\* The backend's loop closes and forgets a connection that broke.
BrokenIsClosed == ~inline /\ link = "broken" ~> link = "closed"

\* The client only ever receives the responses to its requests, in the order
\* of the requests and each complete before the next one starts.
ResponsesInOrder == IsPrefix(got \o snd, Answers(Len(handled)))

\* "After sending all responses, arm for reading again" (HttpConnection.cpp:248):
\* when the descriptor is back in read mode every response has been sent whole.
SentBeforeRead == mask = "IN" /\ link = "up" /\ pc = "idle" /\ tasks = <<>> =>
                     Len(got) + Len(snd) = ResponseLen * Len(handled)
=============================================================================
