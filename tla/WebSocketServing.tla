-------------------------- MODULE WebSocketServing --------------------------
(* One WebSocketConnection of the backend: its write queue, its two mutexes   *)
(* and its edge-triggered epoll registration, used at the same time by the    *)
(* pool's workers (OnReadable, OnWritable), by threads that call SendText     *)
(* (chat relay, handlers, libdatachannel) and by one that calls Close (the    *)
(* end of a stream).                                                          *)
(*                                                                            *)
(* The client sends Incoming, each frame in two parts; every frame the server *)
(* queues is FrameLen units long.                                             *)
EXTENDS Naturals, Sequences, SequencesExt

CONSTANTS Workers,    \* threads of the pool
          Senders,    \* threads that call SendText once; also their frame
          Incoming,   \* the client's frames: text, ping, close
          FrameLen,   \* length of a serialised frame
          Room,       \* size of the socket's send buffer
          MaxTasks    \* events of this connection that wait for a worker

ASSUME WebSocketAssumption ==
  /\ Incoming \in Seq({"text", "ping", "close"})
  /\ FrameLen \in Nat \ {0} /\ Room \in Nat \ {0} /\ MaxTasks \in Nat \ {0}
  /\ {"pong", "close", "none"} \cap (Senders \cup Workers) = {}
  /\ Senders \cap Workers = {}

VARIABLES link,           \* of the TCP connection
          arrived,        \* half frames that have arrived at the socket
          received,       \* half frames recv has returned
          handled,        \* frames that were parsed and dispatched
          room,           \* free units in the send buffer
          mask, pending,  \* the epoll registration, and an event to report
          tasks,          \* events handed to the pool
          pc,             \* where each worker is
          waiting,        \* senders that have not called SendText yet
          conn_mutex_, write_mu_,  \* their owners
          state_,
          write_queue_, write_offset_,
          corrupt,        \* the queue was changed by two threads at once
          queued, wire    \* history: frames in the order of push, units sent

inVars == <<arrived, received, handled>>
epollVars == <<mask, pending, tasks>>
queueVars == <<write_queue_, write_offset_, queued>>
wireVars == <<room, wire>>
vars == <<link, inVars, epollVars, pc, waiting, conn_mutex_, write_mu_, state_,
          queueVars, wireVars, corrupt>>

Frames == Senders \cup {"pong", "close"}

Init == /\ link = "up" /\ arrived = 0 /\ received = 0 /\ handled = 0
        /\ room = Room /\ wire = <<>>
        /\ mask = "in" /\ pending = FALSE /\ tasks = <<>>
        /\ pc = [w \in Workers |-> "idle"]
        /\ waiting = Senders
        /\ conn_mutex_ = "none" /\ write_mu_ = "none" /\ state_ = "OPEN"
        /\ write_queue_ = <<>> /\ write_offset_ = 0 /\ queued = <<>>
        /\ corrupt = FALSE

-----------------------------------------------------------------------------
(* epoll                                                                      *)

Ready(m) == \/ m = "in" /\ (received < arrived \/ link = "fin")
            \/ m = "out" /\ room > 0

\* EPOLL_CTL_MOD replaces the mask and looks at readiness.
Arm(m) == /\ mask' = m
          /\ pending' = Ready(m)
          /\ UNCHANGED tasks

\* epoll_wait reports the event and the loop enqueues a task for it.
EpollWait == /\ pending /\ Len(tasks) < MaxTasks
             /\ pending' = FALSE
             /\ tasks' = Append(tasks, mask)
             /\ UNCHANGED <<link, inVars, mask, pc, waiting, conn_mutex_, write_mu_, state_,
                            queueVars, wireVars, corrupt>>

-----------------------------------------------------------------------------
(* The client                                                                 *)

Client == UNCHANGED <<mask, tasks, pc, waiting, conn_mutex_, write_mu_, state_,
                      received, handled, queueVars, corrupt>>

ClientSends == /\ link = "up" /\ arrived < 2 * Len(Incoming)
               /\ arrived' = arrived + 1
               /\ pending' = (pending \/ mask = "in")
               /\ UNCHANGED <<link, wireVars>> /\ Client

\* It reads all that was sent; a full buffer becomes writable again.
ClientReads == /\ room < Room
               /\ room' = Room
               /\ pending' = (pending \/ (mask = "out" /\ room = 0))
               /\ UNCHANGED <<link, arrived, wire>> /\ Client

ClientFin == /\ link = "up"
             /\ link' = "fin"
             /\ pending' = (pending \/ mask = "in")
             /\ UNCHANGED <<arrived, wireVars>> /\ Client

-----------------------------------------------------------------------------
(* SendText and Close.  Each is one critical section of write_mu_; who looks  *)
(* at the queue without it sees no difference between push and arming.        *)

Push(f) == /\ write_queue_' = Append(write_queue_, f)
           /\ queued' = Append(queued, f)
           /\ UNCHANGED write_offset_

\* lock, QueueFrame, unlock.
SendText(s) == /\ s \in waiting /\ write_mu_ = "none"
               /\ waiting' = waiting \ {s}
               /\ Push(s) /\ Arm("out")
               /\ UNCHANGED <<link, inVars, wireVars, pc, conn_mutex_, write_mu_, state_, corrupt>>

\* Close: a frame in state OPEN, nothing in another one.
Close == /\ write_mu_ = "none"
         /\ state_ = "OPEN" /\ state_' = "CLOSING"
         /\ Push("close") /\ Arm("out")

CloseByServer == /\ Close
                 /\ UNCHANGED <<link, inVars, wireVars, pc, waiting, conn_mutex_, write_mu_, corrupt>>

-----------------------------------------------------------------------------
(* A worker's task                                                            *)

Go(w, from, to) == /\ pc[w] = from
                   /\ pc' = [pc EXCEPT ![w] = to]
                   /\ UNCHANGED <<arrived, waiting, corrupt>>

TakeTask(w) == /\ tasks # <<>>
               /\ Go(w, "idle", IF Head(tasks) = "in" THEN "read" ELSE "write")
               /\ tasks' = Tail(tasks)
               /\ UNCHANGED <<link, received, handled, mask, pending, conn_mutex_, write_mu_, state_,
                              queueVars, wireVars>>

-----------------------------------------------------------------------------
(* OnReadable, under conn_mutex_                                              *)

Read(w, from, to) == Go(w, from, to) /\ UNCHANGED <<link, wireVars>>

\* Lock, then recv until EAGAIN.
Recv(w) == /\ conn_mutex_ = "none" /\ link = "up"
           /\ Read(w, "read", "parse")
           /\ conn_mutex_' = w /\ received' = arrived
           /\ UNCHANGED <<handled, epollVars, write_mu_, state_, queueVars>>

\* The end of the stream: return, without a look at read_buffer_.
RecvEnds(w) == /\ conn_mutex_ = "none" /\ link = "fin"
               /\ Read(w, "read", "idle")
               /\ received' = arrived /\ state_' = "CLOSED"
               /\ UNCHANGED <<handled, epollVars, conn_mutex_, write_mu_, queueVars>>

\* The next frame of read_buffer_ is complete.
NextFrame(f) == received >= 2 * handled + 2 /\ Incoming[handled + 1] = f

\* TEXT: on_message_ runs, the frame is erased.
ParseText(w) == /\ NextFrame("text")
                /\ Read(w, "parse", "parse")
                /\ handled' = handled + 1
                /\ UNCHANGED <<received, epollVars, conn_mutex_, write_mu_, state_, queueVars>>

\* PING: QueueFrame without write_mu_.
ParsePing(w) == /\ NextFrame("ping")
                /\ Read(w, "parse", "pong")
                /\ Push("pong")
                /\ UNCHANGED <<received, handled, epollVars, conn_mutex_, write_mu_, state_>>

\* Another thread is inside write_queue_, to flush it, in SendText or in Close:
\* what becomes of the queue is undefined.
PingRaces(w) == /\ pc[w] = "parse" /\ NextFrame("ping")
                /\ write_mu_ # "none" \/ waiting # {} \/ state_ = "OPEN"
                /\ corrupt' = TRUE
                /\ UNCHANGED <<link, inVars, epollVars, pc, waiting, conn_mutex_, write_mu_, state_,
                               queueVars, wireVars>>

PongArms(w) == /\ Read(w, "pong", "parse")
               /\ Arm("out")
               /\ handled' = handled + 1
               /\ UNCHANGED <<received, conn_mutex_, write_mu_, state_, queueVars>>

\* CLOSE: in state OPEN, Close echoes it.
ParseClose(w) == /\ NextFrame("close")
                 /\ Read(w, "parse", "closed")
                 /\ Close
                 /\ UNCHANGED <<received, handled, conn_mutex_, write_mu_>>

\* CLOSE after a Close of ours.
ParseCloseAgain(w) == /\ NextFrame("close")
                      /\ state_ # "OPEN"
                      /\ Read(w, "parse", "closed")
                      /\ UNCHANGED <<received, handled, epollVars, conn_mutex_, write_mu_, state_, queueVars>>

\* on_close_ runs, the frame is erased.
OnClose(w) == /\ Read(w, "closed", "parse")
              /\ state_' = "CLOSED" /\ handled' = handled + 1
              /\ UNCHANGED <<received, epollVars, conn_mutex_, write_mu_, queueVars>>

\* No complete frame is left: the test of write_queue_, without write_mu_.
QueueEmpty(w) == /\ received < 2 * handled + 2 /\ write_queue_ = <<>>
                 /\ Read(w, "parse", "idle")
                 /\ conn_mutex_' = "none"
                 /\ UNCHANGED <<received, handled, epollVars, write_mu_, state_, queueVars>>

QueueWaits(w) == /\ received < 2 * handled + 2 /\ write_queue_ # <<>>
                 /\ Read(w, "parse", "arm")
                 /\ UNCHANGED <<received, handled, epollVars, conn_mutex_, write_mu_, state_, queueVars>>

ReadArms(w) == /\ Read(w, "arm", "idle")
               /\ Arm("out")
               /\ conn_mutex_' = "none"
               /\ UNCHANGED <<received, handled, write_mu_, state_, queueVars>>

OnReadable(w) == \/ Recv(w) \/ RecvEnds(w)
                 \/ ParseText(w) \/ ParsePing(w) \/ PingRaces(w) \/ PongArms(w)
                 \/ ParseClose(w) \/ ParseCloseAgain(w) \/ OnClose(w)
                 \/ QueueEmpty(w) \/ QueueWaits(w) \/ ReadArms(w)

-----------------------------------------------------------------------------
(* OnWritable, under write_mu_                                                *)

Write(w, from, to) == Go(w, from, to) /\ UNCHANGED <<link, received, handled, conn_mutex_>>

LockWrite(w) == /\ write_mu_ = "none" /\ write_mu_' = w
                /\ Write(w, "write", "flush")
                /\ UNCHANGED <<epollVars, state_, queueVars, wireVars>>

\* The units of the front frame that n units more would send.
Units(n) == [i \in 1..n |-> <<Head(write_queue_), write_offset_ + i>>]

\* send takes n units.
Sends(n) == /\ wire' = wire \o Units(n)
            /\ room' = room - n

\* Mutated form of Send: the frame is popped however much of it was sent.
SendPops(w) == \E n \in 1..room :
  /\ write_queue_ # <<>>
  /\ Write(w, "flush", "flush")
  /\ n = IF room < FrameLen - write_offset_ THEN room ELSE FrameLen - write_offset_
  /\ Sends(n)
  /\ write_queue_' = Tail(write_queue_) /\ write_offset_' = 0
  /\ UNCHANGED <<epollVars, write_mu_, state_, queued>>

\* Mutated form of Send: the offset outlives its frame.
SendKeepsOffset(w) == \E n \in 1..room :
  /\ write_queue_ # <<>> /\ write_offset_ < FrameLen
  /\ Write(w, "flush", "flush")
  /\ n = IF room < FrameLen - write_offset_ THEN room ELSE FrameLen - write_offset_
  /\ Sends(n)
  /\ write_offset_' = write_offset_ + n
  /\ write_queue_' = IF write_offset_' >= FrameLen THEN Tail(write_queue_) ELSE write_queue_
  /\ UNCHANGED <<epollVars, write_mu_, state_, queued>>

\* send takes what fits; a frame that is sent is popped and the offset reset.
Send(w) == \E n \in 1..room :
  /\ write_queue_ # <<>>
  /\ Write(w, "flush", "flush")
  /\ n = IF room < FrameLen - write_offset_ THEN room ELSE FrameLen - write_offset_
  /\ Sends(n)
  /\ IF write_offset_ + n >= FrameLen
       THEN write_queue_' = Tail(write_queue_) /\ write_offset_' = 0
       ELSE write_offset_' = write_offset_ + n /\ UNCHANGED write_queue_
  /\ UNCHANGED <<epollVars, write_mu_, state_, queued>>

\* EAGAIN: return, the mask stays.
SendBlocks(w) == /\ write_queue_ # <<>> /\ room = 0
                 /\ Write(w, "flush", "idle")
                 /\ write_mu_' = "none"
                 /\ UNCHANGED <<epollVars, state_, queueVars, wireVars>>

\* The loop ends,
AllSent(w) == /\ write_queue_ = <<>>
              /\ Write(w, "flush", "rearm")
              /\ UNCHANGED <<epollVars, write_mu_, state_, queueVars, wireVars>>

\* Mutated form of ArmForRead: the descriptor stays registered for writing.
ArmForReadMissing(w) == /\ Write(w, "rearm", "idle")
                        /\ write_mu_' = "none"
                        /\ UNCHANGED <<epollVars, state_, queueVars, wireVars>>

\* and the descriptor is registered for reading again.
ArmForRead(w) == /\ Write(w, "rearm", "idle")
                 /\ Arm("in")
                 /\ write_mu_' = "none"
                 /\ UNCHANGED <<state_, queueVars, wireVars>>

OnWritable(w) == LockWrite(w) \/ Send(w) \/ SendBlocks(w) \/ AllSent(w) \/ ArmForRead(w)

-----------------------------------------------------------------------------
Worker(w) == TakeTask(w) \/ OnReadable(w) \/ OnWritable(w)

Step == \/ EpollWait
        \/ ClientSends \/ ClientReads \/ ClientFin
        \/ \E s \in Senders : SendText(s)
        \/ CloseByServer
        \/ \E w \in Workers : Worker(w)

AtRest == ~pending /\ tasks = <<>> /\ \A w \in Workers : pc[w] = "idle"
Idle == (AtRest \/ corrupt) /\ UNCHANGED vars

Next == (~corrupt /\ Step) \/ Idle

Spec == Init /\ [][Next]_vars

\* The loop and the workers go on and the client reads; nobody has to send or
\* to close.
FairSpec == /\ Spec
            /\ WF_vars(EpollWait) /\ WF_vars(ClientReads)
            /\ \A w \in Workers : WF_vars(Worker(w))

-----------------------------------------------------------------------------
TypeOK == /\ link \in {"up", "fin"}
          /\ arrived \in 0..2 * Len(Incoming) /\ received \in 0..arrived
          /\ 2 * handled \in 0..received
          /\ room \in 0..Room /\ mask \in {"in", "out"} /\ pending \in BOOLEAN
          /\ tasks \in Seq({"in", "out"})
          /\ pc \in [Workers -> {"idle", "read", "parse", "pong", "closed", "arm",
                                 "write", "flush", "rearm"}]
          /\ waiting \subseteq Senders
          /\ conn_mutex_ \in Workers \cup {"none"}
          /\ write_mu_ \in Workers \cup {"none"}
          /\ state_ \in {"OPEN", "CLOSING", "CLOSED"}
          /\ write_queue_ \in Seq(Frames) /\ queued \in Seq(Frames)
          /\ write_offset_ \in 0..FrameLen - 1
          /\ wire \in Seq(Frames \X (1..FrameLen))
          /\ corrupt \in BOOLEAN

\* The frames of a sequence, unit by unit.
Flat(frames) == [n \in 1..Len(frames) * FrameLen |->
                   <<frames[((n - 1) \div FrameLen) + 1], ((n - 1) % FrameLen) + 1>>]

\* However sends are cut and threads interleave, the client gets the frames
\* whole and in the order in which they were queued, and one Close at most.
FramesWhole == /\ IsPrefix(wire, Flat(queued))
               /\ \A i, j \in DOMAIN queued : queued[i] = "close" /\ queued[j] = "close" => i = j

\* Nobody is forgotten by the edge-triggered registration: in the end every
\* frame queued under write_mu_ has been sent and every complete frame of the
\* client handled, unless the connection ends (or the queue is corrupted).
\* A PONG, queued without write_mu_, may stay.
NobodyForgotten ==
  <>[](\/ corrupt \/ link # "up"
       \/ /\ Range(write_queue_) \subseteq {"pong"}
          /\ 2 * handled + 2 > arrived)
=============================================================================
