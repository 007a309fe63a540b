----------------------- MODULE WebSocketServingProofs -----------------------
(* Proofs about WebSocketServing, for any number of workers and senders, any  *)
(* frames of the client, and any lengths of frame and send buffer.            *)
EXTENDS WebSocketServing, TLAPS

\* How many frames have been sent and popped.
Popped == Len(queued) - Len(write_queue_)

QueueTypes == /\ write_queue_ \in Seq(Frames) /\ queued \in Seq(Frames)
              /\ write_offset_ \in 0..FrameLen - 1
              /\ wire \in Seq(Frames \X (1..FrameLen))

\* The queue is what was pushed and not popped, and only the front is half sent.
Suffix == /\ Popped \in Nat
          /\ \A i \in 1..Len(write_queue_) : write_queue_[i] = queued[Popped + i]
          /\ write_queue_ = <<>> => write_offset_ = 0

\* The wire has the popped frames and the offset's part of the front, unit by
\* unit.  (FramesWhole with products in place of quotients.)
OnWire == /\ Len(wire) = Popped * FrameLen + write_offset_
          /\ \A k \in 1..Len(queued), r \in 1..FrameLen :
               (k - 1) * FrameLen + r <= Len(wire) =>
                  wire[(k - 1) * FrameLen + r] = <<queued[k], r>>

QueueInv == QueueTypes /\ Suffix /\ OnWire

\* Nothing waits that was queued under write_mu_.
OnlyPongs == \A i \in DOMAIN write_queue_ : write_queue_[i] = "pong"

\* A Close frame is queued in state OPEN only, and the state never comes back.
OneClose == /\ \A i, j \in DOMAIN queued : queued[i] = "close" /\ queued[j] = "close" => i = j
            /\ state_ = "OPEN" => \A i \in DOMAIN queued : queued[i] # "close"

\* Who reads holds conn_mutex_; so the frame that is being answered stays the
\* first of read_buffer_ until it is erased.
Reading == {"parse", "pong", "closed", "arm"}
ReadInv == /\ \A w \in Workers : pc[w] \in Reading <=> conn_mutex_ = w
           /\ \A w \in Workers : pc[w] \in {"pong", "closed"} => received >= 2 * handled + 2

\* The types that do not concern the write queue.
OtherTypes ==
  /\ link \in {"up", "fin"}
  /\ arrived \in 0..2 * Len(Incoming) /\ received \in 0..arrived
  /\ handled \in Nat /\ 2 * handled \in 0..received
  /\ room \in 0..Room /\ mask \in {"in", "out"} /\ pending \in BOOLEAN
  /\ tasks \in Seq({"in", "out"})
  /\ pc \in [Workers -> {"idle", "read", "parse", "pong", "closed", "arm", "write", "flush", "rearm"}]
  /\ waiting \subseteq Senders
  /\ conn_mutex_ \in Workers \cup {"none"}
  /\ write_mu_ \in Workers \cup {"none"}
  /\ state_ \in {"OPEN", "CLOSING", "CLOSED"}
  /\ corrupt \in BOOLEAN

Inv == QueueInv /\ OneClose /\ ReadInv /\ OtherTypes

\* Who writes holds write_mu_, so that between the end of the loop and the
\* arming for read only a PONG can be queued.
Writing == {"flush", "rearm"}
WriteInv == /\ \A w \in Workers : pc[w] \in Writing <=> write_mu_ = w
            /\ \A w \in Workers : pc[w] = "rearm" => OnlyPongs

\* A frame queued under write_mu_ waits with the descriptor armed for write.
Armed == OnlyPongs \/ mask = "out"

\* Armed for write, there is an event, a task or a worker that will write, or
\* the client's buffer is full.
WriteDue == mask = "out" => \/ pending \/ room = 0 \/ "out" \in Range(tasks)
                            \/ \E w \in Workers : pc[w] \in {"write", "flush", "rearm"}

\* Armed for read, what has arrived is reported, or a worker will read it.
ReadDue == mask = "in" /\ received < arrived =>
             pending \/ "in" \in Range(tasks) \/ \E w \in Workers : pc[w] = "read"

\* A complete frame of read_buffer_ is in the hands of the worker that parses.
ParseDue == link = "up" /\ received >= 2 * handled + 2 =>
              \E w \in Workers : pc[w] \in {"parse", "pong", "closed"}

RestInv == WriteInv /\ Armed /\ WriteDue /\ ReadDue /\ ParseDue

\* The safety half of NobodyForgotten: the event loop and the workers rest, with
\* room in the send buffer, only when every frame queued under write_mu_ has been
\* sent and every complete frame of the client handled.  No edge is lost between
\* the masks of the handlers.
RestsWhenDone ==
  AtRest /\ room > 0 /\ link = "up" /\ ~corrupt =>
    /\ Range(write_queue_) \subseteq {"pong"}
    /\ 2 * handled + 2 > arrived

-----------------------------------------------------------------------------
(* Arithmetic                                                                 *)

\* Multiples of the frame length.
LEMMA Multiples ==
  ASSUME NEW a \in Nat, NEW b \in Nat, NEW F \in Nat \ {0}
  PROVE  /\ a * F \in Nat
         /\ (a + 1) * F = a * F + F
         /\ a * F < b * F => a < b
         /\ a <= b => a * F <= b * F
OBVIOUS

\* Quotient and remainder.
LEMMA Quotient ==
  ASSUME NEW n \in Nat, NEW F \in Nat \ {0}, NEW L \in Nat, n < L * F
  PROVE  /\ n \div F \in Nat /\ n \div F < L
         /\ n % F \in 0..F - 1
         /\ n = (n \div F) * F + (n % F)
OBVIOUS

\* Concatenation.
LEMMA Concatenation ==
  ASSUME NEW S, NEW s \in Seq(S), NEW t \in Seq(S)
  PROVE  /\ s \o t \in Seq(S)
         /\ Len(s \o t) = Len(s) + Len(t)
         /\ \A i \in 1..Len(s) : (s \o t)[i] = s[i]
         /\ \A i \in 1..Len(t) : (s \o t)[Len(s) + i] = t[i]
OBVIOUS

-----------------------------------------------------------------------------
(* The write queue                                                            *)

\* Nothing was pushed yet.
LEMMA InitQueue == Init => QueueInv
<1> SUFFICES ASSUME Init PROVE QueueInv
  OBVIOUS
<1>0. FrameLen \in Nat \ {0}
  BY WebSocketAssumption
<1> USE <1>0
<1>1. QueueTypes
  BY DEF Init, QueueTypes
<1>2. Popped = 0 /\ Len(wire) = 0 /\ Len(queued) = 0
  BY DEF Init, Popped
<1> QED
  BY <1>1, <1>2 DEF Init, QueueInv, Suffix, OnWire

\* A push goes to the end of both and leaves the wire as it is.
LEMMA PushQueue ==
  ASSUME QueueInv, NEW f \in Frames, Push(f), UNCHANGED wire
  PROVE  QueueInv'
<1>0. FrameLen \in Nat \ {0}
  BY WebSocketAssumption
<1> USE <1>0
<1>1. /\ write_queue_' = Append(write_queue_, f) /\ queued' = Append(queued, f)
      /\ write_offset_' = write_offset_ /\ wire' = wire
      /\ write_queue_ \in Seq(Frames) /\ queued \in Seq(Frames)
  BY DEF QueueInv, QueueTypes, Push
<1>2. /\ Len(queued') = Len(queued) + 1 /\ Len(write_queue_') = Len(write_queue_) + 1
      /\ Len(queued) \in Nat /\ Len(write_queue_) \in Nat
      /\ \A i \in 1..Len(queued) : queued'[i] = queued[i]
      /\ queued'[Len(queued) + 1] = f
      /\ \A i \in 1..Len(write_queue_) : write_queue_'[i] = write_queue_[i]
      /\ write_queue_'[Len(write_queue_) + 1] = f
      /\ write_queue_' # <<>>
  BY <1>1
<1>3. Popped' = Popped /\ Popped \in Nat /\ Popped = Len(queued) - Len(write_queue_)
  <2>1. Popped \in Nat
    BY DEF QueueInv, Suffix
  <2> QED
    BY <1>2, <2>1 DEF Popped
<1>4. QueueTypes'
  BY <1>1 DEF QueueInv, QueueTypes
<1>5. Suffix'
  <2>1. ASSUME NEW i \in 1..Len(write_queue_') PROVE write_queue_'[i] = queued'[Popped' + i]
    <3>1. CASE i \in 1..Len(write_queue_)
      <4>1. Popped + i \in 1..Len(queued)
        BY <1>2, <1>3, <3>1
      <4>2. write_queue_[i] = queued[Popped + i]
        BY <3>1 DEF QueueInv, Suffix
      <4> QED
        BY <1>2, <1>3, <3>1, <4>1, <4>2
    <3>2. CASE i = Len(write_queue_) + 1
      BY <1>2, <1>3, <3>2
    <3> QED
      BY <1>2, <3>1, <3>2
  <2> QED
    BY <1>2, <1>3, <2>1 DEF Suffix
<1>6. OnWire'
  <2>1. Len(wire') = Popped' * FrameLen + write_offset_'
    BY <1>1, <1>3 DEF QueueInv, OnWire
  <2>2. ASSUME NEW k \in 1..Len(queued'), NEW r \in 1..FrameLen,
               (k - 1) * FrameLen + r <= Len(wire')
        PROVE  wire'[(k - 1) * FrameLen + r] = <<queued'[k], r>>
    <3>1. CASE k \in 1..Len(queued)
      BY <1>1, <1>2, <2>2, <3>1 DEF QueueInv, OnWire
    <3>2. CASE k = Len(queued) + 1
      <4>1. (k - 1) * FrameLen + r <= Popped * FrameLen + write_offset_ /\ k - 1 \in Nat
        BY <1>1, <1>2, <2>2, <3>2 DEF QueueInv, OnWire
      <4>2. Popped * FrameLen <= (k - 1) * FrameLen
        BY <1>2, <1>3, <3>2, Multiples
      <4>3. (k - 1) * FrameLen \in Nat /\ Popped * FrameLen \in Nat
        BY <1>3, <4>1, Multiples
      <4>4. write_offset_ # 0 /\ write_offset_ < FrameLen /\ write_offset_ \in Nat
        BY <4>1, <4>2, <4>3 DEF QueueInv, QueueTypes
      <4>5. Len(write_queue_) > 0 /\ Popped + 1 <= k - 1
        BY <1>1, <1>2, <1>3, <3>2, <4>4 DEF QueueInv, Suffix
      <4>6. Popped * FrameLen + FrameLen <= (k - 1) * FrameLen
        BY <1>3, <4>1, <4>5, Multiples
      <4> QED
        BY <4>1, <4>3, <4>4, <4>6
    <3> QED
      BY <1>2, <3>1, <3>2
  <2> QED
    BY <2>1, <2>2 DEF OnWire
<1> QED
  BY <1>4, <1>5, <1>6 DEF QueueInv

\* A send puts the next units of the front frame on the wire, and pops the frame
\* when it is all there.
LEMMA SendQueue ==
  ASSUME QueueInv, room \in Nat, NEW w \in Workers, Send(w)
  PROVE  QueueInv'
<1>0. FrameLen \in Nat \ {0}
  BY WebSocketAssumption
<1> USE <1>0
<1>1. PICK n \in 1..room :
        /\ write_queue_ # <<>>
        /\ n = IF room < FrameLen - write_offset_ THEN room ELSE FrameLen - write_offset_
        /\ wire' = wire \o Units(n)
        /\ IF write_offset_ + n >= FrameLen
             THEN write_queue_' = Tail(write_queue_) /\ write_offset_' = 0
             ELSE write_offset_' = write_offset_ + n /\ write_queue_' = write_queue_
        /\ queued' = queued
  BY DEF Send, Sends
<1>2. /\ write_offset_ \in Nat /\ write_offset_ < FrameLen /\ n \in Nat \ {0}
      /\ write_offset_ + n <= FrameLen
  BY <1>1 DEF QueueInv, QueueTypes
<1>3. /\ Popped \in Nat /\ Len(queued) \in Nat /\ Len(write_queue_) \in Nat
      /\ Popped = Len(queued) - Len(write_queue_) /\ Len(write_queue_) >= 1
      /\ Head(write_queue_) = queued[Popped + 1] /\ Head(write_queue_) \in Frames
      /\ Popped + 1 \in 1..Len(queued)
  BY <1>1 DEF QueueInv, QueueTypes, Suffix, Popped
<1> DEFINE L == Len(wire)
<1>4. /\ L \in Nat /\ L = Popped * FrameLen + write_offset_ /\ Popped * FrameLen \in Nat
  BY <1>3, Multiples DEF QueueInv, QueueTypes, OnWire
<1>5. /\ Len(Units(n)) = n /\ Units(n) \in Seq(Frames \X (1..FrameLen))
      /\ \A i \in 1..n : Units(n)[i] = <<queued[Popped + 1], write_offset_ + i>>
  <2>1. \A i \in 1..n : <<Head(write_queue_), write_offset_ + i>> \in Frames \X (1..FrameLen)
    BY <1>2, <1>3
  <2> QED
    BY <1>2, <1>3, <2>1 DEF Units
<1>6. /\ wire' \in Seq(Frames \X (1..FrameLen)) /\ Len(wire') = L + n
      /\ \A i \in 1..L : wire'[i] = wire[i]
      /\ \A i \in 1..n : wire'[L + i] = <<queued[Popped + 1], write_offset_ + i>>
  <2> DEFINE S == Frames \X (1..FrameLen)
             U == Units(n)
  <2>1. wire \in Seq(S) /\ U \in Seq(S) /\ Len(U) = n
    BY <1>5 DEF QueueInv, QueueTypes
  <2> HIDE DEF S, U
  <2>2. /\ wire \o U \in Seq(S) /\ Len(wire \o U) = L + n
        /\ \A i \in 1..L : (wire \o U)[i] = wire[i]
        /\ \A i \in 1..n : (wire \o U)[L + i] = U[i]
    <3>1. \A s, t \in Seq(S) : /\ s \o t \in Seq(S) /\ Len(s \o t) = Len(s) + Len(t)
                               /\ \A i \in 1..Len(s) : (s \o t)[i] = s[i]
                               /\ \A i \in 1..Len(t) : (s \o t)[Len(s) + i] = t[i]
      BY Concatenation
    <3> QED
      BY <2>1, <3>1, Zenon
  <2> QED
    BY <1>1, <1>5, <2>2, Zenon DEF S, U
<1> HIDE DEF L
<1>7. ASSUME NEW k \in 1..Len(queued), NEW r \in 1..FrameLen, (k - 1) * FrameLen + r <= L + n
      PROVE  wire'[(k - 1) * FrameLen + r] = <<queued[k], r>>
  <2>0. k - 1 \in Nat /\ (k - 1) * FrameLen \in Nat
    BY <1>3, Multiples
  <2>1. CASE (k - 1) * FrameLen + r <= L
    <3>1. wire[(k - 1) * FrameLen + r] = <<queued[k], r>>
      BY <2>1 DEF L, QueueInv, OnWire
    <3>2. (k - 1) * FrameLen + r \in 1..L
      BY <1>4, <2>0, <2>1
    <3> QED
      BY <1>6, <3>1, <3>2
  <2>2. CASE (k - 1) * FrameLen + r > L
    <3>1. (k - 1) * FrameLen < (Popped + 1) * FrameLen
      <4>1. (Popped + 1) * FrameLen = Popped * FrameLen + FrameLen
        BY <1>3, Multiples
      <4> QED
        BY <1>2, <1>4, <1>7, <2>0, <4>1
    <3>2. Popped * FrameLen < ((k - 1) + 1) * FrameLen
      <4>1. ((k - 1) + 1) * FrameLen = (k - 1) * FrameLen + FrameLen
        BY <2>0, Multiples
      <4> QED
        BY <1>2, <1>4, <2>0, <2>2, <4>1
    <3>3. k - 1 = Popped
      <4>1. k - 1 < Popped + 1
        BY <1>3, <2>0, <3>1, Multiples
      <4>2. Popped < (k - 1) + 1
        BY <1>3, <2>0, <3>2, Multiples
      <4> QED
        BY <1>3, <2>0, <4>1, <4>2
    <3>4. /\ r - write_offset_ \in 1..n
          /\ (k - 1) * FrameLen + r = L + (r - write_offset_)
      BY <1>2, <1>4, <1>7, <2>2, <3>3
    <3>5. /\ wire'[L + (r - write_offset_)] = <<queued[Popped + 1], write_offset_ + (r - write_offset_)>>
          /\ write_offset_ + (r - write_offset_) = r /\ Popped + 1 = k
      <4>1. write_offset_ + (r - write_offset_) = r /\ Popped + 1 = k
        BY <1>2, <1>3, <3>3
      <4>2. wire'[L + (r - write_offset_)]
              = <<queued[Popped + 1], write_offset_ + (r - write_offset_)>>
        BY <1>6, <3>4, Zenon
      <4> QED
        BY <4>1, <4>2
    <3> QED
      BY <3>4, <3>5
  <2> QED
    BY <1>4, <2>0, <2>1, <2>2
<1>8. CASE write_offset_ + n >= FrameLen
  <2>1. /\ write_queue_' = Tail(write_queue_) /\ write_offset_' = 0 /\ write_offset_ + n = FrameLen
    BY <1>1, <1>2, <1>8
  <2>2. /\ Tail(write_queue_) \in Seq(Frames) /\ Len(write_queue_') = Len(write_queue_) - 1
        /\ \A i \in 1..Len(write_queue_) - 1 : write_queue_'[i] = write_queue_[i + 1]
    BY <1>1, <2>1 DEF QueueInv, QueueTypes
  <2>3. Popped' = Popped + 1
    BY <1>1, <1>3, <2>2 DEF Popped
  <2>4. Suffix'
    <3>1. ASSUME NEW i \in 1..Len(write_queue_') PROVE write_queue_'[i] = queued'[Popped' + i]
      <4>1. i + 1 \in 1..Len(write_queue_) /\ Popped' + i = Popped + (i + 1)
        <5>1. i \in 1..(Len(write_queue_) - 1)
          BY <2>2
        <5> QED
          BY <1>3, <2>3, <5>1
      <4> QED
        BY <1>1, <2>2, <4>1 DEF QueueInv, Suffix
    <3> QED
      BY <1>3, <2>1, <2>3, <3>1 DEF Suffix
  <2>5. Len(wire') = Popped' * FrameLen + write_offset_'
    <3>1. (Popped + 1) * FrameLen = Popped * FrameLen + FrameLen
      BY <1>3, Multiples
    <3>2. Len(wire') = (Popped * FrameLen + write_offset_) + n
      BY <1>4, <1>6
    <3>3. Popped' * FrameLen = (Popped + 1) * FrameLen
      BY <2>3
    <3> QED
      BY <1>2, <1>4, <2>1, <3>1, <3>2, <3>3
  <2>6. QueueTypes'
    <3>1. queued' \in Seq(Frames) /\ write_queue_' \in Seq(Frames)
      BY <1>1, <2>1, <2>2 DEF QueueInv, QueueTypes
    <3>2. write_offset_' \in 0..FrameLen - 1
      BY <2>1
    <3> QED
      BY <1>6, <3>1, <3>2 DEF QueueTypes
  <2>7. OnWire'
    BY <1>1, <1>6, <1>7, <2>5 DEF OnWire
  <2> QED
    BY <2>4, <2>6, <2>7 DEF QueueInv
<1>9. CASE write_offset_ + n < FrameLen
  <2>1. write_queue_' = write_queue_ /\ write_offset_' = write_offset_ + n
    BY <1>1, <1>2, <1>9
  <2>2. Popped' = Popped /\ Suffix'
    BY <1>1, <2>1 DEF Popped, QueueInv, Suffix
  <2>3. Len(wire') = Popped' * FrameLen + write_offset_'
    BY <1>2, <1>4, <1>6, <2>1, <2>2
  <2> QED
    <3>1. QueueTypes'
      BY <1>1, <1>2, <1>6, <1>9, <2>1 DEF QueueInv, QueueTypes
    <3>2. OnWire'
      BY <1>1, <1>6, <1>7, <2>3 DEF OnWire
    <3> QED
      BY <2>2, <3>1, <3>2 DEF QueueInv
<1> QED
  BY <1>2, <1>8, <1>9

\* Every step of a worker pushes, sends or leaves queue and wire alone.
LEMMA WorkerQueue ==
  ASSUME QueueInv, room \in Nat, NEW w \in Workers, Worker(w)
  PROVE  QueueInv'
<1> USE DEF queueVars, wireVars
<1>1. ASSUME UNCHANGED <<queueVars, wire>> PROVE QueueInv'
  BY <1>1 DEF QueueInv, QueueTypes, Suffix, OnWire, Popped
<1>2. CASE TakeTask(w)
  BY <1>1, <1>2 DEF TakeTask
<1>3. CASE Recv(w) \/ RecvEnds(w) \/ ParseText(w) \/ PongArms(w) \/ ParseCloseAgain(w)
  BY <1>1, <1>3 DEF Recv, RecvEnds, ParseText, PongArms, ParseCloseAgain, Read
<1>4. CASE PingRaces(w) \/ OnClose(w) \/ QueueEmpty(w) \/ QueueWaits(w) \/ ReadArms(w)
  BY <1>1, <1>4 DEF PingRaces, OnClose, QueueEmpty, QueueWaits, ReadArms, Read
<1>5. CASE ParsePing(w)
  BY <1>5, PushQueue DEF ParsePing, Read, Frames
<1>6. CASE ParseClose(w)
  BY <1>6, PushQueue DEF ParseClose, Close, Read, Frames
<1>7. CASE LockWrite(w) \/ SendBlocks(w) \/ AllSent(w) \/ ArmForRead(w)
  BY <1>1, <1>7 DEF LockWrite, SendBlocks, AllSent, ArmForRead
<1>8. CASE Send(w)
  BY <1>8, SendQueue
<1> QED
  BY <1>2, <1>3, <1>4, <1>5, <1>6, <1>7, <1>8 DEF Worker, OnReadable, OnWritable

\* So does every other step.
LEMMA NextQueue == QueueInv /\ room \in Nat /\ [Next]_vars => QueueInv'
<1> SUFFICES ASSUME QueueInv, room \in Nat, [Next]_vars PROVE QueueInv'
  OBVIOUS
<1> USE DEF queueVars, wireVars
<1>1. ASSUME UNCHANGED <<queueVars, wire>> PROVE QueueInv'
  BY <1>1 DEF QueueInv, QueueTypes, Suffix, OnWire, Popped
<1>2. CASE EpollWait \/ ClientSends \/ ClientReads \/ ClientFin
  BY <1>1, <1>2 DEF EpollWait, ClientSends, ClientReads, ClientFin, Client
<1>3. ASSUME NEW s \in Senders, SendText(s) PROVE QueueInv'
  BY <1>3, PushQueue DEF SendText, Frames
<1>4. CASE CloseByServer
  BY <1>4, PushQueue DEF CloseByServer, Close, Frames
<1>5. CASE UNCHANGED vars
  BY <1>1, <1>5 DEF vars
<1> QED
  BY <1>2, <1>3, <1>4, <1>5, WorkerQueue DEF Next, Step, Idle

-----------------------------------------------------------------------------
(* One Close frame                                                            *)

\* A push of another frame, or of the first Close, leaves one Close at most.
LEMMA PushClose ==
  ASSUME OneClose, queued \in Seq(Frames), NEW f \in Frames, Push(f),
         f = "close" => state_ = "OPEN" /\ state_' # "OPEN",
         f # "close" => state_' = state_
  PROVE  OneClose'
<1>1. /\ DOMAIN queued' = 1..(Len(queued) + 1) /\ DOMAIN queued = 1..Len(queued) /\ Len(queued) \in Nat
      /\ \A i \in DOMAIN queued : queued'[i] = queued[i]
      /\ queued'[Len(queued) + 1] = f
  BY DEF Push
<1> QED
  BY <1>1 DEF OneClose

\* Every step keeps it.
LEMMA NextClose == OneClose /\ QueueTypes /\ [Next]_vars => OneClose'
<1> SUFFICES ASSUME OneClose, QueueTypes, [Next]_vars PROVE OneClose'
  OBVIOUS
<1> USE DEF queueVars, wireVars
<1>0. queued \in Seq(Frames) /\ "pong" \in Frames /\ "close" \in Frames
  BY DEF QueueTypes, Frames
<1>1. ASSUME UNCHANGED queued, state_' = state_ \/ state_' = "CLOSED" PROVE OneClose'
  BY <1>1 DEF OneClose
<1>2. CASE EpollWait \/ ClientSends \/ ClientReads \/ ClientFin
  BY <1>1, <1>2 DEF EpollWait, ClientSends, ClientReads, ClientFin, Client
<1>3. ASSUME NEW s \in Senders, SendText(s) PROVE OneClose'
  <2>1. s \in Frames /\ s # "close" /\ Push(s) /\ state_' = state_
    BY <1>3, WebSocketAssumption DEF SendText, Frames
  <2> QED
    BY <1>0, <2>1, PushClose
<1>4. ASSUME Close PROVE OneClose'
  BY <1>0, <1>4, PushClose DEF Close
<1>5. ASSUME NEW w \in Workers, TakeTask(w) PROVE OneClose'
  BY <1>1, <1>5 DEF TakeTask
<1>6. ASSUME NEW w \in Workers, OnReadable(w) PROVE OneClose'
  <2>1. CASE Recv(w) \/ RecvEnds(w) \/ ParseText(w) \/ PongArms(w) \/ ParseCloseAgain(w)
    BY <1>1, <2>1 DEF Recv, RecvEnds, ParseText, PongArms, ParseCloseAgain, Read
  <2>2. CASE PingRaces(w) \/ OnClose(w) \/ QueueEmpty(w) \/ QueueWaits(w) \/ ReadArms(w)
    BY <1>1, <2>2 DEF PingRaces, OnClose, QueueEmpty, QueueWaits, ReadArms, Read
  <2>3. CASE ParsePing(w)
    BY <1>0, <2>3, PushClose DEF ParsePing
  <2>4. CASE ParseClose(w)
    BY <1>4, <2>4 DEF ParseClose
  <2> QED
    BY <1>6, <2>1, <2>2, <2>3, <2>4 DEF OnReadable
<1>7. ASSUME NEW w \in Workers, OnWritable(w) PROVE OneClose'
  BY <1>1, <1>7 DEF OnWritable, LockWrite, Send, SendBlocks, AllSent, ArmForRead
<1>8. CASE UNCHANGED vars
  BY <1>1, <1>8 DEF vars
<1> QED
  BY <1>2, <1>3, <1>4, <1>5, <1>6, <1>7, <1>8 DEF Next, Step, Idle, CloseByServer, Worker

-----------------------------------------------------------------------------
(* The reading side and the other types                                       *)

\* A step of a worker from one place to another keeps the ownership of
\* conn_mutex_ if it takes or leaves the mutex when it goes in or out.
LEMMA ReadKept ==
  ASSUME ReadInv, OtherTypes, NEW w \in Workers, NEW from, NEW to, Go(w, from, to),
         \/ /\ from \notin Reading /\ to \in Reading \ {"pong", "closed"}
            /\ conn_mutex_ = "none" /\ conn_mutex_' = w
         \/ from \in Reading /\ to \notin Reading /\ conn_mutex_' = "none"
         \/ (from \in Reading <=> to \in Reading) /\ conn_mutex_' = conn_mutex_,
         received' >= received /\ received' \in Nat,
         \/ handled' = handled
         \/ handled' = handled + 1 /\ from \in Reading /\ to \notin {"pong", "closed"},
         to \in {"pong", "closed"} => received >= 2 * handled + 2 /\ handled' = handled
  PROVE  ReadInv'
<1> USE WebSocketAssumption DEF Go
<1>1. \A v \in Workers : pc'[v] = IF v = w THEN to ELSE pc[v]
  BY DEF OtherTypes
<1>2. \A v \in Workers : pc'[v] \in Reading <=> conn_mutex_' = v
  BY <1>1 DEF ReadInv
<1>3. ASSUME NEW v \in Workers, pc'[v] \in {"pong", "closed"} PROVE received' >= 2 * handled' + 2
  <2>1. CASE v = w
    BY <1>1, <1>3, <2>1 DEF OtherTypes
  <2>2. CASE v # w
    <3>1. pc[v] \in {"pong", "closed"} /\ received >= 2 * handled + 2
      BY <1>1, <1>3, <2>2 DEF ReadInv
    <3>2. from \notin Reading
      BY <2>2, <3>1 DEF ReadInv, Reading
    <3> QED
      BY <3>1, <3>2 DEF OtherTypes
  <2> QED
    BY <2>1, <2>2
<1> QED
  BY <1>2, <1>3 DEF ReadInv

\* EPOLL_CTL_MOD.
LEMMA ArmTypes ==
  ASSUME NEW m \in {"in", "out"}, Arm(m)
  PROVE  mask' \in {"in", "out"} /\ pending' \in BOOLEAN /\ tasks' = tasks
BY DEF Arm, Ready

\* The steps of a worker.
LEMMA WorkerRead ==
  ASSUME ReadInv, OtherTypes, NEW w \in Workers, Worker(w)
  PROVE  ReadInv' /\ OtherTypes'
<1> USE DEF queueVars, wireVars, epollVars, inVars, Reading
<1>1. CASE TakeTask(w)
  <2>1. ReadInv'
    BY <1>1, ReadKept DEF TakeTask, OtherTypes
  <2>2. OtherTypes'
    BY <1>1 DEF TakeTask, Go, OtherTypes, ReadInv
  <2> QED
    BY <2>1, <2>2
<1>2. CASE Recv(w)
  <2>1. ReadInv'
    BY <1>2, ReadKept DEF Recv, Read, OtherTypes
  <2>2. OtherTypes'
    BY <1>2 DEF Recv, Read, Go, OtherTypes, ReadInv
  <2> QED
    BY <2>1, <2>2
<1>3. CASE RecvEnds(w)
  <2>1. ReadInv'
    BY <1>3, ReadKept DEF RecvEnds, Read, OtherTypes
  <2>2. OtherTypes'
    BY <1>3 DEF RecvEnds, Read, Go, OtherTypes, ReadInv
  <2> QED
    BY <2>1, <2>2
<1>4. CASE ParseText(w)
  <2>1. ReadInv'
    BY <1>4, ReadKept DEF ParseText, NextFrame, Read, OtherTypes
  <2>2. OtherTypes'
    BY <1>4 DEF ParseText, NextFrame, Read, Go, OtherTypes, ReadInv
  <2> QED
    BY <2>1, <2>2
<1>5. CASE ParsePing(w)
  <2>1. ReadInv'
    BY <1>5, ReadKept DEF ParsePing, NextFrame, Read, Push, OtherTypes
  <2>2. OtherTypes'
    BY <1>5 DEF ParsePing, NextFrame, Read, Push, Go, OtherTypes, ReadInv
  <2> QED
    BY <2>1, <2>2
<1>6. CASE PongArms(w)
  <2>1. ReadInv'
    BY <1>6, ReadKept DEF PongArms, Arm, Read, OtherTypes
  <2>2. OtherTypes'
    <3>1. mask' \in {"in", "out"} /\ pending' \in BOOLEAN /\ tasks' = tasks
      BY <1>6, ArmTypes DEF PongArms
    <3> QED
      BY <1>6, <3>1 DEF PongArms, Read, Go, OtherTypes, ReadInv
  <2> QED
    BY <2>1, <2>2
<1>7. CASE ParseClose(w)
  <2>1. ReadInv'
    BY <1>7, ReadKept DEF ParseClose, NextFrame, Close, Push, Arm, Read, OtherTypes
  <2>2. OtherTypes'
    <3>1. mask' \in {"in", "out"} /\ pending' \in BOOLEAN /\ tasks' = tasks
      BY <1>7, ArmTypes DEF ParseClose, Close
    <3> QED
      BY <1>7, <3>1 DEF ParseClose, NextFrame, Close, Push, Read, Go, OtherTypes, ReadInv
  <2> QED
    BY <2>1, <2>2
<1>8. CASE ParseCloseAgain(w)
  <2>1. ReadInv'
    BY <1>8, ReadKept DEF ParseCloseAgain, NextFrame, Read, OtherTypes
  <2>2. OtherTypes'
    BY <1>8 DEF ParseCloseAgain, NextFrame, Read, Go, OtherTypes, ReadInv
  <2> QED
    BY <2>1, <2>2
<1>9. CASE OnClose(w)
  <2>1. ReadInv'
    BY <1>9, ReadKept DEF OnClose, Read, OtherTypes
  <2>2. OtherTypes'
    BY <1>9 DEF OnClose, Read, Go, OtherTypes, ReadInv
  <2> QED
    BY <2>1, <2>2
<1>10. CASE QueueEmpty(w)
  <2>1. ReadInv'
    BY <1>10, ReadKept DEF QueueEmpty, Read, OtherTypes
  <2>2. OtherTypes'
    BY <1>10 DEF QueueEmpty, Read, Go, OtherTypes, ReadInv
  <2> QED
    BY <2>1, <2>2
<1>11. CASE QueueWaits(w)
  <2>1. ReadInv'
    BY <1>11, ReadKept DEF QueueWaits, Read, OtherTypes
  <2>2. OtherTypes'
    BY <1>11 DEF QueueWaits, Read, Go, OtherTypes, ReadInv
  <2> QED
    BY <2>1, <2>2
<1>12. CASE ReadArms(w)
  <2>1. ReadInv'
    BY <1>12, ReadKept DEF ReadArms, Arm, Read, OtherTypes
  <2>2. OtherTypes'
    <3>1. mask' \in {"in", "out"} /\ pending' \in BOOLEAN /\ tasks' = tasks
      BY <1>12, ArmTypes DEF ReadArms
    <3> QED
      BY <1>12, <3>1 DEF ReadArms, Read, Go, OtherTypes, ReadInv
  <2> QED
    BY <2>1, <2>2
<1>13. CASE LockWrite(w)
  <2>1. ReadInv'
    BY <1>13, ReadKept DEF LockWrite, Write, OtherTypes
  <2>2. OtherTypes'
    BY <1>13 DEF LockWrite, Write, Go, OtherTypes, ReadInv
  <2> QED
    BY <2>1, <2>2
<1>14. CASE Send(w)
  <2>1. ReadInv'
    BY <1>14, ReadKept DEF Send, Sends, Write, OtherTypes
  <2>2. OtherTypes'
    <3>1. PICK n \in 1..room : room' = room - n /\ Write(w, "flush", "flush")
                               /\ UNCHANGED <<epollVars, write_mu_, state_>>
      BY <1>14 DEF Send, Sends
    <3>2. room' \in 0..Room
      BY <3>1, WebSocketAssumption DEF OtherTypes
    <3> QED
      BY <3>1, <3>2 DEF Write, Go, OtherTypes
  <2> QED
    BY <2>1, <2>2
<1>15. CASE SendBlocks(w)
  <2>1. ReadInv'
    BY <1>15, ReadKept DEF SendBlocks, Write, OtherTypes
  <2>2. OtherTypes'
    BY <1>15 DEF SendBlocks, Write, Go, OtherTypes, ReadInv
  <2> QED
    BY <2>1, <2>2
<1>16. CASE AllSent(w)
  <2>1. ReadInv'
    BY <1>16, ReadKept DEF AllSent, Write, OtherTypes
  <2>2. OtherTypes'
    BY <1>16 DEF AllSent, Write, Go, OtherTypes, ReadInv
  <2> QED
    BY <2>1, <2>2
<1>17. CASE ArmForRead(w)
  <2>1. ReadInv'
    BY <1>17, ReadKept DEF ArmForRead, Arm, Write, OtherTypes
  <2>2. OtherTypes'
    <3>1. mask' \in {"in", "out"} /\ pending' \in BOOLEAN /\ tasks' = tasks
      BY <1>17, ArmTypes DEF ArmForRead
    <3> QED
      BY <1>17, <3>1 DEF ArmForRead, Write, Go, OtherTypes, ReadInv
  <2> QED
    BY <2>1, <2>2
<1>18. CASE PingRaces(w)
  BY <1>18 DEF PingRaces, OtherTypes, ReadInv
<1> QED
  BY <1>1, <1>2, <1>3, <1>4, <1>5, <1>6, <1>7, <1>8, <1>9,
     <1>10, <1>11, <1>12, <1>13, <1>14, <1>15, <1>16, <1>17, <1>18
     DEF Worker, OnReadable, OnWritable

\* Every step keeps the reading side and the types.
LEMMA NextRead == ReadInv /\ OtherTypes /\ [Next]_vars => ReadInv' /\ OtherTypes'
<1> SUFFICES ASSUME ReadInv, OtherTypes, [Next]_vars PROVE ReadInv' /\ OtherTypes'
  OBVIOUS
<1> USE WebSocketAssumption DEF queueVars, wireVars, epollVars, inVars
<1>1. CASE EpollWait
  <2>1. pending' = FALSE /\ tasks' = Append(tasks, mask)
    BY <1>1 DEF EpollWait
  <2>2. tasks \in Seq({"in", "out"}) /\ mask \in {"in", "out"}
    BY DEF OtherTypes
  <2>3. tasks' \in Seq({"in", "out"})
    <3>1. \A S : \A s \in Seq(S) : \A e \in S : Append(s, e) \in Seq(S)
      OBVIOUS
    <3> QED
      BY <2>1, <2>2, <3>1, Zenon
  <2>4. pending' \in BOOLEAN
    BY <2>1
  <2> QED
    BY <1>1, <2>3, <2>4 DEF EpollWait, OtherTypes, ReadInv
<1>2. CASE ClientSends
  BY <1>2 DEF ClientSends, Client, OtherTypes, ReadInv
<1>3. CASE ClientReads
  BY <1>3 DEF ClientReads, Client, OtherTypes, ReadInv
<1>4. CASE ClientFin
  BY <1>4 DEF ClientFin, Client, OtherTypes, ReadInv
<1>5. ASSUME NEW s \in Senders, SendText(s) PROVE ReadInv' /\ OtherTypes'
  <2>1. mask' \in {"in", "out"} /\ pending' \in BOOLEAN /\ tasks' = tasks
    BY <1>5, ArmTypes DEF SendText
  <2> QED
    BY <1>5, <2>1 DEF SendText, OtherTypes, ReadInv
<1>6. CASE CloseByServer
  <2>1. mask' \in {"in", "out"} /\ pending' \in BOOLEAN /\ tasks' = tasks
    BY <1>6, ArmTypes DEF CloseByServer, Close
  <2> QED
    BY <1>6, <2>1 DEF CloseByServer, Close, OtherTypes, ReadInv
<1>7. CASE UNCHANGED vars
  BY <1>7 DEF vars, OtherTypes, ReadInv
<1> QED
  BY <1>1, <1>2, <1>3, <1>4, <1>5, <1>6, <1>7, WorkerRead DEF Next, Step, Idle

-----------------------------------------------------------------------------
(* What is due                                                                *)

\* An element appended to the tasks is one of them, and so are the others.
LEMMA RangeAppend ==
  ASSUME NEW S, NEW s \in Seq(S), NEW e \in S
  PROVE  e \in Range(Append(s, e)) /\ \A x \in Range(s) : x \in Range(Append(s, e))
<1>1. /\ Len(Append(s, e)) = Len(s) + 1 /\ Append(s, e)[Len(s) + 1] = e
      /\ \A i \in 1..Len(s) : Append(s, e)[i] = s[i]
      /\ DOMAIN Append(s, e) = 1..Len(s) + 1 /\ DOMAIN s = 1..Len(s) /\ Len(s) \in Nat
  OBVIOUS
<1>2. Len(s) + 1 \in DOMAIN Append(s, e) /\ \A i \in DOMAIN s : i \in DOMAIN Append(s, e)
  BY <1>1
<1> QED
  BY <1>1, <1>2, Zenon DEF Range

\* Who takes the head leaves the others.
LEMMA RangeTail ==
  ASSUME NEW S, NEW s \in Seq(S), s # <<>>
  PROVE  \A x \in Range(s) : x = Head(s) \/ x \in Range(Tail(s))
<1>1. /\ Head(s) = s[1] /\ DOMAIN s = 1..Len(s) /\ Len(s) \in Nat
      /\ DOMAIN Tail(s) = 1..Len(s) - 1 /\ \A i \in 1..Len(s) - 1 : Tail(s)[i] = s[i + 1]
  OBVIOUS
<1>2. ASSUME NEW i \in DOMAIN s, i # 1 PROVE s[i] \in Range(Tail(s))
  <2>1. i - 1 \in DOMAIN Tail(s) /\ Tail(s)[i - 1] = s[i]
    BY <1>1, <1>2
  <2> QED
    BY <2>1, Zenon DEF Range
<1> QED
  BY <1>1, <1>2, Zenon DEF Range

\* A worker goes from one place to another and the others stay.
LEMMA Moved ==
  ASSUME OtherTypes, NEW w \in Workers, NEW from, NEW to, Go(w, from, to)
  PROVE  pc[w] = from /\ \A v \in Workers : pc'[v] = IF v = w THEN to ELSE pc[v]
BY DEF Go, OtherTypes

\* A push of a PONG and the end of a frame leave PONGs only.
LEMMA PongsKept ==
  ASSUME write_queue_ \in Seq(Frames),
         \/ UNCHANGED write_queue_
         \/ write_queue_' = Append(write_queue_, "pong")
         \/ write_queue_ # <<>> /\ write_queue_' = Tail(write_queue_)
  PROVE  OnlyPongs => OnlyPongs'
BY DEF OnlyPongs, Frames

\* A step of a worker keeps the ownership of write_mu_ if it takes or leaves the
\* mutex when it goes in or out, and queues another frame than a PONG only while
\* nobody has it.
LEMMA WriteKept ==
  ASSUME WriteInv, OtherTypes, NEW w \in Workers, NEW from, NEW to, Go(w, from, to),
         \/ from \notin Writing /\ to = "flush" /\ write_mu_ = "none" /\ write_mu_' = w
         \/ from \in Writing /\ to \notin Writing /\ write_mu_' = "none"
         \/ (from \in Writing <=> to \in Writing) /\ write_mu_' = write_mu_,
         \/ OnlyPongs => OnlyPongs'
         \/ write_mu_ = "none" /\ to \notin Writing,
         to = "rearm" => OnlyPongs'
  PROVE  WriteInv'
<1>1. pc[w] = from /\ \A v \in Workers : pc'[v] = IF v = w THEN to ELSE pc[v]
  BY Moved
<1>2. "none" \notin Workers
  BY WebSocketAssumption
<1>3. \A v \in Workers : pc'[v] \in Writing <=> write_mu_' = v
  BY <1>1, <1>2 DEF WriteInv, Writing
<1>4. ASSUME NEW v \in Workers, pc'[v] = "rearm" PROVE OnlyPongs'
  <2>1. CASE v = w
    BY <1>1, <1>4, <2>1
  <2>2. CASE v # w
    <3>1. pc[v] = "rearm" /\ write_mu_ = v /\ OnlyPongs
      BY <1>1, <1>4, <2>2 DEF WriteInv, Writing
    <3> QED
      BY <1>2, <3>1
  <2> QED
    BY <2>1, <2>2
<1> QED
  BY <1>3, <1>4 DEF WriteInv

\* The mutex of the writers and the mask of what waits, for the steps of a worker.
LEMMA WorkerWrite ==
  ASSUME Inv, WriteInv, Armed, NEW w \in Workers, Worker(w)
  PROVE  WriteInv' /\ Armed'
<1> USE DEF queueVars, epollVars, Read, Write
<1>0. OtherTypes /\ write_queue_ \in Seq(Frames)
  BY DEF Inv, QueueInv, QueueTypes
<1>1. ASSUME UNCHANGED write_queue_ PROVE OnlyPongs' = OnlyPongs
  BY <1>1 DEF OnlyPongs
<1>2. CASE TakeTask(w)
  <2>1. PICK to \in {"read", "write"} : Go(w, "idle", to)
    BY <1>2 DEF TakeTask
  <2>2. UNCHANGED <<write_queue_, write_mu_, mask>>
    BY <1>2 DEF TakeTask
  <2> QED
    BY <1>0, <1>1, <2>1, <2>2, WriteKept DEF Writing, Armed
<1>3. CASE Recv(w)
  BY <1>0, <1>1, <1>3, WriteKept DEF Recv, Writing, Armed
<1>4. CASE RecvEnds(w)
  BY <1>0, <1>1, <1>4, WriteKept DEF RecvEnds, Writing, Armed
<1>5. CASE ParseText(w)
  BY <1>0, <1>1, <1>5, WriteKept DEF ParseText, Writing, Armed
<1>6. CASE ParsePing(w)
  <2>1. OnlyPongs => OnlyPongs'
    BY <1>0, <1>6, PongsKept DEF ParsePing, Push
  <2> QED
    BY <1>0, <1>6, <2>1, WriteKept DEF ParsePing, Writing, Armed
<1>7. CASE PingRaces(w)
  BY <1>1, <1>7 DEF PingRaces, WriteInv, Armed
<1>8. CASE PongArms(w)
  BY <1>0, <1>1, <1>8, WriteKept DEF PongArms, Arm, Writing, Armed
<1>9. CASE ParseClose(w)
  BY <1>0, <1>9, WriteKept DEF ParseClose, Close, Arm, Writing, Armed
<1>10. CASE ParseCloseAgain(w)
  BY <1>0, <1>1, <1>10, WriteKept DEF ParseCloseAgain, Writing, Armed
<1>11. CASE OnClose(w)
  BY <1>0, <1>1, <1>11, WriteKept DEF OnClose, Writing, Armed
<1>12. CASE QueueEmpty(w)
  BY <1>0, <1>1, <1>12, WriteKept DEF QueueEmpty, Writing, Armed
<1>13. CASE QueueWaits(w)
  BY <1>0, <1>1, <1>13, WriteKept DEF QueueWaits, Writing, Armed
<1>14. CASE ReadArms(w)
  BY <1>0, <1>1, <1>14, WriteKept DEF ReadArms, Arm, Writing, Armed
<1>15. CASE LockWrite(w)
  BY <1>0, <1>1, <1>15, WriteKept DEF LockWrite, Writing, Armed
<1>16. CASE Send(w)
  <2>1. /\ Go(w, "flush", "flush") /\ UNCHANGED <<write_mu_, mask>>
        /\ \/ UNCHANGED write_queue_
           \/ write_queue_ # <<>> /\ write_queue_' = Tail(write_queue_)
    BY <1>16 DEF Send
  <2>2. OnlyPongs => OnlyPongs'
    BY <1>0, <2>1, PongsKept
  <2> QED
    BY <1>0, <2>1, <2>2, WriteKept DEF Writing, Armed
<1>17. CASE SendBlocks(w)
  BY <1>0, <1>1, <1>17, WriteKept DEF SendBlocks, Writing, Armed
<1>18. CASE AllSent(w)
  <2>1. OnlyPongs'
    BY <1>18 DEF AllSent, OnlyPongs
  <2> QED
    BY <1>0, <1>18, <2>1, WriteKept DEF AllSent, Writing, Armed
<1>19. CASE ArmForRead(w)
  <2>1. OnlyPongs'
    <3>1. pc[w] = "rearm"
      BY <1>19 DEF ArmForRead, Go
    <3> QED
      BY <1>1, <1>19, <3>1 DEF ArmForRead, WriteInv
  <2> QED
    BY <1>0, <1>19, <2>1, WriteKept DEF ArmForRead, Writing, Armed
<1> QED
  BY <1>2, <1>3, <1>4, <1>5, <1>6, <1>7, <1>8, <1>9, <1>10,
     <1>11, <1>12, <1>13, <1>14, <1>15, <1>16, <1>17, <1>18, <1>19
     DEF Worker, OnReadable, OnWritable

\* A step of a worker that leaves the registration alone leaves the writer due,
\* or is the writer's.
LEMMA WriteDueKept ==
  ASSUME WriteDue, OtherTypes, NEW w \in Workers, NEW from, NEW to, Go(w, from, to),
         UNCHANGED <<mask, pending, tasks>>,
         \/ room' = room /\ from \notin {"write", "flush", "rearm"}
         \/ room' = room /\ room = 0
         \/ to \in {"write", "flush", "rearm"}
  PROVE  WriteDue'
<1>1. pc[w] = from /\ \A v \in Workers : pc'[v] = IF v = w THEN to ELSE pc[v]
  BY Moved
<1> QED
  BY <1>1 DEF WriteDue

\* The same for the reader.
LEMMA ReadDueKept ==
  ASSUME ReadDue, OtherTypes, NEW w \in Workers, NEW from, NEW to, Go(w, from, to),
         UNCHANGED <<mask, pending, tasks>>,
         \/ received' = received /\ from # "read"
         \/ received' = arrived
  PROVE  ReadDue'
<1>1. pc[w] = from /\ \A v \in Workers : pc'[v] = IF v = w THEN to ELSE pc[v]
  BY Moved
<1>2. arrived' = arrived /\ arrived \in Nat /\ received \in Nat
  BY WebSocketAssumption DEF OtherTypes, Go
<1> QED
  BY <1>1, <1>2 DEF ReadDue

\* A task that a worker takes becomes its place.
LEMMA TakeTaskDue ==
  ASSUME OtherTypes, WriteDue, ReadDue, NEW w \in Workers, TakeTask(w)
  PROVE  WriteDue' /\ ReadDue'
<1> DEFINE to == IF Head(tasks) = "in" THEN "read" ELSE "write"
<1>1. /\ tasks # <<>> /\ Go(w, "idle", to) /\ tasks' = Tail(tasks)
      /\ UNCHANGED <<mask, pending, room, received, arrived>>
  BY DEF TakeTask, wireVars, Go
<1>2. tasks \in Seq({"in", "out"})
  BY DEF OtherTypes
<1>3. \A x \in Range(tasks) : x = Head(tasks) \/ x \in Range(tasks')
  BY <1>1, <1>2, RangeTail
<1>4. pc[w] = "idle" /\ \A v \in Workers : pc'[v] = IF v = w THEN to ELSE pc[v]
  <2> HIDE DEF to
  <2> QED
    BY <1>1, Moved
<1>5. "out" \in Range(tasks) => "out" \in Range(tasks') \/ pc'[w] = "write"
  BY <1>3, <1>4
<1>6. "in" \in Range(tasks) => "in" \in Range(tasks') \/ pc'[w] = "read"
  BY <1>3, <1>4
<1>7. \A v \in Workers : pc[v] # "idle" => pc'[v] = pc[v]
  BY <1>4
<1>8. WriteDue'
  BY <1>1, <1>5, <1>7 DEF WriteDue
<1>9. ReadDue'
  BY <1>1, <1>6, <1>7 DEF ReadDue
<1> QED
  BY <1>8, <1>9

\* EPOLL_CTL_MOD for write looks at the buffer.
LEMMA ArmOutDue ==
  ASSUME OtherTypes, Arm("out"), UNCHANGED room
  PROVE  WriteDue' /\ ReadDue'
<1>1. room \in Nat
  BY WebSocketAssumption DEF OtherTypes
<1>2. mask' = "out" /\ (room > 0 => pending')
  BY DEF Arm, Ready
<1> QED
  BY <1>1, <1>2 DEF WriteDue, ReadDue

\* The registration and the tasks, for the steps of a worker.
LEMMA WorkerDue ==
  ASSUME OtherTypes, WriteDue, ReadDue, NEW w \in Workers, Worker(w)
  PROVE  WriteDue' /\ ReadDue'
<1> USE DEF epollVars, wireVars, Read, Write
<1>1. CASE TakeTask(w)
  BY <1>1, TakeTaskDue
<1>2. CASE Recv(w)
  BY <1>2, WriteDueKept, ReadDueKept DEF Recv
<1>3. CASE RecvEnds(w)
  BY <1>3, WriteDueKept, ReadDueKept DEF RecvEnds
<1>4. CASE ParseText(w)
  BY <1>4, WriteDueKept, ReadDueKept DEF ParseText
<1>5. CASE ParsePing(w)
  BY <1>5, WriteDueKept, ReadDueKept DEF ParsePing
<1>6. CASE PingRaces(w)
  BY <1>6 DEF PingRaces, inVars, WriteDue, ReadDue
<1>7. CASE PongArms(w) \/ ReadArms(w)
  BY <1>7, ArmOutDue DEF PongArms, ReadArms
<1>8. CASE ParseClose(w)
  BY <1>8, ArmOutDue DEF ParseClose, Close
<1>9. CASE ParseCloseAgain(w)
  BY <1>9, WriteDueKept, ReadDueKept DEF ParseCloseAgain
<1>10. CASE OnClose(w)
  BY <1>10, WriteDueKept, ReadDueKept DEF OnClose
<1>11. CASE QueueEmpty(w)
  BY <1>11, WriteDueKept, ReadDueKept DEF QueueEmpty
<1>12. CASE QueueWaits(w)
  BY <1>12, WriteDueKept, ReadDueKept DEF QueueWaits
<1>13. CASE LockWrite(w)
  BY <1>13, WriteDueKept, ReadDueKept DEF LockWrite
<1>14. CASE Send(w)
  <2>1. Go(w, "flush", "flush") /\ UNCHANGED <<received, mask, pending, tasks>>
    BY <1>14 DEF Send
  <2> QED
    BY <2>1, WriteDueKept, ReadDueKept
<1>15. CASE SendBlocks(w)
  BY <1>15, WriteDueKept, ReadDueKept DEF SendBlocks
<1>16. CASE AllSent(w)
  BY <1>16, WriteDueKept, ReadDueKept DEF AllSent
<1>17. CASE ArmForRead(w)
  <2>1. mask' = "in" /\ (received < arrived => pending') /\ received' = received /\ arrived' = arrived
    BY <1>17 DEF ArmForRead, Arm, Ready, Go
  <2> QED
    BY <2>1 DEF WriteDue, ReadDue
<1> QED
  BY <1>1, <1>2, <1>3, <1>4, <1>5, <1>6, <1>7, <1>8, <1>9, <1>10,
     <1>11, <1>12, <1>13, <1>14, <1>15, <1>16, <1>17
     DEF Worker, OnReadable, OnWritable

\* A worker goes on with a complete frame until it is handled, or there is none.
LEMMA ParseDueKept ==
  ASSUME ParseDue, OtherTypes, NEW w \in Workers, NEW from, NEW to, Go(w, from, to),
         \/ to \in {"parse", "pong", "closed"}
         \/ from \notin {"parse", "pong", "closed"} /\ UNCHANGED <<link, received, handled>>
         \/ received < 2 * handled + 2 /\ UNCHANGED <<received, handled>>
         \/ link' = "fin"
  PROVE  ParseDue'
<1>1. pc[w] = from /\ \A v \in Workers : pc'[v] = IF v = w THEN to ELSE pc[v]
  BY Moved
<1>2. handled \in Nat /\ received \in Nat
  BY WebSocketAssumption DEF OtherTypes
<1> QED
  BY <1>1, <1>2 DEF ParseDue

\* The frames of read_buffer_, for the steps of a worker.
LEMMA WorkerParse ==
  ASSUME OtherTypes, ParseDue, NEW w \in Workers, Worker(w)
  PROVE  ParseDue'
<1> USE DEF Read, Write
<1>1. CASE TakeTask(w)
  <2>1. PICK to : Go(w, "idle", to)
    BY <1>1 DEF TakeTask
  <2>2. UNCHANGED <<link, received, handled>>
    BY <1>1 DEF TakeTask
  <2> QED
    BY <2>1, <2>2, ParseDueKept
<1>2. CASE Recv(w)
  BY <1>2, ParseDueKept DEF Recv
<1>3. CASE RecvEnds(w)
  BY <1>3, ParseDueKept DEF RecvEnds
<1>4. CASE ParseText(w)
  BY <1>4, ParseDueKept DEF ParseText
<1>5. CASE ParsePing(w)
  BY <1>5, ParseDueKept DEF ParsePing
<1>6. CASE PingRaces(w)
  BY <1>6 DEF PingRaces, inVars, ParseDue
<1>7. CASE PongArms(w)
  BY <1>7, ParseDueKept DEF PongArms
<1>8. CASE ParseClose(w)
  BY <1>8, ParseDueKept DEF ParseClose
<1>9. CASE ParseCloseAgain(w)
  BY <1>9, ParseDueKept DEF ParseCloseAgain
<1>10. CASE OnClose(w)
  BY <1>10, ParseDueKept DEF OnClose
<1>11. CASE QueueEmpty(w)
  BY <1>11, ParseDueKept DEF QueueEmpty
<1>12. CASE QueueWaits(w)
  BY <1>12, ParseDueKept DEF QueueWaits
<1>13. CASE ReadArms(w)
  BY <1>13, ParseDueKept DEF ReadArms
<1>14. CASE LockWrite(w)
  BY <1>14, ParseDueKept DEF LockWrite
<1>15. CASE Send(w)
  <2>1. Go(w, "flush", "flush") /\ UNCHANGED <<link, received, handled>>
    BY <1>15 DEF Send
  <2> QED
    BY <2>1, ParseDueKept
<1>16. CASE SendBlocks(w)
  BY <1>16, ParseDueKept DEF SendBlocks
<1>17. CASE AllSent(w)
  BY <1>17, ParseDueKept DEF AllSent
<1>18. CASE ArmForRead(w)
  BY <1>18, ParseDueKept DEF ArmForRead
<1> QED
  BY <1>1, <1>2, <1>3, <1>4, <1>5, <1>6, <1>7, <1>8, <1>9, <1>10,
     <1>11, <1>12, <1>13, <1>14, <1>15, <1>16, <1>17, <1>18
     DEF Worker, OnReadable, OnWritable

\* A frame queued under write_mu_ is armed for, and nobody is about to arm for
\* read.
LEMMA QueuedRest ==
  ASSUME OtherTypes, RestInv, write_mu_ = "none", Arm("out"),
         UNCHANGED <<link, inVars, room, pc, write_mu_>>
  PROVE  RestInv'
<1>1. \A w \in Workers : pc[w] # "rearm"
  BY WebSocketAssumption DEF RestInv, WriteInv, Writing
<1>2. WriteInv'
  BY <1>1 DEF RestInv, WriteInv
<1>3. Armed'
  BY DEF Arm, Armed
<1>4. WriteDue' /\ ReadDue'
  BY ArmOutDue
<1>5. ParseDue'
  BY DEF RestInv, ParseDue, inVars
<1> QED
  BY <1>2, <1>3, <1>4, <1>5 DEF RestInv

\* Every step keeps what is due.
LEMMA NextRest == Inv /\ RestInv /\ [Next]_vars => RestInv'
<1> SUFFICES ASSUME Inv, RestInv, [Next]_vars PROVE RestInv'
  OBVIOUS
<1> USE DEF queueVars, wireVars, inVars
<1>0. OtherTypes
  BY DEF Inv
<1>1. ASSUME UNCHANGED <<write_queue_, pc, write_mu_>> PROVE WriteInv'
  BY <1>1 DEF RestInv, WriteInv, OnlyPongs
<1>2. ASSUME UNCHANGED <<write_queue_, mask>> PROVE Armed'
  BY <1>2 DEF RestInv, Armed, OnlyPongs
<1>3. CASE EpollWait
  <2>1. tasks \in Seq({"in", "out"}) /\ mask \in {"in", "out"} /\ tasks' = Append(tasks, mask)
    BY <1>0, <1>3 DEF EpollWait, OtherTypes
  <2>2. mask \in Range(tasks') /\ \A x \in Range(tasks) : x \in Range(tasks')
    BY <2>1, RangeAppend
  <2>3. UNCHANGED <<link, mask, pc, write_queue_, write_mu_, room, received, arrived, handled>>
    BY <1>3 DEF EpollWait
  <2>4. WriteDue'
    BY <2>2, <2>3 DEF RestInv, WriteDue
  <2>5. ReadDue'
    BY <2>2, <2>3 DEF RestInv, ReadDue
  <2>6. ParseDue'
    BY <2>3 DEF RestInv, ParseDue
  <2> QED
    BY <1>1, <1>2, <2>3, <2>4, <2>5, <2>6 DEF RestInv
<1>4. CASE ClientSends \/ ClientFin
  <2>1. /\ mask = "in" => pending'
        /\ pending => pending'
        /\ UNCHANGED <<mask, tasks, pc, write_mu_, write_queue_, room, received, handled>>
        /\ link' = link \/ link' = "fin"
    BY <1>4 DEF ClientSends, ClientFin, Client
  <2>2. WriteDue'
    BY <2>1 DEF RestInv, WriteDue
  <2>3. ReadDue'
    BY <2>1 DEF ReadDue
  <2>4. ParseDue'
    BY <2>1 DEF RestInv, ParseDue
  <2> QED
    BY <1>1, <1>2, <2>1, <2>2, <2>3, <2>4 DEF RestInv
<1>5. CASE ClientReads
  <2>1. /\ mask = "out" /\ room = 0 => pending'
        /\ pending => pending'
        /\ UNCHANGED <<mask, tasks, pc, write_mu_, write_queue_, arrived, received, handled, link>>
    BY <1>5 DEF ClientReads, Client
  <2>2. WriteDue'
    BY <2>1 DEF RestInv, WriteDue
  <2>3. ReadDue'
    BY <2>1 DEF RestInv, ReadDue
  <2>4. ParseDue'
    BY <2>1 DEF RestInv, ParseDue
  <2> QED
    BY <1>1, <1>2, <2>1, <2>2, <2>3, <2>4 DEF RestInv
<1>6. ASSUME NEW s \in Senders, SendText(s) PROVE RestInv'
  BY <1>0, <1>6, QueuedRest DEF SendText
<1>7. CASE CloseByServer
  BY <1>0, <1>7, QueuedRest DEF CloseByServer, Close
<1>8. ASSUME NEW w \in Workers, Worker(w) PROVE RestInv'
  <2>1. WriteInv' /\ Armed'
    BY <1>8, WorkerWrite DEF RestInv
  <2>2. WriteDue' /\ ReadDue'
    BY <1>0, <1>8, WorkerDue DEF RestInv
  <2>3. ParseDue'
    BY <1>0, <1>8, WorkerParse DEF RestInv
  <2> QED
    BY <2>1, <2>2, <2>3 DEF RestInv
<1>9. CASE UNCHANGED vars
  BY <1>1, <1>2, <1>9 DEF vars, epollVars, RestInv, WriteDue, ReadDue, ParseDue
<1> QED
  BY <1>3, <1>4, <1>5, <1>6, <1>7, <1>8, <1>9 DEF Next, Step, Idle

-----------------------------------------------------------------------------
(* The theorems                                                               *)

\* The invariant holds at the start.
LEMMA InitInv == Init => Inv
<1> SUFFICES ASSUME Init PROVE Inv
  OBVIOUS
<1>1. OneClose
  BY DEF Init, OneClose
<1>2. ReadInv
  BY WebSocketAssumption DEF Init, ReadInv, Reading
<1>3. OtherTypes
  <2>1. /\ Room \in 0..Room /\ 0 \in 0..2 * Len(Incoming) /\ 0 \in 0..0 /\ 2 * 0 = 0
        /\ <<>> \in Seq({"in", "out"})
    BY WebSocketAssumption
  <2> QED
    BY <2>1 DEF Init, OtherTypes
<1> QED
  BY <1>1, <1>2, <1>3, InitQueue DEF Inv

\* The inductive invariant holds in every reachable state.
THEOREM InvHolds == Spec => []Inv
<1>1. Inv /\ [Next]_vars => Inv'
  <2>1. Inv => room \in Nat /\ QueueTypes
    BY WebSocketAssumption DEF Inv, OtherTypes, QueueInv
  <2> QED
    BY <2>1, NextQueue, NextClose, NextRead DEF Inv
<1> QED
  BY <1>1, InitInv, PTL DEF Spec

\* The types of the connection's state.
THEOREM TypeOKHolds == Spec => []TypeOK
<1>1. Inv => TypeOK
  BY DEF Inv, OtherTypes, QueueInv, QueueTypes, TypeOK
<1> QED
  BY <1>1, InvHolds, PTL

\* Whatever pieces the socket takes and however workers, senders and PONGs
\* interleave, the client gets whole frames in the order of the queue, and at
\* most one Close.
THEOREM FramesWholeHolds == Spec => []FramesWhole
<1>1. ASSUME Inv PROVE IsPrefix(wire, Flat(queued))
  <2> DEFINE L == Len(wire)
             T == Len(queued) * FrameLen
             F == Flat(queued)
  <2>0. /\ FrameLen \in Nat \ {0} /\ Len(queued) \in Nat /\ L \in Nat /\ T \in Nat
        /\ wire \in Seq(Frames \X (1..FrameLen))
    BY <1>1, WebSocketAssumption, Multiples DEF Inv, QueueInv, QueueTypes
  <2>1. L <= T
    <3>1. /\ Popped \in Nat /\ Popped <= Len(queued)
          /\ write_offset_ \in 0..FrameLen - 1
          /\ L = Popped * FrameLen + write_offset_
          /\ write_offset_ = 0 \/ Popped + 1 <= Len(queued)
      BY <1>1 DEF Inv, QueueInv, QueueTypes, Suffix, OnWire, Popped
    <3>2. CASE write_offset_ = 0
      <4>1. Popped * FrameLen <= T /\ Popped * FrameLen \in Nat
        BY <2>0, <3>1, Multiples
      <4> QED
        BY <3>1, <3>2, <4>1
    <3>3. CASE Popped + 1 <= Len(queued)
      <4>0. Popped + 1 \in Nat
        BY <3>1
      <4>1. (Popped + 1) * FrameLen <= T
        BY <2>0, <3>3, <4>0, Multiples
      <4>2. (Popped + 1) * FrameLen = Popped * FrameLen + FrameLen /\ Popped * FrameLen \in Nat
        BY <2>0, <3>1, Multiples
      <4> QED
        BY <2>0, <3>1, <4>1, <4>2
    <3> QED
      BY <3>1, <3>2, <3>3
  <2>2. F = [n \in 1..T |-> <<queued[((n - 1) \div FrameLen) + 1], ((n - 1) % FrameLen) + 1>>]
    BY DEF Flat
  <2> HIDE DEF T, F
  <2>3. ASSUME NEW n \in 1..L PROVE wire[n] = F[n]
    <3> DEFINE q == (n - 1) \div FrameLen
               m == (n - 1) % FrameLen
    <3>1. n - 1 \in Nat /\ n - 1 < Len(queued) * FrameLen /\ n \in 1..T
      BY <2>0, <2>1 DEF T
    <3>2. q \in Nat /\ q < Len(queued) /\ m \in 0..FrameLen - 1 /\ n - 1 = q * FrameLen + m
      BY <2>0, <3>1, Quotient
    <3>3. F[n] = <<queued[q + 1], m + 1>>
      BY <2>2, <3>1
    <3> HIDE DEF q, m
    <3>4. q + 1 \in 1..Len(queued) /\ m + 1 \in 1..FrameLen /\ ((q + 1) - 1) * FrameLen + (m + 1) = n
      BY <2>0, <3>1, <3>2
    <3>5. wire[((q + 1) - 1) * FrameLen + (m + 1)] = <<queued[q + 1], m + 1>>
      BY <1>1, <2>0, <2>3, <3>4 DEF Inv, QueueInv, OnWire
    <3> QED
      BY <3>3, <3>4, <3>5
  <2>4. Len(F) = T /\ L <= Len(F)
    BY <2>0, <2>1, <2>2
  <2>5. SubSeq(wire, 1, L) = SubSeq(F, 1, L)
    <3>1. SubSeq(wire, 1, L) = [n \in 1..L |-> wire[n]]
      BY <2>0
    <3>2. SubSeq(F, 1, L) = [n \in 1..L |-> F[n]]
      BY <2>0, <2>2
    <3> QED
      BY <2>3, <3>1, <3>2
  <2> QED
    BY <2>4, <2>5 DEF IsPrefix, F
<1>2. Inv => FramesWhole
  BY <1>1 DEF FramesWhole, Inv, OneClose
<1> QED
  BY <1>2, InvHolds, PTL

\* At the start nothing is due.
LEMMA InitRest == Init => RestInv
<1> SUFFICES ASSUME Init PROVE RestInv
  OBVIOUS
<1>1. WriteInv
  BY WebSocketAssumption DEF Init, WriteInv, Writing, OnlyPongs
<1>2. Armed /\ WriteDue /\ ReadDue /\ ParseDue
  BY DEF Init, Armed, WriteDue, ReadDue, ParseDue, OnlyPongs
<1> QED
  BY <1>1, <1>2 DEF RestInv

\* However SendText, Close, PONGs and the handlers of the workers switch the mask
\* of the edge-triggered descriptor, the connection comes to rest with a client
\* that reads only when every frame queued under write_mu_ has been sent and every
\* complete frame of the client handled: OnWritable arms for read under write_mu_,
\* and EPOLL_CTL_MOD looks at readiness.
THEOREM RestsWhenDoneHolds == Spec => []RestsWhenDone
<1>1. ASSUME Inv, RestInv, AtRest, room > 0, link = "up" PROVE
        Range(write_queue_) \subseteq {"pong"} /\ 2 * handled + 2 > arrived
  <2>1. /\ ~pending /\ tasks = <<>> /\ \A w \in Workers : pc[w] = "idle"
        /\ room # 0
    BY <1>1, WebSocketAssumption DEF AtRest, Inv, OtherTypes
  <2>2. \A x : x \notin Range(tasks)
    BY <2>1 DEF Range
  <2>3. mask # "out"
    BY <1>1, <2>1, <2>2 DEF RestInv, WriteDue
  <2>4. mask = "in"
    BY <1>1, <2>3 DEF Inv, OtherTypes
  <2>5. ~(received < arrived)
    BY <1>1, <2>1, <2>2, <2>4 DEF RestInv, ReadDue
  <2>6. ~(received >= 2 * handled + 2)
    BY <1>1, <2>1 DEF RestInv, ParseDue
  <2>7. 2 * handled + 2 > arrived
    <3>1. received \in Nat /\ arrived \in Nat /\ handled \in Nat
      BY <1>1, WebSocketAssumption DEF Inv, OtherTypes
    <3> QED
      BY <2>5, <2>6, <3>1
  <2>8. OnlyPongs
    BY <1>1, <2>4 DEF RestInv, Armed
  <2>9. Range(write_queue_) \subseteq {"pong"}
    BY <2>8 DEF OnlyPongs, Range
  <2> QED
    BY <2>7, <2>9
<1>2. Inv /\ RestInv => RestsWhenDone
  BY <1>1 DEF RestsWhenDone
<1>3. Spec => []RestInv
  BY InvHolds, InitRest, NextRest, PTL DEF Spec
<1> QED
  BY <1>2, <1>3, InvHolds, PTL
=============================================================================
