-------------------------- MODULE SignallingProofs --------------------------
(* Proofs about Signalling, for any finite sets of candidates on both sides.  *)
EXTENDS Signalling, TLAPS

\* The candidates in frames under way, and those that wait in the session.
UnderWay == Range(toServer) \cap PageCandidates
Queued == Range(earlyCandidates)

\* The session's half of the state: ServerKeeps spelled out, and no candidate
\* is under way twice (or it would be in two places after the first was read).
Kept == /\ sent = UnderWay \cup lost \cup refused \cup Queued \cup added
        /\ UnderWay \cap (lost \cup refused \cup Queued \cup added) = {}
        /\ lost \cap (refused \cup Queued \cup added) = {}
        /\ refused \cap (Queued \cup added) = {}
        /\ Queued \cap added # {} => described /\ ~hasRemoteDescription
        /\ hasRemoteDescription => earlyCandidates = <<>>
OnceUnderWay == \A i, j \in DOMAIN toServer :
                  toServer[i] = toServer[j] /\ toServer[i] \in PageCandidates => i = j
AddedLate == added # {} \/ refused # {} \/ hasRemoteDescription => described
ServerTypes == /\ sent \subseteq PageCandidates
               /\ toServer \in Seq(PageCandidates \cup Signals)
               /\ described \in BOOLEAN /\ hasRemoteDescription \in BOOLEAN
               /\ earlyCandidates \in Seq(PageCandidates)
ServerInv == ServerTypes /\ Kept /\ OnceUnderWay /\ AddedLate

\* The page's half: the flush has added the front of the queue, and the one
\* answer is under way only while no answer was received.
FlushedAdded == \A i \in 1..flushed : earlyCandidatesRef[i] \in pageAdded
OneAnswer == /\ \A i \in DOMAIN toPage : toPage[i] = "answer" => answered /\ answering = "none"
             /\ \A i, j \in DOMAIN toPage : toPage[i] = "answer" /\ toPage[j] = "answer" => i = j
             /\ answering # "none" => answered
FromServer == \A i \in DOMAIN toPage : toPage[i] \in gathered \cup {"answer"}
PageAddedLate == pageAdded # {} => RemoteDescriptionSet
PageTypes == /\ answering \in {"none", "setting", "refused", "flushing", "broken", "live"}
             /\ earlyCandidatesRef \in Seq(ServerCandidates)
             /\ flushed \in 0..Len(earlyCandidatesRef)
             /\ received \subseteq gathered /\ pageAdded \subseteq received
             /\ toPage \in Seq(ServerCandidates \cup {"answer"})
             /\ answered \in BOOLEAN /\ gathered \subseteq ServerCandidates
PageInv == PageTypes /\ PageKeeps /\ FlushedAdded /\ OneAnswer /\ FromServer /\ PageAddedLate

\* The rest: how far page, upgrade and session are.
PlaceInv == /\ page \in {"dialling", "open", "gathering", "offered", "complete", "failed", "left"}
            /\ link \in {"up", "down"}
            /\ handler \in {"none", "switching", "registered", "refused", "listed", "threw",
                            "setting", "listening", "ready", "crashed"}
            /\ row \in {"none", "live", "ended"}
            /\ session \in {"none", "open", "stopped", "closed"}

serverHalf == <<sent, toServer, lost, rtcVars>>
pageHalf == <<answering, earlyCandidatesRef, flushed, received, pageAdded, toPage, answered, gathered>>

-----------------------------------------------------------------------------
(* Queues                                                                     *)

\* What a push adds to the elements of a queue.
LEMMA RangeAppend ==
  ASSUME NEW S, NEW q \in Seq(S), NEW e \in S
  PROVE  /\ Append(q, e) \in Seq(S)
         /\ Range(Append(q, e)) = Range(q) \cup {e}
<1> DEFINE a == Append(q, e)
<1>1. /\ a \in Seq(S) /\ DOMAIN q = 1..Len(q) /\ DOMAIN a = 1..(Len(q) + 1) /\ Len(q) \in Nat
      /\ \A i \in DOMAIN q : a[i] = q[i]
      /\ a[Len(q) + 1] = e
  OBVIOUS
<1> HIDE DEF a
<1>2. \A x \in Range(a) : x \in Range(q) \cup {e}
  BY <1>1 DEF Range
<1>3. \A x \in Range(q) : x \in Range(a)
  BY <1>1 DEF Range
<1>4. e \in Range(a)
  <2>1. Len(q) + 1 \in DOMAIN a
    BY <1>1
  <2> QED
    BY <1>1, <2>1 DEF Range
<1>5. Range(a) = Range(q) \cup {e}
  BY <1>2, <1>3, <1>4
<1> QED
  BY <1>1, <1>5 DEF a

\* What a pop takes from them.
LEMMA RangeTail ==
  ASSUME NEW S, NEW q \in Seq(S), q # <<>>
  PROVE  /\ Tail(q) \in Seq(S)
         /\ Head(q) \in S
         /\ Head(q) = q[1]
         /\ 1 \in DOMAIN q
         /\ Range(q) = Range(Tail(q)) \cup {Head(q)}
         /\ \A i \in DOMAIN Tail(q) : i + 1 \in DOMAIN q /\ Tail(q)[i] = q[i + 1]
<1> DEFINE t == Tail(q)
<1>1. /\ t \in Seq(S) /\ Head(q) \in S /\ Head(q) = q[1] /\ 1 \in DOMAIN q
      /\ DOMAIN q = 1..Len(q) /\ DOMAIN t = 1..(Len(q) - 1) /\ Len(q) \in Nat \ {0}
      /\ \A i \in DOMAIN t : i + 1 \in DOMAIN q /\ t[i] = q[i + 1]
  OBVIOUS
<1> HIDE DEF t
<1>2. \A x \in Range(t) : x \in Range(q)
  BY <1>1 DEF Range
<1>3. q[1] \in Range(q)
  BY <1>1 DEF Range
<1>4. ASSUME NEW i \in DOMAIN q, i # 1 PROVE q[i] \in Range(t)
  <2>1. i - 1 \in DOMAIN t /\ (i - 1) + 1 = i
    BY <1>1, <1>4
  <2> QED
    BY <1>1, <2>1 DEF Range
<1>5. Range(q) = Range(t) \cup {q[1]}
  BY <1>2, <1>3, <1>4 DEF Range
<1> QED
  BY <1>1, <1>5 DEF t

\* The empty queue.
LEMMA RangeEmpty == Range(<<>>) = {}
BY DEF Range

-----------------------------------------------------------------------------
(* Initial states                                                             *)

\* Nothing is under way.
LEMMA InitInv == Init => ServerInv /\ PageInv /\ PlaceInv
<1> SUFFICES ASSUME Init PROVE ServerInv /\ PageInv /\ PlaceInv
  OBVIOUS
<1> USE DEF Init
<1>0. \A S : <<>> \in Seq(S)
  OBVIOUS
<1>1. ServerTypes /\ OnceUnderWay /\ AddedLate
  <2>1. ServerTypes
    BY <1>0 DEF ServerTypes
  <2> QED
    BY <2>1 DEF OnceUnderWay, AddedLate
<1>5. UnderWay = {} /\ Queued = {}
  BY RangeEmpty DEF UnderWay, Queued
<1>6. Kept
  BY <1>5 DEF Kept
<1>2. PageTypes
  <2>1. flushed \in 0..Len(earlyCandidatesRef)
    OBVIOUS
  <2> QED
    BY <1>0, <2>1 DEF PageTypes
<1>3. PageKeeps /\ FlushedAdded /\ OneAnswer /\ FromServer /\ PageAddedLate
  BY RangeEmpty DEF PageKeeps, FlushedAdded, OneAnswer, FromServer, PageAddedLate
<1>4. PlaceInv
  BY DEF PlaceInv
<1> QED
  BY <1>1, <1>2, <1>3, <1>4, <1>6 DEF ServerInv, PageInv

-----------------------------------------------------------------------------
(* The session's half                                                         *)

\* A new candidate is nowhere yet; the frame is pushed, or lost without a link.
LEMMA CandidateSent ==
  ASSUME ServerInv, NEW c \in PageCandidates, c \notin sent, sent' = sent \cup {c}, Send(c),
         link \in {"up", "down"}, UNCHANGED rtcVars
  PROVE  ServerInv'
<1> USE DEF ServerInv, ServerTypes, rtcVars
<1>1. CASE link = "up"
  <2>1. toServer' = Append(toServer, c) /\ lost' = lost
    BY <1>1 DEF Send
  <2>2. toServer' \in Seq(PageCandidates \cup Signals) /\ Range(toServer') = Range(toServer) \cup {c}
    BY <2>1, RangeAppend
  <2>3. c \notin Range(toServer) /\ c \notin lost \cup refused \cup Queued \cup added
    BY DEF Kept, UnderWay
  <2>4. Kept'
    BY <2>1, <2>2, <2>3 DEF Kept, UnderWay, Queued
  <2>5. OnceUnderWay'
    BY <2>1, <2>3 DEF OnceUnderWay, Range
  <2> QED
    BY <2>2, <2>4, <2>5 DEF AddedLate
<1>2. CASE link = "down"
  <2>1. toServer' = toServer /\ lost' = lost \cup {c}
    BY <1>2 DEF Send
  <2>2. Kept'
    BY <2>1 DEF Kept, UnderWay, Queued
  <2> QED
    BY <2>1, <2>2 DEF OnceUnderWay, AddedLate
<1> QED
  BY <1>1, <1>2

\* Other frames carry no candidate.
LEMMA SignalSent ==
  ASSUME ServerInv, NEW m \in Signals, Send(m), UNCHANGED <<sent, rtcVars>>
  PROVE  ServerInv'
<1> USE DEF ServerInv, ServerTypes, rtcVars
<1>0. m \notin PageCandidates
  BY SignallingAssumption
<1>1. lost' = lost
  BY <1>0 DEF Send
<1>2. CASE toServer' = toServer
  BY <1>1, <1>2 DEF Kept, UnderWay, Queued, OnceUnderWay, AddedLate
<1>3. CASE toServer' = Append(toServer, m)
  <2>1. toServer' \in Seq(PageCandidates \cup Signals) /\ Range(toServer') = Range(toServer) \cup {m}
    BY <1>3, RangeAppend
  <2>2. Kept'
    BY <1>0, <1>1, <2>1 DEF Kept, UnderWay, Queued
  <2>3. OnceUnderWay'
    BY <1>0, <1>3 DEF OnceUnderWay
  <2> QED
    BY <2>1, <2>2, <2>3 DEF AddedLate
<1> QED
  BY <1>2, <1>3 DEF Send

\* What a reading worker takes is no longer under way, in no copy.
LEMMA TakenOff ==
  ASSUME ServerInv, NEW m, Reads(m)
  PROVE  /\ m \in PageCandidates \cup Signals
         /\ toServer' \in Seq(PageCandidates \cup Signals)
         /\ UnderWay' = UnderWay \ {m}
         /\ m \in PageCandidates => m \in UnderWay
         /\ OnceUnderWay'
<1>1. /\ toServer \in Seq(PageCandidates \cup Signals) /\ toServer # <<>>
      /\ m = Head(toServer) /\ toServer' = Tail(toServer)
  BY DEF ServerInv, ServerTypes, Reads
<1>2. /\ Tail(toServer) \in Seq(PageCandidates \cup Signals)
      /\ m \in PageCandidates \cup Signals
      /\ m = toServer[1] /\ 1 \in DOMAIN toServer
      /\ Range(toServer) = Range(toServer') \cup {m}
      /\ \A i \in DOMAIN toServer' : i \in Nat \ {0} /\ i + 1 \in DOMAIN toServer
                                     /\ toServer'[i] = toServer[i + 1]
  BY <1>1, RangeTail
<1>3. m \in PageCandidates => m \notin Range(toServer')
  BY <1>2 DEF ServerInv, OnceUnderWay, Range
<1>4. OnceUnderWay'
  BY <1>2 DEF ServerInv, OnceUnderWay
<1> QED
  BY <1>1, <1>2, <1>3, <1>4 DEF UnderWay

\* The worker's handlers move the frame's candidate to one other place.
LEMMA ReadServerInv == ServerInv /\ ReadStep => ServerInv'
<1> SUFFICES ASSUME ServerInv, ReadStep PROVE ServerInv'
  OBVIOUS
<1> USE DEF ServerInv, ServerTypes, serverVars, rtcVars, pageVars, Keeps
<1>0. \A c \in PageCandidates : c \notin Signals
  BY SignallingAssumption
<1>1. ASSUME NEW m \in PageCandidates \cup Signals, Unhandled(m) PROVE ServerInv'
  <2>1. /\ toServer' \in Seq(PageCandidates \cup Signals)
        /\ UnderWay' = UnderWay \ {m} /\ OnceUnderWay'
        /\ m \in PageCandidates => m \in UnderWay
    BY <1>1, TakenOff DEF Unhandled
  <2>2. Kept'
    BY <1>1, <2>1 DEF Unhandled, Kept, Queued, UnderWay
  <2> QED
    BY <1>1, <2>1, <2>2 DEF Unhandled, AddedLate
<1>2. CASE HandleOffer
  <2>1. /\ toServer' \in Seq(PageCandidates \cup Signals)
        /\ UnderWay' = UnderWay \ {"offer"} /\ OnceUnderWay'
    BY <1>2, TakenOff DEF HandleOffer, Handles
  <2>2. UnderWay' = UnderWay
    BY <2>1, <1>0 DEF UnderWay, Signals
  <2>3. Queued' = {} /\ earlyCandidates' \in Seq(PageCandidates)
    BY <1>2, RangeEmpty DEF HandleOffer, Queued
  <2>4. Kept'
    BY <1>2, <2>2, <2>3 DEF HandleOffer, Kept, Queued
  <2> QED
    BY <1>2, <2>1, <2>3, <2>4 DEF HandleOffer, AddedLate
<1>3. ASSUME NEW m \in Signals, Reads(m), UNCHANGED <<sent, lost, rtcVars>> PROVE ServerInv'
  <2>1. /\ toServer' \in Seq(PageCandidates \cup Signals)
        /\ UnderWay' = UnderWay \ {m} /\ OnceUnderWay'
    BY <1>3, TakenOff
  <2>2. UnderWay' = UnderWay
    BY <2>1, <1>0 DEF UnderWay
  <2> QED
    BY <1>3, <2>1, <2>2 DEF Kept, Queued, AddedLate
<1>4. ASSUME NEW c \in PageCandidates, HandleCandidate(c) PROVE ServerInv'
  <2>1. /\ toServer' \in Seq(PageCandidates \cup Signals)
        /\ UnderWay' = UnderWay \ {c} /\ OnceUnderWay' /\ c \in UnderWay
    BY <1>4, TakenOff DEF HandleCandidate, Handles
  <2>2. CASE hasRemoteDescription
    <3>1. Kept'
      BY <1>4, <2>1, <2>2 DEF HandleCandidate, Kept, Queued
    <3> QED
      BY <1>4, <2>1, <2>2, <3>1 DEF HandleCandidate, AddedLate
  <2>3. CASE ~hasRemoteDescription
    <3>1. earlyCandidates' \in Seq(PageCandidates) /\ Queued' = Queued \cup {c}
      <4>1. earlyCandidates \in Seq(PageCandidates) /\ earlyCandidates' = Append(earlyCandidates, c)
        BY <1>4, <2>3 DEF HandleCandidate
      <4> QED
        BY <4>1, RangeAppend DEF Queued
    <3>2. Kept'
      <4>1. UNCHANGED <<sent, lost, added, refused, described, hasRemoteDescription>> /\ Kept
        BY <1>4, <2>3 DEF HandleCandidate
      <4> QED
        BY <2>1, <2>3, <3>1, <4>1 DEF Kept
    <3> QED
      BY <1>4, <2>1, <2>3, <3>1, <3>2 DEF HandleCandidate, AddedLate
  <2> QED
    BY <2>2, <2>3
<1>5. CASE FlushThrows
  <2>1. /\ toServer' \in Seq(PageCandidates \cup Signals)
        /\ UnderWay' = UnderWay \ {"offer"} /\ OnceUnderWay'
    BY <1>5, TakenOff DEF FlushThrows, Handles
  <2>2. UnderWay' = UnderWay
    BY <2>1, <1>0 DEF UnderWay, Signals
  <2>3. /\ UNCHANGED <<sent, lost, refused, hasRemoteDescription, earlyCandidates>> /\ described'
        /\ added \subseteq added' /\ added' \subseteq added \cup Queued
    <3>1. PICK k \in DOMAIN earlyCandidates :
             added' = added \cup {earlyCandidates[i] : i \in 1..k - 1}
      BY <1>5 DEF FlushThrows
    <3>2. \A i \in 1..k - 1 : i \in DOMAIN earlyCandidates
      OBVIOUS
    <3>3. {earlyCandidates[i] : i \in 1..k - 1} \subseteq Queued
      BY <3>2 DEF Queued, Range
    <3> QED
      BY <1>5, <3>1, <3>3 DEF FlushThrows
  <2>4. ~hasRemoteDescription
    <3>1. earlyCandidates # <<>>
      BY <1>5 DEF FlushThrows
    <3> QED
      BY <3>1 DEF Kept
  <2>5. Kept'
    <3>1. Kept /\ Queued' = Queued
      BY <2>3 DEF Queued
    <3> QED
      BY <2>2, <2>3, <2>4, <3>1 DEF Kept
  <2> QED
    BY <1>5, <2>1, <2>3, <2>5 DEF AddedLate
<1>6. ASSUME NEW c \in PageCandidates, CandidateThrows(c) PROVE ServerInv'
  <2>1. /\ toServer' \in Seq(PageCandidates \cup Signals)
        /\ UnderWay' = UnderWay \ {c} /\ OnceUnderWay' /\ c \in UnderWay
    BY <1>6, TakenOff DEF CandidateThrows, Handles
  <2>2. /\ UNCHANGED <<sent, lost, added, described, hasRemoteDescription, earlyCandidates>>
        /\ refused' = refused \cup {c} /\ hasRemoteDescription /\ Kept
    BY <1>6 DEF CandidateThrows
  <2>3. Kept'
    BY <2>1, <2>2 DEF Kept, Queued
  <2> QED
    BY <2>1, <2>2, <2>3 DEF AddedLate
<1>7. CASE OfferThrows \/ HandleEnd \/ HandleClose \/ CloseThrows
  BY <1>3, <1>7 DEF OfferThrows, HandleEnd, HandleClose, CloseThrows, Handles, Signals
<1>8. CASE Crash
  BY <1>8 DEF Crash, Kept, UnderWay, Queued, OnceUnderWay, AddedLate
<1> QED
  BY <1>1, <1>2, <1>4, <1>5, <1>6, <1>7, <1>8 DEF ReadStep

\* Every step keeps the session's half.
LEMMA NextServerInv == ServerInv /\ PlaceInv /\ [Next]_vars => ServerInv'
<1> SUFFICES ASSUME ServerInv, PlaceInv, [Next]_vars PROVE ServerInv'
  OBVIOUS
<1>1. ASSUME UNCHANGED serverHalf PROVE ServerInv'
  BY <1>1 DEF serverHalf, rtcVars, ServerInv, ServerTypes, Kept, OnceUnderWay, AddedLate,
              UnderWay, Queued
<1>2. ASSUME NEW c \in PageCandidates, OnIceCandidate(c) PROVE ServerInv'
  BY <1>2, CandidateSent DEF OnIceCandidate, PlaceInv, serverVars
<1>3. CASE SendOffer \/ OnLastCandidate \/ Leave
  BY <1>3, SignalSent DEF SendOffer, OnLastCandidate, Leave, serverVars, Signals
<1>4. CASE OnOpen \/ SetLocalDescription \/ OfferFails
  BY <1>1, <1>4 DEF OnOpen, SetLocalDescription, OfferFails, serverVars, rtcVars, serverHalf
<1>5. CASE Lose
  <2>1. UnderWay' = {} /\ toServer' \in Seq(PageCandidates \cup Signals)
    BY <1>5, RangeEmpty DEF Lose, UnderWay
  <2>2. OnceUnderWay'
    BY <1>5 DEF Lose, OnceUnderWay
  <2>3. Kept'
    BY <1>5, <2>1 DEF Lose, ServerInv, Kept, Queued, UnderWay, pageVars, serverVars, rtcVars
  <2> QED
    BY <1>5, <2>1, <2>2, <2>3
       DEF Lose, ServerInv, ServerTypes, AddedLate, pageVars, serverVars, rtcVars
<1>6. CASE UpgradeStep
  BY <1>1, <1>6
     DEF UpgradeStep, Send101, Register, Refuse, Create, CreatePeerConnection, SetupThrows,
         SetOnMessage, SetOnClose, Upgrade, pageVars, rtcVars, serverHalf
<1>7. CASE OnLocalDescription \/ \E c \in ServerCandidates : OnLocalCandidate(c)
  BY <1>1, <1>7 DEF OnLocalDescription, OnLocalCandidate, Reply, pageVars, rtcVars, serverHalf
<1>8. CASE PageStep
  BY <1>1, <1>8
     DEF PageStep, ReceiveAnswer, ReceiveCandidate, Receives, SetRemoteDescription,
         SetRemoteDescriptionFails, FlushOne, FlushFails, FlushDone, Continues, serverVars,
         rtcVars, serverHalf
<1>9. CASE UNCHANGED vars
  BY <1>1, <1>9 DEF vars, pageVars, rtcVars, serverHalf
<1> QED
  BY <1>2, <1>3, <1>4, <1>5, <1>6, <1>7, <1>8, <1>9, ReadServerInv DEF Next, PageSends

-----------------------------------------------------------------------------
(* The page's half                                                            *)

\* libdatachannel sends its one answer and each of its candidates.
LEMMA ReplyPageInv ==
  ASSUME PageInv,
         OnLocalDescription \/ \E c \in ServerCandidates : OnLocalCandidate(c)
  PROVE  PageInv'
<1> USE SignallingAssumption DEF PageInv, PageTypes, pageVars
<1>1. ASSUME NEW m \in ServerCandidates \cup {"answer"}, Reply(m)
      PROVE  /\ UNCHANGED <<answering, earlyCandidatesRef, flushed, received, pageAdded>>
             /\ toPage' \in Seq(ServerCandidates \cup {"answer"})
             /\ \/ toPage' = toPage
                \/ /\ DOMAIN toPage' = 1..(Len(toPage) + 1) /\ DOMAIN toPage = 1..Len(toPage)
                   /\ \A i \in DOMAIN toPage : toPage'[i] = toPage[i]
                   /\ toPage'[Len(toPage) + 1] = m
  BY <1>1 DEF Reply
<1>2. CASE OnLocalDescription
  <2>1. OneAnswer'
    <3>1. /\ ~answered /\ answering = "none"
          /\ \A i \in DOMAIN toPage : toPage[i] # "answer"
      BY <1>2 DEF OnLocalDescription, OneAnswer
    <3>2. answered' /\ Reply("answer")
      BY <1>2 DEF OnLocalDescription
    <3> QED
      BY <1>1, <3>1, <3>2 DEF OneAnswer
  <2>2. FromServer'
    BY <1>1, <1>2 DEF OnLocalDescription, FromServer
  <2> QED
    BY <1>1, <1>2, <2>1, <2>2
       DEF OnLocalDescription, PageKeeps, FlushedAdded, PageAddedLate, RemoteDescriptionSet
<1>3. ASSUME NEW c \in ServerCandidates, OnLocalCandidate(c) PROVE PageInv'
  <2>1. OneAnswer'
    BY <1>1, <1>3 DEF OnLocalCandidate, OneAnswer
  <2>2. FromServer'
    BY <1>1, <1>3 DEF OnLocalCandidate, FromServer
  <2> QED
    BY <1>1, <1>3, <2>1, <2>2
       DEF OnLocalCandidate, PageKeeps, FlushedAdded, PageAddedLate, RemoteDescriptionSet
<1> QED
  BY <1>2, <1>3

\* ws.onmessage takes the first frame; what it handles came from the server.
LEMMA Delivered ==
  ASSUME PageInv, NEW m, Receives(m)
  PROVE  /\ toPage' \in Seq(ServerCandidates \cup {"answer"})
         /\ FromServer' /\ m \in gathered \cup {"answer"}
         /\ m = "answer" => /\ answered /\ answering = "none"
                            /\ \A i \in DOMAIN toPage' : toPage'[i] # "answer"
         /\ \A i \in DOMAIN toPage' : toPage'[i] = "answer" =>
               /\ answered /\ answering = "none"
               /\ \A j \in DOMAIN toPage' : toPage'[j] = "answer" => i = j
         /\ UNCHANGED <<answered, gathered>>
<1>1. /\ toPage \in Seq(ServerCandidates \cup {"answer"}) /\ toPage # <<>>
      /\ m = Head(toPage) /\ toPage' = Tail(toPage) /\ UNCHANGED <<answered, gathered>>
  BY DEF PageInv, PageTypes, Receives, serverVars, peerVars
<1>2. /\ Tail(toPage) \in Seq(ServerCandidates \cup {"answer"})
      /\ m = toPage[1] /\ 1 \in DOMAIN toPage
      /\ \A i \in DOMAIN toPage' : i \in Nat \ {0} /\ i + 1 \in DOMAIN toPage
                                   /\ toPage'[i] = toPage[i + 1]
  BY <1>1, RangeTail
<1>3. FromServer' /\ m \in gathered \cup {"answer"}
  BY <1>1, <1>2 DEF PageInv, FromServer
<1>4. m = "answer" => /\ answered /\ answering = "none"
                      /\ \A i \in DOMAIN toPage' : toPage'[i] # "answer"
  <2>1. ASSUME m = "answer", NEW i \in DOMAIN toPage', toPage'[i] = "answer" PROVE FALSE
    <3>1. toPage[1] = "answer" /\ toPage[i + 1] = "answer" /\ 1 # i + 1
      BY <1>2, <2>1
    <3> QED
      BY <1>2, <3>1 DEF PageInv, OneAnswer
  <2> QED
    BY <1>2, <2>1 DEF PageInv, OneAnswer
<1>5. \A i \in DOMAIN toPage' : toPage'[i] = "answer" =>
         /\ answered /\ answering = "none"
         /\ \A j \in DOMAIN toPage' : toPage'[j] = "answer" => i = j
  BY <1>2 DEF PageInv, OneAnswer
<1> QED
  BY <1>1, <1>2, <1>3, <1>4, <1>5

\* The page's handlers, interleaved at their awaits.
LEMMA PageStepInv ==
  ASSUME PageInv, PageStep
  PROVE  PageInv'
<1> USE SignallingAssumption DEF PageInv, PageTypes
<1> DEFINE Frames == UNCHANGED <<received, toPage, answered, gathered>>
<1>1. CASE ReceiveAnswer
  <2>1. /\ toPage' \in Seq(ServerCandidates \cup {"answer"}) /\ FromServer'
        /\ answered /\ answering = "none" /\ UNCHANGED <<answered, gathered>>
        /\ \A i \in DOMAIN toPage' : toPage'[i] # "answer"
    BY <1>1, Delivered DEF ReceiveAnswer
  <2>2. OneAnswer'
    BY <2>1 DEF OneAnswer
  <2> QED
    BY <1>1, <2>1, <2>2
       DEF ReceiveAnswer, PageKeeps, FlushedAdded, PageAddedLate, RemoteDescriptionSet
<1>2. ASSUME NEW c \in ServerCandidates, ReceiveCandidate(c) PROVE PageInv'
  <2>1. /\ toPage' \in Seq(ServerCandidates \cup {"answer"}) /\ FromServer'
        /\ c \in gathered /\ UNCHANGED <<answered, gathered>>
        /\ \A i \in DOMAIN toPage' : toPage'[i] = "answer" =>
               /\ answered /\ answering = "none"
               /\ \A j \in DOMAIN toPage' : toPage'[j] = "answer" => i = j
    BY <1>2, Delivered DEF ReceiveCandidate
  <2>2. UNCHANGED <<answering, flushed>> /\ received' = received \cup {c}
    BY <1>2 DEF ReceiveCandidate
  <2>3. OneAnswer'
    BY <2>1, <2>2 DEF OneAnswer
  <2>4. CASE RemoteDescriptionSet
    <3>1. pageAdded' = pageAdded \cup {c} /\ UNCHANGED earlyCandidatesRef
      BY <1>2, <2>4 DEF ReceiveCandidate
    <3> QED
      BY <2>1, <2>2, <2>3, <2>4, <3>1
         DEF PageKeeps, FlushedAdded, PageAddedLate, RemoteDescriptionSet
  <2>5. CASE ~RemoteDescriptionSet
    <3>1. earlyCandidatesRef' = Append(earlyCandidatesRef, c) /\ UNCHANGED pageAdded
      BY <1>2, <2>5 DEF ReceiveCandidate
    <3>2. /\ earlyCandidatesRef' \in Seq(ServerCandidates)
          /\ Range(earlyCandidatesRef') = Range(earlyCandidatesRef) \cup {c}
      BY <3>1, RangeAppend
    <3>3. PageKeeps' /\ PageAddedLate'
      BY <2>2, <2>5, <3>1, <3>2 DEF PageKeeps, PageAddedLate, RemoteDescriptionSet
    <3>4. flushed' \in 0..Len(earlyCandidatesRef') /\ FlushedAdded'
      BY <2>2, <3>1 DEF FlushedAdded
    <3> QED
      BY <2>1, <2>2, <2>3, <3>1, <3>2, <3>3, <3>4
  <2> QED
    BY <2>4, <2>5
<1>3. ASSUME Frames, answering # "none", answering' # "none" PROVE OneAnswer' /\ FromServer'
  BY <1>3 DEF OneAnswer, FromServer
<1>4. CASE SetRemoteDescription \/ SetRemoteDescriptionFails \/ FlushFails
  BY <1>3, <1>4
     DEF SetRemoteDescription, SetRemoteDescriptionFails, FlushFails, Continues, PageKeeps,
         FlushedAdded, PageAddedLate, RemoteDescriptionSet, serverVars, peerVars
<1>5. CASE FlushOne
  <2>1. /\ Frames /\ answering = "flushing" /\ UNCHANGED <<answering, earlyCandidatesRef>>
        /\ flushed < Len(earlyCandidatesRef) /\ flushed' = flushed + 1
        /\ pageAdded' = pageAdded \cup {earlyCandidatesRef[flushed + 1]}
    BY <1>5 DEF FlushOne, Continues, serverVars, peerVars
  <2>2. earlyCandidatesRef[flushed + 1] \in Range(earlyCandidatesRef)
    BY <2>1 DEF Range
  <2>3. PageKeeps' /\ PageAddedLate'
    BY <2>1, <2>2 DEF PageKeeps, PageAddedLate, RemoteDescriptionSet
  <2>4. FlushedAdded'
    BY <2>1 DEF FlushedAdded
  <2> QED
    BY <1>3, <2>1, <2>2, <2>3, <2>4 DEF PageKeeps
<1>6. CASE FlushDone
  <2>1. /\ Frames /\ answering = "flushing" /\ answering' = "live" /\ UNCHANGED pageAdded
        /\ flushed >= Len(earlyCandidatesRef) /\ flushed' = 0 /\ earlyCandidatesRef' = <<>>
    BY <1>6 DEF FlushDone, Continues, serverVars, peerVars
  <2>2. Range(earlyCandidatesRef) \subseteq pageAdded
    BY <2>1 DEF FlushedAdded, Range
  <2>3. PageKeeps' /\ PageAddedLate'
    BY <2>1, <2>2, RangeEmpty DEF PageKeeps, PageAddedLate, RemoteDescriptionSet
  <2> QED
    BY <1>3, <2>1, <2>3 DEF FlushedAdded
<1> QED
  BY <1>1, <1>2, <1>4, <1>5, <1>6 DEF PageStep

\* Every step keeps the page's half.
LEMMA NextPageInv == PageInv /\ [Next]_vars => PageInv'
<1> SUFFICES ASSUME PageInv, [Next]_vars PROVE PageInv'
  OBVIOUS
<1>1. ASSUME UNCHANGED pageHalf PROVE PageInv'
  BY <1>1 DEF pageHalf, PageInv, PageTypes, PageKeeps, FlushedAdded, OneAnswer, FromServer,
              PageAddedLate, RemoteDescriptionSet
<1>2. CASE PageSends
  BY <1>1, <1>2
     DEF PageSends, OnOpen, SetLocalDescription, OfferFails, SendOffer, OnIceCandidate,
         OnLastCandidate, Leave, serverVars, peerVars, pageHalf
<1>3. CASE Lose
  BY <1>3 DEF Lose, pageVars, serverVars, peerVars, PageInv, PageTypes, PageKeeps, FlushedAdded,
              OneAnswer, FromServer, PageAddedLate, RemoteDescriptionSet
<1>4. CASE UpgradeStep
  BY <1>1, <1>4
     DEF UpgradeStep, Send101, Register, Refuse, Create, CreatePeerConnection, SetupThrows,
         SetOnMessage, SetOnClose, Upgrade, pageVars, peerVars, pageHalf
<1>5. CASE ReadStep
  BY <1>1, <1>5
     DEF ReadStep, Unhandled, HandleOffer, OfferThrows, FlushThrows, Keeps, HandleEnd,
         HandleCandidate, CandidateThrows, HandleClose,
         CloseThrows, Crash, pageVars, serverVars, peerVars, pageHalf
<1>6. CASE UNCHANGED vars
  BY <1>1, <1>6 DEF vars, pageVars, peerVars, pageHalf
<1> QED
  BY <1>2, <1>3, <1>4, <1>5, <1>6, ReplyPageInv, PageStepInv DEF Next

-----------------------------------------------------------------------------
(* The theorems                                                               *)

\* The upgrade, the page and the session only go through the places they have.
LEMMA NextPlaceInv == PlaceInv /\ [Next]_vars => PlaceInv'
<1> SUFFICES ASSUME PlaceInv, [Next]_vars PROVE PlaceInv'
  OBVIOUS
<1> USE DEF PlaceInv
<1>1. CASE PageSends \/ Lose
  BY <1>1 DEF PageSends, OnOpen, SetLocalDescription, OfferFails, SendOffer, OnIceCandidate,
              OnLastCandidate, Leave, Lose, pageVars, serverVars
<1>2. CASE UpgradeStep
  BY <1>2 DEF UpgradeStep, Send101, Register, Refuse, Create, CreatePeerConnection, SetupThrows,
              SetOnMessage, SetOnClose, Upgrade, pageVars
<1>3. CASE ReadStep
  BY <1>3 DEF ReadStep, Unhandled, HandleOffer, OfferThrows, FlushThrows, Keeps,
              HandleEnd, HandleCandidate, CandidateThrows,
              HandleClose, CloseThrows, Crash, pageVars, serverVars
<1>4. CASE OnLocalDescription \/ \E c \in ServerCandidates : OnLocalCandidate(c)
  BY <1>4 DEF OnLocalDescription, OnLocalCandidate, Reply, pageVars
<1>5. CASE PageStep
  BY <1>5 DEF PageStep, ReceiveAnswer, ReceiveCandidate, Receives, SetRemoteDescription,
              SetRemoteDescriptionFails, FlushOne, FlushFails, FlushDone, Continues, serverVars
<1>6. CASE UNCHANGED vars
  BY <1>6 DEF vars, pageVars
<1> QED
  BY <1>1, <1>2, <1>3, <1>4, <1>5, <1>6 DEF Next

\* The inductive invariant holds in every reachable state.
THEOREM InvHolds == Spec => [](ServerInv /\ PageInv /\ PlaceInv)
BY InitInv, NextServerInv, NextPageInv, NextPlaceInv, PTL DEF Spec

\* The types of both sides, for any sets of candidates.
THEOREM TypeOKHolds == Spec => []TypeOK
<1>1. ServerInv /\ PageInv /\ PlaceInv => TypeOK
  BY DEF ServerInv, ServerTypes, Kept, PageInv, PageTypes, PlaceInv, TypeOK
<1> QED
  BY <1>1, InvHolds, PTL

\* However upgrade, reading worker and network interleave, the session has each
\* candidate of the page in one place, under way, lost, refused, queued or added,
\* but for those a flush had added before it threw.
THEOREM ServerKeepsHolds == Spec => []ServerKeeps
<1>1. Kept => ServerKeeps
  <2> SUFFICES ASSUME Kept PROVE ServerKeeps
    OBVIOUS
  <2> DEFINE queued == Range(earlyCandidates)
             places == <<Range(toServer) \cap PageCandidates, lost, refused, queued \ added, added>>
  <2>1. /\ DOMAIN places = {1, 2, 3, 4, 5}
        /\ places[1] = UnderWay /\ places[2] = lost /\ places[3] = refused
        /\ places[4] = Queued \ added /\ places[5] = added
    BY DEF UnderWay, Queued
  <2>0. queued = Queued
    BY DEF Queued
  <2> HIDE DEF places, queued
  <2>2. UNION Range(places) = UnderWay \cup lost \cup refused \cup Queued \cup added
    BY <2>1 DEF Range
  <2>3. \A i, j \in DOMAIN places : i # j => places[i] \cap places[j] = {}
    BY <2>1 DEF Kept
  <2>4. /\ sent = UNION Range(places) /\ (hasRemoteDescription => earlyCandidates = <<>>)
        /\ queued \cap added # {} => described /\ ~hasRemoteDescription
    BY <2>0, <2>2 DEF Kept
  <2> QED
    BY <2>3, <2>4 DEF ServerKeeps, places, queued
<1>2. ServerInv /\ PageInv /\ PlaceInv => ServerKeeps
  BY <1>1 DEF ServerInv
<1> QED
  BY <1>2, InvHolds, PTL

\* Neither side hands a candidate to its peer connection before the remote
\* description is set.
THEOREM NeverTooEarlyHolds == Spec => []NeverTooEarly
<1>1. ServerInv /\ PageInv /\ PlaceInv => NeverTooEarly
  BY DEF ServerInv, AddedLate, PageInv, PageAddedLate, NeverTooEarly
<1> QED
  BY <1>1, InvHolds, PTL

\* The page's handlers drop no candidate, and a page that is live has given all
\* of them to its peer connection.
THEOREM PageKeepsHolds == Spec => []PageKeeps
<1>1. ServerInv /\ PageInv /\ PlaceInv => PageKeeps
  BY DEF PageInv
<1> QED
  BY <1>1, InvHolds, PTL

-----------------------------------------------------------------------------
(* The answer                                                                 *)

\* The safety half of AcceptedGoesLive: the answer to an accepted offer is still
\* libdatachannel's to give, with a session that can give it, or on its way to the
\* page, or the page has taken it up; unless the page or the link has gone.
AnswerKept == described /\ link = "up" /\ page # "left" =>
                IF answered THEN "answer" \in Range(toPage) \/ answering # "none"
                            ELSE session \in {"open", "stopped"}

\* Only a page that leaves sends a Close frame, and only that ends the session.
ClosedByPage == page # "left" => "close" \notin Range(toServer) /\ session # "closed"

\* Who finds the message callback set finds a session.
SessionThere == described \/ handler \in {"setting", "listening", "ready"} =>
                  session # "none"

AnswerThere == answered /\ link = "up" => "answer" \in Range(toPage) \/ answering # "none"

AnswerInv == ClosedByPage /\ SessionThere /\ AnswerThere

\* A frame other than Close.
LEMMA SendNoClose ==
  ASSUME toServer \in Seq(PageCandidates \cup Signals),
         NEW m \in PageCandidates \cup Signals, m # "close", Send(m),
         "close" \notin Range(toServer)
  PROVE  "close" \notin Range(toServer')
<1>1. toServer' = toServer \/ toServer' = Append(toServer, m)
  BY DEF Send
<1>2. Range(Append(toServer, m)) = Range(toServer) \cup {m}
  BY RangeAppend
<1> QED
  BY <1>1, <1>2

\* ClosedByPage for every step.
LEMMA NextClosed == ServerInv /\ ClosedByPage /\ [Next]_vars => ClosedByPage'
<1> SUFFICES ASSUME ServerInv, ClosedByPage, [Next]_vars, page' # "left"
             PROVE  "close" \notin Range(toServer') /\ session' # "closed"
  BY DEF ClosedByPage
<1>0. toServer \in Seq(PageCandidates \cup Signals)
  BY DEF ServerInv, ServerTypes
<1>1. CASE page = "left"
  BY <1>1 DEF Next, PageSends, OnOpen, SetLocalDescription, OfferFails, SendOffer, OnIceCandidate,
              OnLastCandidate, Leave, Lose, UpgradeStep, Send101, Register, Refuse, Create,
              CreatePeerConnection, SetupThrows, SetOnMessage, SetOnClose, Upgrade,
              ReadStep, Unhandled, HandleOffer, OfferThrows, FlushThrows, Keeps,
              HandleEnd, HandleCandidate, CandidateThrows,
              HandleClose, CloseThrows, Crash, OnLocalDescription, OnLocalCandidate, Reply,
              PageStep, ReceiveAnswer, ReceiveCandidate, Receives, SetRemoteDescription,
              SetRemoteDescriptionFails, FlushOne, FlushFails, FlushDone, Continues, pageVars, vars
<1> SUFFICES ASSUME page # "left" PROVE "close" \notin Range(toServer') /\ session' # "closed"
  BY <1>1
<1>2. "close" \notin Range(toServer) /\ session # "closed"
  BY DEF ClosedByPage
<1>3. ASSUME UNCHANGED <<toServer, session>>
      PROVE  "close" \notin Range(toServer') /\ session' # "closed"
  BY <1>2, <1>3
<1>4. CASE PageSends
  <2>1. CASE OnOpen \/ SetLocalDescription \/ OfferFails
    BY <1>3, <2>1 DEF OnOpen, SetLocalDescription, OfferFails, serverVars
  <2>2. CASE SendOffer
    BY <1>0, <1>2, <2>2, SendNoClose DEF SendOffer, serverVars, Signals
  <2>3. ASSUME NEW c \in PageCandidates, OnIceCandidate(c)
        PROVE  "close" \notin Range(toServer') /\ session' # "closed"
    <3>1. c # "close"
      BY SignallingAssumption DEF Signals
    <3> QED
      BY <1>0, <1>2, <2>3, <3>1, SendNoClose DEF OnIceCandidate, serverVars
  <2>4. CASE OnLastCandidate
    BY <1>0, <1>2, <2>4, SendNoClose DEF OnLastCandidate, serverVars, Signals
  <2>5. CASE Leave
    BY <2>5 DEF Leave
  <2> QED
    BY <1>4, <2>1, <2>2, <2>3, <2>4, <2>5 DEF PageSends
<1>5. CASE Lose
  BY <1>2, <1>5, RangeEmpty DEF Lose, serverVars
<1>6. CASE UpgradeStep
  BY <1>2, <1>6 DEF UpgradeStep, Send101, Register, Refuse, Create, CreatePeerConnection,
                    SetupThrows, SetOnMessage, SetOnClose, Upgrade
<1>7. CASE ReadStep
  <2>1. ASSUME NEW m, Reads(m) PROVE "close" \notin Range(toServer') /\ m # "close"
    <3>1. toServer # <<>> /\ Head(toServer) = m /\ toServer' = Tail(toServer)
      BY <2>1 DEF Reads
    <3>2. Range(toServer) = Range(Tail(toServer)) \cup {Head(toServer)}
      BY <1>0, <3>1, RangeTail
    <3> QED
      BY <1>2, <3>1, <3>2
  <2>2. CASE \E m \in PageCandidates \cup Signals : Unhandled(m)
    BY <1>2, <2>1, <2>2 DEF Unhandled, serverVars
  <2>3. CASE HandleOffer \/ OfferThrows \/ FlushThrows \/ HandleEnd
    BY <1>2, <2>1, <2>3 DEF HandleOffer, OfferThrows, FlushThrows, HandleEnd, Keeps, Handles, serverVars
  <2>4. CASE \E c \in PageCandidates : HandleCandidate(c) \/ CandidateThrows(c)
    BY <1>2, <2>1, <2>4 DEF HandleCandidate, CandidateThrows, Keeps, Handles
  <2>5. CASE HandleClose \/ CloseThrows
    BY <2>1, <2>5 DEF HandleClose, CloseThrows, Handles
  <2>6. CASE Crash
    BY <1>3, <2>6 DEF Crash
  <2> QED
    BY <1>7, <2>2, <2>3, <2>4, <2>5, <2>6 DEF ReadStep
<1>8. CASE OnLocalDescription \/ \E c \in ServerCandidates : OnLocalCandidate(c)
  BY <1>3, <1>8 DEF OnLocalDescription, OnLocalCandidate, Reply
<1>9. CASE PageStep
  BY <1>3, <1>9 DEF PageStep, ReceiveAnswer, ReceiveCandidate, Receives, SetRemoteDescription,
                    SetRemoteDescriptionFails, FlushOne, FlushFails, FlushDone, Continues, serverVars
<1>10. CASE UNCHANGED vars
  BY <1>3, <1>10 DEF vars
<1> QED
  BY <1>4, <1>5, <1>6, <1>7, <1>8, <1>9, <1>10 DEF Next

\* SessionThere for every step.
LEMMA NextSession == SessionThere /\ [Next]_vars => SessionThere'
<1> SUFFICES ASSUME SessionThere, [Next]_vars PROVE SessionThere'
  OBVIOUS
<1>1. ASSUME UNCHANGED <<session, handler, described>> PROVE SessionThere'
  BY <1>1 DEF SessionThere
<1>2. CASE PageSends \/ Lose
  BY <1>1, <1>2 DEF PageSends, OnOpen, SetLocalDescription, OfferFails, SendOffer, OnIceCandidate,
                    OnLastCandidate, Leave, Lose, serverVars, rtcVars
<1>3. CASE UpgradeStep
  BY <1>3 DEF UpgradeStep, Send101, Register, Refuse, Create, CreatePeerConnection, SetupThrows,
              SetOnMessage, SetOnClose, Upgrade, rtcVars, SessionThere
<1>4. CASE ReadStep
  <2>1. CASE HandleOffer \/ FlushThrows
    BY <2>1 DEF HandleOffer, FlushThrows, Keeps, Handles, CallbackSet, SessionThere
  <2>2. CASE HandleClose \/ CloseThrows
    BY <2>2 DEF HandleClose, CloseThrows, SessionThere
  <2>3. CASE Crash
    BY <2>3 DEF Crash, rtcVars, SessionThere
  <2>4. CASE OfferThrows \/ HandleEnd \/ \E m \in PageCandidates \cup Signals : Unhandled(m)
    BY <1>1, <2>4 DEF OfferThrows, HandleEnd, Unhandled, serverVars, rtcVars
  <2>5. CASE \E c \in PageCandidates : HandleCandidate(c) \/ CandidateThrows(c)
    BY <1>1, <2>5 DEF HandleCandidate, CandidateThrows, Keeps
  <2> QED
    BY <1>4, <2>1, <2>2, <2>3, <2>4, <2>5 DEF ReadStep
<1>5. CASE OnLocalDescription \/ \E c \in ServerCandidates : OnLocalCandidate(c)
  BY <1>1, <1>5 DEF OnLocalDescription, OnLocalCandidate, Reply, rtcVars
<1>6. CASE PageStep
  BY <1>1, <1>6 DEF PageStep, ReceiveAnswer, ReceiveCandidate, Receives, SetRemoteDescription,
                    SetRemoteDescriptionFails, FlushOne, FlushFails, FlushDone, Continues,
                    serverVars, rtcVars
<1>7. CASE UNCHANGED vars
  BY <1>1, <1>7 DEF vars, rtcVars
<1> QED
  BY <1>2, <1>3, <1>4, <1>5, <1>6, <1>7 DEF Next

\* AnswerThere for every step.
LEMMA NextAnswer == PageInv /\ AnswerThere /\ [Next]_vars => AnswerThere'
<1> SUFFICES ASSUME PageInv, AnswerThere, [Next]_vars PROVE AnswerThere'
  OBVIOUS
<1>0. toPage \in Seq(ServerCandidates \cup {"answer"})
  BY DEF PageInv, PageTypes
<1>1. ASSUME UNCHANGED <<answered, link, toPage, answering>> PROVE AnswerThere'
  BY <1>1 DEF AnswerThere
<1>2. CASE PageSends
  BY <1>1, <1>2 DEF PageSends, OnOpen, SetLocalDescription, OfferFails, SendOffer, OnIceCandidate,
                    OnLastCandidate, Leave, serverVars, peerVars
<1>3. CASE Lose
  BY <1>3 DEF Lose, AnswerThere
<1>4. CASE UpgradeStep
  BY <1>1, <1>4 DEF UpgradeStep, Send101, Register, Refuse, Create, CreatePeerConnection,
                    SetupThrows, SetOnMessage, SetOnClose, Upgrade, pageVars, peerVars
<1>5. CASE ReadStep
  BY <1>1, <1>5 DEF ReadStep, Unhandled, HandleOffer, OfferThrows, FlushThrows, Keeps,
              HandleEnd, HandleCandidate, CandidateThrows,
                    HandleClose, CloseThrows, Crash, pageVars, serverVars, peerVars
<1>6. CASE OnLocalDescription
  <2>1. toPage' = (IF link = "up" THEN Append(toPage, "answer") ELSE toPage) /\ link' = link
    BY <1>6 DEF OnLocalDescription, Reply
  <2>2. Range(Append(toPage, "answer")) = Range(toPage) \cup {"answer"}
    BY <1>0, RangeAppend
  <2> QED
    BY <2>1, <2>2 DEF AnswerThere
<1>7. ASSUME NEW c \in ServerCandidates, OnLocalCandidate(c) PROVE AnswerThere'
  <2>1. /\ toPage' = IF link = "up" THEN Append(toPage, c) ELSE toPage
        /\ UNCHANGED <<link, answered, answering>>
    BY <1>7 DEF OnLocalCandidate, Reply, pageVars
  <2>2. Range(Append(toPage, c)) = Range(toPage) \cup {c}
    BY <1>0, RangeAppend
  <2> QED
    BY <2>1, <2>2 DEF AnswerThere
<1>8. CASE PageStep
  <2>1. CASE ReceiveAnswer
    BY <2>1 DEF ReceiveAnswer, AnswerThere
  <2>2. ASSUME NEW c \in ServerCandidates, ReceiveCandidate(c) PROVE AnswerThere'
    <3>1. /\ toPage # <<>> /\ Head(toPage) = c /\ toPage' = Tail(toPage)
          /\ UNCHANGED <<link, answered, answering>>
      BY <2>2 DEF ReceiveCandidate, Receives, serverVars, peerVars
    <3>2. Range(toPage) = Range(Tail(toPage)) \cup {Head(toPage)}
      BY <1>0, <3>1, RangeTail
    <3>3. c # "answer"
      BY SignallingAssumption
    <3> QED
      BY <3>1, <3>2, <3>3 DEF AnswerThere
  <2>3. CASE SetRemoteDescription \/ SetRemoteDescriptionFails \/ FlushOne \/ FlushFails \/ FlushDone
    <3>1. answering' # "none"
      BY <2>3 DEF SetRemoteDescription, SetRemoteDescriptionFails, FlushOne, FlushFails,
                  FlushDone, Continues
    <3> QED
      BY <3>1 DEF AnswerThere
  <2> QED
    BY <1>8, <2>1, <2>2, <2>3 DEF PageStep
<1>9. CASE UNCHANGED vars
  BY <1>1, <1>9 DEF vars, pageVars, peerVars
<1> QED
  BY <1>2, <1>3, <1>4, <1>5, <1>6, <1>7, <1>8, <1>9 DEF Next

\* However upgrade, reading worker, libdatachannel and the awaits of the page
\* interleave, an accepted offer is never left without an answer to come: no other
\* frame closes the session, and a candidate that overtakes the answer does not
\* take its place.
THEOREM AnswerKeptHolds == Spec => []AnswerKept
<1>1. Init => AnswerInv
  BY RangeEmpty DEF Init, AnswerInv, ClosedByPage, SessionThere, AnswerThere
<1>2. (ServerInv /\ PageInv /\ PlaceInv) /\ AnswerInv /\ [Next]_vars => AnswerInv'
  BY NextClosed, NextSession, NextAnswer DEF AnswerInv
<1>3. (ServerInv /\ PageInv /\ PlaceInv) /\ AnswerInv => AnswerKept
  BY DEF AnswerInv, ClosedByPage, SessionThere, AnswerThere, AnswerKept, PlaceInv
<1> QED
  BY <1>1, <1>2, <1>3, InvHolds, PTL DEF Spec
=============================================================================
