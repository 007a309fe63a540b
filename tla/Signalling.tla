----------------------------- MODULE Signalling -----------------------------
(* Going live: the /sig WebSocket between the broadcasting page (goLive in    *)
(* useLiveStream.tsx) and its StreamerSession (StreamerRoutes.cpp), from the  *)
(* handshake to the exchange of descriptions and ICE candidates and to the    *)
(* end of the connection.                                                     *)
(*                                                                            *)
(* One worker runs the upgrade; another may read frames at the same time.     *)
(* The page's handlers interleave at every await.  Offers, answers and        *)
(* candidates are well-formed; the peer connections may refuse them.          *)
EXTENDS Naturals, FiniteSets, Sequences, SequencesExt

CONSTANTS PageCandidates,    \* the ICE candidates the browser finds
          ServerCandidates   \* the ones libdatachannel finds

\* What the page sends beside candidates; "end" is the empty last candidate.
Signals == {"offer", "end", "close"}

ASSUME SignallingAssumption ==
  /\ IsFiniteSet(PageCandidates) /\ IsFiniteSet(ServerCandidates)
  /\ Signals \cap PageCandidates = {}
  /\ "answer" \notin ServerCandidates

VARIABLES page,                  \* how far goLive is on the page
          sent,                  \* the candidates the page has sent
          answering,             \* the page's handler for the answer
          earlyCandidatesRef,    \* the page's queue of candidates
          flushed,               \* how many of them the flush has added
          received,              \* the candidates that arrived at the page
          pageAdded,             \* those its peer connection took or refused
          link,                  \* the WebSocket's connection: up or down
          toServer, toPage,      \* frames under way
          handler,               \* how far the upgrade is
          row,                   \* the stream's status in the database
          session,               \* the StreamerSession
          described,             \* its peer connection has the offer
          hasRemoteDescription,  \* of the session
          earlyCandidates,       \* of the session
          added,                 \* the candidates its peer connection has
          refused,               \* those it threw at, one by one
          answered,              \* libdatachannel has sent the answer
          gathered,              \* the candidates libdatachannel has sent
          lost                   \* candidates in frames that nobody handled

pageVars == <<page, sent, answering, earlyCandidatesRef, flushed, received, pageAdded>>
rtcVars == <<described, hasRemoteDescription, earlyCandidates, added, refused>>
peerVars == <<answered, gathered>>
vars == <<pageVars, link, toServer, toPage, handler, row, session, rtcVars, peerVars, lost>>

Init == /\ page = "dialling" /\ sent = {}
        /\ answering = "none" /\ earlyCandidatesRef = <<>> /\ flushed = 0
        /\ received = {} /\ pageAdded = {}
        /\ link = "up" /\ toServer = <<>> /\ toPage = <<>>
        /\ handler = "none" /\ row = "none" /\ session = "none"
        /\ described = FALSE /\ hasRemoteDescription = FALSE
        /\ earlyCandidates = <<>> /\ added = {} /\ refused = {}
        /\ answered = FALSE /\ gathered = {} /\ lost = {}

-----------------------------------------------------------------------------
(* The page sends                                                             *)

\* wsRef.current.send: a closed WebSocket discards the frame.
Send(m) == /\ toServer' = IF link = "up" THEN Append(toServer, m) ELSE toServer
           /\ lost' = IF link = "down" /\ m \in PageCandidates THEN lost \cup {m} ELSE lost

serverVars == <<handler, row, session, rtcVars, peerVars>>

\* ws.onopen: the 101 has arrived; a peer connection is made, createOffer begins.
OnOpen == /\ page = "dialling"
          /\ handler # "none" /\ link = "up"
          /\ page' = "open"
          /\ UNCHANGED <<sent, answering, earlyCandidatesRef, flushed, received, pageAdded,
                         link, toServer, toPage, lost, serverVars>>

\* createOffer and setLocalDescription take effect: candidates may now come.
SetLocalDescription == /\ page = "open"
                       /\ page' = "gathering"
                       /\ UNCHANGED <<sent, answering, earlyCandidatesRef, flushed, received, pageAdded,
                                      link, toServer, toPage, lost, serverVars>>

\* One of them rejects: the offer is never sent, the page says nothing.
OfferFails == /\ page = "open"
              /\ page' = "failed"
              /\ UNCHANGED <<sent, answering, earlyCandidatesRef, flushed, received, pageAdded,
                             link, toServer, toPage, lost, serverVars>>

\* The handler goes on after the await and sends the offer.
SendOffer == /\ page = "gathering"
             /\ page' = "offered"
             /\ Send("offer")
             /\ UNCHANGED <<sent, answering, earlyCandidatesRef, flushed, received, pageAdded,
                            link, toPage, serverVars>>

\* pc.onicecandidate.
OnIceCandidate(c) == /\ page \in {"gathering", "offered"}
                     /\ c \notin sent
                     /\ sent' = sent \cup {c}
                     /\ Send(c)
                     /\ UNCHANGED <<page, answering, earlyCandidatesRef, flushed, received, pageAdded,
                                    link, toPage, serverVars>>

\* The browser reports the end of gathering as an empty candidate.
OnLastCandidate == /\ page = "offered"
                   /\ sent = PageCandidates
                   /\ page' = "complete"
                   /\ Send("end")
                   /\ UNCHANGED <<sent, answering, earlyCandidatesRef, flushed, received, pageAdded,
                                  link, toPage, serverVars>>

\* The tab is closed: the browser sends a close frame with code 1001.
Leave == /\ page \notin {"dialling", "left"}
         /\ page' = "left"
         /\ Send("close")
         /\ UNCHANGED <<sent, answering, earlyCandidatesRef, flushed, received, pageAdded,
                        link, toPage, serverVars>>

\* The connection ends without a close frame: OnReadable and ws.onclose take
\* note of it and do nothing.
Lose == /\ link = "up"
        /\ page # "dialling"
        /\ link' = "down"
        /\ toServer' = <<>> /\ toPage' = <<>>
        /\ lost' = lost \cup (Range(toServer) \cap PageCandidates)
        /\ UNCHANGED <<pageVars, serverVars>>

-----------------------------------------------------------------------------
(* The upgrade, on one worker                                                 *)

Upgrade(from, to) == /\ handler = from
                     /\ handler' = to
                     /\ UNCHANGED <<pageVars, link, toServer, toPage, rtcVars, peerVars, lost>>

\* The 101 is sent; the descriptor still belongs to the HttpConnection.
Send101 == Upgrade("none", "switching") /\ UNCHANGED <<row, session>>

\* The WebSocketConnection replaces it in epoll.
Register == Upgrade("switching", "registered") /\ UNCHANGED <<row, session>>

\* No user in the cookie's token: Close(1008); no callback is ever set.
Refuse == Upgrade("registered", "refused") /\ UNCHANGED <<row, session>>

\* repo.Create: the stream is in the list of live streams.
Create == Upgrade("registered", "listed") /\ row' = "live" /\ UNCHANGED session

\* createPeerConnection.
CreatePeerConnection == Upgrade("listed", "setting") /\ session' = "open" /\ UNCHANGED row

\* The database or the peer connection throws: the worker's catch logs it.
SetupThrows == /\ \E from \in {"registered", "listed"} : Upgrade(from, "threw")
               /\ UNCHANGED <<row, session>>

\* The callbacks are assigned, one after the other.
SetOnMessage == Upgrade("setting", "listening") /\ UNCHANGED <<row, session>>
SetOnClose == Upgrade("listening", "ready") /\ UNCHANGED <<row, session>>

UpgradeStep == Send101 \/ Register \/ Refuse \/ Create \/ CreatePeerConnection
               \/ SetupThrows \/ SetOnMessage \/ SetOnClose

-----------------------------------------------------------------------------
(* Another worker reads frames                                                *)

\* The next frame is m.
Reads(m) == /\ toServer # <<>>
            /\ Head(toServer) = m
            /\ handler \notin {"none", "crashed"}
            /\ toServer' = Tail(toServer)

\* The reading worker finds the callback for m set.
CallbackSet(m) == handler \in IF m = "close" THEN {"ready"} ELSE {"listening", "ready"}
Handles(m) == Reads(m) /\ CallbackSet(m)

\* on_message_ is empty, or the HttpConnection read the bytes: they are gone.
Unhandled(m) == /\ Reads(m)
                /\ ~CallbackSet(m)
                /\ lost' = IF m \in PageCandidates THEN lost \cup {m} ELSE lost
                /\ UNCHANGED <<pageVars, link, toPage, serverVars>>

\* The callback is half assigned, a data race: the call goes through a null
\* pointer and the process dies.
Crash == /\ toServer # <<>>
         /\ handler = IF Head(toServer) = "close" THEN "listening" ELSE "setting"
         /\ handler' = "crashed"
         /\ UNCHANGED <<pageVars, link, toServer, toPage, row, session, rtcVars, peerVars, lost>>

\* What both branches of the message callback leave alone.
Keeps == UNCHANGED <<pageVars, link, toPage, handler, row, session, peerVars, lost>>

\* Mutated form of HandleOffer: the queue is cleared before it is flushed.
HandleOfferClears == /\ Handles("offer")
                     /\ described' = TRUE /\ hasRemoteDescription' = TRUE
                     /\ earlyCandidates' = <<>>
                     /\ Keeps /\ UNCHANGED <<added, refused>>

\* type offer: set the description, add the queued candidates, clear the queue.
HandleOffer == /\ Handles("offer")
               /\ described' = TRUE /\ hasRemoteDescription' = TRUE
               /\ added' = added \cup Range(earlyCandidates)
               /\ earlyCandidates' = <<>>
               /\ Keeps /\ UNCHANGED refused

\* setRemoteDescription throws; the callback's catch logs it.
OfferThrows == /\ Handles("offer")
               /\ UNCHANGED <<pageVars, link, toPage, serverVars, lost>>

\* addRemoteCandidate throws at one of the queued candidates: the description
\* and those before it are in, the queue is not cleared, the flag not set.
FlushThrows == /\ Handles("offer")
               /\ described' = TRUE
               /\ \E k \in DOMAIN earlyCandidates :
                     added' = added \cup {earlyCandidates[i] : i \in 1..k - 1}
               /\ Keeps /\ UNCHANGED <<hasRemoteDescription, earlyCandidates, refused>>

\* Mutated form of HandleCandidate: candidates are never queued.
HandleCandidateAtOnce(c) == /\ Handles(c)
                            /\ added' = added \cup {c}
                            /\ Keeps
                            /\ UNCHANGED <<described, hasRemoteDescription, earlyCandidates, refused>>

\* type candidate: add it, or queue it until the flag is set.
HandleCandidate(c) == /\ Handles(c)
                      /\ IF hasRemoteDescription
                           THEN added' = added \cup {c} /\ UNCHANGED earlyCandidates
                           ELSE earlyCandidates' = Append(earlyCandidates, c) /\ UNCHANGED added
                      /\ Keeps /\ UNCHANGED <<described, hasRemoteDescription, refused>>

\* addRemoteCandidate throws at it; the catch logs it and nobody tries again.
CandidateThrows(c) == /\ Handles(c)
                      /\ hasRemoteDescription
                      /\ refused' = refused \cup {c}
                      /\ Keeps /\ UNCHANGED <<described, hasRemoteDescription, earlyCandidates, added>>

\* Mutated form of HandleEnd: the empty candidate is queued like any other.
HandleEndQueues == /\ Handles("end")
                   /\ earlyCandidates' = Append(earlyCandidates, "end")
                   /\ Keeps /\ UNCHANGED <<described, hasRemoteDescription, added, refused>>

\* The empty candidate is skipped.
HandleEnd == /\ Handles("end")
             /\ UNCHANGED <<pageVars, link, toPage, serverVars, lost>>

\* Mutated form of HandleClose: SetEnded is missing.
HandleCloseKeepsRow == /\ Handles("close")
                       /\ session' = "closed"
                       /\ UNCHANGED <<pageVars, link, toPage, handler, row, rtcVars, peerVars, lost>>

\* on_close_ with code 1001: SetEnded, CleanupStream, pc->close().
HandleClose == /\ Handles("close")
               /\ row' = "ended"
               /\ session' = "closed"
               /\ UNCHANGED <<pageVars, link, toPage, handler, rtcVars, peerVars, lost>>

\* SetEnded throws: isLive is already false, the rest of on_close_ is skipped.
CloseThrows == /\ Handles("close")
               /\ session' = "stopped"
               /\ UNCHANGED <<pageVars, link, toPage, handler, row, rtcVars, peerVars, lost>>

ReadStep == \/ \E m \in PageCandidates \cup Signals : Unhandled(m)
            \/ HandleOffer \/ OfferThrows \/ FlushThrows \/ HandleEnd
            \/ \E c \in PageCandidates : HandleCandidate(c) \/ CandidateThrows(c)
            \/ HandleClose \/ CloseThrows \/ Crash

-----------------------------------------------------------------------------
(* libdatachannel's callbacks                                                 *)

Reply(m) == /\ described
            /\ session \in {"open", "stopped"} /\ handler # "crashed"
            /\ toPage' = IF link = "up" THEN Append(toPage, m) ELSE toPage
            /\ UNCHANGED <<pageVars, link, toServer, handler, row, session, rtcVars, lost>>

\* onLocalDescription: the answer is sent.
OnLocalDescription == /\ ~answered /\ answered' = TRUE
                      /\ Reply("answer")
                      /\ UNCHANGED gathered

\* onLocalCandidate: a candidate is sent, before or after the answer.
OnLocalCandidate(c) == /\ c \notin gathered /\ gathered' = gathered \cup {c}
                       /\ Reply(c)
                       /\ UNCHANGED answered

-----------------------------------------------------------------------------
(* The page receives                                                          *)

\* ws.onmessage runs for the next frame.
Receives(m) == /\ page # "left"
               /\ toPage # <<>> /\ Head(toPage) = m
               /\ toPage' = Tail(toPage)
               /\ UNCHANGED <<page, sent, link, toServer, lost, serverVars>>

RemoteDescriptionSet == answering \in {"flushing", "broken", "live"}

\* type answer: up to the await of setRemoteDescription.
ReceiveAnswer == /\ Receives("answer")
                 /\ answering' = "setting"
                 /\ UNCHANGED <<earlyCandidatesRef, flushed, received, pageAdded>>

\* type candidate: queue it while there is no description, else hand it to the
\* peer connection (which takes or refuses it; the page only logs a refusal).
ReceiveCandidate(c) == /\ Receives(c)
                       /\ received' = received \cup {c}
                       /\ IF RemoteDescriptionSet
                            THEN pageAdded' = pageAdded \cup {c} /\ UNCHANGED earlyCandidatesRef
                            ELSE /\ earlyCandidatesRef' = Append(earlyCandidatesRef, c)
                                 /\ UNCHANGED pageAdded
                       /\ UNCHANGED <<answering, flushed>>

\* The awaits of the answer's handler, one step each.
Continues(from) == /\ page # "left"
                   /\ answering = from
                   /\ UNCHANGED <<page, sent, received, link, toServer, toPage, lost, serverVars>>

SetRemoteDescription == /\ Continues("setting")
                        /\ answering' = "flushing"
                        /\ UNCHANGED <<earlyCandidatesRef, flushed, pageAdded>>

SetRemoteDescriptionFails == /\ Continues("setting")
                             /\ answering' = "refused"
                             /\ UNCHANGED <<earlyCandidatesRef, flushed, pageAdded>>

\* The for loop over the queue, which sees what is appended meanwhile.
FlushOne == /\ Continues("flushing")
            /\ flushed < Len(earlyCandidatesRef)
            /\ flushed' = flushed + 1
            /\ pageAdded' = pageAdded \cup {earlyCandidatesRef[flushed + 1]}
            /\ UNCHANGED <<answering, earlyCandidatesRef>>

\* addIceCandidate rejects: the catch ends the loop, the page never gets live.
FlushFails == /\ Continues("flushing")
              /\ flushed < Len(earlyCandidatesRef)
              /\ answering' = "broken"
              /\ UNCHANGED <<earlyCandidatesRef, flushed, pageAdded>>

\* Mutated form of FlushDone: the queue is cleared before the loop has ended.
FlushDoneAtOnce == /\ Continues("flushing")
                   /\ earlyCandidatesRef' = <<>> /\ flushed' = 0
                   /\ answering' = "live"
                   /\ UNCHANGED pageAdded

\* Mutated form of FlushDone: isLive is not set.
FlushDoneQuiet == /\ Continues("flushing")
                  /\ flushed >= Len(earlyCandidatesRef)
                  /\ earlyCandidatesRef' = <<>> /\ flushed' = 0
                  /\ UNCHANGED <<answering, pageAdded>>

\* The queue is cleared, setIsLive(true).
FlushDone == /\ Continues("flushing")
             /\ flushed >= Len(earlyCandidatesRef)
             /\ earlyCandidatesRef' = <<>> /\ flushed' = 0
             /\ answering' = "live"
             /\ UNCHANGED pageAdded

PageStep == \/ ReceiveAnswer \/ \E c \in ServerCandidates : ReceiveCandidate(c)
            \/ SetRemoteDescription \/ SetRemoteDescriptionFails
            \/ FlushOne \/ FlushFails \/ FlushDone

-----------------------------------------------------------------------------
PageSends == \/ OnOpen \/ SetLocalDescription \/ OfferFails \/ SendOffer
             \/ \E c \in PageCandidates : OnIceCandidate(c)
             \/ OnLastCandidate \/ Leave

Next == \/ PageSends \/ Lose
        \/ UpgradeStep \/ ReadStep
        \/ OnLocalDescription \/ \E c \in ServerCandidates : OnLocalCandidate(c)
        \/ PageStep

Spec == Init /\ [][Next]_vars

\* Workers and browser keep running, libdatachannel answers an offer it has
\* accepted.  Nothing obliges the page to go on, to stay or to keep its link.
FairSpec == /\ Spec
            /\ WF_vars(UpgradeStep) /\ WF_vars(ReadStep)
            /\ WF_vars(OnLocalDescription) /\ WF_vars(PageStep)

-----------------------------------------------------------------------------
TypeOK == /\ page \in {"dialling", "open", "gathering", "offered", "complete", "failed", "left"}
          /\ sent \subseteq PageCandidates /\ lost \subseteq sent
          /\ answering \in {"none", "setting", "refused", "flushing", "broken", "live"}
          /\ earlyCandidatesRef \in Seq(ServerCandidates)
          /\ flushed \in 0..Len(earlyCandidatesRef)
          /\ received \subseteq gathered /\ pageAdded \subseteq received
          /\ link \in {"up", "down"}
          /\ toServer \in Seq(PageCandidates \cup Signals)
          /\ toPage \in Seq(ServerCandidates \cup {"answer"})
          /\ handler \in {"none", "switching", "registered", "refused", "listed", "threw",
                          "setting", "listening", "ready", "crashed"}
          /\ row \in {"none", "live", "ended"}
          /\ session \in {"none", "open", "stopped", "closed"}
          /\ described \in BOOLEAN /\ hasRemoteDescription \in BOOLEAN /\ answered \in BOOLEAN
          /\ earlyCandidates \in Seq(PageCandidates) /\ added \subseteq sent /\ refused \subseteq sent
          /\ gathered \subseteq ServerCandidates

\* No candidate slips through the session: every one the page has sent is
\* under way, was lost unhandled, was refused, waits in earlyCandidates or was
\* added, and only one of these.  The exception is a flush that threw: what it
\* had added by then also stays in the queue, and the flag stays false.  None
\* waits once the flag is set.
ServerKeeps ==
  LET queued == Range(earlyCandidates)
      places == <<Range(toServer) \cap PageCandidates, lost, refused, queued \ added, added>>
  IN /\ sent = UNION Range(places)
     /\ \A i, j \in DOMAIN places : i # j => places[i] \cap places[j] = {}
     /\ queued \cap added # {} => described /\ ~hasRemoteDescription
     /\ hasRemoteDescription => earlyCandidates = <<>>

\* addRemoteCandidate and addIceCandidate, which fail without a remote
\* description, are never called before it is set, on either side.
NeverTooEarly == /\ added \cup refused # {} => described
                 /\ pageAdded # {} => RemoteDescriptionSet

\* The handlers of the page interleave at their awaits and drop nothing: what
\* arrived is queued or was handed to the peer connection, and all of it was
\* once the page says it is live.
PageKeeps == /\ received = Range(earlyCandidatesRef) \cup pageAdded
             /\ answering = "live" => received = pageAdded

\* An offer the session has accepted makes the page live, also when its own
\* flush of candidates throws, unless the page's peer connection refuses what it
\* is given, or one of the two goes away.
AcceptedGoesLive == described ~> \/ answering \in {"live", "refused", "broken"}
                                 \/ link = "down" \/ page = "left"
                                 \/ handler = "crashed"

\* A close frame that is still unread when the callbacks are set ends the
\* stream in the database, unless the database or the connection fails.
CloseEndsRow ==
  handler = "ready" /\ (\E i \in DOMAIN toServer : toServer[i] = "close")
     ~> row = "ended" \/ session = "stopped" \/ link = "down"
=============================================================================
