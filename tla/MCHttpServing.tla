--------------------------- MODULE MCHttpServing ---------------------------
(* HttpServing with two or three requests, with and without a body.          *)
EXTENDS HttpServing

TwoRequests == <<0, 2>>
TwoStarts == <<0, 2, 6>>
ThreeRequests == <<1, 0, 2>>
ThreeStarts == <<0, 3, 5, 9>>
AllRequests == FlattenSeq([i \in Requests |-> Bytes(i)])
BothKinds == BOOLEAN
OnlyWaiting == {FALSE}
OnlyInline == {TRUE}
=============================================================================
