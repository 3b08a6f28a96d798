----------------------------- MODULE MCGateway ------------------------------
(***************************************************************************)
(* Instances of Gateway: two accounts of a model billed per token and one  *)
(* of a model billed per call.                                             *)
(***************************************************************************)
EXTENDS Gateway, TLC
CONSTANTS a1, a2, a3, tokenModel, callModel

TwoModels == a1 :> tokenModel @@ a2 :> tokenModel @@ a3 :> callModel
Prices == tokenModel :> 2 @@ callModel :> 3

Chat == [kind |-> "chat", want |-> {tokenModel, callModel}]
Stream == [kind |-> "stream", want |-> {tokenModel}]
Image == [kind |-> "other", want |-> {callModel}]

\* A chat by auto route, a stream of one model, and an image: two chats, or
\* two requests of different kinds.
AllAsks == <<{Chat, Stream}, {Chat, Image}>>
=============================================================================
