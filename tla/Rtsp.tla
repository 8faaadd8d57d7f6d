-------------------------------- MODULE Rtsp --------------------------------
(***************************************************************************)
(* The vocabulary of the control protocol that Server/src/rtspServer.h and *)
(* Client/src/netClient.cpp share: session states, requests, and what each *)
(* end takes from the text of the other's message.                         *)
(***************************************************************************)
EXTENDS Integers

(* The values of iRTSP_State, at either end. *)
SessionStates == {"INIT", "READY", "PLAYING"}

(* The requests the client can send.  PAUSE and the "signals" the server   *)
(* also answers are written by no client of this repository.               *)
RequestTypes == {"SETUP", "PLAY", "TEARDOWN"}

(* What a request makes of the session state of the server, and of the     *)
(* client that reads the reply: TEARDOWN is answered and changes nothing.  *)
Effect(type, state) ==
  IF type = "SETUP" THEN "READY" ELSE IF type = "PLAY" THEN "PLAYING" ELSE state

(* RTSPSeqNb at the client after prepare_RTSP_request: the counter goes up *)
(* by one and its new value is the request's CSeq.                         *)
NextCSeq(n) == n + 1

Request(type, n) == [type |-> type, cseq |-> n]

(* The server converts the second word of the request line, "RTSP/1.0",    *)
(* to a number, not the second word of the CSeq line: it always gets 0.    *)
ParsedCSeq(request) == 0

(* The client converts the second word of the status line,                 *)
(* "RTSP/1.0 200 OK": it always gets the reply code.                       *)
ParsedReplyCSeq(reply) == 200

Requests == [type : RequestTypes, cseq : Nat]
=============================================================================
