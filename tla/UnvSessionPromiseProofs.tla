---------------------- MODULE UnvSessionPromiseProofs ----------------------
(***************************************************************************)
(* UnvSession keeps SessionPromise: the RTSP thread, its queues of messages *)
(* and the clients, for any number of these, implement the control         *)
(* protocol as a client's user may understand it.                          *)
(***************************************************************************)
EXTENDS UnvSessionProofs

USE NoClientAssumption, MaxSetupsAssumption DEF Ports, Bindings, Unbound, Ephemeral

-----------------------------------------------------------------------------
(* No queue ever holds two messages, not even those of a client that has   *)
(* left or of a server that has ended, about which LockStep says nothing.  *)
OneMessage ==
  \A c \in Clients :
    /\ c2s[c] # <<>> => up /\ InHand(c) = 0 /\ Tail(c2s[c]) = <<>>
    /\ s2c[c] # <<>> => Waiting(c) /\ Tail(s2c[c]) = <<>>

LEMMA MessageTypes ==
  ASSUME TypeInv
  PROVE  /\ c2s \in [Clients -> Seq(Requests)] /\ s2c \in [Clients -> Seq(Nat)]
         /\ cpc \in [Clients -> {"off", "keyboard", "wake", "hello", "gone"} \union RequestTypes]
         /\ cstate \in [Clients -> SessionStates]
         /\ cur \in Clients \union {NoClient} /\ seq + 1 \in Nat
         /\ rpc \in {"recv", "respond", "apply", "ready"} <=> cur \in Clients
         /\ rpc \in {"respond", "apply", "ready"} => req \in Requests
BY DEF TypeInv, SessionTypeOK, ProcTypeOK, CtlTypeOK, ClientTypeOK, RtspOK

LEMMA OneMessageInit == Init => OneMessage
BY DEF Init, OneMessage

LEMMA OneMessageFrame ==
  ASSUME OneMessage, UNCHANGED syncVars
  PROVE  OneMessage'
BY DEF OneMessage, syncVars, up, InHand, Waiting

LEMMA OneMessageDie ==
  ASSUME TypeInv, OneMessage, NEW m \in Endings, Die(m)
  PROVE  OneMessage'
<1>1. c2s' = [c \in Clients |-> <<>>] /\ s2c' = s2c /\ cpc' = cpc
  BY DEF Die, clientVars
<1> QED
  BY <1>1 DEF OneMessage, Waiting

(* When the server answers a client that is there, the client waits for    *)
(* just that.                                                              *)
LEMMA AnswerAwaited ==
  ASSUME TypeInv, Synced, up, cur \in Clients, rpc = "respond", ~Gone(cur)
  PROVE  Waiting(cur) /\ s2c[cur] = <<>> /\ c2s[cur] = <<>> /\ req.type = cpc[cur]
<1>1. Len(c2s[cur]) + 1 + Len(s2c[cur]) = Expected(cur) /\ Expected(cur) \in {0, 1}
  BY DEF Synced, LockStep, InFlight, Expected, InHand
<1>2. Len(c2s[cur]) \in Nat /\ Len(s2c[cur]) \in Nat
  BY MessageTypes
<1>3. Len(s2c[cur]) = 0 /\ Len(c2s[cur]) = 0 /\ Expected(cur) = 1
  BY <1>1, <1>2, NothingElse
<1> QED
  BY <1>3, MessageTypes DEF Expected, Synced, RequestKept

LEMMA OneMessageRtsp ==
  ASSUME TypeInv, Synced, OneMessage, RtspThread
  PROVE  OneMessage'
<1> USE MessageTypes DEF OneMessage, InHand, Waiting, up
<1>1. CASE ReceiveRequest
  <2>1. /\ cur \in Clients /\ Tail(c2s[cur]) = <<>> /\ c2s' = [c2s EXCEPT ![cur] = <<>>]
        /\ UNCHANGED <<exit, cur, s2c, cpc>>
    BY <1>1 DEF ReceiveRequest, clientVars
  <2> QED
    BY <2>1
<1>2. CASE Respond
  <2>1. cur \in Clients /\ c2s[cur] = <<>> /\ rpc' = "apply"
        /\ UNCHANGED <<exit, cur, c2s, cpc>>
    BY <1>2 DEF Respond, clientVars
  <2>2. CASE Gone(cur)
    BY <1>2, <2>1, <2>2 DEF Respond, Reply
  <2>3. CASE ~Gone(cur)
    <3>1. Waiting(cur) /\ s2c[cur] = <<>>
      BY <1>2, <2>1, <2>3, AnswerAwaited DEF Respond
    <3>2. s2c' = [s2c EXCEPT ![cur] = <<seq + 1>>]
      BY <1>2, <2>3, <3>1 DEF Respond, Reply
    <3> QED
      BY <2>1, <3>1, <3>2
  <2> QED
    BY <2>2, <2>3
<1>3. CASE ~ReceiveRequest /\ ~Respond
  <2>1. rpc' # "respond" /\ UNCHANGED <<exit, c2s, s2c, cpc>>
    BY <1>3 DEF RtspThread, StartRtsp, AcceptClient, RespondFails, ClientLeft, SpawnSetup,
                SetReady, ApplyPlay, ApplyTeardown, ctlVars, clientVars
  <2> QED
    BY <2>1
<1> QED
  BY <1>1, <1>2, <1>3

LEMMA OneMessageLeave ==
  ASSUME TypeInv, OneMessage, NEW c \in Clients, Leave(c)
  PROVE  OneMessage'
<1>1. /\ UNCHANGED <<exit, rpc, cur, c2s>> /\ s2c' = [s2c EXCEPT ![c] = <<>>]
      /\ cpc' = [cpc EXCEPT ![c] = "gone"]
  BY DEF Leave, serverFrame, procVars
<1> QED
  BY <1>1, MessageTypes DEF OneMessage, InHand, Waiting, up

LEMMA OneMessageClient ==
  ASSUME TypeInv, Synced, OneMessage, NEW c \in Clients,
         \/ Connect(c) \/ (\E type \in RequestTypes : Command(c, type))
         \/ ClientThread(c) \/ LoseServer(c) \/ KillClient(c)
  PROVE  OneMessage'
<1> USE MessageTypes DEF OneMessage, InHand, Waiting, serverFrame, clientFrame, procVars, Step
<1>1. CASE \E type \in RequestTypes : Command(c, type)
  <2> PICK type \in RequestTypes : Command(c, type)
    BY <1>1
  <2> DEFINE r == Request(type, NextCSeq(cseq[c]))
  <2>1. up /\ cpc[c] = "keyboard"
    BY DEF Command
  <2>2. c2s[c] = <<>> /\ s2c[c] = <<>> /\ ~(cur = c /\ rpc = "respond")
    <3>1. ~Gone(c) /\ ~Waiting(c)
      BY <2>1 DEF Gone, RequestTypes
    <3> QED
      BY <2>1, <3>1, NothingInFlight
  <2>3. c2s' = [c2s EXCEPT ![c] = <<r>>] /\ UNCHANGED <<exit, rpc, cur, s2c>>
    BY <2>2 DEF Command
  <2>4. cpc' = [cpc EXCEPT ![c] = type]
    BY DEF Command
  <2>5. Tail(<<r>>) = <<>>
    OBVIOUS
  <2> HIDE DEF r
  <2> QED
    BY <2>1, <2>2, <2>3, <2>4, <2>5 DEF up
<1>2. CASE ReadReply(c)
  <2>1. /\ s2c' = [s2c EXCEPT ![c] = <<>>] /\ UNCHANGED <<exit, rpc, cur, c2s>>
        /\ \E to \in {"wake", "keyboard"} : cpc' = [cpc EXCEPT ![c] = to]
    BY <1>2 DEF ReadReply
  <2> QED
    BY <2>1 DEF up
<1>3. CASE Connect(c) \/ OpenUDP(c) \/ OpenTCP(c) \/ Greet(c)
  <2>1. /\ UNCHANGED <<exit, rpc, cur, c2s, s2c>>
        /\ cpc[c] \in {"off", "wake", "hello"}
        /\ \E to \in {"keyboard", "hello"} : cpc' = [cpc EXCEPT ![c] = to]
    BY <1>3 DEF Connect, OpenUDP, OpenTCP, Greet
  <2>2. s2c[c] = <<>>
    BY <2>1 DEF RequestTypes
  <2> QED
    BY <2>1, <2>2 DEF up
<1>4. CASE Quit(c) \/ ConnectRefused(c) \/ LoseServer(c) \/ KillClient(c)
  BY <1>4, OneMessageLeave DEF Quit, ConnectRefused, LoseServer, KillClient
<1> QED
  BY <1>1, <1>2, <1>3, <1>4 DEF ClientThread

(* The steps that leave the control connection alone. *)
DataSteps ==
  \/ CountAudioPort \/ EndOfVideo \/ AddFrame \/ SendTCP \/ SendUDP
  \/ \E t \in Threads : \/ CreateSocket(t) \/ Bind(t) \/ Listen(t) \/ Block(t)
                        \/ AcceptData(t) \/ ReadWelcome(t) \/ ReceiveWelcome(t)
  \/ \E c \in Clients : ReceiveVideo(c)

LEMMA DataStepsFrame ==
  ASSUME DataSteps
  PROVE  UNCHANGED syncVars
<1> USE DEF syncVars, procVars, ctlVars, clientVars
<1>1. CASE CountAudioPort \/ EndOfVideo \/ AddFrame \/ SendTCP \/ SendUDP
  BY <1>1 DEF CountAudioPort, EndOfVideo, AddFrame, SendTCP, SendUDP, videoFrame
<1>2. ASSUME NEW t \in Threads,
             \/ CreateSocket(t) \/ Bind(t) \/ Listen(t) \/ Block(t)
             \/ AcceptData(t) \/ ReadWelcome(t) \/ ReceiveWelcome(t)
      PROVE  UNCHANGED syncVars
  BY <1>2 DEF CreateSocket, Bind, Listen, Block, AcceptData, ReadWelcome, ReceiveWelcome,
              threadFrame
<1>3. ASSUME NEW c \in Clients, ReceiveVideo(c)
      PROVE  UNCHANGED syncVars
  BY <1>3 DEF ReceiveVideo, serverFrame
<1> QED
  BY <1>1, <1>2, <1>3 DEF DataSteps

ClientSteps ==
  \E c \in Clients :
    \/ Connect(c) \/ (\E type \in RequestTypes : Command(c, type))
    \/ ClientThread(c) \/ LoseServer(c) \/ KillClient(c)

LEMMA NextSplits ==
  ASSUME [Next]_vars
  PROVE  UNCHANGED syncVars \/ DieSteps \/ RtspThread \/ ClientSteps
<1>1. CASE UNCHANGED vars
  BY <1>1 DEF vars, syncVars, procVars, ctlVars, clientVars
<1>2. CASE DataSteps
  BY <1>2, DataStepsFrame
<1>3. CASE Next /\ ~DataSteps
  BY <1>3 DEF Next, DataSteps, DieSteps, ClientSteps, VideoThread, SetupThread
<1> QED
  BY <1>1, <1>2, <1>3

LEMMA OneMessageStep == TypeInv /\ Synced /\ OneMessage /\ [Next]_vars => OneMessage'
BY NextSplits, OneMessageFrame, OneMessageDie, DieStepsDie, OneMessageRtsp, OneMessageClient
   DEF ClientSteps

-----------------------------------------------------------------------------
(* The steps of the promise, in terms of the variables they are about *)

Present == {c \in Clients : cpc[c] \notin {"off", "gone"}}
Asking == [c \in Clients |-> AskedFor(c)]
Told == [c \in Clients |-> IF s2c[c] # <<>> THEN cpc[c] ELSE "none"]
Promised == <<up, cur, ServerSees, Present, cstate, Asking, Told>>

LEMMA PromiseFrame ==
  ASSUME UNCHANGED syncVars
  PROVE  UNCHANGED Promised
BY DEF syncVars, Promised, up, ServerSees, Changing, Present, Asking, AskedFor, InHand, Told

LEMMA PromiseAtInit == Init => Promise!PromiseInit
BY DEF Init, Promise!PromiseInit, up, Changing, AskedFor, InHand

LEMMA PromiseHalt ==
  ASSUME up, NEW m \in Endings, Die(m)
  PROVE  Promise!Halt
<1>1. /\ ~up' /\ cur' = NoClient /\ rpc' = "ended" /\ state' = "INIT"
      /\ c2s' = [c \in Clients |-> <<>>] /\ UNCHANGED <<s2c, cpc, cstate>>
  BY DEF Die, up, Endings, clientVars
<1>2. \A c \in Clients : AskedFor(c)' = "none"
  BY <1>1 DEF AskedFor, InHand
<1> QED
  BY <1>1, <1>2 DEF Promise!Halt, Changing, up

PromiseStep == Promise!PromiseNext \/ UNCHANGED Promised

LEMMA PromiseAccept ==
  ASSUME TypeInv, AcceptClient
  PROVE  PromiseStep
<1>1. /\ cur = NoClient /\ up /\ rpc = "accept" /\ rpc' = "recv" /\ state' = "INIT"
      /\ cur' = Head(backlog) /\ cur' \in Clients
      /\ UNCHANGED <<exit, req, c2s, s2c, cpc, cstate>>
  <2>1. backlog \in Seq(Clients) /\ backlog # <<>>
    BY DEF AcceptClient, TypeInv, SessionTypeOK, CtlTypeOK
  <2>2. Head(backlog) \in Clients
    BY <2>1
  <2> QED
    BY <2>2, MessageTypes DEF AcceptClient, SessionAtAccept, clientVars
<1>2. Promise!Serve(cur')
  BY <1>1 DEF Promise!Serve, Changing, AskedFor, InHand, up
<1> QED
  BY <1>1, <1>2 DEF PromiseStep, Promise!PromiseNext

LEMMA PromiseReceive ==
  ASSUME TypeInv, OneMessage, ReceiveRequest
  PROVE  PromiseStep
<1>1. /\ rpc = "recv" /\ rpc' = "respond" /\ cur \in Clients /\ c2s[cur] # <<>>
      /\ req' = Head(c2s[cur]) /\ c2s' = [c2s EXCEPT ![cur] = <<>>]
      /\ UNCHANGED <<exit, cur, state, s2c, cpc, cstate>>
  BY MessageTypes DEF ReceiveRequest, clientVars, OneMessage
<1>2. \A c \in Clients : AskedFor(c)' = AskedFor(c)
  BY <1>1, MessageTypes DEF AskedFor, InHand
<1> QED
  BY <1>1, <1>2 DEF PromiseStep, Promised, up, ServerSees, Changing, Present, Asking, Told

(* The reply is the answer of the promise, whether or not the client is    *)
(* still there to have it.                                                 *)
LEMMA PromiseRespond ==
  ASSUME TypeInv, Synced, OneMessage, Respond
  PROVE  PromiseStep
<1>1. /\ up /\ rpc = "respond" /\ rpc' = "apply" /\ cur \in Clients /\ c2s[cur] = <<>>
      /\ s2c' = IF Gone(cur) THEN s2c ELSE [s2c EXCEPT ![cur] = Append(@, seq + 1)]
      /\ req.type \in RequestTypes
      /\ UNCHANGED <<exit, cur, req, state, c2s, cpc, cstate>>
  BY MessageTypes DEF Respond, Reply, clientVars, OneMessage, InHand, Requests
<1>0. cur \in Clients /\ s2c \in [Clients -> Seq(Nat)]
  BY <1>1, MessageTypes
<1>2. AskedFor(cur) = req.type /\ AskedFor(cur) # "none" /\ AskedFor(cur)' = "none"
  BY <1>1 DEF AskedFor, InHand, RequestTypes
<1>3. Asking' = [Asking EXCEPT ![cur] = "none"]
  BY <1>1, <1>2 DEF Asking, AskedFor, InHand
<1>4. cpc[cur] # "off"
  BY <1>1 DEF Synced, Unserved
<1>5. Told' = IF cur \in Present THEN [Told EXCEPT ![cur] = req.type] ELSE Told
  <2>1. CASE Gone(cur)
    BY <1>1, <2>1 DEF Told, Present, Gone
  <2>2. CASE ~Gone(cur)
    <3>1. s2c[cur] = <<>> /\ req.type = cpc[cur]
      BY <1>1, <2>2, AnswerAwaited
    <3>2. s2c' = [s2c EXCEPT ![cur] = <<seq + 1>>]
      BY <1>1, <2>2, <3>1
    <3>3. cur \in Present
      BY <1>1, <1>4, <2>2 DEF Present, Gone
    <3>4. Told' = [Told EXCEPT ![cur] = cpc[cur]]
      <4>1. \A c \in Clients : Told'[c] = IF c = cur THEN cpc[cur] ELSE Told[c]
        <5>1. s2c'[cur] # <<>> /\ \A c \in Clients : c # cur => s2c'[c] = s2c[c]
          BY <1>0, <3>2
        <5> QED
          BY <1>1, <5>1 DEF Told
      <4> QED
        BY <4>1 DEF Told
    <3> QED
      BY <3>1, <3>3, <3>4
  <2> QED
    BY <2>1, <2>2
<1>6. ServerSees = state /\ ServerSees' = Effect(req.type, state)
  BY <1>1 DEF ServerSees, Changing
<1>7. Asking[cur] = req.type
  BY <1>1, <1>2 DEF Asking
<1>8. Asking[cur] # "none" /\ ServerSees' = Effect(Asking[cur], ServerSees)
  BY <1>2, <1>6, <1>7
<1>9. Told' = IF cur \in Present THEN [Told EXCEPT ![cur] = Asking[cur]] ELSE Told
  BY <1>5, <1>7
<1>10. cur \in Clients /\ up /\ up' /\ UNCHANGED <<cur, Present, cstate>>
  BY <1>1 DEF Present, up
<1>11. ASSUME NEW c \in Clients, c = cur
       PROVE  Promise!Answer(c)
  <2>1. up /\ cur = c /\ Asking[c] # "none"
    BY <1>8, <1>10, <1>11
  <2>2. ServerSees' = Effect(Asking[c], ServerSees)
    BY <1>8, <1>11
  <2>3. Asking' = [Asking EXCEPT ![c] = "none"]
    BY <1>3, <1>11
  <2>4. Told' = IF c \in Present THEN [Told EXCEPT ![c] = Asking[c]] ELSE Told
    BY <1>9, <1>11
  <2>5. UNCHANGED <<up, cur, Present, cstate>>
    BY <1>10
  <2> QED
    BY <2>1, <2>2, <2>3, <2>4, <2>5
       DEF Promise!Answer, Promise!Effect, Effect, ServerSees, Asking, Told, Present
<1> QED
  BY <1>10, <1>11 DEF PromiseStep, Promise!PromiseNext

LEMMA PromiseAbandon ==
  ASSUME TypeInv, OneMessage, RespondFails \/ ClientLeft
  PROVE  PromiseStep
<1>1. /\ up /\ rpc \in {"respond", "recv"} /\ rpc' = "accept" /\ cur \in Clients /\ Gone(cur)
      /\ cur' = NoClient /\ c2s[cur] = <<>>
      /\ UNCHANGED <<exit, state, c2s, s2c, cpc, cstate>>
  BY MessageTypes DEF RespondFails, ClientLeft, ctlVars, clientVars, OneMessage, InHand
<1>2. Asking' = [Asking EXCEPT ![cur] = "none"]
  <2>1. \A c \in Clients : AskedFor(c)' = IF c = cur THEN "none" ELSE AskedFor(c)
    BY <1>1 DEF AskedFor, InHand
  <2> QED
    BY <2>1 DEF Asking
<1>3. Promise!Abandon(cur)
  BY <1>1, <1>2 DEF Promise!Abandon, Asking, Changing, Gone, up
<1> QED
  BY <1>1, <1>3 DEF PromiseStep, Promise!PromiseNext

LEMMA PromiseRtsp ==
  ASSUME TypeInv, Synced, OneMessage, RtspThread
  PROVE  PromiseStep
<1>1. CASE StartRtsp \/ SpawnSetup \/ SetReady \/ ApplyPlay \/ ApplyTeardown
  <2>1. /\ UNCHANGED <<exit, cur, c2s, s2c, cpc, cstate>> /\ rpc # "respond" /\ rpc' # "respond"
    BY <1>1 DEF StartRtsp, SpawnSetup, SetReady, ApplyPlay, ApplyTeardown, ctlVars, clientVars
  <2>2. ServerSees' = ServerSees
    BY <1>1 DEF StartRtsp, SpawnSetup, SetReady, ApplyPlay, ApplyTeardown, Outcome, ServerSees,
                Changing
  <2> QED
    BY <2>1, <2>2 DEF PromiseStep, Promised, up, Present, Asking, AskedFor, InHand, Told
<1> QED
  BY <1>1, PromiseAccept, PromiseReceive, PromiseRespond, PromiseAbandon DEF RtspThread

LEMMA PromiseJoin ==
  ASSUME TypeInv, Synced, NEW c \in Clients, Connect(c)
  PROVE  Promise!Join(c)
<1>1. /\ up /\ cpc[c] = "off" /\ cpc' = [cpc EXCEPT ![c] = "keyboard"]
      /\ cstate' = [cstate EXCEPT ![c] = "INIT"]
      /\ UNCHANGED <<exit, rpc, cur, req, state, c2s, s2c>>
  BY DEF Connect, Step, serverFrame, procVars
<1>2. c # cur /\ cstate[c] = "INIT" /\ s2c[c] = <<>>
  BY <1>1 DEF Synced, Unserved, Fresh
<1>3. c2s[c] = <<>> /\ InHand(c) = 0
  <2>1. ~Gone(c) /\ ~Waiting(c)
    BY <1>1 DEF Gone, Waiting, RequestTypes
  <2> QED
    BY <1>1, <2>1, NothingInFlight
<1>4. Asking[c] = "none" /\ Asking' = Asking
  BY <1>1, <1>3 DEF Asking, AskedFor, InHand
<1>5. c \notin Present /\ Present' = Present \union {c}
  BY <1>1, MessageTypes DEF Present
<1>6. Told' = Told
  BY <1>1, <1>2, MessageTypes DEF Told
<1>7. cstate' = cstate /\ ServerSees' = ServerSees
  BY <1>1, <1>2, MessageTypes DEF ServerSees, Changing
<1> QED
  BY <1>1, <1>2, <1>4, <1>5, <1>6, <1>7
     DEF Promise!Join, Asking, Told, Present, ServerSees, up

LEMMA PromiseAsk ==
  ASSUME TypeInv, Synced, OneMessage, NEW c \in Clients, NEW type \in RequestTypes,
         Command(c, type)
  PROVE  Promise!Ask(c)
<1> DEFINE r == Request(type, NextCSeq(cseq[c]))
<1>1. /\ up /\ cpc[c] = "keyboard" /\ cpc' = [cpc EXCEPT ![c] = type]
      /\ c2s' = [c2s EXCEPT ![c] = Append(@, r)]
      /\ UNCHANGED <<exit, rpc, cur, req, state, s2c, cstate>>
  BY DEF Command, Step, serverFrame, procVars
<1>2. c2s[c] = <<>> /\ s2c[c] = <<>> /\ InHand(c) = 0
  <2>1. ~Gone(c) /\ ~Waiting(c)
    BY <1>1 DEF Gone, Waiting, RequestTypes
  <2> QED
    BY <1>1, <2>1, NothingInFlight
<1>3. r.type = type
  BY DEF Request
<1> HIDE DEF r
<1>4. c2s' = [c2s EXCEPT ![c] = <<r>>] /\ Head(<<r>>) = r /\ <<r>> # <<>>
  BY <1>1, <1>2
<1>5. \A d \in Clients : AskedFor(d)' = IF d = c THEN type ELSE AskedFor(d)
  BY <1>1, <1>3, <1>4, MessageTypes DEF AskedFor, InHand
<1>6. Asking[c] = "none" /\ Asking' = [Asking EXCEPT ![c] = type]
  <2>1. Asking' = [Asking EXCEPT ![c] = type]
    BY <1>5 DEF Asking
  <2> QED
    BY <1>2, <2>1 DEF Asking, AskedFor
<1>7. Told[c] = "none" /\ Told' = Told
  BY <1>1, <1>2, MessageTypes DEF Told
<1>8. c \in Present /\ Present' = Present
  BY <1>1, MessageTypes DEF Present, RequestTypes
<1>9. ServerSees' = ServerSees /\ up' = up
  BY <1>1 DEF ServerSees, Changing, up
<1> QED
  BY <1>1, <1>6, <1>7, <1>8, <1>9
     DEF Promise!Ask, Promise!RequestTypes, RequestTypes, Asking, Told, Present, ServerSees

LEMMA PromiseLearn ==
  ASSUME TypeInv, OneMessage, NEW c \in Clients, ReadReply(c)
  PROVE  Promise!Learn(c)
<1>1. /\ s2c[c] # <<>> /\ s2c' = [s2c EXCEPT ![c] = <<>>] /\ cpc[c] \in {"SETUP", "PLAY"}
      /\ \E to \in {"wake", "keyboard"} : cpc' = [cpc EXCEPT ![c] = to]
      /\ cstate' = [cstate EXCEPT ![c] = Effect(cpc[c], @)]
      /\ UNCHANGED <<exit, rpc, cur, req, state, c2s>>
  BY DEF ReadReply, Step, serverFrame, procVars, OneMessage
<1>2. Told[c] = cpc[c] /\ Told' = [Told EXCEPT ![c] = "none"]
  BY <1>1, MessageTypes DEF Told
<1>3. c \in Present /\ Present' = Present
  BY <1>1, MessageTypes DEF Present
<1>4. Asking' = Asking /\ ServerSees' = ServerSees /\ up' = up
  BY <1>1 DEF Asking, AskedFor, InHand, ServerSees, Changing, up
<1> QED
  BY <1>1, <1>2, <1>3, <1>4
     DEF Promise!Learn, Promise!Effect, Effect, Asking, Told, Present, ServerSees

LEMMA PromiseLeave ==
  ASSUME TypeInv, NEW c \in Clients, cpc[c] \notin {"off", "gone"}, Leave(c)
  PROVE  Promise!Leave(c)
<1>1. /\ s2c' = [s2c EXCEPT ![c] = <<>>] /\ cpc' = [cpc EXCEPT ![c] = "gone"]
      /\ cstate' = [cstate EXCEPT ![c] = "INIT"]
      /\ UNCHANGED <<exit, rpc, cur, req, state, c2s>>
  BY DEF Leave, serverFrame, procVars
<1>2. Told' = [Told EXCEPT ![c] = "none"]
  BY <1>1, MessageTypes DEF Told
<1>3. c \in Present /\ Present' = Present \ {c}
  BY <1>1, MessageTypes DEF Present
<1>4. Asking' = Asking /\ ServerSees' = ServerSees /\ up' = up
  BY <1>1 DEF Asking, AskedFor, InHand, ServerSees, Changing, up
<1> QED
  BY <1>1, <1>2, <1>3, <1>4 DEF Promise!Leave, Asking, Told, Present, ServerSees

(* Opening the data path is no step of the promise. *)
LEMMA PromiseOpen ==
  ASSUME TypeInv, OneMessage, NEW c \in Clients, OpenUDP(c) \/ OpenTCP(c) \/ Greet(c)
  PROVE  UNCHANGED Promised
<1>1. /\ cpc[c] \in {"wake", "hello"}
      /\ \E to \in {"keyboard", "hello"} : cpc' = [cpc EXCEPT ![c] = to]
      /\ UNCHANGED <<exit, rpc, cur, req, state, c2s, s2c, cstate>>
  BY DEF OpenUDP, OpenTCP, Greet, Step, clientFrame, serverFrame, procVars
<1>2. s2c[c] = <<>>
  BY <1>1 DEF OneMessage, Waiting, RequestTypes
<1>3. Told' = Told /\ Present' = Present
  BY <1>1, <1>2, MessageTypes DEF Told, Present
<1>4. Asking' = Asking /\ ServerSees' = ServerSees /\ up' = up
  BY <1>1 DEF Asking, AskedFor, InHand, ServerSees, Changing, up
<1> QED
  BY <1>1, <1>3, <1>4 DEF Promised

LEMMA PromiseClient ==
  ASSUME TypeInv, Synced, OneMessage, ClientSteps
  PROVE  PromiseStep
<1> PICK c \in Clients :
      \/ Connect(c) \/ (\E type \in RequestTypes : Command(c, type))
      \/ ClientThread(c) \/ LoseServer(c) \/ KillClient(c)
  BY DEF ClientSteps
<1>1. CASE Connect(c)
  BY <1>1, PromiseJoin DEF PromiseStep, Promise!PromiseNext
<1>2. CASE \E type \in RequestTypes : Command(c, type)
  BY <1>2, PromiseAsk DEF PromiseStep, Promise!PromiseNext
<1>3. CASE ReadReply(c)
  BY <1>3, PromiseLearn DEF PromiseStep, Promise!PromiseNext
<1>4. CASE OpenUDP(c) \/ OpenTCP(c) \/ Greet(c)
  BY <1>4, PromiseOpen DEF PromiseStep
<1>5. CASE Quit(c) \/ ConnectRefused(c) \/ LoseServer(c) \/ KillClient(c)
  <2>1. Leave(c) /\ cpc[c] \notin {"off", "gone"}
    BY <1>5 DEF Quit, ConnectRefused, LoseServer, KillClient, Waiting, RequestTypes
  <2> QED
    BY <2>1, PromiseLeave DEF PromiseStep, Promise!PromiseNext
<1> QED
  BY <1>1, <1>2, <1>3, <1>4, <1>5 DEF ClientThread

LEMMA StepKeepsPromise ==
  ASSUME TypeInv, Synced, OneMessage, [Next]_vars
  PROVE  [Promise!PromiseNext]_(Promise!promiseVars)
<1>1. ASSUME UNCHANGED syncVars PROVE PromiseStep
  BY <1>1, PromiseFrame DEF PromiseStep
<1>2. ASSUME DieSteps PROVE PromiseStep
  BY <1>2, DieStepsDie, PromiseHalt DEF PromiseStep, Promise!PromiseNext
<1>3. PromiseStep
  BY <1>1, <1>2, NextSplits, PromiseRtsp, PromiseClient
<1>4. CASE UNCHANGED Promised
  BY <1>4 DEF Promised, Promise!promiseVars, ServerSees, Present, Asking, Told
<1> QED
  BY <1>3, <1>4 DEF PromiseStep

(* For any number of clients, either transport and any number of SETUPs,   *)
(* the session with its sockets, threads and messages implements the       *)
(* protocol of SessionPromise.                                             *)
THEOREM PromiseKept == Spec => KeepsPromise
<1>1. TypeInv /\ Synced /\ OneMessage /\ [Next]_vars
        => [Promise!PromiseNext]_(Promise!promiseVars)
  BY StepKeepsPromise
<1> QED
  BY <1>1, OneMessageInit, OneMessageStep, PromiseAtInit, TypeInvHolds, SyncedHolds, PTL
     DEF Spec, KeepsPromise, Promise!PromiseSpec
=============================================================================
