-------------------------- MODULE UnvSessionProofs --------------------------
(***************************************************************************)
(* Invariants of UnvSession for any number of clients and SETUPs, either   *)
(* transport, with or without the audio port.                              *)
(***************************************************************************)
EXTENDS UnvSession, TLAPS

(* The RTSP thread has a client exactly while it is past accept, and       *)
(* RTSPSeqNb is 0 between the parsing of a request and its reply.          *)
RtspOK ==
  /\ rpc \in {"recv", "respond", "apply", "ready"} <=> cur \in Clients
  /\ rpc \in {"respond", "apply", "ready"} => req \in Requests
  /\ rpc = "respond" => seq = 0

(* A setup thread past socket() finds a socket in its slot of iUDP_Sock,   *)
(* and a thread that waits does so on a socket.                            *)
ThreadOK ==
  \A t \in Threads :
    /\ tpc[t] \notin {"unborn", "socket"} => iUDP_Sock[PortOf(t)] \in Threads
    /\ tpc[t] = "wait" => tfd[t] \in Threads
    /\ tpc[t] = "welcome" => acc \in Clients

TypeInv == SessionTypeOK /\ RtspOK /\ ThreadOK

USE NoClientAssumption, MaxSetupsAssumption DEF Ports, Bindings, Unbound, Ephemeral

LEMMA ThreadPorts == \A t \in Threads : PortOf(t) \in Ports
BY DEF Threads, PortOf

LEMMA NoSocketIsNoThread == NoSocket \notin Threads
BY DEF Threads, NoSocket

(* The steps that end the process. *)
DieSteps ==
  \/ KillServer \/ SendRefused \/ SendTCPBroken \/ SendUDPFails
  \/ \E t \in Threads : SocketRefused(t) \/ BindFails(t) \/ AcceptFails(t) \/ ReadWelcomeFails(t)

LEMMA DieStepsDie ==
  ASSUME DieSteps
  PROVE  up /\ \E m \in Endings : Die(m)
BY DEF DieSteps, KillServer, SendRefused, SendTCPBroken, SendUDPFails, SocketRefused, BindFails,
       AcceptFails, ReadWelcomeFails, Endings

LEMMA TypeInvInit == Init => TypeInv
<1> SUFFICES ASSUME Init PROVE TypeInv
  OBVIOUS
<1>1. SessionTypeOK
  BY NoSocketIsNoThread DEF Init, SessionTypeOK, ProcTypeOK, ThreadTypeOK, CtlTypeOK, ClientTypeOK,
                            SessionStates
<1>2. RtspOK
  BY DEF Init, RtspOK
<1>3. ThreadOK
  BY DEF Init, ThreadOK
<1> QED
  BY <1>1, <1>2, <1>3 DEF TypeInv

LEMMA DieTypeInv ==
  ASSUME TypeInv, NEW m \in Endings, Die(m)
  PROVE  TypeInv'
<1> USE DEF TypeInv, SessionTypeOK, Die
<1>1. ProcTypeOK'
  BY DEF ProcTypeOK, SessionStates
<1>2. ThreadTypeOK'
  BY NoSocketIsNoThread DEF ThreadTypeOK
<1>3. CtlTypeOK'
  BY DEF CtlTypeOK
<1>4. ClientTypeOK'
  BY DEF ClientTypeOK, clientVars
<1>5. RtspOK' /\ ThreadOK'
  BY DEF RtspOK, ThreadOK
<1> QED
  BY <1>1, <1>2, <1>3, <1>4, <1>5

LEMMA RtspTypeInv ==
  ASSUME TypeInv, RtspThread
  PROVE  TypeInv'
<1> USE DEF TypeInv, SessionTypeOK, ProcTypeOK, ThreadTypeOK, CtlTypeOK, ClientTypeOK, RtspOK, ThreadOK, procVars, threadVars, netVars, ctlVars,
            clientVars, up
<1>1. CASE StartRtsp
  BY <1>1 DEF StartRtsp
<1>2. CASE AcceptClient
  <2>1. Head(backlog) \in Clients /\ Tail(backlog) \in Seq(Clients)
    BY <1>2 DEF AcceptClient
  <2>2. ProcTypeOK' /\ ThreadTypeOK'
    BY <1>2, <2>1 DEF AcceptClient, SessionAtAccept, SessionStates
  <2>3. CtlTypeOK' /\ ClientTypeOK'
    BY <1>2, <2>1 DEF AcceptClient
  <2>4. RtspOK' /\ ThreadOK'
    BY <1>2, <2>1 DEF AcceptClient
  <2> QED
    BY <2>2, <2>3, <2>4
<1>3. CASE ReceiveRequest
  BY <1>3 DEF ReceiveRequest, ParsedCSeq
<1>4. CASE Respond
  BY <1>4 DEF Respond, Reply
<1>5. CASE RespondFails
  BY <1>5 DEF RespondFails
<1>6. CASE ClientLeft
  BY <1>6 DEF ClientLeft
<1>7. CASE SpawnSetup
  BY <1>7 DEF SpawnSetup
<1>8. CASE SetReady
  BY <1>8 DEF SetReady, Outcome, Effect, SessionStates
<1>9. CASE ApplyPlay
  BY <1>9 DEF ApplyPlay, Outcome, Effect, SessionStates, SlpAfterPlay
<1>10. CASE ApplyTeardown
  BY <1>10 DEF ApplyTeardown, Outcome, Effect, SessionStates
<1> QED
  BY <1>1, <1>2, <1>3, <1>4, <1>5, <1>6, <1>7, <1>8, <1>9, <1>10 DEF RtspThread

LEMMA SetupTypeInv ==
  ASSUME TypeInv, NEW t \in Threads, SetupThread(t)
  PROVE  TypeInv'
<1>1. CASE BindFails(t) \/ AcceptFails(t) \/ ReadWelcomeFails(t)
  BY <1>1, DieTypeInv DEF BindFails, AcceptFails, ReadWelcomeFails, Endings
<1> USE ThreadPorts, NoSocketIsNoThread
    DEF TypeInv, SessionTypeOK, ProcTypeOK, ThreadTypeOK, CtlTypeOK, ClientTypeOK, RtspOK, ThreadOK,
        threadFrame, procVars, netVars, ctlVars, clientVars, up, ThreadStep, SlotOf
<1>2. CASE CreateSocket(t)
  BY <1>2 DEF CreateSocket
<1>3. CASE Bind(t)
  BY <1>3 DEF Bind, AfterBind
<1>4. CASE Listen(t)
  BY <1>4 DEF Listen, Autobind
<1>5. CASE Block(t)
  BY <1>5 DEF Block
<1>6. CASE AcceptData(t)
  <2> DEFINE q == pending[tfd[t]]
  <2>1. /\ tfd[t] \in Threads /\ q \in Seq(Clients) /\ q # <<>>
    BY <1>6 DEF AcceptData
  <2>2. Head(q) \in Clients /\ Tail(q) \in Seq(Clients)
    BY <2>1
  <2> QED
    BY <1>6, <2>1, <2>2 DEF AcceptData
<1>7. CASE ReadWelcome(t)
  BY <1>7 DEF ReadWelcome
<1>8. CASE ReceiveWelcome(t)
  <2> DEFINE q == pending[tfd[t]]
  <2>1. /\ tfd[t] \in Threads /\ q \in Seq(Clients) /\ q # <<>>
    BY <1>8 DEF ReceiveWelcome
  <2>2. Head(q) \in Clients /\ Tail(q) \in Seq(Clients)
    BY <2>1
  <2> QED
    BY <1>8, <2>1, <2>2 DEF ReceiveWelcome
<1> QED
  BY <1>1, <1>2, <1>3, <1>4, <1>5, <1>6, <1>7, <1>8 DEF SetupThread

LEMMA VideoTypeInv ==
  ASSUME TypeInv, VideoThread
  PROVE  TypeInv'
<1>1. CASE SendTCPBroken \/ SendUDPFails
  BY <1>1, DieTypeInv DEF SendTCPBroken, SendUDPFails, Endings
<1> USE DEF TypeInv, SessionTypeOK, ProcTypeOK, ThreadTypeOK, CtlTypeOK, ClientTypeOK, RtspOK, ThreadOK,
        videoFrame, procVars, threadVars, ctlVars, clientVars, up
<1>2. CASE EndOfVideo
  BY <1>2 DEF EndOfVideo
<1>3. CASE AddFrame
  BY <1>3 DEF AddFrame
<1>4. ASSUME NEW r \in SUBSET Clients, Emit(r)
      PROVE  inbox' \subseteq Clients /\ uninvited' \in [Clients -> 0..2]
  BY <1>4 DEF Emit
<1>5. CASE SendTCP
  BY <1>4, <1>5 DEF SendTCP
<1>6. CASE SendUDP
  <2>1. inbox' \subseteq Clients /\ uninvited' \in [Clients -> 0..2]
    BY <1>4, <1>6 DEF SendUDP
  <2>2. bound' \in [Threads -> Bindings]
    BY <1>6 DEF SendUDP, Autobind
  <2> QED
    BY <1>6, <2>1, <2>2 DEF SendUDP
<1> QED
  BY <1>1, <1>2, <1>3, <1>5, <1>6 DEF VideoThread

LEMMA LeaveTypeInv ==
  ASSUME TypeInv, NEW c \in Clients, Leave(c)
  PROVE  TypeInv'
BY DEF TypeInv, SessionTypeOK, ProcTypeOK, ThreadTypeOK, CtlTypeOK, ClientTypeOK, RtspOK, ThreadOK, Leave, serverFrame, procVars, threadVars,
       SessionStates

LEMMA ClientTypeInv ==
  ASSUME TypeInv, NEW c \in Clients,
         \/ Connect(c) \/ (\E type \in RequestTypes : Command(c, type))
         \/ ClientThread(c) \/ ReceiveVideo(c) \/ LoseServer(c) \/ KillClient(c)
  PROVE  TypeInv'
<1> USE DEF TypeInv, SessionTypeOK, ProcTypeOK, ThreadTypeOK, CtlTypeOK, ClientTypeOK, RtspOK, ThreadOK, serverFrame, clientFrame, procVars,
            threadVars, ctlVars, clientVars, up, Step
<1>1. CASE Connect(c)
  BY <1>1 DEF Connect, SessionStates
<1>2. CASE \E type \in RequestTypes : Command(c, type)
  <2> PICK type \in RequestTypes : Command(c, type)
    BY <1>2
  <2>1. Request(type, NextCSeq(cseq[c])) \in Requests /\ NextCSeq(cseq[c]) \in Nat
    BY DEF Request, Requests, NextCSeq
  <2>2. c2s' \in [Clients -> Seq(Requests)]
    BY <2>1 DEF Command
  <2>3. asked' \in 0..MaxSetups
    BY DEF Command
  <2> QED
    BY <2>1, <2>2, <2>3 DEF Command
<1>3. CASE ReadReply(c)
  <2>1. cpc' \in [Clients -> {"off", "keyboard", "wake", "hello", "gone"} \union RequestTypes]
    BY <1>3 DEF ReadReply
  <2>2. s2c' \in [Clients -> Seq(Nat)]
    BY <1>3 DEF ReadReply
  <2>3. cstate' \in [Clients -> SessionStates]
    BY <1>3 DEF ReadReply, Effect, SessionStates
  <2> QED
    BY <1>3, <2>1, <2>2, <2>3 DEF ReadReply, ParsedReplyCSeq
<1>4. CASE Quit(c)
  BY <1>4, LeaveTypeInv DEF Quit
<1>5. CASE OpenUDP(c)
  <2>1. pending' \in [Threads -> Seq(Clients)]
    <3>1. CASE pending' = pending
      BY <3>1
    <3>2. ASSUME NEW f \in Threads, pending' = [pending EXCEPT ![f] = Append(@, c)]
          PROVE  pending' \in [Threads -> Seq(Clients)]
      BY <3>2
    <3> QED
      BY <1>5, <3>1, <3>2 DEF OpenUDP, Reachable
  <2> QED
    BY <1>5, <2>1 DEF OpenUDP
<1>6. CASE OpenTCP(c)
  <2>1. pending' \in [Threads -> Seq(Clients)]
    BY <1>6 DEF OpenTCP, Reachable
  <2> QED
    BY <1>6, <2>1 DEF OpenTCP
<1>7. CASE ConnectRefused(c)
  BY <1>7, LeaveTypeInv DEF ConnectRefused
<1>8. CASE Greet(c)
  BY <1>8 DEF Greet
<1>9. CASE ReceiveVideo(c)
  BY <1>9 DEF ReceiveVideo
<1>10. CASE LoseServer(c)
  BY <1>10, LeaveTypeInv DEF LoseServer
<1>11. CASE KillClient(c)
  BY <1>11, LeaveTypeInv DEF KillClient
<1> QED
  BY <1>1, <1>2, <1>3, <1>4, <1>5, <1>6, <1>7, <1>8, <1>9, <1>10, <1>11 DEF ClientThread

LEMMA StutterTypeInv ==
  ASSUME TypeInv, UNCHANGED vars
  PROVE  TypeInv'
<1> USE DEF TypeInv, SessionTypeOK, vars, procVars, threadVars, netVars, ctlVars, clientVars
<1>1. ProcTypeOK'
  BY DEF ProcTypeOK
<1>2. ThreadTypeOK'
  BY DEF ThreadTypeOK
<1>3. CtlTypeOK'
  BY DEF CtlTypeOK
<1>4. ClientTypeOK'
  BY DEF ClientTypeOK
<1>5. RtspOK' /\ ThreadOK'
  BY DEF RtspOK, ThreadOK
<1> QED
  BY <1>1, <1>2, <1>3, <1>4, <1>5

LEMMA TypeInvStep == TypeInv /\ [Next]_vars => TypeInv'
<1> SUFFICES ASSUME TypeInv, [Next]_vars PROVE TypeInv'
  OBVIOUS
<1>1. CASE CountAudioPort
  <2> USE DEF TypeInv, SessionTypeOK, CountAudioPort, threadVars, netVars, ctlVars, clientVars
  <2>1. ProcTypeOK'
    BY <1>1 DEF ProcTypeOK
  <2>2. ThreadTypeOK'
    BY <1>1 DEF ThreadTypeOK
  <2>3. CtlTypeOK' /\ ClientTypeOK'
    BY <1>1 DEF CtlTypeOK, ClientTypeOK
  <2>4. RtspOK' /\ ThreadOK'
    BY <1>1 DEF RtspOK, ThreadOK
  <2> QED
    BY <2>1, <2>2, <2>3, <2>4
<1>2. CASE DieSteps
  BY <1>2, DieTypeInv, DieStepsDie
<1> QED
  BY <1>1, <1>2, RtspTypeInv, SetupTypeInv, VideoTypeInv, ClientTypeInv, StutterTypeInv
     DEF Next, DieSteps

LEMMA TypeInvHolds == Spec => []TypeInv
BY TypeInvInit, TypeInvStep, PTL DEF Spec

-----------------------------------------------------------------------------
(* Lock step, and the agreement of the two ends *)

(* The session as each end will see it once what is in flight has arrived: *)
(* a request that is answered counts at the server even before             *)
(* iRTSP_State is assigned, a reply counts at the client before it is read. *)
ServerSees == IF Changing THEN Effect(req.type, state) ELSE state
ClientSees(c) == IF s2c[c] # <<>> THEN Effect(cpc[c], cstate[c]) ELSE cstate[c]

EndsMeet == \A c \in Clients : up /\ cur = c /\ ~Gone(c) => ServerSees = ClientSees(c)

(* What the server has to do is what the client is waiting for. *)
RequestKept ==
  /\ \A c \in Clients : up /\ ~Gone(c) =>
       /\ c2s[c] # <<>> => Head(c2s[c]).type = cpc[c]
       /\ cur = c /\ rpc = "respond" => req.type = cpc[c]
  /\ rpc = "ready" => req.type = "SETUP"

(* A client that has not been served yet is as it was when it connected,   *)
(* and is accepted only once.                                              *)
Fresh(c) == cstate[c] = "INIT" /\ s2c[c] = <<>>

Unserved ==
  /\ \A c \in Clients : cpc[c] = "off" => c # cur /\ Fresh(c)
  /\ \A i \in 1..Len(backlog) :
       /\ backlog[i] # cur
       /\ cpc[backlog[i]] # "off"
       /\ ~Gone(backlog[i]) => Fresh(backlog[i])
       /\ \A j \in 1..Len(backlog) : backlog[i] = backlog[j] => i = j

Synced == LockStep /\ EndsMeet /\ RequestKept /\ Unserved

syncVars == <<exit, rpc, cur, req, state, backlog, c2s, s2c, cpc, cstate>>

LEMMA SyncedInit == Init => Synced
<1> SUFFICES ASSUME Init PROVE Synced
  OBVIOUS
<1>1. LockStep
  BY DEF Init, LockStep, InFlight, Expected, InHand, Waiting, RequestTypes
<1>2. EndsMeet /\ RequestKept /\ Unserved
  BY DEF Init, EndsMeet, RequestKept, Unserved, Fresh
<1> QED
  BY <1>1, <1>2 DEF Synced

LEMMA SyncedFrame ==
  ASSUME Synced, UNCHANGED syncVars
  PROVE  Synced'
<1> USE DEF Synced, syncVars, InFlight, Expected, InHand, Waiting, Gone, up
<1>1. LockStep'
  BY DEF LockStep
<1>2. EndsMeet'
  BY DEF EndsMeet, ServerSees, ClientSees, Changing
<1>3. RequestKept'
  BY DEF RequestKept
<1>4. Unserved'
  BY DEF Unserved, Fresh
<1> QED
  BY <1>1, <1>2, <1>3, <1>4

LEMMA SyncedDie ==
  ASSUME TypeInv, Synced, NEW m \in Endings, Die(m)
  PROVE  Synced'
<1>1. ~up'
  BY DEF Die, up, Endings
<1>2. LockStep' /\ EndsMeet'
  BY <1>1 DEF LockStep, EndsMeet
<1>3. RequestKept'
  BY <1>1 DEF RequestKept, Die
<1>4. Unserved'
  <2>1. cur' = NoClient /\ backlog' = <<>> /\ s2c' = s2c /\ cpc' = cpc /\ cstate' = cstate
    BY DEF Die, clientVars
  <2> QED
    BY <2>1 DEF Synced, Unserved, Fresh
<1> QED
  BY <1>2, <1>3, <1>4 DEF Synced

LEMMA SyncedAccept ==
  ASSUME TypeInv, Synced, AcceptClient
  PROVE  Synced'
<1> DEFINE c == Head(backlog)
<1>1. /\ backlog \in Seq(Clients) /\ Len(backlog) > 0 /\ c = backlog[1] /\ c \in Clients
      /\ Tail(backlog) \in Seq(Clients) /\ Len(Tail(backlog)) = Len(backlog) - 1
      /\ \A i \in 1..Len(Tail(backlog)) : Tail(backlog)[i] = backlog[i + 1]
  BY DEF TypeInv, SessionTypeOK, CtlTypeOK, AcceptClient
<1>2. /\ cur' = c /\ backlog' = Tail(backlog) /\ state' = "INIT" /\ rpc' = "recv"
      /\ rpc = "accept" /\ cpc' = cpc /\ cstate' = cstate /\ c2s' = c2s /\ s2c' = s2c
      /\ req' = req /\ exit' = exit
  BY DEF AcceptClient, SessionAtAccept, clientVars
<1>3. LockStep'
  BY <1>2 DEF Synced, LockStep, InFlight, Expected, InHand, Waiting, Gone, up
<1>4. ~Gone(c) => Fresh(c)
  BY <1>1 DEF Synced, Unserved
<1>5. EndsMeet'
  BY <1>2, <1>4 DEF EndsMeet, ServerSees, ClientSees, Changing, Fresh, Gone
<1>6. RequestKept'
  BY <1>2 DEF Synced, RequestKept, Gone, up
<1>7. Unserved'
  <2>1. \A d \in Clients : cpc'[d] = "off" => d # cur' /\ Fresh(d)'
    BY <1>1, <1>2 DEF Synced, Unserved, Fresh
  <2>2. ASSUME NEW i \in 1..Len(backlog')
        PROVE  (/\ backlog[i] # cur /\ cpc[backlog[i]] # "off"
                /\ ~Gone(backlog[i]) => Fresh(backlog[i]))'
    <3>1. i + 1 \in 1..Len(backlog) /\ 1 \in 1..Len(backlog) /\ backlog'[i] = backlog[i + 1]
      BY <1>1, <1>2
    <3>2. /\ backlog[i + 1] = backlog[1] => i + 1 = 1
          /\ cpc[backlog[i + 1]] # "off"
          /\ ~Gone(backlog[i + 1]) => Fresh(backlog[i + 1])
      BY <3>1 DEF Synced, Unserved
    <3>3. backlog[i + 1] # c
      BY <1>1, <3>1, <3>2
    <3> QED
      BY <1>2, <3>1, <3>2, <3>3 DEF Fresh, Gone
  <2>3. ASSUME NEW i \in 1..Len(backlog'), NEW j \in 1..Len(backlog'),
               backlog'[i] = backlog'[j]
        PROVE  i = j
    <3>1. /\ i + 1 \in 1..Len(backlog) /\ j + 1 \in 1..Len(backlog)
          /\ backlog[i + 1] = backlog[j + 1]
      BY <1>1, <1>2, <2>3
    <3>2. i + 1 = j + 1
      BY <3>1 DEF Synced, Unserved
    <3> QED
      BY <3>2
  <2> QED
    BY <2>1, <2>2, <2>3 DEF Unserved, Fresh, Gone
<1> QED
  BY <1>3, <1>5, <1>6, <1>7 DEF Synced

(* Arithmetic of the messages in flight. *)
LEMMA NothingElse ==
  ASSUME NEW a \in Nat, NEW b \in Nat, a + 1 + b \in {0, 1}
  PROVE  a = 0 /\ b = 0 /\ a + 1 + b = 1
OBVIOUS

LEMMA SyncedReceive ==
  ASSUME TypeInv, Synced, ReceiveRequest
  PROVE  Synced'
<1> DEFINE q == c2s[cur]
<1>1. /\ rpc = "recv" /\ rpc' = "respond" /\ cur \in Clients /\ req' = Head(q)
      /\ q \in Seq(Requests) /\ Len(q) > 0 /\ Len(Tail(q)) = Len(q) - 1
      /\ c2s' = [c2s EXCEPT ![cur] = Tail(q)] /\ c2s \in [Clients -> Seq(Requests)]
      /\ s2c \in [Clients -> Seq(Nat)]
  BY DEF TypeInv, SessionTypeOK, ProcTypeOK, CtlTypeOK, RtspOK, ReceiveRequest
<1>2. /\ exit' = exit /\ cur' = cur /\ state' = state /\ backlog' = backlog
      /\ s2c' = s2c /\ cpc' = cpc /\ cstate' = cstate
  BY DEF ReceiveRequest, clientVars
<1>3. LockStep'
  <2> SUFFICES ASSUME NEW c \in Clients, up, ~Gone(c)
               PROVE  Len(c2s'[c]) + InHand(c)' + Len(s2c[c]) = Expected(c)
    BY <1>2 DEF LockStep, InFlight, Expected, up, Gone, Waiting
  <2>1. Len(c2s[c]) + InHand(c) + Len(s2c[c]) = Expected(c)
    BY DEF Synced, LockStep, InFlight
  <2>2. CASE c = cur
    <3>1. InHand(c) = 0 /\ InHand(c)' = 1 /\ Len(c2s'[c]) = Len(c2s[c]) - 1
      BY <1>1, <1>2, <2>2 DEF InHand
    <3>2. Len(c2s[c]) \in Nat /\ Len(s2c[c]) \in Nat
      BY <1>1
    <3> QED
      <4> DEFINE a == Len(c2s[c])
                 b == Len(s2c[c])
      <4>1. a \in Nat /\ b \in Nat /\ a + 0 + b = Expected(c)
        BY <2>1, <3>1, <3>2
      <4>2. (a - 1) + 1 + b = Expected(c)
        <5> HIDE DEF a, b
        <5> QED
          BY <4>1
      <4> QED
        BY <3>1, <4>2
  <2>3. CASE c # cur
    BY <1>1, <1>2, <2>1, <2>3 DEF InHand
  <2> QED
    BY <2>2, <2>3
<1>4. EndsMeet'
  BY <1>1, <1>2 DEF Synced, EndsMeet, ServerSees, ClientSees, Changing, Gone, up
<1>5. RequestKept'
  <2> SUFFICES ASSUME NEW c \in Clients, up, ~Gone(c)
               PROVE  /\ c2s'[c] # <<>> => Head(c2s'[c]).type = cpc[c]
                      /\ cur = c => Head(q).type = cpc[c]
    BY <1>1, <1>2 DEF RequestKept, up, Gone
  <2>1. Len(c2s[c]) + InHand(c) + Len(s2c[c]) = Expected(c) /\ Expected(c) \in {0, 1}
    BY DEF Synced, LockStep, InFlight, Expected
  <2>2. CASE c = cur
    <3>1. Head(q).type = cpc[c]
      BY <1>1, <2>2 DEF Synced, RequestKept
    <3>2. Len(q) <= 1 /\ Len(s2c[c]) \in Nat
      BY <1>1, <2>1, <2>2 DEF InHand
    <3>3. c2s'[c] = <<>>
      BY <1>1, <2>2, <3>2
    <3> QED
      BY <3>1, <3>3
  <2>3. CASE c # cur
    BY <1>1, <2>3 DEF Synced, RequestKept
  <2> QED
    BY <2>2, <2>3
<1>6. Unserved'
  BY <1>2 DEF Synced, Unserved, Fresh, Gone
<1> QED
  BY <1>3, <1>4, <1>5, <1>6 DEF Synced

LEMMA SyncedRespond ==
  ASSUME TypeInv, Synced, Respond
  PROVE  Synced'
<1>1. /\ rpc = "respond" /\ rpc' = "apply" /\ cur \in Clients /\ seq + 1 \in Nat
      /\ s2c' = IF Gone(cur) THEN s2c ELSE [s2c EXCEPT ![cur] = Append(@, seq + 1)]
      /\ c2s \in [Clients -> Seq(Requests)] /\ s2c \in [Clients -> Seq(Nat)]
  BY DEF TypeInv, SessionTypeOK, ProcTypeOK, CtlTypeOK, RtspOK, Respond, Reply
<1>2. /\ exit' = exit /\ cur' = cur /\ state' = state /\ backlog' = backlog
      /\ req' = req /\ c2s' = c2s /\ cpc' = cpc /\ cstate' = cstate
  BY DEF Respond, clientVars
<1>3. ASSUME up, ~Gone(cur)
      PROVE  /\ s2c[cur] = <<>> /\ c2s[cur] = <<>> /\ Expected(cur) = 1
             /\ s2c'[cur] = <<seq + 1>>
  <2>1. Len(c2s[cur]) + 1 + Len(s2c[cur]) = Expected(cur) /\ Expected(cur) \in {0, 1}
    BY <1>1, <1>3 DEF Synced, LockStep, InFlight, Expected, InHand
  <2>2. Len(c2s[cur]) \in Nat /\ Len(s2c[cur]) \in Nat
    BY <1>1
  <2>3. Len(s2c[cur]) = 0 /\ Len(c2s[cur]) = 0 /\ Expected(cur) = 1
    BY <2>1, <2>2, NothingElse
  <2>4. s2c[cur] = <<>> /\ c2s[cur] = <<>>
    BY <1>1, <2>3
  <2>5. s2c'[cur] = <<seq + 1>>
    BY <1>1, <1>3, <2>4
  <2> QED
    BY <2>3, <2>4, <2>5
<1>4. LockStep'
  <2> SUFFICES ASSUME NEW c \in Clients, up, ~Gone(c)
               PROVE  Len(c2s[c]) + InHand(c)' + Len(s2c'[c]) = Expected(c)
    BY <1>2 DEF LockStep, InFlight, Expected, up, Gone, Waiting
  <2>1. InHand(c)' = 0
    BY <1>1 DEF InHand
  <2>2. CASE c = cur
    <3>1. Len(c2s[c]) = 0 /\ Len(s2c'[c]) = 1 /\ Expected(c) = 1
      BY <1>1, <1>3, <2>2
    <3>2. 0 + 0 + 1 = 1
      OBVIOUS
    <3> QED
      BY <2>1, <3>1, <3>2
  <2>3. CASE c # cur
    BY <1>1, <1>2, <2>1, <2>3 DEF Synced, LockStep, InFlight, InHand
  <2> QED
    BY <2>2, <2>3
<1>5. EndsMeet'
  BY <1>1, <1>2, <1>3
     DEF Synced, EndsMeet, RequestKept, ServerSees, ClientSees, Changing, Gone, up
<1>6. RequestKept'
  BY <1>1, <1>2 DEF Synced, RequestKept, up, Gone
<1>7. Unserved'
  <2>1. \A c \in Clients : c # cur => s2c'[c] = s2c[c]
    BY <1>1
  <2>2. \A i \in 1..Len(backlog) : backlog[i] \in Clients
    BY DEF TypeInv, SessionTypeOK, CtlTypeOK
  <2> QED
    BY <1>2, <2>1, <2>2 DEF Synced, Unserved, Fresh, Gone
<1> QED
  BY <1>4, <1>5, <1>6, <1>7 DEF Synced

(* The steps of the RTSP thread that leave the messages alone. *)
LEMMA SyncedRtsp ==
  ASSUME TypeInv, Synced, RtspThread
  PROVE  Synced'
<1> USE DEF clientVars, ctlVars
<1>1. CASE StartRtsp
  <2>1. /\ rpc = "start" /\ rpc' \in {"accept", "ended"}
        /\ UNCHANGED <<exit, cur, req, state, backlog, c2s, s2c, cpc, cstate>>
    BY <1>1 DEF StartRtsp
  <2>2. LockStep'
    BY <2>1 DEF Synced, LockStep, InFlight, Expected, InHand, Waiting, Gone, up
  <2>3. EndsMeet' /\ RequestKept' /\ Unserved'
    BY <2>1 DEF Synced, EndsMeet, RequestKept, Unserved, Fresh, ServerSees, ClientSees,
                Changing, Gone, up
  <2> QED
    BY <2>2, <2>3 DEF Synced
<1>2. CASE RespondFails \/ ClientLeft
  <2>1. /\ rpc' = "accept" /\ cur' = NoClient /\ rpc \in {"recv", "respond"} /\ Gone(cur)
        /\ UNCHANGED <<exit, state, backlog, c2s, s2c, cpc, cstate>>
    BY <1>2 DEF RespondFails, ClientLeft
  <2>2. LockStep'
    BY <2>1 DEF Synced, LockStep, InFlight, Expected, InHand, Waiting, Gone, up
  <2>3. EndsMeet' /\ RequestKept'
    BY <2>1 DEF Synced, EndsMeet, RequestKept, Gone, up
  <2>4. \A i \in 1..Len(backlog) : backlog[i] \in Clients
    BY DEF TypeInv, SessionTypeOK, CtlTypeOK
  <2>5. Unserved'
    BY <2>1, <2>4 DEF Synced, Unserved, Fresh, Gone
  <2> QED
    BY <2>2, <2>3, <2>5 DEF Synced
<1>3. CASE SpawnSetup
  <2>1. /\ rpc = "apply" /\ rpc' = "ready" /\ req.type = "SETUP"
        /\ UNCHANGED <<exit, cur, req, state, backlog, c2s, s2c, cpc, cstate>>
    BY <1>3 DEF SpawnSetup
  <2>2. LockStep'
    BY <2>1 DEF Synced, LockStep, InFlight, Expected, InHand, Waiting, Gone, up
  <2>3. EndsMeet' /\ RequestKept' /\ Unserved'
    BY <2>1 DEF Synced, EndsMeet, RequestKept, Unserved, Fresh, ServerSees, ClientSees,
                Changing, Gone, up
  <2> QED
    BY <2>2, <2>3 DEF Synced
<1>4. CASE SetReady \/ ApplyPlay \/ ApplyTeardown
  <2>1. /\ rpc \in {"apply", "ready"} /\ rpc' = "recv"
        /\ state' = Effect(req.type, state)
        /\ UNCHANGED <<exit, cur, backlog, c2s, s2c, cpc, cstate>>
    BY <1>4 DEF SetReady, ApplyPlay, ApplyTeardown, Outcome
  <2>2. LockStep'
    BY <2>1 DEF Synced, LockStep, InFlight, Expected, InHand, Waiting, Gone, up
  <2>3. EndsMeet' /\ RequestKept' /\ Unserved'
    BY <2>1 DEF Synced, EndsMeet, RequestKept, Unserved, Fresh, ServerSees, ClientSees,
                Changing, Gone, up
  <2> QED
    BY <2>2, <2>3 DEF Synced
<1> QED
  BY <1>1, <1>2, <1>3, <1>4, SyncedAccept, SyncedReceive, SyncedRespond DEF RtspThread

(* What lock step says of a client that is, or is not, waiting. *)
LEMMA NothingInFlight ==
  ASSUME TypeInv, Synced, NEW c \in Clients, up, ~Gone(c), ~Waiting(c)
  PROVE  c2s[c] = <<>> /\ s2c[c] = <<>> /\ InHand(c) = 0
<1> DEFINE a == Len(c2s[c])
           b == Len(s2c[c])
<1>1. a \in Nat /\ b \in Nat /\ InHand(c) \in {0, 1} /\ a + InHand(c) + b = 0
  BY DEF TypeInv, SessionTypeOK, CtlTypeOK, Synced, LockStep, InFlight, Expected, InHand
<1>2. a = 0 /\ b = 0 /\ InHand(c) = 0
  <2> HIDE DEF a, b
  <2> QED
    BY <1>1
<1> QED
  BY <1>2 DEF TypeInv, SessionTypeOK, CtlTypeOK

LEMMA EmptySeq ==
  ASSUME NEW S, NEW q \in Seq(S), Len(q) = 0
  PROVE  q = <<>>
OBVIOUS

LEMMA OnlyTheReply ==
  ASSUME TypeInv, Synced, NEW c \in Clients, up, ~Gone(c), s2c[c] # <<>>
  PROVE  c2s[c] = <<>> /\ Len(s2c[c]) = 1 /\ Tail(s2c[c]) = <<>> /\ InHand(c) = 0
<1> DEFINE a == Len(c2s[c])
           b == Len(s2c[c])
<1>1. /\ a \in Nat /\ b \in Nat /\ InHand(c) \in {0, 1} /\ b # 0
      /\ a + InHand(c) + b \in {0, 1}
  BY DEF TypeInv, SessionTypeOK, CtlTypeOK, Synced, LockStep, InFlight, Expected, InHand
<1>2. a = 0 /\ b = 1 /\ InHand(c) = 0
  <2> HIDE DEF a, b
  <2> QED
    BY <1>1
<1>3. c2s[c] \in Seq(Requests) /\ s2c[c] \in Seq(Nat)
  BY DEF TypeInv, SessionTypeOK, CtlTypeOK
<1>4. c2s[c] = <<>>
  BY <1>2, <1>3
<1>5. Len(s2c[c]) = 1
  BY <1>2
<1>6. Tail(s2c[c]) \in Seq(Nat) /\ Len(Tail(s2c[c])) = 0
  BY <1>3, <1>5
<1>7. Tail(s2c[c]) = <<>>
  BY <1>6, EmptySeq
<1> QED
  BY <1>2, <1>4, <1>5, <1>7

(* The step of one client that keeps the messages and its cstate. *)
LEMMA SyncedMove ==
  ASSUME TypeInv, Synced, NEW c \in Clients,
         cpc[c] \in {"wake", "hello"},
         NEW to \in {"keyboard", "hello"}, cpc' = [cpc EXCEPT ![c] = to],
         UNCHANGED <<exit, rpc, cur, req, state, backlog, c2s, s2c, cstate>>
  PROVE  Synced'
<1>1. /\ cpc \in [Clients -> {"off", "keyboard", "wake", "hello", "gone"} \union RequestTypes]
      /\ \A i \in 1..Len(backlog) : backlog[i] \in Clients
  BY DEF TypeInv, SessionTypeOK, ClientTypeOK, CtlTypeOK
<1>2. \A d \in Clients : Gone(d)' = Gone(d) /\ Waiting(d)' = Waiting(d)
  BY <1>1 DEF Gone, Waiting, RequestTypes
<1>3. LockStep'
  BY <1>2 DEF Synced, LockStep, InFlight, Expected, InHand, up
<1>4. up => c2s[c] = <<>> /\ s2c[c] = <<>> /\ InHand(c) = 0
  BY NothingInFlight DEF Gone, Waiting, RequestTypes
<1>5. EndsMeet'
  BY <1>1, <1>2, <1>4 DEF Synced, EndsMeet, ServerSees, ClientSees, Changing, up
<1>6. RequestKept'
  BY <1>1, <1>2, <1>4 DEF Synced, RequestKept, InHand, up
<1>7. Unserved'
  BY <1>1, <1>2 DEF Synced, Unserved, Fresh
<1> QED
  BY <1>3, <1>5, <1>6, <1>7 DEF Synced

LEMMA SyncedConnect ==
  ASSUME TypeInv, Synced, NEW c \in Clients, Connect(c)
  PROVE  Synced'
<1>1. /\ cpc \in [Clients -> {"off", "keyboard", "wake", "hello", "gone"} \union RequestTypes]
      /\ cstate \in [Clients -> SessionStates]
      /\ backlog \in Seq(Clients) /\ cpc[c] = "off" /\ up
      /\ cpc' = [cpc EXCEPT ![c] = "keyboard"] /\ backlog' = Append(backlog, c)
      /\ UNCHANGED <<exit, rpc, cur, req, state, c2s, s2c>>
      /\ cstate' = [cstate EXCEPT ![c] = "INIT"]
  BY DEF TypeInv, SessionTypeOK, ClientTypeOK, CtlTypeOK, Connect, Step, serverFrame, procVars
<1>2. c # cur /\ Fresh(c)
  BY <1>1 DEF Synced, Unserved
<1>3. cstate' = cstate
  BY <1>1, <1>2 DEF Fresh
<1>4. \A d \in Clients : Gone(d)' = Gone(d) /\ Waiting(d)' = Waiting(d)
  BY <1>1 DEF Gone, Waiting, RequestTypes
<1>5. LockStep'
  BY <1>1, <1>4 DEF Synced, LockStep, InFlight, Expected, InHand, up
<1>6. EndsMeet'
  BY <1>1, <1>2, <1>3, <1>4 DEF Synced, EndsMeet, ServerSees, ClientSees, Changing, up
<1>7. RequestKept'
  <2>1. c2s[c] = <<>> /\ s2c[c] = <<>> /\ InHand(c) = 0
    BY <1>1, NothingInFlight DEF Gone, Waiting, RequestTypes
  <2> QED
    BY <1>1, <1>4, <2>1 DEF Synced, RequestKept, InHand, up
<1>8. Unserved'
  <2>1. /\ Len(backlog') = Len(backlog) + 1 /\ backlog'[Len(backlog) + 1] = c
        /\ \A i \in 1..Len(backlog) : backlog'[i] = backlog[i] /\ backlog[i] \in Clients
        /\ Len(backlog) \in Nat
    BY <1>1
  <2>2. \A i \in 1..Len(backlog) : backlog[i] # c
    BY <1>1 DEF Synced, Unserved
  <2>3. \A d \in Clients : cpc'[d] = "off" => d # cur /\ Fresh(d)
    BY <1>1 DEF Synced, Unserved
  <2>4. \A d \in Clients : Fresh(d)' = Fresh(d)
    BY <1>1, <1>3 DEF Fresh
  <2>5. ASSUME NEW i \in 1..Len(backlog')
        PROVE  (/\ backlog[i] # cur /\ cpc[backlog[i]] # "off"
                /\ ~Gone(backlog[i]) => Fresh(backlog[i]))'
    <3>1. CASE i \in 1..Len(backlog)
      <4>1. /\ backlog[i] # cur /\ cpc[backlog[i]] # "off"
            /\ ~Gone(backlog[i]) => Fresh(backlog[i])
        BY <3>1 DEF Synced, Unserved
      <4> QED
        BY <1>1, <1>3, <2>1, <2>2, <3>1, <4>1 DEF Fresh, Gone
    <3>2. CASE i = Len(backlog) + 1
      BY <1>1, <1>2, <1>3, <2>1, <3>2 DEF Fresh, Gone
    <3> QED
      BY <2>1, <3>1, <3>2
  <2>6. ASSUME NEW i \in 1..Len(backlog'), NEW j \in 1..Len(backlog'),
               backlog'[i] = backlog'[j]
        PROVE  i = j
    <3>1. CASE i \in 1..Len(backlog) /\ j \in 1..Len(backlog)
      BY <2>1, <2>6, <3>1 DEF Synced, Unserved
    <3>2. CASE i = Len(backlog) + 1 \/ j = Len(backlog) + 1
      BY <2>1, <2>2, <2>6, <3>2
    <3> QED
      BY <2>1, <3>1, <3>2
  <2> QED
    BY <1>1, <2>3, <2>4, <2>5, <2>6 DEF Unserved
<1> QED
  BY <1>5, <1>6, <1>7, <1>8 DEF Synced

LEMMA SyncedLeave ==
  ASSUME TypeInv, Synced, NEW c \in Clients, cpc[c] # "off", Leave(c)
  PROVE  Synced'
<1>1. /\ cpc \in [Clients -> {"off", "keyboard", "wake", "hello", "gone"} \union RequestTypes]
      /\ \A i \in 1..Len(backlog) : backlog[i] \in Clients
      /\ s2c \in [Clients -> Seq(Nat)] /\ cstate \in [Clients -> SessionStates]
  BY DEF TypeInv, SessionTypeOK, ClientTypeOK, CtlTypeOK
<1>2. /\ cpc' = [cpc EXCEPT ![c] = "gone"] /\ cstate' = [cstate EXCEPT ![c] = "INIT"]
      /\ s2c' = [s2c EXCEPT ![c] = <<>>]
      /\ UNCHANGED <<exit, rpc, cur, req, state, backlog, c2s>>
  BY DEF Leave, serverFrame, procVars
<1>3. Gone(c)' /\ \A d \in Clients : d # c =>
        /\ Gone(d)' = Gone(d) /\ Waiting(d)' = Waiting(d) /\ cpc'[d] = cpc[d]
        /\ cstate'[d] = cstate[d] /\ s2c'[d] = s2c[d]
  BY <1>1, <1>2 DEF Gone, Waiting
<1>4. LockStep'
  BY <1>2, <1>3 DEF Synced, LockStep, InFlight, Expected, InHand, up
<1>5. EndsMeet'
  BY <1>2, <1>3 DEF Synced, EndsMeet, ServerSees, ClientSees, Changing, up
<1>6. RequestKept'
  BY <1>2, <1>3 DEF Synced, RequestKept, up
<1>7. Unserved'
  <2>1. \A d \in Clients : cpc'[d] = "off" => d # cur /\ Fresh(d)'
    BY <1>1, <1>2, <1>3 DEF Synced, Unserved, Fresh
  <2>2. ASSUME NEW i \in 1..Len(backlog)
        PROVE  /\ backlog[i] # cur
               /\ cpc'[backlog[i]] # "off"
               /\ (~Gone(backlog[i]) => Fresh(backlog[i]))'
               /\ \A j \in 1..Len(backlog) : backlog[i] = backlog[j] => i = j
    <3>1. /\ backlog[i] # cur /\ cpc[backlog[i]] # "off"
          /\ ~Gone(backlog[i]) => Fresh(backlog[i])
          /\ \A j \in 1..Len(backlog) : backlog[i] = backlog[j] => i = j
      BY DEF Synced, Unserved
    <3>2. backlog[i] \in Clients /\ backlog' = backlog
      BY <1>1, <1>2
    <3>3. CASE backlog[i] = c
      BY <1>1, <1>2, <3>1, <3>2, <3>3 DEF Gone
    <3>4. CASE backlog[i] # c
      BY <1>2, <1>3, <3>1, <3>2, <3>4 DEF Gone, Fresh
    <3> QED
      BY <3>3, <3>4
  <2> QED
    BY <1>2, <2>1, <2>2 DEF Unserved
<1> QED
  BY <1>4, <1>5, <1>6, <1>7 DEF Synced

LEMMA SyncedCommand ==
  ASSUME TypeInv, Synced, NEW c \in Clients, NEW type \in RequestTypes, Command(c, type)
  PROVE  Synced'
<1> DEFINE r == Request(type, NextCSeq(cseq[c]))
<1>1. /\ cpc \in [Clients -> {"off", "keyboard", "wake", "hello", "gone"} \union RequestTypes]
      /\ \A i \in 1..Len(backlog) : backlog[i] \in Clients
      /\ c2s \in [Clients -> Seq(Requests)] /\ cseq[c] \in Nat
  BY DEF TypeInv, SessionTypeOK, ClientTypeOK, CtlTypeOK
<1>2. /\ up /\ cpc[c] = "keyboard" /\ cpc' = [cpc EXCEPT ![c] = type]
      /\ c2s' = [c2s EXCEPT ![c] = Append(@, r)]
      /\ UNCHANGED <<exit, rpc, cur, req, state, backlog, s2c, cstate>>
  BY DEF Command, Step, serverFrame, procVars
<1>3. c2s[c] = <<>> /\ s2c[c] = <<>> /\ InHand(c) = 0
  BY <1>2, NothingInFlight DEF Gone, Waiting, RequestTypes
<1>4. c2s'[c] = <<r>> /\ Waiting(c)' /\ ~Gone(c) /\ ~Gone(c)' /\ r.type = type
  BY <1>1, <1>2, <1>3 DEF Waiting, Gone, RequestTypes, Request
<1>5. \A d \in Clients : d # c =>
        /\ Gone(d)' = Gone(d) /\ Waiting(d)' = Waiting(d) /\ cpc'[d] = cpc[d]
        /\ c2s'[d] = c2s[d]
  BY <1>1, <1>2 DEF Gone, Waiting
<1>6. LockStep'
  <2> SUFFICES ASSUME NEW d \in Clients, up, ~Gone(d)'
               PROVE  Len(c2s'[d]) + InHand(d) + Len(s2c[d]) = Expected(d)'
    BY <1>2 DEF LockStep, InFlight, InHand, up
  <2>1. CASE d = c
    <3>1. Len(c2s'[d]) = 1 /\ InHand(d) = 0 /\ Len(s2c[d]) = 0 /\ Expected(d)' = 1
      BY <1>3, <1>4, <2>1 DEF Expected
    <3> QED
      BY <3>1
  <2>2. CASE d # c
    BY <1>5, <2>2 DEF Synced, LockStep, InFlight, Expected
  <2> QED
    BY <2>1, <2>2
<1>7. EndsMeet'
  BY <1>2, <1>3, <1>4, <1>5 DEF Synced, EndsMeet, ServerSees, ClientSees, Changing, up
<1>8. RequestKept'
  BY <1>2, <1>3, <1>4, <1>5, <1>1 DEF Synced, RequestKept, InHand, up
<1>9. Unserved'
  <2>1. \A d \in Clients : /\ cpc'[d] = "off" <=> cpc[d] = "off"
                          /\ Gone(d)' = Gone(d)
                          /\ Fresh(d)' = Fresh(d)
    BY <1>1, <1>2, <1>4, <1>5 DEF Fresh, Gone, RequestTypes
  <2> QED
    BY <1>1, <1>2, <2>1 DEF Synced, Unserved
<1> QED
  BY <1>6, <1>7, <1>8, <1>9 DEF Synced

(* A client that has a reply and goes on: the reply was all there was.     *)
LEMMA SyncedReadReply ==
  ASSUME TypeInv, Synced, NEW c \in Clients, ReadReply(c)
  PROVE  Synced'
<1>1. /\ cpc \in [Clients -> {"off", "keyboard", "wake", "hello", "gone"} \union RequestTypes]
      /\ \A i \in 1..Len(backlog) : backlog[i] \in Clients
      /\ s2c \in [Clients -> Seq(Nat)] /\ cstate \in [Clients -> SessionStates]
  BY DEF TypeInv, SessionTypeOK, ClientTypeOK, CtlTypeOK
<1>2. /\ s2c[c] # <<>> /\ s2c' = [s2c EXCEPT ![c] = Tail(@)]
      /\ cstate' = [cstate EXCEPT ![c] = Effect(cpc[c], @)]
      /\ UNCHANGED <<exit, rpc, cur, req, state, backlog, c2s>>
  BY DEF ReadReply, serverFrame, procVars
<1>3. PICK to \in {"wake", "keyboard"} :
        cpc[c] \in {"SETUP", "PLAY"} /\ cpc' = [cpc EXCEPT ![c] = to]
  BY DEF ReadReply, Step
<1>4. /\ ~Gone(c) /\ ~Gone(c)' /\ ~Waiting(c)' /\ cpc'[c] # "off"
  BY <1>1, <1>3 DEF Gone, Waiting, RequestTypes
<1>5. up => /\ c2s[c] = <<>> /\ s2c'[c] = <<>> /\ InHand(c) = 0
            /\ cstate'[c] = Effect(cpc[c], cstate[c])
  BY <1>1, <1>2, <1>4, OnlyTheReply
<1>6. \A d \in Clients : d # c =>
        /\ Gone(d)' = Gone(d) /\ Waiting(d)' = Waiting(d) /\ cpc'[d] = cpc[d]
        /\ cstate'[d] = cstate[d] /\ s2c'[d] = s2c[d]
  BY <1>1, <1>2, <1>3 DEF Gone, Waiting
<1>7. LockStep'
  <2> SUFFICES ASSUME NEW d \in Clients, up, ~Gone(d)'
               PROVE  Len(c2s[d]) + InHand(d) + Len(s2c'[d]) = Expected(d)'
    BY <1>2 DEF LockStep, InFlight, InHand, up
  <2>1. CASE d = c
    <3>1. Len(c2s[d]) = 0 /\ InHand(d) = 0 /\ Len(s2c'[d]) = 0 /\ Expected(d)' = 0
      BY <1>4, <1>5, <2>1 DEF Expected
    <3> QED
      BY <3>1
  <2>2. CASE d # c
    BY <1>6, <2>2 DEF Synced, LockStep, InFlight, Expected
  <2> QED
    BY <2>1, <2>2
<1>8. EndsMeet'
  BY <1>2, <1>4, <1>5, <1>6 DEF Synced, EndsMeet, ServerSees, ClientSees, Changing, up
<1>9. RequestKept'
  BY <1>2, <1>5, <1>6 DEF Synced, RequestKept, InHand, up
<1>10. Unserved'
  <2>1. \A d \in Clients : cpc'[d] = "off" => d # cur /\ Fresh(d)'
    BY <1>4, <1>6 DEF Synced, Unserved, Fresh
  <2>2. \A i \in 1..Len(backlog) : backlog[i] # c
    BY <1>2, <1>4 DEF Synced, Unserved, Fresh
  <2> QED
    BY <1>1, <1>2, <1>6, <2>1, <2>2 DEF Synced, Unserved, Fresh, Gone
<1> QED
  BY <1>7, <1>8, <1>9, <1>10 DEF Synced

LEMMA SyncedDieSteps ==
  ASSUME TypeInv, Synced, DieSteps
  PROVE  Synced'
BY SyncedDie, DieStepsDie

(* The data path does not touch the control connection. *)
LEMMA SyncedDataPath ==
  ASSUME TypeInv, Synced,
         \/ CountAudioPort \/ VideoThread \/ DieSteps
         \/ \E t \in Threads : SetupThread(t)
         \/ \E c \in Clients : ReceiveVideo(c)
  PROVE  Synced'
<1>1. CASE DieSteps
  BY <1>1, SyncedDieSteps
<1>2. CASE CountAudioPort \/ \E c \in Clients : ReceiveVideo(c)
  <2>1. UNCHANGED syncVars
    BY <1>2 DEF CountAudioPort, ReceiveVideo, syncVars, serverFrame, procVars, ctlVars, clientVars
  <2> QED
    BY <2>1, SyncedFrame
<1>3. CASE EndOfVideo \/ AddFrame \/ SendTCP \/ SendUDP
  <2>1. UNCHANGED syncVars
    BY <1>3 DEF EndOfVideo, AddFrame, SendTCP, SendUDP, syncVars, videoFrame, procVars,
                ctlVars, clientVars
  <2> QED
    BY <2>1, SyncedFrame
<1>4. ASSUME NEW t \in Threads,
             \/ CreateSocket(t) \/ Bind(t) \/ Listen(t) \/ Block(t) \/ AcceptData(t)
             \/ ReadWelcome(t) \/ ReceiveWelcome(t)
      PROVE  Synced'
  <2>1. UNCHANGED syncVars
    BY <1>4 DEF CreateSocket, Bind, Listen, Block, AcceptData, ReadWelcome, ReceiveWelcome,
                syncVars, threadFrame, procVars, ctlVars, clientVars
  <2> QED
    BY <2>1, SyncedFrame
<1> QED
  BY <1>1, <1>2, <1>3, <1>4 DEF DieSteps, VideoThread, SetupThread

(* The steps of a client. *)
LEMMA SyncedClient ==
  ASSUME TypeInv, Synced, NEW c \in Clients,
         \/ Connect(c) \/ (\E type \in RequestTypes : Command(c, type))
         \/ ClientThread(c) \/ LoseServer(c) \/ KillClient(c)
  PROVE  Synced'
<1>1. CASE Connect(c)
  BY <1>1, SyncedConnect
<1>2. CASE \E type \in RequestTypes : Command(c, type)
  BY <1>2, SyncedCommand
<1>3. CASE ReadReply(c)
  BY <1>3, SyncedReadReply
<1>4. CASE OpenUDP(c) \/ OpenTCP(c) \/ Greet(c)
  <2>1. /\ cpc[c] \in {"wake", "hello"}
        /\ \E to \in {"keyboard", "hello"} : cpc' = [cpc EXCEPT ![c] = to]
        /\ UNCHANGED <<exit, rpc, cur, req, state, backlog, c2s, s2c, cstate>>
    BY <1>4 DEF OpenUDP, OpenTCP, Greet, Step, clientFrame, serverFrame, procVars
  <2> QED
    BY <2>1, SyncedMove
<1>5. CASE Quit(c) \/ ConnectRefused(c) \/ LoseServer(c) \/ KillClient(c)
  <2>1. cpc[c] # "off" /\ Leave(c)
    BY <1>5 DEF Quit, ConnectRefused, LoseServer, KillClient, Waiting, RequestTypes
  <2> QED
    BY <2>1, SyncedLeave
<1> QED
  BY <1>1, <1>2, <1>3, <1>4, <1>5 DEF ClientThread

LEMMA SyncedStep ==
  ASSUME TypeInv, Synced, [Next]_vars
  PROVE  Synced'
<1>1. CASE UNCHANGED vars
  <2>1. UNCHANGED syncVars
    BY <1>1 DEF vars, syncVars, procVars, ctlVars, clientVars
  <2> QED
    BY <2>1, SyncedFrame
<1>2. CASE Next
  BY <1>2, SyncedRtsp, SyncedDataPath, SyncedClient DEF Next, DieSteps
<1> QED
  BY <1>1, <1>2

LEMMA SyncedHolds == Spec => []Synced
<1>1. Synced /\ TypeInv /\ [Next]_vars => Synced'
  BY SyncedStep
<1> QED
  BY <1>1, SyncedInit, TypeInvHolds, PTL DEF Spec

(* Every client that the server can still hear has exactly one message in  *)
(* flight while it waits for a reply and none otherwise, for any number of *)
(* clients: no two requests or replies can share a recv.                   *)
THEOREM LockStepHolds == Spec => []LockStep
<1>1. Synced => LockStep
  BY DEF Synced
<1> QED
  BY <1>1, SyncedHolds, PTL

(* The session states of the two ends agree whenever both of them are      *)
(* idle, for any number of clients and sessions before.                    *)
THEOREM EndsAgree == Spec => []Agreement
<1>1. TypeInv /\ Synced => Agreement
  <2> SUFFICES ASSUME TypeInv, Synced, NEW c \in Clients, up, cur = c, rpc = "recv",
                      cpc[c] \in {"keyboard", "wake", "hello"}
               PROVE  state = cstate[c]
    BY DEF Agreement
  <2>1. ~Gone(c) /\ ~Waiting(c)
    BY DEF Gone, Waiting, RequestTypes
  <2>2. s2c[c] = <<>>
    BY <2>1, NothingInFlight
  <2> QED
    BY <2>1, <2>2 DEF Synced, EndsMeet, ServerSees, ClientSees, Changing
<1> QED
  BY <1>1, SyncedHolds, TypeInvHolds, PTL
=============================================================================
