------------------------ MODULE UnvSessionDataProofs ------------------------
(***************************************************************************)
(* Invariants of UnvSession about its data path, for any number of clients *)
(* and SETUPs: who holds a UDP port, and who is sent a frame without       *)
(* having asked for it.                                                    *)
(***************************************************************************)
EXTENDS UnvSessionProofs

(* A setup thread of a UDP server that is past bind has seen its port      *)
(* taken, and a port once taken stays so.                                  *)
PortHeld(p) == \E f \in Threads : bound[f] = p

Binders ==
  transport = "UDP" =>
    /\ \A t \in Threads : tpc[t] \notin {"listen", "welcome"}
    /\ \A t \in Threads : PastBind(t) => PortHeld(PortOf(t))
    /\ OneBinderPerPort

bindVars == <<transport, tpc, bound>>

USE NoClientAssumption, MaxSetupsAssumption DEF Ports, Bindings, Unbound, Ephemeral

LEMMA BindersInit == Init => Binders
BY DEF Init, Binders, PastBind, OneBinderPerPort

LEMMA BindersFrame ==
  ASSUME Binders, UNCHANGED bindVars
  PROVE  Binders'
BY DEF Binders, PastBind, PortHeld, OneBinderPerPort, bindVars

LEMMA BindersDie ==
  ASSUME NEW m \in Endings, Die(m)
  PROVE  Binders'
BY DEF Die, Binders, PastBind, OneBinderPerPort

(* Threads move as far as they had been past bind before, and no socket    *)
(* that is bound moves.                                                    *)
LEMMA BindersKept ==
  ASSUME Binders, transport' = transport,
         transport = "UDP" => \A t \in Threads :
           /\ tpc'[t] \notin {"listen", "welcome"}
           /\ PastBind(t)' => PastBind(t)
           /\ bound[t] \in Ports => bound'[t] = bound[t]
  PROVE  Binders'
<1> SUFFICES ASSUME transport = "UDP" PROVE Binders'
  BY DEF Binders
<1>1. \A t \in Threads : (PastBind(t) => PortHeld(PortOf(t)))'
  <2> SUFFICES ASSUME NEW t \in Threads, PastBind(t)' PROVE PortHeld(PortOf(t))'
    BY DEF PortOf
  <2>1. PICK f \in Threads : bound[f] = PortOf(t)
    BY DEF Binders, PortHeld, PastBind, PortOf
  <2>2. bound'[f] = PortOf(t)
    BY <2>1, ThreadPorts
  <2> QED
    BY <2>2 DEF PortHeld, PortOf
<1>2. OneBinderPerPort'
  BY DEF Binders, OneBinderPerPort, PortOf, PastBind
<1>3. \A t \in Threads : tpc'[t] \notin {"listen", "welcome"}
  OBVIOUS
<1> QED
  BY <1>1, <1>2, <1>3 DEF Binders

LEMMA BindersBind ==
  ASSUME TypeInv, Binders, transport' = transport, NEW t \in Threads, Bind(t)
  PROVE  Binders'
<1> SUFFICES ASSUME transport = "UDP" PROVE Binders'
  BY DEF Binders
<1> DEFINE f == SlotOf(t)
           p == PortOf(t)
<1>1. /\ f \in Threads /\ p \in Ports /\ tpc[t] = "bind"
      /\ tpc' = [tpc EXCEPT ![t] = "block"] /\ bound' = [bound EXCEPT ![f] = p]
      /\ bound[f] = Unbound /\ ~PortTaken(f, p)
      /\ tpc \in [Threads -> {"unborn", "socket", "bind", "listen", "block", "wait",
                              "welcome", "done"}]
      /\ bound \in [Threads -> Bindings]
  BY ThreadPorts DEF TypeInv, ThreadOK, SessionTypeOK, ThreadTypeOK, Bind, ThreadStep, AfterBind,
                     CanBind, SlotOf
<1>2. ~PortHeld(p)
  BY <1>1 DEF PortTaken, PortHeld
<1>3. \A u \in Threads : PastBind(u) => PortOf(u) # p
  BY <1>2 DEF Binders
<1>4. \A u \in Threads : u # t => (PastBind(u)' <=> PastBind(u))
  BY <1>1 DEF PastBind
<1>5. \A u \in Threads : (PastBind(u) => PortHeld(PortOf(u)))'
  <2> SUFFICES ASSUME NEW u \in Threads, PastBind(u)' PROVE \E g \in Threads : bound'[g] = PortOf(u)
    BY DEF PortHeld, PortOf
  <2>1. CASE u = t
    BY <1>1, <2>1
  <2>2. CASE u # t
    <3>1. PICK g \in Threads : bound[g] = PortOf(u)
      BY <1>4, <2>2 DEF Binders, PortHeld
    <3>2. g # f
      BY <1>1, <3>1, ThreadPorts
    <3> QED
      BY <1>1, <3>1, <3>2
  <2> QED
    BY <2>1, <2>2
<1>6. OneBinderPerPort'
  BY <1>3, <1>4 DEF Binders, OneBinderPerPort, PortOf
<1>7. \A u \in Threads : tpc'[u] \notin {"listen", "welcome"}
  BY <1>1 DEF Binders
<1> QED
  BY <1>5, <1>6, <1>7 DEF Binders

LEMMA BindersSetup ==
  ASSUME TypeInv, Binders, transport' = transport, NEW t \in Threads, SetupThread(t)
  PROVE  Binders'
<1>0. /\ tpc \in [Threads -> {"unborn", "socket", "bind", "listen", "block", "wait",
                              "welcome", "done"}]
      /\ bound \in [Threads -> Bindings]
      /\ tpc[t] \notin {"unborn", "socket"} => SlotOf(t) \in Threads
  BY DEF TypeInv, ThreadOK, SessionTypeOK, ThreadTypeOK, SlotOf
<1>1. CASE BindFails(t) \/ AcceptFails(t) \/ ReadWelcomeFails(t)
  BY <1>1, BindersDie DEF BindFails, AcceptFails, ReadWelcomeFails, Endings
<1>2. CASE Bind(t)
  BY <1>2, BindersBind
<1>3. CASE CreateSocket(t)
  <2>1. /\ bound' = bound /\ tpc' = [tpc EXCEPT ![t] = "bind"]
    BY <1>3 DEF CreateSocket, ThreadStep, netVars
  <2>2. transport = "UDP" => \A u \in Threads :
          /\ tpc'[u] \notin {"listen", "welcome"}
          /\ PastBind(u)' => PastBind(u)
          /\ bound[u] \in Ports => bound'[u] = bound[u]
    BY <1>0, <2>1 DEF Binders, PastBind
  <2> QED
    BY <2>2, BindersKept
<1>4. CASE Listen(t)
  <2>1. tpc[t] = "listen"
    BY <1>4 DEF Listen, ThreadStep
  <2> QED
    BY <2>1 DEF Binders
<1>5. CASE AcceptData(t) \/ ReadWelcome(t)
  <2>1. transport = "TCP" \/ tpc[t] = "welcome"
    BY <1>5 DEF AcceptData, ReadWelcome, ThreadStep
  <2> QED
    BY <2>1 DEF Binders
<1>6. CASE Block(t) \/ ReceiveWelcome(t)
  <2>1. /\ bound' = bound
        /\ \/ tpc[t] = "block" /\ tpc' = [tpc EXCEPT ![t] = "wait"]
           \/ tpc[t] = "wait" /\ tpc' = [tpc EXCEPT ![t] = "done"]
    BY <1>6 DEF Block, ReceiveWelcome, ThreadStep, netVars
  <2>2. transport = "UDP" => \A u \in Threads :
          /\ tpc'[u] \notin {"listen", "welcome"}
          /\ PastBind(u)' => PastBind(u)
          /\ bound[u] \in Ports => bound'[u] = bound[u]
    BY <1>0, <2>1 DEF Binders, PastBind
  <2> QED
    BY <2>2, BindersKept
<1> QED
  BY <1>1, <1>2, <1>3, <1>4, <1>5, <1>6 DEF SetupThread

LEMMA BindersRtsp ==
  ASSUME TypeInv, Binders, transport' = transport, RtspThread
  PROVE  Binders'
<1>0. tpc \in [Threads -> {"unborn", "socket", "bind", "listen", "block", "wait",
                          "welcome", "done"}]
  BY DEF TypeInv, SessionTypeOK, ThreadTypeOK
<1>1. CASE SpawnSetup
  <2>1. bound' = bound /\ \A t \in Threads : tpc'[t] \in {"socket", tpc[t]}
    BY <1>1 DEF SpawnSetup, netVars
  <2>2. transport = "UDP" => \A u \in Threads :
          /\ tpc'[u] \notin {"listen", "welcome"}
          /\ PastBind(u)' => PastBind(u)
          /\ bound[u] \in Ports => bound'[u] = bound[u]
    BY <2>1 DEF Binders, PastBind
  <2> QED
    BY <2>2, BindersKept
<1>2. CASE ~SpawnSetup
  <2>1. UNCHANGED bindVars
    BY <1>2 DEF RtspThread, StartRtsp, AcceptClient, ReceiveRequest, Respond, RespondFails,
                ClientLeft, SetReady, ApplyPlay, ApplyTeardown, bindVars, threadVars, netVars
  <2> QED
    BY <2>1, BindersFrame
<1> QED
  BY <1>1, <1>2

LEMMA BindersVideo ==
  ASSUME TypeInv, Binders, transport' = transport, VideoThread
  PROVE  Binders'
<1>1. CASE SendTCPBroken \/ SendUDPFails
  BY <1>1, BindersDie DEF SendTCPBroken, SendUDPFails, Endings
<1>2. CASE EndOfVideo \/ AddFrame \/ SendTCP
  <2>1. UNCHANGED bindVars
    BY <1>2 DEF EndOfVideo, AddFrame, SendTCP, videoFrame, threadVars, bindVars
  <2> QED
    BY <2>1, BindersFrame
<1>3. CASE SendUDP
  <2>1. /\ tpc' = tpc /\ bound' = Autobind(iUDP_Sock[VideoPort])
        /\ bound \in [Threads -> Bindings]
    BY <1>3 DEF SendUDP, videoFrame, threadVars, TypeInv, SessionTypeOK, ThreadTypeOK
  <2>2. transport = "UDP" => \A u \in Threads :
          /\ tpc'[u] \notin {"listen", "welcome"}
          /\ PastBind(u)' => PastBind(u)
          /\ bound[u] \in Ports => bound'[u] = bound[u]
    BY <2>1 DEF Binders, PastBind, Autobind
  <2> QED
    BY <2>2, BindersKept
<1> QED
  BY <1>1, <1>2, <1>3 DEF VideoThread

LEMMA BindersStep == TypeInv /\ Binders /\ [Next]_vars => Binders'
<1> SUFFICES ASSUME TypeInv, Binders, [Next]_vars PROVE Binders'
  OBVIOUS
<1>1. transport' = transport
  BY DEF Next, vars
<1>2. CASE DieSteps
  BY <1>2, BindersDie, DieStepsDie
<1>3. CASE CountAudioPort \/ UNCHANGED vars
  <2>1. UNCHANGED bindVars
    BY <1>1, <1>3 DEF CountAudioPort, vars, threadVars, netVars, bindVars
  <2> QED
    BY <2>1, BindersFrame
<1>4. ASSUME NEW c \in Clients,
             \/ Connect(c) \/ (\E type \in RequestTypes : Command(c, type))
             \/ ClientThread(c) \/ ReceiveVideo(c) \/ LoseServer(c) \/ KillClient(c)
      PROVE  Binders'
  <2>1. UNCHANGED <<tpc, bound>>
    BY <1>4 DEF Connect, Command, ClientThread, ReadReply, Quit, OpenUDP, OpenTCP,
                ConnectRefused, Greet, ReceiveVideo, LoseServer, KillClient, Leave,
                clientFrame, serverFrame, threadVars
  <2> QED
    BY <1>1, <2>1, BindersFrame DEF bindVars
<1> QED
  BY <1>1, <1>2, <1>3, <1>4, BindersRtsp, BindersSetup, BindersVideo DEF Next, DieSteps

(* Of the setup threads that SETUPs spawn for one UDP port, however many,  *)
(* at most one gets past bind while the server lives.                      *)
THEOREM OneBinderHolds == Spec => []OneBinderPerPort
<1>1. Binders => OneBinderPerPort
  BY DEF Binders, OneBinderPerPort
<1> QED
  BY <1>1, BindersInit, BindersStep, TypeInvHolds, PTL DEF Spec

-----------------------------------------------------------------------------
(* Either transport's threads leave the variables of the other alone *)

transportVars == <<transport, listening, acc, peer>>

LEMMA TransportKept == TransportOK /\ UNCHANGED transportVars => TransportOK'
BY DEF TransportOK, transportVars

LEMMA TransportSetup ==
  ASSUME TypeInv, Binders, TransportOK, transport' = transport,
         NEW t \in Threads, SetupThread(t), ~DieSteps
  PROVE  TransportOK'
<1>1. CASE CreateSocket(t) \/ Bind(t) \/ Block(t) \/ ReadWelcome(t)
  BY <1>1, TransportKept DEF CreateSocket, Bind, Block, ReadWelcome, netVars, transportVars
<1>2. CASE Listen(t)
  BY <1>2 DEF Listen, ThreadStep, Binders, TransportOK
<1>3. CASE AcceptData(t)
  BY <1>3 DEF AcceptData, TransportOK
<1>4. CASE ReceiveWelcome(t)
  BY <1>4 DEF ReceiveWelcome, TransportOK
<1> QED
  BY <1>1, <1>2, <1>3, <1>4 DEF SetupThread, DieSteps

LEMMA TransportStep == TypeInv /\ Binders /\ TransportOK /\ [Next]_vars => TransportOK'
<1> SUFFICES ASSUME TypeInv, Binders, TransportOK, [Next]_vars PROVE TransportOK'
  OBVIOUS
<1>1. transport' = transport
  BY DEF Next, vars
<1>2. CASE DieSteps
  BY <1>2, DieStepsDie DEF Die, TransportOK
<1>3. CASE UNCHANGED vars \/ CountAudioPort
  BY <1>1, <1>3, TransportKept DEF vars, CountAudioPort, threadVars, netVars, transportVars
<1>4. CASE RtspThread
  BY <1>1, <1>4, TransportKept
     DEF RtspThread, StartRtsp, AcceptClient, ReceiveRequest, Respond, RespondFails, ClientLeft,
         SpawnSetup, SetReady, ApplyPlay, ApplyTeardown, threadVars, netVars, transportVars
<1>5. ASSUME NEW t \in Threads, SetupThread(t), ~DieSteps
      PROVE  TransportOK'
  BY <1>1, <1>5, TransportSetup
<1>6. CASE VideoThread /\ ~DieSteps
  BY <1>1, <1>6, TransportKept DEF VideoThread, DieSteps, EndOfVideo, AddFrame, SendTCP, SendUDP,
                                   videoFrame, threadVars, transportVars
<1>7. ASSUME NEW c \in Clients,
             \/ Connect(c) \/ (\E type \in RequestTypes : Command(c, type))
             \/ ClientThread(c) \/ ReceiveVideo(c) \/ LoseServer(c) \/ KillClient(c)
      PROVE  TransportOK'
  <2>1. UNCHANGED <<listening, acc, peer>>
    BY <1>7 DEF Connect, Command, ClientThread, ReadReply, Quit, OpenUDP, OpenTCP,
                ConnectRefused, Greet, ReceiveVideo, LoseServer, KillClient, Leave,
                clientFrame, serverFrame, threadVars
  <2> QED
    BY <1>1, <2>1, TransportKept DEF transportVars
<1> QED
  BY <1>2, <1>3, <1>4, <1>5, <1>6, <1>7 DEF Next, DieSteps

(* For any clients, number of SETUPs and ports: the variables keep their   *)
(* types, and a datagram server never listens or accepts on a data port,   *)
(* nor does a stream server learn an address.                              *)
THEOREM TypeCorrect == Spec => []TypeOK
<1>1. Init => transport \in Transports /\ TransportOK
  BY DEF Init, TransportOK
<1>2. transport \in Transports /\ [Next]_vars => (transport \in Transports)'
  BY DEF Next, vars
<1>3. TypeInv /\ transport \in Transports /\ TransportOK => TypeOK
  BY DEF TypeInv, TypeOK
<1> QED
  BY <1>1, <1>2, <1>3, BindersInit, BindersStep, TransportStep, TypeInvHolds, PTL DEF Spec

-----------------------------------------------------------------------------
(* Stray frames *)

(* A client that the server can know of: its connection or its datagram    *)
(* waits or has been taken, its SETUP has been answered, or it has had a   *)
(* frame.                                                                  *)
Known(c) ==
  \/ acc = c \/ (\E p \in Ports : peer[p] = c)
  \/ (\E f \in Threads : \E i \in 1..Len(pending[f]) : pending[f][i] = c)
  \/ s2c[c] # <<>> \/ cpc[c] \in {"wake", "hello"}
  \/ uninvited[c] > 0

(* While such a client is there, it is the one that is served; as long as  *)
(* no PLAY of its own is carried out, no test of iRTSP_State passes, and a *)
(* test that had passed before it came is used up by the first frame.      *)
Invited ==
  /\ up => \A c \in Clients :
       /\ ~Gone(c) /\ Known(c) => cur = c
       /\ cur = c /\ c \notin played => state # "PLAYING"
       /\ ~Gone(c) /\ uninvited[c] > 0 /\ c \notin played => vpc # "send"
  /\ \A c \in Clients : uninvited[c] <= 1
  /\ played = {} => vpc # "send" /\ state # "PLAYING" /\ \A c \in Clients : uninvited[c] = 0

LEMMA InvitedInit == Init => Invited
<1> SUFFICES ASSUME Init PROVE Invited
  OBVIOUS
<1>1. \A c \in Clients : ~Known(c)
  BY DEF Init, Known
<1>2. \A c \in Clients : uninvited[c] = 0 /\ state = "INIT" /\ vpc = "next"
  BY DEF Init
<1> QED
  BY <1>1, <1>2 DEF Invited, Init

LEMMA InvitedDie ==
  ASSUME Invited, NEW m \in Endings, Die(m)
  PROVE  Invited'
<1>1. ~up' /\ vpc' = "ended" /\ state' = "INIT" /\ UNCHANGED <<played, uninvited>>
  BY DEF Die, up, Endings
<1> QED
  BY <1>1 DEF Invited

(* Steps in which nobody new becomes known, and the server neither turns   *)
(* to another client nor moves its session to PLAYING without a PLAY.      *)
LEMMA InvitedKept ==
  ASSUME TypeInv, Invited, UNCHANGED <<exit, uninvited>>,
         \A c \in Clients : up /\ Known(c)' /\ ~Gone(c)' => cur = c \/ (Known(c) /\ ~Gone(c)),
         \A c \in Clients : up /\ cur = c /\ ~Gone(c)' => cur' = c,
         \A c \in Clients : ~Gone(c)' => ~Gone(c),
         played \subseteq played',
         state' = "PLAYING" =>
           cur' \in played' \/ (state = "PLAYING" /\ cur' \in {cur, NoClient}),
         vpc' = "send" => vpc = "send"
  PROVE  Invited'
<1>1. \A c \in Clients : up /\ Known(c)' /\ ~Gone(c)' => cur' = c
  BY DEF Invited
<1>2. up' = up
  BY DEF up
<1>3. \A c \in Clients : (cur = c /\ c \notin played => state # "PLAYING")' \/ ~up
  BY DEF Invited
<1>4. \A c \in Clients : (~Gone(c) /\ uninvited[c] > 0 /\ c \notin played => vpc # "send")' \/ ~up
  BY DEF Invited
<1>5. played' = {} => vpc' # "send" /\ state' # "PLAYING" /\ \A c \in Clients : uninvited'[c] = 0
  BY DEF Invited
<1> QED
  BY <1>1, <1>2, <1>3, <1>4, <1>5 DEF Invited

LEMMA InvitedRtsp ==
  ASSUME TypeInv, Synced, Invited, RtspThread
  PROVE  Invited'
<1> USE DEF Known, Gone, threadVars, netVars, ctlVars, clientVars
<1>0. /\ s2c \in [Clients -> Seq(Nat)] /\ seq + 1 \in Nat
      /\ rpc \in {"respond", "apply", "ready"} => cur \in Clients
      /\ rpc = "accept" => cur = NoClient
      /\ rpc = "ready" => req.type = "SETUP"
  BY DEF TypeInv, SessionTypeOK, CtlTypeOK, ProcTypeOK, RtspOK, Synced, RequestKept
<1>1. CASE StartRtsp
  BY <1>1, InvitedKept DEF StartRtsp
<1>2. CASE AcceptClient
  <2>1. state' = "INIT" /\ cur = NoClient
    BY <1>0, <1>2 DEF AcceptClient, SessionAtAccept
  <2> QED
    BY <1>2, <2>1, InvitedKept DEF AcceptClient
<1>3. CASE ReceiveRequest
  BY <1>3, InvitedKept DEF ReceiveRequest
<1>4. CASE Respond
  <2>1. \A c \in Clients : c # cur => s2c'[c] = s2c[c]
    BY <1>0, <1>4 DEF Respond, Reply
  <2> QED
    BY <1>4, <2>1, InvitedKept DEF Respond
<1>5. CASE RespondFails
  BY <1>5, InvitedKept DEF RespondFails
<1>6. CASE ClientLeft
  BY <1>6, InvitedKept DEF ClientLeft
<1>7. CASE SpawnSetup
  BY <1>7, InvitedKept DEF SpawnSetup
<1>8. CASE SetReady
  <2>1. state' = "READY"
    BY <1>0, <1>8 DEF SetReady, Outcome, Effect
  <2> QED
    BY <1>8, <2>1, InvitedKept DEF SetReady
<1>9. CASE ApplyPlay
  BY <1>9, InvitedKept DEF ApplyPlay
<1>10. CASE ApplyTeardown
  <2>1. state' = state
    BY <1>10 DEF ApplyTeardown, Outcome, Effect
  <2> QED
    BY <1>10, <2>1, InvitedKept DEF ApplyTeardown
<1> QED
  BY <1>1, <1>2, <1>3, <1>4, <1>5, <1>6, <1>7, <1>8, <1>9, <1>10 DEF RtspThread

LEMMA InvitedSetup ==
  ASSUME TypeInv, Invited, NEW t \in Threads, SetupThread(t)
  PROVE  Invited'
<1> USE DEF Gone
<1>1. CASE BindFails(t) \/ AcceptFails(t) \/ ReadWelcomeFails(t)
  BY <1>1, InvitedDie DEF BindFails, AcceptFails, ReadWelcomeFails, Endings
<1>2. CASE CreateSocket(t) \/ Bind(t) \/ Listen(t) \/ Block(t) \/ ReadWelcome(t)
  <2>1. UNCHANGED <<procVars, vpc, s2c, uninvited, played, cpc, acc, peer, pending>>
    BY <1>2 DEF CreateSocket, Bind, Listen, Block, ReadWelcome, threadFrame, netVars,
                ctlVars, clientVars
  <2> QED
    BY <2>1, InvitedKept DEF procVars, Known
<1>3. CASE AcceptData(t) \/ ReceiveWelcome(t)
  <2> DEFINE f == tfd[t]
             q == pending[f]
  <2>1. /\ f \in Threads /\ q \in Seq(Clients) /\ q # <<>> /\ tpc[t] = "wait"
        /\ pending \in [Threads -> Seq(Clients)]
        /\ peer \in [Ports -> Clients \union {NoClient}]
    BY <1>3 DEF AcceptData, ReceiveWelcome, ThreadStep, TypeInv, ThreadOK, SessionTypeOK,
                ThreadTypeOK
  <2>2. /\ UNCHANGED <<procVars, vpc, s2c, uninvited, played, cpc>>
        /\ pending' = [pending EXCEPT ![f] = Tail(q)]
        /\ acc' \in {acc, Head(q)}
        /\ \A p \in Ports : peer'[p] \in {peer[p], Head(q)}
    BY <1>3, <2>1 DEF AcceptData, ReceiveWelcome, threadFrame, ctlVars, clientVars
  <2>3. /\ Head(q) = q[1] /\ 1 \in 1..Len(q) /\ Len(q) \in Nat
        /\ \A i \in 1..Len(Tail(q)) : Tail(q)[i] = q[i + 1] /\ i + 1 \in 1..Len(q)
    BY <2>1
  <2>4. \A c \in Clients : (\E g \in Threads : \E i \in 1..Len(pending'[g]) : pending'[g][i] = c)
                             => \E g \in Threads : \E i \in 1..Len(pending[g]) : pending[g][i] = c
    <3> SUFFICES ASSUME NEW c \in Clients, NEW g \in Threads, NEW i \in 1..Len(pending'[g]),
                        pending'[g][i] = c
                 PROVE  \E h \in Threads : \E j \in 1..Len(pending[h]) : pending[h][j] = c
      OBVIOUS
    <3>1. CASE g = f
      <4>1. pending'[g] = Tail(q)
        BY <2>1, <2>2, <3>1
      <4>2. q[i + 1] = c /\ i + 1 \in 1..Len(q)
        BY <2>3, <4>1
      <4> QED
        BY <2>1, <4>2
    <3>2. CASE g # f
      BY <2>1, <2>2, <3>2
    <3> QED
      BY <3>1, <3>2
  <2>5. \A c \in Clients : Known(c)' => Known(c)
    BY <2>1, <2>2, <2>3, <2>4 DEF Known
  <2> QED
    BY <2>2, <2>5, InvitedKept DEF procVars
<1> QED
  BY <1>1, <1>2, <1>3 DEF SetupThread

(* A frame goes to a client that is known, and so is the one served.       *)
LEMMA InvitedEmit ==
  ASSUME TypeInv, Invited, up, vpc = "send", vpc' = "next",
         NEW receivers \in SUBSET Clients, Emit(receivers),
         \A c \in receivers : ~Gone(c) /\ Known(c),
         UNCHANGED <<procVars, acc, peer, pending, s2c, cpc, played>>
  PROVE  Invited'
<1>1. \A c \in receivers : cur = c
  BY DEF Invited
<1>2. \A c \in Clients : uninvited[c] \in Nat /\ uninvited[c] <= 1
  BY DEF Invited, TypeInv, SessionTypeOK, ClientTypeOK
<1>3. \A c \in Clients : uninvited'[c] =
        IF c \in receivers \ played THEN uninvited[c] + 1 ELSE uninvited[c]
  BY <1>2 DEF Emit
<1>4. \A c \in receivers : c \notin played => uninvited[c] = 0
  BY <1>2 DEF Invited
<1>5. \A c \in Clients : uninvited'[c] <= 1
  BY <1>2, <1>3, <1>4
<1>6. \A c \in Clients : Known(c)' => Known(c) \/ c \in receivers
  BY <1>3 DEF Known
<1>7. \A c \in Clients : (~Gone(c) /\ Known(c) => cur = c)'
  BY <1>1, <1>6 DEF Invited, Gone, procVars
<1>8. played # {}
  BY DEF Invited
<1> QED
  BY <1>5, <1>7, <1>8 DEF Invited, procVars, up

LEMMA InvitedVideo ==
  ASSUME TypeInv, Invited, VideoThread
  PROVE  Invited'
<1> USE DEF videoFrame, procVars, threadVars, ctlVars, clientVars
<1>1. CASE SendTCPBroken \/ SendUDPFails
  BY <1>1, InvitedDie DEF SendTCPBroken, SendUDPFails, Endings
<1>2. CASE EndOfVideo
  BY <1>2, InvitedKept DEF EndOfVideo, Known, Gone
<1>3. CASE AddFrame
  <2>1. /\ up /\ state = "PLAYING" /\ UNCHANGED <<exit, rpc, cur, state, acc, peer, pending, s2c,
                                                cpc, played, uninvited>>
    BY <1>3 DEF AddFrame, MaySend
  <2>2. \A c \in Clients : (~Gone(c) /\ Known(c) => cur = c)'
    BY <2>1 DEF Invited, Known, Gone
  <2>3. \A c \in Clients : cur = c => c \in played
    BY <2>1 DEF Invited
  <2>4. \A c \in Clients : ~Gone(c) /\ uninvited[c] > 0 => c \in played
    BY <2>1, <2>3 DEF Invited, Known
  <2> QED
    BY <2>1, <2>2, <2>3, <2>4 DEF Invited, up, Gone
<1>4. CASE SendTCP
  <2> DEFINE receivers == {c \in Clients : c = acc /\ ~Gone(c)}
  <2>1. /\ up /\ vpc = "send" /\ vpc' = "next" /\ Emit(receivers)
        /\ \A c \in receivers : ~Gone(c) /\ Known(c)
        /\ UNCHANGED <<procVars, acc, peer, pending, s2c, cpc, played>>
    BY <1>4 DEF SendTCP, Known
  <2> QED
    BY <2>1, InvitedEmit
<1>5. CASE SendUDP
  <2>1. PICK receivers \in {{c \in Clients : c = peer[VideoPort] /\ ~Gone(c)}, {}} :
          Emit(receivers)
    BY <1>5 DEF SendUDP
  <2>2. /\ up /\ vpc = "send" /\ vpc' = "next"
        /\ \A c \in receivers : ~Gone(c) /\ Known(c)
        /\ UNCHANGED <<procVars, acc, peer, pending, s2c, cpc, played>>
    BY <1>5, <2>1 DEF SendUDP, Known, VideoPort
  <2> QED
    BY <2>1, <2>2, InvitedEmit
<1> QED
  BY <1>1, <1>2, <1>3, <1>4, <1>5 DEF VideoThread

LEMMA InvitedLeave ==
  ASSUME TypeInv, Invited, NEW c \in Clients, Leave(c)
  PROVE  Invited'
<1>1. /\ cpc \in [Clients -> {"off", "keyboard", "wake", "hello", "gone"} \union RequestTypes]
      /\ s2c \in [Clients -> Seq(Nat)]
  BY DEF TypeInv, SessionTypeOK, ClientTypeOK, CtlTypeOK
<1>2. /\ UNCHANGED <<procVars, acc, peer, vpc, pending, played, uninvited>>
      /\ cpc' = [cpc EXCEPT ![c] = "gone"] /\ s2c' = [s2c EXCEPT ![c] = <<>>]
  BY DEF Leave, serverFrame, threadVars
<1>3. \A d \in Clients : ~Gone(d)' => d # c /\ ~Gone(d) /\ (Known(d)' => Known(d))
  BY <1>1, <1>2 DEF Gone, Known
<1> QED
  BY <1>2, <1>3, InvitedKept DEF procVars

LEMMA InvitedClient ==
  ASSUME TypeInv, Invited, NEW c \in Clients,
         \/ Connect(c) \/ (\E type \in RequestTypes : Command(c, type))
         \/ ClientThread(c) \/ ReceiveVideo(c) \/ LoseServer(c) \/ KillClient(c)
  PROVE  Invited'
<1>0. /\ cpc \in [Clients -> {"off", "keyboard", "wake", "hello", "gone"} \union RequestTypes]
      /\ s2c \in [Clients -> Seq(Nat)] /\ pending \in [Threads -> Seq(Clients)]
  BY DEF TypeInv, SessionTypeOK, ClientTypeOK, CtlTypeOK, ThreadTypeOK
<1> USE DEF serverFrame, clientFrame, threadVars, ctlVars, clientVars, Step
<1>1. CASE Connect(c) \/ (\E type \in RequestTypes : Command(c, type))
  <2>1. /\ UNCHANGED <<procVars, acc, peer, vpc, pending, s2c, played, uninvited>>
        /\ \E to \in {"keyboard"} \union RequestTypes : cpc' = [cpc EXCEPT ![c] = to]
        /\ cpc[c] \in {"off", "keyboard"}
    BY <1>1 DEF Connect, Command
  <2>2. \A d \in Clients : ~Gone(d)' => ~Gone(d) /\ (Known(d)' => Known(d))
    BY <1>0, <2>1 DEF Gone, Known, RequestTypes
  <2> QED
    BY <2>1, <2>2, InvitedKept DEF procVars
<1>2. CASE ReadReply(c)
  <2>1. /\ UNCHANGED <<procVars, acc, peer, vpc, pending, played, uninvited>>
        /\ \E to \in {"keyboard", "wake"} : cpc' = [cpc EXCEPT ![c] = to]
        /\ cpc[c] \in RequestTypes /\ s2c[c] # <<>> /\ s2c' = [s2c EXCEPT ![c] = Tail(@)]
    BY <1>2 DEF ReadReply, RequestTypes
  <2>2. \A d \in Clients : ~Gone(d)' => ~Gone(d) /\ (Known(d)' => Known(d))
    BY <1>0, <2>1 DEF Gone, Known, RequestTypes
  <2> QED
    BY <2>1, <2>2, InvitedKept DEF procVars
<1>3. CASE OpenUDP(c) \/ OpenTCP(c) \/ Greet(c)
  <2>1. /\ UNCHANGED <<procVars, acc, peer, vpc, s2c, played, uninvited>>
        /\ \E to \in {"keyboard", "hello"} : cpc' = [cpc EXCEPT ![c] = to]
        /\ cpc[c] \in {"wake", "hello"}
        /\ \/ pending' = pending
           \/ \E f \in Threads : pending' = [pending EXCEPT ![f] = Append(@, c)]
    BY <1>3 DEF OpenUDP, OpenTCP, Greet, Reachable
  <2>2. \A d \in Clients : ~Gone(d)' => ~Gone(d)
    BY <1>0, <2>1 DEF Gone
  <2>3. Known(c)
    BY <2>1 DEF Known
  <2>4. ASSUME NEW d \in Clients, d # c, Known(d)'
        PROVE  Known(d)
    <3>1. CASE pending' = pending
      BY <1>0, <2>1, <2>4, <3>1 DEF Known
    <3>2. ASSUME NEW f \in Threads, pending' = [pending EXCEPT ![f] = Append(@, c)]
          PROVE  Known(d)
      <4>1. ASSUME NEW g \in Threads, NEW i \in 1..Len(pending'[g]), pending'[g][i] = d
            PROVE  i \in 1..Len(pending[g]) /\ pending[g][i] = d
        BY <1>0, <2>4, <3>2, <4>1
      <4> QED
        BY <1>0, <2>1, <2>4, <4>1 DEF Known
    <3> QED
      BY <2>1, <3>1, <3>2
  <2> QED
    BY <2>1, <2>2, <2>3, <2>4, InvitedKept DEF procVars
<1>4. CASE ReceiveVideo(c)
  BY <1>4, InvitedKept DEF ReceiveVideo, procVars, Known, Gone
<1>5. CASE Quit(c) \/ ConnectRefused(c) \/ LoseServer(c) \/ KillClient(c)
  BY <1>5, InvitedLeave DEF Quit, ConnectRefused, LoseServer, KillClient
<1> QED
  BY <1>1, <1>2, <1>3, <1>4, <1>5 DEF ClientThread

LEMMA InvitedStep == TypeInv /\ Synced /\ Invited /\ [Next]_vars => Invited'
<1> SUFFICES ASSUME TypeInv, Synced, Invited, [Next]_vars PROVE Invited'
  OBVIOUS
<1>1. CASE DieSteps
  BY <1>1, InvitedDie, DieStepsDie
<1>2. CASE CountAudioPort
  BY <1>2, InvitedKept DEF CountAudioPort, threadVars, netVars, ctlVars, clientVars, Known, Gone
<1>3. CASE UNCHANGED vars
  BY <1>3, InvitedKept DEF vars, procVars, threadVars, netVars, ctlVars, clientVars, Known, Gone
<1> QED
  BY <1>1, <1>2, <1>3, InvitedRtsp, InvitedSetup, InvitedVideo, InvitedClient DEF Next, DieSteps

(* For any number of clients and sessions: nobody is sent video before the *)
(* first PLAY, and a client without a PLAY of its own is sent one frame at *)
(* the most, which was tested for under an earlier session.                *)
THEOREM OneStrayFrame == Spec => []AtMostOneStrayFrame
<1>1. TypeInv /\ Invited => AtMostOneStrayFrame
  BY DEF TypeInv, SessionTypeOK, ClientTypeOK, Invited, AtMostOneStrayFrame
<1> QED
  BY <1>1, InvitedInit, InvitedStep, TypeInvHolds, SyncedHolds, PTL DEF Spec

-----------------------------------------------------------------------------
(* A server with a single SETUP *)

Within(t, places) == tpc[t] \in places

(* As long as there has been one SETUP at most, every setup thread has the *)
(* slot of iUDP_Sock to itself, its socket is where the thread has brought *)
(* it, and the address of a client is there only once its thread is done.  *)
Sole ==
  up /\ nsetup <= 1 =>
    /\ \A t \in Threads :
         /\ ~Within(t, {"unborn"}) => t[1] = 1 /\ nsetup = 1
         /\ ~Within(t, {"unborn", "socket"}) => SlotOf(t) = t
         /\ bound[t] = IF Within(t, {"unborn", "socket", "bind"}) THEN Unbound ELSE PortOf(t)
         /\ transport = "TCP" /\ Within(t, {"block", "wait", "welcome", "done"}) => t \in listening
    /\ \A p \in Ports : peer[p] # NoClient => \E t \in Threads : PortOf(t) = p /\ Within(t, {"done"})

soleVars == <<transport, exit, nsetup, tpc, iUDP_Sock, bound, listening, peer>>

LEMMA SameThread ==
  ASSUME NEW t \in Threads, NEW u \in Threads, t[1] = u[1], PortOf(t) = PortOf(u)
  PROVE  t = u
BY DEF Threads, PortOf

LEMMA SoleInit == Init => Sole
BY DEF Init, Sole, Within

LEMMA SoleFrame ==
  ASSUME Sole, UNCHANGED soleVars
  PROVE  Sole'
BY DEF Sole, soleVars, up, Within, SlotOf

LEMMA SoleDie ==
  ASSUME NEW m \in Endings, Die(m)
  PROVE  Sole'
BY DEF Sole, Die, up, Endings

LEMMA SoleTypes ==
  ASSUME TypeInv
  PROVE  /\ tpc \in [Threads -> {"unborn", "socket", "bind", "listen", "block", "wait",
                                 "welcome", "done"}]
         /\ bound \in [Threads -> Bindings] /\ listening \subseteq Threads
         /\ iUDP_Sock \in [Ports -> Threads \union {NoSocket}]
         /\ peer \in [Ports -> Clients \union {NoClient}]
         /\ nsetup \in Nat /\ acc \in Clients \union {NoClient}
BY DEF TypeInv, SessionTypeOK, ProcTypeOK, ThreadTypeOK

LEMMA SoleSpawn ==
  ASSUME TypeInv, Sole, transport' = transport, SpawnSetup
  PROVE  Sole'
<1> SUFFICES ASSUME nsetup' <= 1 PROVE Sole'
  BY DEF Sole
<1>1. /\ nsetup = 0 /\ nsetup' = 1 /\ up /\ UNCHANGED <<iUDP_Sock, bound, listening, peer>>
      /\ \A t \in Threads : tpc'[t] = IF t[1] = 1 /\ PortOf(t) < iNumUDP_Ports
                                      THEN "socket" ELSE tpc[t]
  BY SoleTypes DEF SpawnSetup, netVars
<1>2. \A t \in Threads : tpc[t] = "unborn" /\ bound[t] = Unbound
  BY <1>1 DEF Sole, Within
<1>3. \A p \in Ports : peer[p] = NoClient
  BY <1>1, <1>2 DEF Sole, Within
<1> QED
  BY <1>1, <1>2, <1>3 DEF Sole, Within

LEMMA SoleSetup ==
  ASSUME TypeInv, Binders, Sole, transport' = transport, up, nsetup <= 1,
         NEW t \in Threads,
         \/ CreateSocket(t) \/ Bind(t) \/ Listen(t) \/ Block(t)
         \/ AcceptData(t) \/ ReadWelcome(t) \/ ReceiveWelcome(t)
  PROVE  Sole'
<1> USE SoleTypes, ThreadPorts DEF ThreadStep, Within, SlotOf, threadFrame, procVars, netVars
<1>1. CASE CreateSocket(t)
  <2>1. \A u \in Threads : u # t /\ tpc[u] # "unborn" => PortOf(u) # PortOf(t)
    BY <1>1, SameThread DEF CreateSocket, Sole
  <2> QED
    BY <1>1, <2>1 DEF CreateSocket, Sole
<1>2. CASE Bind(t)
  BY <1>2 DEF Bind, AfterBind, Sole
<1>3. CASE Listen(t)
  <2>1. bound' = bound /\ listening' = listening \union {t}
    BY <1>3 DEF Listen, Autobind, Sole
  <2> QED
    BY <1>3, <2>1 DEF Listen, Sole
<1>4. CASE Block(t)
  BY <1>4 DEF Block, Sole
<1>5. CASE AcceptData(t)
  BY <1>5 DEF AcceptData, Sole
<1>6. CASE ReadWelcome(t)
  BY <1>6 DEF ReadWelcome, Sole
<1>7. CASE ReceiveWelcome(t)
  BY <1>7 DEF ReceiveWelcome, Sole
<1> QED
  BY <1>1, <1>2, <1>3, <1>4, <1>5, <1>6, <1>7

(* A datagram server's socket that sends has been bound long before. *)
LEMMA SoleSend ==
  ASSUME TypeInv, Sole, transport' = transport, SendUDP
  PROVE  Sole'
<1> SUFFICES ASSUME nsetup <= 1 PROVE Sole'
  BY DEF Sole, SendUDP, videoFrame, procVars
<1>1. PICK t \in Threads : PortOf(t) = VideoPort /\ tpc[t] = "done"
  BY DEF Sole, SendUDP, Within, VideoPort
<1>2. bound' = bound
  BY <1>1, ThreadPorts, SoleTypes DEF Sole, SendUDP, Within, SlotOf, Autobind
<1> QED
  BY <1>2, SoleFrame DEF SendUDP, videoFrame, procVars, threadVars, soleVars

LEMMA SoleStep == TypeInv /\ Binders /\ Sole /\ [Next]_vars => Sole'
<1> SUFFICES ASSUME TypeInv, Binders, Sole, [Next]_vars PROVE Sole'
  OBVIOUS
<1>1. transport' = transport
  BY DEF Next, vars
<1>2. CASE DieSteps
  BY <1>2, SoleDie, DieStepsDie
<1>3. CASE UNCHANGED vars \/ CountAudioPort
  BY <1>1, <1>3, SoleFrame DEF vars, CountAudioPort, procVars, threadVars, netVars, soleVars
<1>4. CASE RtspThread
  <2>1. CASE SpawnSetup
    BY <1>1, <2>1, SoleSpawn
  <2>2. CASE ~SpawnSetup
    BY <1>1, <1>4, <2>2, SoleFrame
       DEF RtspThread, StartRtsp, AcceptClient, ReceiveRequest, Respond, RespondFails,
           ClientLeft, SetReady, ApplyPlay, ApplyTeardown, threadVars, netVars, soleVars
  <2> QED
    BY <2>1, <2>2
<1>5. ASSUME NEW t \in Threads,
             \/ CreateSocket(t) \/ Bind(t) \/ Listen(t) \/ Block(t)
             \/ AcceptData(t) \/ ReadWelcome(t) \/ ReceiveWelcome(t)
      PROVE  Sole'
  <2>1. up /\ nsetup' = nsetup
    BY <1>5 DEF CreateSocket, Bind, Listen, Block, AcceptData, ReadWelcome, ReceiveWelcome,
                ThreadStep, threadFrame, procVars
  <2>2. CASE nsetup <= 1
    BY <1>1, <1>5, <2>1, <2>2, SoleSetup
  <2>3. CASE ~(nsetup <= 1)
    BY <2>1, <2>3 DEF Sole
  <2> QED
    BY <2>2, <2>3
<1>6. CASE EndOfVideo \/ AddFrame \/ SendTCP
  BY <1>1, <1>6, SoleFrame DEF EndOfVideo, AddFrame, SendTCP, videoFrame, procVars, threadVars,
                               soleVars
<1>7. CASE SendUDP
  BY <1>1, <1>7, SoleSend
<1>8. ASSUME NEW c \in Clients,
             \/ Connect(c) \/ (\E type \in RequestTypes : Command(c, type))
             \/ ClientThread(c) \/ ReceiveVideo(c) \/ LoseServer(c) \/ KillClient(c)
      PROVE  Sole'
  <2>1. UNCHANGED <<exit, nsetup, tpc, iUDP_Sock, bound, listening, peer>>
    BY <1>8 DEF Connect, Command, ClientThread, ReadReply, Quit, OpenUDP, OpenTCP,
                ConnectRefused, Greet, ReceiveVideo, LoseServer, KillClient, Leave,
                clientFrame, serverFrame, procVars, threadVars
  <2> QED
    BY <1>1, <2>1, SoleFrame DEF soleVars
<1> QED
  BY <1>2, <1>3, <1>4, <1>5, <1>6, <1>7, <1>8 DEF Next, DieSteps, VideoThread, SetupThread

(* Video that has reached a client comes from a PLAY, and an address in    *)
(* structUDP_Client from a socket that is still there.                     *)
Sourced ==
  /\ transport \in {"TCP", "UDP"}
  /\ played = {} => inbox = {}
  /\ \A p \in Ports : peer[p] # NoClient => iUDP_Sock[p] # NoSocket

LEMMA SourcedInit == Init => Sourced
BY TransportsAssumption DEF Init, Sourced

LEMMA SourcedSetup ==
  ASSUME TypeInv, Sourced, transport' = transport, NEW t \in Threads, SetupThread(t), ~DieSteps
  PROVE  Sourced'
<1>1. UNCHANGED <<inbox, played>> /\ SetupThread(t)
  BY DEF SetupThread, DieSteps, CreateSocket, Bind, Listen, Block, AcceptData, ReadWelcome,
         ReceiveWelcome, threadFrame
<1>2. CASE CreateSocket(t)
  BY <1>1, <1>2, SoleTypes, ThreadPorts, NoSocketIsNoThread DEF CreateSocket, Sourced
<1>3. CASE ReceiveWelcome(t)
  <2>1. SlotOf(t) # NoSocket
    BY <1>3, NoSocketIsNoThread DEF ReceiveWelcome, ThreadStep, TypeInv, ThreadOK, SlotOf
  <2> QED
    BY <1>1, <1>3, <2>1, SoleTypes, ThreadPorts DEF ReceiveWelcome, Sourced, SlotOf
<1>4. CASE Bind(t) \/ Listen(t) \/ Block(t) \/ AcceptData(t) \/ ReadWelcome(t)
  BY <1>1, <1>4 DEF Bind, Listen, Block, AcceptData, ReadWelcome, Sourced
<1> QED
  BY <1>2, <1>3, <1>4 DEF SetupThread, DieSteps

LEMMA SourcedStep == TypeInv /\ Invited /\ Sourced /\ [Next]_vars => Sourced'
<1> SUFFICES ASSUME TypeInv, Invited, Sourced, [Next]_vars PROVE Sourced'
  OBVIOUS
<1>1. transport' = transport
  BY DEF Next, vars
<1>2. CASE DieSteps
  BY <1>1, <1>2, DieStepsDie DEF Die, Sourced
<1>3. CASE UNCHANGED vars \/ CountAudioPort
  BY <1>1, <1>3 DEF vars, CountAudioPort, threadVars, Sourced
<1>4. CASE RtspThread
  <2>1. UNCHANGED <<inbox, peer, iUDP_Sock>> /\ played \subseteq played'
    BY <1>4 DEF RtspThread, StartRtsp, AcceptClient, ReceiveRequest, Respond, RespondFails,
                ClientLeft, SpawnSetup, SetReady, ApplyPlay, ApplyTeardown, threadVars
  <2> QED
    BY <1>1, <2>1 DEF Sourced
<1>5. ASSUME NEW t \in Threads, SetupThread(t), ~DieSteps
      PROVE  Sourced'
  BY <1>1, <1>5, SourcedSetup
<1>6. CASE VideoThread /\ ~DieSteps
  <2>1. CASE EndOfVideo \/ AddFrame
    BY <1>1, <2>1 DEF EndOfVideo, AddFrame, videoFrame, threadVars, Sourced
  <2>2. CASE SendTCP \/ SendUDP
    <3>1. played # {} /\ UNCHANGED <<played, peer, iUDP_Sock>>
      BY <2>2 DEF SendTCP, SendUDP, videoFrame, threadVars, Invited
    <3> QED
      BY <1>1, <3>1 DEF Sourced
  <2> QED
    BY <1>6, <2>1, <2>2 DEF VideoThread, DieSteps
<1>7. ASSUME NEW c \in Clients,
             \/ Connect(c) \/ (\E type \in RequestTypes : Command(c, type))
             \/ ClientThread(c) \/ ReceiveVideo(c) \/ LoseServer(c) \/ KillClient(c)
      PROVE  Sourced'
  <2>1. UNCHANGED <<played, peer, iUDP_Sock>> /\ inbox' \subseteq inbox
    BY <1>7 DEF Connect, Command, ClientThread, ReadReply, Quit, OpenUDP, OpenTCP,
                ConnectRefused, Greet, ReceiveVideo, LoseServer, KillClient, Leave,
                clientFrame, serverFrame, threadVars
  <2> QED
    BY <1>1, <2>1 DEF Sourced
<1> QED
  BY <1>2, <1>3, <1>4, <1>5, <1>6, <1>7 DEF Next, DieSteps

(* Nothing but a DieStep changes exit. *)
LEMMA OthersKeepExit ==
  ASSUME [Next]_vars, ~DieSteps
  PROVE  exit' = exit
BY DEF DieSteps, Next, vars, CountAudioPort, RtspThread, StartRtsp, AcceptClient,
    ReceiveRequest, Respond, RespondFails, ClientLeft, SpawnSetup, SetReady, ApplyPlay,
    ApplyTeardown, SetupThread, CreateSocket, Bind, Listen, Block, AcceptData, ReadWelcome,
    ReceiveWelcome, threadFrame, VideoThread, EndOfVideo, AddFrame, SendTCP, SendUDP, videoFrame,
    Connect, Command, ClientThread, ReadReply, Quit, OpenUDP, OpenTCP, ConnectRefused, Greet,
    ReceiveVideo, LoseServer, KillClient, Leave, clientFrame, serverFrame, procVars

(* With a single SETUP, no thread finds its port taken or its socket not   *)
(* listening.                                                              *)
LEMMA LoneThread ==
  ASSUME TypeInv, Sole, nsetup <= 1, NEW t \in Threads
  PROVE  ~BindFails(t) /\ ~AcceptFails(t)
<1> USE SoleTypes, ThreadPorts DEF Within, SlotOf
<1>1. ASSUME BindFails(t)
      PROVE  FALSE
  <2>1. /\ tpc[t] = "bind" /\ t[1] = 1 /\ SlotOf(t) = t /\ bound[t] = Unbound
        /\ ~CanBind(t, PortOf(t))
    BY <1>1 DEF BindFails, Sole
  <2>2. PICK g \in Threads \ {t} : bound[g] = PortOf(t)
    BY <2>1 DEF CanBind, PortTaken
  <2>3. up
    BY <1>1 DEF BindFails
  <2>4. g[1] = 1 /\ PortOf(g) = PortOf(t)
    BY <2>2, <2>3 DEF Sole
  <2> QED
    BY <2>1, <2>2, <2>4, SameThread
<1>2. ASSUME AcceptFails(t)
      PROVE  FALSE
  BY <1>2 DEF AcceptFails, Sole
<1> QED
  BY <1>1, <1>2

(* A setup thread that lives was spawned by a SETUP. *)
LEMMA ThreadNeedsSetup ==
  ASSUME TypeInv, Sole, up, NEW t \in Threads, tpc[t] # "unborn"
  PROVE  nsetup > 0
BY SoleTypes DEF Sole, Within

(* Every way of ending has the cause that EndsHaveCause gives for it. *)
LEMMA CauseOfEnd ==
  ASSUME TypeInv, Binders, Invited, Sole, Sourced, DieSteps
  PROVE  exit' = "killed" \/ Refused \/ SecondSetup \/ ClientLost \/ NobodyKnown
<1>1. CASE KillServer
  BY <1>1 DEF KillServer, Die
<1>2. CASE SendRefused
  BY <1>2 DEF SendRefused, Die, Invited, Refused
<1>3. CASE SendTCPBroken
  <2>1. acc \in Clients /\ played # {}
    BY <1>3, SoleTypes DEF SendTCPBroken, Invited
  <2> QED
    BY <1>3, <2>1 DEF SendTCPBroken, Die, ClientLost
<1>4. CASE SendUDPFails
  <2>1. played # {} /\ peer[VideoPort] = NoClient
    BY <1>4 DEF SendUDPFails, Invited, Sourced, VideoPort
  <2> QED
    BY <1>4, <2>1 DEF SendUDPFails, Die, NobodyKnown
<1>5. ASSUME NEW t \in Threads, SocketRefused(t)
      PROVE  Refused
  BY <1>5, ThreadNeedsSetup DEF SocketRefused, Die, Refused
<1>6. ASSUME NEW t \in Threads, BindFails(t) \/ AcceptFails(t)
      PROVE  SecondSetup
  <2>1. nsetup > 1
    BY <1>6, LoneThread, SoleTypes
  <2> QED
    BY <1>6, <2>1 DEF BindFails, AcceptFails, Die, SecondSetup
<1>7. ASSUME NEW t \in Threads, ReadWelcomeFails(t)
      PROVE  ClientLost
  <2>1. acc \in Clients /\ played # {} /\ transport = "TCP"
    BY <1>7 DEF ReadWelcomeFails, Binders, Sourced, TypeInv, ThreadOK
  <2> QED
    BY <1>7, <2>1 DEF ReadWelcomeFails, Die, ClientLost
<1> QED
  BY <1>1, <1>2, <1>3, <1>4, <1>5, <1>6, <1>7 DEF DieSteps

(* For any number of clients, SETUPs and ports, the server ends by a kill, *)
(* by a refusal of the kernel, or by one of the three accidents that       *)
(* EndsHaveCause names: one SETUP whose client stays, or is known, has no  *)
(* interleaving of threads and clients to fear.                            *)
THEOREM ServerEndsForCause == Spec => EndsHaveCause
<1>1. TypeInv /\ Binders /\ Invited /\ Sole /\ Sourced /\ [Next]_vars
        => [\/ exit' = exit \/ exit' = "killed" \/ Refused \/ SecondSetup
            \/ ClientLost \/ NobodyKnown]_vars
  BY CauseOfEnd, OthersKeepExit
<1> QED
  BY <1>1, SoleInit, SoleStep, BindersInit, BindersStep, InvitedInit, InvitedStep, SourcedInit,
     SourcedStep, TypeInvHolds, SyncedHolds, PTL DEF Spec, EndsHaveCause
=============================================================================
