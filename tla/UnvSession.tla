----------------------------- MODULE UnvSession -----------------------------
(***************************************************************************)
(* One server process and the clients that visit it one after another: the *)
(* server's RTSP thread, the setup threads it spawns for every SETUP, the  *)
(* video thread that sends frames, and each client's keyboard thread and   *)
(* receiving thread, over a reliable control connection and a data channel *)
(* that is a TCP connection or loses datagrams (UDP).                      *)
(*                                                                         *)
(* A step is what a thread does between two points where another thread    *)
(* can see the difference: between two uses of a global variable that      *)
(* another thread writes, or between two socket calls.                     *)
(***************************************************************************)
EXTENDS Rtsp, Sequences, FiniteSets

CONSTANTS
  Clients,     \* client processes; each runs once
  NoClient,    \* an empty sockaddr, an unset descriptor, nobody
  Transports,  \* what the -t option and the client's argument may say
  UnwrappedAudio,  \* the flag of that name: whether there is an audio port
  MaxSetups    \* bound: SETUP commands typed over all the clients

ASSUME NoClientAssumption == NoClient \notin Clients
ASSUME TransportsAssumption == Transports \subseteq {"TCP", "UDP"}
ASSUME UnwrappedAudioAssumption == UnwrappedAudio \in BOOLEAN
ASSUME MaxSetupsAssumption == MaxSetups \in Nat

(* Data ports as offsets from the base; the client opens only the first.   *)
Ports == IF UnwrappedAudio THEN {0, 1} ELSE {0}
VideoPort == 0

(* The setup thread that the k-th SETUP spawned for port p.  Each creates  *)
(* one socket, which the model names after its creator.                    *)
Threads == (1..MaxSetups) \X Ports
NoSocket == <<0, 0>>
PortOf(t) == t[2]

(* Where a socket is bound: a port, nowhere yet, or wherever the kernel    *)
(* put a socket that was used before it was bound.                         *)
Unbound == -1
Ephemeral == -2
Bindings == Ports \union {Unbound, Ephemeral}

VARIABLES
  transport,   \* cliOpts.transport and TLAYER, which the user gives alike
  exit,        \* server process: "running", or what ended it
  rpc,         \* RTSP thread: "start", "accept", "recv", "respond", "apply", "ended"
  cur,         \* the client whose connection is in objTCP_Socket
  req,         \* the request being handled, or NoRequest
  state,       \* iRTSP_State of the server
  seq,         \* RTSPSeqNb of the server
  slp,         \* the flag the video thread waits on
  iNumUDP_Ports,
  nsetup,      \* SETUP requests handled
  tpc,         \* [Threads -> program counter of the setup thread]
  tfd,         \* [Threads -> socket its blocking call is on]
  iUDP_Sock,   \* [Ports -> socket]
  acc,         \* the client on the accepted data connection
  peer,        \* structUDP_Client: [Ports -> client address]
  vpc          \* video thread: "next", "send", "ended"

VARIABLES
  bound,       \* [Threads -> Bindings]: the server's data sockets
  listening,   \* the sockets that are listening
  pending,     \* [Threads -> Seq(Clients)]: connections or datagrams that wait
  backlog,     \* control connections not yet accepted
  c2s, s2c,    \* [Clients -> messages in flight on the control connection]
  inbox        \* the clients with video data in their socket buffer

VARIABLES
  cpc,         \* keyboard thread: "off", "keyboard", "wake", "hello", "gone", or
               \* the request whose reply it is waiting for
  cstate,      \* iRTSP_State of each client
  cseq,        \* RTSPSeqNb of each client
  greeted,     \* the clients whose TCP welcome message is sent
  opened,      \* the clients whose receiving thread runs
  asked,       \* SETUP commands typed (bound)
  played,      \* history: the clients whose PLAY was carried out
  uninvited    \* history: frames sent to each client before its PLAY (up to 2)

procVars == <<exit, rpc, cur, req, state, seq, slp, iNumUDP_Ports, nsetup>>
threadVars == <<tpc, tfd, iUDP_Sock, acc, peer>>
netVars == <<bound, listening, pending>>
ctlVars == <<backlog, c2s, s2c>>
clientVars == <<cpc, cstate, cseq, greeted, opened, asked>>
vars == <<transport, procVars, threadVars, vpc, netVars, ctlVars, inbox, clientVars, played,
          uninvited>>

NoRequest == Request("none", 0)

up == exit = "running"
Gone(c) == cpc[c] = "gone"

-----------------------------------------------------------------------------
(* The kernel's rules, as far as the code depends on them *)

(* A port conflicts with any socket bound to it, except that SO_REUSEADDR, *)
(* which only the TCP server sets, ignores those that are not listening.   *)
PortTaken(f, p) ==
  \E g \in Threads \ {f} : bound[g] = p /\ (transport = "UDP" \/ g \in listening)

CanBind(f, p) == bound[f] = Unbound /\ ~PortTaken(f, p)

(* A socket that is used before it is bound gets a port from the kernel. *)
Autobind(f) == [bound EXCEPT ![f] = IF @ = Unbound THEN Ephemeral ELSE @]

(* The sockets of the server that a client's connect or datagram reaches. *)
Reachable(p) ==
  {f \in Threads : up /\ bound[f] = p /\ (transport = "UDP" \/ f \in listening)}

-----------------------------------------------------------------------------
Init ==
  /\ transport \in Transports
  /\ exit = "running" /\ rpc = "start"
  /\ cur = NoClient /\ req = NoRequest
  /\ state = "INIT" /\ seq = 0 /\ slp = TRUE
  /\ iNumUDP_Ports = 1 /\ nsetup = 0
  /\ tpc = [t \in Threads |-> "unborn"]
  /\ tfd = [t \in Threads |-> NoSocket]
  /\ iUDP_Sock = [p \in Ports |-> NoSocket]
  /\ acc = NoClient /\ peer = [p \in Ports |-> NoClient]
  /\ vpc = "next"
  /\ bound = [t \in Threads |-> Unbound] /\ listening = {}
  /\ pending = [t \in Threads |-> <<>>]
  /\ backlog = <<>>
  /\ c2s = [c \in Clients |-> <<>>] /\ s2c = [c \in Clients |-> <<>>]
  /\ inbox = {}
  /\ cpc = [c \in Clients |-> "off"] /\ cstate = [c \in Clients |-> "INIT"]
  /\ cseq = [c \in Clients |-> 0]
  /\ greeted = {} /\ opened = {} /\ asked = 0
  /\ played = {} /\ uninvited = [c \in Clients |-> 0]

(* exit(1) in Die, or a fatal signal, and with it everything the server    *)
(* process had: threads, sockets, and what they had not yet read.          *)
Die(message) ==
  /\ exit' = message /\ rpc' = "ended"
  /\ cur' = NoClient /\ req' = NoRequest
  /\ state' = "INIT" /\ seq' = 0 /\ slp' = TRUE
  /\ iNumUDP_Ports' = 1 /\ nsetup' = 0
  /\ tpc' = [t \in Threads |-> "unborn"]
  /\ tfd' = [t \in Threads |-> NoSocket]
  /\ iUDP_Sock' = [p \in Ports |-> NoSocket]
  /\ acc' = NoClient /\ peer' = [p \in Ports |-> NoClient]
  /\ vpc' = "ended"
  /\ bound' = [t \in Threads |-> Unbound] /\ listening' = {}
  /\ pending' = [t \in Threads |-> <<>>]
  /\ backlog' = <<>>
  /\ c2s' = [c \in Clients |-> <<>>]
  /\ UNCHANGED <<s2c, inbox, clientVars, played, uninvited>>

-----------------------------------------------------------------------------
(* Server: the RTSP thread *)

(* The main thread counts the audio port after it has spawned the threads. *)
CountAudioPort ==
  /\ up /\ UnwrappedAudio /\ iNumUDP_Ports = 1
  /\ iNumUDP_Ports' = 2
  /\ UNCHANGED <<exit, rpc, cur, req, state, seq, slp, nsetup, threadVars, vpc,
                 netVars, ctlVars, inbox, clientVars, played, uninvited>>

(* Create, bind and listen; a failure ends the thread, not the process. *)
StartRtsp ==
  /\ up /\ rpc = "start"
  /\ rpc' \in {"accept", "ended"}
  /\ UNCHANGED <<exit, cur, req, state, seq, slp, iNumUDP_Ports, nsetup, threadVars,
                 vpc, netVars, ctlVars, inbox, clientVars, played, uninvited>>

(* iRTSP_State of a new session.  (Mutant: the last session's.) *)
KeptState == state
SessionAtAccept == "INIT"

AcceptClient ==
  /\ up /\ rpc = "accept" /\ backlog # <<>>
  /\ cur' = Head(backlog) /\ backlog' = Tail(backlog)
  /\ state' = SessionAtAccept
  /\ rpc' = "recv"
  /\ UNCHANGED <<exit, req, seq, slp, iNumUDP_Ports, nsetup, threadVars, vpc,
                 netVars, c2s, s2c, inbox, clientVars, played, uninvited>>

ReceiveRequest ==
  /\ up /\ rpc = "recv" /\ c2s[cur] # <<>>
  /\ req' = Head(c2s[cur])
  /\ c2s' = [c2s EXCEPT ![cur] = Tail(@)]
  /\ seq' = ParsedCSeq(Head(c2s[cur]))
  /\ rpc' = "respond"
  /\ UNCHANGED <<exit, cur, state, slp, iNumUDP_Ports, nsetup, threadVars, vpc,
                 netVars, backlog, s2c, inbox, clientVars, played, uninvited>>

(* Mutants: every reply twice; none to a TEARDOWN. *)
ReplyTwice(n) == IF Gone(cur) THEN s2c ELSE [s2c EXCEPT ![cur] = @ \o <<n, n>>]
ReplyUnlessTeardown(n) ==
  IF Gone(cur) \/ req.type = "TEARDOWN" THEN s2c ELSE [s2c EXCEPT ![cur] = Append(@, n)]

(* prepare_RTSP_response puts ++RTSPSeqNb in the reply; the first send to  *)
(* a client that has left may still succeed.                               *)
Reply(n) == IF Gone(cur) THEN s2c ELSE [s2c EXCEPT ![cur] = Append(@, n)]

Respond ==
  /\ up /\ rpc = "respond"
  /\ seq' = seq + 1
  /\ s2c' = Reply(seq + 1)
  /\ rpc' = "apply"
  /\ UNCHANGED <<exit, cur, req, state, slp, iNumUDP_Ports, nsetup, threadVars, vpc,
                 netVars, backlog, c2s, inbox, clientVars, played, uninvited>>

(* SocketException out of the send: back to accept, the request undone. *)
RespondFails ==
  /\ up /\ rpc = "respond" /\ Gone(cur)
  /\ seq' = seq + 1
  /\ rpc' = "accept" /\ cur' = NoClient /\ req' = NoRequest
  /\ UNCHANGED <<exit, state, slp, iNumUDP_Ports, nsetup, threadVars, vpc,
                 netVars, ctlVars, inbox, clientVars, played, uninvited>>

(* SocketException out of the receive: the session state is left as it is. *)
ClientLeft ==
  /\ up /\ rpc = "recv" /\ c2s[cur] = <<>> /\ Gone(cur)
  /\ rpc' = "accept" /\ cur' = NoClient
  /\ UNCHANGED <<exit, req, state, seq, slp, iNumUDP_Ports, nsetup, threadVars, vpc,
                 netVars, ctlVars, inbox, clientVars, played, uninvited>>

(* The session state a request leaves behind, with no test of the state    *)
(* it finds.  (Mutant: a PLAY before any SETUP is answered but not obeyed.) *)
OutcomeChecked ==
  IF req.type = "PLAY" /\ state # "READY" THEN state ELSE Effect(req.type, state)
Outcome == Effect(req.type, state)

(* One detached setup thread per port, whatever earlier SETUPs left behind. *)
SpawnSetup ==
  /\ up /\ rpc = "apply" /\ req.type = "SETUP"
  /\ nsetup' = nsetup + 1
  /\ tpc' = [t \in Threads |-> IF t[1] = nsetup + 1 /\ PortOf(t) < iNumUDP_Ports
                               THEN "socket" ELSE tpc[t]]
  /\ rpc' = "ready"
  /\ UNCHANGED <<exit, cur, req, state, seq, slp, iNumUDP_Ports, tfd, iUDP_Sock, acc,
                 peer, vpc, netVars, ctlVars, inbox, clientVars, played, uninvited>>

SetReady ==
  /\ up /\ rpc = "ready"
  /\ state' = Outcome
  /\ rpc' = "recv" /\ req' = NoRequest
  /\ UNCHANGED <<exit, cur, seq, slp, iNumUDP_Ports, nsetup, threadVars, vpc,
                 netVars, ctlVars, inbox, clientVars, played, uninvited>>

(* PLAY releases the video thread.  (Mutant: it does not.) *)
SlpKept == slp
SlpAfterPlay == FALSE

(* PLAY needs no earlier SETUP.  slp is cleared after iRTSP_State is set    *)
(* and the video thread reads them in the other order, so one step will do. *)
ApplyPlay ==
  /\ up /\ rpc = "apply" /\ req.type = "PLAY"
  /\ state' = Outcome
  /\ slp' = SlpAfterPlay
  /\ rpc' = "recv" /\ req' = NoRequest
  /\ played' = played \union {cur}
  /\ UNCHANGED <<exit, cur, seq, iNumUDP_Ports, nsetup, threadVars, vpc,
                 netVars, ctlVars, inbox, clientVars, uninvited>>

(* Mutant: TEARDOWN gives up the data sockets while frames go on. *)
TeardownCloses ==
  /\ up /\ rpc = "apply" /\ req.type = "TEARDOWN"
  /\ rpc' = "recv" /\ req' = NoRequest
  /\ iUDP_Sock' = IF \A t \in Threads : tpc[t] \in {"unborn", "done"}
                    THEN [p \in Ports |-> NoSocket] ELSE iUDP_Sock
  /\ UNCHANGED <<exit, cur, state, seq, slp, iNumUDP_Ports, nsetup, tpc, tfd, acc, peer,
                 vpc, netVars, ctlVars, inbox, clientVars, played, uninvited>>

ApplyTeardown ==
  /\ up /\ rpc = "apply" /\ req.type = "TEARDOWN"
  /\ state' = Outcome
  /\ rpc' = "recv" /\ req' = NoRequest
  /\ UNCHANGED <<exit, cur, seq, slp, iNumUDP_Ports, nsetup, threadVars, vpc,
                 netVars, ctlVars, inbox, clientVars, played, uninvited>>

RtspThread ==
  \/ StartRtsp \/ AcceptClient \/ ReceiveRequest \/ Respond \/ RespondFails
  \/ ClientLeft \/ SpawnSetup \/ SetReady \/ ApplyPlay \/ ApplyTeardown

-----------------------------------------------------------------------------
(* Server: the setup threads (setupUDPTCP, setupUDPUDP) *)

(* Thread t is at from; it goes on to to.  Its socket calls read iUDP_Sock  *)
(* afresh, so they act on whichever socket was stored there last.           *)
ThreadStep(t, from, to) ==
  /\ up /\ tpc[t] = from
  /\ tpc' = [tpc EXCEPT ![t] = to]

SlotOf(t) == iUDP_Sock[PortOf(t)]

threadFrame == <<procVars, vpc, ctlVars, inbox, clientVars, played, uninvited>>

CreateSocket(t) ==
  /\ ThreadStep(t, "socket", "bind")
  /\ iUDP_Sock' = [iUDP_Sock EXCEPT ![PortOf(t)] = t]
  /\ UNCHANGED <<threadFrame, tfd, acc, peer, netVars>>

(* What a thread calls next.  (Mutant: setupUDPTCP whatever the transport.) *)
AfterBindTCP == "listen"
AfterBind == IF transport = "TCP" THEN "listen" ELSE "block"

Bind(t) ==
  /\ ThreadStep(t, "bind", AfterBind)
  /\ CanBind(SlotOf(t), PortOf(t))
  /\ bound' = [bound EXCEPT ![SlotOf(t)] = PortOf(t)]
  /\ UNCHANGED <<threadFrame, tfd, iUDP_Sock, acc, peer, listening, pending>>

(* Mutant: the result of bind is not looked at. *)
BindUnchecked(t) ==
  /\ ThreadStep(t, "bind", AfterBind)
  /\ UNCHANGED <<threadFrame, tfd, iUDP_Sock, acc, peer, netVars>>

BindFails(t) ==
  /\ up /\ tpc[t] = "bind"
  /\ ~CanBind(SlotOf(t), PortOf(t))
  /\ Die("Failed to bind server socket")

(* A socket that listens was the stored one when it was made to, so bind    *)
(* has refused every later one: listen finds no rival and does not fail.   *)
Listen(t) ==
  /\ ThreadStep(t, "listen", "block")
  /\ bound' = Autobind(SlotOf(t))
  /\ listening' = listening \union {SlotOf(t)}
  /\ UNCHANGED <<threadFrame, tfd, iUDP_Sock, acc, peer, pending>>

(* accept, or recvfrom, starts to wait on the socket of that moment. *)
Block(t) ==
  /\ ThreadStep(t, "block", "wait")
  /\ transport = "TCP" => SlotOf(t) \in listening
  /\ tfd' = [tfd EXCEPT ![t] = SlotOf(t)]
  /\ UNCHANGED <<threadFrame, iUDP_Sock, acc, peer, netVars>>

AcceptFails(t) ==
  /\ up /\ tpc[t] = "block"
  /\ transport = "TCP" /\ SlotOf(t) \notin listening
  /\ Die("Failed to accept the connection")

AcceptData(t) ==
  /\ transport = "TCP"
  /\ ThreadStep(t, "wait", "welcome")
  /\ pending[tfd[t]] # <<>>
  /\ acc' = Head(pending[tfd[t]])
  /\ pending' = [pending EXCEPT ![tfd[t]] = Tail(@)]
  /\ UNCHANGED <<threadFrame, tfd, iUDP_Sock, peer, bound, listening>>

(* recv on acc: the welcome, or 0 from a client that has closed. *)
ReadWelcome(t) ==
  /\ ThreadStep(t, "welcome", "done")
  /\ acc \in greeted \/ Gone(acc)
  /\ UNCHANGED <<threadFrame, tfd, iUDP_Sock, acc, peer, netVars>>

(* A client that dies with video unread resets the connection instead. *)
ReadWelcomeFails(t) ==
  /\ up /\ tpc[t] = "welcome"
  /\ Gone(acc) /\ acc \in inbox
  /\ Die("Failed to read welcome message")

ReceiveWelcome(t) ==
  /\ transport = "UDP"
  /\ ThreadStep(t, "wait", "done")
  /\ pending[tfd[t]] # <<>>
  /\ peer' = [peer EXCEPT ![PortOf(t)] = Head(pending[tfd[t]])]
  /\ pending' = [pending EXCEPT ![tfd[t]] = Tail(@)]
  /\ UNCHANGED <<threadFrame, tfd, iUDP_Sock, acc, bound, listening>>

(* The kernel may refuse any call on the thread's socket for a reason that  *)
(* is not modelled: no descriptor left, another process's port, a peer that *)
(* gave up.  Each result is looked at, and Die is the answer.              *)
SocketRefused(t) ==
  /\ up /\ tpc[t] \notin {"unborn", "done"}
  /\ Die("refused")

SetupThread(t) ==
  \/ CreateSocket(t) \/ Bind(t) \/ BindFails(t) \/ Listen(t)
  \/ Block(t) \/ AcceptFails(t) \/ AcceptData(t) \/ ReadWelcome(t)
  \/ ReadWelcomeFails(t) \/ ReceiveWelcome(t)

-----------------------------------------------------------------------------
(* Server: the video thread, from one frame of the source to the next *)

videoFrame == <<procVars, threadVars, listening, pending, ctlVars, clientVars, played>>

(* Video reaches the socket buffers of the clients in receivers. *)
Emit(receivers) ==
  /\ inbox' = inbox \union receivers
  /\ uninvited' = [c \in Clients |->
       IF c \in receivers \ played /\ uninvited[c] < 2 THEN uninvited[c] + 1
                                                    ELSE uninvited[c]]

(* End of the source, or of maxframes: the thread ends, the process stays. *)
EndOfVideo ==
  /\ up /\ vpc = "next"
  /\ vpc' = "ended"
  /\ UNCHANGED <<videoFrame, bound, inbox, uninvited>>

(* The next frame is encoded and slp is clear.  addFrame tests iRTSP_State  *)
(* first and sends afterwards.                                             *)
(* (Mutant: no test.) *)
SendAlways == TRUE
MaySend == state = "PLAYING"

AddFrame ==
  /\ up /\ vpc = "next" /\ ~slp
  /\ MaySend
  /\ vpc' = "send"
  /\ UNCHANGED <<videoFrame, bound, inbox, uninvited>>

(* The result of send is not looked at: with no data connection yet, or    *)
(* one whose client has left, the frame is dropped.                        *)
SendTCP ==
  /\ up /\ vpc = "send" /\ transport = "TCP"
  /\ vpc' = "next"
  /\ Emit({c \in Clients : c = acc /\ ~Gone(c)})
  /\ UNCHANGED <<videoFrame, bound>>

(* Once the reset of a closed connection is in, send raises SIGPIPE. *)
SendTCPBroken ==
  /\ up /\ vpc = "send" /\ transport = "TCP"
  /\ acc # NoClient /\ Gone(acc)
  /\ Die("SIGPIPE")

(* The datagram arrives or is lost. *)
SendUDP ==
  /\ up /\ vpc = "send" /\ transport = "UDP"
  /\ iUDP_Sock[VideoPort] # NoSocket /\ peer[VideoPort] # NoClient
  /\ vpc' = "next"
  /\ bound' = Autobind(iUDP_Sock[VideoPort])
  /\ \/ Emit({c \in Clients : c = peer[VideoPort] /\ ~Gone(c)})
     \/ Emit({})
  /\ UNCHANGED videoFrame

(* No socket, or the address of no client: sendto fails at once. *)
SendUDPFails ==
  /\ up /\ vpc = "send" /\ transport = "UDP"
  /\ iUDP_Sock[VideoPort] = NoSocket \/ peer[VideoPort] = NoClient
  /\ Die("Packet couldn't send")

(* Or for a reason that is not modelled: a frame longer than a datagram     *)
(* (without SPLITVID it is sent whole), no route, no buffer.               *)
SendRefused ==
  /\ up /\ vpc = "send" /\ transport = "UDP"
  /\ Die("refused")

VideoThread ==
  \/ EndOfVideo \/ AddFrame \/ SendTCP \/ SendTCPBroken
  \/ SendUDP \/ SendUDPFails

(* A second SIGINT, a kill: nothing is told to the clients. *)
KillServer == up /\ Die("killed")

-----------------------------------------------------------------------------
(* Clients *)

serverFrame == <<procVars, threadVars, vpc, bound, listening, played, uninvited>>

Step(c, from, to) ==
  /\ cpc[c] = from
  /\ cpc' = [cpc EXCEPT ![c] = to]

(* tryStartSocket retries every second until the server listens. *)
Connect(c) ==
  /\ up /\ rpc \notin {"start", "ended"}
  /\ Step(c, "off", "keyboard")
  /\ cstate' = [cstate EXCEPT ![c] = "INIT"]
  /\ backlog' = Append(backlog, c)
  /\ UNCHANGED <<serverFrame, pending, c2s, s2c, inbox, cseq, greeted,
                 opened, asked>>

(* The user types a command; the client sends it and waits for the reply. *)
Command(c, type) ==
  /\ up
  /\ Step(c, "keyboard", type)
  /\ type = "SETUP" => asked < MaxSetups
  /\ asked' = IF type = "SETUP" THEN asked + 1 ELSE asked
  /\ cseq' = [cseq EXCEPT ![c] = NextCSeq(@)]
  /\ c2s' = [c2s EXCEPT ![c] = Append(@, Request(type, NextCSeq(cseq[c])))]
  /\ UNCHANGED <<serverFrame, pending, backlog, s2c, inbox, cstate, greeted, opened>>

Waiting(c) == cpc[c] \in RequestTypes

(* Any reply counts as a success. *)
ReadReply(c) ==
  /\ s2c[c] # <<>>
  /\ \/ Step(c, "SETUP", "wake")
     \/ Step(c, "PLAY", "keyboard")
  /\ s2c' = [s2c EXCEPT ![c] = Tail(@)]
  /\ cseq' = [cseq EXCEPT ![c] = ParsedReplyCSeq(Head(s2c[c]))]
  /\ cstate' = [cstate EXCEPT ![c] = Effect(cpc[c], @)]
  /\ UNCHANGED <<serverFrame, pending, backlog, c2s, inbox, greeted, opened, asked>>

(* A client process ends, and with it its memory and its sockets; video it *)
(* had not read stays in inbox, for it makes the close a reset.            *)
Leave(c) ==
  /\ cpc' = [cpc EXCEPT ![c] = "gone"]
  /\ cstate' = [cstate EXCEPT ![c] = "INIT"]
  /\ cseq' = [cseq EXCEPT ![c] = 0]
  /\ s2c' = [s2c EXCEPT ![c] = <<>>]
  /\ greeted' = greeted \ {c}
  /\ opened' = opened \ {c}
  /\ UNCHANGED <<serverFrame, pending, backlog, c2s, inbox, asked>>

(* The reply to QUIT's TEARDOWN ends the client. *)
Quit(c) ==
  /\ cpc[c] = "TEARDOWN" /\ s2c[c] # <<>>
  /\ Leave(c)

clientFrame == <<serverFrame, backlog, c2s, s2c, inbox, cstate, cseq, asked>>

(* After SETUP's 5 ms sleep: the UDP client sends its welcome, once, and   *)
(* goes on whether or not a socket of the server receives it.              *)
OpenUDP(c) ==
  /\ transport = "UDP"
  /\ Step(c, "wake", "keyboard")
  /\ \/ pending' = pending
     \/ \E f \in Reachable(VideoPort) : pending' = [pending EXCEPT ![f] = Append(@, c)]
  /\ opened' = opened \union {c}
  /\ UNCHANGED <<clientFrame, greeted>>

OpenTCP(c) ==
  /\ transport = "TCP"
  /\ Step(c, "wake", "hello")
  /\ \E f \in Reachable(VideoPort) : pending' = [pending EXCEPT ![f] = Append(@, c)]
  /\ UNCHANGED <<clientFrame, greeted, opened>>

(* Connection refused: the client dies. *)
ConnectRefused(c) ==
  /\ transport = "TCP" /\ cpc[c] = "wake"
  /\ Reachable(VideoPort) = {}
  /\ Leave(c)

(* The welcome message; the server's accept need not have returned yet. *)
Greet(c) ==
  /\ up
  /\ Step(c, "hello", "keyboard")
  /\ greeted' = greeted \union {c}
  /\ opened' = opened \union {c}
  /\ UNCHANGED <<clientFrame, pending>>

(* The receiving thread writes what it receives to standard output. *)
ReceiveVideo(c) ==
  /\ c \in opened \intersect inbox
  /\ inbox' = inbox \ {c}
  /\ UNCHANGED <<serverFrame, pending, ctlVars, clientVars>>

(* With the server gone, reading the reply, sending the next command and   *)
(* sending the welcome all end the client.                                 *)
LoseServer(c) ==
  /\ ~up
  /\ \/ cpc[c] \in {"keyboard", "hello"}
     \/ Waiting(c) /\ s2c[c] = <<>>
  /\ Leave(c)

(* The user stops the client, or its test period is over (writelogfile). *)
KillClient(c) ==
  /\ cpc[c] \notin {"off", "gone"}
  /\ Leave(c)

ClientThread(c) ==
  \/ ReadReply(c) \/ Quit(c) \/ OpenUDP(c) \/ OpenTCP(c) \/ ConnectRefused(c) \/ Greet(c)

-----------------------------------------------------------------------------
Next ==
  /\ \/ CountAudioPort
     \/ RtspThread
     \/ \E t \in Threads : SetupThread(t) \/ SocketRefused(t)
     \/ VideoThread
     \/ SendRefused \/ KillServer
     \/ \E c \in Clients :
          \/ Connect(c) \/ (\E type \in RequestTypes : Command(c, type))
          \/ ClientThread(c) \/ ReceiveVideo(c) \/ LoseServer(c) \/ KillClient(c)
  /\ UNCHANGED transport

Spec == Init /\ [][Next]_vars

(* Threads that can run do; nobody has to type, stop a process or let the  *)
(* source of the video end.                                                *)
Fairness ==
  /\ WF_vars(RtspThread /\ UNCHANGED transport)
  /\ WF_vars(VideoThread /\ vpc' # "ended" /\ UNCHANGED transport)
  /\ \A t \in Threads : WF_vars(SetupThread(t) /\ UNCHANGED transport)
  /\ \A c \in Clients :
       /\ WF_vars(ClientThread(c) /\ UNCHANGED transport)
       /\ WF_vars(ReceiveVideo(c) /\ UNCHANGED transport)

FairSpec == Spec /\ Fairness

-----------------------------------------------------------------------------
(* Properties *)

(* What can end the server: Die's messages, and signals. *)
Endings == {"killed", "refused", "SIGPIPE", "Failed to bind server socket",
            "Failed to accept the connection",
            "Failed to read welcome message", "Packet couldn't send"}

ProcTypeOK ==
  /\ exit \in Endings \union {"running"}
  /\ rpc \in {"start", "accept", "recv", "respond", "apply", "ready", "ended"}
  /\ cur \in Clients \union {NoClient}
  /\ req \in Requests \union {NoRequest}
  /\ state \in SessionStates /\ seq \in Nat /\ slp \in BOOLEAN
  /\ iNumUDP_Ports \in 1..2 /\ nsetup \in Nat
  /\ vpc \in {"next", "send", "ended"}

ThreadTypeOK ==
  /\ tpc \in [Threads -> {"unborn", "socket", "bind", "listen", "block", "wait",
                          "welcome", "done"}]
  /\ tfd \in [Threads -> Threads \union {NoSocket}]
  /\ iUDP_Sock \in [Ports -> Threads \union {NoSocket}]
  /\ acc \in Clients \union {NoClient}
  /\ peer \in [Ports -> Clients \union {NoClient}]
  /\ bound \in [Threads -> Bindings] /\ listening \subseteq Threads
  /\ pending \in [Threads -> Seq(Clients)]

CtlTypeOK ==
  /\ backlog \in Seq(Clients)
  /\ c2s \in [Clients -> Seq(Requests)] /\ s2c \in [Clients -> Seq(Nat)]

ClientTypeOK ==
  /\ cpc \in [Clients -> {"off", "keyboard", "wake", "hello", "gone"} \union RequestTypes]
  /\ cstate \in [Clients -> SessionStates]
  /\ cseq \in [Clients -> Nat]
  /\ greeted \subseteq Clients /\ opened \subseteq Clients
  /\ asked \in 0..MaxSetups
  /\ inbox \subseteq Clients /\ played \subseteq Clients
  /\ uninvited \in [Clients -> 0..2]

(* Either set-up function leaves the other transport's variables alone. *)
TransportOK ==
  /\ transport = "UDP" => listening = {} /\ acc = NoClient
  /\ transport = "TCP" => \A p \in Ports : peer[p] = NoClient

(* Type correctness: the variables' ranges, the bound on SETUPs, and that  *)
(* a datagram server neither listens nor accepts on a data port while a    *)
(* stream server learns no address.                                        *)
SessionTypeOK == ProcTypeOK /\ ThreadTypeOK /\ CtlTypeOK /\ ClientTypeOK
TypeOK == transport \in Transports /\ SessionTypeOK /\ TransportOK

(* A client that is not waiting for a reply has nothing in flight in       *)
(* either direction, and one that is has exactly one of: its request, the  *)
(* server at work on it, its reply.  Both ends read a whole message with   *)
(* one recv, so this is what keeps two messages from being read as one.    *)
InHand(c) == IF cur = c /\ rpc = "respond" THEN 1 ELSE 0
InFlight(c) == Len(c2s[c]) + InHand(c) + Len(s2c[c])
Expected(c) == IF Waiting(c) THEN 1 ELSE 0

LockStep ==
  \A c \in Clients :
    up /\ ~Gone(c) => InFlight(c) = Expected(c)

(* Both ends keep an iRTSP_State of their own.  Whenever the server waits  *)
(* for the next request of a client that waits for its user, they agree,   *)
(* whatever the sessions before left behind.                               *)
Agreement ==
  \A c \in Clients :
    up /\ cur = c /\ rpc = "recv" /\ cpc[c] \in {"keyboard", "wake", "hello"}
      => state = cstate[c]

(* No video leaves before the first PLAY of all, and a client that has not *)
(* had a PLAY carried out gets at most one frame: the one whose test of    *)
(* iRTSP_State passed under the client before it.                          *)
AtMostOneStrayFrame ==
  \A c \in Clients : uninvited[c] <= IF played = {} THEN 0 ELSE 1

(* On one UDP port at most one setup thread ever gets past bind: the rest  *)
(* take the server down, so no two of them wait for the same welcome.      *)
PastBind(t) == tpc[t] \in {"block", "wait", "done"}

OneBinderPerPort ==
  transport = "UDP" =>
    \A t, u \in Threads :
      PastBind(t) /\ PastBind(u) /\ PortOf(t) = PortOf(u) => t = u

(* The server never ends without a cause outside its threads' interplay:   *)
(* it is killed; the kernel refuses a socket call, which takes a SETUP or  *)
(* a PLAY; a second SETUP's threads meet the first's; a PLAY sends video   *)
(* to a client of a data connection that has left, or over UDP to nobody,  *)
(* for no client has introduced itself.  So one SETUP, its client staying  *)
(* (TCP) or known (UDP), is ended by a kill or a refusal alone.            *)
SecondSetup ==
  nsetup > 1 /\ exit' \in {"Failed to bind server socket", "Failed to accept the connection"}
ClientLost ==
  /\ transport = "TCP" /\ played # {} /\ \E c \in Clients : Gone(c)
  /\ exit' \in {"SIGPIPE", "Failed to read welcome message"}
NobodyKnown ==
  /\ transport = "UDP" /\ played # {} /\ peer[VideoPort] = NoClient
  /\ exit' = "Packet couldn't send"
Refused == exit' = "refused" /\ (nsetup > 0 \/ (transport = "UDP" /\ played # {}))

EndsHaveCause ==
  [][exit' = exit \/ exit' = "killed" \/ Refused \/ SecondSetup \/ ClientLost \/ NobodyKnown]_vars

(* The client the server is serving gets its reply, unless a process ends. *)
Answered ==
  \A c \in Clients :
    (cur = c /\ Waiting(c)) ~> (~Waiting(c) \/ ~up)

(* A TCP client whose PLAY was carried out, with its data connection       *)
(* accepted, receives video, unless it leaves, the server ends or the      *)
(* source does, or another SETUP or session comes between.                 *)
VideoArrives ==
  \A c \in Clients :
    (state = "PLAYING" /\ cur = c /\ acc = c /\ c \in opened)
      ~> (c \in inbox \/ Gone(c) \/ ~up \/ vpc = "ended" \/ state # "PLAYING")

(* The session as SessionPromise tells it.  The server's state changes,    *)
(* for the client, when it answers, although iRTSP_State is assigned only  *)
(* after the reply is on its way.                                          *)
Changing == rpc \in {"apply", "ready"}
AskedFor(c) ==
  IF c2s[c] # <<>> THEN Head(c2s[c]).type
  ELSE IF InHand(c) = 1 THEN req.type ELSE "none"

Promise == INSTANCE SessionPromise WITH
  serving <- cur,
  state   <- IF Changing THEN Effect(req.type, state) ELSE state,
  present <- {c \in Clients : cpc[c] \notin {"off", "gone"}},
  view    <- cstate,
  asking  <- [c \in Clients |-> AskedFor(c)],
  told    <- [c \in Clients |-> IF s2c[c] # <<>> THEN cpc[c] ELSE "none"]

(* The sockets, the threads and the messages implement that promise. *)
KeepsPromise == Promise!PromiseSpec

(* Client/src/netClient.cpp:491 "allow server to setup its UDP session     *)
(* first": when the client wakes up to greet the server, there is a socket *)
(* of the server to receive it.                                            *)
ServerSetUpFirst == \A c \in Clients : up /\ cpc[c] = "wake" => Reachable(VideoPort) # {}
=============================================================================
