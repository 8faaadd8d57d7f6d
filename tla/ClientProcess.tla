--------------------------- MODULE ClientProcess ---------------------------
(***************************************************************************)
(* The life of the client process around the session: the launcher, the    *)
(* tries to reach a server and the descriptors they use up, the keyboard   *)
(* thread and what it makes of the end of its input, the threads that      *)
(* receive video, and the log of their packets, whose time stamps end the  *)
(* client when the test period is over.                                    *)
(*                                                                         *)
(* The session itself is UnvSession; here the server is only whether it    *)
(* listens, and whether the connection to it still stands.                 *)
(***************************************************************************)
EXTENDS Naturals, FiniteSets

CONSTANTS
  Descriptors,  \* descriptors the process can open beside those it starts with
  Rows,         \* rows of log_buffer: 100000
  Period,       \* TESTING_PERIOD, in ticks
  Day,          \* ticks of a day
  Word,         \* 2^32: time stamps are uint32_t
  Starts,       \* times of day at which the client is started
  Span,         \* bound: ticks that pass after a receiver has started
  MaxJumps,     \* bound: jumps of the local time
  MaxPackets,   \* bound: packets received, at whatever rate
  MaxSetups     \* bound: data sockets opened

ASSUME DescriptorsAssumption == Descriptors \in Nat
ASSUME MaxSetupsAssumption == MaxSetups \in Nat \ {0}
ASSUME BoundsAssumption == {MaxPackets, MaxJumps, Span} \subseteq Nat
ASSUME RowsAssumption == Rows \in Nat \ {0}
ASSUME PeriodAssumption == Period \in Nat \ {0}
(* A day's ticks fit in a time stamp. *)
ASSUME DayAssumption == Day \in Nat \ {0} /\ Starts \subseteq 0..(Day - 1)
ASSUME WordAssumption == Word \in Nat /\ Day <= Word

Receivers == 1..MaxSetups

(* The arguments: another machine, by its address or by its name, a        *)
(* transport, and whether the codec is one of the two.                     *)
Arguments == [host : {"address", "name"}, transport : {"TCP", "UDP", "other"},
              codec : BOOLEAN]

(* What a line can say: a command, or anything else.  The signals "s" and  *)
(* "p" go to a file that no running player reads: they are of the rest.    *)
Requests == {"QUIT", "SETUP", "PLAY"}
Lines == Requests \union {"other"}

VARIABLES
  args,
  mpc,          \* main thread; "keyboard" once it waits for its keyboard thread
  exit,         \* "running", or how the client ended
  descriptors,  \* descriptors opened and not closed
  serving,      \* a server listens on the machine that the client reaches
  conn          \* objTCP_Socket: "none", "up", or "down" once the server has gone

VARIABLES
  kpc,          \* keyboard thread: "off", "prompt", "send", "reply", "open"
  stdin,        \* "open", or "ended"
  line,         \* sKeyboardInput
  setups,       \* data sockets opened
  playing       \* a PLAY has been sent

VARIABLES
  rpc,          \* [Receivers -> program counter of the receiving thread]
  got,          \* [Receivers -> number of the packet received, 0 at the end of the stream]
  closed,       \* receivers that have met the end of their stream
  start, stop,  \* the time stamps of these names
  packets,      \* packets received
  iPacketNoTotal,
  log,          \* the packet in each row of log_buffer, 0 for none
  damaged       \* a row past the last has been written

VARIABLES
  now,          \* the local time, in ticks since midnight
  elapsed,      \* ticks since a receiver last started
  disturbed,    \* since then, midnight has come or the local time has jumped
  jumps         \* jumps so far

mainVars == <<args, mpc, exit>>
netVars == <<serving, conn>>
keyVars == <<kpc, stdin, line, setups, playing>>
logVars == <<rpc, got, closed, start, stop, packets, iPacketNoTotal, log, damaged>>
timeVars == <<now, elapsed, disturbed, jumps>>
vars == <<mainVars, descriptors, netVars, keyVars, logVars, timeVars>>

running == exit = "running"

Init ==
  /\ args \in Arguments
  /\ mpc \in {"launcher", "arguments"} /\ exit = "running"
  /\ descriptors = 0
  /\ serving \in BOOLEAN /\ conn = "none"
  /\ kpc = "off" /\ stdin = "open" /\ line = "other"
  /\ setups = 0 /\ playing = FALSE
  /\ rpc = [r \in Receivers |-> "unborn"] /\ got = [r \in Receivers |-> 0]
  /\ closed = {} /\ start = 0 /\ stop = 0
  /\ now \in Starts /\ elapsed = 0 /\ disturbed = FALSE /\ jumps = 0
  /\ packets = 0 /\ iPacketNoTotal = 0
  /\ log = [i \in 0..(Rows - 1) |-> 0] /\ damaged = FALSE

(* Whatever ends the process ends every thread of it. *)
Exit(how) ==
  /\ exit' = how /\ mpc' = "exited" /\ kpc' = "off"
  /\ UNCHANGED <<args, descriptors, netVars, stdin, line, setups, playing,
                 logVars, timeVars>>

-----------------------------------------------------------------------------
(* The launcher, and main until it is connected *)

Understood == args.transport # "other" /\ args.codec

(* runClient turns the words of its arguments into the client's numbers,   *)
(* and the client checks the numbers.                                      *)
Check(from, to) ==
  /\ running /\ mpc = from
  /\ \/ Understood /\ mpc' = to
        /\ UNCHANGED <<args, exit, descriptors, netVars, keyVars, logVars, timeVars>>
     \/ ~Understood /\ Exit("usage")

Launch == Check("launcher", "arguments")
CheckArguments == Check("arguments", "create")

Proceed(from, to) ==
  /\ running /\ mpc = from /\ mpc' = to
  /\ UNCHANGED <<args, exit, logVars, timeVars>>

(* Socket::create stores the new descriptor over the one of the last try,  *)
(* which stays open.                                                       *)
CreateSocket ==
  /\ descriptors < Descriptors
  /\ descriptors' = descriptors + 1
  /\ Proceed("create", "connect")
  /\ UNCHANGED <<netVars, keyVars>>

NoDescriptorLeft ==
  /\ descriptors = Descriptors
  /\ Proceed("create", "asleep")
  /\ UNCHANGED <<descriptors, netVars, keyVars>>

(* inet_pton takes addresses only, and connect is called whatever it says: *)
(* with a name the address stays zero, which is this machine.              *)
Reached == IF args.host = "address" THEN "there" ELSE "here"

ConnectSocket ==
  /\ serving
  /\ Proceed("connect", "keyboard")
  /\ conn' = "up" /\ kpc' = "prompt"
  /\ UNCHANGED <<descriptors, serving, stdin, line, setups, playing>>

(* (Mutant: what connect returns is not looked at.) *)
StartAnyway ==
  /\ ~serving
  /\ Proceed("connect", "keyboard")
  /\ kpc' = "prompt"
  /\ UNCHANGED <<descriptors, netVars, stdin, line, setups, playing>>

ConnectFails ==
  /\ ~serving
  /\ Proceed("connect", "asleep")
  /\ UNCHANGED <<descriptors, netVars, keyVars>>

(* (Mutant: the exception is caught and that is all.) *)
GiveUp == Proceed("asleep", "asleep") /\ UNCHANGED <<descriptors, netVars, keyVars>>
TryAgain == Proceed("asleep", "create") /\ UNCHANGED <<descriptors, netVars, keyVars>>

Main ==
  \/ Launch \/ CheckArguments \/ CreateSocket \/ NoDescriptorLeft
  \/ ConnectSocket \/ ConnectFails \/ TryAgain

-----------------------------------------------------------------------------
(* Keyboard thread *)

Ask(from, to) ==
  /\ running /\ kpc = from /\ kpc' = to
  /\ UNCHANGED <<mainVars, netVars, timeVars>>

(* getline leaves the string alone once the input has ended, be it in the  *)
(* middle of a line; nobody asks whether it has.                           *)
NextLines ==
  IF stdin = "open"
  THEN {<<typed, end>> : typed \in Lines, end \in {"open", "ended"}}
  ELSE {<<line, "ended">>}

ReadLine ==
  /\ \E next \in NextLines :
       /\ line' = next[1] /\ stdin' = next[2]
       /\ Ask("prompt", IF line' \in Requests THEN "send" ELSE "prompt")
  /\ UNCHANGED <<descriptors, setups, playing, logVars>>

SendRequest ==
  /\ conn = "up"
  /\ Ask("send", "reply")
  /\ playing' = (playing \/ line = "PLAY")
  /\ UNCHANGED <<descriptors, stdin, line, setups, logVars>>

(* The socket's exception ends the thread, and main with it. *)
ServerLost ==
  /\ running /\ kpc \in {"send", "reply"} /\ conn = "down"
  /\ Exit("lost")

(* A reply to SETUP is followed by the data socket in the same command.    *)
Replied(command) == running /\ conn = "up" /\ kpc = "reply" /\ line = command

ReplyToPlay ==
  /\ Replied("PLAY") /\ Ask("reply", "prompt")
  /\ UNCHANGED <<descriptors, stdin, line, setups, playing, logVars>>

ReplyToSetup ==
  /\ Replied("SETUP") /\ Ask("reply", "open")
  /\ UNCHANGED <<descriptors, stdin, line, setups, playing, logVars>>

Quit == Replied("QUIT") /\ Exit("quit")

(* The data socket goes to inet_addr of the host: with a name, nowhere.    *)
DataConnection == args.transport = "UDP" \/ (conn = "up" /\ args.host = "address")

OpenData ==
  /\ setups < MaxSetups /\ descriptors < Descriptors /\ DataConnection
  /\ Ask("open", "prompt")
  /\ descriptors' = descriptors + 1
  /\ setups' = setups + 1
  /\ rpc' = [rpc EXCEPT ![setups + 1] = "start"]
  /\ UNCHANGED <<stdin, line, playing, got, closed, start, stop, packets,
                 iPacketNoTotal, log, damaged>>

(* No descriptor, or a connection refused: Die. *)
OpenDataFails ==
  /\ running /\ kpc = "open"
  /\ descriptors = Descriptors \/ args.transport = "TCP"
  /\ Exit("failure")

Keyboard ==
  \/ ReadLine \/ SendRequest \/ ServerLost \/ ReplyToPlay \/ ReplyToSetup \/ Quit
  \/ OpenData \/ OpenDataFails

-----------------------------------------------------------------------------
(* Receiving threads *)

Receive(r, from, to) ==
  /\ running /\ rpc[r] = from
  /\ rpc' = [rpc EXCEPT ![r] = to]
  /\ UNCHANGED <<mainVars, descriptors, netVars, keyVars>>

StartReceiving(r) ==
  /\ Receive(r, "start", "count")
  /\ start' = now /\ elapsed' = 0 /\ disturbed' = FALSE
  /\ UNCHANGED <<got, closed, stop, packets, iPacketNoTotal, log, damaged, now, jumps>>

(* The packet is counted before it is waited for.  (The count stops at     *)
(* Rows, from where on all rows are alike.)                                *)
Counted == IF iPacketNoTotal < Rows THEN iPacketNoTotal + 1 ELSE Rows

Count(r) ==
  /\ Receive(r, "count", "recv")
  /\ iPacketNoTotal' = Counted
  /\ UNCHANGED <<got, closed, start, stop, packets, log, damaged, timeVars>>

(* Packets come at any rate, and what the server had sent still comes when *)
(* it has gone.                                                            *)
ReceivePacket(r) ==
  /\ playing /\ args.host = "address" /\ r \notin closed /\ packets < MaxPackets
  /\ Receive(r, "recv", "stamp")
  /\ packets' = packets + 1
  /\ got' = [got EXCEPT ![r] = packets + 1]
  /\ UNCHANGED <<closed, start, stop, iPacketNoTotal, log, damaged, timeVars>>

(* (Mutants: a recv that does not wait; the end of the stream is skipped.) *)
ReceivePolled(r) ==
  /\ Receive(r, "recv", "stamp")
  /\ got' = [got EXCEPT ![r] = 0]
  /\ UNCHANGED <<closed, start, stop, packets, iPacketNoTotal, log, damaged, timeVars>>

ReceiveSkipped(r) ==
  /\ conn = "down" /\ args.transport = "TCP"
  /\ Receive(r, "recv", "count")
  /\ closed' = closed \union {r}
  /\ UNCHANGED <<got, start, stop, packets, iPacketNoTotal, log, damaged, timeVars>>

(* The end of a TCP stream is a packet of no bytes, again and again.       *)
ReceiveEnd(r) ==
  /\ conn = "down" /\ args.transport = "TCP"
  /\ Receive(r, "recv", "stamp")
  /\ closed' = closed \union {r}
  /\ got' = [got EXCEPT ![r] = 0]
  /\ UNCHANGED <<start, stop, packets, iPacketNoTotal, log, damaged, timeVars>>

(* get_timestamp: the milliseconds of the local day. *)
StampPacket(r) ==
  /\ Receive(r, "stamp", "log")
  /\ stop' = now
  /\ UNCHANGED <<got, closed, start, packets, iPacketNoTotal, log, damaged, timeVars>>

(* The difference of two time stamps is unsigned: it wraps. *)
ElapsedSwapped == (Word + start - stop) % Word  \* mutant
Elapsed == (Word + stop - start) % Word
PeriodOver == Elapsed >= Period

LogRow(r) ==
  IF iPacketNoTotal < Rows
  THEN log' = [log EXCEPT ![iPacketNoTotal] = got[r]] /\ UNCHANGED damaged
  ELSE damaged' = TRUE /\ UNCHANGED log

(* The packet is logged and written to the standard output. *)
LogPacket(r) ==
  /\ ~PeriodOver
  /\ Receive(r, "log", "count")
  /\ LogRow(r)
  /\ UNCHANGED <<got, closed, start, stop, packets, iPacketNoTotal, timeVars>>

(* writelogfile: the rows below the number of the packet that ended the    *)
(* period.  (Mutant: one less.)                                            *)
FileShort == [i \in 0..(iPacketNoTotal - 2) |-> log[i]]
File == [i \in 0..(iPacketNoTotal - 1) |-> log[i]]

(* The packet that ends the period is logged; then the file is written and *)
(* the client ends, or just ends if the file cannot be opened.             *)
EndOfPeriod(r) ==
  /\ running /\ rpc[r] = "log" /\ PeriodOver
  /\ LogRow(r)
  /\ exit' \in IF descriptors < Descriptors THEN {"logged"} ELSE {"failure"}
  /\ mpc' = "exited" /\ kpc' = "off"
  /\ UNCHANGED <<args, descriptors, netVars, stdin, line, setups, playing,
                 rpc, got, closed, start, stop, packets, iPacketNoTotal, timeVars>>

(* A write past the rows may do no visible harm, or end the client. *)
LogCrashes(r) ==
  /\ running /\ rpc[r] = "log" /\ iPacketNoTotal = Rows
  /\ Exit("crash")

(* The player that reads the standard output may have gone. *)
BrokenPipe(r) ==
  /\ running /\ rpc[r] = "log"
  /\ Exit("SIGPIPE")

Receiver(r) ==
  \/ StartReceiving(r) \/ Count(r) \/ ReceivePacket(r) \/ ReceiveEnd(r) \/ StampPacket(r)
  \/ LogPacket(r) \/ EndOfPeriod(r) \/ LogCrashes(r) \/ BrokenPipe(r)

-----------------------------------------------------------------------------
(* The world: a server, which is of no more interest once lost, and time. *)

ServerStarts ==
  /\ running /\ conn = "none" /\ ~serving
  /\ serving' = TRUE
  /\ UNCHANGED <<mainVars, descriptors, conn, keyVars, logVars, timeVars>>

ServerEnds ==
  /\ running /\ serving
  /\ serving' = FALSE
  /\ conn' = IF conn = "up" THEN "down" ELSE conn
  /\ UNCHANGED <<mainVars, descriptors, keyVars, logVars, timeVars>>

Timing == running /\ \E r \in Receivers : rpc[r] \notin {"unborn", "start"}

Tick ==
  /\ Timing /\ elapsed < Span
  /\ now' = (now + 1) % Day /\ elapsed' = elapsed + 1
  /\ disturbed' = (disturbed \/ now = Day - 1)
  /\ UNCHANGED <<mainVars, descriptors, netVars, keyVars, logVars, jumps>>

(* The clock is set, or the hour changes: get_timestamp asks localtime.    *)
LocalTimeJumps ==
  /\ Timing /\ jumps < MaxJumps
  /\ now' \in 0..(Day - 1) /\ disturbed' = TRUE /\ jumps' = jumps + 1
  /\ UNCHANGED <<mainVars, descriptors, netVars, keyVars, logVars, elapsed>>

Next ==
  \/ Main \/ Keyboard
  \/ \E r \in Receivers : Receiver(r)
  \/ ServerStarts \/ ServerEnds \/ Tick \/ LocalTimeJumps

Spec == Init /\ [][Next]_vars

(* Main's sleeps end, receiving threads that have something to do run, and *)
(* time passes.                                                            *)
FairSpec ==
  /\ Spec /\ WF_vars(Main) /\ WF_vars(Tick)
  /\ \A r \in Receivers : WF_vars(Receiver(r))

-----------------------------------------------------------------------------
(* Properties *)

TypeOK ==
  /\ args \in Arguments
  /\ mpc \in {"launcher", "arguments", "create", "connect", "asleep", "keyboard", "exited"}
  /\ exit \in {"running", "usage", "quit", "lost", "failure", "logged", "crash", "SIGPIPE"}
  /\ descriptors \in 0..Descriptors
  /\ serving \in BOOLEAN /\ conn \in {"none", "up", "down"}
  /\ kpc \in {"off", "prompt", "send", "reply", "open"}
  /\ kpc # "off" => mpc = "keyboard" /\ conn # "none"
  /\ stdin \in {"open", "ended"}
  /\ line \in Requests \union {"other"}
  /\ setups \in 0..MaxSetups /\ playing \in BOOLEAN
  /\ rpc \in [Receivers -> {"unborn", "start", "count", "recv", "stamp", "log"}]
  /\ got \in [Receivers -> Nat] /\ closed \subseteq Receivers
  /\ {start, stop, now} \subseteq 0..(Day - 1)
  /\ elapsed \in Nat /\ disturbed \in BOOLEAN /\ jumps \in 0..MaxJumps
  /\ packets \in Nat /\ iPacketNoTotal \in 0..Rows
  /\ log \in [0..(Rows - 1) -> Nat] /\ damaged \in BOOLEAN

(* With one receiver the log file holds the packets in the order they      *)
(* came, none of them twice, and every one but perhaps the last.           *)
LogInOrder ==
  exit = "logged" /\ setups = 1 /\ ~damaged =>
    /\ \A i, j \in DOMAIN File :
         File[i] # 0 /\ File[j] # 0 => (i < j <=> File[i] < File[j])
    /\ \A n \in 1..(packets - 1) : \E i \in DOMAIN File : File[i] = n

(* With one receiver the rows are written past their end only by as many   *)
(* packets as there are rows, or by the end of the stream, which is        *)
(* received as packets without end.                                        *)
OverrunHasCause ==
  (damaged \/ exit = "crash") /\ setups = 1 =>
    packets >= Rows \/ (conn = "down" /\ args.transport = "TCP")

(* With one receiver the client ends with its log only when the period is  *)
(* over, or when the local time came to midnight or jumped in between: the *)
(* difference of the time stamps is then that of neither.                  *)
LoggedOnTime ==
  exit = "logged" /\ setups = 1 /\ ~damaged => elapsed >= Period \/ disturbed

(* What the usage texts say of the host: a name will do, and the client    *)
(* talks to the machine it names.                                          *)
HostReached == conn # "none" => Reached = "there"

(* A client that can still make a socket, while the server it would reach  *)
(* listens, connects, unless that server or the client ends.               *)
Connects ==
  mpc \in {"create", "asleep"} /\ descriptors < Descriptors /\ serving
    ~> (conn = "up" \/ ~serving \/ ~running)

(* A TCP client that has lost its server ends within the test period,      *)
(* though nobody types anything, unless the local time jumps meanwhile.    *)
EndsAfterServer ==
  conn = "down" /\ args.transport = "TCP" /\ rpc[1] # "unborn"
    ~> (~running \/ jumps > 0)
=============================================================================
