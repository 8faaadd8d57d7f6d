------------------------ MODULE ClientProcessProofs ------------------------
(***************************************************************************)
(* Invariants of ClientProcess for every number of rows, length of the     *)
(* test period and time of day; what the log says holds of a client with   *)
(* one receiving thread, the others being counted by setups.               *)
(***************************************************************************)
EXTENDS ClientProcess, Integers, TLAPS

Early == {"launcher", "arguments", "create", "connect", "asleep"}

(* Nothing but main runs before the connection, and the threads that were  *)
(* never started do not run.                                               *)
Stages ==
  /\ mpc \in Early => conn = "none" /\ kpc = "off"
  /\ \A r \in Receivers : r > setups => rpc[r] = "unborn"

Alone == running /\ setups <= 1
Busy == Alone /\ rpc[1] \in {"count", "recv", "stamp", "log"}
Ended == conn = "down" /\ args.transport = "TCP"
Shut == 1 \in closed
Holding == rpc[1] \in {"stamp", "log"}

(* Before the one receiver starts nothing is counted or logged. *)
Idle ==
  Alone /\ rpc[1] \in {"unborn", "start"} =>
    /\ packets = 0 /\ iPacketNoTotal = 0 /\ closed = {} /\ ~damaged
    /\ log = [i \in 0..(Rows - 1) |-> 0]

(* While nothing disturbs it the local time keeps pace with what passes.   *)
Pace ==
  Busy /\ ~disturbed =>
    /\ now = start + elapsed
    /\ rpc[1] = "log" => start <= stop /\ stop <= now

(* The counter is the number of packets, one ahead while one is waited     *)
(* for, until the stream has ended, or the rows.                           *)
Capped(n) == IF n < Rows THEN n ELSE Rows
Ahead == packets < iPacketNoTotal \/ iPacketNoTotal = Rows
Numbers ==
  Busy =>
    /\ Shut => Ended /\ Ahead
    /\ rpc[1] = "count" /\ ~Shut => iPacketNoTotal = Capped(packets)
    /\ rpc[1] = "recv" /\ ~Shut => iPacketNoTotal = Capped(packets + 1)
    /\ Holding => \/ got[1] = packets /\ packets > 0 /\ iPacketNoTotal = Capped(packets)
                  \/ got[1] = 0 /\ Shut

(* Each packet is in the row of its number, except one still held.         *)
Logged == IF Holding /\ got[1] # 0 THEN packets - 1 ELSE packets
RowsLogged ==
  Busy => \A i \in 0..(Rows - 1) : log[i] = IF i <= Logged THEN i ELSE 0

Overrun == packets >= Rows \/ Ended

Single == Idle /\ Pace /\ Numbers /\ RowsLogged
Promises == LogInOrder /\ OverrunHasCause /\ LoggedOnTime
Inv == TypeOK /\ Stages /\ Single /\ Promises

USE DescriptorsAssumption, MaxSetupsAssumption, BoundsAssumption, RowsAssumption,
    PeriodAssumption, DayAssumption, WordAssumption

-----------------------------------------------------------------------------
(* The time stamps *)

(* The difference of two time stamps in order is the time between them.    *)
LEMMA Difference ==
  ASSUME start \in 0..(Day - 1), stop \in 0..(Day - 1), start <= stop
  PROVE  Elapsed = stop - start
<1> DEFINE d == stop - start
<1>1. Word \in Nat \ {0} /\ d \in 0..(Word - 1)
  OBVIOUS
<1>2. Word + stop - start = Word + d
  OBVIOUS
<1> HIDE DEF d
<1>3. (Word + d) % Word = d
  BY <1>1
<1> QED
  BY <1>2, <1>3 DEF Elapsed, d

-----------------------------------------------------------------------------
(* Types and stages *)

(* What a receiver changes of the types. *)
ReceiverTypesOK ==
  /\ got \in [Receivers -> Nat] /\ closed \subseteq Receivers
  /\ {start, stop, now} \subseteq 0..(Day - 1)
  /\ elapsed \in Nat /\ disturbed \in BOOLEAN /\ jumps \in 0..MaxJumps
  /\ packets \in Nat /\ iPacketNoTotal \in 0..Rows
  /\ log \in [0..(Rows - 1) -> Nat] /\ damaged \in BOOLEAN

LEMMA InitInv == Init => Inv
<1> SUFFICES ASSUME Init PROVE Inv
  OBVIOUS
<1> USE DEF Init
<1>1. TypeOK
  <2>1. /\ 0 \in 0..Descriptors /\ 0 \in 0..MaxSetups /\ 0 \in 0..Rows
        /\ 0 \in 0..MaxJumps /\ {start, stop, now} \subseteq 0..(Day - 1)
    OBVIOUS
  <2>2. /\ log \in [0..(Rows - 1) -> Nat]
        /\ rpc \in [Receivers -> {"unborn", "start", "count", "recv", "stamp", "log"}]
        /\ got \in [Receivers -> Nat]
    OBVIOUS
  <2>3. mpc \in {"launcher", "arguments", "create", "connect", "asleep", "keyboard", "exited"}
    OBVIOUS
  <2> QED
    BY <2>1, <2>2, <2>3 DEF TypeOK, Requests
<1>2. Stages /\ Single /\ Promises
  BY DEF Stages, Single, Promises, Alone, Busy, Idle, Pace, Numbers, RowsLogged, LogInOrder,
         OverrunHasCause, LoggedOnTime, Receivers
<1> QED
  BY <1>1, <1>2 DEF Inv

LEMMA ExitTypes ==
  ASSUME TypeOK, Stages, NEW how,
         how \in {"usage", "quit", "lost", "failure", "crash", "SIGPIPE"}, Exit(how)
  PROVE  TypeOK' /\ Stages'
BY DEF TypeOK, Stages, Exit, netVars, logVars, timeVars, Early

LEMMA MainTypes ==
  ASSUME TypeOK, Stages, Main
  PROVE  TypeOK' /\ Stages'
<1> USE DEF TypeOK, Stages, Proceed, netVars, keyVars, logVars, timeVars, Early
<1>1. ASSUME NEW from, NEW to, Check(from, to), from \in Early, to \in Early
      PROVE  TypeOK' /\ Stages'
  <2>1. CASE Exit("usage")
    BY <2>1, ExitTypes
  <2>2. CASE mpc' = to /\ UNCHANGED <<args, exit, descriptors, netVars, keyVars, logVars, timeVars>>
    <3>1. mpc \in Early
      BY <1>1 DEF Check
    <3> QED
      BY <1>1, <2>2, <3>1
  <2> QED
    BY <1>1, <2>1, <2>2 DEF Check
<1>2. CASE Launch \/ CheckArguments
  BY <1>1, <1>2 DEF Launch, CheckArguments
<1>3. CASE CreateSocket
  <2>1. descriptors' \in 0..Descriptors
    BY <1>3 DEF CreateSocket
  <2>2. mpc = "create" /\ mpc' = "connect"
        /\ UNCHANGED <<args, exit, logVars, timeVars, netVars, keyVars>>
    BY <1>3 DEF CreateSocket
  <2> QED
    BY <2>1, <2>2
<1>5. CASE NoDescriptorLeft
  BY <1>5 DEF NoDescriptorLeft
<1>4. CASE ConnectSocket \/ ConnectFails \/ TryAgain
  BY <1>4 DEF ConnectSocket, ConnectFails, TryAgain
<1> QED
  BY <1>2, <1>3, <1>4, <1>5 DEF Main

LEMMA KeyboardTypes ==
  ASSUME TypeOK, Stages, Keyboard
  PROVE  TypeOK' /\ Stages'
<1> USE DEF TypeOK, Stages, Ask, Replied, mainVars, netVars, logVars, timeVars, Early
<1>1. CASE ReadLine
  <2>1. \A next \in NextLines : next[1] \in Requests \union {"other"} /\ next[2] \in {"open", "ended"}
    BY DEF NextLines, Lines
  <2>2. line' \in Requests \union {"other"} /\ stdin' \in {"open", "ended"}
    BY <1>1, <2>1 DEF ReadLine
  <2>3. /\ kpc = "prompt" /\ kpc' \in {"send", "prompt"}
        /\ UNCHANGED <<descriptors, setups, playing, logVars, mainVars, netVars, timeVars>>
    BY <1>1 DEF ReadLine
  <2> QED
    BY <2>2, <2>3
<1>2. CASE SendRequest
  <2>1. playing' \in BOOLEAN
    BY <1>2 DEF SendRequest
  <2>2. /\ kpc = "send" /\ kpc' = "reply"
        /\ UNCHANGED <<descriptors, stdin, line, setups, logVars, mainVars, netVars, timeVars>>
    BY <1>2 DEF SendRequest
  <2> QED
    BY <2>1, <2>2
<1>5. CASE ReplyToPlay \/ ReplyToSetup
  BY <1>5 DEF ReplyToPlay, ReplyToSetup
<1>3. CASE OpenData
  BY <1>3 DEF OpenData, Receivers
<1>4. CASE ServerLost \/ Quit \/ OpenDataFails
  BY <1>4, ExitTypes DEF ServerLost, Quit, OpenDataFails
<1> QED
  BY <1>1, <1>2, <1>3, <1>4, <1>5 DEF Keyboard

LEMMA RowTypes ==
  ASSUME TypeOK, NEW r \in Receivers, LogRow(r)
  PROVE  log' \in [0..(Rows - 1) -> Nat] /\ damaged' \in BOOLEAN
BY DEF LogRow, TypeOK

(* What a step of a receiver leaves alone. *)
LEMMA ReceiveTypes ==
  ASSUME TypeOK, Stages, NEW r \in Receivers, NEW from, NEW to,
         from # "unborn", to \in {"count", "recv", "stamp", "log"}, Receive(r, from, to),
         ReceiverTypesOK'
  PROVE  TypeOK' /\ Stages'
<1> USE DEF Receive, mainVars, netVars, keyVars
<1>1. rpc' \in [Receivers -> {"unborn", "start", "count", "recv", "stamp", "log"}]
  BY DEF TypeOK
<1>2. UNCHANGED <<args, mpc, exit, descriptors, serving, conn, kpc, stdin, line, setups, playing>>
  OBVIOUS
<1>3. TypeOK'
  <2>1. /\ args' \in Arguments /\ descriptors' \in 0..Descriptors /\ setups' \in 0..MaxSetups
        /\ serving' \in BOOLEAN /\ playing' \in BOOLEAN
        /\ line' \in Requests \union {"other"} /\ stdin' \in {"open", "ended"}
    BY <1>2 DEF TypeOK
  <2>2. /\ mpc' \in {"launcher", "arguments", "create", "connect", "asleep", "keyboard", "exited"}
        /\ exit' \in {"running", "usage", "quit", "lost", "failure", "logged", "crash", "SIGPIPE"}
        /\ conn' \in {"none", "up", "down"}
        /\ kpc' \in {"off", "prompt", "send", "reply", "open"}
        /\ kpc' # "off" => mpc' = "keyboard" /\ conn' # "none"
    BY <1>2 DEF TypeOK
  <2> HIDE DEF Receive, mainVars, netVars, keyVars
  <2> QED
    BY <1>1, <2>1, <2>2 DEF TypeOK, ReceiverTypesOK
<1>4. Stages'
  BY DEF TypeOK, Stages, Early
<1> QED
  BY <1>3, <1>4

LEMMA ReceiverTypes ==
  ASSUME TypeOK, Stages, NEW r \in Receivers, Receiver(r)
  PROVE  TypeOK' /\ Stages'
<1>0. ReceiverTypesOK
  BY DEF TypeOK, ReceiverTypesOK
<1> USE DEF timeVars, ReceiverTypesOK
<1>1. CASE StartReceiving(r)
  <2>1. ReceiverTypesOK' /\ Receive(r, "start", "count")
    BY <1>0, <1>1 DEF StartReceiving
  <2> QED
    BY <2>1, ReceiveTypes
<1>2. CASE Count(r)
  <2>1. Counted \in 0..Rows
    BY <1>0 DEF Counted
  <2>2. ReceiverTypesOK' /\ Receive(r, "count", "recv")
    BY <1>0, <1>2, <2>1 DEF Count
  <2> QED
    BY <2>2, ReceiveTypes
<1>3. CASE ReceivePacket(r)
  <2>1. ReceiverTypesOK' /\ Receive(r, "recv", "stamp")
    BY <1>0, <1>3 DEF ReceivePacket
  <2> QED
    BY <2>1, ReceiveTypes
<1>4. CASE ReceiveEnd(r)
  <2>1. ReceiverTypesOK' /\ Receive(r, "recv", "stamp")
    BY <1>0, <1>4 DEF ReceiveEnd
  <2> QED
    BY <2>1, ReceiveTypes
<1>5. CASE StampPacket(r)
  <2>1. ReceiverTypesOK' /\ Receive(r, "stamp", "log")
    BY <1>0, <1>5 DEF StampPacket
  <2> QED
    BY <2>1, ReceiveTypes
<1>6. CASE LogPacket(r)
  <2>1. log' \in [0..(Rows - 1) -> Nat] /\ damaged' \in BOOLEAN
    BY <1>6, RowTypes DEF LogPacket
  <2>2. ReceiverTypesOK' /\ Receive(r, "log", "count")
    BY <1>0, <1>6, <2>1 DEF LogPacket
  <2> QED
    BY <2>2, ReceiveTypes
<1>7. CASE EndOfPeriod(r)
  <2>1. log' \in [0..(Rows - 1) -> Nat] /\ damaged' \in BOOLEAN
    BY <1>7, RowTypes DEF EndOfPeriod
  <2>2. /\ exit' \in {"logged", "failure"} /\ mpc' = "exited" /\ kpc' = "off"
        /\ UNCHANGED <<args, descriptors, netVars, stdin, line, setups, playing,
                       rpc, got, closed, start, stop, packets, iPacketNoTotal, timeVars>>
    BY <1>7 DEF EndOfPeriod
  <2>3. TypeOK'
    BY <2>1, <2>2 DEF TypeOK, netVars
  <2>4. Stages'
    BY <2>2 DEF Stages, Early, netVars
  <2> QED
    BY <2>3, <2>4
<1>8. CASE LogCrashes(r) \/ BrokenPipe(r)
  BY <1>8, ExitTypes DEF LogCrashes, BrokenPipe
<1> QED
  BY <1>1, <1>2, <1>3, <1>4, <1>5, <1>6, <1>7, <1>8 DEF Receiver

(* Local time stays within the day. *)
LEMMA TimeTypes ==
  ASSUME TypeOK, Tick \/ LocalTimeJumps
  PROVE  {start', stop', now'} \subseteq 0..(Day - 1) /\ elapsed' \in Nat /\ jumps' \in 0..MaxJumps
<1>1. now' \in 0..(Day - 1)
  <2>1. ASSUME NEW n \in Nat PROVE n % Day \in 0..(Day - 1)
    OBVIOUS
  <2>2. now + 1 \in Nat
    BY DEF TypeOK
  <2>3. CASE now' = (now + 1) % Day
    BY <2>1, <2>2, <2>3
  <2> QED
    BY <2>3 DEF Tick, LocalTimeJumps
<1>2. {start', stop'} \subseteq 0..(Day - 1)
  BY DEF TypeOK, Tick, LocalTimeJumps, logVars
<1>3. elapsed' \in Nat /\ jumps' \in 0..MaxJumps
  <2>1. MaxJumps \in Nat /\ elapsed \in Nat /\ jumps \in 0..MaxJumps
    BY DEF TypeOK
  <2>2. CASE Tick
    BY <2>1, <2>2 DEF Tick
  <2>3. CASE LocalTimeJumps
    BY <2>1, <2>3 DEF LocalTimeJumps
  <2> QED
    BY <2>2, <2>3
<1> QED
  BY <1>1, <1>2, <1>3

LEMMA WorldTypes ==
  ASSUME TypeOK, Stages, ServerStarts \/ ServerEnds \/ Tick \/ LocalTimeJumps
  PROVE  TypeOK' /\ Stages'
<1> USE DEF TypeOK, Stages, mainVars, netVars, keyVars, logVars, timeVars, Early
<1>1. CASE ServerStarts
  BY <1>1 DEF ServerStarts
<1>2. CASE ServerEnds
  <2>1. conn' \in {"none", "up", "down"} /\ serving' \in BOOLEAN
    BY <1>2 DEF ServerEnds
  <2>2. conn = "none" <=> conn' = "none"
    BY <1>2 DEF ServerEnds
  <2>3. UNCHANGED <<mainVars, descriptors, keyVars, logVars, timeVars>>
    BY <1>2 DEF ServerEnds
  <2> QED
    BY <2>1, <2>2, <2>3
<1>3. CASE Tick \/ LocalTimeJumps
  <2>1. {start', stop', now'} \subseteq 0..(Day - 1) /\ elapsed' \in Nat /\ jumps' \in 0..MaxJumps
    BY <1>3, TimeTypes
  <2>2. /\ disturbed' \in BOOLEAN
        /\ UNCHANGED <<mainVars, descriptors, netVars, keyVars, logVars>>
    BY <1>3 DEF Tick, LocalTimeJumps
  <2> QED
    BY <2>1, <2>2
<1> QED
  BY <1>1, <1>2, <1>3

-----------------------------------------------------------------------------
(* One receiver *)

SingleVars == <<exit, setups, logVars, timeVars>>

(* The steps that receive nothing. *)
LEMMA QuietStep ==
  ASSUME Single, Promises, UNCHANGED SingleVars, args'.transport = args.transport,
         conn = "down" => conn' = "down"
  PROVE  Single' /\ Promises'
<1> USE DEF SingleVars, logVars, timeVars
<1>1. Ended => Ended'
  BY DEF Ended
<1>2. UNCHANGED <<Alone, Busy, Holding, Logged, Shut, Ahead>>
  BY DEF Alone, Busy, Holding, Logged, Shut, Ahead, running
<1>3. Idle'
  BY <1>2 DEF Single, Idle
<1>4. Pace'
  BY <1>2 DEF Single, Pace
<1>5. Numbers'
  BY <1>1, <1>2 DEF Single, Numbers
<1>6. RowsLogged'
  BY <1>2 DEF Single, RowsLogged
<1>7. LogInOrder' /\ LoggedOnTime' /\ OverrunHasCause'
  BY DEF Promises, LogInOrder, LoggedOnTime, OverrunHasCause, File
<1> QED
  BY <1>3, <1>4, <1>5, <1>6, <1>7 DEF Single, Promises

(* Whatever ends the client but a full test period or a write past the rows. *)
LEMMA ExitStep ==
  ASSUME Single, Promises, NEW how, how \notin {"running", "logged"}, Exit(how),
         how = "crash" /\ setups = 1 => Overrun
  PROVE  Single' /\ Promises'
<1> USE DEF Exit, logVars, timeVars
<1>1. ~Alone' /\ ~Busy'
  BY DEF Alone, Busy, running
<1>2. Single'
  BY <1>1 DEF Single, Idle, Pace, Numbers, RowsLogged
<1>3. LogInOrder' /\ LoggedOnTime'
  BY DEF LogInOrder, LoggedOnTime
<1>4. OverrunHasCause'
  BY DEF Promises, OverrunHasCause, Overrun, Ended, netVars
<1> QED
  BY <1>2, <1>3, <1>4 DEF Promises

(* With two receivers or more nothing is claimed. *)
LEMMA ManyStep ==
  ASSUME setups' > 1, setups' \in Nat
  PROVE  Single' /\ Promises'
BY DEF Single, Promises, Idle, Pace, Numbers, RowsLogged, Alone, Busy, LogInOrder,
       LoggedOnTime, OverrunHasCause

LEMMA MainStep ==
  ASSUME Inv, Main
  PROVE  Single' /\ Promises'
<1> USE DEF Inv, netVars, keyVars, logVars, timeVars, SingleVars, Proceed
<1>1. ASSUME NEW from, NEW to, Check(from, to)
      PROVE  Single' /\ Promises'
  <2>1. CASE Exit("usage")
    BY <2>1, ExitStep
  <2>2. CASE UNCHANGED <<args, exit, descriptors, netVars, keyVars, logVars, timeVars>>
    BY <2>2, QuietStep
  <2> QED
    BY <1>1, <2>1, <2>2 DEF Check
<1>2. CASE Launch \/ CheckArguments
  BY <1>1, <1>2 DEF Launch, CheckArguments
<1>3. CASE CreateSocket \/ NoDescriptorLeft \/ ConnectFails \/ TryAgain
  BY <1>3, QuietStep DEF CreateSocket, NoDescriptorLeft, ConnectFails, TryAgain
<1>4. CASE ConnectSocket
  <2>1. conn # "down"
    BY <1>4 DEF ConnectSocket, Stages, Early
  <2> QED
    BY <1>4, <2>1, QuietStep DEF ConnectSocket
<1> QED
  BY <1>2, <1>3, <1>4 DEF Main

LEMMA KeyboardStep ==
  ASSUME Inv, Keyboard
  PROVE  Single' /\ Promises'
<1> USE DEF Inv, Ask, Replied, mainVars, netVars, timeVars, SingleVars
<1>1. CASE ReadLine \/ SendRequest \/ ReplyToPlay \/ ReplyToSetup
  BY <1>1, QuietStep DEF ReadLine, SendRequest, ReplyToPlay, ReplyToSetup
<1>2. CASE OpenData
  <2>0. setups \in Nat /\ setups' = setups + 1 /\ 1 \in Receivers
    BY <1>2 DEF OpenData, TypeOK, Receivers
  <2>1. CASE setups = 0
    <3>1. rpc[1] = "unborn" /\ rpc'[1] = "start"
      BY <1>2, <2>0, <2>1 DEF Stages, OpenData, TypeOK
    <3>2. Alone /\ Alone' /\ ~Busy'
      BY <1>2, <2>0, <2>1, <3>1 DEF Alone, Busy, OpenData, running
    <3>3. Idle'
      BY <1>2, <3>1, <3>2 DEF Single, Idle, OpenData
    <3>4. Pace' /\ Numbers' /\ RowsLogged'
      BY <3>2 DEF Pace, Numbers, RowsLogged
    <3>5. exit' = "running" /\ ~damaged'
      BY <1>2, <3>1, <3>2, <3>3 DEF OpenData, running, Idle
    <3>6. Promises'
      BY <3>5 DEF Promises, LogInOrder, LoggedOnTime, OverrunHasCause
    <3> QED
      BY <3>3, <3>4, <3>6 DEF Single
  <2>2. CASE setups > 0
    BY <2>0, <2>2, ManyStep
  <2> QED
    BY <2>0, <2>1, <2>2
<1>3. CASE ServerLost \/ Quit \/ OpenDataFails
  BY <1>3, ExitStep DEF ServerLost, Quit, OpenDataFails
<1> QED
  BY <1>1, <1>2, <1>3 DEF Keyboard

LEMMA ServerStep ==
  ASSUME Inv, ServerStarts \/ ServerEnds
  PROVE  Single' /\ Promises'
BY QuietStep DEF Inv, ServerStarts, ServerEnds, mainVars, keyVars, SingleVars

LEMMA TimeStep ==
  ASSUME Inv, Tick \/ LocalTimeJumps
  PROVE  Single' /\ Promises'
<1>0. /\ UNCHANGED <<mainVars, descriptors, netVars, keyVars, logVars>> /\ Timing
  BY DEF Tick, LocalTimeJumps
<1> USE DEF mainVars, netVars, keyVars, logVars
<1>1. UNCHANGED <<Alone, Busy, Ended, Holding, Logged, Shut, Ahead, running>>
  BY <1>0 DEF Alone, Busy, Ended, Holding, Logged, Shut, Ahead, running
<1>2. Alone => rpc[1] \notin {"unborn", "start"}
  <2>1. PICK r \in Receivers : rpc[r] \notin {"unborn", "start"}
    BY <1>0 DEF Timing
  <2>2. r <= setups /\ r \in Nat /\ r >= 1 /\ setups \in Nat
    BY <2>1 DEF Inv, Stages, TypeOK, Receivers
  <2> QED
    BY <2>1, <2>2 DEF Alone
<1>3. Idle'
  BY <1>0, <1>1, <1>2 DEF Idle
<1>4. Pace'
  <2> SUFFICES ASSUME Busy, ~disturbed' PROVE Pace'
    BY <1>1 DEF Pace
  <2>1. /\ ~disturbed /\ now # Day - 1
        /\ now' = (now + 1) % Day /\ elapsed' = elapsed + 1
    BY DEF Inv, TypeOK, Tick, LocalTimeJumps
  <2>2. now \in 0..(Day - 1) /\ start \in Nat /\ stop \in Nat /\ elapsed \in Nat
    BY DEF Inv, TypeOK
  <2>3. now' = now + 1
    BY <2>1, <2>2
  <2>4. now = start + elapsed /\ (rpc[1] = "log" => start <= stop /\ stop <= now)
    BY <2>1 DEF Inv, Single, Pace
  <2> QED
    BY <1>0, <2>1, <2>2, <2>3, <2>4 DEF Pace
<1>5. Numbers'
  BY <1>0, <1>1 DEF Inv, Single, Numbers
<1>6. RowsLogged'
  BY <1>0, <1>1 DEF Inv, Single, RowsLogged
<1>7. Promises'
  <2>1. exit' = "running"
    BY <1>0 DEF Timing, running
  <2>2. OverrunHasCause'
    BY <1>0, <2>1 DEF Inv, Promises, OverrunHasCause
  <2> QED
    BY <2>1, <2>2 DEF Promises, LogInOrder, LoggedOnTime
<1> QED
  BY <1>3, <1>4, <1>5, <1>6, <1>7 DEF Single

(* A step of a receiver while there is one is a step of that one. *)
LEMMA TheReceiver ==
  ASSUME TypeOK, Stages, NEW r \in Receivers, setups <= 1, rpc[r] # "unborn"
  PROVE  r = 1 /\ setups = 1
BY DEF TypeOK, Stages, Receivers

(* What a step of the one receiver must show for it all to hold after it. *)
LEMMA OneStep ==
  ASSUME Inv, NEW from, NEW to, Receive(1, from, to), setups = 1,
         to \in {"count", "recv", "stamp", "log"},
         Pace', Numbers', RowsLogged', damaged' => Overrun'
  PROVE  Single' /\ Promises'
<1> USE DEF Receive, mainVars, netVars, keyVars
<1>1. rpc'[1] = to /\ exit' = "running"
  BY DEF Inv, TypeOK, Receivers, running
<1>2. Idle'
  BY <1>1 DEF Idle
<1>3. Promises'
  BY <1>1 DEF Promises, LogInOrder, LoggedOnTime, OverrunHasCause, Overrun, Ended
<1> QED
  BY <1>2, <1>3 DEF Single

(* The state of the one receiver, spelled out. *)
LEMMA Facts ==
  ASSUME Inv, running, setups = 1, rpc[1] \notin {"unborn", "start"}
  PROVE  /\ Busy /\ Pace /\ Numbers /\ RowsLogged
         /\ 1 \in Receivers /\ packets \in Nat
         /\ start \in 0..(Day - 1) /\ stop \in 0..(Day - 1) /\ now \in 0..(Day - 1)
         /\ elapsed \in Nat /\ disturbed \in BOOLEAN
         /\ iPacketNoTotal \in 0..Rows /\ got \in [Receivers -> Nat]
         /\ log \in [0..(Rows - 1) -> Nat]
         /\ damaged => Overrun
<1>1. /\ 1 \in Receivers /\ packets \in Nat
      /\ start \in 0..(Day - 1) /\ stop \in 0..(Day - 1) /\ now \in 0..(Day - 1)
      /\ elapsed \in Nat /\ disturbed \in BOOLEAN
      /\ iPacketNoTotal \in 0..Rows /\ got \in [Receivers -> Nat]
      /\ log \in [0..(Rows - 1) -> Nat]
      /\ rpc[1] \in {"unborn", "start", "count", "recv", "stamp", "log"}
  BY DEF Inv, TypeOK, Receivers
<1>2. damaged => Overrun
  BY DEF Inv, Promises, OverrunHasCause, Overrun, Ended
<1> QED
  BY <1>1, <1>2 DEF Inv, Single, Busy, Alone

LEMMA StartStep ==
  ASSUME Inv, setups = 1, StartReceiving(1)
  PROVE  Single' /\ Promises'
<1>0. Receive(1, "start", "count")
  BY DEF StartReceiving
<1> USE DEF StartReceiving, Receive, mainVars, netVars, keyVars
<1>1. /\ packets = 0 /\ iPacketNoTotal = 0 /\ closed = {} /\ ~damaged
      /\ log = [i \in 0..(Rows - 1) |-> 0]
  BY DEF Inv, Single, Idle, Alone
<1>2. /\ rpc'[1] = "count" /\ start' = now /\ now' = now /\ now \in Nat /\ elapsed' = 0
      /\ packets' = 0 /\ iPacketNoTotal' = 0 /\ closed' = {} /\ log' = log /\ ~damaged'
  BY <1>1 DEF Inv, TypeOK, Receivers
<1>3. Pace'
  BY <1>2 DEF Pace
<1>4. Numbers'
  BY <1>2 DEF Numbers, Holding, Shut, Capped
<1>5. RowsLogged'
  BY <1>1, <1>2 DEF RowsLogged, Logged, Holding
<1>6. damaged' => Overrun'
  BY <1>1, <1>2
<1> HIDE DEF Receive
<1> QED
  BY <1>0, <1>3, <1>4, <1>5, <1>6, OneStep

LEMMA CountStep ==
  ASSUME Inv, setups = 1, Count(1)
  PROVE  Single' /\ Promises'
<1>0. Receive(1, "count", "recv")
  BY DEF Count
<1> USE DEF Count, Receive, mainVars, netVars, keyVars, timeVars
<1>1. rpc[1] = "count" /\ running
  OBVIOUS
<1>2. /\ rpc'[1] = "recv" /\ iPacketNoTotal' = Counted
      /\ UNCHANGED <<start, stop, timeVars, packets, got, closed, log, Ended, Shut, Overrun, damaged>>
  BY DEF Inv, TypeOK, Receivers, Ended, Shut, Overrun
<1>3. ~Holding /\ ~Holding'
  BY <1>1, <1>2 DEF Holding
<1>4. Pace'
  BY <1>1, <1>2, Facts DEF Pace
<1>5. Numbers'
  BY <1>1, <1>2, <1>3, Facts DEF Numbers, Counted, Capped, Ahead
<1>6. RowsLogged'
  BY <1>1, <1>2, <1>3, Facts DEF RowsLogged, Logged
<1>7. damaged' => Overrun'
  BY <1>1, <1>2, Facts
<1> HIDE DEF Receive
<1> QED
  BY <1>0, <1>4, <1>5, <1>6, <1>7, OneStep

LEMMA PacketStep ==
  ASSUME Inv, setups = 1, ReceivePacket(1)
  PROVE  Single' /\ Promises'
<1>0. Receive(1, "recv", "stamp")
  BY DEF ReceivePacket
<1> USE DEF ReceivePacket, Receive, mainVars, netVars, keyVars, timeVars
<1>1. rpc[1] = "recv" /\ running /\ ~Shut
  BY DEF Shut
<1>2. /\ rpc'[1] = "stamp" /\ packets' = packets + 1 /\ got'[1] = packets + 1
      /\ UNCHANGED <<start, stop, timeVars, iPacketNoTotal, log, closed, Shut, Ended, damaged>>
  BY DEF Inv, TypeOK, Receivers, Shut, Ended
<1>3. ~Holding /\ Holding'
  BY <1>1, <1>2 DEF Holding
<1>4. Pace'
  BY <1>1, <1>2, Facts DEF Pace
<1>5. Numbers'
  BY <1>1, <1>2, <1>3, Facts DEF Numbers
<1>6. Logged' = Logged
  <2>1. Logged' = packets' - 1
    BY <1>1, <1>2, <1>3, Facts DEF Logged
  <2> QED
    BY <1>1, <1>2, <1>3, <2>1, Facts DEF Logged
<1>7. RowsLogged'
  BY <1>1, <1>2, <1>6, Facts DEF RowsLogged
<1>8. damaged' => Overrun'
  BY <1>1, <1>2, Facts DEF Overrun
<1> HIDE DEF Receive
<1> QED
  BY <1>0, <1>4, <1>5, <1>7, <1>8, OneStep

LEMMA EndStep ==
  ASSUME Inv, setups = 1, ReceiveEnd(1)
  PROVE  Single' /\ Promises'
<1>0. Receive(1, "recv", "stamp")
  BY DEF ReceiveEnd
<1> USE DEF ReceiveEnd, Receive, mainVars, netVars, keyVars, timeVars
<1>1. rpc[1] = "recv" /\ running /\ Ended
  BY DEF Ended
<1>2. /\ rpc'[1] = "stamp" /\ got'[1] = 0 /\ Ended' /\ Shut'
      /\ UNCHANGED <<packets, start, stop, timeVars, iPacketNoTotal, log, damaged>>
  BY DEF Inv, TypeOK, Receivers, Ended, Shut
<1>3. ~Holding /\ Holding'
  BY <1>1, <1>2 DEF Holding
<1>4. Pace'
  BY <1>1, <1>2, Facts DEF Pace
<1>5. Ahead'
  BY <1>1, <1>2, Facts DEF Numbers, Ahead, Capped
<1>6. Numbers'
  BY <1>1, <1>2, <1>3, <1>5 DEF Numbers
<1>7. Logged' = Logged
  BY <1>1, <1>2, <1>3, Facts DEF Logged
<1>8. RowsLogged'
  BY <1>1, <1>2, <1>7, Facts DEF RowsLogged
<1>9. damaged' => Overrun'
  BY <1>1, <1>2, Facts DEF Overrun
<1> HIDE DEF Receive
<1> QED
  BY <1>0, <1>4, <1>6, <1>8, <1>9, OneStep

LEMMA StampStep ==
  ASSUME Inv, setups = 1, StampPacket(1)
  PROVE  Single' /\ Promises'
<1>0. Receive(1, "stamp", "log")
  BY DEF StampPacket
<1> USE DEF StampPacket, Receive, mainVars, netVars, keyVars, timeVars
<1>1. rpc[1] = "stamp" /\ running
  OBVIOUS
<1>2. /\ rpc'[1] = "log" /\ stop' = now
      /\ UNCHANGED <<packets, got, start, timeVars, iPacketNoTotal, log, closed, damaged,
                     Ended, Shut, Ahead, Overrun>>
  BY DEF Inv, TypeOK, Receivers, Ended, Shut, Ahead, Overrun
<1>3. Holding /\ Holding'
  BY <1>1, <1>2 DEF Holding
<1>4. Pace'
  BY <1>1, <1>2, Facts DEF Pace
<1>5. Numbers'
  BY <1>1, <1>2, <1>3, Facts DEF Numbers
<1>6. RowsLogged'
  BY <1>1, <1>2, <1>3, Facts DEF RowsLogged, Logged
<1>7. damaged' => Overrun'
  BY <1>1, <1>2, Facts
<1> HIDE DEF Receive
<1> QED
  BY <1>0, <1>4, <1>5, <1>6, <1>7, OneStep

(* The row is that of the packet held, or past them all. *)
LEMMA RowStep ==
  ASSUME Inv, running, setups = 1, rpc[1] = "log", LogRow(1)
  PROVE  /\ \A i \in 0..(Rows - 1) : log'[i] = IF i <= packets THEN i ELSE 0
         /\ damaged' => Overrun
         /\ ~damaged' => iPacketNoTotal < Rows /\ packets <= iPacketNoTotal
<1>1. Holding /\ packets \in Nat /\ iPacketNoTotal \in 0..Rows /\ (damaged => Overrun)
  BY Facts DEF Holding
<1>2. CASE got[1] = packets /\ packets > 0 /\ iPacketNoTotal = Capped(packets)
  <2>1. \A i \in 0..(Rows - 1) : log[i] = IF i <= packets - 1 THEN i ELSE 0
    BY <1>1, <1>2, Facts DEF RowsLogged, Logged
  <2>2. CASE packets < Rows
    <3>1. iPacketNoTotal = packets /\ log' = [log EXCEPT ![packets] = packets] /\ damaged' = damaged
      BY <1>1, <1>2, <2>2 DEF LogRow, Capped
    <3>2. \A i \in 0..(Rows - 1) : log'[i] = IF i = packets THEN packets ELSE log[i]
      BY <3>1, Facts
    <3> QED
      BY <1>1, <2>1, <2>2, <3>1, <3>2
  <2>3. CASE packets >= Rows
    <3>1. damaged' = TRUE /\ log' = log
      BY <1>1, <1>2, <2>3 DEF LogRow, Capped
    <3> QED
      BY <1>1, <2>1, <2>3, <3>1 DEF Overrun
  <2> QED
    BY <1>1, <2>2, <2>3
<1>3. CASE got[1] = 0 /\ Shut
  <2>1. \A i \in 0..(Rows - 1) : log[i] = IF i <= packets THEN i ELSE 0
    BY <1>1, <1>3, Facts DEF RowsLogged, Logged
  <2>2. Ended /\ Overrun /\ (packets < iPacketNoTotal \/ iPacketNoTotal = Rows)
    BY <1>3, Facts DEF Numbers, Overrun, Ahead
  <2>3. CASE iPacketNoTotal < Rows
    <3>1. log' = [log EXCEPT ![iPacketNoTotal] = 0]
      BY <1>3, <2>3 DEF LogRow
    <3>2. \A i \in 0..(Rows - 1) : log'[i] = IF i = iPacketNoTotal THEN 0 ELSE log[i]
      BY <3>1, Facts
    <3> QED
      BY <1>1, <2>1, <2>2, <2>3, <3>2
  <2>4. CASE ~(iPacketNoTotal < Rows)
    <3>1. damaged' = TRUE /\ log' = log
      BY <2>4 DEF LogRow
    <3> QED
      BY <2>1, <2>2, <3>1
  <2> QED
    BY <2>3, <2>4
<1> QED
  BY <1>1, <1>2, <1>3, Facts DEF Numbers

LEMMA LogStep ==
  ASSUME Inv, setups = 1, LogPacket(1)
  PROVE  Single' /\ Promises'
<1>0. Receive(1, "log", "count")
  BY DEF LogPacket
<1> USE DEF LogPacket, Receive, mainVars, netVars, keyVars, timeVars
<1>1. rpc[1] = "log" /\ running /\ Holding
  BY DEF Holding
<1>2. /\ rpc'[1] = "count" /\ ~Holding'
      /\ UNCHANGED <<packets, got, start, stop, timeVars, iPacketNoTotal, closed,
                     Ended, Shut, Ahead, Overrun>>
  BY DEF Inv, TypeOK, Receivers, Ended, Holding, Shut, Ahead, Overrun
<1>3. /\ \A i \in 0..(Rows - 1) : log'[i] = IF i <= packets THEN i ELSE 0
      /\ damaged' => Overrun
  BY <1>1, RowStep
<1>4. Pace'
  BY <1>1, <1>2, Facts DEF Pace
<1>5. Numbers'
  BY <1>1, <1>2, Facts DEF Numbers
<1>6. RowsLogged'
  BY <1>2, <1>3 DEF RowsLogged, Logged
<1> HIDE DEF Receive
<1> QED
  BY <1>0, <1>2, <1>3, <1>4, <1>5, <1>6, OneStep

LEMMA PeriodStep ==
  ASSUME Inv, setups = 1, EndOfPeriod(1)
  PROVE  Single' /\ Promises'
<1>1. rpc[1] = "log" /\ running /\ Holding /\ PeriodOver /\ LogRow(1)
  BY DEF EndOfPeriod, Holding
<1>2. /\ exit' \in {"logged", "failure"}
      /\ UNCHANGED <<args, conn, setups, packets, start, stop, iPacketNoTotal, elapsed, disturbed>>
  BY DEF EndOfPeriod, netVars, timeVars
<1>3. Single'
  BY <1>2 DEF Single, Idle, Pace, Numbers, RowsLogged, Busy, Alone, running
<1>4. /\ \A i \in 0..(Rows - 1) : log'[i] = IF i <= packets THEN i ELSE 0
      /\ damaged' => Overrun
      /\ ~damaged' => iPacketNoTotal < Rows /\ packets <= iPacketNoTotal
  BY <1>1, RowStep
<1>5. LogInOrder'
  <2> SUFFICES ASSUME ~damaged' PROVE LogInOrder'
    BY DEF LogInOrder
  <2>1. /\ iPacketNoTotal \in Nat /\ packets \in Nat
        /\ iPacketNoTotal < Rows /\ packets <= iPacketNoTotal
    BY <1>1, <1>4, Facts
  <2>2. DOMAIN File' = 0..(iPacketNoTotal - 1)
    BY <1>2 DEF File
  <2>3. \A i \in DOMAIN File' : File'[i] = IF i <= packets THEN i ELSE 0
    BY <1>2, <1>4, <2>1, <2>2 DEF File
  <2>4. \A i, j \in DOMAIN File' :
          File'[i] # 0 /\ File'[j] # 0 => (i < j <=> File'[i] < File'[j])
    BY <2>3
  <2>5. ASSUME NEW n \in 1..(packets - 1)
        PROVE  \E i \in DOMAIN File' : File'[i] = n
    <3>1. n \in DOMAIN File' /\ n <= packets
      BY <2>1, <2>2
    <3> QED
      BY <2>3, <3>1
  <2> QED
    BY <1>2, <2>4, <2>5 DEF LogInOrder
<1>6. LoggedOnTime'
  <2> SUFFICES ASSUME ~disturbed PROVE elapsed >= Period
    BY <1>2 DEF LoggedOnTime
  <2>1. /\ start \in 0..(Day - 1) /\ stop \in 0..(Day - 1) /\ now \in Nat /\ elapsed \in Nat
        /\ now = start + elapsed /\ start <= stop /\ stop <= now
    BY <1>1, Facts DEF Pace
  <2>2. stop - start >= Period
    BY <1>1, <2>1, Difference DEF PeriodOver
  <2> QED
    BY <2>1, <2>2
<1>7. OverrunHasCause'
  BY <1>2, <1>4 DEF OverrunHasCause, Overrun, Ended
<1> QED
  BY <1>3, <1>5, <1>6, <1>7 DEF Promises

LEMMA CrashStep ==
  ASSUME Inv, setups = 1, LogCrashes(1) \/ BrokenPipe(1)
  PROVE  Single' /\ Promises'
<1>1. CASE LogCrashes(1)
  <2>1. /\ rpc[1] = "log" /\ running /\ Holding /\ iPacketNoTotal = Rows /\ Exit("crash")
    BY <1>1 DEF LogCrashes, Holding
  <2>2. Overrun
    BY <2>1, Facts DEF Numbers, Overrun, Capped
  <2> QED
    BY <2>1, <2>2, ExitStep DEF Inv
<1>2. CASE BrokenPipe(1)
  BY <1>2, ExitStep DEF Inv, BrokenPipe
<1> QED
  BY <1>1, <1>2

LEMMA ReceiverStep ==
  ASSUME Inv, NEW r \in Receivers, Receiver(r)
  PROVE  Single' /\ Promises'
<1>1. rpc[r] # "unborn" /\ setups' = setups /\ setups \in Nat
  BY DEF Receiver, StartReceiving, Count, ReceivePacket, ReceiveEnd, StampPacket, LogPacket,
         EndOfPeriod, LogCrashes, BrokenPipe, Receive, Exit, keyVars, Inv, TypeOK
<1>2. CASE setups > 1
  BY <1>1, <1>2, ManyStep
<1>3. CASE setups <= 1
  <2>1. r = 1 /\ setups = 1
    BY <1>1, <1>3, TheReceiver DEF Inv
  <2> QED
    BY <2>1, StartStep, CountStep, PacketStep, EndStep, StampStep, LogStep, PeriodStep,
       CrashStep DEF Receiver
<1> QED
  BY <1>1, <1>2, <1>3

LEMMA NextInv ==
  ASSUME Inv, [Next]_vars
  PROVE  Inv'
<1>1. CASE Main
  BY <1>1, MainTypes, MainStep DEF Inv
<1>2. CASE Keyboard
  BY <1>2, KeyboardTypes, KeyboardStep DEF Inv
<1>3. CASE \E r \in Receivers : Receiver(r)
  BY <1>3, ReceiverTypes, ReceiverStep DEF Inv
<1>4. CASE ServerStarts \/ ServerEnds
  BY <1>4, WorldTypes, ServerStep DEF Inv
<1>5. CASE Tick \/ LocalTimeJumps
  BY <1>5, WorldTypes, TimeStep DEF Inv
<1>6. CASE UNCHANGED vars
  <2>1. TypeOK' /\ Stages'
    BY <1>6 DEF Inv, TypeOK, Stages, vars, mainVars, netVars, keyVars, logVars,
              timeVars, Early
  <2>2. Single' /\ Promises'
    BY <1>6, QuietStep DEF Inv, vars, mainVars, netVars, keyVars, logVars, timeVars, SingleVars
  <2> QED
    BY <2>1, <2>2 DEF Inv
<1> QED
  BY <1>1, <1>2, <1>3, <1>4, <1>5, <1>6 DEF Next

LEMMA Invariant == Spec => []Inv
<1>1. Inv /\ [Next]_vars => Inv'
  BY NextInv
<1> QED
  BY InitInv, <1>1, PTL DEF Spec

-----------------------------------------------------------------------------
(* Theorems *)

(* The client's variables keep their types whatever the constants are: no  *)
(* descriptor is opened past the limit, no row counted past the cap, and   *)
(* the keyboard thread runs on a connection only.                          *)
THEOREM ClientTypes == Spec => []TypeOK
BY Invariant, PTL DEF Inv

(* writelogfile writes the packets in the order they came, none twice and  *)
(* all but perhaps the last, whenever one receiver ran to the end of the   *)
(* period inside its rows.                                                 *)
THEOREM LogIsOrdered == Spec => []LogInOrder
<1>1. Inv => LogInOrder
  BY DEF Inv, Promises
<1> QED
  BY <1>1, Invariant, PTL

(* log_buffer is written past its end only after as many packets as it has *)
(* rows, at whatever rate they come, or by the packets of no bytes of a    *)
(* TCP stream that has ended.                                              *)
THEOREM OverrunNeedsCause == Spec => []OverrunHasCause
<1>1. Inv => OverrunHasCause
  BY DEF Inv, Promises
<1> QED
  BY <1>1, Invariant, PTL

(* The test period is not cut short but by midnight or by a jump of the    *)
(* local time: the unsigned difference of two stamps of an undisturbed     *)
(* stretch of the day is the time that has passed between them.            *)
THEOREM OnTimeUnlessDisturbed == Spec => []LoggedOnTime
<1>1. Inv => LoggedOnTime
  BY DEF Inv, Promises
<1> QED
  BY <1>1, Invariant, PTL
=============================================================================
