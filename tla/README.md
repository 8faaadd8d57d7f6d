# Verification of the UNV streaming server and client

TLA+ specifications of the UNV project (a video server and its client, C++),
the TLC runs that check them on small instances, and theorems about them with
proofs for TLAPS. Paths below are relative to the repository.

## The system

A *server* process (`Server/src`) reads video from a file or a camera, decodes
and re-encodes it, and sends it to one *client* process at a time
(`Client/src`), which writes what it receives to standard output, where a
player reads it. The user types SETUP, PLAY and QUIT at the client.

| part | where | state | operations |
|---|---|---|---|
| control session, server | `rtspServer.h` 410-498 | `iRTSP_State`, `RTSPSeqNb`, `objTCP_Socket`, `slp` | accept, receive, parse, reply, obey SETUP / PLAY / TEARDOWN |
| setup threads | `rtspServer.h` 288-382 | `iUDP_Sock[]`, `acc`, `structUDP_Client[]` | create, bind, listen, accept, read the client's welcome; any failure is `Die` |
| frame sender | `rtspServer.h` 233-259, 528-549 | `pFrameQ` | test the state, send |
| command line, server | `Server.cpp` 1005-1203, `Server.h` | `cliOpts` | read an option, check the mandatory ones |
| server process | `Server.cpp` 102-591, 1205 | `StopExecution`, frames, buffers, codecs, input, files | startup, CTRL+C, release, exit |
| video loop | `Server.cpp` 593-870 | `iFramesDecoded`, `packetVidDec` | read, check, decode, convert, save frame, encode, wait for PLAY, send, save, count |
| MJPEG over UDP | `Server.cpp` 742-808, `netClient.cpp` 297-334 | `pOutBufferVid`, `cRTP_Payload_local` | gather, cut, send; join, write |
| control session, client | `netClient.cpp` 229-242, 430-537 | `iRTSP_State`, `RTSPSeqNb`, `sReply` | connect with retries, send a request, wait for the reply |
| data path, client | `netClient.cpp` 245-427 | `iUDP_Sock[]` | open and greet; receive and write |
| client process | `runClient.cpp`, `netClient.cpp` 49-245, 430-617 | arguments, descriptors, the keyboard's last line | launch, check, try to connect, read a line, end |
| packet log | `netClient.cpp` 245-427, `SetTimer.h` | `start`, `stop`, `iPacketNoTotal`, `log_buffer` | stamp, log, write the file, end the client |
| TCP library | `*/src/TCPLib` | a descriptor | calls of the kernel, failures as exceptions |
| concurrent queue | `*/src/queue.cpp` | a queue, a mutex, a condition | declared by both, used by code that never runs |
| RTP packets | `*/src/RTPpacket.*` | header and payload | linked, never called |
| player, flow control, shared files | `Client/src/libVLC`, `player.cpp` | rate of a libVLC player | older path; the launcher now pipes into `vlc -` |
| port reader | `portToPipe.cpp` | - | a stand-alone tool |

How they interact. Main starts the RTSP thread, then the video thread, then
waits for CTRL+C. The RTSP thread serves one control connection at a time.
Every SETUP spawns detached setup threads, one per port, which store sockets
and the client's address in globals. The video thread spins on `slp` until a
first PLAY, then for each frame tests `iRTSP_State` and sends through those
globals. No lock protects any of them. The client talks on the control
connection from one thread and receives video on another.

What is hard: the setup threads of two SETUPs share their globals; only
`iRTSP_State` is reset between sessions; a frame is sent after the test that
allowed it; the client sleeps 5 ms instead of learning that the server is
ready; the welcome datagram is sent once; a client's death can end the server
(`Die`, SIGPIPE) or just its session (an exception); main frees memory without
waiting for the video thread; the client's retries use up descriptors; its log
has a fixed number of rows for packets at any rate and is timed by a local clock
that starts again at midnight and may jump; and the cutting of frames is full of off-by-ones.
`PROJECT.json` lists each of these hazards with its line.

What makes each part correct:

- *session*: one message in flight per client; both ends agree on the state;
  a session starts fresh; requests take effect once; frames only after PLAY;
  the server ends for known causes only; commands are answered.
- *process*: everything the loop uses is there; CTRL+C stops it promptly and
  surely; the frame limit; the loop waits for a PLAY only if an RTSP thread was
  started; a crash has one of the known causes; nothing used after release.
- *client*: it connects once a server is there; it ends once the server has
  gone; the log file has the packets in order and lacks at most the last; it is
  written on time; and its rows suffice.
- *MJPEG*: what comes out is what went in; damage by losses is contained;
  buffers stay bounded; every buffer sent is emptied.

## Modules

    Rtsp                    vocabulary: states, requests, what each end parses
    SessionPromise          abstract: what the control protocol promises
    UnvSession              the session: RTSP, setup and video threads, clients
    MCUnvSession            UnvSession with client symmetry for TLC
    UnvSessionProofs        theorems: LockStep, Agreement
    UnvSessionDataProofs    theorems: types, frames, ports, why the server ends
    UnvSessionPromiseProofs theorem: UnvSession implements SessionPromise
    CommandLine             what get_options makes of each option
    ServerProcess           main, CTRL+C and the video loop, over CommandLine
    MCServerProcess         ServerProcess with 14 command lines for TLC
    ServerProcessProofs     theorems about ServerProcess
    ClientProcess           launcher, retries, keyboard, receivers, packet log
    ClientProcessProofs     theorems about ClientProcess
    StreamPromise           abstract: what MJPEG over UDP promises
    MjpegStream             MJPEG over UDP from encoder to standard output
    MjpegStreamProofs       theorems: types, the stream without losses, the -o file
    MjpegStreamLossProofs   theorems: losses; MjpegStream implements StreamPromise
    QueuePromise            abstract: a queue whose operations are atomic
    ConcurrentQueue         the queue template, its mutex and its condition variable
    ConcurrentQueueProofs   theorems about ConcurrentQueue

How they fit. `UnvSession` is the meeting of both programs; `ServerProcess` and
`ClientProcess` are the two processes around it, each with the session reduced to
what the rest of the process can see of it; `MjpegStream` is what flows once a
session plays. What one of them takes as given another one shows, and the text
below says where.

### UnvSession

Control connections are reliable queues of messages `c2s[c]`, `s2c[c]`; a
recv returns one whole message, which is justified by `LockStep` (there is
never more than one). `backlog` holds connections not yet accepted. Data
sockets are named after the setup thread that created them; `bound` and
`listening` are the kernel's view of them, `pending` what waits on them
(connections for TCP, welcome datagrams for UDP). The kernel's rules for ports
(`PortTaken`, `CanBind`, `Autobind`, `Reachable`) are modelled from how the
code uses them and marked external in the map.

A step is what a thread does between two points at which another thread can
tell the difference. The reply and the change of state are two steps
(`Respond`, then `SpawnSetup`, `SetReady` / `ApplyPlay` / `ApplyTeardown`), so is
each socket call of a setup thread, and the test and the send of `addFrame`
(`AddFrame`, then `SendTCP` / `SendUDP`). A setup thread's blocking call stays on
the socket it was called with (`tfd`), whatever the global holds later.

The kernel may refuse a call for reasons outside the model: no descriptor for
`socket`, a port of another process, a datagram too long (an H.264 frame over UDP
is sent whole), no route, no buffer. The code looks at each of these results and
answers with `Die`, at any point of a setup thread (`SocketRefused`) and at any
datagram of video (`SendRefused`). What the sockets of the model decide by
themselves has actions of its own, with the messages of the code (`BindFails`,
`AcceptFails`, `SendUDPFails`), so that `EndsHaveCause` can tell which is which.

Abstractions: a server process that ends (`Die`) loses its state, so all its
variables go back to their first values and `exit` says why; a data connection
is the client at its far end; `setsockopt` is part of `Bind`; video is one unit
per frame, in the client's buffer or not; PAUSE and free-text signals, which
the server would answer but no client sends, are left out; the client joins
each thread that opens a port, so its keyboard thread does that work itself. A
failing `accept` of the RTSP thread is covered only at its start (`StartRtsp`).

`SessionPromise` has no sockets or threads: the server serves one client,
from INIT; a client has one request outstanding; a request moves the server's
session once, when it is answered; the client's view follows from answers.
The answers carry a sequence number that the server takes from the wrong line of
the request (`rtspServer.h` 215, see below). Each end stores the number it reads and neither compares it with anything:
what pairs a reply with its request is `LockStep` alone.

`KeepsPromise` is the refinement. Its mapping lets the server's state change
when the reply is sent, although the code assigns it later.

The transport is a variable that `Init` chooses and nothing changes: each end gets
it from its own command line, and the model takes them to agree.

### CommandLine and ServerProcess

`CommandLine` is `cliOpts` and the effect of one option on it. A word stands for
all the words the code does not tell apart; what is stored is what the code
stores, so the mode `FILE` becomes `FIL` (`Server.cpp` 1072: the copy is a character
short) and the comparison with `file` at 179 fails for every command line.

`ServerProcess` reads the command line one option at a time (`ParseOption`), because
some end the process in the middle: `-h` exits, a resolution without an `x` hands
a null pointer to `atoi`. `ReadOptions` has the checks that follow, in the code's
order. Then come startup, as stages that may each fail; the files, of which the
code checks little; the three threads; CTRL+C at any point; and release in the
code's order. The video loop has one place per use of a shared resource, and
`Uses` says what each place needs under the options given: a frame of MJPEG over
UDP is gathered at `send`, and sent or saved at `flush`, if at all. A second CTRL+C
finds the default handler and ends the process (`SecondInterruptEnds` in `TypeOK`). Using what has been
released may go well or crash; using a file that never opened crashes; a frame
file of `-s` that does not open is written to all the same. The session is
reduced to whether the RTSP thread runs and whether a PLAY has been obeyed
(`slp`). A negative port passes the checks but starts no RTSP thread; the loop
then sends nothing and does not wait, which is `WaitsForSomebody`. It says no more
than that a thread was started: if the RTSP thread has ended since, on a port it
could not bind, the loop does wait for a PLAY that nobody will obey.

### ClientProcess

The launcher and the client check the same arguments, one after the other. `Main`
then tries to connect: every try makes a socket and stores its descriptor over the
last (`TCPLib/Socket.cpp` 51), which stays open, so a client has as many tries as
descriptors (`NoDescriptorLeft`). A host name is accepted by the usage text and
understood by nobody: `inet_pton` leaves the address zero, `inet_addr` gives
INADDR_NONE (`HostReached`).

The keyboard thread reads lines. `getline` leaves the string alone once the input
has ended and nobody asks whether it has, so the last command is repeated
(`NextLines`): a SETUP until the descriptors are gone. The reply is waited for; an
exception of the control socket ends the thread and the client.

A receiving thread counts a packet, waits for it, takes the time, and logs it, or
writes the log and ends the client when the test period is over. `start`, `stop` and
`iPacketNoTotal` are globals, as in the code. Time is counted in ticks, and any number
of packets may come in one. A time stamp is the local time of day (`now`): it starts
again at midnight, and it may jump to any other (`LocalTimeJumps`: `SetTimer.h` asks
`localtime`, so the hour changes and the clock can be set). The difference of two
wraps at 2^32 (`Elapsed`). `elapsed` and `disturbed` are history: the time that has
really passed since the start, and whether midnight or a jump came in between. The
end of a TCP stream is received as a packet without bytes, again and again. So the
rows can be overrun by packets at a high rate and by the end of a stream, and by
nothing else (`OverrunHasCause`). A write past the rows ends the client or is noted
(`damaged`) and taken to hit no other variable; `LogInOrder` and `LoggedOnTime` say
nothing of a damaged client.

The file has the rows below the number of the last packet: a row 0 that no packet
has, and not the row of the packet that ended the period. `LogInOrder` asks for what
a reader of the file needs: every packet but perhaps the last, each once, in order.

The server is only whether it listens. What `UnvSession` says of it (one reply per
request, no video before a PLAY) is what `SendRequest`, the replies and
`ReceivePacket` take as given.

### MjpegStream

The n-th byte ever encoded is the number n, so losing, repeating and mixing
bytes are all visible. `buffer` is `pOutBufferVid` behind its header byte. The
chunk numbers the code writes over the buffer between two sends are modelled
(`Numbered`): they matter when the buffer is sent again. The channel loses
datagrams; it neither reorders nor duplicates them, for which the client has
no defence at all. By `OneBinderPerPort` a UDP server has one data socket per
port in its life, so one receiver is enough. A frame is assumed to fit
`pOutBufferVid` behind what it holds, and a chunk to fit a datagram.

Chunk numbers have seven bits, and 127 means the last chunk or the only one. A
flush therefore needs fewer than 128 chunks (`LargestAssumption`): a frame fits the
100000 bytes of `packetBufferVid` (`Server.cpp` 599) and a chunk holds
`MAX_FLUSH_BUFF_SIZE`, 20000 bytes, so there are a handful.

`KeepsStreamPromise` is the refinement of `StreamPromise`, which knows flushes and
what is written, and neither chunks nor numbers. A flush is settled when none of its
chunks is still to come; the next one is hurt when something of it, or the last
chunk of the one before, has been lost. The promise is off with `-o`, where nothing
is sent, and after a flush that filled its last chunk (`EveryFlushEnds`).

### ConcurrentQueue

Any threads call any operation of the template at any time. `op` and `pc` say
where a thread is: asking for the mutex, testing the queue, asleep, reading
the front, popping, unlocking, or, in `push`, past the unlock and about to
notify. `wait` gives up the mutex and falls asleep in one step and comes back
through the mutex to the test; it may wake for no reason. `empty` and `size`
are one operation: both read the queue under the mutex. The n-th value pushed
is the number n. `KeepsQueuePromise` is the refinement of `QueuePromise`, a plain
queue with atomic operations: one takes effect with the step that changes or reads
the queue, and `wait_and_pop` only on a value, however often it wakes up. Neither program reaches the code that would use its two
queues, so the module composes with nothing.

## Runs

| run | instance | shows |
|---|---|---|
| `session` | 2 clients, UDP and TCP, 2 SETUPs | `TypeOK`, `LockStep`, `Agreement`, `AtMostOneStrayFrame`, `OneBinderPerPort`, `EndsHaveCause`, `KeepsPromise` |
| `session_live` | 1 client, UDP and TCP, 1 SETUP, 2 ports, fairness | `Answered`, `VideoArrives` |
| `session_welcome` | 1 client | violated: `ServerSetUpFirst` |
| `process` | 14 command lines, limit of 2 frames, 4 packets, fairness | `TypeOK`, `HeldWhileStreaming`, `AtMostOneLateFrame`, `WaitsForSomebody`, `CrashNeedsFile`, `InterruptEnds` |
| `process_release` | the same | violated: `NoUseAfterRelease` |
| `process_file` | the same | violated: `FileModeReadsFile` |
| `client` | 3 descriptors, 4 rows, 4 packets, period of 2 in a day of 4, 1 jump, fairness | `TypeOK`, `LogInOrder`, `OverrunHasCause`, `LoggedOnTime`, `Connects`, `EndsAfterServer` |
| `client_host` | the same | violated: `HostReached` |
| `mjpeg` | thresholds 3 and 5, 4 frames of 1 to 12 bytes, 2 losses | `TypeOK`, `NoByteLostOrRepeated`, `OnlyForward`, `LossIsContained`, `PayloadBounded`, `KeepsStreamPromise` |
| `mjpeg_exact` | the same | violated: `EveryFlushEnds` |
| `mjpeg_saved` | the same, with -o | violated: `SavedVideoComplete` |
| `queue` | 3 threads, 3 pushes, fairness | `TypeOK`, `FirstInFirstOut`, `NoLostWakeup`, `SomebodyIsServed`, `KeepsQueuePromise` |

The six violated properties quote what the code or its documentation says and
are the findings of `PROJECT.json`. The models have two more disagreements of code
and text, which no run is spent on and which no checked property takes for right:

- `-z n` goes through n + 1 frames, where the usage text (`Server.cpp` 1183) says n:
  the limit is compared before the count goes up (858). `OneFrameOver` proves that
  it is never more than one frame too many.
- The server answers with no request's number: `rtspServer.h` 215 takes `tokens[1]`,
  the second word of the request line, where the comment at 208 says that the CSeq
  field is extracted (`Rtsp!ParsedCSeq`).

Bounds. Two clients are enough for a session to meet what another left; two SETUPs
for two setup threads on one port, by one client or two. Clients run once and type
any commands, so with those two bounds the session is finite. `UnwrappedAudio` adds
a second port, which no client opens; the code has it on (`rtspServer.h` 503). It is
on in `session_live`, where it may be counted before or after a SETUP. With two
clients and two SETUPs, four setup threads are more than TLC gets through, so
`session` has one port; that its safety properties hold for two is what their
theorems show. `Answered` and `VideoArrives` are checked with one client only: the
backlog is exercised by `session` alone. In `process` six command lines run, over
UDP with fragments, over TCP, with and without files, without a network, and by
DEFAULT; eight end while they are read, each in its own way. A source of four
packets passes a limit of two frames and leaves one to spare after CTRL+C. In
`client` three descriptors are one try to connect, a second one, and one for data,
or any of these without the rest; the four packets (`MaxPackets`) may all come in
one tick, and with four rows, of which the first stays empty, the fourth overruns
the log, as does a stream that ends before; three ticks (`Span`) are more than the
period of two; the local time jumps once (`MaxJumps`), to any time of day; a client
starts at midnight or one tick before it, so a period crosses it or does not. The
run has one receiver (`MaxSetups = 1`): with two the log is shared without a lock
and no property of it holds, which is why those properties are stated for one, and
the theorems show them for any `MaxSetups`. The MJPEG sizes give frames that are
gathered, flushed whole, cut with a rest, cut exactly and cut in three, from a
buffer that is empty or not. In `queue` three threads let two wait while one pushes,
or two push to one that waits; three pushes let a waiter find its value taken and
wait again.

Deadlock is not checked: every one of these systems may stop for good (clients
leave, the server ends, the source does, nobody pushes any more).

Fairness. In `session_live` threads that can run do: the RTSP thread, the video
thread while the source lasts, every setup thread, every client's two threads.
Nobody has to type, to leave or to stop anything. In `process` only main is fair,
so `InterruptEnds` does not lean on the video thread or on a PLAY. In `client` main
is (its sleeps end), so is time, and so are receivers that have something to do;
the user need type nothing, a server need neither come nor go, and a packet need
not arrive. In `queue` an operation once begun goes on (weak fairness) and a
thread that asks for the mutex again and again gets it in the end (strong
fairness: a scheduler that starves no thread). Nobody has to call anything.

## Proofs

`UnvSessionProofs`, for any clients, either transport, any number of SETUPs and ports:

- The invariant for the types, `TypeInv`, is `SessionTypeOK` with two facts that
  make it inductive: a thread past a socket call has the socket it
  uses, and the RTSP thread in the middle of a request has a client and a request.
- `LockStepHolds` and `EndsAgree`. Neither is inductive: agreement at rest
  follows from what is under way. The invariant `Synced` adds that a request in
  flight is the one the client waits for (`RequestKept`), that a client nobody
  serves is still in its first state or gone (`Unserved`), and how the two ends'
  states differ at each stage of a request (`EndsMeet`).

`UnvSessionDataProofs`, from the same invariants:

- `TypeCorrect`: `Spec => []TypeOK`, of which `TransportOK` needs that a setup thread
  calls what its transport asks for.
- `OneBinderHolds`: `Binders` says that a thread past `bind` owns its port in the
  kernel's table, so a second one is refused.
- `OneStrayFrame`: `Invited` ties the client the server can know of to the one it
  serves, and shows that without a PLAY of its own the state is not PLAYING: only a
  test that passed before the state was reset lets a frame through, and there is
  one video thread.
- `ServerEndsForCause`: with at most one SETUP obeyed each setup thread has its slot
  and its socket to itself (`Sole`), so no call of it fails over another thread's
  socket; a stream needs a client that has left to break; a datagram goes
  nowhere only if no client has introduced itself. What is left is a kill, or the
  kernel's refusal.

`UnvSessionPromiseProofs`: `PromiseKept` is the refinement `KeepsPromise`, for any
clients, either transport and any number of SETUPs. It needs that no queue ever
holds two messages, of clients that have gone and of a server that has ended too
(`OneMessage`): then the whole message a recv takes is the message the promise
speaks of. One lemma per kind of step says what it is to `SessionPromise` (accept,
receive, respond, abandon, join, ask, learn, leave, halt); the rest stutter.

`ServerProcessProofs`, for any command lines, limit and length of the source:

- `ProcessTypes`: type correctness, with nothing both held and released, and the
  default handler in place once the flag is up.
- `OneLateFrame`: the frame past the check when the flag is raised is the only
  one; the invariant counts it until it comes back to the check (`Late`).
- `OneFrameOver`: `processed` follows `iFramesDecoded`, which stops at the limit
  (`Counted`). The off-by-one is in the code.
- `StreamingHoldsAll`: the loop runs only after all stages of the startup, and main
  releases only after the flag (`Order`).
- `WaitIsAnswerable`: the RTSP thread is started, if it is, before the video thread
  (`Net`).
- `CrashHasCause`: files are the last thing released, and an open file is held
  until then (`FilesLast`).
- `NeverAFile`: no command line makes the input a file. This is the cause of the
  finding of `process_file`, for all command lines.

`ClientProcessProofs`, for any number of descriptors, rows and receivers and any
lengths of period, day and time stamp that the assumptions allow:

- `ClientTypes`: types; the bound on descriptors is part of them, and that the
  keyboard thread has a connection.
- `LogIsOrdered`, `OverrunNeedsCause`, `OnTimeUnlessDisturbed`, each where there is one
  receiver. The invariant `Single` says that undisturbed local time keeps pace with the
  time that passes (`Pace`), that the number of the packet and of the row go together
  until the rows or the stream end (`Numbers`), and what the rows hold
  (`RowsLogged`). The lemma `Difference` is the arithmetic of the clock: the wrapped
  difference of two time stamps in order is the time between them. No rate of packets
  is assumed; that a day fits a time stamp is (`WordAssumption`).

`ConcurrentQueueProofs`, for any finite set of threads:

- `QueueTypes`: types and mutual exclusion. The invariant `Inv` adds what a thread
  knows between the test and the pop (`FrontOK`): the queue is not empty and its
  front is the value read.
- `Fifo`: from `Inv`, a pop takes the first of what is left.
- `WakeupsReach`: `NoLostWakeup` is inductive beside `Inv`. It counts the threads that
  see to a value (`Busy`): a push adds one with its value, a notify hands the duty
  from the pusher to the thread it wakes, and only a pop ends it.
- `QueuePromiseKept` is the refinement `KeepsQueuePromise`, step by step from `Inv`: a
  push, a pop and a look at the queue are the effects, the end of an operation its
  return, and locking, waiting, waking and reading the front are invisible.

`MjpegStreamProofs`, for any thresholds, frame sizes, frames and losses:

- `StreamTypes`: types; no chunk is empty, and there is something to send exactly
  while the thread sends.
- `StreamIsWhole` and `StreamGoesForward`. `ChunksJoin` shows that the chunks of a
  buffer of any length are the pieces between increasing cuts (`Cut`) from its start
  to its end, so that together they are the buffer. `StreamStep` then says what a
  step can do to the stream, output to buffer: leave it, add a frame at its end, or
  take a piece out, which takes a loss or the file. What was encoded stays whole
  under the first two; an increasing stream stays increasing under all three. What
  `FlattenSeq` yields follows by induction on the number of pieces, in a form
  without an operator parameter (`SetInduction`).

- `SavedUnlessGathered`: with `-o`, if every frame is at least `MIN_FLUSH_BUFF_SIZE`
  long, `SavedVideoComplete` holds. Gathering is thus the one cause of the finding of
  `mjpeg_saved`.

`MjpegStreamLossProofs`, for any thresholds, frame sizes, frames and losses. A flush
and a chunk are intervals of the bytes encoded. The server's part of the invariant
(`ServerGood`, `NetGood`) says which: each flush begins where the one before ended, the
buffer is what has been encoded since, and the chunks still to come, under way or not
yet sent, form a chain of intervals (`Chain`): each begins where the one before
ended, and a chunk is marked as the last exactly if it ends its flush. The client's
part (`ClientGood`) says what the client has from where that chain begins: which
chunks were missed (`MissedGood`), that nothing written is of a flush to come (`Behind`), that an undamaged flush starts
from an empty payload and gathers its own bytes only (`CleanStart`, `Gathered`), and
that each undamaged flush that is settled has been written (`AllWritten`).

- `OnlyAlignedFlushesDoNotEnd`: a flush that leaves bytes behind has filled its last
  chunk. This is the one cause of the finding of `mjpeg_exact`.
- `StreamContainsLoss` and `StreamPayloadBounded`: the two invariants of `mjpeg` about
  losses. The bound on the payload counts the last chunks lost; each lets the client
  gather one flush more.
- `StreamPromiseKept`: the refinement `KeepsStreamPromise`. A flush is `Flush`, a loss is
  `Damage` or, of a last chunk, `JoinNext`; a receipt is `WriteWhole` or `WriteDamaged`
  if it writes; the rest stutter.

Only model-checked: the liveness properties (`Answered`, `VideoArrives`,
`InterruptEnds`, `Connects`, `EndsAfterServer`, `SomebodyIsServed`), which need fairness
and ENABLED and are out of the prover's reach. The six violated properties are
counterexamples of TLC's; of three of them a theorem gives the cause.

## Not modelled

The pictures (what libav computes), RTP packing (linked, never called), the libVLC
player, its rate control and its shared files (the launcher no longer starts it), `portToPipe`, the figures the server's timers print, `-v`, the
descriptor the server's `accept` loses (it ends a server only after about a thousand
clients); a log shared by two receivers; code that is never reached
(`addAudioFrame`, `startUDP`, the body of `resetBuffer`, the audio loop).
`PROJECT.json` gives the reason for each.

## Plan

Done: 1. `Rtsp`, `SessionPromise`, `UnvSession` and proofs. 2. `ServerProcess` and
proofs. 3. `MjpegStream`. 4. `ConcurrentQueue` and proofs. 5. Proofs of
`OneBinderPerPort`, `AtMostOneStrayFrame`, `EndsHaveCause` and the refinement.
6. The command line, composed with `ServerProcess`. 7. `ClientProcess` with the
descriptors of its retries, the log and the time stamp in local time, and proofs.
8. Types of `MjpegStream`, that a buffer's chunks partition it, and the stream.
9. Losses of `MjpegStream`, `StreamPromise` and the refinement. 10. `QueuePromise` and
its refinement.

Left, in this order:

11. RTP header packing and unpacking against a reference definition.
12. The older player's loop: shared files, the end signal, the rate control.
13. The server's descriptors: the one `accept` loses, and the bound at which the
    server stops accepting.
