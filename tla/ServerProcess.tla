--------------------------- MODULE ServerProcess ---------------------------
(***************************************************************************)
(* The life of the server process around the RTSP session: the options it  *)
(* reads one by one, what main acquires before it spawns the video thread, *)
(* the video loop from reading a packet to counting its frame, CTRL+C, and *)
(* what main releases before it exits.  The session itself is UnvSession;  *)
(* here it is only whether the RTSP thread runs and whether a PLAY has     *)
(* cleared slp.                                                            *)
(***************************************************************************)
EXTENDS CommandLine, FiniteSets

CONSTANTS
  CommandLines,  \* the command lines the server may be started with
  Packets        \* bound: packets the source delivers before it ends

ASSUME CommandLinesAssumption == CommandLines \subseteq Seq(Arguments)
ASSUME PacketsAssumption == Packets \in Nat

VARIABLES
  argv,        \* the command line
  optind,      \* its next argument
  opts,        \* cliOpts
  mpc,         \* main thread
  stage,       \* startup stages completed
  source,      \* what the input is: "none", "file", "camera"
  held,        \* resources acquired and not released
  released,    \* resources released
  StopExecution,
  handler,     \* what SIGINT does: "default" or "signal_handler"
  rtsp,        \* RTSP thread: "none", "running", "ended"
  slp,         \* no PLAY yet
  vpc,         \* video thread
  packets,     \* packets read
  iFramesDecoded,
  exit,        \* "running", or how the process ended
  processed,   \* history: frames handed to the encoder
  late         \* history: frames sent, gathered or saved since StopExecution

mainVars == <<argv, optind, opts, mpc, stage, source, held, released>>
videoVars == <<vpc, packets, iFramesDecoded, processed, late>>
vars == <<mainVars, StopExecution, handler, rtsp, slp, videoVars, exit>>

running == exit = "running"

(* What main acquires, stage by stage, and must have before the next; any  *)
(* stage may fail, and fail(..., TRUE) then ends the process.              *)
Startup == <<{"contexts"}, {"frames"}, {"input"}, {"codecs"}, {"buffers"}>>

(* The files main opens: two for the video if it is to be saved, of which  *)
(* one has to open, that of the audio if it is to be saved, and the        *)
(* statistics, at whose fopen nobody looks.                                *)
VideoFiles == {"video file", "test.264"}
Files == VideoFiles \union {"audio file", "stats.csv"}

Resources == (UNION {Startup[i] : i \in 1..Len(Startup)}) \union Files

Networked == opts.networkport = "port"
Fragmented == opts.transport = "UDP" /\ opts.vcodec = "MJPEG"

(* What the video thread is using at each place of its loop. *)
Uses(place) ==
  CASE place = "read"    -> {"input"}
    [] place = "decode"  -> {"codecs", "frames"}
    [] place = "convert" -> {"frames", "buffers"}
    [] place = "save"    -> {"frames"}
    [] place = "encode"  -> {"codecs", "frames"}
    [] place = "send"    -> IF Fragmented THEN {"buffers"} ELSE {}
    [] place = "flush"   -> IF opts.savevideo THEN {"buffers", "video file"} ELSE {"buffers"}
    [] place = "log"     -> IF opts.savevideo THEN {"test.264", "stats.csv"} ELSE {"stats.csv"}
    [] OTHER             -> {}

Init ==
  /\ argv \in CommandLines /\ optind = 1 /\ opts = NoOptions
  /\ mpc = "options" /\ stage = 0 /\ source = "none" /\ held = {} /\ released = {}
  /\ StopExecution = FALSE /\ handler = "default"
  /\ rtsp = "none" /\ slp = TRUE
  /\ vpc = "unborn" /\ packets = 0 /\ iFramesDecoded = 0
  /\ exit = "running" /\ processed = 0 /\ late = 0

(* Whatever ends the process ends every thread of it. *)
Exit(how) ==
  /\ exit' = how
  /\ mpc' = "exited" /\ vpc' = "ended" /\ rtsp' = "ended"
  /\ UNCHANGED <<argv, optind, opts, stage, source, held, released, StopExecution, handler,
                 slp, packets, iFramesDecoded, processed, late>>

-----------------------------------------------------------------------------
(* Main thread *)

ParseOption ==
  /\ running /\ mpc = "options" /\ optind <= Len(argv)
  /\ \/ AsksForHelp(argv[optind]) /\ Exit("failure")
     \/ Malformed(argv[optind]) /\ Exit("option crash")
     \/ /\ ~AsksForHelp(argv[optind]) /\ ~Malformed(argv[optind])
        /\ opts' = Effect(opts, argv[optind]) /\ optind' = optind + 1
        /\ UNCHANGED <<argv, mpc, stage, source, held, released, StopExecution, handler, rtsp,
                       slp, videoVars, exit>>

(* Nothing to read, or an error in it, is no failure, an option that is    *)
(* missing is; and the mandatory options are asked for before a question   *)
(* is answered.                                                            *)
ReadOptions ==
  /\ running /\ mpc = "options" /\ optind = Len(argv) + 1
  /\ \/ (argv = <<>> \/ opts.error) /\ Exit("success")
     \/ argv # <<>> /\ ~opts.error /\ ~Mandatory(opts) /\ Exit("failure")
     \/ argv # <<>> /\ ~opts.error /\ Mandatory(opts) /\ opts.inquiry /\ Exit("success")
     \/ /\ argv # <<>> /\ ~opts.error /\ Mandatory(opts) /\ ~opts.inquiry
        /\ mpc' = "startup"
        /\ UNCHANGED <<argv, optind, opts, stage, source, held, released, StopExecution, handler,
                       rtsp, slp, videoVars, exit>>

(* The mode is compared with a word that is never stored. *)
Source == IF opts.mode = "file" THEN "file" ELSE "camera"

Acquire ==
  /\ running /\ mpc = "startup" /\ stage < Len(Startup)
  /\ stage' = stage + 1
  /\ held' = held \union Startup[stage + 1]
  /\ source' = IF "input" \in Startup[stage + 1] THEN Source ELSE source
  /\ UNCHANGED <<argv, optind, opts, mpc, released, StopExecution, handler, rtsp, slp, videoVars,
                 exit>>

StartupFails ==
  /\ running /\ mpc = "startup"
  /\ Exit("failure")

OpenFiles ==
  /\ running /\ mpc = "startup" /\ stage = Len(Startup)
  /\ \E opened \in SUBSET Files :
       /\ IF opts.savevideo THEN opened \intersect VideoFiles # {}
                            ELSE opened \intersect VideoFiles = {}
       /\ "audio file" \in opened <=> opts.saveaudio
       /\ held' = held \union opened
  /\ mpc' = "network"
  /\ UNCHANGED <<argv, optind, opts, stage, source, released, StopExecution, handler, rtsp, slp, videoVars, exit>>

StartNetwork ==
  /\ running /\ mpc = "network"
  /\ rtsp' = IF Networked THEN "running" ELSE "none"
  /\ mpc' = "spawn"
  /\ UNCHANGED <<argv, optind, opts, stage, source, held, released, StopExecution, handler, slp, videoVars, exit>>

SpawnVideo ==
  /\ running /\ mpc = "spawn"
  /\ vpc' = "read"
  /\ mpc' = "handler"
  /\ UNCHANGED <<argv, optind, opts, stage, source, held, released, StopExecution, handler, rtsp, slp, packets,
                 iFramesDecoded, processed, late, exit>>

SetHandler ==
  /\ running /\ mpc = "handler"
  /\ handler' = "signal_handler"
  /\ mpc' = "wait"
  /\ UNCHANGED <<argv, optind, opts, stage, source, held, released, StopExecution, rtsp, slp, videoVars, exit>>

(* When main may go on to release: it looks at the flag alone.             *)
(* (Mutants: at nothing; at the video thread too.)                         *)
NoWait == TRUE
JoinVideo == StopExecution /\ vpc = "ended"
StopSeen == StopExecution

LeaveLoop ==
  /\ running /\ mpc = "wait" /\ StopSeen
  /\ mpc' = "memory"
  /\ UNCHANGED <<argv, optind, opts, stage, source, held, released, StopExecution, handler,
                 rtsp, slp, videoVars, exit>>

(* The frames and buffers, the codecs, the input, the files, in this order. *)
Release(from, to, resources) ==
  /\ running /\ mpc = from
  /\ held' = held \ resources
  /\ released' = released \union (held \intersect resources)
  /\ mpc' = to
  /\ UNCHANGED <<argv, optind, opts, stage, source, StopExecution, handler, rtsp, slp, videoVars, exit>>

FreeMemory == Release("memory", "codecs", {"frames", "buffers"})
CloseCodecs == Release("codecs", "input", {"codecs"})
CloseInput == Release("input", "files", {"input"})

(* fclose of a file that did not open crashes; test.264 is not closed. *)
(* (Mutant: whether they were opened is not asked.)                    *)
AllFiles == {"video file", "audio file", "stats.csv"}
FilesToClose ==
  {"stats.csv"} \union (IF opts.savevideo THEN {"video file"} ELSE {})
                \union (IF opts.saveaudio THEN {"audio file"} ELSE {})
CloseFiles == FilesToClose \subseteq held /\ Release("files", "exit", FilesToClose)

CloseFails ==
  /\ running /\ mpc = "files"
  /\ ~(FilesToClose \subseteq held)
  /\ Exit("close crash")

Finish ==
  /\ running /\ mpc = "exit"
  /\ Exit("success")

Main ==
  \/ ParseOption \/ ReadOptions \/ Acquire \/ StartupFails \/ OpenFiles \/ StartNetwork
  \/ SpawnVideo \/ SetHandler \/ LeaveLoop \/ FreeMemory \/ CloseCodecs \/ CloseInput \/ CloseFiles
  \/ CloseFails \/ Finish

-----------------------------------------------------------------------------
(* Signals, and the RTSP thread as main and the video thread see it *)

(* Mutant: the handler stays, and no second CTRL+C ends the process. *)
InterruptKept ==
  /\ running
  /\ \/ handler = "default" /\ Exit("interrupted")
     \/ /\ handler = "signal_handler"
        /\ StopExecution' = TRUE
        /\ UNCHANGED <<mainVars, handler, rtsp, slp, videoVars, exit>>

(* The first CTRL+C raises the flag and restores the default action. *)
Interrupt ==
  /\ running
  /\ \/ handler = "default" /\ Exit("interrupted")
     \/ /\ handler = "signal_handler"
        /\ StopExecution' = TRUE /\ handler' = "default"
        /\ UNCHANGED <<mainVars, rtsp, slp, videoVars, exit>>

Play ==
  /\ running /\ rtsp = "running"
  /\ slp' = FALSE
  /\ UNCHANGED <<mainVars, StopExecution, handler, rtsp, videoVars, exit>>

(* The thread cannot bind its port, or accept: it prints "Exiting." and    *)
(* returns, and the process lives on.                                      *)
RtspFails ==
  /\ running /\ rtsp = "running"
  /\ rtsp' = "ended"
  /\ UNCHANGED <<mainVars, StopExecution, handler, slp, videoVars, exit>>

(* Die in a setup thread, or in addFrame: both outlive the RTSP thread. *)
NetworkDies ==
  /\ running /\ rtsp # "none"
  /\ Exit("failure")

-----------------------------------------------------------------------------
(* Video thread *)

(* The thread moves on, with what it needs in hand or already released:    *)
(* using the latter may go well.                                           *)
Advance(from, to) ==
  /\ running /\ vpc = from
  /\ Uses(from) \subseteq held \union released
  /\ vpc' = to
  /\ UNCHANGED <<mainVars, StopExecution, handler, rtsp, slp, exit>>

ReadFrame ==
  /\ Advance("read", "check")
  /\ packets < Packets
  /\ packets' = packets + 1
  /\ UNCHANGED <<iFramesDecoded, processed, late>>

SourceEnds ==
  /\ Advance("read", "ended")
  /\ UNCHANGED <<packets, iFramesDecoded, processed, late>>

(* The flag is looked at once per packet.  (Mutant: it is not.) *)
Unstoppable == Advance("check", "decode") /\ UNCHANGED <<packets, iFramesDecoded, processed, late>>
CheckStop ==
  /\ IF StopExecution THEN Advance("check", "ended") ELSE Advance("check", "decode")
  /\ UNCHANGED <<packets, iFramesDecoded, processed, late>>

(* A packet of another stream, or one that completes no picture: next.     *)
Decode ==
  /\ \E to \in {"convert", "read"} : Advance("decode", to)
  /\ UNCHANGED <<packets, iFramesDecoded, processed, late>>

Convert ==
  /\ Advance("convert", "save")
  /\ UNCHANGED <<packets, iFramesDecoded, processed, late>>

ConversionFails ==
  /\ running /\ vpc = "convert"
  /\ Exit("failure")

(* Every n-th frame goes to a file of its own, if that is asked for.       *)
Saved == opts.saveframes > 0 /\ iFramesDecoded % opts.saveframes = 0

SaveFrame ==
  /\ Advance("save", "encode")
  /\ UNCHANGED <<packets, iFramesDecoded, processed, late>>

(* A file that does not open is reported, and written to all the same.     *)
SaveFrameFails ==
  /\ running /\ vpc = "save" /\ Saved
  /\ Exit("save crash")

(* Without a network nothing would clear slp, and nobody waits for it.     *)
(* (Mutant: everybody waits.)                                              *)
AlwaysWait == "slp"
AfterEncode == IF Networked THEN "slp" ELSE "log"

(* The encoder may keep the frame, or fail: neither stops the loop.        *)
Encode ==
  /\ \E to \in {AfterEncode, "count"} : Advance("encode", to)
  /\ processed' = processed + 1
  /\ UNCHANGED <<packets, iFramesDecoded, late>>

(* while (slp) sleep(1): StopExecution is not looked at here. *)
AwaitPlay ==
  /\ ~slp
  /\ Advance("slp", "send")
  /\ UNCHANGED <<packets, iFramesDecoded, processed, late>>

Delivered == IF StopExecution THEN late + 1 ELSE late

(* MJPEG over UDP is gathered, and sent or saved once there is enough.     *)
Send ==
  /\ \E to \in (IF Fragmented THEN {"flush", "log"} ELSE {"log"}) : Advance("send", to)
  /\ late' = Delivered
  /\ UNCHANGED <<packets, iFramesDecoded, processed>>

Flush ==
  /\ Advance("flush", "log")
  /\ UNCHANGED <<packets, iFramesDecoded, processed, late>>

LogFrame ==
  /\ Advance("log", "count")
  /\ late' = IF Networked THEN late ELSE Delivered
  /\ UNCHANGED <<packets, iFramesDecoded, processed>>

(* The number of the frame is compared with the limit before it goes up.   *)
LimitReached == opts.maxframes > 0 /\ iFramesDecoded >= opts.maxframes

CountFrame ==
  /\ \/ LimitReached /\ Advance("count", "ended") /\ UNCHANGED iFramesDecoded
     \/ ~LimitReached /\ Advance("count", "read") /\ iFramesDecoded' = iFramesDecoded + 1
  /\ UNCHANGED <<packets, processed, late>>

(* A file that did not open, or memory that is gone: SIGSEGV. *)
Crash ==
  /\ running
  /\ ~(Uses(vpc) \subseteq held)
  /\ Exit("crash")

Video ==
  \/ ReadFrame \/ SourceEnds \/ CheckStop \/ Decode \/ Convert \/ ConversionFails
  \/ SaveFrame \/ SaveFrameFails \/ Encode
  \/ AwaitPlay \/ Send \/ Flush \/ LogFrame \/ CountFrame \/ Crash

-----------------------------------------------------------------------------
Next == Main \/ Interrupt \/ Play \/ RtspFails \/ NetworkDies \/ Video

Spec == Init /\ [][Next]_vars

(* Main is never blocked for longer than its ten second sleep. *)
FairSpec == Spec /\ WF_vars(Main)

-----------------------------------------------------------------------------
(* Properties *)

(* Once the flag is up, the next CTRL+C ends the process.                  *)
SecondInterruptEnds == StopExecution => handler = "default"

OptionsOK == argv \in CommandLines /\ optind \in 1..(Len(argv) + 1) /\ opts \in CliOpts

ThreadsOK ==
  /\ mpc \in {"options", "startup", "network", "spawn", "handler", "wait", "memory",
              "codecs", "input", "files", "exit", "exited"}
  /\ handler \in {"default", "signal_handler"}
  /\ rtsp \in {"none", "running", "ended"}
  /\ vpc \in {"unborn", "read", "check", "decode", "convert", "save", "encode", "slp", "send",
              "flush", "log", "count", "ended"}
  /\ exit \in {"running", "success", "failure", "interrupted", "crash",
               "close crash", "option crash", "save crash"}

HoldingsOK ==
  /\ stage \in 0..Len(Startup)
  /\ source \in {"none", "file", "camera"}
  /\ held \subseteq Resources /\ released \subseteq Resources /\ held \intersect released = {}

CountsOK ==
  /\ packets \in 0..Packets /\ iFramesDecoded \in Nat
  /\ processed \in Nat /\ late \in Nat

TypeOK ==
  /\ OptionsOK /\ ThreadsOK /\ HoldingsOK /\ CountsOK
  /\ StopExecution \in BOOLEAN /\ slp \in BOOLEAN /\ SecondInterruptEnds

(* Until CTRL+C the video thread finds everything but the files where      *)
(* startup put it.                                                         *)
HeldWhileStreaming ==
  running /\ ~StopExecution => Uses(vpc) \subseteq held \union Files

(* After CTRL+C at most the frame already past the check goes out.         *)
AtMostOneLateFrame == late <= 1

(* The loop waits for a PLAY only if there is a thread to obey one, or     *)
(* there was.                                                              *)
WaitsForSomebody == vpc = "slp" => rtsp # "none"

(* Main crashes for one reason only, a file it opens that did not open;    *)
(* the video thread for one more, CTRL+C, after which main releases what   *)
(* the thread is using.                                                    *)
FilesOpened ==
  {"stats.csv"} \union (IF opts.savevideo THEN VideoFiles ELSE {})
                \union (IF opts.saveaudio THEN {"audio file"} ELSE {})
CrashNeedsFile ==
  exit \in {"crash", "close crash"} =>
    \/ ~(FilesOpened \subseteq held \union released)
    \/ exit = "crash" /\ StopExecution

(* CTRL+C ends the process, even with the video thread waiting for a PLAY  *)
(* that never comes.                                                       *)
InterruptEnds == StopExecution ~> ~running

(* Server/src/Server.cpp:521 "This lets us exit nicely once the program    *)
(* loop is running": nothing the video thread is using has been released.  *)
NoUseAfterRelease == running => Uses(vpc) \intersect released = {}

(* Server/src/Server.cpp:1185 "FILE / Read file specified with -d option   *)
(* as video source".                                                       *)
FileModeReadsFile ==
  running /\ opts.mode = StoredMode("FILE") => source \in {"none", "file"}
=============================================================================
