------------------------ MODULE ServerProcessProofs ------------------------
(***************************************************************************)
(* Invariants of ServerProcess for every command line, every source and    *)
(* every frame limit.                                                      *)
(***************************************************************************)
EXTENDS ServerProcess, TLAPS

InLoop == {"read", "check", "decode", "convert", "save", "encode", "slp", "send", "flush",
           "log", "count"}
Releasing == {"memory", "codecs", "input", "files", "exit"}
Streaming == {"frames", "input", "codecs", "buffers"}

(* The video thread runs only once startup is over, main releases only     *)
(* after CTRL+C, which needs the handler that main installs last, and      *)
(* until then everything a stage acquired is held.                         *)
Order ==
  /\ running /\ vpc \in InLoop => mpc \in {"handler", "wait"} \union Releasing
  /\ running /\ mpc \in Releasing => StopExecution
  /\ running /\ mpc \in {"options", "startup", "network", "spawn", "handler", "wait"}
       => \A i \in 1..stage : Startup[i] \subseteq held
  /\ running /\ mpc \in {"network", "spawn", "handler", "wait"} \union Releasing => stage = 5
  /\ running /\ mpc \in {"options", "startup", "network", "spawn"} => vpc = "unborn"
  /\ running /\ mpc \notin Releasing => released = {}
  /\ ~running => vpc = "ended"
  /\ mpc = "exited" <=> ~running
  /\ mpc \in {"options", "startup", "network", "spawn", "handler"}
       => ~StopExecution /\ handler = "default"

(* A frame that went out after CTRL+C was past the check, and the thread   *)
(* will not pass it again.                                                 *)
Late ==
  /\ late > 0 => /\ StopExecution /\ vpc \in {"flush", "log", "count", "read", "check", "ended"}
                 /\ vpc \in {"flush", "log"} => Networked
  /\ late <= 1

(* A frame is counted some time after it is processed, unless it is the    *)
(* last.                                                                   *)
Counted ==
  /\ processed <= iFramesDecoded + 1
  /\ vpc \in {"unborn", "read", "check", "decode", "convert", "save", "encode"}
       => processed = iFramesDecoded
  /\ vpc \in {"slp", "send", "flush", "log", "count"} => processed = iFramesDecoded + 1
  /\ opts.maxframes > 0 => iFramesDecoded <= opts.maxframes
  /\ vpc = "unborn" => iFramesDecoded = 0

(* Only with a network is there anything to wait for, and then there is an *)
(* RTSP thread, or there was.                                              *)
Net ==
  /\ running /\ mpc \in {"spawn", "handler", "wait"} \union Releasing /\ Networked => rtsp # "none"
  /\ vpc \in {"slp", "send", "flush"} => Networked

(* The files are the last that main releases. *)
FilesLast == mpc \in {"memory", "codecs", "input", "files"} => released \intersect Files = {}

Inv == TypeOK /\ Order /\ Late /\ Counted /\ Net /\ FilesLast /\ CrashNeedsFile

USE MaxFramesAssumption, SaveFramesAssumption, CommandLinesAssumption, PacketsAssumption

(* An argument leaves a record of options a record of options, in which    *)
(* the mode is none that main compares it with.                            *)
LEMMA EffectType ==
  ASSUME NEW cli \in CliOpts, NEW argument \in Arguments
  PROVE  Effect(cli, argument) \in CliOpts
<1>0. PICK option \in DOMAIN Words : \E word \in Words[option] : argument = <<option, word>>
  BY DEF Arguments
<1>1. PICK word \in Words[option] : argument = <<option, word>>
  BY <1>0
<1>2. CASE Empty(argument)
  BY <1>2 DEF Effect, CliOpts
<1>3. CASE ~Empty(argument)
  <2>0. argument[1] = option /\ argument[2] = word
    BY <1>1
  <2>1. Effect(cli, argument) = Stored(cli, option, word)
    BY <1>3, <2>0 DEF Effect
  <2>7. option \in Worded => word # ""
    BY <1>3, <2>0 DEF Empty
  <2>2. option = "t" => word \in {"UDP", "TCP"}
    <3>1. Words["t"] = {"", "UDP", "TCP"}
      BY DEF Words
    <3> QED
      BY <2>7, <3>1 DEF Worded
  <2>3. option = "c" => word \in {"MJPEG", "H264"}
    <3>1. Words["c"] = {"", "MJPEG", "H264"}
      BY DEF Words
    <3> QED
      BY <2>7, <3>1 DEF Worded
  <2>4. option = "p" => StoredPort(word) \in {"zero", "port", "negative"}
    <3>1. Words["p"] = {"", "port", "0", "negative"}
      BY DEF Words
    <3> QED
      BY <2>7, <3>1 DEF Worded, StoredPort
  <2>5. StoredMode(word) \in {"NULL", "FIL", "V4L"}
    BY DEF StoredMode
  <2>6. Stored(cli, option, word) \in CliOpts
    <3>1. CASE option \in {"m", "d"}
      BY <2>5, <3>1 DEF Stored, CliOpts
    <3>2. CASE option \in {"p", "t", "c"}
      BY <2>2, <2>3, <2>4, <3>2 DEF Stored, CliOpts
    <3>3. CASE option \in {"o", "a", "s", "z"}
      BY <3>3 DEF Stored, CliOpts
    <3>4. CASE option \in {"f", "version", "DEFAULT", "r", "h"}
      BY <3>4 DEF Stored, CliOpts
    <3>5. option \in {"m", "d", "p", "t", "c", "o", "a", "s", "z", "r", "f", "version", "DEFAULT", "h"}
      BY DEF Words
    <3> QED
      BY <3>1, <3>2, <3>3, <3>4, <3>5
  <2> QED
    BY <2>1, <2>6
<1> QED
  BY <1>2, <1>3

LEMMA OptionsKept ==
  ASSUME OptionsOK, UNCHANGED <<argv, optind, opts>>
  PROVE  OptionsOK'
BY DEF OptionsOK

LEMMA TypeKept ==
  ASSUME TypeOK, UNCHANGED <<argv, optind, opts, StopExecution, slp>>,
         ThreadsOK', HoldingsOK', CountsOK', handler' = handler \/ ~StopExecution
  PROVE  TypeOK'
<1>1. OptionsOK'
  BY OptionsKept DEF TypeOK
<1>2. StopExecution' \in BOOLEAN /\ slp' \in BOOLEAN /\ SecondInterruptEnds'
  BY DEF TypeOK, SecondInterruptEnds
<1> QED
  BY <1>1, <1>2 DEF TypeOK

LEMMA OptionsFacts ==
  ASSUME OptionsOK
  PROVE  /\ argv \in Seq(Arguments) /\ Len(argv) \in Nat /\ optind \in 1..(Len(argv) + 1)
         /\ opts.maxframes \in Nat
<1>1. argv \in Seq(Arguments)
  BY DEF OptionsOK
<1>2. opts.maxframes \in Nat
  BY DEF OptionsOK, CliOpts
<1> QED
  BY <1>1, <1>2 DEF OptionsOK

LEMMA Stages ==
  /\ Len(Startup) = 5
  /\ \A i \in 1..5 : Startup[i] \subseteq Resources
  /\ Streaming \subseteq UNION {Startup[i] : i \in 1..5}
  /\ Files \subseteq Resources
<1>1. Len(Startup) = 5
  BY DEF Startup
<1>2. /\ Startup[2] = {"frames"} /\ Startup[3] = {"input"}
      /\ Startup[4] = {"codecs"} /\ Startup[5] = {"buffers"} /\ Startup[1] = {"contexts"}
  BY DEF Startup
<1>4. Streaming \subseteq UNION {Startup[i] : i \in 1..5}
  BY <1>2 DEF Streaming
<1>5. \A i \in 1..5 : Startup[i] \subseteq Resources
  BY <1>1 DEF Resources
<1>6. Files \subseteq Resources
  BY DEF Resources
<1> QED
  BY <1>1, <1>4, <1>5, <1>6

LEMMA InResources == Streaming \subseteq Resources
BY Stages

LEMMA InvInit == Init => Inv
<1> SUFFICES ASSUME Init PROVE Inv
  OBVIOUS
<1>1. TypeOK
  <2>1. 0 \in 0..Len(Startup) /\ 0 \in 0..Packets
    BY Stages
  <2>3. opts \in CliOpts
    BY DEF Init, NoOptions, CliOpts
  <2>4. argv \in Seq(Arguments) /\ optind = 1
    BY DEF Init
  <2>2. OptionsOK
    BY <2>3, <2>4 DEF Init, OptionsOK
  <2> QED
    BY <2>1, <2>2 DEF Init, TypeOK, ThreadsOK, HoldingsOK, CountsOK, SecondInterruptEnds
<1>2. Order /\ Late /\ Counted /\ Net /\ FilesLast /\ CrashNeedsFile
  BY DEF Init, Order, Late, Counted, Net, FilesLast, CrashNeedsFile, InLoop, Releasing, running,
         NoOptions
<1> QED
  BY <1>1, <1>2 DEF Inv

LEMMA InvExit ==
  ASSUME Inv,
         NEW how \in {"success", "failure", "interrupted", "crash", "close crash", "option crash",
                      "save crash"},
         Exit(how),
         how \in {"crash", "close crash"} =>
           \/ ~(FilesOpened \subseteq held \union released)
           \/ how = "crash" /\ StopExecution
  PROVE  Inv'
<1> USE DEF Inv, Exit
<1>1. TypeOK'
  <2>1. ThreadsOK' /\ HoldingsOK' /\ CountsOK'
    <3>1. ThreadsOK'
      BY DEF TypeOK, ThreadsOK
    <3>2. HoldingsOK'
      BY DEF TypeOK, HoldingsOK
    <3>3. CountsOK'
      BY DEF TypeOK, CountsOK
    <3> QED
      BY <3>1, <3>2, <3>3
  <2> QED
    BY <2>1, TypeKept
<1>2. Order'
  BY DEF Order, InLoop, Releasing, running
<1>3. Late' /\ Counted'
  BY DEF TypeOK, Late, Counted
<1>4. Net' /\ FilesLast'
  BY DEF Net, FilesLast, running
<1>5. CrashNeedsFile'
  BY DEF CrashNeedsFile, FilesOpened
<1> QED
  BY <1>1, <1>2, <1>3, <1>4, <1>5

(* The steps that leave the video thread's variables alone. *)
LEMMA FrameVideo ==
  ASSUME Inv, UNCHANGED <<videoVars, opts>>, StopExecution => StopExecution'
  PROVE  Late' /\ Counted'
BY DEF Inv, Late, Counted, videoVars, Networked

(* The steps that do not end the process. *)
LEMMA FrameCrash ==
  ASSUME Inv, running, exit' = exit
  PROVE  CrashNeedsFile'
BY DEF CrashNeedsFile, running

LEMMA FrameNet ==
  ASSUME Inv, UNCHANGED <<opts, mpc, released>>, rtsp' = "none" => rtsp = "none",
         UNCHANGED exit, vpc' \in {"slp", "send", "flush"} => Networked
  PROVE  Net' /\ FilesLast'
BY DEF Inv, Net, FilesLast, Networked, running

LEMMA OptionStep ==
  ASSUME Inv, ParseOption
  PROVE  Inv'
<1>1. CASE Exit("failure") \/ Exit("option crash")
  BY <1>1, InvExit
<1>2. CASE /\ opts' = Effect(opts, argv[optind]) /\ optind' = optind + 1
           /\ UNCHANGED <<argv, mpc, stage, source, held, released, StopExecution, handler, rtsp,
                          slp, videoVars, exit>>
  <2>10. argv \in Seq(Arguments) /\ Len(argv) \in Nat /\ optind \in 1..(Len(argv) + 1)
    BY OptionsFacts DEF Inv, TypeOK
  <2>0. running /\ mpc = "options" /\ optind \in 1..Len(argv)
    <3>1. running /\ mpc = "options" /\ optind <= Len(argv)
      BY DEF ParseOption
    <3> QED
      BY <2>10, <3>1
  <2>1. argv \in Seq(Arguments) /\ optind \in Nat /\ Len(argv) \in Nat
    BY <2>10
  <2>2. argv[optind] \in Arguments
    BY <2>0, <2>1
  <2>3. opts' \in CliOpts
    BY <1>2, <2>2, EffectType DEF Inv, TypeOK, OptionsOK
  <2>11. OptionsOK'
    <3>1. argv' = argv /\ argv \in CommandLines /\ optind' = optind + 1
      BY <1>2 DEF Inv, TypeOK, OptionsOK
    <3>2. optind + 1 \in 1..(Len(argv) + 1)
      BY <2>0, <2>10
    <3> QED
      BY <2>3, <3>1, <3>2 DEF OptionsOK
  <2>4. TypeOK'
    <3>1. ThreadsOK' /\ HoldingsOK' /\ CountsOK'
      <4>1. ThreadsOK'
        BY <1>2 DEF Inv, TypeOK, videoVars, ThreadsOK
      <4>2. HoldingsOK'
        BY <1>2 DEF Inv, TypeOK, videoVars, HoldingsOK
      <4>3. CountsOK'
        BY <1>2 DEF Inv, TypeOK, videoVars, CountsOK
      <4> QED
        BY <4>1, <4>2, <4>3
    <3>2. StopExecution' \in BOOLEAN /\ slp' \in BOOLEAN /\ SecondInterruptEnds'
      BY <1>2 DEF Inv, TypeOK, SecondInterruptEnds
    <3> QED
      BY <2>11, <3>1, <3>2 DEF TypeOK
  <2>5. Order'
    BY <1>2 DEF Inv, Order, running, InLoop, Releasing, videoVars
  <2>6. vpc = "unborn" /\ vpc' = "unborn"
    BY <1>2, <2>0 DEF Inv, Order, videoVars
  <2>7. Late'
    BY <1>2, <2>6 DEF Inv, Late, videoVars
  <2>8. Counted'
    <3>1. opts'.maxframes \in Nat
      BY <2>3 DEF CliOpts
    <3> QED
      BY <1>2, <2>6, <3>1 DEF Inv, Counted, videoVars
  <2>9. Net' /\ FilesLast' /\ CrashNeedsFile'
    BY <1>2, <2>0, <2>6 DEF Net, FilesLast, CrashNeedsFile, Releasing, running
  <2> QED
    BY <2>4, <2>5, <2>7, <2>8, <2>9 DEF Inv
<1> QED
  BY <1>1, <1>2 DEF ParseOption

LEMMA InvMain ==
  ASSUME Inv, Main
  PROVE  Inv'
<1>0. CASE ParseOption
  BY <1>0, OptionStep
<1>1. CASE ReadOptions
  <2>1. CASE \E how \in {"success", "failure"} : Exit(how)
    BY <2>1, InvExit
  <2>2. CASE /\ running /\ mpc = "options" /\ mpc' = "startup"
             /\ UNCHANGED <<argv, optind, opts, stage, source, held, released, StopExecution,
                            handler, rtsp, slp, videoVars, exit>>
    <3>1. TypeOK'
      <4>1. ThreadsOK' /\ HoldingsOK' /\ CountsOK'
        <5>1. ThreadsOK'
          BY <2>2 DEF Inv, TypeOK, videoVars, ThreadsOK
        <5>2. HoldingsOK'
          BY <2>2 DEF Inv, TypeOK, videoVars, HoldingsOK
        <5>3. CountsOK'
          BY <2>2 DEF Inv, TypeOK, videoVars, CountsOK
        <5> QED
          BY <5>1, <5>2, <5>3
      <4> QED
        BY <2>2, <4>1, TypeKept DEF Inv, TypeOK, videoVars
    <3>2. Order'
      BY <2>2, Stages DEF Inv, TypeOK, ThreadsOK, HoldingsOK, CountsOK, Order, running, InLoop, Releasing, videoVars
    <3>3. Net' /\ FilesLast'
      BY <2>2 DEF Inv, Net, FilesLast, Releasing, videoVars, Networked
    <3> QED
      BY <2>2, <3>1, <3>2, <3>3, FrameVideo, FrameCrash DEF Inv
  <2> QED
    BY <1>1, <2>1, <2>2 DEF ReadOptions
<1>2. CASE Acquire
  <2>0. /\ stage \in 0..4 /\ stage' = stage + 1 /\ held' = held \union Startup[stage + 1]
        /\ running /\ mpc = "startup" /\ source' \in {"none", "file", "camera"}
        /\ UNCHANGED <<argv, optind, opts, mpc, released, StopExecution, handler, rtsp, slp,
                       videoVars, exit>>
    <3>1. stage \in 0..5 /\ source \in {"none", "file", "camera"}
      BY Stages DEF Inv, TypeOK, HoldingsOK
    <3>2. stage < 5 /\ source' \in {"file", "camera", source}
      BY <1>2, Stages DEF Acquire, Source
    <3> QED
      BY <1>2, <3>1, <3>2 DEF Acquire
  <2>1. TypeOK'
    <3>1. Startup[stage + 1] \subseteq Resources /\ stage' \in 0..Len(Startup) /\ released = {}
      BY <2>0, Stages DEF Inv, Order, Releasing
    <3>2. ThreadsOK' /\ HoldingsOK' /\ CountsOK'
      <4>1. ThreadsOK'
        BY <2>0, <3>1 DEF Inv, TypeOK, videoVars, ThreadsOK
      <4>2. HoldingsOK'
        BY <2>0, <3>1 DEF Inv, TypeOK, videoVars, HoldingsOK
      <4>3. CountsOK'
        BY <2>0, <3>1 DEF Inv, TypeOK, videoVars, CountsOK
      <4> QED
        BY <4>1, <4>2, <4>3
    <3> QED
      BY <2>0, <3>2, TypeKept DEF Inv
  <2>2. Order'
    BY <2>0 DEF Inv, Order, running, InLoop, Releasing, videoVars
  <2>3. Net' /\ FilesLast'
    BY <2>0 DEF Inv, Net, FilesLast, Releasing, videoVars, Networked
  <2> QED
    BY <2>0, <2>1, <2>2, <2>3, FrameVideo, FrameCrash DEF Inv
<1>3. CASE StartupFails \/ Finish
  BY <1>3, InvExit DEF StartupFails, Finish
<1>9. CASE CloseFails
  <2>1. PICK f \in FilesToClose : f \notin held
    BY <1>9 DEF CloseFails
  <2>2. f \in Files /\ f \in FilesOpened
    BY <2>1 DEF FilesToClose, Files, FilesOpened, VideoFiles
  <2>3. f \notin released
    BY <1>9, <2>2 DEF CloseFails, Inv, FilesLast
  <2> QED
    BY <1>9, <2>1, <2>2, <2>3, InvExit DEF CloseFails
<1>4. CASE OpenFiles
  <2>0. PICK opened \in SUBSET Files : held' = held \union opened
    BY <1>4 DEF OpenFiles
  <2>1. TypeOK'
    <3>1. opened \subseteq Resources /\ released = {}
      BY <1>4, Stages DEF OpenFiles, Inv, Order, Releasing
    <3>2. ThreadsOK' /\ HoldingsOK' /\ CountsOK'
      <4>1. ThreadsOK'
        BY <1>4, <2>0, <3>1 DEF OpenFiles, Inv, TypeOK, videoVars, ThreadsOK
      <4>2. HoldingsOK'
        BY <1>4, <2>0, <3>1 DEF OpenFiles, Inv, TypeOK, videoVars, HoldingsOK
      <4>3. CountsOK'
        BY <1>4, <2>0, <3>1 DEF OpenFiles, Inv, TypeOK, videoVars, CountsOK
      <4> QED
        BY <4>1, <4>2, <4>3
    <3> QED
      BY <1>4, <3>2, TypeKept DEF OpenFiles, Inv
  <2>2. Order'
    BY <1>4, <2>0, Stages DEF OpenFiles, Inv, Order, running, InLoop, Releasing, videoVars
  <2>3. Net' /\ FilesLast'
    BY <1>4 DEF OpenFiles, Inv, Net, FilesLast, Releasing, videoVars, Networked
  <2> QED
    BY <1>4, <2>1, <2>2, <2>3, FrameVideo, FrameCrash DEF Inv, OpenFiles
<1>5. CASE StartNetwork \/ SetHandler
  <2>1. TypeOK'
    <3>1. ThreadsOK' /\ HoldingsOK' /\ CountsOK'
      <4>1. ThreadsOK'
        BY <1>5 DEF StartNetwork, SetHandler, Inv, TypeOK, videoVars, ThreadsOK
      <4>2. HoldingsOK'
        BY <1>5 DEF StartNetwork, SetHandler, Inv, TypeOK, videoVars, HoldingsOK
      <4>3. CountsOK'
        BY <1>5 DEF StartNetwork, SetHandler, Inv, TypeOK, videoVars, CountsOK
      <4> QED
        BY <4>1, <4>2, <4>3
    <3>2. handler' = handler \/ ~StopExecution
      BY <1>5 DEF StartNetwork, SetHandler, Inv, Order
    <3> QED
      BY <1>5, <3>1, <3>2, TypeKept DEF StartNetwork, SetHandler, Inv, TypeOK, videoVars
  <2>2. Order'
    BY <1>5 DEF StartNetwork, SetHandler, Inv, Order, running, InLoop, Releasing, videoVars
  <2>3. Net' /\ FilesLast'
    BY <1>5 DEF StartNetwork, SetHandler, Inv, Net, FilesLast, Releasing, videoVars, Networked
  <2> QED
    BY <1>5, <2>1, <2>2, <2>3, FrameVideo, FrameCrash DEF Inv, StartNetwork, SetHandler
<1>6. CASE SpawnVideo
  <2>1. TypeOK'
    <3>1. ThreadsOK' /\ HoldingsOK' /\ CountsOK'
      <4>1. ThreadsOK'
        BY <1>6 DEF SpawnVideo, Inv, TypeOK, ThreadsOK
      <4>2. HoldingsOK'
        BY <1>6 DEF SpawnVideo, Inv, TypeOK, HoldingsOK
      <4>3. CountsOK'
        BY <1>6 DEF SpawnVideo, Inv, TypeOK, CountsOK
      <4> QED
        BY <4>1, <4>2, <4>3
    <3> QED
      BY <1>6, <3>1, TypeKept DEF SpawnVideo, Inv, TypeOK
  <2>2. Order'
    BY <1>6 DEF SpawnVideo, Inv, Order, running, InLoop, Releasing
  <2>3. vpc = "unborn" /\ vpc' = "read"
    BY <1>6 DEF SpawnVideo, Inv, Order
  <2>4. Late' /\ Counted'
    BY <1>6, <2>3 DEF SpawnVideo, Inv, Late, Counted, Networked
  <2>5. Net' /\ FilesLast'
    BY <1>6, <2>3 DEF SpawnVideo, Inv, Net, FilesLast, Releasing, Networked, running
  <2> QED
    BY <1>6, <2>1, <2>2, <2>4, <2>5, FrameCrash DEF Inv, SpawnVideo
<1>7. CASE LeaveLoop
  <2>1. TypeOK'
    <3>1. ThreadsOK' /\ HoldingsOK' /\ CountsOK'
      <4>1. ThreadsOK'
        BY <1>7 DEF LeaveLoop, Inv, TypeOK, videoVars, ThreadsOK
      <4>2. HoldingsOK'
        BY <1>7 DEF LeaveLoop, Inv, TypeOK, videoVars, HoldingsOK
      <4>3. CountsOK'
        BY <1>7 DEF LeaveLoop, Inv, TypeOK, videoVars, CountsOK
      <4> QED
        BY <4>1, <4>2, <4>3
    <3> QED
      BY <1>7, <3>1, TypeKept DEF LeaveLoop, Inv, TypeOK, videoVars
  <2>2. Order'
    BY <1>7 DEF LeaveLoop, StopSeen, Inv, Order, running, InLoop, Releasing, videoVars
  <2>3. Net' /\ FilesLast'
    BY <1>7 DEF LeaveLoop, Inv, Net, FilesLast, Order, Releasing, running, videoVars, Networked
  <2> QED
    BY <1>7, <2>1, <2>2, <2>3, FrameVideo, FrameCrash DEF Inv, LeaveLoop
<1>8. CASE FreeMemory \/ CloseCodecs \/ CloseInput \/ CloseFiles
  <2>1. PICK from \in Releasing, to \in Releasing, r \in SUBSET Resources :
             /\ Release(from, to, r)
             /\ to = "exit" \/ r \intersect Files = {}
             /\ from # "exit"
    <3>1. /\ {"frames", "buffers"} \in SUBSET Resources /\ {"codecs"} \in SUBSET Resources
          /\ {"input"} \in SUBSET Resources
      BY InResources DEF Streaming
    <3>2. FilesToClose \in SUBSET Resources
      BY Stages DEF FilesToClose, Files, VideoFiles
    <3>3. /\ {"frames", "buffers"} \intersect Files = {} /\ {"codecs"} \intersect Files = {}
          /\ {"input"} \intersect Files = {}
      BY DEF Files, VideoFiles
    <3> HIDE DEF FilesToClose, Files
    <3>4. CASE FreeMemory
      BY <3>1, <3>3, <3>4 DEF FreeMemory, Releasing
    <3>5. CASE CloseCodecs
      BY <3>1, <3>3, <3>5 DEF CloseCodecs, Releasing
    <3>6. CASE CloseInput
      BY <3>1, <3>3, <3>6 DEF CloseInput, Releasing
    <3>7. CASE CloseFiles
      BY <3>2, <3>7 DEF CloseFiles, Releasing
    <3> QED
      BY <1>8, <3>4, <3>5, <3>6, <3>7
  <2>2. TypeOK'
    <3>1. ThreadsOK' /\ HoldingsOK' /\ CountsOK'
      <4>1. ThreadsOK'
        BY <2>1 DEF Release, Inv, TypeOK, Releasing, videoVars, ThreadsOK
      <4>2. HoldingsOK'
        BY <2>1 DEF Release, Inv, TypeOK, Releasing, videoVars, HoldingsOK
      <4>3. CountsOK'
        BY <2>1 DEF Release, Inv, TypeOK, Releasing, videoVars, CountsOK
      <4> QED
        BY <4>1, <4>2, <4>3
    <3> QED
      BY <2>1, <3>1, TypeKept DEF Release, Inv, TypeOK, Releasing, videoVars
  <2>3. Order'
    BY <2>1 DEF Release, Inv, Order, running, InLoop, Releasing, videoVars
  <2>4. Net'
    BY <2>1 DEF Release, Inv, Net, Releasing, running, videoVars, Networked
  <2>5. FilesLast'
    BY <2>1 DEF Release, Inv, FilesLast, Releasing
  <2> QED
    BY <2>1, <2>2, <2>3, <2>4, <2>5, FrameVideo, FrameCrash DEF Inv, Release
<1> QED
  BY <1>0, <1>1, <1>2, <1>3, <1>4, <1>5, <1>6, <1>7, <1>8, <1>9 DEF Main

(* What the video thread does not do: it keeps main's variables. *)
LEMMA AdvanceOrder ==
  ASSUME Inv, NEW from \in InLoop, NEW to \in InLoop \union {"ended"}, Advance(from, to)
  PROVE  Order'
BY DEF Inv, Order, Advance, mainVars, InLoop, Releasing, running

LEMMA AdvanceType ==
  ASSUME Inv, NEW from \in InLoop, NEW to \in InLoop \union {"ended"}, Advance(from, to),
         packets' \in 0..Packets, iFramesDecoded' \in Nat, processed' \in Nat, late' \in Nat
  PROVE  TypeOK'
<1>1. ThreadsOK' /\ HoldingsOK' /\ CountsOK'
  <2>1. ThreadsOK'
    BY DEF Inv, TypeOK, Advance, mainVars, InLoop, ThreadsOK
  <2>2. HoldingsOK'
    BY DEF Inv, TypeOK, Advance, mainVars, InLoop, HoldingsOK
  <2>3. CountsOK'
    BY DEF Inv, TypeOK, Advance, mainVars, InLoop, CountsOK
  <2> QED
    BY <2>1, <2>2, <2>3
<1> QED
  BY <1>1, TypeKept DEF Inv, Advance, mainVars

LEMMA AdvanceInv ==
  ASSUME Inv, NEW from \in InLoop, NEW to \in InLoop \union {"ended"}, Advance(from, to),
         packets' \in 0..Packets, iFramesDecoded' \in Nat, processed' \in Nat, late' \in Nat,
         Late', Counted', to \in {"slp", "send", "flush"} => Networked
  PROVE  Inv'
<1>1. TypeOK' /\ Order'
  BY AdvanceType, AdvanceOrder
<1>2. Net' /\ FilesLast'
  BY FrameNet DEF Advance, mainVars
<1>3. CrashNeedsFile'
  BY FrameCrash DEF Advance
<1> QED
  BY <1>1, <1>2, <1>3 DEF Inv

(* What the thread uses is what startup acquired, and files that main was  *)
(* to open; until CTRL+C the former is held.                               *)
LEMMA UsesOpened == Uses(vpc) \subseteq Streaming \union FilesOpened /\ FilesOpened \subseteq Files
<1>1. Uses(vpc) \subseteq Streaming \union FilesOpened
  BY DEF Uses, Streaming, FilesOpened, VideoFiles
<1>2. FilesOpened \subseteq Files
  BY DEF FilesOpened, Files
<1> QED
  BY <1>1, <1>2

LEMMA HeldUntilStop ==
  ASSUME Inv, running, ~StopExecution
  PROVE  Uses(vpc) \subseteq held \union FilesOpened /\ released = {}
<1>1. CASE vpc \in InLoop
  <2>1. mpc \in {"handler", "wait"} /\ stage = 5 /\ \A i \in 1..stage : Startup[i] \subseteq held
    BY <1>1 DEF Inv, Order
  <2>2. Streaming \subseteq held
    BY <2>1, Stages
  <2> QED
    BY <2>1, <2>2, UsesOpened DEF Inv, Order, Releasing
<1>2. CASE vpc \in {"unborn", "ended"}
  BY <1>2 DEF Uses, Inv, Order
<1> QED
  BY <1>1, <1>2 DEF Inv, TypeOK, ThreadsOK, HoldingsOK, CountsOK, InLoop

LEMMA CrashStep ==
  ASSUME Inv, Crash
  PROVE  Inv'
<1>1. running /\ Exit("crash") /\ ~(Uses(vpc) \subseteq held)
  BY DEF Crash
<1>2. StopExecution \/ ~(FilesOpened \subseteq held \union released)
  <2> SUFFICES ASSUME ~StopExecution PROVE ~(FilesOpened \subseteq held \union released)
    OBVIOUS
  <2> QED
    BY <1>1, HeldUntilStop
<1> QED
  BY <1>1, <1>2, InvExit

LEMMA InvVideo ==
  ASSUME Inv, Video
  PROVE  Inv'
<1>0. /\ packets \in 0..Packets /\ iFramesDecoded \in Nat /\ processed \in Nat /\ late \in Nat
      /\ opts.maxframes \in Nat
  BY OptionsFacts DEF Inv, TypeOK, ThreadsOK, HoldingsOK, CountsOK
<1>1. CASE ReadFrame
  <2>1. packets' \in 0..Packets
    BY <1>0, <1>1 DEF ReadFrame
  <2>2. Late' /\ Counted'
    BY <1>0, <1>1 DEF ReadFrame, Advance, mainVars, Inv, Late, Counted
  <2> QED
    BY <1>0, <1>1, <2>1, <2>2, AdvanceInv DEF ReadFrame, InLoop
<1>2. CASE SourceEnds \/ Convert \/ Decode \/ CheckStop \/ SaveFrame
  <2>1. PICK from \in {"read", "check", "decode", "convert", "save"},
             to \in {"ended", "read", "decode", "convert", "save", "encode"} :
          Advance(from, to) /\ (from = "check" /\ to # "ended" => ~StopExecution)
    BY <1>2 DEF SourceEnds, Convert, Decode, CheckStop, SaveFrame
  <2>2. UNCHANGED <<packets, iFramesDecoded, processed, late>>
    BY <1>2 DEF SourceEnds, Convert, Decode, CheckStop, SaveFrame
  <2>3. from \in InLoop /\ to \in InLoop \union {"ended"}
    BY DEF InLoop
  <2>4. Late'
    <3>1. vpc = from /\ vpc' = to /\ StopExecution' = StopExecution
      BY <2>1 DEF Advance
    <3>2. late > 0 => to \in {"ended", "read"}
      BY <1>0, <1>2, <2>2, <3>1 DEF Inv, Late, SourceEnds, Convert, Decode, CheckStop, SaveFrame,
                               Advance
    <3> QED
      BY <1>0, <2>2, <3>1, <3>2 DEF Inv, Late
  <2>5. Counted'
    BY <1>0, <2>1, <2>2 DEF Advance, mainVars, Inv, Counted
  <2> QED
    BY <1>0, <2>1, <2>2, <2>3, <2>4, <2>5, AdvanceInv
<1>3. CASE ConversionFails \/ SaveFrameFails
  BY <1>3, InvExit DEF ConversionFails, SaveFrameFails
<1>4. CASE Encode
  <2>1. PICK to \in {"slp", "log", "count"} : Advance("encode", to) /\ (to = "slp" => Networked)
    BY <1>4 DEF Encode, AfterEncode
  <2>2. Late'
    BY <1>0, <1>4, <2>1 DEF Encode, Advance, mainVars, Inv, Late
  <2>3. Counted'
    BY <1>0, <1>4, <2>1 DEF Encode, Advance, mainVars, Inv, Counted
  <2>4. UNCHANGED <<packets, iFramesDecoded, late>> /\ processed' \in Nat
    BY <1>0, <1>4 DEF Encode
  <2> QED
    BY <1>0, <2>1, <2>2, <2>3, <2>4, AdvanceInv DEF InLoop
<1>5. CASE AwaitPlay
  <2>1. Advance("slp", "send") /\ UNCHANGED <<packets, iFramesDecoded, processed, late>>
    BY <1>5 DEF AwaitPlay
  <2>2. Late' /\ Counted'
    BY <1>0, <2>1 DEF Advance, mainVars, Inv, Late, Counted
  <2>3. Networked
    BY <2>1 DEF Inv, Net, Advance
  <2> QED
    BY <1>0, <2>1, <2>2, <2>3, AdvanceInv DEF InLoop
<1>6. CASE Send \/ Flush \/ LogFrame
  <2>1. PICK from \in {"send", "flush", "log"}, to \in {"flush", "log", "count"} :
          /\ Advance(from, to)
          /\ from = "send" => to # "count" /\ late' = Delivered
          /\ from = "flush" => to = "log" /\ late' = late
          /\ from = "log" => to = "count" /\ late' = (IF Networked THEN late ELSE Delivered)
    BY <1>6 DEF Send, Flush, LogFrame
  <2>2. UNCHANGED <<packets, iFramesDecoded, processed>>
    BY <1>6 DEF Send, Flush, LogFrame
  <2>3. Late' /\ late' \in Nat
    <3>1. /\ vpc = from /\ vpc' = to /\ StopExecution' = StopExecution
          /\ Networked' <=> Networked
      BY <2>1 DEF Advance, mainVars, Networked
    <3>2. from \in {"send", "flush"} => Networked
      BY <3>1 DEF Inv, Net
    <3>3. from = "log" /\ late > 0 => Networked
      BY <3>1 DEF Inv, Late
    <3> QED
      BY <1>0, <2>1, <3>1, <3>2, <3>3 DEF Inv, Late, Delivered
  <2>4. Counted'
    BY <1>0, <2>1, <2>2 DEF Advance, mainVars, Inv, Counted
  <2>5. to = "flush" => Networked
    BY <2>1 DEF Inv, Net, Advance
  <2> QED
    BY <1>0, <2>1, <2>2, <2>3, <2>4, <2>5, AdvanceInv DEF InLoop
<1>7. CASE CountFrame
  <2>1. PICK to \in {"read", "ended"} :
          /\ Advance("count", to)
          /\ to = "read" => ~LimitReached /\ iFramesDecoded' = iFramesDecoded + 1
          /\ to = "ended" => iFramesDecoded' = iFramesDecoded
    BY <1>7 DEF CountFrame
  <2>2. UNCHANGED <<packets, processed, late>> /\ iFramesDecoded' \in Nat
    BY <1>0, <1>7, <2>1 DEF CountFrame
  <2>3. Late'
    BY <1>0, <2>1, <2>2 DEF Advance, mainVars, Inv, Late
  <2>4. Counted'
    <3>1. vpc = "count" /\ vpc' = to /\ opts' = opts
      BY <2>1 DEF Advance, mainVars
    <3>2. processed = iFramesDecoded + 1 /\ (opts.maxframes > 0 => iFramesDecoded <= opts.maxframes)
      BY <3>1 DEF Inv, Counted
    <3>3. CASE to = "read"
      <4>1. iFramesDecoded' = iFramesDecoded + 1
        BY <2>1, <3>3
      <4>2. opts.maxframes > 0 => iFramesDecoded + 1 <= opts.maxframes
        BY <1>0, <2>1, <3>3 DEF LimitReached
      <4> QED
        BY <1>0, <2>2, <3>1, <3>2, <3>3, <4>1, <4>2 DEF Counted
    <3>4. CASE to = "ended"
      BY <1>0, <2>1, <2>2, <3>1, <3>2, <3>4 DEF Counted
    <3> QED
      BY <3>3, <3>4
  <2> QED
    BY <1>0, <2>1, <2>2, <2>3, <2>4, AdvanceInv DEF InLoop
<1> QED
  BY <1>1, <1>2, <1>3, <1>4, <1>5, <1>6, <1>7, CrashStep DEF Video

LEMMA InvStep == Inv /\ [Next]_vars => Inv'
<1> SUFFICES ASSUME Inv, [Next]_vars PROVE Inv'
  OBVIOUS
<1>1. CASE Interrupt
  <2>1. CASE Exit("interrupted")
    BY <2>1, InvExit
  <2>2. CASE /\ running /\ handler = "signal_handler"
             /\ StopExecution' = TRUE /\ handler' = "default"
             /\ UNCHANGED <<mainVars, rtsp, slp, videoVars, exit>>
    <3>1. TypeOK'
      <4>1. ThreadsOK' /\ HoldingsOK' /\ CountsOK'
        <5>1. ThreadsOK'
          BY <2>2 DEF Inv, TypeOK, mainVars, videoVars, ThreadsOK
        <5>2. HoldingsOK'
          BY <2>2 DEF Inv, TypeOK, mainVars, videoVars, HoldingsOK
        <5>3. CountsOK'
          BY <2>2 DEF Inv, TypeOK, mainVars, videoVars, CountsOK
        <5> QED
          BY <5>1, <5>2, <5>3
      <4>2. OptionsOK'
        BY <2>2, OptionsKept DEF Inv, TypeOK, mainVars
      <4>3. StopExecution' \in BOOLEAN /\ slp' \in BOOLEAN /\ SecondInterruptEnds'
        BY <2>2 DEF Inv, TypeOK, SecondInterruptEnds
      <4> QED
        BY <4>1, <4>2, <4>3 DEF TypeOK
    <3>2. Order'
      BY <2>2 DEF Inv, Order, running, InLoop, Releasing, mainVars, videoVars
    <3>3. Late' /\ Counted'
      BY <2>2, FrameVideo DEF mainVars
    <3>4. Net' /\ FilesLast'
      BY <2>2, FrameNet DEF mainVars, videoVars, Inv, Net
    <3> QED
      BY <2>2, <3>1, <3>2, <3>3, <3>4, FrameCrash DEF Inv
  <2> QED
    BY <1>1, <2>1, <2>2 DEF Interrupt
<1>2. CASE NetworkDies
  BY <1>2, InvExit DEF NetworkDies
<1>3. CASE Play
  <2>1. ThreadsOK' /\ HoldingsOK' /\ CountsOK'
    <3>1. ThreadsOK'
      BY <1>3 DEF Play, Inv, TypeOK, mainVars, videoVars, ThreadsOK
    <3>2. HoldingsOK'
      BY <1>3 DEF Play, Inv, TypeOK, mainVars, videoVars, HoldingsOK
    <3>3. CountsOK'
      BY <1>3 DEF Play, Inv, TypeOK, mainVars, videoVars, CountsOK
    <3> QED
      BY <3>1, <3>2, <3>3
  <2>2. TypeOK'
    BY <1>3, <2>1, OptionsKept DEF Play, Inv, TypeOK, mainVars, SecondInterruptEnds
  <2>3. Order'
    BY <1>3 DEF Play, Inv, Order, running, InLoop, Releasing, mainVars, videoVars
  <2>4. Late' /\ Counted'
    BY <1>3, FrameVideo DEF Play, mainVars
  <2>5. Net' /\ FilesLast'
    BY <1>3, FrameNet DEF Play, mainVars, videoVars, Inv, Net
  <2> QED
    BY <1>3, <2>2, <2>3, <2>4, <2>5, FrameCrash DEF Inv, Play
<1>4. CASE RtspFails
  <2>1. ThreadsOK' /\ HoldingsOK' /\ CountsOK'
    <3>1. ThreadsOK'
      BY <1>4 DEF RtspFails, Inv, TypeOK, mainVars, videoVars, ThreadsOK
    <3>2. HoldingsOK'
      BY <1>4 DEF RtspFails, Inv, TypeOK, mainVars, videoVars, HoldingsOK
    <3>3. CountsOK'
      BY <1>4 DEF RtspFails, Inv, TypeOK, mainVars, videoVars, CountsOK
    <3> QED
      BY <3>1, <3>2, <3>3
  <2>2. TypeOK'
    BY <1>4, <2>1, TypeKept DEF RtspFails, Inv, mainVars
  <2>3. Order'
    BY <1>4 DEF RtspFails, Inv, Order, running, InLoop, Releasing, mainVars, videoVars
  <2>4. Late' /\ Counted'
    BY <1>4, FrameVideo DEF RtspFails, mainVars
  <2>5. Net' /\ FilesLast'
    BY <1>4, FrameNet DEF RtspFails, mainVars, videoVars, Inv, Net
  <2> QED
    BY <1>4, <2>2, <2>3, <2>4, <2>5, FrameCrash DEF Inv, RtspFails
<1>5. CASE UNCHANGED vars
  <2>0. /\ UNCHANGED <<mpc, stage, source, held, released, handler, rtsp, exit>>
        /\ UNCHANGED <<vpc, packets, iFramesDecoded, processed, late>>
    BY <1>5 DEF vars, mainVars, videoVars
  <2>9. ThreadsOK /\ HoldingsOK /\ CountsOK
    BY DEF Inv, TypeOK
  <2>1. ThreadsOK' /\ HoldingsOK' /\ CountsOK'
    <3>1. ThreadsOK'
      BY <2>0, <2>9 DEF ThreadsOK
    <3>2. HoldingsOK'
      BY <2>0, <2>9 DEF HoldingsOK
    <3>3. CountsOK'
      BY <2>0, <2>9 DEF CountsOK
    <3> QED
      BY <3>1, <3>2, <3>3
  <2>2. TypeOK'
    BY <1>5, <2>1, TypeKept DEF vars, Inv, mainVars
  <2>3. Order'
    BY <1>5 DEF vars, Inv, Order, running, InLoop, Releasing, mainVars, videoVars
  <2>4. Late' /\ Counted'
    BY <1>5, FrameVideo DEF vars, mainVars
  <2>5. Net' /\ FilesLast'
    BY <1>5, FrameNet DEF vars, mainVars, videoVars, Inv, Net
  <2>6. CrashNeedsFile'
    BY <1>5 DEF vars, mainVars, Inv, CrashNeedsFile, FilesOpened
  <2> QED
    BY <2>2, <2>3, <2>4, <2>5, <2>6 DEF Inv
<1> QED
  BY <1>1, <1>2, <1>3, <1>4, <1>5, InvMain, InvVideo DEF Next

LEMMA InvHolds == Spec => []Inv
BY InvInit, InvStep, PTL DEF Spec

(* ServerProcess's variables keep their types. *)
THEOREM ProcessTypes == Spec => []TypeOK
<1>1. Inv => TypeOK
  BY DEF Inv
<1> QED
  BY <1>1, InvHolds, PTL

(* However long the source and wherever CTRL+C finds the video thread, at  *)
(* most one more frame goes out.                                           *)
THEOREM OneLateFrame == Spec => []AtMostOneLateFrame
<1>1. Inv => AtMostOneLateFrame
  BY DEF Inv, Late, AtMostOneLateFrame
<1> QED
  BY <1>1, InvHolds, PTL

(* The limit of -z n is compared before a frame is counted: the loop goes  *)
(* through one frame more than it says, but no more than one.              *)
AtMostOneFrameOver == opts.maxframes > 0 => processed <= opts.maxframes + 1

(* So much holds whatever the limit, the source and the command line.      *)
THEOREM OneFrameOver == Spec => []AtMostOneFrameOver
<1>1. Inv => AtMostOneFrameOver
  <2> SUFFICES ASSUME Inv PROVE AtMostOneFrameOver
    OBVIOUS
  <2>1. opts.maxframes \in Nat /\ processed \in Nat /\ iFramesDecoded \in Nat
    BY OptionsFacts DEF Inv, TypeOK, CountsOK
  <2> QED
    BY <2>1 DEF Inv, Counted, AtMostOneFrameOver
<1> QED
  BY <1>1, InvHolds, PTL

(* Until CTRL+C main takes nothing from under the video thread. *)
THEOREM StreamingHoldsAll == Spec => []HeldWhileStreaming
<1>1. Inv => HeldWhileStreaming
  BY HeldUntilStop, UsesOpened DEF HeldWhileStreaming
<1> QED
  BY <1>1, InvHolds, PTL

(* Whatever the command line, where the video thread waits for a PLAY an   *)
(* RTSP thread has been started.                                           *)
THEOREM WaitIsAnswerable == Spec => []WaitsForSomebody
<1>1. Inv => WaitsForSomebody
  <2> SUFFICES ASSUME Inv, vpc = "slp" PROVE rtsp # "none"
    BY DEF WaitsForSomebody
  <2>1. running /\ vpc \in InLoop
    BY DEF Inv, Order, InLoop
  <2> QED
    BY <2>1 DEF Inv, Order, Net
<1> QED
  BY <1>1, InvHolds, PTL

(* Whatever the command line, a crash in the video loop or in the final    *)
(* fclose has one of two causes.                                           *)
THEOREM CrashHasCause == Spec => []CrashNeedsFile
<1>1. Inv => CrashNeedsFile
  BY DEF Inv
<1> QED
  BY <1>1, InvHolds, PTL

(* No command line makes the server read a file: the input is a camera, or *)
(* there is none yet.                                                      *)
THEOREM NeverAFile == Spec => [](source # "file")
<1>1. Init => source # "file"
  BY DEF Init
<1>2. Inv /\ source # "file" /\ [Next]_vars => (source # "file")'
  <2> SUFFICES ASSUME Inv, source # "file", [Next]_vars PROVE (source # "file")'
    OBVIOUS
  <2>1. CASE Acquire
    <3>1. opts.mode \in {"NULL", "FIL", "V4L"}
      BY DEF Inv, TypeOK, OptionsOK, CliOpts
    <3> QED
      BY <2>1, <3>1 DEF Acquire, Source
  <2>2. CASE Video
    BY <2>2 DEF Video, ReadFrame, SourceEnds, CheckStop, Decode, Convert, ConversionFails,
                SaveFrame, SaveFrameFails, Encode, AwaitPlay, Send, Flush, LogFrame, CountFrame, Crash,
                Advance, Exit, mainVars
  <2>3. CASE Main /\ ~Acquire
    BY <2>3 DEF Main, ParseOption, ReadOptions, StartupFails, OpenFiles, StartNetwork, SpawnVideo,
                SetHandler, LeaveLoop, FreeMemory, CloseCodecs, CloseInput, CloseFiles, CloseFails,
                Finish, Release, Exit
  <2>4. CASE Interrupt \/ Play \/ RtspFails \/ NetworkDies \/ UNCHANGED vars
    BY <2>4 DEF Interrupt, Play, RtspFails, NetworkDies, Exit, vars, mainVars
  <2> QED
    BY <2>1, <2>2, <2>3, <2>4 DEF Next
<1> QED
  BY <1>1, <1>2, InvHolds, PTL DEF Spec
=============================================================================
