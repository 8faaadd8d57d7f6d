---------------------------- MODULE CommandLine ----------------------------
(***************************************************************************)
(* What get_options makes of the server's command line.  An argument is a  *)
(* pair: the option, and the word after it as far as the code tells words  *)
(* apart.  Its effect is on cliOpts, the record of all options, which is   *)
(* what main and the video thread ask later.                               *)
(***************************************************************************)
EXTENDS Naturals, Sequences

CONSTANTS
  MaxFrames,   \* the number after -z
  SaveFrames   \* the number after -s

ASSUME MaxFramesAssumption == MaxFrames \in Nat
ASSUME SaveFramesAssumption == SaveFrames \in Nat

(* Options without a word stand with "".  -v only makes the server talk,   *)
(* and is left out.                                                        *)
Words ==
  [m |-> {"", "FILE", "V4L2"}, d |-> {"", "path"},
   p |-> {"", "port", "0", "negative"}, t |-> {"", "UDP", "TCP"}, c |-> {"", "MJPEG", "H264"},
   o |-> {"", "path"}, a |-> {"", "path"}, s |-> {"n"}, z |-> {"n"},
   r |-> {"", "640x480", "640"}, f |-> {""}, version |-> {""}, DEFAULT |-> {""}, h |-> {""}]

Arguments == UNION {{<<option, word>> : word \in Words[option]} : option \in DOMAIN Words}

(* The options whose word may not be empty. *)
Worded == {"m", "d", "p", "t", "c", "o", "a", "r"}

(* cliOpts, with what get_options returns.  Modes are what is stored.      *)
CliOpts ==
  [mode : {"NULL", "FIL", "V4L"}, devicepath : BOOLEAN,
   networkport : {"zero", "port", "negative"},
   transport : {"unset", "TCP", "UDP"}, vcodec : {"unset", "MJPEG", "H264"},
   savevideo : BOOLEAN, saveaudio : BOOLEAN, saveframes : {0, SaveFrames, 10},
   maxframes : {0, MaxFrames, 100}, inquiry : BOOLEAN, error : BOOLEAN]

NoOptions ==
  [mode |-> "NULL", devicepath |-> FALSE, networkport |-> "zero",
   transport |-> "unset", vcodec |-> "unset",
   savevideo |-> FALSE, saveaudio |-> FALSE, saveframes |-> 0, maxframes |-> 0,
   inquiry |-> FALSE, error |-> FALSE]

(* An empty word is an error, which does not stop the parsing.             *)
Empty(argument) == argument[1] \in Worded /\ argument[2] = ""

(* The copy of the mode is in upper case and a character short.            *)
StoredMode(word) == IF word = "FILE" THEN "FIL" ELSE "V4L"

(* atoi: "0" is the port that was never given.                             *)
StoredPort(word) == IF word = "0" THEN "zero" ELSE word

(* Whatever is not UDP is TCP, whatever is not MJPEG is H.264.             *)
Stored(cli, option, word) ==
  CASE option = "m" -> [cli EXCEPT !.mode = StoredMode(word)]
    [] option = "d" -> [cli EXCEPT !.devicepath = TRUE]
    [] option = "p" -> [cli EXCEPT !.networkport = StoredPort(word)]
    [] option = "t" -> [cli EXCEPT !.transport = word]
    [] option = "c" -> [cli EXCEPT !.vcodec = word]
    [] option = "o" -> [cli EXCEPT !.savevideo = TRUE]
    [] option = "a" -> [cli EXCEPT !.saveaudio = TRUE]
    [] option = "s" -> [cli EXCEPT !.saveframes = SaveFrames]
    [] option = "z" -> [cli EXCEPT !.maxframes = MaxFrames]
    [] option \in {"f", "version"} -> [cli EXCEPT !.inquiry = TRUE]
    [] option = "DEFAULT" ->
         [cli EXCEPT !.mode = "V4L", !.devicepath = TRUE, !.networkport = "port",
                     !.savevideo = TRUE, !.saveaudio = TRUE,
                     !.saveframes = 10, !.maxframes = 100]
    [] OTHER -> cli

Effect(cli, argument) ==
  IF Empty(argument) THEN [cli EXCEPT !.error = TRUE]
                     ELSE Stored(cli, argument[1], argument[2])

(* -h ends the process from inside; a resolution without an "x" has no     *)
(* second part, and atoi is given NULL.                                    *)
AsksForHelp(argument) == argument[1] = "h"
Malformed(argument) == argument = <<"r", "640">>

Mandatory(cli) ==
  /\ cli.mode # "NULL" /\ cli.devicepath /\ cli.networkport # "zero"
  /\ cli.transport # "unset" /\ cli.vcodec # "unset"
=============================================================================
