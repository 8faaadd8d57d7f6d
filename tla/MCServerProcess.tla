-------------------------- MODULE MCServerProcess --------------------------
(***************************************************************************)
(* Command lines for TLC: those of a server that runs, over each path of   *)
(* the video loop, and those that end it while it reads them.              *)
(***************************************************************************)
EXTENDS ServerProcess

Camera == <<<<"m", "V4L2">>, <<"d", "path">>>>
OverUDP == <<<<"t", "UDP">>, <<"c", "MJPEG">>>>
OverTCP == <<<<"t", "TCP">>, <<"c", "H264">>>>
OnPort == <<<<"p", "port">>>>

Running ==
  {Camera \o OverUDP \o OnPort \o <<<<"z", "n">>>>,
   Camera \o OverUDP \o OnPort \o <<<<"o", "path">>, <<"r", "640x480">>>>,
   Camera \o OverTCP \o OnPort \o <<<<"o", "path">>, <<"a", "path">>, <<"s", "n">>>>,
   Camera \o OverTCP \o <<<<"p", "negative">>, <<"o", "path">>, <<"z", "n">>>>,
   <<<<"m", "FILE">>, <<"d", "path">>>> \o OverTCP \o OnPort,
   <<<<"DEFAULT", "">>>> \o OverUDP \o <<<<"s", "n">>, <<"z", "n">>>>}

Ending ==
  {<<>>, <<<<"h", "">>>>, <<<<"version", "">>>>, <<<<"DEFAULT", "">>>>, Camera \o <<<<"r", "640">>>>,
   Camera \o OverUDP \o <<<<"p", "0">>>>, Camera \o <<<<"t", "">>>> \o OverUDP \o OnPort,
   Camera \o OverUDP \o OnPort \o <<<<"f", "">>>>}

MCCommandLines == Running \union Ending
=============================================================================
