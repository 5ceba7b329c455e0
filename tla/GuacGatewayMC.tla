--------------------------- MODULE GuacGatewayMC ---------------------------
(* One connection; a first frame for every branch of handle_connection.    *)
EXTENDS GuacGateway

(* Blank, two dots that span a corner square, part of a row, two rows.   *)
MCScreens ==
  {[p \in Pixels |-> IF p \in inked THEN "black" ELSE "white"] : inked \in
     {{}, {<<1, 2>>, <<2, 1>>}, {2} \X {2, 3}, {1, 2} \X {1, 2, 3}}}

MCTexts ==
  {Empty, "connect", "key", "mouse", "ssh", "vnc", "rdp", "web", "ftp", "h", "u", "x",
   "0", "1", "13", "97", "65293"}

MCFirstFrames ==
  {Serialize("connect", args) : args \in
     {<<"ssh", "h">>, <<"vnc", "h", "1">>, <<"rdp", "h">>, <<"web", "u">>, <<"web", "u", "x">>,
      <<"ssh", "h", "x">>, <<"ftp", "h">>}}
  \cup {Serialize("key", <<"97">>), <<"connect">>, <<Reject>>}

(* A key, two mouse instructions in one frame (two buttons and the wheel,  *)
(* then one button), one split over two frames, a complete one followed by *)
(* a byte the parser rejects, a number std::stoi throws at.                *)
MCFrames ==
  {Serialize("key", <<"97", "1">>),
   Serialize("mouse", <<"1", "1", "13">>) \o Serialize("mouse", <<"1", "1", "1">>),
   <<"mouse", Comma, "1", Comma, "1">>, <<Comma, "1", Semi>>,
   Serialize("key", <<"65293", "1">>) \o <<Reject>>, Serialize("key", <<"x", "0">>)}
=============================================================================
