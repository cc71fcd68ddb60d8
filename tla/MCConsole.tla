----------------------------- MODULE MCConsole -----------------------------
(***************************************************************************)
(* Instance of Console for TLC.  The texts of do_IRQ keep their newlines   *)
(* and have their words shortened: "[info] \ncode: 22\n" for a line        *)
(* without a handler, with a typed character in front of it for the        *)
(* keyboard, with "write success!!!!!\n" in front of it for the disk.      *)
(***************************************************************************)
EXTENDS Console

Info == <<"glyph", "nl", "glyph", "nl">>
MCIrqTexts == {Info, <<"glyph">> \o Info, <<"glyph", "nl">> \o Info}
=============================================================================
