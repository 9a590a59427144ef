---------------------------- MODULE MCBootConfig ----------------------------
(* Two boots; the user may choose 480p with a width that is too large or   *)
(* none, 720p, or a height alone, or delete the file.                      *)
EXTENDS BootConfig

MCUserInis == {Missing, Ini(1920, 480), Ini(0, 480), Ini(1280, 720), Ini(640, 0)}
NoUserInis == {}
=============================================================================
