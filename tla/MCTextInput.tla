---------------------------- MODULE MCTextInput ----------------------------
(* Units of 50 ms: a field expires after 2, presses are drained for 5. *)
EXTENDS TextInput

\* Nothing, and a text that fits the host buffer but not the name buffer.
MCTexts == {0, 20}
=============================================================================
