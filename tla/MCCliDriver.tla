---------------------------- MODULE MCCliDriver -----------------------------
(* Small instances of the driver for TLC. *)
EXTENDS CliDriver

(* Whole statements, two on a line, and pieces: a string may go on over lines and hold a semicolon. *)
MCLines ==
  {<<>>, <<"runs", ";">>, <<"runs">>, <<";">>, <<"runs", Quote, ";">>, <<Quote, ";">>,
   <<"runs", Quote, Escaped, ";", Quote, ";">>, <<"throws", ";", "runs", ";">>,
   <<"runs", ";", "exits", ";">>, <<"bad", ";">>}
=============================================================================
