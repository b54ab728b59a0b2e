----------------------------- MODULE MCLineInput -----------------------------
(* Small instances of the receive buffer and the parser for TLC.           *)
EXTENDS Relay

(* Pieces of lines, cut also between CR and LF and inside a word.          *)
SmallChunks ==
  {<<"a">>, <<" ">>, <<" ", ":">>, <<":">>, <<"\r">>, <<"\n">>,
   <<"#", "a", " ", "a">>, <<Control, "\n", "a">>}
=============================================================================
