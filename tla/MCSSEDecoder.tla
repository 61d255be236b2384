---------------------------- MODULE MCSSEDecoder ----------------------------
(***************************************************************************)
(* Streams of a few lines for TLC.                                         *)
(***************************************************************************)
EXTENDS SSEDecoder

(* Blank lines and lines with each field, with either terminator, and one  *)
(* with both.                                                              *)
Lines ==
  {<<"LF">>, <<"CR", "LF">>, <<":", "LF">>, <<"data", ":", "SP", "x", "LF">>,
   <<"data", ":", "CR", "LF">>, <<"data", "LF">>, <<"event", ":", "x", "LF">>,
   <<"event", ":", "CR", "CR", "LF">>, <<"id", ":", "x", "LF">>}

(* What is left without a terminator at end of stream.                     *)
Tails == {<< >>, <<"CR">>, <<"data", ":", "x">>}

(* Up to three lines and a tail.                                           *)
MCStreams ==
  {FlattenSeq(lines) \o tail : lines \in UNION {[1..k -> Lines] : k \in 0..3}, tail \in Tails}
=============================================================================
