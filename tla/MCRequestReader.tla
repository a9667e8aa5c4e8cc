--------------------------- MODULE MCRequestReader ---------------------------
(* Reads of up to four bytes, and a limit that two lines just reach. *)
EXTENDS RequestReader, SequencesExt

MCChunks == SeqOf({"CR", "LF", "x"}, 4) \ {<<>>}
=============================================================================
