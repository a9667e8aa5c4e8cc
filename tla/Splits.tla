------------------------------- MODULE Splits -------------------------------
(* slice::split, str::split and filter of the standard library, as the parsers    *)
(* use them.                                                                      *)
EXTENDS Naturals, Sequences, SequencesExt

\* The runs of a sequence between these symbols: one more than there are symbols.
Split(s, symbol) ==
  FoldLeft(LAMBDA runs, x : IF x = symbol THEN Append(runs, <<>>)
                            ELSE [runs EXCEPT ![Len(runs)] = Append(@, x)],
           <<<<>>>>, s)

\* What a filter leaves that drops one value.
Without(s, dropped) ==
  FoldLeft(LAMBDA kept, x : IF x = dropped THEN kept ELSE Append(kept, x), <<>>, s)
=============================================================================
