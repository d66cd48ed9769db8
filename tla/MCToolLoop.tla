----------------------------- MODULE MCToolLoop -----------------------------
(* ToolLoop with the batches in which waves, readers and cycles occur.      *)
EXTENDS ToolLoop, TLC

MCReaders == {"display"}

None3 == <<{}, {}, {}>>

\* A reader between two writers of one name: it waits for the first only.
Between == [tool |-> <<"fetch", "display", "fetch">>, ids |-> None3, names |-> None3]

\* Two calls that wait for each other, and a reader.
Cycle == [tool |-> <<"fetch", "plot", "display">>, ids |-> <<{2}, {1}, {}>>, names |-> None3]

\* A call that waits for two others, one of which waits for the other by name.
Chain == [tool |-> <<"plot", "fetch", "upload">>, ids |-> <<{}, {}, {1, 2}>>,
          names |-> <<{"fetch"}, {}, {}>>]

MCBatches == {Between, Cycle, Chain}
=============================================================================
