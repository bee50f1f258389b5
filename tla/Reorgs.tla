------------------------------- MODULE Reorgs -------------------------------
(***************************************************************************)
(* What the streams carry when the chain is reorganised: a log of entries  *)
(* in which an entry with `undo` takes back the latest one that is left.   *)
(***************************************************************************)
EXTENDS Integers, SequencesExt

\* The chain: what is left of a log.
Surviving(entries) ==
  FoldLeft(LAMBDA chain, e : IF e.undo THEN Front(chain) ELSE Append(chain, e),
           <<>>, entries)

\* The chain after the first k entries of a log.
ChainAt(entries, k) == Surviving(SubSeq(entries, 1, k))

TakenBack(entry) == [entry EXCEPT !.undo = TRUE]

\* Where the first entry of stream s after position p is; streams[i] is the
\* stream of the i-th entry.
Upcoming(streams, p, s) ==
  {i \in p + 1..Len(streams) :
     streams[i] = s /\ \A j \in p + 1..i - 1 : streams[j] # s}

=============================================================================
