------------------------------- MODULE Lists --------------------------------
(* A loop over a list that appends what it accepts.  It is a recursive     *)
(* function, unlike SelectSeq, so that it can be reasoned about.           *)
EXTENDS SequencesExt

\* The elements of s that are in accepted, in their order.
Filter(s, accepted) ==
  LET upTo[n \in 0..Len(s)] ==
        IF n = 0 THEN <<>>
        ELSE IF s[n] \in accepted THEN Append(upTo[n - 1], s[n]) ELSE upTo[n - 1]
  IN upTo[Len(s)]
=============================================================================
