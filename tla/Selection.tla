------------------------------ MODULE Selection -----------------------------
(***************************************************************************)
(* The loops over a slice that keep some of its elements, in their order,  *)
(* or the best of them, in a form that can be reasoned about.              *)
(***************************************************************************)
EXTENDS Integers, SequencesExt

\* The elements of seq at the positions in I.
At(seq, I) ==
    LET out[i \in 0..Len(seq)] ==
          IF i = 0 THEN <<>>
          ELSE IF i \in I THEN Append(out[i - 1], seq[i]) ELSE out[i - 1]
    IN  out[Len(seq)]

\* if test(x) { out = append(out, x) }
Select(seq, Test(_)) == At(seq, {i \in DOMAIN seq : Test(seq[i])})

\* if !seen[key(x)] { seen[key(x)] = true; out = append(out, x) }
FirstOfEach(seq, Key(_)) ==
    At(seq, {i \in DOMAIN seq : \A j \in 1..i - 1 : Key(seq[j]) # Key(seq[i])})

\* if best == nil || better(x, best) { best = x }
BestIn(seq, better, nil) ==
    LET best[i \in 0..Len(seq)] ==
          IF i = 0 THEN nil
          ELSE LET b == best[i - 1]
               IN  IF b = nil \/ <<seq[i], b>> \in better THEN seq[i] ELSE b
    IN  best[Len(seq)]

Best(seq, Better(_, _), nil) ==
    BestIn(seq, {p \in Range(seq) \X Range(seq) : Better(p[1], p[2])}, nil)
=============================================================================
