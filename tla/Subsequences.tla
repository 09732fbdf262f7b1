----------------------------- MODULE Subsequences -----------------------------
(***************************************************************************)
(* What a loop over a list keeps of it.  SelectSeq and the folds say it by *)
(* recursion; the positions kept say the same and can be reasoned about    *)
(* without induction over sequences.                                       *)
(***************************************************************************)
EXTENDS Naturals, Sequences, FiniteSets

\* The elements of s at the positions in I, in the order they have in s.
Selected(s, I) ==
  [k \in 1..Cardinality(I) |-> s[CHOOSE i \in I : Cardinality({j \in I : j <= i}) = k]]

\* The sequences of ss, one after the other: an element's place is the number of those
\* in earlier sequences or before it in its own.
Flattened(ss) ==
  LET places == UNION {{i} \X DOMAIN ss[i] : i \in DOMAIN ss}
      before(p, q) == p[1] < q[1] \/ (p[1] = q[1] /\ p[2] < q[2])
  IN [n \in 1..Cardinality(places) |->
        LET at == CHOOSE q \in places : Cardinality({p \in places : before(p, q)}) = n - 1
        IN ss[at[1]][at[2]]]

=============================================================================
