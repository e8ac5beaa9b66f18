------------------------------ MODULE Buckets ------------------------------
(***************************************************************************)
(* The collections the emulator keeps messages in: VecDeque and Vec as      *)
(* sequences, HashMap as functions.                                        *)
(***************************************************************************)
EXTENDS Integers, SequencesExt

(***************************************************************************)
(* The elements of sequence s that are in S, in their order: what retain,  *)
(* and draining a bucket into the part that stays, compute.  Written with  *)
(* ranks because SelectSeq is recursive and opaque to the provers.         *)
(***************************************************************************)
Rank(I, i)    == Cardinality({j \in I : j <= i})
Nth(I, k)     == CHOOSE i \in I : Rank(I, i) = k
Places(s, S)  == {i \in DOMAIN s : s[i] \in S}
Keep(s, S)    == [k \in 1..Cardinality(Places(s, S)) |-> s[Nth(Places(s, S), k)]]
Without(s, x) == Keep(s, Range(s) \ {x})

\* insert into and remove from a HashMap.
With(f, k, v) == [x \in DOMAIN f \cup {k} |-> IF x = k THEN v ELSE f[x]]
Drop(f, K)    == Restrict(f, DOMAIN f \ K)
=============================================================================
