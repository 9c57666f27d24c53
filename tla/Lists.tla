------------------------------- MODULE Lists -------------------------------
(***************************************************************************)
(* The few operations on slices that the specifications share: what the    *)
(* loops of the Go code over a list compute.  They are kept in a module of *)
(* their own, without the rest of a library, so that the proofs about the  *)
(* specifications carry a small context.                                   *)
(***************************************************************************)
EXTENDS Integers, Sequences, Functions

Least(S) == CHOOSE x \in S : \A y \in S : x <= y

Greatest(S) == CHOOSE x \in S : \A y \in S : x >= y

Front(s) == SubSeq(s, 1, Len(s) - 1)

Last(s) == s[Len(s)]

RemoveAt(s, i) == SubSeq(s, 1, i - 1) \o SubSeq(s, i + 1, Len(s))

\* The places of an element, in any order.
Places(s, e) == {i \in 1 .. Len(s) : s[i] = e}

\* The list without its first e; the list itself when it has none.
RemoveFirst(s, e) == IF Places(s, e) = {} THEN s ELSE RemoveAt(s, Least(Places(s, e)))
=============================================================================
