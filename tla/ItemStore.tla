----------------------------- MODULE ItemStore -----------------------------
(***************************************************************************)
(* What a storage.Client promises the persistent queue that owns it: the   *)
(* items and the write index it keeps change only as the call in progress  *)
(* asks, an item and the index that covers it change together, and nothing *)
(* else the storage does (opening, evicting, rolling and collecting files, *)
(* failing, stopping and restarting) is visible.                           *)
(***************************************************************************)
EXTENDS Integers

CONSTANT Items

VARIABLES
  stored,   \* the items a Get finds
  index,    \* the write index recorded under qmv0, -1 when there is none
  deleting  \* the items that the call in progress asks to delete

vars == <<stored, index, deleting>>

Init == stored = {} /\ index = -1 /\ deleting = {}

\* A call that deletes the items K begins, and a call ends.
Begin == /\ deleting = {} /\ deleting' \in SUBSET Items
         /\ UNCHANGED <<stored, index>>
End   == deleting' = {} /\ UNCHANGED <<stored, index>>

\* A new item is stored together with a write index just above it.
Offer ==
  /\ \E k \in Items :
       /\ k >= index /\ \A i \in stored : i < k
       /\ stored' = stored \cup {k} /\ index' = k + 1
  /\ UNCHANGED deleting

\* Part of the requested deletions, and a newer write index, take effect.
Update ==
  /\ stored' \in {stored \ D : D \in SUBSET deleting}
  /\ index' >= index
  /\ UNCHANGED deleting

Next == Begin \/ End \/ Offer \/ Update

Spec == Init /\ [][Next]_vars
=============================================================================
