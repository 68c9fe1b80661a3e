------------------------- MODULE IdAllocatorContract -------------------------
(***************************************************************************)
(* What IdAllocator::alloc_id promises its callers, without the ceiling,   *)
(* the lock or the persistence: every call that returns an id returns one  *)
(* greater than every id returned before, across restarts of the owner.   *)
(***************************************************************************)
EXTENDS Naturals, Sequences

CONSTANT Ids        \* the ids that may be returned

VARIABLE issued     \* the ids returned so far, in order

Init == issued = <<>>

(* One call returns a fresh id above all earlier ones.                    *)
Alloc ==
    \E id \in Ids :
        /\ \A i \in DOMAIN issued : issued[i] < id
        /\ issued' = Append(issued, id)

Spec == Init /\ [][Alloc]_issued
=============================================================================
