--------------------------- MODULE MCStateLeases ---------------------------
(* Two processes, both of which may want either lock.                       *)
EXTENDS StateLeases, TLC

CONSTANTS c1, c2, l1, l2, l3, l4, l5, l6, l7, l8

ClientSymmetry == Permutations(Clients)

(* What can still make a difference: an expired lease is dropped before     *)
(* anything looks at the table, a lease id is only compared with those in   *)
(* the table, and of an answered request only the bytes are looked at.      *)
Name(id) ==
    IF \E l \in Retained : l.id = id
    THEN (CHOOSE l \in Retained : l.id = id).object
    ELSE "gone"

QueueView(s) ==
    IF request[s] = None THEN None
    ELSE IF result[s] = None THEN [request[s] EXCEPT !.lease = Name(@)]
    ELSE [value |-> request[s].value,
          reply |-> IF result[s] \in LeaseIds THEN Name(result[s]) ELSE result[s]]

View ==
    <<{[l EXCEPT !.id = None] : l \in Retained}, [s \in Slots |-> QueueView(s)], file,
      pc, object, [c \in Clients |-> Name(lease[c])], waits, renewal, renewing, seen,
      count, acked, lost, faults>>
=============================================================================
