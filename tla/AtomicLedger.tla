---------------------------- MODULE AtomicLedger ----------------------------
(* What the protected state storage promises its callers: a ledger that     *)
(* changes only by whole transitions, each of which survives crashes, and   *)
(* a permission to perform an effect that is handed out once per request    *)
(* and never before the request is on record.                               *)
EXTENDS LedgerTransitions

VARIABLES
    book,     \* the ledger
    grants    \* grants[i]: how often a caller was told to execute the effect of i

vars == <<book, grants>>

Init == book = EmptyLedger /\ grants = [i \in Ids |-> 0]

Admit(request) ==
    /\ Admissible(book, request)
    /\ book' = Admitted(book, request)
    /\ UNCHANGED grants

Settle(request, outcome) ==
    /\ CanSettle(book, request)
    /\ book' = Settled(book, request, outcome)
    /\ UNCHANGED grants

Grant(request) ==
    /\ CanSettle(book, request)
    /\ grants[request.id] = 0
    /\ grants' = [grants EXCEPT ![request.id] = 1]
    /\ UNCHANGED book

Next == \E request \in Requests :
            \/ Admit(request)
            \/ Grant(request)
            \/ \E outcome \in EffectOutcome : Settle(request, outcome)

Spec == Init /\ [][Next]_vars
=============================================================================
