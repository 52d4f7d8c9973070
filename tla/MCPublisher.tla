---------------------------- MODULE MCPublisher ----------------------------
(***************************************************************************)
(* Instance of Publisher for TLC: one writer that may ask for anything and *)
(* a rival with a single stale, private request.  A call that fails after  *)
(* it began to write leaves files behind, and the set of trees grows with  *)
(* every one, so their number is bounded.                                  *)
(***************************************************************************)
EXTENDS Publisher, TLC

CONSTANTS f1, s1, e2, r1, rival, MaxFailures

VARIABLE failures

MCFrontierOf == (s1 :> f1)

StaleRequest ==
    [ids |-> Ids, evidence |-> e2, rule |-> r1, at |-> 1, public |-> FALSE]

Offered(w) == IF w = rival THEN {StaleRequest} ELSE Requests

MCInit == Init /\ failures = 0

MCFail(w) ==
    /\ Fail(w)
    /\ IF pc[w] = "writing"
       THEN failures < MaxFailures /\ failures' = failures + 1
       ELSE UNCHANGED failures

MCNext ==
    \E w \in Writers :
        \/ Evaluate(w) /\ req'[w] \in Offered(w) /\ UNCHANGED failures
        \/ Step(w) /\ UNCHANGED failures
        \/ MCFail(w)

MCSpec == MCInit /\ [][MCNext]_<<vars, failures>>
=============================================================================
