----------------------------- MODULE ResourceSet -----------------------------
(***************************************************************************)
(* What the resource tree promises its callers, with the tree left out:   *)
(* the set of claimed ranges.  request_resource() claims a well-formed     *)
(* range that overlaps no claimed range; insert_resource() claims a        *)
(* well-formed range that nests with every claimed range (disjoint from,   *)
(* inside or around each one).  A call that may not claim its range        *)
(* leaves the set as it was and reports failure.                           *)
(***************************************************************************)
EXTENDS Integers

CONSTANTS Res, ResStart, ResEnd, MaxAddr, NULL

VARIABLES
    claimed,   \* the ranges in the tree
    result     \* the last call: [op, new, ok]

Span(r) == ResStart[r] .. ResEnd[r]
WellFormed(r) == ResStart[r] <= ResEnd[r] /\ ResEnd[r] <= MaxAddr
Nests(r, s) == \/ Span(r) \cap Span(s) = {}
               \/ Span(r) \subseteq Span(s)
               \/ Span(s) \subseteq Span(r)

Init ==
    /\ claimed = {}
    /\ result = [op |-> "none", new |-> NULL, ok |-> TRUE]

\* Claim new if ok, and report the outcome.
Claim(op, new, ok) ==
    /\ new \notin claimed
    /\ claimed' = IF ok THEN claimed \cup {new} ELSE claimed
    /\ result' = [op |-> op, new |-> new, ok |-> ok]

Request(new) ==
    Claim("request", new, WellFormed(new) /\ \A s \in claimed : Span(s) \cap Span(new) = {})

Insert(new) ==
    Claim("insert", new, WellFormed(new) /\ \A s \in claimed : Nests(new, s))

Next == \E new \in Res : Request(new) \/ Insert(new)

Spec == Init /\ [][Next]_<<claimed, result>>

====
