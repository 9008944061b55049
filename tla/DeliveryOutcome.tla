--------------------------- MODULE DeliveryOutcome ---------------------------
(***************************************************************************)
(* What the delivery pipeline promises about an event, without workers,    *)
(* messages, retries or snapshots: it is attempted with the numbers 1, 2,  *)
(* ..., it is called delivered only when its receiver accepted it, dead    *)
(* only when its whole budget was attempted, and a request to replay it    *)
(* gets one verdict, on the same evidence.  Nothing is promised about how  *)
(* often the receiver sees an event: delivery is at least once.            *)
(***************************************************************************)
EXTENDS Integers, Sequences

CONSTANTS Events, MaxAttempts

VARIABLES
    outcome,   \* none, open, delivered or dead
    tried,     \* the attempt numbers begun
    reached,   \* whether the receiver accepted the event
    requests   \* replay requests: [event, status]

vars == <<outcome, tried, reached, requests>>

Init ==
    /\ outcome = [e \in Events |-> "none"]
    /\ tried = [e \in Events |-> {}]
    /\ reached = [e \in Events |-> FALSE]
    /\ requests = <<>>

Accept(e) ==
    /\ outcome[e] = "none"
    /\ outcome' = [outcome EXCEPT ![e] = "open"]
    /\ UNCHANGED <<tried, reached, requests>>

\* Numbers are used in order; after a replay they start again at 1.
NextNumbers(e) == {1} \cup {n + 1 : n \in tried[e]}

Attempt(e, n) ==
    /\ outcome[e] \in {"open", "dead"}
    /\ outcome' = [outcome EXCEPT ![e] = "open"]
    /\ tried' = [tried EXCEPT ![e] = @ \cup {n}]
    /\ UNCHANGED <<reached, requests>>

Arrive(e) ==
    /\ tried[e] # {}
    /\ reached' = [reached EXCEPT ![e] = TRUE]
    /\ UNCHANGED <<outcome, tried, requests>>

\* The evidence for a verdict.
Justified(e, good) == IF good THEN reached[e] ELSE 1..MaxAttempts \subseteq tried[e]

Settle(e, good) ==
    /\ outcome[e] # "none"
    /\ Justified(e, good)
    /\ outcome' = [outcome EXCEPT ![e] = IF good THEN "delivered" ELSE "dead"]
    /\ UNCHANGED <<tried, reached, requests>>

\* A late result of an overlapping attempt, or a missing destination.
Reopen(e) ==
    /\ outcome[e] # "none"
    /\ outcome' = [outcome EXCEPT ![e] = "open"]
    /\ UNCHANGED <<tried, reached, requests>>

Request(e) ==
    /\ outcome[e] # "none"
    /\ outcome' = [outcome EXCEPT ![e] = "open"]
    /\ requests' = Append(requests, [event |-> e, status |-> "queued"])
    /\ UNCHANGED <<tried, reached>>

\* All open requests of the event are judged together, and once.
Judge(e, good) ==
    /\ Justified(e, good)
    /\ requests' = [r \in DOMAIN requests |->
                      IF requests[r].event = e /\ requests[r].status = "queued"
                      THEN [requests[r] EXCEPT !.status =
                                IF good THEN "completed" ELSE "failed"]
                      ELSE requests[r]]
    /\ UNCHANGED <<outcome, tried, reached>>

Next ==
    \E e \in Events :
       \/ Accept(e) \/ Arrive(e) \/ Reopen(e) \/ Request(e)
       \/ \E n \in NextNumbers(e) : Attempt(e, n)
       \/ \E good \in BOOLEAN : Settle(e, good) \/ Judge(e, good)

Spec == Init /\ [][Next]_vars

=============================================================================
