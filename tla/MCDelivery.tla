----------------------------- MODULE MCDelivery -----------------------------
(***************************************************************************)
(* Delivery for TLC: a statement of the documentation that the code does   *)
(* not keep, refuted by a run of its own.                                  *)
(***************************************************************************)
EXTENDS Delivery, TLC

\* Workers are interchangeable; used by the runs without liveness only.
WorkerSymmetry == Permutations(Workers)

\* README.md:22-24, "forwards each event ... with retries, dead-lettering, and
\* replay built in": each event is settled if its destination stays active
\* (tasks.py:20 does not look for the event of a task that was cut off).
EachEventSettles ==
    \A e \in Events :
        <>[](destination[e] = "active") =>
            (status[e] \in {"queued", "delivering", "failed"} ~>
                status[e] \in {"delivered", "dead_lettered"})
=============================================================================
