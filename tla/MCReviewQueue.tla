--------------------------- MODULE MCReviewQueue ---------------------------
(* Model checking of ReviewQueue: clients on both sides of every threshold *)
(* of the scoring, and the filings the queue is asked for.                 *)
EXTENDS ReviewQueue

MCProfiles ==
    {p \in [risk : {20, 49, 50, 70, 71, 84, 85},
            amount : {500000, 500001, 5000000},
            hits : BOOLEAN] : p.risk > 60 => p.hits}
============================================================================
