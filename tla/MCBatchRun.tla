----------------------------- MODULE MCBatchRun -----------------------------
(* Instances of BatchRun for TLC. *)
EXTENDS BatchRun, TLC

CONSTANTS r1, r2, k1

\* Two requests race with one idempotency key.
MCSameKey == [r \in Runs |-> k1]
\* No request has a key.
MCNoKeys == [r \in Runs |-> NoKey]

\* Bound: no client cancels in a behaviour in which the second request came.  Only
\* SubLookup and CanRead lead out of it.
MCFew ==
    (\E r \in Runs \ {r1} : sub[r] # "idle") => \A r \in Runs : can[r].pc = "idle"

\* The behaviours in which no lease expires.
MCLeasesHold == Init /\ [][Next /\ \A r \in Runs : ~LeaseExpires(r)]_vars

MCSymmetry == Permutations(Workers) \cup Permutations(Items)
=============================================================================
