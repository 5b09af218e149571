--------------------------- MODULE MCRunRegistry ---------------------------
(* Instances of RunRegistry for TLC. *)
EXTENDS RunRegistry, TLC

CONSTANTS s1, k1

\* All callers share a session.
MCOneSession == [c \in Callers |-> s1]

\* Callers that have sent their request, and children created.
Asked   == Cardinality({c \in Callers : lk[c] # "idle"})
Spawned == Cardinality({k \in Kids : status[k] # "none"})

\* Bounds: a run has children only while no ephemeral request was sent, and two only
\* if a single request was; runs are evicted below a single request, or of two without
\* children.  Children are created in one order.  Only Request, Spawn and EvictSubtree
\* lead out of them, which nothing has to take: no step that Fairness speaks of is cut
\* off.
MCFew ==
    /\ (\E r \in Runs : status[r] = "evicted") => Asked = 1 \/ Asked + Spawned <= 2
    /\ Spawned > 0 =>
        /\ \A c \in Callers \ Persisted : lk[c] = "idle"
        /\ Asked + Spawned <= 3
        /\ \A k \in Kids \ {k1} : status[k] # "none" => status[k1] # "none"
=============================================================================
