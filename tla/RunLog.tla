------------------------------- MODULE RunLog -------------------------------
(* What the event stream of a run promises, without buffers, queues or        *)
(* replays: a log that only grows, of which each reader reads a prefix, event *)
(* by event, and which a reader leaves only at or after the final event.  A   *)
(* reader is told nothing for certain once the log is longer than Capacity    *)
(* (lossy).                                                                   *)
EXTENDS Naturals

CONSTANTS Readers, Capacity

VARIABLES
  length,    \* how many events the log has
  final,     \* the number of the final event, 0 before it
  read,      \* read[r]: r has read the events 1 .. read[r]
  lossy,     \* the readers that may have missed an event
  finished   \* the readers that were told the log is over

vars == <<length, final, read, lossy, finished>>

Init ==
  /\ length = 1
  /\ final = 0
  /\ read = [r \in Readers |-> 0]
  /\ lossy = {}
  /\ finished = {}

\* Some readers lose track, which needs a log longer than Capacity.
Lose(n) ==
  \E L \in SUBSET Readers :
    /\ lossy \subseteq L
    /\ L # lossy => n > Capacity
    /\ lossy' = L
    /\ read' = [r \in Readers |-> IF r \in L THEN 0 ELSE read[r]]

Append ==
  /\ length' = length + 1
  /\ final' \in {final} \cup (IF final = 0 THEN {length'} ELSE {})
  /\ Lose(length')
  /\ UNCHANGED finished

Read(r) ==
  /\ r \notin lossy \cup finished
  /\ read[r] < length
  /\ read' = [read EXCEPT ![r] = @ + 1]
  /\ UNCHANGED <<length, final, lossy, finished>>

Lag ==
  /\ Lose(length)
  /\ UNCHANGED <<length, final, finished>>

Finish(r) ==
  /\ r \notin finished
  /\ final # 0
  /\ r \notin lossy => read[r] >= final
  /\ finished' = finished \cup {r}
  /\ UNCHANGED <<length, final, read, lossy>>

Next ==
  \/ Append
  \/ Lag
  \/ \E r \in Readers : Read(r) \/ Finish(r)

Spec == Init /\ [][Next]_vars
=============================================================================
