----------------------------- MODULE ClientTools -----------------------------
(* Tool calls answered by the application attached to the run:                *)
(* AttachedClientToolBroker in packages/worker/src/client-tools.ts, and       *)
(* handleClientToolRequest and submitClientToolResult of                      *)
(* packages/client/src/client.ts.  A promise settles once: what a later       *)
(* resolve or reject says is ignored (Settled).                               *)
EXTENDS Naturals, Sequences

CONSTANTS
  Calls         \* the client tool calls the runs may make

VARIABLES
  request,    \* request[q].status: the broker's entry for call q
  timer,      \* the calls whose deadline timer is armed
  listening,  \* the calls whose abort listener is attached
  outcome,    \* what the awaiting tool call got
  told        \* told[q]: the replies the application received for call q

toolVars == <<request, timer, listening, outcome, told>>

Replies == {"accepted", "duplicate", "expired", "unknown"}

ToolsTypeOK ==
  /\ request \in [Calls -> {"none", "pending", "submitted", "expired", "cancelled", "deleted"}]
  /\ timer \in SUBSET Calls
  /\ listening \in SUBSET Calls
  /\ outcome \in [Calls -> {"none", "waiting", "answer", "timeout", "cancel"}]
  /\ told \in [Calls -> SUBSET Replies]

ToolsInit ==
  /\ request = [q \in Calls |-> "none"]
  /\ timer = {}
  /\ listening = {}
  /\ outcome = [q \in Calls |-> "none"]
  /\ told = [q \in Calls |-> {}]

Settled(q, o) == [outcome EXCEPT ![q] = IF @ = "waiting" THEN o ELSE @]

\* Mutant of DispatchCall: no deadline for a call of a run that was cancelled.
DispatchUntimed(q, aborted) ==
  /\ request[q] = "none"
  /\ request' = [request EXCEPT ![q] = "pending"]
  /\ timer' = IF aborted THEN timer ELSE timer \cup {q}
  /\ listening' = IF aborted THEN listening ELSE listening \cup {q}
  /\ outcome' = [outcome EXCEPT ![q] = "waiting"]
  /\ UNCHANGED told

\* An abort listener added to a signal that has already aborted never fires.
DispatchCall(q, aborted) ==
  /\ request[q] = "none"
  /\ request' = [request EXCEPT ![q] = "pending"]
  /\ timer' = timer \cup {q}
  /\ listening' = IF aborted THEN listening ELSE listening \cup {q}
  /\ outcome' = [outcome EXCEPT ![q] = "waiting"]
  /\ UNCHANGED told

Expire(q) ==
  /\ q \in timer
  /\ request' = [request EXCEPT ![q] = "expired"]
  /\ timer' = timer \ {q}
  /\ listening' = listening \ {q}
  /\ outcome' = Settled(q, "timeout")
  /\ UNCHANGED told

\* The listeners of the aborted runs' calls fire.
AbortCalls(aborted) ==
  LET hit == {q \in listening \cap aborted : request[q] = "pending"} IN
  /\ request' = [q \in Calls |-> IF q \in hit THEN "cancelled" ELSE request[q]]
  /\ timer' = timer \ hit
  /\ listening' = listening \ aborted
  /\ outcome' = [q \in Calls |->
       IF q \in hit /\ outcome[q] = "waiting" THEN "cancel" ELSE outcome[q]]
  /\ UNCHANGED told

\* What submit answers.
Reply(q) ==
  CASE request[q] = "pending" -> "accepted"
    [] request[q] = "submitted" -> "duplicate"
    [] request[q] \in {"expired", "cancelled"} -> "expired"
    [] OTHER -> "unknown"

\* Mutant of Submit: the deadline timer is left armed.
SubmitKeepsTimer(q, heard) ==
  /\ told' = IF heard THEN [told EXCEPT ![q] = @ \cup {Reply(q)}] ELSE told
  /\ IF request[q] = "pending"
     THEN /\ request' = [request EXCEPT ![q] = "submitted"]
          /\ listening' = listening \ {q}
          /\ outcome' = Settled(q, "answer")
          /\ UNCHANGED timer
     ELSE UNCHANGED <<request, timer, listening, outcome>>

\* A result POST is served; heard is FALSE when its response is lost.
Submit(q, heard) ==
  /\ told' = IF heard THEN [told EXCEPT ![q] = @ \cup {Reply(q)}] ELSE told
  /\ IF request[q] = "pending"
     THEN /\ request' = [request EXCEPT ![q] = "submitted"]
          /\ timer' = timer \ {q}
          /\ listening' = listening \ {q}
          /\ outcome' = Settled(q, "answer")
     ELSE UNCHANGED <<request, timer, listening, outcome>>

\* Five minutes later the broker forgets the request.
Cleanup(q) ==
  /\ request[q] \in {"submitted", "expired", "cancelled"}
  /\ request' = [request EXCEPT ![q] = "deleted"]
  /\ UNCHANGED <<timer, listening, outcome, told>>
=============================================================================
