--------------------------- MODULE WebhookDelivery ---------------------------
(* The webhook of a durable run: the dispatcher of                            *)
(* packages/worker/src/webhooks/dispatcher.ts with its outbox row and its     *)
(* delivery loop, one action per await, and the forwarder of routes.ts that   *)
(* takes an event from the stream, dispatches it and waits for the loop.      *)
EXTENDS Naturals, Sequences

CONSTANTS
  MaxAttempts,    \* the length of retryDelaysMs
  MaxFaults       \* bound: how many store calls throw

ASSUME WebhookDeliveryAssumption == MaxAttempts \in Nat \ {0} /\ MaxFaults \in Nat

VARIABLES
  hook,      \* the forwarder: off, next (awaits an event), busy, told, stopped
  job,       \* the dispatch it awaits
  rows,      \* the outbox rows of this run, in the order of their insertion
  faults

hookVars == <<hook, job, rows, faults>>

Row == [event : Nat, status : {"pending", "delivered", "failed"}]

Steps == {"none", "insert", "secret", "post", "success", "retry", "permanent", "settle"}

HookTypeOK ==
  /\ hook \in {"off", "next", "busy", "told", "stopped"}
  /\ job \in [step : Steps, event : Nat, last : BOOLEAN, attempt : 0 .. MaxAttempts,
              status : {"pending", "delivered", "failed"}]
  /\ rows \in Seq(Row)
  /\ faults \in 0 .. MaxFaults

NoJob == [step |-> "none", event |-> 0, last |-> FALSE, attempt |-> 0, status |-> "pending"]

HookInit ==
  /\ hook = "off"
  /\ job = NoJob
  /\ rows = <<>>
  /\ faults = 0

\* The forwarder dispatches event s; last tells that it is the terminal one.
Dispatch(s, last) ==
  /\ hook = "next"
  /\ hook' = "busy"
  /\ job' = [NoJob EXCEPT !.step = "insert", !.event = s, !.last = last]
  /\ UNCHANGED <<rows, faults>>

Insert ==
  /\ job.step = "insert"
  /\ rows' = Append(rows, [event |-> job.event, status |-> "pending"])
  /\ job' = [job EXCEPT !.step = "secret"]
  /\ UNCHANGED <<hook, faults>>

\* The loop reads the secret; without one the delivery has failed for good.
ReadSecret(found) ==
  /\ job.step = "secret"
  /\ job' = IF found
            THEN [job EXCEPT !.step = "post", !.attempt = 1]
            ELSE [job EXCEPT !.step = "settle", !.status = "failed"]
  /\ UNCHANGED <<hook, rows, faults>>

\* One POST: a 2xx is a success; a 429, a 5xx, a timeout or a network error is
\* tried again; any other answer and a refused URL are permanent.
Post(outcome) ==
  /\ job.step = "post"
  /\ job' = [job EXCEPT !.step = outcome]
  /\ UNCHANGED <<hook, rows, faults>>

\* Mutant of CountAttempt: one attempt too many.
CountAttemptLate ==
  /\ job.step = "retry"
  /\ job' = IF job.attempt <= MaxAttempts
            THEN [job EXCEPT !.step = "post", !.attempt = @ + 1]
            ELSE [job EXCEPT !.step = "settle", !.status = "failed"]
  /\ UNCHANGED <<hook, rows, faults>>

\* incrementAttempt, then what the outcome asks for.
CountAttempt ==
  /\ \/ /\ job.step = "success"
        /\ job' = [job EXCEPT !.step = "settle", !.status = "delivered"]
     \/ /\ job.step = "permanent"
        /\ job' = [job EXCEPT !.step = "settle", !.status = "failed"]
     \/ /\ job.step = "retry"
        /\ job.attempt < MaxAttempts
        /\ job' = [job EXCEPT !.step = "post", !.attempt = @ + 1]
     \/ /\ job.step = "retry"
        /\ job.attempt >= MaxAttempts
        /\ job' = [job EXCEPT !.step = "settle", !.status = "failed"]
  /\ UNCHANGED <<hook, rows, faults>>

\* updateStatus; the forwarder's await of the dispatch is over.
SettleRow ==
  /\ job.step = "settle"
  /\ rows' = [rows EXCEPT ![Len(rows)].status = job.status]
  /\ hook' = IF job.last THEN "told" ELSE "next"
  /\ job' = NoJob
  /\ UNCHANGED faults

\* Mutant of StoreFails: the forwarder goes on with the next event.
StoreFailsSkips ==
  /\ job.step \in {"insert", "secret", "success", "permanent", "retry", "settle"}
  /\ faults < MaxFaults
  /\ faults' = faults + 1
  /\ hook' = IF job.last THEN "told" ELSE "next"
  /\ job' = NoJob
  /\ UNCHANGED rows

\* A store call throws: the forwarder catches it and stops for good.
StoreFails ==
  /\ job.step \in {"insert", "secret", "success", "permanent", "retry", "settle"}
  /\ faults < MaxFaults
  /\ faults' = faults + 1
  /\ hook' = "stopped"
  /\ job' = NoJob
  /\ UNCHANGED rows

HookStep ==
  \/ Insert
  \/ \E found \in BOOLEAN : ReadSecret(found)
  \/ \E outcome \in {"success", "retry", "permanent"} : Post(outcome)
  \/ CountAttempt
  \/ SettleRow
  \/ StoreFails
=============================================================================
