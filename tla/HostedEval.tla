----------------------------- MODULE HostedEval -----------------------------
(* A hosted eval run: the executor goes through the items of a dataset in a    *)
(* worker, keeping its own record and writing it back after each case; cancel  *)
(* requests read the stored record and write it back too, from this worker or  *)
(* from another replica, which cannot reach the executor's abort signal.        *)
EXTENDS Integers, Sequences, SequencesExt

CONSTANTS
  ItemCount,      \* items of the dataset, executed in order
  Cancels,        \* requests to cancel the run
  Remote,         \* the ones that reach another replica
  MaxEvalFaults,  \* bound: store calls that throw
  MaxDeaths       \* bound: deaths of the executor's worker

ASSUME HostedEvalAssumption ==
  /\ ItemCount \in Nat \ {0}
  /\ Remote \subseteq Cancels

VARIABLES
  evalRun,     \* the stored record
  local,       \* the executor's record
  latest,      \* the record it read before this case
  outgoing,    \* the record it is writing
  evalPc,      \* where the executor is
  item,        \* the item it is at
  signal,      \* its abort signal
  score,       \* status in the latest score, or "none"
  asked,       \* cancel request -> its step and the record it read or writes
  evalFaults, deaths

evalVars == <<evalRun, local, latest, outgoing, evalPc, item, signal, score,
              asked, evalFaults, deaths>>

Items == 1 .. ItemCount
Case(i, result) == [item |-> i, result |-> result]
Fresh == [status |-> "running", cases |-> <<>>]
Has(cases, i) == \E n \in DOMAIN cases : cases[n].item = i

\* The executor changes its record and writes it.
WriteBack(record, step) ==
  /\ local' = record
  /\ outgoing' = record
  /\ evalPc' = step

CaseDone(record) == WriteBack(record, "put") /\ item' = item + 1

\* A case of a cancelled run, unless it has a result.
CancelCase(cases) ==
  [status |-> "cancelled",
   cases |-> IF Has(cases, item) THEN cases ELSE Append(cases, Case(item, "cancelled"))]

\* mergeEvalCaseResults: the local results, then the stored ones of other items
\* (in some order: nothing depends on it).
MergeCases(mine, stored) ==
  mine \o SetToSeq({c \in ToSet(stored) : ~Has(mine, c.item)})

EvalOther == <<evalRun, score, asked, evalFaults, deaths>>

\* startHostedEval: the run is stored, then its executor is on its own.
StartEval ==
  /\ evalPc = "idle"
  /\ evalRun' = Fresh
  /\ evalPc' = "look"
  /\ UNCHANGED <<local, latest, outgoing, item, signal, score, asked, evalFaults, deaths>>

Look ==
  /\ evalPc = "look"
  /\ latest' = evalRun
  /\ evalPc' = "decide"
  /\ UNCHANGED <<local, outgoing, item, signal, EvalOther>>

\* A mutant: a case is recorded as cancelled whether or not it has a result.
DecideAgain ==
  /\ evalPc = "decide"
  /\ IF signal \/ latest.status = "cancelled"
     THEN CaseDone([status |-> "cancelled",
                    cases |-> Append(IF latest.status = "cancelled"
                                     THEN MergeCases(local.cases, latest.cases)
                                     ELSE local.cases, Case(item, "cancelled"))])
     ELSE evalPc' = "target" /\ UNCHANGED <<local, outgoing, item>>
  /\ UNCHANGED <<latest, signal, EvalOther>>

\* A mutant: only the stored status is looked at.
DecideByStore ==
  /\ evalPc = "decide"
  /\ IF latest.status = "cancelled"
     THEN CaseDone(CancelCase(MergeCases(local.cases, latest.cases)))
     ELSE evalPc' = "target" /\ UNCHANGED <<local, outgoing, item>>
  /\ UNCHANGED <<latest, signal, EvalOther>>

Decide ==
  /\ evalPc = "decide"
  /\ IF signal \/ latest.status = "cancelled"
     THEN CaseDone(CancelCase(IF latest.status = "cancelled"
                              THEN MergeCases(local.cases, latest.cases)
                              ELSE local.cases))
     ELSE evalPc' = "target" /\ UNCHANGED <<local, outgoing, item>>
  /\ UNCHANGED <<latest, signal, EvalOther>>

CaseResult(result) ==
  CaseDone([local EXCEPT !.cases = Append(@, Case(item, result))])

\* The agent has run: a cancel meanwhile counts, be its outcome good or bad.
Target(ok) ==
  /\ evalPc = "target"
  /\ IF signal
     THEN /\ WriteBack(CancelCase(local.cases), IF ok THEN "putTried" ELSE "put")
          /\ item' = item + 1
     ELSE IF ok THEN evalPc' = "judge" /\ UNCHANGED <<local, outgoing, item>>
     ELSE CaseResult("failed")
  /\ UNCHANGED <<latest, signal, EvalOther>>

\* The judges: a cancel makes those still at work throw.
Judge(threw) ==
  /\ evalPc = "judge"
  /\ threw => signal
  /\ IF threw THEN CaseDone(CancelCase(local.cases)) ELSE CaseResult("completed")
  /\ UNCHANGED <<latest, signal, EvalOther>>

FinishEval ==
  /\ evalPc = "finish"
  /\ WriteBack([local EXCEPT !.status = IF signal THEN "cancelled" ELSE "completed"], "putLast")
  /\ UNCHANGED <<latest, item, signal, EvalOther>>

NextCase == IF item > ItemCount THEN "finish" ELSE "look"
After == [put |-> NextCase, putTried |-> NextCase, putLast |-> "score", putFailed |-> "scoreFailed"]

EvalLands ==
  /\ evalPc \in DOMAIN After
  /\ evalRun' = outgoing
  /\ evalPc' = After[evalPc]
  /\ UNCHANGED <<local, latest, outgoing, item, signal, score, asked, evalFaults, deaths>>

EvalScores ==
  /\ evalPc \in {"score", "scoreFailed"}
  /\ score' = local.status
  /\ evalPc' = "over"
  /\ UNCHANGED <<evalRun, local, latest, outgoing, item, signal, asked, evalFaults, deaths>>

\* A mutant: the error is logged only.
EvalThrowsQuietly ==
  /\ evalPc \in DOMAIN After \cup {"look", "score", "scoreFailed"}
  /\ evalFaults < MaxEvalFaults
  /\ evalFaults' = evalFaults + 1
  /\ evalPc' = "over"
  /\ UNCHANGED <<evalRun, local, latest, outgoing, item, signal, score, asked, deaths>>

\* A store call throws: the run is written as failed; an error there leaves the
\* record as it was stored before ("lost"), one in its score ends the run.  The write after a cancelled target is within its try, whose catch writes again.
EvalThrows ==
  /\ evalPc \in DOMAIN After \cup {"look", "score", "scoreFailed"}
  /\ evalFaults < MaxEvalFaults
  /\ evalFaults' = evalFaults + 1
  /\ IF evalPc \in {"putFailed", "scoreFailed"}
     THEN /\ evalPc' = IF evalPc = "putFailed" THEN "lost" ELSE "over"
          /\ UNCHANGED <<local, outgoing>>
     ELSE IF evalPc = "putTried" THEN WriteBack(local, "put")
     ELSE WriteBack([local EXCEPT !.status = "failed"], "putFailed")
  /\ UNCHANGED <<evalRun, latest, item, signal, score, asked, deaths>>

EvalStep ==
  \/ Look
  \/ Decide
  \/ \E ok \in BOOLEAN : Target(ok) \/ Judge(ok)
  \/ FinishEval
  \/ EvalLands
  \/ EvalScores
  \/ EvalThrows

-----------------------------------------------------------------------------
(* POST /eval-runs/:id/cancel *)

CancelMoves(c, step, record) == asked' = [asked EXCEPT ![c] = [pc |-> step, run |-> record]]

CancelReads(c) ==
  /\ asked[c].pc = "idle"
  /\ evalPc # "idle"
  /\ CancelMoves(c, "read", evalRun)
  /\ UNCHANGED <<evalRun, local, latest, outgoing, evalPc, item, signal, score, evalFaults, deaths>>

Alive == evalPc \notin {"idle", "over", "lost", "dead"}

\* The abort and the record to write; a run that has ended is answered as it is.
CancelActs(c) ==
  /\ asked[c].pc = "read"
  /\ signal' = (signal \/ (c \notin Remote /\ Alive))
  /\ LET row == asked[c].run
         missing == SetToSeq({Case(i, "cancelled") : i \in {j \in Items : ~Has(row.cases, j)}}) IN
     IF row.status = "running"
     THEN CancelMoves(c, "put", [status |-> "cancelled", cases |-> row.cases \o missing])
     ELSE CancelMoves(c, "answered", row)
  /\ UNCHANGED <<evalRun, local, latest, outgoing, evalPc, item, score, evalFaults, deaths>>

CancelLands(c) ==
  /\ asked[c].pc = "put"
  /\ evalRun' = asked[c].run
  /\ CancelMoves(c, "score", asked[c].run)
  /\ UNCHANGED <<local, latest, outgoing, evalPc, item, signal, score, evalFaults, deaths>>

CancelScores(c) ==
  /\ asked[c].pc = "score"
  /\ score' = "cancelled"
  /\ CancelMoves(c, "answered", asked[c].run)
  /\ UNCHANGED <<evalRun, local, latest, outgoing, evalPc, item, signal, evalFaults, deaths>>

CancelThrows(c) ==
  /\ asked[c].pc \in {"put", "score"}
  /\ evalFaults < MaxEvalFaults
  /\ evalFaults' = evalFaults + 1
  /\ CancelMoves(c, "refused", asked[c].run)
  /\ UNCHANGED <<evalRun, local, latest, outgoing, evalPc, item, signal, score, deaths>>

\* The worker dies, with the executor and the requests it serves.
Die ==
  /\ Alive
  /\ deaths < MaxDeaths
  /\ deaths' = deaths + 1
  /\ evalPc' = "dead"
  /\ asked' = [c \in Cancels |-> IF c \notin Remote /\ asked[c].pc \in {"read", "put", "score"}
                                 THEN [asked[c] EXCEPT !.pc = "refused"] ELSE asked[c]]
  /\ UNCHANGED <<evalRun, local, latest, outgoing, item, signal, score, evalFaults>>

-----------------------------------------------------------------------------
EvalInit ==
  /\ evalRun = Fresh
  /\ local = Fresh
  /\ latest = Fresh
  /\ outgoing = Fresh
  /\ evalPc = "idle"
  /\ item = 1
  /\ signal = FALSE
  /\ score = "none"
  /\ asked = [c \in Cancels |-> [pc |-> "idle", run |-> Fresh]]
  /\ evalFaults = 0
  /\ deaths = 0

EvalNext ==
  \/ StartEval
  \/ EvalStep
  \/ \E c \in Cancels : \/ CancelReads(c) \/ CancelActs(c) \/ CancelLands(c)
                        \/ CancelScores(c) \/ CancelThrows(c)
  \/ Die

EvalSpec == EvalInit /\ [][EvalNext]_evalVars

-----------------------------------------------------------------------------
(* Properties. *)

\* No item is ever reported twice, and once the run has completed, or was
\* cancelled and its executor is over, every item is reported, whoever else
\* still cancels it.
EvalReport ==
  LET cases == evalRun.cases IN
  /\ \A m, n \in DOMAIN cases : cases[m].item = cases[n].item => m = n
  /\ evalRun.status = "completed" \/ (evalRun.status = "cancelled" /\ evalPc = "over") =>
       \A i \in Items : Has(cases, i)

\* A result the executor has for a case is never replaced by the placeholder that
\* a canceller wrote for it, and what it writes back has every result it has.
ResultsKept ==
  /\ ToSet(local.cases) \subseteq ToSet(local'.cases)
  /\ outgoing' # outgoing => ToSet(local.cases) \subseteq ToSet(outgoing'.cases)

\* Cancellation in the executor's worker stops the scheduling of new cases, and
\* the run does not complete.
CancelStops ==
  signal => /\ evalPc' = "target" => evalPc = "target"
            /\ evalPc = "finish" => local'.status # "completed"

\* Both, of every step: what a cancelled run may still do, and what it keeps.
ExecutorRules == [][ResultsKept /\ CancelStops]_evalVars

\* Every run ends in the store, after a failing call too, unless its worker dies
\* or the write that would say it failed throws as well.
EvalEnds == evalPc = "look" ~> [](evalRun.status # "running" \/ evalPc \in {"dead", "lost"})
=============================================================================
