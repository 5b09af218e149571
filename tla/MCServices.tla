----------------------------- MODULE MCServices -----------------------------
(* The parts of the worker that share no state with the runs, checked in one   *)
(* run: each behaviour is one of a single part, the other parts stay as they   *)
(* begin. What holds here holds of each part by itself.                         *)
EXTENDS Pipeline, HostedEval, RunWrites, TokenResolver, TraceLive, DatasetImport,
        EvalVersions, MemoryEntries

CONSTANTS w1, w2, w3

VARIABLE part

vars == <<part, pipeVars, evalVars, writeVars, tokenVars, traceVars, importVars, versionVars, memoryVars>>

MCStepKeys == <<"one", "two">>

MCInit ==
  /\ part \in {"pipeline", "eval", "writes", "tokens", "trace", "import", "versions", "memory"}
  /\ PipeInit /\ EvalInit /\ WriteInit /\ TokenInit /\ TraceInit /\ ImportInit /\ VersionInit
  /\ MemoryInit
  /\ manifest.until = NoClause \/ (manifest.until = "two" /\ manifest.schema = NoClause)
  /\ part # "pipeline" => manifest.kind = "parallel" /\ manifest.schema = NoClause

ByPipeline ==
  /\ part = "pipeline" /\ PipeNext
  /\ UNCHANGED <<part, evalVars, writeVars, tokenVars, traceVars, importVars, versionVars, memoryVars>>
ByEval(Action) ==
  /\ part = "eval" /\ Action
  /\ UNCHANGED <<part, pipeVars, writeVars, tokenVars, traceVars, importVars, versionVars, memoryVars>>
ByWrites ==
  /\ part = "writes" /\ WriteNext
  /\ UNCHANGED <<part, pipeVars, evalVars, tokenVars, traceVars, importVars, versionVars, memoryVars>>
ByTokens ==
  /\ part = "tokens" /\ TokenNext
  /\ UNCHANGED <<part, pipeVars, evalVars, writeVars, traceVars, importVars, versionVars, memoryVars>>
ByTrace(Action) ==
  /\ part = "trace" /\ Action
  /\ UNCHANGED <<part, pipeVars, evalVars, writeVars, tokenVars, importVars, versionVars, memoryVars>>
ByImport ==
  /\ part = "import" /\ ImportNext
  /\ UNCHANGED <<part, pipeVars, evalVars, writeVars, tokenVars, traceVars, versionVars, memoryVars>>
ByVersions ==
  /\ part = "versions" /\ VersionNext
  /\ UNCHANGED <<part, pipeVars, evalVars, writeVars, tokenVars, traceVars, importVars, memoryVars>>
ByMemory ==
  /\ part = "memory" /\ MemoryNext
  /\ UNCHANGED <<part, pipeVars, evalVars, writeVars, tokenVars, traceVars, importVars, versionVars>>

MCNext ==
  \/ ByPipeline
  \/ ByEval(EvalNext)
  \/ ByWrites
  \/ ByTokens
  \/ ByTrace(TraceNext)
  \/ ByImport
  \/ ByVersions
  \/ ByMemory

\* The executor of an eval goes on, and so does a canceller that has read the run;
\* a run's executor ends its trace, timers fire, the store answers, streams are read.
MCFairness ==
  /\ WF_vars(ByEval(EvalStep))
  /\ \A c \in Cancels : WF_vars(ByEval(CancelActs(c) \/ CancelLands(c)))
  /\ WF_vars(ByTrace(TraceStep))
  /\ WF_vars(ByTrace(TraceDone))
  /\ \A v \in Viewers : WF_vars(ByTrace(ViewerReads(v)))

MCSpec == MCInit /\ [][MCNext]_vars /\ MCFairness
=============================================================================
