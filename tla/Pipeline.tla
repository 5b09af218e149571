------------------------------ MODULE Pipeline ------------------------------
(* A pipeline manifest: what the validator accepts, and what the executors    *)
(* then do with it.  The validator walks the steps in order and follows which *)
(* names are in scope and which properties each output has; the executors     *)
(* follow the values.  Steps are inline agents of the legacy schema form (a    *)
(* map of required properties); what such an agent does inside is abstracted   *)
(* to its output.                                                              *)
EXTENDS Integers, Sequences

CONSTANTS
  Props,           \* the property names of schemas and outputs
  StepKeys,        \* the state key of each step, in order
  MaxIterations,   \* maxIterations of a loop
  MaxMarks,        \* bound: when, input, until and output clauses in a manifest
  NoClause         \* an absent clause

ASSUME PipelineAssumption ==
  /\ StepKeys \in Seq(STRING)
  /\ \A i, j \in DOMAIN StepKeys : StepKeys[i] = StepKeys[j] => i = j
  /\ \A i \in DOMAIN StepKeys : StepKeys[i] \notin Props \cup {"userQuery"}
  /\ MaxIterations \in Nat \ {0}

VARIABLES
  manifest,   \* kind, schema, defaults, until, steps, output
  unsure,     \* steps for which the validator only warned
  stage,      \* load, run, join, done or failed
  given,      \* the raw input of the run
  state,      \* state key -> value
  previous,   \* previousOutput of the sequential executor
  at,         \* the step under way
  iteration,
  began,      \* step -> the state its child got when it last began
  results     \* step -> how it last ended, with its output

pipeVars == <<manifest, unsure, stage, given, state, previous, at, iteration, began, results>>

\* A value: null, a text, or an object with some properties that are not null.
Null == [type |-> "null", props |-> {}]
Text == [type |-> "text", props |-> {}]
Object(P) == [type |-> "object", props |-> P]
Values == {Null, Text} \cup {Object(P) : P \in SUBSET Props}

Pending == [how |-> "none", value |-> Null]

Roots == Props \cup {"userQuery"} \cup {StepKeys[i] : i \in DOMAIN StepKeys}
Clauses == Roots \cup {NoClause}
Schemas == {NoClause, Props}

Steps == [when : Clauses, input : {NoClause} \cup [Props -> Roots],
          schema : Schemas, out : {NoClause, Props}]

-----------------------------------------------------------------------------
(* The validator. *)

Marks(m) ==
  LET Clause(c) == IF c = NoClause THEN 0 ELSE 1
      Both(s) == Clause(s.when) + (IF s.input = NoClause THEN 0 ELSE 1)
      sum[i \in 0 .. Len(m.steps)] == IF i = 0 THEN 0 ELSE sum[i - 1] + Both(m.steps[i])
  IN sum[Len(m.steps)] + Clause(m.until) + Clause(m.output)

InputVars == IF manifest.schema = NoClause THEN {"userQuery"} ELSE manifest.schema

\* The names a step may refer to: in a loop every step's, elsewhere those before.
Available(i) ==
  InputVars \cup
    {StepKeys[j] : j \in IF manifest.until # NoClause THEN DOMAIN StepKeys
                         ELSE IF manifest.kind = "parallel" THEN {}
                         ELSE 1 .. i - 1}

RefsOf(step) ==
  (IF step.when = NoClause THEN {} ELSE {step.when})
    \cup (IF step.input = NoClause THEN {} ELSE {step.input[p] : p \in Props})

\* The properties the default upstream of a step has, NoClause if not known.
UpstreamKeys(i) ==
  IF manifest.kind = "parallel" \/ i = 1 THEN InputVars
  ELSE manifest.steps[i - 1].out

\* validateStepInputAgainstChild: no error, and no error but a warning.
InputFits(i, step) ==
  /\ step.input # NoClause /\ step.schema # NoClause => Props = step.schema
  /\ step.input = NoClause /\ step.schema # NoClause /\ UpstreamKeys(i) # NoClause =>
       step.schema \subseteq UpstreamKeys(i)

Unverified(i, step) ==
  IF step.input = NoClause
  THEN step.schema # NoClause /\ UpstreamKeys(i) = NoClause
  ELSE step.schema = NoClause

\* One turn of the loop over the steps, when it reports no error.
LoadStep(step) ==
  LET i == Len(manifest.steps) + 1 IN
  /\ stage = "load"
  /\ i \in DOMAIN StepKeys
  /\ manifest.kind = "parallel" => step.when = NoClause
  /\ RefsOf(step) \subseteq Available(i)
  /\ InputFits(i, step)
  /\ manifest' = [manifest EXCEPT !.steps = Append(@, step)]
  /\ Marks(manifest') <= MaxMarks
  /\ unsure' = IF Unverified(i, step) THEN unsure \cup {i} ELSE unsure
  /\ UNCHANGED <<stage, given, state, previous, at, iteration, began, results>>

-----------------------------------------------------------------------------
(* The executors. *)

CreateInitialState(input, schema, defaults) ==
  IF schema = NoClause THEN [k \in {"userQuery"} |-> input]
  ELSE IF input.type = "object"
       THEN [k \in schema |-> IF k \in input.props \cup defaults THEN Text ELSE Null]
       ELSE [k \in {"userQuery"} |-> Text]

ResolvePath(root) == IF root \in DOMAIN state THEN state[root] ELSE Null

ApplyInputTransform(step, upstream) ==
  IF step.input = NoClause THEN upstream
  ELSE Object({p \in Props : ResolvePath(step.input[p]) # Null})

\* The run begins once the whole manifest is accepted.  A default stands in for what
\* the caller left out, not for what it gave as null.
Execute(output, input, nulls) ==
  /\ stage = "load"
  /\ nulls \cap input.props = {}
  /\ Len(manifest.steps) = Len(StepKeys)
  /\ output # NoClause => output \in Available(Len(StepKeys) + 1) \cup {StepKeys[i] : i \in DOMAIN StepKeys}
  /\ manifest' = [manifest EXCEPT !.output = output]
  /\ Marks(manifest') <= MaxMarks
  /\ stage' = "run"
  /\ given' = input
  /\ state' = CreateInitialState(input, manifest.schema, manifest.defaults \ nulls)
  /\ previous' = input
  /\ at' = 1
  /\ iteration' = 1
  /\ UNCHANGED <<unsure, began, results>>

Begin(i, upstream) ==
  LET step == manifest.steps[i] IN
  began' = [began EXCEPT ![i] =
    CreateInitialState(ApplyInputTransform(step, upstream), step.schema, {})]

\* What an agent may return: with an outputSchema an object that matches it.
Outputs(step) == IF step.out = NoClause THEN Values ELSE {Object(step.out)}

Write(k, value) == [j \in DOMAIN state \cup {k} |-> IF j = k THEN value ELSE state[j]]

Sequential(i) == stage = "run" /\ manifest.kind = "sequential" /\ at = i

Skip(i) ==
  /\ Sequential(i)
  /\ manifest.steps[i].when # NoClause
  /\ state' = Write(StepKeys[i], Null)
  /\ results' = [results EXCEPT ![i] = [how |-> "skipped", value |-> Null]]
  /\ previous' = Null
  /\ at' = at + 1
  /\ UNCHANGED <<manifest, unsure, stage, given, iteration, began>>

\* A mutant: the upstream stays the pipeline's own input.
RunStepOnInput(i, value) ==
  /\ Sequential(i)
  /\ Begin(i, given)
  /\ value \in Outputs(manifest.steps[i])
  /\ state' = Write(StepKeys[i], value)
  /\ results' = [results EXCEPT ![i] = [how |-> "ran", value |-> value]]
  /\ previous' = value
  /\ at' = at + 1
  /\ UNCHANGED <<manifest, unsure, stage, given, iteration>>

RunStep(i, value) ==
  /\ Sequential(i)
  /\ Begin(i, previous)
  /\ value \in Outputs(manifest.steps[i])
  /\ state' = Write(StepKeys[i], value)
  /\ results' = [results EXCEPT ![i] = [how |-> "ran", value |-> value]]
  /\ previous' = value
  /\ at' = at + 1
  /\ UNCHANGED <<manifest, unsure, stage, given, iteration>>

FailStep(i) ==
  /\ Sequential(i)
  /\ Begin(i, previous)
  /\ stage' = "failed"
  /\ results' = [results EXCEPT ![i] = [how |-> "threw", value |-> Null]]
  /\ UNCHANGED <<manifest, unsure, given, state, previous, at, iteration>>

\* The end of an iteration: until holds, or there are no iterations left.
LoopAgain ==
  /\ Sequential(Len(StepKeys) + 1)
  /\ manifest.until # NoClause
  /\ iteration < MaxIterations
  /\ iteration' = iteration + 1
  /\ at' = 1
  /\ UNCHANGED <<manifest, unsure, stage, given, state, previous, began, results>>

LoopEnds ==
  /\ Sequential(Len(StepKeys) + 1)
  /\ stage' = "done"
  /\ UNCHANGED <<manifest, unsure, given, state, previous, at, iteration, began, results>>

Parallel == manifest.kind = "parallel"

\* Branches begin from the pipeline's own input, and settle in any order, also
\* after another one has failed the pipeline.
RunBranch(i, value) ==
  /\ Parallel /\ stage \in {"run", "failed"}
  /\ results[i] = Pending
  /\ Begin(i, given)
  /\ value \in Outputs(manifest.steps[i])
  /\ results' = [results EXCEPT ![i] = [how |-> "ran", value |-> value]]
  /\ UNCHANGED <<manifest, unsure, stage, given, state, previous, at, iteration>>

FailBranch(i) ==
  /\ Parallel /\ stage \in {"run", "failed"}
  /\ results[i] = Pending
  /\ Begin(i, given)
  /\ results' = [results EXCEPT ![i] = [how |-> "threw", value |-> Null]]
  /\ stage' = "failed"
  /\ UNCHANGED <<manifest, unsure, given, state, previous, at, iteration>>

\* Outputs are merged once all branches have returned.
Merge ==
  /\ Parallel /\ stage = "run"
  /\ \A i \in DOMAIN StepKeys : results[i] # Pending
  /\ state' = [k \in DOMAIN state \cup {StepKeys[i] : i \in DOMAIN StepKeys} |->
                 IF \E i \in DOMAIN StepKeys : StepKeys[i] = k
                 THEN results[CHOOSE i \in DOMAIN StepKeys : StepKeys[i] = k].value
                 ELSE state[k]]
  /\ stage' = "done"
  /\ UNCHANGED <<manifest, unsure, given, previous, at, iteration, began, results>>

PipeInit ==
  /\ manifest \in
       [kind : {"sequential", "parallel"}, schema : Schemas, defaults : {{}, Props},
        until : Clauses, steps : {<<>>}, output : {NoClause}]
  /\ manifest.schema = NoClause => manifest.defaults = {}
  /\ manifest.until # NoClause =>
       /\ manifest.kind = "sequential"
       /\ manifest.until \in Available(Len(StepKeys) + 1)
  /\ unsure = {}
  /\ stage = "load"
  /\ given = Null
  /\ state = [k \in {} |-> Null]
  /\ previous = Null
  /\ at = 0
  /\ iteration = 0
  /\ began = [i \in DOMAIN StepKeys |-> [k \in {} |-> Null]]
  /\ results = [i \in DOMAIN StepKeys |-> Pending]

PipeNext ==
  \/ \E step \in Steps : LoadStep(step)
  \/ \E output \in Clauses : \E input \in Values \ {Null} : \E nulls \in SUBSET Props :
       Execute(output, input, nulls)
  \/ \E i \in DOMAIN StepKeys :
       \/ Skip(i)
       \/ FailStep(i)
       \/ FailBranch(i)
       \/ \E value \in Values : RunStep(i, value) \/ RunBranch(i, value)
  \/ LoopAgain
  \/ LoopEnds
  \/ Merge

PipeSpec == PipeInit /\ [][PipeNext]_pipeVars

-----------------------------------------------------------------------------
(* Properties. *)

\* The validator's contract, kept by the executors: a child that declares its
\* input gets all of it.  A transform gives it exactly the declared properties;
\* without one it gets them from upstream, unless the validator warned that it
\* cannot tell, the step before was skipped, the step is the first of a later
\* iteration, or the caller left the property out.
CallerGave(i) == given.type = "object" /\ manifest.steps[i].schema \subseteq given.props

JustBegan(i) ==
  IF Parallel THEN results[i] # Pending
  ELSE \/ at = i + 1 /\ results[i].how = "ran"
       \/ at = i /\ stage = "failed"

StepsAreFed ==
  \A i \in DOMAIN StepKeys : JustBegan(i) /\ manifest.steps[i].schema # NoClause =>
    LET step == manifest.steps[i] IN
    IF step.input # NoClause THEN DOMAIN began[i] = step.schema
    ELSE \/ i \in unsure
         \/ iteration > 1 /\ i = 1
         \/ (i = 1 \/ Parallel) /\ ~CallerGave(i)
         \/ ~Parallel /\ i > 1 /\ results[i - 1].how = "skipped"
         \/ \A p \in step.schema : p \in DOMAIN began[i] /\ began[i][p] # Null

\* The validator's scope, kept by the executors: what a step, a loop condition or
\* the output mapping refers to is in the state by then, be it null.  Loops may
\* refer ahead in their first iteration, and an input that is not an object
\* leaves the declared properties out.
InScope(refs) ==
  refs \subseteq DOMAIN state \cup
    (IF given.type = "object" \/ manifest.schema = NoClause THEN {} ELSE manifest.schema)

RefsResolve ==
  /\ \A i \in DOMAIN StepKeys :
       (Sequential(i) /\ (manifest.until # NoClause => iteration > 1))
         \/ (Parallel /\ stage = "run")
       => InScope(RefsOf(manifest.steps[i]))
  /\ Sequential(Len(StepKeys) + 1) \/ stage = "done" =>
       InScope({manifest.until, manifest.output} \ {NoClause})

\* Both halves of the contract between the validator and the executors.
ValidatedRuns == StepsAreFed /\ RefsResolve
=============================================================================
