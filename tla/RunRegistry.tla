---------------------------- MODULE RunRegistry ----------------------------
(***************************************************************************)
(* The in-process run registry, packages/core/src/run-registry.ts, with    *)
(* the callers that drive it: a top-level run replaces the active run of   *)
(* its session (startUserRun in packages/worker/src/routes.ts and invoke   *)
(* in packages/core/src/runner.ts), an agent's loop spawns child runs,     *)
(* collects their results and waits for them before it ends (runner.ts),   *)
(* and clients cancel runs.                                                *)
(*                                                                         *)
(* The program is single threaded: an action is the code between two       *)
(* awaits.  A top-level run carries the name of the caller that creates    *)
(* it, so Runs is Callers and Kids.                                        *)
(***************************************************************************)
EXTENDS SessionLock, Sequences, FiniteSets

CONSTANTS
    Kids,         \* ids of child runs
    Hosted,       \* callers of startUserRun: they start() their run
    Persisted,    \* callers whose run carries the session id
    Streamed,     \* callers of stream() that may stop reading the events
    Evicts        \* FALSE: gracePeriodMs is Infinity

ASSUME RunRegistryAssumption ==
    /\ Kids \cap Callers = {} /\ None \notin Kids
    /\ Hosted \subseteq Callers /\ Persisted \subseteq Callers
    /\ Streamed \subseteq Callers \ Hosted
    /\ Evicts \in BOOLEAN

VARIABLES
    status,    \* Run.status; "none" before create, "evicted" after
    aborted,   \* abortController.signal.aborted
    parent,    \* Run.parentId
    up,        \* the runs whose abort and whose eviction reach this run
    index,     \* sessionToActiveRun
    target,    \* the active run a caller found and cancelled
    wait,      \* that caller's waitForTerminal promise
    exec,      \* how the run is driven and how far its driver is
    loop,      \* where the agent loop of the run is
    pending,   \* results of children not collected yet
    got        \* history: results of children the loop has collected

regVars == <<status, aborted, parent, up, index, target, wait, exec, loop, pending, got>>
vars == <<lockVars, regVars>>

Runs == Callers \cup Kids

-----------------------------------------------------------------------------
Terminal == {"completed", "failed", "cancelled"}
Live     == {"pending", "running"}

Active(r)   == status[r] \in Live
Resident(r) == status[r] \in Live \cup Terminal    \* runs.get(r) finds it

\* childrenByParent: children created while the parent was resident.
Children(p) == {k \in Kids : parent[k] = p /\ p \in up[k]}

\* outstandingChildrenCount counts these; eviction drops the parent's set.
Outstanding(p) == {k \in Children(p) : Active(k) /\ Resident(p)}

\* r and everything below it.
Subtree(r) == {r} \cup {k \in Kids : r \in up[k]}

\* An abort sets the signals of the subtree, and rejects their awaitNextSettled.
Abort(S) ==
    /\ aborted' = [r \in Runs |-> aborted[r] \/ r \in S]
    /\ loop' = [r \in Runs |-> IF r \in S /\ loop[r] = "draining" THEN "failing" ELSE loop[r]]

-----------------------------------------------------------------------------
(* Replacing the active run of a session *)

\* create() of a top-level run, and for startUserRun also start().
CreateRoot(c, idx) ==
    /\ status' = [status EXCEPT ![c] = IF c \in Hosted THEN "running" ELSE "pending"]
    /\ exec' = [exec EXCEPT ![c] = IF c \in Hosted THEN "started" ELSE "direct"]
    /\ index' = IF c \in Persisted THEN [idx EXCEPT ![SessionOf[c]] = c] ELSE idx

\* findActiveBySession, which drops an entry that points to no active run.
FoundActive(s) == index[s] # None /\ Active(index[s])

Request(c) ==
    /\ AcquireLock(c)
    /\ UNCHANGED regVars

Granted(c) ==
    /\ GrantLock(c)
    /\ UNCHANGED regVars

\* With the lock: cancel the active run and wait for it,
Supersede(c) ==
    /\ lk[c] = "held" /\ wait[c] = "none"
    /\ FoundActive(SessionOf[c])
    /\ LET a == index[SessionOf[c]] IN
       /\ Abort(Subtree(a))
       /\ target' = [target EXCEPT ![c] = a]
       /\ wait' = [wait EXCEPT ![c] = "waiting"]
    /\ UNCHANGED <<lockVars, status, parent, up, index, exec, pending, got>>

\* ... or create the run at once if there is none,
Begin(c) ==
    /\ lk[c] = "held" /\ wait[c] = "none"
    /\ ~FoundActive(SessionOf[c])
    /\ CreateRoot(c, [index EXCEPT ![SessionOf[c]] = None])
    /\ loop' = [loop EXCEPT ![c] = IF c \in Hosted THEN "off" ELSE "busy"]
    /\ ReleaseLock(c)
    /\ UNCHANGED <<aborted, parent, up, target, wait, pending, got>>

\* Mutant: the caller does not wait for the run it cancelled.
ReplaceAtOnce(c) ==
    /\ lk[c] = "held" /\ wait[c] # "none"
    /\ CreateRoot(c, index)
    /\ loop' = [loop EXCEPT ![c] = IF c \in Hosted THEN "off" ELSE "busy"]
    /\ wait' = [wait EXCEPT ![c] = "none"]
    /\ ReleaseLock(c)
    /\ UNCHANGED <<aborted, parent, up, target, pending, got>>

\* ... or when the cancelled run has settled.
Replace(c) ==
    /\ lk[c] = "held" /\ wait[c] = "resolved"
    /\ CreateRoot(c, index)
    /\ loop' = [loop EXCEPT ![c] = IF c \in Hosted THEN "off" ELSE "busy"]
    /\ wait' = [wait EXCEPT ![c] = "none"]
    /\ ReleaseLock(c)
    /\ UNCHANGED <<aborted, parent, up, target, pending, got>>

-----------------------------------------------------------------------------
(* Child runs *)

\* Mutant: a child does not look at its parent's signal.
SpawnUnlinked(p, k) ==
    /\ status[k] = "none"
    /\ exec[p] \in {"direct", "started"}
    /\ loop[p] \in {"busy", "off"}
    /\ parent' = [parent EXCEPT ![k] = p]
    /\ up' = [up EXCEPT ![k] = IF Resident(p) THEN up[p] \cup {p} ELSE {}]
    /\ status' = [status EXCEPT ![k] = IF loop[p] = "busy" THEN "running" ELSE "pending"]
    /\ exec' = [exec EXCEPT ![k] = IF loop[p] = "busy" THEN "started" ELSE "direct"]
    /\ loop' = [loop EXCEPT ![k] = "busy"]
    /\ UNCHANGED <<lockVars, aborted, index, target, wait, pending, got>>

\* An agent loop calls spawn_agent, which starts the child; a hosted pipeline
\* invokes an agent below its own run, which does not.  The child of a run that
\* was evicted becomes a root that no abort reaches.
Spawn(p, k) ==
    /\ status[k] = "none"
    /\ exec[p] \in {"direct", "started"}
    /\ loop[p] \in {"busy", "off"}
    /\ parent' = [parent EXCEPT ![k] = p]
    /\ up' = [up EXCEPT ![k] = IF Resident(p) THEN up[p] \cup {p} ELSE {}]
    /\ aborted' = [aborted EXCEPT ![k] = Resident(p) /\ aborted[p]]
    /\ status' = [status EXCEPT ![k] = IF loop[p] = "busy" THEN "running" ELSE "pending"]
    /\ exec' = [exec EXCEPT ![k] = IF loop[p] = "busy" THEN "started" ELSE "direct"]
    /\ loop' = [loop EXCEPT ![k] = "busy"]
    /\ UNCHANGED <<lockVars, index, target, wait, pending, got>>

\* Top of an iteration: injectPendingCompletions, unless the signal ends the loop.
Inject(p) ==
    /\ loop[p] = "busy" /\ pending[p] # <<>> /\ ~aborted[p]
    /\ got' = [got EXCEPT ![p] = @ \o pending[p]]
    /\ pending' = [pending EXCEPT ![p] = <<>>]
    /\ UNCHANGED <<lockVars, status, aborted, parent, up, index, target, wait, exec, loop>>

\* Mutant: the loop answers as soon as there is nothing to collect.
TurnEndEarly(p) ==
    /\ loop[p] = "busy"
    /\ got' = [got EXCEPT ![p] = @ \o pending[p]]
    /\ pending' = [pending EXCEPT ![p] = <<>>]
    /\ loop' = [loop EXCEPT ![p] = IF pending[p] # <<>> THEN "busy" ELSE "answered"]
    /\ UNCHANGED <<lockVars, status, aborted, parent, up, index, target, wait, exec>>

\* The model answered without tool calls.  Late results are collected; with
\* children outstanding the loop awaits the next one, and it ends only if there
\* was neither.
TurnEnd(p) ==
    /\ loop[p] = "busy"
    /\ got' = [got EXCEPT ![p] = @ \o pending[p]]
    /\ pending' = [pending EXCEPT ![p] = <<>>]
    /\ loop' = [loop EXCEPT ![p] =
                   IF Outstanding(p) # {} THEN IF aborted[p] THEN "failing" ELSE "draining"
                   ELSE IF pending[p] # <<>> THEN "busy" ELSE "answered"]
    /\ UNCHANGED <<lockVars, status, aborted, parent, up, index, target, wait, exec>>

\* maxSteps, or the drain budget, is used up: the loop ends as it is.
StepsExhausted(p) ==
    /\ loop[p] = "busy"
    /\ loop' = [loop EXCEPT ![p] = "exhausted"]
    /\ UNCHANGED <<lockVars, status, aborted, parent, up, index, target, wait, exec, pending, got>>

\* The model asked for tools and gave text with the finish reason "stop": the text
\* is the answer, whatever children there are, be they spawned by those tools.
StopsWithTools(p) ==
    /\ loop[p] = "busy"
    /\ loop' = [loop EXCEPT ![p] = "stopped"]
    /\ UNCHANGED <<lockVars, status, aborted, parent, up, index, target, wait, exec, pending, got>>

\* The run's own timeout fires while it waits for a child.
DrainTimeout(p) ==
    /\ loop[p] = "draining"
    /\ loop' = [loop EXCEPT ![p] = "failing"]
    /\ UNCHANGED <<lockVars, status, aborted, parent, up, index, target, wait, exec, pending, got>>

\* The consumer of a stream leaves its `for await`: the generator returns from the
\* yield it is at, past its catch block, and tells the registry nothing.
Abandon(c) ==
    /\ c \in Streamed
    /\ loop[c] = "busy"
    /\ loop' = [loop EXCEPT ![c] = "off"]
    /\ exec' = [exec EXCEPT ![c] = "over"]
    /\ UNCHANGED <<lockVars, status, aborted, parent, up, index, target, wait, pending, got>>

-----------------------------------------------------------------------------
(* Settlement *)

\* Mutant: the result is queued and nobody woken.
DeliverSilently(r, lp) ==
    LET p == parent[r] IN
    /\ loop' = lp
    /\ IF p = None THEN UNCHANGED pending
       ELSE pending' = [pending EXCEPT ![p] = Append(@, r)]

\* deliverToParent: the result is queued, and one waiter of the parent resolved.
\* A resolved waiter of an evicted parent is gone, so its loop stays where it is.
Deliver(r, lp) ==
    LET p == parent[r] IN
    IF p = None
    THEN /\ loop' = lp /\ UNCHANGED pending
    ELSE /\ pending' = [pending EXCEPT ![p] = Append(@, r)]
         /\ loop' = IF lp[p] = "draining" /\ Resident(p)
                    THEN [lp EXCEPT ![p] = "busy"] ELSE lp

\* Mutant: settled runs settle again.
SettleAgain(r, outcome, lp) ==
    /\ status' = [status EXCEPT ![r] = outcome]
    /\ index' = [s \in Sessions |-> IF index[s] = r THEN None ELSE index[s]]
    /\ wait' = [c \in Callers |-> IF wait[c] = "waiting" /\ target[c] = r
                                  THEN "resolved" ELSE wait[c]]
    /\ Deliver(r, lp)

\* Mutant: the session keeps pointing to the run.
SettleKeepsIndex(r, outcome, lp) ==
    IF Active(r)
    THEN /\ status' = [status EXCEPT ![r] = outcome]
         /\ wait' = [c \in Callers |-> IF wait[c] = "waiting" /\ target[c] = r
                                       THEN "resolved" ELSE wait[c]]
         /\ Deliver(r, lp)
         /\ UNCHANGED index
    ELSE /\ loop' = lp
         /\ UNCHANGED <<status, index, wait, pending>>

\* Mutant: waiters are not told.
SettleQuietly(r, outcome, lp) ==
    IF Active(r)
    THEN /\ status' = [status EXCEPT ![r] = outcome]
         /\ index' = [s \in Sessions |-> IF index[s] = r THEN None ELSE index[s]]
         /\ Deliver(r, lp)
         /\ UNCHANGED wait
    ELSE /\ loop' = lp
         /\ UNCHANGED <<status, index, wait, pending>>

\* completeRun and failRun: nothing happens to a run that is gone or settled.
Settle(r, outcome, lp) ==
    IF Active(r)
    THEN /\ status' = [status EXCEPT ![r] = outcome]
         /\ index' = [s \in Sessions |-> IF index[s] = r THEN None ELSE index[s]]
         /\ wait' = [c \in Callers |-> IF wait[c] = "waiting" /\ target[c] = r
                                       THEN "resolved" ELSE wait[c]]
         /\ Deliver(r, lp)
    ELSE /\ loop' = lp
         /\ UNCHANGED <<status, index, wait, pending>>

\* What failRun makes of an error.
ErrorStatus(r) == IF aborted[r] THEN {"cancelled"} ELSE {"failed", "cancelled"}

\* The loop's invoke calls notifyCompleted or notifyFailed.  A direct run is then
\* over; the executor of a started one still has to return.
Notify(r, outcome) ==
    /\ exec' = [exec EXCEPT ![r] = IF exec[r] = "started" THEN "notified" ELSE "over"]
    /\ Settle(r, outcome, [loop EXCEPT ![r] = "off"])
    /\ UNCHANGED <<lockVars, aborted, parent, up, target, got>>

NotifyCompleted(r) ==
    /\ loop[r] \in {"answered", "stopped", "exhausted"}
    /\ Notify(r, "completed")

NotifyFailed(r) ==
    /\ loop[r] \in {"busy", "failing", "answered", "stopped", "exhausted"}
    /\ \E o \in ErrorStatus(r) : Notify(r, o)

\* The executor given to start() returns or throws.
ExecutorReturns(r) ==
    /\ \/ exec[r] = "notified"
       \/ exec[r] = "started" /\ loop[r] = "off"
    /\ exec' = [exec EXCEPT ![r] = "over"]
    /\ \E o \in ErrorStatus(r) \cup (IF aborted[r] /\ exec[r] = "started" THEN {} ELSE {"completed"}) :
          Settle(r, o, loop)
    /\ UNCHANGED <<lockVars, aborted, parent, up, target, got>>

Finish(r) == NotifyCompleted(r) \/ NotifyFailed(r) \/ ExecutorReturns(r)

\* cancel() of any run by a client, or because its request was aborted.
Cancel(r) ==
    /\ Active(r)
    /\ Abort(Subtree(r))
    /\ UNCHANGED <<lockVars, status, parent, up, index, target, wait, exec, pending, got>>

\* The grace period of a settled root ends: its whole subtree is dropped, with
\* the waiters on it.
EvictSubtree(r) ==
    /\ Evicts
    /\ status[r] \in Terminal /\ up[r] = {}
    /\ LET gone == {k \in Subtree(r) : Resident(k)} IN
       /\ status' = [k \in Runs |-> IF k \in gone THEN "evicted" ELSE status[k]]
       /\ index' = [s \in Sessions |-> IF index[s] \in gone THEN None ELSE index[s]]
       /\ pending' = [k \in Runs |-> IF k \in gone THEN <<>> ELSE pending[k]]
       /\ wait' = [c \in Callers |-> IF wait[c] = "waiting" /\ target[c] \in gone
                                     THEN "lost" ELSE wait[c]]
    /\ UNCHANGED <<lockVars, aborted, parent, up, target, exec, loop, got>>

-----------------------------------------------------------------------------
Init ==
    /\ LockInit
    /\ status  = [r \in Runs |-> "none"]
    /\ aborted = [r \in Runs |-> FALSE]
    /\ parent  = [r \in Runs |-> None]
    /\ up      = [r \in Runs |-> {}]
    /\ index   = [s \in Sessions |-> None]
    /\ target  = [c \in Callers |-> None]
    /\ wait    = [c \in Callers |-> "none"]
    /\ exec    = [r \in Runs |-> "none"]
    /\ loop    = [r \in Runs |-> "off"]
    /\ pending = [r \in Runs |-> <<>>]
    /\ got     = [r \in Runs |-> <<>>]

CallerStep(c) == Granted(c) \/ Supersede(c) \/ Begin(c) \/ Replace(c)
LoopStep(r)   == \/ Inject(r) \/ TurnEnd(r) \/ StopsWithTools(r) \/ StepsExhausted(r)
                 \/ Finish(r)

Next ==
    \/ \E c \in Callers : Request(c) \/ CallerStep(c) \/ Abandon(c)
    \/ \E p \in Runs : \E k \in Kids : Spawn(p, k)
    \/ \E r \in Runs : LoopStep(r) \/ DrainTimeout(r) \/ Cancel(r) \/ EvictSubtree(r)

Spec == Init /\ [][Next]_vars

\* Callers run on once their promise is resolved, and executors end: each model
\* call returns, and a loop has a bounded number of steps.  Nobody has to send a
\* request, cancel, or spawn, and no timeout is relied on.
Fairness ==
    /\ \A c \in Callers : WF_vars(CallerStep(c))
    /\ \A r \in Runs : WF_vars(LoopStep(r)) /\ SF_vars(Finish(r))

FairSpec == Spec /\ Fairness

-----------------------------------------------------------------------------
(* Properties *)

\* Types of all the state above.
TypeOK ==
    /\ LockTypeOK
    /\ status \in [Runs -> {"none", "evicted"} \cup Live \cup Terminal]
    /\ aborted \in [Runs -> BOOLEAN]
    /\ parent \in [Runs -> Runs \cup {None}]
    /\ up \in [Runs -> SUBSET Runs]
    /\ index \in [Sessions -> Callers \cup {None}]
    /\ target \in [Callers -> Callers \cup {None}]
    /\ wait \in [Callers -> {"none", "waiting", "resolved", "lost"}]
    /\ exec \in [Runs -> {"none", "direct", "started", "notified", "over"}]
    /\ loop \in [Runs -> {"off", "busy", "draining", "failing", "answered", "stopped", "exhausted"}]
    /\ pending \in [Runs -> Seq(Runs)]
    /\ got \in [Runs -> Seq(Runs)]

\* Cancel-and-replace: a session never has two runs in flight, whatever requests,
\* cancellations, settlements and evictions interleave.
OneActivePerSession ==
    \A c, d \in Persisted :
        SessionOf[c] = SessionOf[d] /\ Active(c) /\ Active(d) => c = d

\* sessionToActiveRun names the run in flight: a new request cannot miss it, and
\* an entry never outlives its run.
IndexIsActive ==
    /\ \A c \in Persisted : Active(c) => index[SessionOf[c]] = c
    /\ \A s \in Sessions : index[s] # None => /\ index[s] \in Persisted
                                              /\ SessionOf[index[s]] = s
                                              /\ Active(index[s])

\* The session index implements the abstract slot of a session: a run enters it
\* when it is free, leaves it when it settles, and does not come back.
Slot == INSTANCE SessionSlot WITH
    Starters <- Persisted, SessionFor <- SessionOf, Nobody <- None, slot <- index,
    left <- {c \in Persisted : status[c] \in Terminal \cup {"evicted"}}

SlotSpec == Slot!Spec

\* A caller that waits for the run it replaces is going to be resolved: the run is
\* in flight, told to stop, driven by somebody, and still knows the waiter.
NoStrandedCaller ==
    \A c \in Callers :
        /\ wait[c] # "lost"
        /\ wait[c] = "waiting" =>
              Active(target[c]) /\ aborted[target[c]] /\ exec[target[c]] # "over"

\* A cancellation reaches the whole tree, also children created after it.
AbortReachesSubtree ==
    \A k \in Runs : \A p \in up[k] : aborted[p] => aborted[k]

\* How often the result of k is in a sequence.
Times(k, s) == Cardinality({i \in DOMAIN s : s[i] = k})

\* Each settled child's result is delivered to its parent exactly once, although
\* invoke and the executor's return both report it; one that has not settled has
\* delivered nothing.
DeliveredOnce ==
    \A k \in Kids : parent[k] # None =>
        LET n == Times(k, pending[parent[k]] \o got[parent[k]]) IN
        /\ n <= 1
        /\ Active(k) => n = 0
        /\ status[k] \in Terminal /\ Resident(parent[k]) => n = 1

\* A loop that waits has something to wait for and nothing to collect.
NoLostWakeup ==
    \A p \in Runs : loop[p] = "draining" /\ Resident(p) =>
        /\ Outstanding(p) # {} /\ pending[p] = <<>> /\ ~aborted[p]

\* The results of all children of p have been seen by its loop.
CollectedAll(p) ==
    \A k \in Kids : parent[k] = p => status[k] \in Terminal /\ Times(k, got[p]) = 1

\* An answer given in a turn without tool calls comes after the results of all the
\* children, although they settle, and deliver, between the loop's look at what is
\* pending and its look at what is outstanding.
DrainedAnswerIsComplete ==
    \A p \in Runs : loop[p] = "answered" /\ Resident(p) => CollectedAll(p)

\* "You will be forced to wait for outstanding children before finishing": so would
\* any run that ends with an answer of its model, also one that came with tool calls.
AnsweredCollectsAll ==
    \A p \in Runs : loop[p] \in {"answered", "stopped"} /\ Resident(p) => CollectedAll(p)

\* A terminal status is never changed by a late second report.
TerminalIsFinal ==
    [][\A r \in Runs : status[r] \in Terminal => status'[r] \in {status[r], "evicted"}]_vars

\* Eviction removes settled runs only.
EvictionSparesRunning ==
    [][\A r \in Runs : status'[r] = "evicted" => status[r] \in Terminal \cup {"evicted"}]_vars

\* Every request for a session gets its run, after the one it replaces has ended.
EveryRequestRuns ==
    \A c \in Callers : lk[c] = "queued" ~> status[c] # "none"

\* Waiting for children ends, unless the run was evicted while it waited.
DrainEnds ==
    \A r \in Runs : loop[r] = "draining" ~> loop[r] # "draining" \/ ~Resident(r)

-----------------------------------------------------------------------------
\* The inductive invariant behind OneActivePerSession and NoStrandedCaller.

\* A caller has no run until it has released the lock, and is waiting for another
\* run only while it holds it.
RunAfterRelease ==
    \A c \in Callers : /\ lk[c] # "released" => status[c] = "none"
                       /\ wait[c] # "none" => lk[c] = "held"

\* Whom a caller waits for, and that the slot is free once the wait is over.
WaitsForSession ==
    \A c \in Callers :
        /\ wait[c] # "lost"
        /\ wait[c] # "none" => /\ target[c] \in Persisted
                               /\ SessionOf[target[c]] = SessionOf[c]
        /\ wait[c] = "waiting" => Active(target[c]) /\ aborted[target[c]]
        /\ wait[c] = "resolved" => index[SessionOf[c]] = None

\* A run in flight has a driver, unless its stream was abandoned.
ActiveIsDriven ==
    \A c \in Callers : Active(c) => /\ exec[c] # "none"
                                    /\ exec[c] = "over" => c \in Streamed

RegInv ==
    TypeOK /\ LockInv /\ IndexIsActive /\ RunAfterRelease /\ WaitsForSession /\ ActiveIsDriven

\* The inductive invariant behind AbortReachesSubtree: only child runs are below
\* another run, below what that run is below too, and only if both were created.
Lineage ==
    /\ \A r \in Runs : status[r] = "none" => exec[r] = "none" /\ loop[r] = "off"
    /\ \A k \in Runs : \A p \in up[k] :
          /\ k \in Kids
          /\ status[k] # "none" /\ status[p] # "none"
          /\ up[p] \subseteq up[k]

TreeInv == TypeOK /\ Lineage /\ AbortReachesSubtree
=============================================================================
