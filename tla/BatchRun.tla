------------------------------ MODULE BatchRun ------------------------------
(***************************************************************************)
(* Durable provider batches: packages/worker/src/batches/service.ts over a *)
(* shared store.  Every `await` of the code is a point where other calls   *)
(* run, so each action below is the code between two awaits.  The four     *)
(* kinds of caller are the POST that submits a run, the POST that cancels  *)
(* it, the DELETE that removes it, and the reconciliation passes of the    *)
(* worker replicas (server.ts starts one every 15 seconds, whether or not  *)
(* the previous one has ended).  All of them write the run record back     *)
(* whole, from the copy they read.                                         *)
(***************************************************************************)
EXTENDS Naturals, FiniteSets

CONSTANTS
    Runs,                 \* run ids: one submission request each
    KeyOf,                \* idempotency key of each request, or NoKey
    NoKey,
    Hooked,               \* runs submitted with callbackUrl and webhookSecretName
    Cancellable,          \* runs some client cancels (at most once each)
    Deletable,            \* runs some client deletes (at most once each)
    Items,                \* dataset items of a run
    Workers,              \* reconciliation passes that may overlap
    None,                 \* no pass, no run
    Limit,                \* claims per pass
    PutClearsLease,       \* TRUE: sqlite and postgres; FALSE: the memory store
    MaxFaults,            \* bound: calls to provider, store or receiver that throw
    MaxCrashes            \* bound: processes that die

ASSUME BatchRunAssumption ==
    /\ None \notin Workers \cup Runs
    /\ Hooked \subseteq Runs /\ Cancellable \subseteq Runs /\ Deletable \subseteq Runs
    /\ Limit \in Nat \ {0} /\ MaxFaults \in Nat /\ MaxCrashes \in Nat
    /\ PutClearsLease \in BOOLEAN

VARIABLES
    db,        \* batch_runs: the stored record of each run
    items,     \* batch_run_items: status of each item row, "none" if no row
    lease,     \* unexpired lease_owner of each run, or None
    outbox,    \* webhook_deliveries row `whd_batch_<run>`: payload status and state
    loops,     \* delivery loops started for that row
    prov,      \* the provider's own batch for the run
    result,    \* what the provider's result file says of each item
    sub,       \* where submitBatchRun is, per run
    can,       \* where cancelBatchRun is, per run, and the record it read
    del,       \* where DELETE /batch-runs/:id is, per run
    wk,        \* where each reconciliation pass is, and its local copies
    deleted,   \* runs that were deleted at some time (history)
    faults, crashes

vars == <<db, items, lease, outbox, loops, prov, result, sub, can, del, wk,
          deleted, faults, crashes>>

-----------------------------------------------------------------------------
Terminal   == {"completed", "failed", "expired", "cancelled"}
Live       == {"submitting", "queued", "running", "cancelling"}
ItemStatus == {"pending", "succeeded", "failed", "expired", "cancelled"}

\* The fields of BatchRun the service decides on: status, whether there is a
\* providerBatchId (it is always the run's own batch), terminalWebhookQueuedAt.
Record == [status : Live \cup Terminal \cup {"absent"}, pid : BOOLEAN, queued : BOOLEAN]
NoRun  == [status |-> "absent", pid |-> FALSE, queued |-> FALSE]
NoRow  == [status |-> "absent", state |-> "none"]
NoItems == [i \in Items |-> "none"]

Submitting == [status |-> "submitting", pid |-> FALSE, queued |-> FALSE]

SubPc == {"idle", "create", "items", "submit", "queue", "fail", "done", "returned", "dead"}
WkPc  == {"idle", "pick", "get", "load", "putItems", "put", "hook", "deliver", "mark", "error"}

IdlePass == [pc |-> "idle", claims |-> {}, snap |-> [r \in Runs |-> NoRun],
             cur |-> None, run |-> NoRun, final |-> NoItems]

Stored(r) == db[r].status # "absent"

\* The unique (user, idempotency key) index: another stored run has r's key.
Conflict(r) == \E o \in Runs \ {r} :
                  Stored(o) /\ KeyOf[o] = KeyOf[r] /\ KeyOf[r] # NoKey

\* Mutant: no unique index in the store.
PutWithoutIndex(r, rec) ==
    /\ db' = [db EXCEPT ![r] = rec]
    /\ lease' = IF PutClearsLease THEN [lease EXCEPT ![r] = None] ELSE lease

PutBatchRun(r, rec) ==
    /\ ~Conflict(r)
    /\ db' = [db EXCEPT ![r] = rec]
    /\ lease' = IF PutClearsLease THEN [lease EXCEPT ![r] = None] ELSE lease

NeedsWebhook(r, rec) == rec.status \in Terminal /\ r \in Hooked /\ ~rec.queued

Fault == faults < MaxFaults /\ faults' = faults + 1

-----------------------------------------------------------------------------
(* submitBatchRun *)

\* getBatchRunByIdempotencyKey: a run with the key is returned as it is.
SubLookup(r) ==
    /\ sub[r] = "idle"
    /\ sub' = [sub EXCEPT ![r] = IF Conflict(r) THEN "returned" ELSE "create"]
    /\ UNCHANGED <<db, items, lease, outbox, loops, prov, result, can, del, wk, deleted, faults, crashes>>

\* First putBatchRun.  If the key was taken since the lookup, the put throws and
\* the concurrent run is returned.
SubCreate(r) ==
    /\ sub[r] = "create"
    /\ \/ /\ PutBatchRun(r, Submitting)
          /\ sub' = [sub EXCEPT ![r] = "items"]
       \/ /\ Conflict(r)
          /\ sub' = [sub EXCEPT ![r] = "returned"]
          /\ UNCHANGED <<db, lease>>
    /\ UNCHANGED <<items, outbox, loops, prov, result, can, del, wk, deleted, faults, crashes>>

SubItems(r) ==
    /\ sub[r] = "items"
    /\ items' = [items EXCEPT ![r] = [i \in Items |-> "pending"]]
    /\ sub' = [sub EXCEPT ![r] = "submit"]
    /\ UNCHANGED <<db, lease, outbox, loops, prov, result, can, del, wk, deleted, faults, crashes>>

\* adapter.submit.  A call that throws may or may not have created the batch.
SubProvider(r) ==
    /\ sub[r] = "submit"
    /\ \/ /\ prov' = [prov EXCEPT ![r] = "active"]
          /\ sub' = [sub EXCEPT ![r] = "queue"]
          /\ UNCHANGED faults
       \/ /\ Fault
          /\ \E p \in {"none", "active"} : prov' = [prov EXCEPT ![r] = p]
          /\ sub' = [sub EXCEPT ![r] = "fail"]
    /\ UNCHANGED <<db, items, lease, outbox, loops, result, can, del, wk, deleted, crashes>>

\* The second putBatchRun, of `queued`: the local record of the first put with
\* the provider's id, whatever the store holds by now.
SubQueue(r) ==
    /\ sub[r] = "queue"
    /\ \/ /\ PutBatchRun(r, [Submitting EXCEPT !.status = "queued", !.pid = TRUE])
          /\ sub' = [sub EXCEPT ![r] = "done"]
          /\ UNCHANGED faults
       \/ /\ \/ Conflict(r) /\ UNCHANGED faults
             \/ Fault
          /\ sub' = [sub EXCEPT ![r] = "fail"]
          /\ UNCHANGED <<db, lease>>
    /\ UNCHANGED <<items, outbox, loops, prov, result, can, del, wk, deleted, crashes>>

SubFail(r) ==
    /\ sub[r] = "fail"
    /\ \/ PutBatchRun(r, [Submitting EXCEPT !.status = "failed"])
       \/ Conflict(r) /\ UNCHANGED <<db, lease>>
    /\ sub' = [sub EXCEPT ![r] = "done"]
    /\ UNCHANGED <<items, outbox, loops, prov, result, can, del, wk, deleted, faults, crashes>>

\* The process dies, or putBatchRunItems throws outside the try block.
SubCrash(r) ==
    /\ sub[r] \in {"items", "submit", "queue", "fail"}
    /\ crashes < MaxCrashes
    /\ crashes' = crashes + 1
    /\ sub' = [sub EXCEPT ![r] = "dead"]
    /\ UNCHANGED <<db, items, lease, outbox, loops, prov, result, can, del, wk, deleted, faults>>

Submitter(r) == SubLookup(r) \/ SubCreate(r) \/ SubItems(r) \/ SubProvider(r)
                \/ SubQueue(r) \/ SubFail(r)

-----------------------------------------------------------------------------
(* The provider (external): it ends a batch when it likes; a batch it cancels *)
(* was asked to be cancelled.                                                 *)

ProviderEnd(r) ==
    /\ prov[r] \in {"active", "stopping"}
    /\ \E o \in Terminal :
          /\ o = "cancelled" => prov[r] = "stopping"
          /\ prov' = [prov EXCEPT ![r] = o]
          /\ IF o = "completed"
             THEN \E res \in [Items -> {"succeeded", "failed", "missing"}] :
                     result' = [result EXCEPT ![r] = res]
             ELSE UNCHANGED result
    /\ UNCHANGED <<db, items, lease, outbox, loops, sub, can, del, wk, deleted, faults, crashes>>

-----------------------------------------------------------------------------
(* cancelBatchRun *)

CanRead(r) ==
    /\ r \in Cancellable
    /\ can[r].pc = "idle"
    /\ db[r].status \in Live
    /\ can' = [can EXCEPT ![r] = [pc   |-> IF db[r].pid THEN "provider" ELSE "put",
                                  snap |-> db[r]]]
    /\ UNCHANGED <<db, items, lease, outbox, loops, prov, result, sub, del, wk, deleted, faults, crashes>>

\* The provider's cancel call; it throws for a batch that is not running.
CanProvider(r) ==
    /\ can[r].pc = "provider"
    /\ \/ /\ prov[r] \in {"active", "stopping"}
          /\ prov' = [prov EXCEPT ![r] = "stopping"]
          /\ can' = [can EXCEPT ![r].pc = "put"]
          /\ UNCHANGED faults
       \/ /\ \/ prov[r] \in Terminal /\ UNCHANGED faults
             \/ Fault
          /\ can' = [can EXCEPT ![r] = [pc |-> "done", snap |-> NoRun]]
          /\ UNCHANGED prov
    /\ UNCHANGED <<db, items, lease, outbox, loops, result, sub, del, wk, deleted, crashes>>

CanPut(r) ==
    /\ can[r].pc = "put"
    /\ LET snap == can[r].snap IN
       \/ PutBatchRun(r, [snap EXCEPT !.status = IF snap.pid THEN "cancelling" ELSE "cancelled"])
       \/ Conflict(r) /\ UNCHANGED <<db, lease>>
    /\ can' = [can EXCEPT ![r] = [pc |-> "done", snap |-> NoRun]]
    /\ UNCHANGED <<items, outbox, loops, prov, result, sub, del, wk, deleted, faults, crashes>>

Canceller(r) == CanRead(r) \/ CanProvider(r) \/ CanPut(r)

(* DELETE /batch-runs/:id *)

DelRead(r) ==
    /\ r \in Deletable
    /\ del[r] = "idle"
    /\ db[r].status \in Terminal
    /\ del' = [del EXCEPT ![r] = "delete"]
    /\ UNCHANGED <<db, items, lease, outbox, loops, prov, result, sub, can, wk, deleted, faults, crashes>>

DeleteBatchRun(r) ==
    /\ del[r] = "delete"
    /\ db' = [db EXCEPT ![r] = NoRun]
    /\ items' = [items EXCEPT ![r] = NoItems]
    /\ lease' = [lease EXCEPT ![r] = None]
    /\ del' = [del EXCEPT ![r] = "done"]
    /\ deleted' = deleted \cup {r}
    /\ UNCHANGED <<outbox, loops, prov, result, sub, can, wk, faults, crashes>>

-----------------------------------------------------------------------------
(* reconcileBatchRuns and reconcileOne, run by one pass w *)

\* Mutant: the query forgets runs that are running.
DueNotRunning == {r \in Runs : /\ Stored(r)
                               /\ db[r].status \in Live \ {"running"} \/ NeedsWebhook(r, db[r])
                               /\ lease[r] = None}

\* Mutant: the query forgets terminal runs without their webhook.
DueLiveOnly == {r \in Runs : db[r].status \in Live /\ lease[r] = None}

\* What claimBatchRuns may take.  nextPollAt only delays a run, and any time may
\* pass between two steps, so it is left out.
Due == {r \in Runs : /\ Stored(r)
                     /\ db[r].status \in Live \/ NeedsWebhook(r, db[r])
                     /\ lease[r] = None}

Claim(w) ==
    /\ wk[w].pc = "idle"
    /\ \E S \in SUBSET Due :
          /\ S # {} /\ Cardinality(S) <= Limit
          /\ lease' = [r \in Runs |-> IF r \in S THEN w ELSE lease[r]]
          /\ wk' = [wk EXCEPT ![w].pc = "pick", ![w].claims = S,
                              ![w].snap = [r \in Runs |-> IF r \in S THEN db[r] ELSE NoRun]]
    /\ UNCHANGED <<db, items, outbox, loops, prov, result, sub, can, del, deleted, faults, crashes>>

\* The next claim of the pass: a terminal run only needs its webhook, and a run
\* without a provider id makes reconcileOne throw.
Take(w) ==
    /\ wk[w].pc = "pick"
    /\ \E r \in wk[w].claims :
          LET snap == wk[w].snap[r] IN
          wk' = [wk EXCEPT ![w].cur = r, ![w].run = snap,
                           ![w].claims = @ \ {r},
                           ![w].pc = IF snap.status \in Terminal THEN "hook"
                                     ELSE IF snap.pid THEN "get" ELSE "error"]
    /\ UNCHANGED <<db, items, lease, outbox, loops, prov, result, sub, can, del, deleted, faults, crashes>>

\* Mutant: a terminal status is stored before the items are settled.
GetNoLoad(w) ==
    /\ wk[w].pc = "get"
    /\ prov[wk[w].cur] \in Terminal
    /\ wk' = [wk EXCEPT ![w].run.status = prov[wk[w].cur], ![w].pc = "put"]
    /\ UNCHANGED <<db, items, lease, outbox, loops, prov, result, sub, can, del, deleted, faults, crashes>>

\* Mutant: a run that was being cancelled has been, however the batch ended.
GetCancelled(w) ==
    /\ wk[w].pc = "get"
    /\ LET r == wk[w].cur IN
       \/ /\ prov[r] \in {"active", "stopping"}
          /\ \E s \in IF wk[w].run.status = "cancelling" THEN {"cancelling"}
                      ELSE {"queued", "running"} :
                wk' = [wk EXCEPT ![w].run.status = s, ![w].pc = "put"]
       \/ /\ prov[r] \in Terminal
          /\ wk' = [wk EXCEPT ![w].run.status = IF @ = "cancelling" THEN "cancelled" ELSE prov[r],
                              ![w].pc = "load"]
    /\ UNCHANGED <<db, items, lease, outbox, loops, prov, result, sub, can, del, deleted, faults, crashes>>

\* adapter.get, and the next record computed from it and from the claimed copy.
Get(w) ==
    /\ wk[w].pc = "get"
    /\ LET r == wk[w].cur IN
       \/ /\ prov[r] \in {"active", "stopping"}
          /\ \E s \in IF wk[w].run.status = "cancelling" THEN {"cancelling"}
                      ELSE {"queued", "running"} :
                wk' = [wk EXCEPT ![w].run.status = s, ![w].pc = "put"]
       \/ /\ prov[r] \in Terminal
          /\ wk' = [wk EXCEPT ![w].run.status = prov[r], ![w].pc = "load"]
    /\ UNCHANGED <<db, items, lease, outbox, loops, prov, result, sub, can, del, deleted, faults, crashes>>

\* The status reconcileOne gives each item row it loaded.
FinalItems(r) ==
    [i \in Items |->
        IF items[r][i] = "none" THEN "none"
        ELSE IF prov[r] = "completed"
             THEN IF result[r][i] = "missing" THEN "failed" ELSE result[r][i]
             ELSE IF items[r][i] = "pending" THEN prov[r] ELSE items[r][i]]

\* loadAllRunItems and adapter.results.
Load(w) ==
    /\ wk[w].pc = "load"
    /\ wk' = [wk EXCEPT ![w].final = FinalItems(wk[w].cur), ![w].pc = "putItems"]
    /\ UNCHANGED <<db, items, lease, outbox, loops, prov, result, sub, can, del, deleted, faults, crashes>>

PutItems(w) ==
    /\ wk[w].pc = "putItems"
    /\ LET r == wk[w].cur IN
       items' = [items EXCEPT ![r] = [i \in Items |-> IF wk[w].final[i] = "none"
                                                      THEN items[r][i] ELSE wk[w].final[i]]]
    /\ wk' = [wk EXCEPT ![w].final = NoItems, ![w].pc = "put"]
    /\ UNCHANGED <<db, lease, outbox, loops, prov, result, sub, can, del, deleted, faults, crashes>>

\* Pass w is done with its current claim.
Finished(w) ==
    IF wk[w].claims = {} THEN IdlePass
    ELSE [wk[w] EXCEPT !.pc = "pick", !.cur = None, !.run = NoRun, !.final = NoItems]

PutRun(w) ==
    /\ wk[w].pc = "put"
    /\ LET r == wk[w].cur IN
       /\ PutBatchRun(r, wk[w].run)
       /\ wk' = [wk EXCEPT ![w] = IF NeedsWebhook(r, wk[w].run)
                                  THEN [wk[w] EXCEPT !.pc = "hook"] ELSE Finished(w)]
    /\ UNCHANGED <<items, outbox, loops, prov, result, sub, can, del, deleted, faults, crashes>>

\* Mutant: the row is written without looking for one.
HookAlways(w) ==
    /\ wk[w].pc = "hook"
    /\ outbox' = [outbox EXCEPT ![wk[w].cur] = [status |-> wk[w].run.status, state |-> "pending"]]
    /\ loops' = [loops EXCEPT ![wk[w].cur] = @ + 1]
    /\ wk' = [wk EXCEPT ![w].pc = "deliver"]
    /\ UNCHANGED <<db, items, lease, prov, result, sub, can, del, deleted, faults, crashes>>

\* dispatcher.dispatch: the row is inserted unless it is there already, and only
\* the pass that inserted it runs the delivery loop.
Hook(w) ==
    /\ wk[w].pc = "hook"
    /\ LET r == wk[w].cur IN
       IF outbox[r] = NoRow
       THEN /\ outbox' = [outbox EXCEPT ![r] = [status |-> wk[w].run.status, state |-> "pending"]]
            /\ loops' = [loops EXCEPT ![r] = @ + 1]
            /\ wk' = [wk EXCEPT ![w].pc = "deliver"]
       ELSE /\ wk' = [wk EXCEPT ![w].pc = "mark"]
            /\ UNCHANGED <<outbox, loops>>
    /\ UNCHANGED <<db, items, lease, prov, result, sub, can, del, deleted, faults, crashes>>

\* The delivery loop, to its end: the receiver accepted, or it refused or the
\* attempts ran out.
Deliver(w) ==
    /\ wk[w].pc = "deliver"
    /\ \E s \in {"delivered", "failed_permanent"} :
          outbox' = [outbox EXCEPT ![wk[w].cur].state = s]
    /\ wk' = [wk EXCEPT ![w].pc = "mark"]
    /\ UNCHANGED <<db, items, lease, loops, prov, result, sub, can, del, deleted, faults, crashes>>

Mark(w) ==
    /\ wk[w].pc = "mark"
    /\ PutBatchRun(wk[w].cur, [wk[w].run EXCEPT !.queued = TRUE])
    /\ wk' = [wk EXCEPT ![w] = Finished(w)]
    /\ UNCHANGED <<items, outbox, loops, prov, result, sub, can, del, deleted, faults, crashes>>

\* Any awaited call of the try block throws.
Throw(w) ==
    /\ \/ /\ wk[w].pc \in {"put", "mark"} /\ Conflict(wk[w].cur)
          /\ UNCHANGED faults
       \/ /\ wk[w].pc \in {"get", "load", "putItems", "put", "hook", "deliver", "mark"}
          /\ Fault
    /\ wk' = [wk EXCEPT ![w].pc = "error", ![w].final = NoItems]
    /\ UNCHANGED <<db, items, lease, outbox, loops, prov, result, sub, can, del, deleted, crashes>>

\* Mutant: the catch block stores a status of its own.
PutErrorStatus(w) ==
    /\ wk[w].pc = "error"
    /\ PutBatchRun(wk[w].cur, [wk[w].snap[wk[w].cur] EXCEPT !.status = "error"])
    /\ wk' = [wk EXCEPT ![w] = Finished(w)]
    /\ UNCHANGED <<items, outbox, loops, prov, result, sub, can, del, deleted, faults, crashes>>

\* Mutant: the catch block fails the run.
PutErrorFailed(w) ==
    /\ wk[w].pc = "error"
    /\ PutBatchRun(wk[w].cur, [wk[w].snap[wk[w].cur] EXCEPT !.status = "failed"])
    /\ wk' = [wk EXCEPT ![w] = Finished(w)]
    /\ UNCHANGED <<items, outbox, loops, prov, result, sub, can, del, deleted, faults, crashes>>

\* Mutant: the catch block resets the items for a retry.
PutErrorReset(w) ==
    /\ wk[w].pc = "error"
    /\ PutBatchRun(wk[w].cur, wk[w].snap[wk[w].cur])
    /\ items' = [items EXCEPT ![wk[w].cur] = [i \in Items |-> "pending"]]
    /\ wk' = [wk EXCEPT ![w] = Finished(w)]
    /\ UNCHANGED <<outbox, loops, prov, result, sub, can, del, deleted, faults, crashes>>

\* The catch block writes the record back as it was claimed.
PutError(w) ==
    /\ wk[w].pc = "error"
    /\ PutBatchRun(wk[w].cur, wk[w].snap[wk[w].cur])
    /\ wk' = [wk EXCEPT ![w] = Finished(w)]
    /\ UNCHANGED <<items, outbox, loops, prov, result, sub, can, del, deleted, faults, crashes>>

\* The put of the catch block throws: the pass ends and drops its other claims.
AbortPass(w) ==
    /\ wk[w].pc = "error"
    /\ \/ Conflict(wk[w].cur) /\ UNCHANGED faults
       \/ Fault
    /\ wk' = [wk EXCEPT ![w] = IdlePass]
    /\ UNCHANGED <<db, items, lease, outbox, loops, prov, result, sub, can, del, deleted, crashes>>

\* The replica dies; its leases and what it wrote stay in the store.
CrashPass(w) ==
    /\ wk[w].pc # "idle"
    /\ crashes < MaxCrashes
    /\ crashes' = crashes + 1
    /\ wk' = [wk EXCEPT ![w] = IdlePass]
    /\ UNCHANGED <<db, items, lease, outbox, loops, prov, result, sub, can, del, deleted, faults>>

\* lease_expires_at passes: 60 seconds after the claim, also under a pass that is
\* still at work.
LeaseExpires(r) ==
    /\ lease[r] # None
    /\ lease' = [lease EXCEPT ![r] = None]
    /\ UNCHANGED <<db, items, outbox, loops, prov, result, sub, can, del, wk, deleted, faults, crashes>>

Pass(w) == \/ Claim(w) \/ Take(w) \/ Get(w) \/ Load(w) \/ PutItems(w) \/ PutRun(w)
           \/ Hook(w) \/ Deliver(w) \/ Mark(w) \/ Throw(w) \/ PutError(w) \/ AbortPass(w)

-----------------------------------------------------------------------------
Init ==
    /\ db      = [r \in Runs |-> NoRun]
    /\ items   = [r \in Runs |-> NoItems]
    /\ lease   = [r \in Runs |-> None]
    /\ outbox  = [r \in Runs |-> NoRow]
    /\ loops   = [r \in Runs |-> 0]
    /\ prov    = [r \in Runs |-> "none"]
    /\ result  = [r \in Runs |-> NoItems]
    /\ sub     = [r \in Runs |-> "idle"]
    /\ can     = [r \in Runs |-> [pc |-> "idle", snap |-> NoRun]]
    /\ del     = [r \in Runs |-> "idle"]
    /\ wk      = [w \in Workers |-> IdlePass]
    /\ deleted = {}
    /\ faults = 0 /\ crashes = 0

Next ==
    \/ \E r \in Runs : \/ Submitter(r) \/ SubCrash(r) \/ ProviderEnd(r) \/ Canceller(r)
                       \/ DelRead(r) \/ DeleteBatchRun(r) \/ LeaseExpires(r)
    \/ \E w \in Workers : Pass(w) \/ CrashPass(w)

Spec == Init /\ [][Next]_vars

\* Requests and passes that started run on, the interval timer starts passes for
\* ever, time passes, and the provider ends every batch.  Calls throw and
\* processes die only finitely often (MaxFaults, MaxCrashes).
Fairness ==
    /\ \A r \in Runs : /\ WF_vars(Submitter(r)) /\ WF_vars(ProviderEnd(r))
                       /\ WF_vars(CanProvider(r) \/ CanPut(r)) /\ WF_vars(LeaseExpires(r))
    /\ \A w \in Workers : WF_vars(Pass(w))

FairSpec == Spec /\ Fairness

-----------------------------------------------------------------------------
(* Properties *)

\* Types of all the state above.
TypeOK ==
    /\ db \in [Runs -> Record]
    /\ items \in [Runs -> [Items -> ItemStatus \cup {"none"}]]
    /\ lease \in [Runs -> Workers \cup {None}]
    /\ outbox \in [Runs -> [status : Terminal \cup {"absent"},
                            state : {"none", "pending", "delivered", "failed_permanent"}]]
    /\ loops \in [Runs -> Nat]
    /\ prov \in [Runs -> {"none", "active", "stopping"} \cup Terminal]
    /\ result \in [Runs -> [Items -> {"none", "succeeded", "failed", "missing"}]]
    /\ sub \in [Runs -> SubPc]
    /\ can \in [Runs -> [pc : {"idle", "provider", "put", "done"}, snap : Record]]
    /\ del \in [Runs -> {"idle", "delete", "done"}]
    /\ wk \in [Workers -> [pc : WkPc, claims : SUBSET Runs, snap : [Runs -> Record],
                           cur : Runs \cup {None}, run : Record,
                           final : [Items -> ItemStatus \cup {"none"}]]]
    /\ deleted \in SUBSET Runs
    /\ faults \in Nat /\ crashes \in Nat

\* What an item is to get once the provider's batch has ended.
Outcome(r, i) ==
    IF prov[r] = "completed"
    THEN IF result[r][i] = "missing" THEN "failed" ELSE result[r][i]
    ELSE prov[r]

\* Two requests with one idempotency key never both reach the provider, however
\* their lookups and puts interleave, unless the first run was deleted meanwhile
\* (submitBatchRun's lookup, unique put and re-read).
SubmittedOncePerKey ==
    \A r, o \in Runs :
        /\ r # o /\ KeyOf[r] = KeyOf[o] /\ KeyOf[r] # NoKey
        /\ prov[r] # "none" /\ prov[o] # "none"
        => r \in deleted \/ o \in deleted

\* A record that says the provider's batch ended is never seen with item rows
\* still pending, whichever passes, cancels and deletes overlap (reconcileOne
\* settles the items before it puts the run).
SettledBeforeTerminal ==
    \A r \in Runs : db[r].status \in Terminal /\ db[r].pid
                    => \A i \in Items : items[r][i] # "pending"

\* However many passes find the run terminal and its webhook not queued, the
\* receiver sees the attempts of one delivery loop at most (stable outbox id).
OneDeliveryLoop == \A r \in Runs : loops[r] <= 1

\* What the outbox row announced is what the stored run says once it is terminal,
\* unless a client began to cancel the run.
WebhookTellsOutcome ==
    \A r \in Runs : /\ can[r].pc = "idle"
                    /\ outbox[r] # NoRow /\ db[r].status \in Terminal
                    => outbox[r].status = db[r].status

\* Whatever overlapping passes, stale copies and cancels put in whatever order, a
\* terminal status that is stored with the provider's id is the one the provider
\* gave the batch, and a settled item says what the provider's results say.
OutcomeIsProviders ==
    \A r \in Runs :
        /\ db[r].status \in Terminal /\ db[r].pid => db[r].status = prov[r]
        /\ \A i \in Items : items[r][i] \in ItemStatus \ {"pending"} =>
              prov[r] \in Terminal /\ items[r][i] = Outcome(r, i)

\* Results once written stay as they are until the run is deleted: late or
\* repeated reconciliations write the same statuses again.
ResultsDurable ==
    [][\A r \in Runs : \A i \in Items :
          items[r][i] \in ItemStatus \ {"pending"}
          => items'[r][i] \in {items[r][i], "none"}]_vars

\* A run whose terminal status was stored keeps it until it is deleted.
TerminalIsFinal ==
    [][\A r \in Runs : db[r].status \in Terminal
                       => db'[r].status \in {db[r].status, "absent"}]_vars

\* The id of the provider's batch, once stored, is not lost by a later put.
ProviderIdKept ==
    [][\A r \in Runs : db[r].pid => db'[r].pid \/ ~Stored(r)']_vars

\* A run is deleted only when the provider no longer works on its batch.
DeletedIsStopped ==
    [][\A r \in deleted' \ deleted : prov[r] \notin {"active", "stopping"}]_vars

\* If the store does not lose the provider's id, the run ends in a terminal
\* status for good, through crashes, errors and overlapping passes.
Converges ==
    \A r \in Runs : <>[](db[r].pid) => <>[](db[r].status \in Terminal)

\* A run with a webhook whose provider id is kept gets its outbox row.
TerminalIsAnnounced ==
    \A r \in Hooked : <>[](db[r].pid) => <>(outbox[r] # NoRow)

\* ... and the row does not stay pending.
AnnouncementEnds ==
    \A r \in Hooked : outbox[r].state = "pending" ~> outbox[r].state # "pending"
=============================================================================
