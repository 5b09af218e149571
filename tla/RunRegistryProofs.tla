------------------------- MODULE RunRegistryProofs -------------------------
(***************************************************************************)
(* Proofs about RunRegistry: a session never has two runs in flight, for   *)
(* any number of callers, sessions and child runs.                         *)
(***************************************************************************)
EXTENDS RunRegistry, SessionLockProofs

USE DEF Runs, Terminal, Live

LEMMA InitInv == Init => RegInv
<1> SUFFICES ASSUME Init PROVE RegInv
  OBVIOUS
<1>1. LockInv
  BY LockInitInv DEF Init
<1>2. TypeOK
  BY <1>1 DEF Init, TypeOK, LockInv
<1>3. IndexIsActive /\ RunAfterRelease /\ WaitsForSession /\ ActiveIsDriven
  BY RunRegistryAssumption, SessionLockAssumption
  DEF Init, IndexIsActive, RunAfterRelease, WaitsForSession, ActiveIsDriven, Active
<1> QED BY <1>1, <1>2, <1>3 DEF RegInv

\* The types of what settling a run changes.
LEMMA SettleTypes ==
  ASSUME TypeOK, NEW r \in Runs, NEW o \in Terminal,
         NEW lp \in [Runs -> {"off", "busy", "draining", "failing", "answered", "stopped", "exhausted"}],
         Settle(r, o, lp)
  PROVE  /\ status' \in [Runs -> {"none", "evicted"} \cup Live \cup Terminal]
         /\ index' \in [Sessions -> Callers \cup {None}]
         /\ wait' \in [Callers -> {"none", "waiting", "resolved", "lost"}]
         /\ loop' \in [Runs -> {"off", "busy", "draining", "failing", "answered", "stopped", "exhausted"}]
         /\ pending' \in [Runs -> Seq(Runs)]
<1>1. CASE Active(r)
  <2>1. status' \in [Runs -> {"none", "evicted"} \cup Live \cup Terminal]
    BY <1>1 DEF TypeOK, Settle
  <2>2. index' \in [Sessions -> Callers \cup {None}]
    BY <1>1 DEF TypeOK, Settle
  <2>3. wait' \in [Callers -> {"none", "waiting", "resolved", "lost"}]
    BY <1>1 DEF TypeOK, Settle
  <2>4. Deliver(r, lp)
    BY <1>1 DEF Settle
  <2>5. loop' \in [Runs -> {"off", "busy", "draining", "failing", "answered", "stopped", "exhausted"}]
    <3>1. CASE parent[r] = None
      BY <2>4, <3>1 DEF Deliver
    <3>2. CASE parent[r] # None
      <4>1. loop' = lp \/ loop' = [lp EXCEPT ![parent[r]] = "busy"]
        BY <2>4, <3>2 DEF Deliver
      <4> QED BY <4>1
    <3> QED BY <3>1, <3>2
  <2>6. pending' \in [Runs -> Seq(Runs)]
    <3>1. CASE parent[r] = None
      BY <2>4, <3>1 DEF TypeOK, Deliver
    <3>2. CASE parent[r] # None
      <4>1. parent[r] \in Runs /\ Append(pending[parent[r]], r) \in Seq(Runs)
        BY <3>2 DEF TypeOK
      <4> QED BY <2>4, <3>2, <4>1 DEF TypeOK, Deliver
    <3> QED BY <3>1, <3>2
  <2> QED BY <2>1, <2>2, <2>3, <2>5, <2>6
<1>2. CASE ~Active(r)
  <2>1. loop' = lp /\ UNCHANGED <<status, index, wait, pending>>
    BY <1>2 DEF Settle
  <2> QED BY <2>1 DEF TypeOK
<1> QED BY <1>1, <1>2

\* Every step keeps the types, and is a step of the session lock or leaves it alone.
LEMMA LockStep == ASSUME LockInv, [Next]_vars PROVE LockInv' /\ [LockNext]_lockVars
<1>1. ASSUME UNCHANGED lockVars PROVE LockInv' /\ [LockNext]_lockVars
  BY <1>1, LockStutterInv
<1>2. CASE UNCHANGED vars
  BY <1>1, <1>2 DEF vars
<1>3. ASSUME NEW c \in Callers, Request(c) PROVE LockInv' /\ [LockNext]_lockVars
  BY <1>3, AcquireInv DEF Request, LockNext
<1>4. ASSUME NEW c \in Callers, Granted(c) PROVE LockInv' /\ [LockNext]_lockVars
  BY <1>4, GrantInv DEF Granted, LockNext
<1>5. ASSUME NEW c \in Callers, Begin(c) \/ Replace(c)
      PROVE  LockInv' /\ [LockNext]_lockVars
  BY <1>5, ReleaseInv DEF Begin, Replace, LockNext
<1>6. ASSUME NEW c \in Callers, Supersede(c) \/ Abandon(c)
      PROVE  LockInv' /\ [LockNext]_lockVars
  BY <1>1, <1>6 DEF Supersede, Abandon
<1>7. ASSUME NEW p \in Runs, NEW k \in Kids, Spawn(p, k)
      PROVE  LockInv' /\ [LockNext]_lockVars
  BY <1>1, <1>7 DEF Spawn
<1>8. ASSUME NEW r \in Runs, LoopStep(r) PROVE UNCHANGED lockVars
  BY <1>8 DEF LoopStep, Inject, TurnEnd, StopsWithTools, StepsExhausted, Finish, NotifyCompleted,
              NotifyFailed, ExecutorReturns, Notify
<1>9. ASSUME NEW r \in Runs, DrainTimeout(r) \/ Cancel(r) \/ EvictSubtree(r)
      PROVE  UNCHANGED lockVars
  BY <1>9 DEF DrainTimeout, Cancel, EvictSubtree
<1> QED
  BY <1>1, <1>2, <1>3, <1>4, <1>5, <1>6, <1>7, <1>8, <1>9 DEF Next, CallerStep

-----------------------------------------------------------------------------
\* The four conjuncts that relate the session index, the waiters and the runs.
Sessionwise == IndexIsActive /\ RunAfterRelease /\ WaitsForSession /\ ActiveIsDriven

\* They speak of top-level runs only, and a step that does not touch those, the
\* index or the waiters keeps them.
LEMMA QuietStep ==
  ASSUME Sessionwise, UNCHANGED <<lk, index, target, wait>>,
         \A c \in Callers : /\ status'[c] = status[c]
                            /\ exec'[c] = exec[c] \/ (exec[c] # "none" /\ c \in Streamed /\ exec'[c] # "none")
                            /\ aborted[c] => aborted'[c]
  PROVE  Sessionwise'
<1>1. \A c \in Callers : Active(c)' <=> Active(c)
  BY DEF Active
<1>2. Persisted \subseteq Callers
  BY RunRegistryAssumption
<1>3. IndexIsActive'
  BY <1>1, <1>2 DEF Sessionwise, IndexIsActive
<1>4. RunAfterRelease'
  BY DEF Sessionwise, RunAfterRelease
<1>5. WaitsForSession'
  BY <1>1, <1>2 DEF Sessionwise, WaitsForSession
<1>6. ActiveIsDriven'
  BY <1>1 DEF Sessionwise, ActiveIsDriven
<1> QED BY <1>3, <1>4, <1>5, <1>6 DEF Sessionwise

\* Locking: nobody who waits for the lock has a run or a wait yet.
LEMMA LockingStep ==
  ASSUME TypeOK, LockInv, Sessionwise, NEW c \in Callers, Request(c) \/ Granted(c)
  PROVE  Sessionwise'
<1>1. UNCHANGED <<status, index, target, wait, exec, aborted>>
  BY DEF Request, Granted, regVars
<1>2. lk[c] \in {"idle", "queued"} /\ \E x \in {"queued", "held"} : lk' = [lk EXCEPT ![c] = x]
  BY DEF Request, Granted, AcquireLock, GrantLock, Turn
<1>3. IndexIsActive' /\ ActiveIsDriven' /\ WaitsForSession'
  BY <1>1 DEF Sessionwise, IndexIsActive, ActiveIsDriven, WaitsForSession, Active
<1>4. RunAfterRelease'
  BY <1>1, <1>2 DEF TypeOK, LockTypeOK, Sessionwise, RunAfterRelease
<1> QED BY <1>3, <1>4 DEF Sessionwise

\* A caller finds the active run, tells it to stop and waits for it.
LEMMA SupersedeStep ==
  ASSUME TypeOK, LockInv, Sessionwise, NEW c \in Callers, Supersede(c)
  PROVE  Sessionwise'
<1> DEFINE a == index[SessionOf[c]]
<1>1. /\ UNCHANGED <<lk, status, index, exec>>
      /\ lk[c] = "held"
      /\ target' = [target EXCEPT ![c] = a]
      /\ wait' = [wait EXCEPT ![c] = "waiting"]
  BY DEF Supersede, lockVars
<1>2. SessionOf[c] \in Sessions /\ Persisted \subseteq Callers
  BY SessionLockAssumption, RunRegistryAssumption
<1>3. a \in Persisted /\ SessionOf[a] = SessionOf[c] /\ Active(a)
  BY <1>2 DEF Supersede, FoundActive, Sessionwise, IndexIsActive
<1>4. aborted'[a] /\ \A d \in Callers : aborted[d] => aborted'[d]
  BY <1>2, <1>3 DEF Supersede, Abort, Subtree, TypeOK
<1>5. IndexIsActive' /\ ActiveIsDriven'
  BY <1>1 DEF Sessionwise, IndexIsActive, ActiveIsDriven, Active
<1>6. RunAfterRelease'
  BY <1>1 DEF TypeOK, Sessionwise, RunAfterRelease
<1>7. WaitsForSession'
  BY <1>1, <1>2, <1>3, <1>4 DEF TypeOK, Sessionwise, WaitsForSession, Active
<1> QED BY <1>5, <1>6, <1>7 DEF Sessionwise

\* A caller that holds the lock creates its run in the free slot of the session.
LEMMA CreateStep ==
  ASSUME TypeOK, LockInv, Sessionwise, NEW c \in Callers,
         lk[c] = "held", index[SessionOf[c]] = None,
         CreateRoot(c, index), ReleaseLock(c),
         wait[c] \in {"none", "resolved"}, wait' = [wait EXCEPT ![c] = "none"],
         UNCHANGED <<target, aborted>>
  PROVE  Sessionwise'
<1>1. SessionOf[c] \in Sessions /\ SessionOf \in [Callers -> Sessions]
      /\ Persisted \subseteq Callers /\ None \notin Callers
  BY SessionLockAssumption, RunRegistryAssumption
<1>2. lk' = [lk EXCEPT ![c] = "released"]
  BY DEF ReleaseLock
<1>3. \E st \in Live : status' = [status EXCEPT ![c] = st]
  BY DEF CreateRoot
<1>4. \E x \in {"started", "direct"} : exec' = [exec EXCEPT ![c] = x]
  BY DEF CreateRoot
<1>5. status[c] = "none" /\ ~Active(c)
  BY DEF Sessionwise, RunAfterRelease, Active
<1>6. \A d \in Callers : d # c => (Active(d)' <=> Active(d))
  BY <1>3 DEF TypeOK, Active
<1>7. Active(c)'
  BY <1>3 DEF TypeOK, Active
<1>8. IndexIsActive'
  <2>1. \A d \in Persisted : SessionOf[d] = SessionOf[c] => ~Active(d)
    BY <1>1 DEF Sessionwise, IndexIsActive
  <2>2. CASE c \in Persisted
    <3>1. index' = [index EXCEPT ![SessionOf[c]] = c]
      BY <2>2 DEF CreateRoot
    <3> QED BY <1>1, <1>6, <1>7, <2>1, <2>2, <3>1 DEF TypeOK, Sessionwise, IndexIsActive
  <2>3. CASE c \notin Persisted
    <3>1. index' = index
      BY <2>3 DEF CreateRoot
    <3> QED BY <1>1, <1>6, <2>3, <3>1 DEF TypeOK, Sessionwise, IndexIsActive
  <2> QED BY <2>2, <2>3
<1>9. RunAfterRelease'
  BY <1>2, <1>3 DEF TypeOK, LockInv, LockTypeOK, Sessionwise, RunAfterRelease
<1>10. WaitsForSession'
  <2>1. \A d \in Callers : wait[d] # "none" /\ SessionOf[d] = SessionOf[c] => d = c
    BY LockInvImplies DEF Sessionwise, RunAfterRelease, MutualExclusion
  <2>2. \A d \in Callers : wait'[d] = IF d = c THEN "none" ELSE wait[d]
    BY DEF TypeOK
  <2>3. \A d \in Callers : SessionOf[d] # SessionOf[c] => index'[SessionOf[d]] = index[SessionOf[d]]
    BY <1>1 DEF CreateRoot, TypeOK
  <2>4. \A d \in Callers : wait[d] = "waiting" => target[d] # c
    BY <1>5 DEF Sessionwise, WaitsForSession
  <2> QED BY <1>1, <1>6, <2>1, <2>2, <2>3, <2>4 DEF Sessionwise, WaitsForSession
<1>11. ActiveIsDriven'
  BY <1>4, <1>6 DEF TypeOK, Sessionwise, ActiveIsDriven
<1> QED BY <1>8, <1>9, <1>10, <1>11 DEF Sessionwise

LEMMA BeginStep ==
  ASSUME TypeOK, LockInv, Sessionwise, NEW c \in Callers, Begin(c)
  PROVE  Sessionwise'
<1>1. SessionOf[c] \in Sessions
  BY SessionLockAssumption
<1>2. index[SessionOf[c]] = None
  BY <1>1 DEF Begin, FoundActive, Sessionwise, IndexIsActive
<1>3. [index EXCEPT ![SessionOf[c]] = None] = index
  BY <1>1, <1>2 DEF TypeOK
<1>4. wait' = [wait EXCEPT ![c] = "none"]
  BY DEF Begin, TypeOK
<1> QED BY <1>2, <1>3, <1>4, CreateStep DEF Begin

LEMMA ReplaceStep ==
  ASSUME TypeOK, LockInv, Sessionwise, NEW c \in Callers, Replace(c)
  PROVE  Sessionwise'
<1>1. index[SessionOf[c]] = None
  BY DEF Replace, Sessionwise, WaitsForSession
<1> QED BY <1>1, CreateStep DEF Replace

\* A run that settles leaves the index and resolves those who wait for it.
LEMMA SettleStep ==
  ASSUME TypeOK, Sessionwise, NEW r \in Runs, NEW o \in Terminal, NEW lp,
         Settle(r, o, lp), UNCHANGED <<lk, target, aborted>>,
         \A c \in Callers : c # r => exec'[c] = exec[c],
         exec'[r] # "none"
  PROVE  Sessionwise'
<1>1. SessionOf \in [Callers -> Sessions] /\ Persisted \subseteq Callers /\ None \notin Runs
  BY SessionLockAssumption, RunRegistryAssumption
<1>2. CASE Active(r)
  <2>1. /\ status' = [status EXCEPT ![r] = o]
        /\ index' = [s \in Sessions |-> IF index[s] = r THEN None ELSE index[s]]
        /\ wait' = [c \in Callers |-> IF wait[c] = "waiting" /\ target[c] = r
                                      THEN "resolved" ELSE wait[c]]
    BY <1>2 DEF Settle
  <2>2. \A c \in Callers : /\ c # r => (Active(c)' <=> Active(c))
                           /\ c = r => ~Active(c)'
    BY <2>1 DEF TypeOK, Active
  <2>3. IndexIsActive'
    BY <1>1, <2>1, <2>2 DEF Sessionwise, IndexIsActive
  <2>4. RunAfterRelease'
    BY <1>2, <2>1 DEF TypeOK, Sessionwise, RunAfterRelease, Active
  <2>5. WaitsForSession'
    <3>1. \A c \in Callers : wait[c] = "waiting" /\ target[c] = r
                             => index[SessionOf[c]] = r
      BY <1>1 DEF Sessionwise, WaitsForSession, IndexIsActive
    <3>2. \A c \in Callers : wait'[c] = "resolved" => index'[SessionOf[c]] = None
      BY <1>1, <2>1, <3>1 DEF Sessionwise, WaitsForSession
    <3>3. \A c \in Callers : wait'[c] = "waiting" => wait[c] = "waiting" /\ target[c] # r
      BY <2>1
    <3> QED BY <1>1, <2>1, <2>2, <3>2, <3>3 DEF Sessionwise, WaitsForSession
  <2>6. ActiveIsDriven'
    BY <2>2 DEF Sessionwise, ActiveIsDriven
  <2> QED BY <2>3, <2>4, <2>5, <2>6 DEF Sessionwise
<1>3. CASE ~Active(r)
  <2>1. UNCHANGED <<status, index, wait>>
    BY <1>3 DEF Settle
  <2> QED BY <1>3, <2>1
          DEF Sessionwise, IndexIsActive, RunAfterRelease, WaitsForSession, ActiveIsDriven, Active
<1> QED BY <1>2, <1>3

LEMMA FinishStep ==
  ASSUME TypeOK, Sessionwise, NEW r \in Runs, Finish(r)
  PROVE  Sessionwise'
<1>1. \E o \in Terminal : \E lp : Settle(r, o, lp)
  BY DEF Finish, NotifyCompleted, NotifyFailed, ExecutorReturns, Notify, ErrorStatus
<1>2. UNCHANGED <<lk, target, aborted>>
  BY DEF Finish, NotifyCompleted, NotifyFailed, ExecutorReturns, Notify, lockVars
<1>3. \E x \in {"notified", "over"} : exec' = [exec EXCEPT ![r] = x]
  BY DEF Finish, NotifyCompleted, NotifyFailed, ExecutorReturns, Notify
<1>4. exec'[r] # "none" /\ \A c \in Callers : c # r => exec'[c] = exec[c]
  BY <1>3 DEF TypeOK
<1> QED BY <1>1, <1>2, <1>4, SettleStep

\* Eviction removes settled top-level runs and child runs: no active top-level
\* run, index entry or waiter is among them.
LEMMA EvictStep ==
  ASSUME TypeOK, Sessionwise, NEW r \in Runs, EvictSubtree(r)
  PROVE  Sessionwise'
<1> DEFINE gone == {k \in Subtree(r) : Resident(k)}
<1>1. SessionOf \in [Callers -> Sessions] /\ Persisted \subseteq Callers
      /\ Kids \cap Callers = {} /\ None \notin Runs
  BY SessionLockAssumption, RunRegistryAssumption
<1>2. /\ status' = [k \in Runs |-> IF k \in gone THEN "evicted" ELSE status[k]]
      /\ index' = [s \in Sessions |-> IF index[s] \in gone THEN None ELSE index[s]]
      /\ wait' = [c \in Callers |-> IF wait[c] = "waiting" /\ target[c] \in gone
                                    THEN "lost" ELSE wait[c]]
      /\ UNCHANGED <<lk, aborted, target, exec>>
  BY DEF EvictSubtree, lockVars
<1>3. \A c \in Callers : c \in gone => c = r /\ ~Active(c)
  BY <1>1 DEF EvictSubtree, Subtree, Active
<1>4. index' = index
  BY <1>1, <1>2, <1>3 DEF TypeOK, Sessionwise, IndexIsActive
<1>5. wait' = wait
  BY <1>1, <1>2, <1>3 DEF TypeOK, Sessionwise, WaitsForSession
<1>6. \A c \in Callers : Active(c)' <=> Active(c)
  BY <1>2, <1>3 DEF TypeOK, Active
<1>7. \A c \in Callers : status[c] = "none" => status'[c] = "none"
  BY <1>2 DEF Resident
<1> QED BY <1>1, <1>2, <1>4, <1>5, <1>6, <1>7
    DEF Sessionwise, IndexIsActive, RunAfterRelease, WaitsForSession, ActiveIsDriven

-----------------------------------------------------------------------------
\* Types.

LEMMA CreateTypes ==
  ASSUME TypeOK, LockTypeOK', NEW c \in Callers, Begin(c) \/ Replace(c)
  PROVE  TypeOK'
<1>1. SessionOf[c] \in Sessions /\ c \in Runs
  BY SessionLockAssumption
<1>2. \E idx \in [Sessions -> Callers \cup {None}] : CreateRoot(c, idx)
  BY <1>1 DEF Begin, Replace, TypeOK
<1>3. \E st \in Live : status' = [status EXCEPT ![c] = st]
  BY <1>2 DEF CreateRoot
<1>4. \E x \in {"started", "direct"} : exec' = [exec EXCEPT ![c] = x]
  BY <1>2 DEF CreateRoot
<1>5. index' \in [Sessions -> Callers \cup {None}]
  BY <1>1, <1>2 DEF CreateRoot
<1>6. \E x \in {"off", "busy"} : loop' = [loop EXCEPT ![c] = x]
  BY DEF Begin, Replace
<1>7. wait' = wait \/ wait' = [wait EXCEPT ![c] = "none"]
  BY DEF Begin, Replace
<1>8. UNCHANGED <<aborted, parent, up, target, pending, got>>
  BY DEF Begin, Replace
<1>9. /\ status' \in [Runs -> {"none", "evicted"} \cup Live \cup Terminal]
      /\ exec' \in [Runs -> {"none", "direct", "started", "notified", "over"}]
  BY <1>1, <1>3, <1>4 DEF TypeOK
<1>10. loop' \in [Runs -> {"off", "busy", "draining", "failing", "answered", "stopped", "exhausted"}]
  BY <1>1, <1>6 DEF TypeOK
<1>11. wait' \in [Callers -> {"none", "waiting", "resolved", "lost"}]
  BY <1>7 DEF TypeOK
<1> QED BY <1>5, <1>8, <1>9, <1>10, <1>11 DEF TypeOK

LEMMA SupersedeTypes ==
  ASSUME TypeOK, LockTypeOK', NEW c \in Callers, Supersede(c)
  PROVE  TypeOK'
<1> DEFINE a == index[SessionOf[c]]
<1>1. a \in Callers
  BY SessionLockAssumption DEF Supersede, FoundActive, TypeOK
<1>2. Abort(Subtree(a))
  BY DEF Supersede
<1>3. aborted' \in [Runs -> BOOLEAN]
  BY <1>2 DEF Abort, TypeOK
<1>4. loop' \in [Runs -> {"off", "busy", "draining", "failing", "answered", "stopped", "exhausted"}]
  BY <1>2 DEF Abort, TypeOK
<1> QED BY <1>1, <1>3, <1>4 DEF TypeOK, Supersede

LEMMA CancelTypes ==
  ASSUME TypeOK, LockTypeOK', NEW r \in Runs, Cancel(r)
  PROVE  TypeOK'
<1>1. Abort(Subtree(r))
  BY DEF Cancel
<1>2. aborted' \in [Runs -> BOOLEAN]
  BY <1>1 DEF Abort, TypeOK
<1>3. loop' \in [Runs -> {"off", "busy", "draining", "failing", "answered", "stopped", "exhausted"}]
  BY <1>1 DEF Abort, TypeOK
<1> QED BY <1>2, <1>3 DEF TypeOK, Cancel

LEMMA SpawnTypes ==
  ASSUME TypeOK, LockTypeOK', NEW p \in Runs, NEW k \in Kids, Spawn(p, k)
  PROVE  TypeOK'
<1>1. k \in Runs
  OBVIOUS
<1>2. \E st \in Live : status' = [status EXCEPT ![k] = st]
  BY DEF Spawn
<1>3. \E x \in {"started", "direct"} : exec' = [exec EXCEPT ![k] = x]
  BY DEF Spawn
<1>4. up' \in [Runs -> SUBSET Runs]
  BY <1>1 DEF Spawn, TypeOK
<1>5. aborted' \in [Runs -> BOOLEAN]
  BY <1>1 DEF Spawn, TypeOK, Resident
<1>6. /\ status' \in [Runs -> {"none", "evicted"} \cup Live \cup Terminal]
      /\ exec' \in [Runs -> {"none", "direct", "started", "notified", "over"}]
  BY <1>1, <1>2, <1>3 DEF TypeOK
<1>7. /\ parent' \in [Runs -> Runs \cup {None}]
      /\ loop' \in [Runs -> {"off", "busy", "draining", "failing", "answered", "stopped", "exhausted"}]
  BY <1>1 DEF Spawn, TypeOK
<1> QED BY <1>4, <1>5, <1>6, <1>7 DEF Spawn, TypeOK

\* The steps of an agent loop that leave the run as it is.
LEMMA LoopTypes ==
  ASSUME TypeOK, LockTypeOK', NEW p \in Runs,
         Inject(p) \/ TurnEnd(p) \/ StopsWithTools(p) \/ StepsExhausted(p) \/ DrainTimeout(p)
  PROVE  TypeOK'
<1>1. UNCHANGED <<status, aborted, parent, up, index, target, wait, exec>>
  BY DEF Inject, TurnEnd, StopsWithTools, StepsExhausted, DrainTimeout
<1>2. \E x \in {"off", "busy", "draining", "failing", "answered", "stopped", "exhausted"} :
         loop' = [loop EXCEPT ![p] = x]
  BY DEF Inject, TurnEnd, StopsWithTools, StepsExhausted, DrainTimeout, TypeOK
<1>3. /\ \/ pending' = pending
         \/ pending' = [pending EXCEPT ![p] = <<>>]
      /\ \/ got' = got
         \/ got' = [got EXCEPT ![p] = got[p] \o pending[p]]
  BY DEF Inject, TurnEnd, StopsWithTools, StepsExhausted, DrainTimeout
<1>4. got[p] \o pending[p] \in Seq(Runs) /\ <<>> \in Seq(Runs)
  BY DEF TypeOK
<1>5. loop' \in [Runs -> {"off", "busy", "draining", "failing", "answered", "stopped", "exhausted"}]
  BY <1>2 DEF TypeOK
<1>6. pending' \in [Runs -> Seq(Runs)]
  BY <1>3, <1>4 DEF TypeOK
<1>7. got' \in [Runs -> Seq(Runs)]
  BY <1>3, <1>4 DEF TypeOK
<1> QED BY <1>1, <1>5, <1>6, <1>7 DEF TypeOK

LEMMA FinishTypes ==
  ASSUME TypeOK, LockTypeOK', NEW r \in Runs, Finish(r)
  PROVE  TypeOK'
<1> DEFINE Loops == [Runs -> {"off", "busy", "draining", "failing", "answered", "stopped", "exhausted"}]
<1>1. \E o \in Terminal, lp \in Loops : Settle(r, o, lp)
  <2>1. loop \in Loops /\ [loop EXCEPT ![r] = "off"] \in Loops
    BY DEF TypeOK
  <2> QED
    BY <2>1 DEF Finish, NotifyCompleted, NotifyFailed, ExecutorReturns, Notify, ErrorStatus
<1>2. \E x \in {"notified", "over"} : exec' = [exec EXCEPT ![r] = x]
  BY DEF Finish, NotifyCompleted, NotifyFailed, ExecutorReturns, Notify
<1>3. UNCHANGED <<aborted, parent, up, target, got>>
  BY DEF Finish, NotifyCompleted, NotifyFailed, ExecutorReturns, Notify
<1>4. exec' \in [Runs -> {"none", "direct", "started", "notified", "over"}]
  BY <1>2 DEF TypeOK
<1>5. /\ status' \in [Runs -> {"none", "evicted"} \cup Live \cup Terminal]
      /\ index' \in [Sessions -> Callers \cup {None}]
      /\ wait' \in [Callers -> {"none", "waiting", "resolved", "lost"}]
      /\ loop' \in Loops
      /\ pending' \in [Runs -> Seq(Runs)]
  BY <1>1, SettleTypes
<1> QED BY <1>3, <1>4, <1>5 DEF TypeOK

LEMMA EvictTypes ==
  ASSUME TypeOK, LockTypeOK', NEW r \in Runs, EvictSubtree(r)
  PROVE  TypeOK'
<1> DEFINE gone == {k \in Subtree(r) : Resident(k)}
<1>1. /\ status' = [k \in Runs |-> IF k \in gone THEN "evicted" ELSE status[k]]
      /\ index' = [s \in Sessions |-> IF index[s] \in gone THEN None ELSE index[s]]
      /\ pending' = [k \in Runs |-> IF k \in gone THEN <<>> ELSE pending[k]]
      /\ wait' = [c \in Callers |-> IF wait[c] = "waiting" /\ target[c] \in gone
                                    THEN "lost" ELSE wait[c]]
      /\ UNCHANGED <<aborted, parent, up, target, exec, loop, got>>
  BY DEF EvictSubtree
<1> HIDE DEF gone
<1>2. status' \in [Runs -> {"none", "evicted"} \cup Live \cup Terminal]
  BY <1>1 DEF TypeOK
<1>3. index' \in [Sessions -> Callers \cup {None}]
  BY <1>1 DEF TypeOK
<1>4. wait' \in [Callers -> {"none", "waiting", "resolved", "lost"}]
  BY <1>1 DEF TypeOK
<1>5. pending' \in [Runs -> Seq(Runs)]
  <2>1. \A k \in Runs : pending[k] \in Seq(Runs) /\ <<>> \in Seq(Runs)
    BY DEF TypeOK
  <2> QED BY <1>1, <2>1
<1> QED BY <1>1, <1>2, <1>3, <1>4, <1>5 DEF TypeOK

-----------------------------------------------------------------------------
LEMMA TypeStep == ASSUME TypeOK, LockTypeOK', [Next]_vars PROVE TypeOK'
<1>1. CASE UNCHANGED vars
  BY <1>1 DEF TypeOK, vars, regVars
<1>2. ASSUME NEW c \in Callers, Request(c) \/ Granted(c) PROVE TypeOK'
  BY <1>2 DEF TypeOK, Request, Granted, regVars
<1>3. ASSUME NEW c \in Callers, Abandon(c) PROVE TypeOK'
  BY <1>3 DEF TypeOK, Abandon
<1> QED
  BY <1>1, <1>2, <1>3, CreateTypes, SupersedeTypes, CancelTypes, SpawnTypes, LoopTypes,
     FinishTypes, EvictTypes
  DEF Next, CallerStep, LoopStep

LEMMA SessionwiseStep == ASSUME TypeOK, LockInv, Sessionwise, [Next]_vars PROVE Sessionwise'
<1>1. CASE UNCHANGED vars
  BY <1>1, QuietStep DEF vars, regVars, lockVars
<1>2. ASSUME NEW p \in Runs, NEW k \in Kids, Spawn(p, k) PROVE Sessionwise'
  <2>1. \A c \in Callers : c # k
    BY RunRegistryAssumption
  <2>2. /\ UNCHANGED <<lk, index, target, wait>>
        /\ \A c \in Callers : status'[c] = status[c] /\ exec'[c] = exec[c]
                              /\ aborted'[c] = aborted[c]
    BY <1>2, <2>1 DEF Spawn, TypeOK, lockVars
  <2> QED BY <2>2, QuietStep
<1>3. ASSUME NEW r \in Runs,
             Inject(r) \/ TurnEnd(r) \/ StopsWithTools(r) \/ StepsExhausted(r) \/ DrainTimeout(r)
      PROVE  Sessionwise'
  <2>1. UNCHANGED <<lk, index, target, wait, status, exec, aborted>>
    BY <1>3 DEF Inject, TurnEnd, StopsWithTools, StepsExhausted, DrainTimeout, lockVars
  <2> QED BY <2>1, QuietStep
<1>4. ASSUME NEW r \in Runs, Cancel(r) PROVE Sessionwise'
  <2>1. UNCHANGED <<lk, index, target, wait, status, exec>>
    BY <1>4 DEF Cancel, lockVars
  <2>2. \A c \in Callers : aborted[c] => aborted'[c]
    BY <1>4 DEF Cancel, Abort
  <2> QED BY <2>1, <2>2, QuietStep
<1>5. ASSUME NEW c \in Callers, Abandon(c) PROVE Sessionwise'
  <2>1. UNCHANGED <<lk, index, target, wait, status, aborted>>
    BY <1>5 DEF Abandon, lockVars
  <2>2. CASE exec[c] # "none"
    <3>1. \A d \in Callers : exec'[d] = exec[d]
             \/ (exec[d] # "none" /\ d \in Streamed /\ exec'[d] # "none")
      BY <1>5, <2>2 DEF Abandon, TypeOK
    <3> QED BY <2>1, <3>1, QuietStep
  <2>3. CASE exec[c] = "none"
    <3>1. ~Active(c)
      BY <2>3 DEF Sessionwise, ActiveIsDriven
    <3>2. \A d \in Callers : d # c => exec'[d] = exec[d]
      BY <1>5 DEF Abandon, TypeOK
    <3>3. \A d \in Runs : Active(d)' <=> Active(d)
      BY <2>1 DEF Active
    <3>4. ActiveIsDriven'
      BY <3>1, <3>2, <3>3 DEF Sessionwise, ActiveIsDriven
    <3>5. IndexIsActive' /\ RunAfterRelease' /\ WaitsForSession'
      BY <2>1 DEF Sessionwise, IndexIsActive, RunAfterRelease, WaitsForSession, Active
    <3> QED BY <3>4, <3>5 DEF Sessionwise
  <2> QED BY <2>2, <2>3
<1> QED
  BY <1>1, <1>2, <1>3, <1>4, <1>5, LockingStep, SupersedeStep, BeginStep, ReplaceStep,
     FinishStep, EvictStep
  DEF Next, CallerStep, LoopStep

LEMMA RegInvStep == RegInv /\ [Next]_vars => RegInv'
<1> SUFFICES ASSUME RegInv, [Next]_vars PROVE RegInv'
  OBVIOUS
<1>1. LockInv' /\ LockTypeOK'
  BY LockStep DEF RegInv, LockInv
<1> QED BY <1>1, TypeStep, SessionwiseStep DEF RegInv, Sessionwise

LEMMA RegInvImplies == RegInv => OneActivePerSession
  BY DEF RegInv, IndexIsActive, OneActivePerSession

\* The session index, the waiting callers, the lock and the runs keep agreeing.
THEOREM RegistryAgrees == Spec => []RegInv
  BY InitInv, RegInvStep, PTL DEF Spec

\* A session never has two runs in flight, and the index names the one it has, for
\* any callers, sessions and child runs, with eviction and abandoned streams.
THEOREM OneRunPerSession == Spec => [](TypeOK /\ IndexIsActive /\ OneActivePerSession)
<1>1. RegInv => TypeOK /\ IndexIsActive
  BY DEF RegInv
<1> QED BY <1>1, RegistryAgrees, RegInvImplies, PTL

\* Where every consumer reads its stream to the end, a caller that waits for the
\* run it replaces waits for a run that is driven, told to stop and will tell it.
THEOREM CallersNotStranded == ASSUME Streamed = {} PROVE Spec => []NoStrandedCaller
<1>1. RegInv => NoStrandedCaller
  <2> SUFFICES ASSUME RegInv PROVE NoStrandedCaller
    OBVIOUS
  <2>1. Persisted \subseteq Callers
    BY RunRegistryAssumption
  <2> QED BY <2>1 DEF RegInv, WaitsForSession, ActiveIsDriven, NoStrandedCaller
<1> QED BY <1>1, InitInv, RegInvStep, PTL DEF Spec

\* The registry's callers use the session lock as its specification says.
THEOREM UsesSessionLock == Spec => LockSpec
<1>1. Init => LockInit
  BY DEF Init
<1>2. RegInv /\ [Next]_vars => [LockNext]_lockVars
  BY LockStep DEF RegInv
<1> QED BY <1>1, <1>2, InitInv, RegInvStep, PTL DEF Spec, LockSpec

-----------------------------------------------------------------------------
\* The refinement of SessionSlot.

Left == {c \in Persisted : status[c] \in Terminal \cup {"evicted"}}

\* A step that keeps the status of every top-level run and the index stutters.
LEMMA SlotStutter ==
  ASSUME UNCHANGED index, \A c \in Persisted : status'[c] = status[c]
  PROVE  UNCHANGED <<index, Left>>
  BY DEF Left

LEMMA SlotTake ==
  ASSUME RegInv, NEW c \in Callers, Begin(c) \/ Replace(c)
  PROVE  (c \in Persisted /\ Slot!Take(c)) \/ UNCHANGED <<index, Left>>
<1>1. SessionOf[c] \in Sessions /\ Persisted \subseteq Callers
  BY SessionLockAssumption, RunRegistryAssumption
<1>2. index[SessionOf[c]] = None
  BY <1>1 DEF Begin, Replace, FoundActive, RegInv, IndexIsActive, WaitsForSession
<1>3. CreateRoot(c, index)
  <2>1. [index EXCEPT ![SessionOf[c]] = None] = index
    BY <1>1, <1>2 DEF RegInv, TypeOK
  <2> QED BY <2>1 DEF Begin, Replace
<1>4. status[c] = "none"
  BY DEF Begin, Replace, RegInv, RunAfterRelease
<1>5. \E st \in Live : status' = [status EXCEPT ![c] = st]
  BY <1>3 DEF CreateRoot
<1>6. \A d \in Callers : status'[d] = status[d] \/ (d = c /\ status'[c] \in Live)
  BY <1>5 DEF RegInv, TypeOK
<1>7. UNCHANGED Left
  BY <1>1, <1>4, <1>6 DEF Left
<1>8. CASE c \in Persisted
  <2>1. index' = [index EXCEPT ![SessionOf[c]] = c]
    BY <1>3, <1>8 DEF CreateRoot
  <2>2. c \notin Left
    BY <1>4 DEF Left
  <2> QED BY <1>2, <1>7, <1>8, <2>1, <2>2 DEF Slot!Take, Left
<1>9. CASE c \notin Persisted
  BY <1>3, <1>7, <1>9 DEF CreateRoot
<1> QED BY <1>8, <1>9

LEMMA SlotLeave ==
  ASSUME RegInv, NEW r \in Runs, Finish(r)
  PROVE  (r \in Persisted /\ Slot!Leave(r)) \/ UNCHANGED <<index, Left>>
<1>1. PICK o \in Terminal : \E lp : Settle(r, o, lp)
  BY DEF Finish, NotifyCompleted, NotifyFailed, ExecutorReturns, Notify, ErrorStatus
<1>2. SessionOf \in [Callers -> Sessions] /\ Persisted \subseteq Callers /\ None \notin Runs
  BY SessionLockAssumption, RunRegistryAssumption
<1>3. CASE ~Active(r)
  BY <1>1, <1>3, SlotStutter DEF Settle
<1>4. CASE Active(r)
  <2>1. /\ status' = [status EXCEPT ![r] = o]
        /\ index' = [s \in Sessions |-> IF index[s] = r THEN None ELSE index[s]]
    BY <1>1, <1>4 DEF Settle
  <2>2. \A d \in Callers : status'[d] = IF d = r THEN o ELSE status[d]
    BY <2>1 DEF RegInv, TypeOK
  <2>3. CASE r \in Persisted
    <3>1. SessionOf[r] \in Sessions /\ index[SessionOf[r]] = r
      BY <1>2, <1>4, <2>3 DEF RegInv, IndexIsActive
    <3>2. \A s \in Sessions : index[s] = r => s = SessionOf[r]
      BY <1>2 DEF RegInv, IndexIsActive
    <3>3. index' = [index EXCEPT ![SessionOf[r]] = None]
      BY <2>1, <3>1, <3>2 DEF RegInv, TypeOK
    <3>4. Left' = Left \cup {r}
      BY <1>2, <2>2, <2>3 DEF Left
    <3> QED BY <2>3, <3>1, <3>3, <3>4 DEF Slot!Leave, Left
  <2>4. CASE r \notin Persisted
    <3>1. index' = index
      BY <1>2, <2>1, <2>4 DEF RegInv, TypeOK, IndexIsActive
    <3>2. \A d \in Persisted : status'[d] = status[d]
      BY <1>2, <2>2, <2>4
    <3> QED BY <3>1, <3>2, SlotStutter
  <2> QED BY <2>3, <2>4
<1> QED BY <1>3, <1>4

LEMMA SlotEvict ==
  ASSUME RegInv, NEW r \in Runs, EvictSubtree(r)
  PROVE  UNCHANGED <<index, Left>>
<1> DEFINE gone == {k \in Subtree(r) : Resident(k)}
<1>1. Persisted \subseteq Callers /\ Kids \cap Callers = {} /\ None \notin Runs
  BY SessionLockAssumption, RunRegistryAssumption
<1>2. /\ status' = [k \in Runs |-> IF k \in gone THEN "evicted" ELSE status[k]]
      /\ index' = [s \in Sessions |-> IF index[s] \in gone THEN None ELSE index[s]]
      /\ status[r] \in Terminal
  BY DEF EvictSubtree
<1>3. \A c \in Callers : c \in gone => c = r
  BY <1>1 DEF Subtree
<1>4. index' = index
  <2>1. \A s \in Sessions : index[s] \notin gone
    BY <1>1, <1>2, <1>3 DEF RegInv, IndexIsActive, Active, Subtree
  <2> QED BY <1>2, <2>1 DEF RegInv, TypeOK
<1>5. UNCHANGED Left
  BY <1>1, <1>2, <1>3 DEF Left
<1> QED BY <1>4, <1>5

LEMMA SlotStep == ASSUME RegInv, [Next]_vars PROVE [Slot!SlotNext]_<<index, Left>>
<1>1. Persisted \subseteq Callers /\ Kids \cap Callers = {}
  BY RunRegistryAssumption
<1>2. CASE UNCHANGED vars
  BY <1>2, SlotStutter DEF vars, regVars
<1>3. ASSUME NEW c \in Callers, Request(c) \/ Granted(c) \/ Supersede(c) \/ Abandon(c)
      PROVE  UNCHANGED <<index, Left>>
  BY <1>3, SlotStutter DEF Request, Granted, Supersede, Abandon, regVars
<1>4. ASSUME NEW p \in Runs, NEW k \in Kids, Spawn(p, k)
      PROVE  UNCHANGED <<index, Left>>
  <2>1. \A c \in Persisted : status'[c] = status[c]
    BY <1>1, <1>4 DEF Spawn, RegInv, TypeOK
  <2> QED BY <1>4, <2>1, SlotStutter DEF Spawn
<1>5. ASSUME NEW r \in Runs,
             \/ Inject(r) \/ TurnEnd(r) \/ StopsWithTools(r) \/ StepsExhausted(r)
             \/ DrainTimeout(r) \/ Cancel(r)
      PROVE  UNCHANGED <<index, Left>>
  BY <1>5, SlotStutter DEF Inject, TurnEnd, StopsWithTools, StepsExhausted, DrainTimeout, Cancel
<1>6. ASSUME NEW r \in Callers, Slot!Take(r) \/ Slot!Leave(r), r \in Persisted
      PROVE  Slot!SlotNext
  BY <1>6 DEF Slot!SlotNext
<1>7. ASSUME NEW c \in Callers, CallerStep(c) PROVE [Slot!SlotNext]_<<index, Left>>
  BY <1>3, <1>6, <1>7, SlotTake DEF CallerStep
<1>8. ASSUME NEW r \in Runs, LoopStep(r) PROVE [Slot!SlotNext]_<<index, Left>>
  BY <1>1, <1>5, <1>6, <1>8, SlotLeave DEF LoopStep
<1> QED BY <1>2, <1>3, <1>4, <1>5, <1>7, <1>8, SlotEvict DEF Next

\* Cancel-and-replace implements the one-slot session.
THEOREM RefinesSessionSlot == Spec => SlotSpec
<1>1. Init => Slot!SlotInit
  BY RunRegistryAssumption DEF Init, Slot!SlotInit
<1>2. RegInv /\ [Next]_vars => [Slot!SlotNext]_<<index, {c \in Persisted : status[c] \in Terminal \cup {"evicted"}}>>
  BY SlotStep DEF Left
<1> QED BY <1>1, <1>2, InitInv, RegInvStep, PTL DEF Spec, SlotSpec, Slot!Spec

-----------------------------------------------------------------------------
\* Cancellation reaches the whole tree.

\* Aborting a subtree keeps the invariant: what is below an aborted run is below r.
LEMMA AbortKeepsTree ==
  ASSUME TreeInv, NEW r \in Runs, Abort(Subtree(r)), UNCHANGED <<status, up, exec>>
  PROVE  Lineage' /\ AbortReachesSubtree'
<1>1. \A k \in Runs : aborted'[k] = (aborted[k] \/ k \in Subtree(r))
  BY DEF Abort
<1>2. AbortReachesSubtree'
  <2> SUFFICES ASSUME NEW k \in Runs, NEW p \in up[k], aborted'[p] PROVE aborted'[k]
    BY DEF AbortReachesSubtree
  <2>1. p \in Runs /\ k \in Kids /\ up[p] \subseteq up[k]
    BY DEF TreeInv, TypeOK, Lineage
  <2>2. CASE aborted[p]
    BY <1>1, <2>1, <2>2 DEF TreeInv, AbortReachesSubtree
  <2>3. CASE p \in Subtree(r)
    BY <1>1, <2>1, <2>3 DEF Subtree
  <2> QED BY <1>1, <2>1, <2>2, <2>3
<1>3. Lineage'
  BY DEF TreeInv, TypeOK, Lineage, Abort
<1> QED BY <1>2, <1>3

\* Only creation changes who is below whom; other steps keep the invariant if they
\* move no run that does not exist.
LEMMA TreeStutter ==
  ASSUME TreeInv, UNCHANGED <<up, aborted>>,
         \A r \in Runs : /\ status[r] # "none" => status'[r] # "none"
                         /\ status'[r] = "none" => exec'[r] = "none" /\ loop'[r] = "off"
  PROVE  Lineage' /\ AbortReachesSubtree'
  BY DEF TreeInv, TypeOK, Lineage, AbortReachesSubtree

LEMMA SpawnKeepsTree ==
  ASSUME TreeInv, NEW p \in Runs, NEW k \in Kids, Spawn(p, k)
  PROVE  Lineage' /\ AbortReachesSubtree'
<1>1. status[k] = "none" /\ status[p] # "none" /\ k # p
  BY DEF Spawn, TreeInv, Lineage
<1>2. up[k] = {} /\ \A j \in Runs : k \notin up[j]
  BY <1>1 DEF TreeInv, TypeOK, Lineage
<1>3. \A j \in Runs : up'[j] = IF j # k THEN up[j]
                               ELSE IF Resident(p) THEN up[p] \cup {p} ELSE {}
  BY DEF Spawn, TreeInv, TypeOK
<1>4. \A j \in Runs : aborted'[j] = IF j # k THEN aborted[j] ELSE Resident(p) /\ aborted[p]
  BY DEF Spawn, TreeInv, TypeOK
<1>5. \A j \in Runs : /\ j # k => status'[j] = status[j] /\ exec'[j] = exec[j] /\ loop'[j] = loop[j]
                      /\ j = k => status'[j] # "none"
  BY DEF Spawn, TreeInv, TypeOK
<1>6. Lineage'
  <2>1. \A j \in Runs : status'[j] = "none" => exec'[j] = "none" /\ loop'[j] = "off"
    BY <1>5 DEF TreeInv, Lineage
  <2>2. ASSUME NEW j \in Runs, NEW q \in up'[j]
        PROVE  j \in Kids /\ status'[j] # "none" /\ status'[q] # "none" /\ up'[q] \subseteq up'[j]
    <3>1. CASE j # k
      <4>1. q \in up[j] /\ q \in Runs /\ q # k
        BY <1>2, <1>3, <2>2, <3>1 DEF TreeInv, TypeOK
      <4> QED BY <1>3, <1>5, <3>1, <4>1 DEF TreeInv, Lineage
    <3>2. CASE j = k
      <4>1. Resident(p) /\ q \in up[p] \cup {p} /\ up'[k] = up[p] \cup {p}
        BY <1>3, <2>2, <3>2
      <4>2. q \in Runs /\ q # k /\ status[q] # "none" /\ up[q] \subseteq up[p]
        BY <1>1, <1>2, <4>1 DEF TreeInv, TypeOK, Lineage
      <4> QED BY <1>3, <1>5, <3>2, <4>1, <4>2
    <3> QED BY <3>1, <3>2
  <2> QED BY <2>1, <2>2 DEF Lineage
<1>7. AbortReachesSubtree'
  <2> SUFFICES ASSUME NEW j \in Runs, NEW q \in up'[j], aborted'[q] PROVE aborted'[j]
    BY DEF AbortReachesSubtree
  <2>1. CASE j # k
    BY <1>2, <1>3, <1>4, <2>1 DEF TreeInv, TypeOK, AbortReachesSubtree
  <2>2. CASE j = k
    <3>1. Resident(p) /\ q \in up[p] \cup {p} /\ q # k
      BY <1>1, <1>2, <1>3, <2>2
    <3>2. aborted[q] /\ q \in Runs
      BY <1>4, <3>1 DEF TreeInv, TypeOK
    <3>3. aborted[p]
      BY <3>1, <3>2 DEF TreeInv, AbortReachesSubtree
    <3> QED BY <1>4, <2>2, <3>1, <3>3
  <2> QED BY <2>1, <2>2
<1> QED BY <1>6, <1>7

LEMMA CreateKeepsTree ==
  ASSUME TreeInv, NEW c \in Callers, Begin(c) \/ Replace(c)
  PROVE  Lineage' /\ AbortReachesSubtree'
<1>1. UNCHANGED <<up, aborted>>
  BY DEF Begin, Replace
<1>2. \E st \in Live : status' = [status EXCEPT ![c] = st]
  BY DEF Begin, Replace, CreateRoot
<1>3. \E x : exec' = [exec EXCEPT ![c] = x]
  BY DEF Begin, Replace, CreateRoot
<1>4. \E x : loop' = [loop EXCEPT ![c] = x]
  BY DEF Begin, Replace
<1>5. \A r \in Runs : /\ r # c => status'[r] = status[r] /\ exec'[r] = exec[r] /\ loop'[r] = loop[r]
                      /\ r = c => status'[r] # "none"
  BY <1>2, <1>3, <1>4 DEF TreeInv, TypeOK
<1> QED BY <1>1, <1>5, TreeStutter DEF TreeInv, Lineage

LEMMA FinishKeepsTree ==
  ASSUME TreeInv, NEW r \in Runs, Finish(r)
  PROVE  Lineage' /\ AbortReachesSubtree'
<1>1. /\ \E o \in Terminal, l \in {loop, [loop EXCEPT ![r] = "off"]} : Settle(r, o, l)
      /\ UNCHANGED <<up, aborted>>
      /\ \E x : exec' = [exec EXCEPT ![r] = x]
  BY DEF Finish, NotifyCompleted, NotifyFailed, ExecutorReturns, Notify, ErrorStatus
<1>2. status[r] # "none"
  BY DEF Finish, NotifyCompleted, NotifyFailed, ExecutorReturns, TreeInv, Lineage
<1>3. \A k \in Runs : k # r => exec'[k] = exec[k]
  BY <1>1 DEF TreeInv, TypeOK
<1>4. PICK o \in Terminal, l \in {loop, [loop EXCEPT ![r] = "off"]} : Settle(r, o, l)
  BY <1>1
<1>5. \A k \in Runs : status'[k] = status[k] \/ (k = r /\ status'[k] \in Terminal)
  BY <1>4 DEF Settle, TreeInv, TypeOK
<1>6. \A k \in Runs : k # r => l[k] = loop[k]
  BY <1>4 DEF TreeInv, TypeOK
<1>7. loop' = l \/ \E p \in Runs : l[p] = "draining" /\ loop' = [l EXCEPT ![p] = "busy"]
  <2>1. parent[r] # None => parent[r] \in Runs
    BY DEF TreeInv, TypeOK
  <2> QED BY <1>4, <2>1 DEF Settle, Deliver
<1>8. \A k \in Runs : k # r /\ loop[k] = "off" => loop'[k] = "off"
  BY <1>4, <1>6, <1>7 DEF TreeInv, TypeOK
<1>9. \A k \in Runs : status'[k] = "none" => status[k] = "none" /\ k # r
  BY <1>2, <1>5
<1> QED BY <1>1, <1>2, <1>3, <1>5, <1>8, <1>9, TreeStutter DEF TreeInv, Lineage

LEMMA TreeStep == ASSUME TreeInv, LockTypeOK', [Next]_vars PROVE TreeInv'
<1>1. TypeOK'
  BY TypeStep DEF TreeInv
<1>2. CASE UNCHANGED vars
  <2>1. UNCHANGED <<status, exec, loop, up, aborted>>
    BY <1>2 DEF vars, regVars
  <2>2. Lineage' /\ AbortReachesSubtree'
    BY <2>1, TreeStutter DEF TreeInv, Lineage
  <2> QED BY <1>1, <2>2 DEF TreeInv
<1>3. ASSUME NEW c \in Callers, Request(c) \/ Granted(c)
      PROVE  Lineage' /\ AbortReachesSubtree'
  BY <1>3, TreeStutter DEF Request, Granted, regVars, TreeInv, Lineage
<1>4. ASSUME NEW c \in Callers, Supersede(c) PROVE Lineage' /\ AbortReachesSubtree'
  <2>1. index[SessionOf[c]] \in Runs
    BY <1>4, SessionLockAssumption DEF Supersede, FoundActive, TreeInv, TypeOK
  <2> QED BY <1>4, <2>1, AbortKeepsTree DEF Supersede
<1>5. ASSUME NEW r \in Runs, Cancel(r) PROVE Lineage' /\ AbortReachesSubtree'
  BY <1>5, AbortKeepsTree DEF Cancel
<1>6. ASSUME NEW p \in Runs,
             Inject(p) \/ TurnEnd(p) \/ StopsWithTools(p) \/ StepsExhausted(p) \/ DrainTimeout(p)
      PROVE  Lineage' /\ AbortReachesSubtree'
  <2>1. UNCHANGED <<status, up, aborted, exec>> /\ loop[p] # "off"
    BY <1>6 DEF Inject, TurnEnd, StopsWithTools, StepsExhausted, DrainTimeout
  <2>2. \A r \in Runs : r # p => loop'[r] = loop[r]
    BY <1>6 DEF Inject, TurnEnd, StopsWithTools, StepsExhausted, DrainTimeout, TreeInv, TypeOK
  <2>3. status[p] # "none"
    BY <2>1 DEF TreeInv, Lineage
  <2> QED BY <2>1, <2>2, <2>3, TreeStutter DEF TreeInv, Lineage
<1>7. ASSUME NEW c \in Callers, Abandon(c) PROVE Lineage' /\ AbortReachesSubtree'
  <2>1. UNCHANGED <<status, up, aborted>> /\ status[c] # "none"
    BY <1>7 DEF Abandon, TreeInv, Lineage
  <2>2. \A r \in Runs : r # c => exec'[r] = exec[r] /\ loop'[r] = loop[r]
    BY <1>7 DEF Abandon, TreeInv, TypeOK
  <2> QED BY <2>1, <2>2, TreeStutter DEF TreeInv, Lineage
<1>8. ASSUME NEW r \in Runs, EvictSubtree(r) PROVE Lineage' /\ AbortReachesSubtree'
  <2>1. UNCHANGED <<up, aborted, exec, loop>>
    BY <1>8 DEF EvictSubtree
  <2>2. \A k \in Runs : status'[k] = "none" <=> status[k] = "none"
    BY <1>8 DEF EvictSubtree, Resident, TreeInv, TypeOK
  <2> QED BY <2>1, <2>2, TreeStutter DEF TreeInv, Lineage
<1> QED
  BY <1>1, <1>2, <1>3, <1>4, <1>5, <1>6, <1>7, <1>8, CreateKeepsTree, SpawnKeepsTree,
     FinishKeepsTree
  DEF Next, CallerStep, LoopStep, TreeInv

LEMMA TreeHolds == Spec => []TreeInv
<1>1. Init => TreeInv
  <2> SUFFICES ASSUME Init PROVE TreeInv
    OBVIOUS
  <2>1. TypeOK
    BY InitInv DEF RegInv
  <2> QED BY <2>1 DEF Init, TreeInv, Lineage, AbortReachesSubtree
<1>2. RegInv /\ TreeInv /\ [Next]_vars => TreeInv'
  BY RegInvStep, TreeStep DEF RegInv, TypeOK
<1> QED BY <1>1, <1>2, RegistryAgrees, PTL DEF Spec

\* Aborting a run aborts every run below it, and a run created below an aborted one
\* is born aborted, for any tree of runs.
THEOREM CancellationReachesSubtree == Spec => []AbortReachesSubtree
<1>1. TreeInv => AbortReachesSubtree
  BY DEF TreeInv
<1> QED BY <1>1, TreeHolds, PTL
=============================================================================
