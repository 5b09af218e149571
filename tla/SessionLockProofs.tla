------------------------- MODULE SessionLockProofs -------------------------
(***************************************************************************)
(* TLAPS proofs about SessionLock, for any callers and sessions.           *)
(***************************************************************************)
EXTENDS SessionLock, TLAPS

\* The empty map satisfies the inductive invariant.
LEMMA LockInitInv == LockInit => LockInv
  BY SessionLockAssumption
  DEF LockInit, LockInv, LockTypeOK, TicketsOrdered, TailIsLast,
      NoTailNoContender, PrevIsPrevious, Contends

\* Each of the three operations preserves it: first the call itself,
LEMMA AcquireInv ==
  ASSUME LockInv, NEW c \in Callers, AcquireLock(c)
  PROVE  LockInv'
<1> DEFINE s == SessionOf[c]
<1>1. s \in Sessions
  BY SessionLockAssumption
<1>2. LockTypeOK'
  BY <1>1 DEF LockInv, LockTypeOK, AcquireLock
<1>3. TicketsOrdered'
  BY DEF LockInv, LockTypeOK, TicketsOrdered, AcquireLock
<1>4. TailIsLast'
  <2> SUFFICES ASSUME NEW t \in Sessions, tail'[t] # None
               PROVE  /\ SessionOf[tail'[t]] = t /\ lk'[tail'[t]] \in {"queued", "held"}
                      /\ \A d \in Callers : SessionOf[d] = t => ticket'[d] <= ticket'[tail'[t]]
    BY DEF TailIsLast, Contends
  <2>1. CASE t = s
    BY <2>1, <1>1 DEF LockInv, LockTypeOK, TicketsOrdered, AcquireLock, Contends
  <2>2. CASE t # s
    BY <2>2, <1>1, SessionLockAssumption
    DEF LockInv, LockTypeOK, TailIsLast, AcquireLock, Contends
  <2> QED BY <2>1, <2>2
<1>5. NoTailNoContender'
  BY <1>1, SessionLockAssumption
  DEF LockInv, LockTypeOK, NoTailNoContender, AcquireLock, Contends
<1>6. PrevIsPrevious'
  <2> SUFFICES ASSUME NEW b \in Callers, NEW d \in Callers,
                      SessionOf[b] = SessionOf[d],
                      lk'[b] # "idle", ticket'[b] < ticket'[d],
                      lk'[b] # "released"
               PROVE  /\ lk'[d] = "queued" /\ prev'[d] # None
                      /\ lk'[prev'[d]] # "idle" /\ SessionOf[prev'[d]] = SessionOf[d]
                      /\ ticket'[b] <= ticket'[prev'[d]] /\ ticket'[prev'[d]] < ticket'[d]
    BY DEF PrevIsPrevious
  <2>1. b # c
    BY DEF LockInv, LockTypeOK, TicketsOrdered, AcquireLock
  <2>2. CASE d = c
    <3>1. tail[s] # None
      BY <2>1, <2>2 DEF LockInv, LockTypeOK, NoTailNoContender, Contends, AcquireLock
    <3>2. /\ tail[s] \in Callers /\ SessionOf[tail[s]] = s /\ Contends(tail[s])
          /\ ticket[b] <= ticket[tail[s]]
      BY <3>1, <2>2, <1>1 DEF LockInv, LockTypeOK, TailIsLast
    <3>3. tail[s] # c
      BY <3>2 DEF Contends, AcquireLock
    <3> QED
      BY <2>1, <2>2, <3>1, <3>2, <3>3
      DEF LockInv, LockTypeOK, TicketsOrdered, AcquireLock, Contends
  <2>3. CASE d # c
    BY <2>1, <2>3 DEF LockInv, LockTypeOK, TicketsOrdered, PrevIsPrevious, AcquireLock
  <2> QED BY <2>2, <2>3
<1> QED BY <1>2, <1>3, <1>4, <1>5, <1>6 DEF LockInv

\* ... then the grant, which comes after released callers only,
LEMMA GrantInv ==
  ASSUME LockInv, NEW c \in Callers, GrantLock(c)
  PROVE  LockInv'
<1>1. \A b \in Callers : /\ SessionOf[b] = SessionOf[c]
                         /\ lk[b] # "idle" /\ ticket[b] < ticket[c]
                         => lk[b] = "released"
  BY DEF LockInv, LockTypeOK, TicketsOrdered, PrevIsPrevious, GrantLock, Turn
<1>2. LockTypeOK' /\ TicketsOrdered'
  BY DEF LockInv, LockTypeOK, TicketsOrdered, GrantLock, Turn
<1>3. TailIsLast' /\ NoTailNoContender'
  BY DEF LockInv, LockTypeOK, TailIsLast, NoTailNoContender, Contends, GrantLock, Turn
<1>4. PrevIsPrevious'
  BY <1>1 DEF LockInv, LockTypeOK, PrevIsPrevious, GrantLock, Turn
<1> QED BY <1>2, <1>3, <1>4 DEF LockInv

\* ... and the release, which keeps the entry of a later caller.
LEMMA ReleaseInv ==
  ASSUME LockInv, NEW c \in Callers, ReleaseLock(c)
  PROVE  LockInv'
<1>1. LockTypeOK' /\ TicketsOrdered'
  BY SessionLockAssumption DEF LockInv, LockTypeOK, TicketsOrdered, ReleaseLock
<1>2. TailIsLast'
  BY SessionLockAssumption
  DEF LockInv, LockTypeOK, TailIsLast, Contends, ReleaseLock
<1>3. NoTailNoContender'
  <2> SUFFICES ASSUME NEW d \in Callers, tail'[SessionOf[d]] = None
               PROVE  ~(lk'[d] \in {"queued", "held"})
    BY DEF NoTailNoContender, Contends
  <2>1. CASE tail[SessionOf[d]] = None
    BY <2>1 DEF LockInv, LockTypeOK, NoTailNoContender, Contends, ReleaseLock
  <2>2. CASE tail[SessionOf[d]] # None
    <3>1. tail[SessionOf[d]] = c /\ SessionOf[c] = SessionOf[d]
      BY <2>2, SessionLockAssumption DEF LockInv, LockTypeOK, TailIsLast, ReleaseLock
    <3>2. ticket[d] <= ticket[c]
      BY <2>2, <3>1, SessionLockAssumption DEF LockInv, LockTypeOK, TailIsLast
    <3>3. CASE d = c
      BY <3>3 DEF LockInv, LockTypeOK, ReleaseLock
    <3>4. CASE d # c /\ lk[d] # "idle"
      <4>1. ticket[d] < ticket[c]
        BY <3>2, <3>4 DEF LockInv, LockTypeOK, TicketsOrdered
      <4>2. lk[d] = "released"
        BY <4>1, <3>1, <3>4 DEF LockInv, PrevIsPrevious, ReleaseLock
      <4> QED BY <4>2, <3>4 DEF LockInv, LockTypeOK, ReleaseLock
    <3>5. CASE lk[d] = "idle"
      BY <3>5 DEF LockInv, LockTypeOK, ReleaseLock
    <3> QED BY <3>3, <3>4, <3>5
  <2> QED BY <2>1, <2>2
<1>4. PrevIsPrevious'
  BY DEF LockInv, LockTypeOK, PrevIsPrevious, ReleaseLock
<1> QED BY <1>1, <1>2, <1>3, <1>4 DEF LockInv

\* Steps that leave the lock alone preserve it, in this module and in those that
\* build on it.
LEMMA LockStutterInv == LockInv /\ UNCHANGED lockVars => LockInv'
  BY DEF LockInv, LockTypeOK, TicketsOrdered, TailIsLast, NoTailNoContender,
         PrevIsPrevious, Contends, lockVars

\* What the invariant says of holders: acquireSessionLock serialises the callers
\* of a session, in the order in which they called.
LEMMA LockInvImplies == LockInv => MutualExclusion /\ Fifo /\ EntryIffContended
<1> SUFFICES ASSUME LockInv PROVE MutualExclusion /\ Fifo /\ EntryIffContended
  OBVIOUS
<1>1. Fifo
  BY DEF LockInv, PrevIsPrevious, Fifo
<1>2. MutualExclusion
  <2> SUFFICES ASSUME NEW c \in Callers, NEW d \in Callers,
                      SessionOf[c] = SessionOf[d], lk[c] = "held", lk[d] = "held"
               PROVE  c = d
    BY DEF MutualExclusion
  <2>1. ~(ticket[c] < ticket[d]) /\ ~(ticket[d] < ticket[c])
    BY <1>1 DEF Fifo
  <2> QED BY <2>1 DEF LockInv, LockTypeOK, TicketsOrdered
<1>3. EntryIffContended
  BY SessionLockAssumption
  DEF LockInv, LockTypeOK, TailIsLast, NoTailNoContender, EntryIffContended
<1> QED BY <1>1, <1>2, <1>3

LEMMA LockInvHolds == LockSpec => []LockInv
<1>1. LockInv /\ [LockNext]_lockVars => LockInv'
  BY AcquireInv, GrantInv, ReleaseInv, LockStutterInv DEF LockNext
<1> QED BY <1>1, LockInitInv, PTL DEF LockSpec

\* No two callers of a session hold its lock at a time, for any callers and sessions,
THEOREM SessionLockCorrect == LockSpec => [](LockInv /\ MutualExclusion)
  BY LockInvHolds, LockInvImplies, PTL

\* ... nobody holds it before one who asked for it earlier has released it,
THEOREM FirstComeFirstServed == LockSpec => []Fifo
  BY LockInvHolds, LockInvImplies, PTL

\* ... and the map has an entry of the session exactly while somebody contends.
THEOREM EntryLifetime == LockSpec => []EntryIffContended
  BY LockInvHolds, LockInvImplies, PTL
=============================================================================
