---------------------------- MODULE SessionLock ----------------------------
(***************************************************************************)
(* The per-session mutex of packages/core/src/run-registry.ts.  It is a    *)
(* chain of promises: acquireSessionLock waits for the promise it finds in *)
(* sessionLocks and leaves its own there, and the release it returns       *)
(* removes the entry only if no later caller has replaced it.  A caller is *)
(* one call of acquireSessionLock, so each acquires once.                  *)
(***************************************************************************)
EXTENDS Naturals

CONSTANTS
    Callers,      \* calls of acquireSessionLock
    Sessions,     \* session ids
    SessionOf,    \* the session id each caller locks
    None          \* no entry in sessionLocks, no predecessor

ASSUME SessionLockAssumption ==
    /\ SessionOf \in [Callers -> Sessions]
    /\ None \notin Callers

VARIABLES
    tail,         \* sessionLocks: the caller whose promise is stored, or None
    prev,         \* the caller whose promise `previous` is, or None if resolved
    lk,           \* where each caller is
    ticket,       \* history: order of the calls, 0 before the call
    clock         \* history: number of calls so far

lockVars == <<tail, prev, lk, ticket, clock>>

\* All callers of c's session that have called and not yet released.
Contends(c) == lk[c] \in {"queued", "held"}

\* Mutant: whoever finds the session free goes first.
TurnUnordered(c) ==
    lk[c] = "queued" /\ ~\E d \in Callers : SessionOf[d] = SessionOf[c] /\ lk[d] = "held"

\* `previous` is resolved.
Turn(c) == lk[c] = "queued" /\ (prev[c] # None => lk[prev[c]] = "released")

-----------------------------------------------------------------------------
LockInit ==
    /\ tail   = [s \in Sessions |-> None]
    /\ prev   = [c \in Callers |-> None]
    /\ lk     = [c \in Callers |-> "idle"]
    /\ ticket = [c \in Callers |-> 0]
    /\ clock  = 0

\* acquireSessionLock up to its return of `previous.then(...)`.
AcquireLock(c) ==
    /\ lk[c] = "idle"
    /\ prev' = [prev EXCEPT ![c] = tail[SessionOf[c]]]
    /\ tail' = [tail EXCEPT ![SessionOf[c]] = c]
    /\ lk' = [lk EXCEPT ![c] = "queued"]
    /\ clock' = clock + 1
    /\ ticket' = [ticket EXCEPT ![c] = clock + 1]

\* The awaited promise resolves and the caller goes on with its release function.
GrantLock(c) ==
    /\ Turn(c)
    /\ lk' = [lk EXCEPT ![c] = "held"]
    /\ UNCHANGED <<tail, prev, ticket, clock>>

\* Mutant: release drops the entry whoever's it is.
ReleaseAlways(c) ==
    /\ lk[c] = "held"
    /\ tail' = [tail EXCEPT ![SessionOf[c]] = None]
    /\ lk' = [lk EXCEPT ![c] = "released"]
    /\ UNCHANGED <<prev, ticket, clock>>

\* Mutant: release leaves the entry behind.
ReleaseLeaks(c) ==
    /\ lk[c] = "held"
    /\ lk' = [lk EXCEPT ![c] = "released"]
    /\ UNCHANGED <<tail, prev, ticket, clock>>

\* release()
ReleaseLock(c) ==
    /\ lk[c] = "held"
    /\ tail' = [tail EXCEPT ![SessionOf[c]] = IF @ = c THEN None ELSE @]
    /\ lk' = [lk EXCEPT ![c] = "released"]
    /\ UNCHANGED <<prev, ticket, clock>>

LockNext == \E c \in Callers : AcquireLock(c) \/ GrantLock(c) \/ ReleaseLock(c)

LockSpec == LockInit /\ [][LockNext]_lockVars

-----------------------------------------------------------------------------
\* Types of the lock's state.
LockTypeOK ==
    /\ tail \in [Sessions -> Callers \cup {None}]
    /\ prev \in [Callers -> Callers \cup {None}]
    /\ lk \in [Callers -> {"idle", "queued", "held", "released"}]
    /\ ticket \in [Callers -> Nat]
    /\ clock \in Nat

\* At most one caller per session is between its grant and its release, although
\* releases and new acquisitions rewrite the same map entry.
MutualExclusion ==
    \A c, d \in Callers :
        /\ SessionOf[c] = SessionOf[d]
        /\ lk[c] = "held" /\ lk[d] = "held"
        => c = d

\* First come, first served: a caller holds the lock only when every caller that
\* called before it for the session has released.
Fifo ==
    \A c, d \in Callers :
        /\ SessionOf[c] = SessionOf[d]
        /\ lk[c] # "idle" /\ ticket[c] < ticket[d]
        /\ lk[d] \in {"held", "released"}
        => lk[c] = "released"

\* The map entry of a session goes when its queue drains ("we also delete the
\* chain entry when its tail resolves"), and never while somebody waits.
EntryIffContended ==
    \A s \in Sessions :
        tail[s] # None <=> \E c \in Callers : SessionOf[c] = s /\ Contends(c)

-----------------------------------------------------------------------------
\* The inductive invariant behind the properties above.

\* Tickets number the calls.
TicketsOrdered ==
    /\ \A c \in Callers : ticket[c] <= clock /\ (lk[c] = "idle" <=> ticket[c] = 0)
    /\ \A c, d \in Callers : lk[c] # "idle" /\ ticket[c] = ticket[d] => c = d

\* A stored entry is the last caller of the session and still contends.
TailIsLast ==
    \A s \in Sessions :
        tail[s] # None =>
            /\ SessionOf[tail[s]] = s /\ Contends(tail[s])
            /\ \A c \in Callers : SessionOf[c] = s => ticket[c] <= ticket[tail[s]]

\* No entry: everybody who called has released.
NoTailNoContender ==
    \A c \in Callers : tail[SessionOf[c]] = None => ~Contends(c)

\* A caller's predecessor is the previous call of the session, and one that found
\* no entry, or whose turn has come, comes after released callers only.
PrevIsPrevious ==
    \A c, d \in Callers :
        /\ SessionOf[c] = SessionOf[d]
        /\ lk[c] # "idle" /\ ticket[c] < ticket[d]
        => \/ lk[c] = "released"
           \/ /\ lk[d] = "queued" /\ prev[d] # None
              /\ lk[prev[d]] # "idle" /\ SessionOf[prev[d]] = SessionOf[d]
              /\ ticket[c] <= ticket[prev[d]] /\ ticket[prev[d]] < ticket[d]

LockInv ==
    LockTypeOK /\ TicketsOrdered /\ TailIsLast /\ NoTailNoContender /\ PrevIsPrevious
=============================================================================
