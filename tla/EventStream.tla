----------------------------- MODULE EventStream -----------------------------
(* The multiplexed event stream of one root run: emit and subscribe in        *)
(* packages/core/src/run-registry.ts.  An event is numbered by its place in   *)
(* log.  The replay buffer is the array of the last BufferSize events; a      *)
(* reader that replays iterates over that array while emit pushes to and      *)
(* shifts it.  The queue of a reader holds what was emitted since it          *)
(* subscribed and not read yet.                                               *)
EXTENDS Naturals, Sequences

CONSTANTS
  Readers,      \* the calls of subscribe on this root
  BufferSize    \* replayBufferSize

ASSUME EventStreamAssumption == BufferSize \in Nat \ {0}

VARIABLES
  root,      \* the root run: running, ended (terminal, resident) or gone (evicted)
  log,       \* the events emitted so far
  closing,   \* the microtask that closes the subscribers is pending
  reader     \* the generators returned by subscribe, with what they delivered

streamVars == <<root, log, closing, reader>>

Phases == {"away", "replay", "live", "ended"}

Reader == [
  pc : Phases,
  since : Nat,       \* the sequence number it resumes after, 0 for none
  pos : Nat,         \* index in the replay array of the next event to look at
  next : Nat,        \* the head of its queue
  closed : BOOLEAN,
  at : Nat,          \* the event delivered last
  last : Nat,        \* the highest event delivered
  overrun : BOOLEAN] \* history: the buffer was shifted past what it still had to replay

StreamTypeOK ==
  /\ root \in {"running", "ended", "gone"}
  /\ closing \in BOOLEAN
  /\ reader \in [Readers -> Reader]

StreamInit(created) ==
  /\ root = "running"
  /\ log = <<created>>
  /\ closing = FALSE
  /\ reader = [r \in Readers |->
       [pc |-> "away", since |-> 0, pos |-> 1, next |-> 1, closed |-> FALSE,
        at |-> 0, last |-> 0, overrun |-> FALSE]]

\* The sequence number of the oldest event in the replay buffer.
First(n) == IF n > BufferSize THEN n - BufferSize + 1 ELSE 1

Attached(r) == reader[r].pc \in {"replay", "live"}

\* The events a replaying reader still finds in the array.
ToReplay(r) ==
  {s \in First(Len(log)) + reader[r].pos - 1 .. Len(log) : s > reader[r].since}

Record(e) ==
  /\ log' = Append(log, e)
  /\ reader' = [r \in Readers |->
       [reader[r] EXCEPT !.overrun =
          @ \/ (reader[r].pc = "replay" /\ Len(log) >= BufferSize)]]

Emit(e) ==
  /\ root # "gone"
  /\ Record(e)
  /\ UNCHANGED <<root, closing>>

\* The terminal event of the root, with its change of status just before.
EmitFinal(e) ==
  /\ root = "running"
  /\ root' = "ended"
  /\ Record(e)
  /\ closing' = TRUE

CloseReaders ==
  /\ closing
  /\ closing' = FALSE
  /\ reader' = [r \in Readers |->
       IF Attached(r) THEN [reader[r] EXCEPT !.closed = TRUE] ELSE reader[r]]
  /\ UNCHANGED <<root, log>>

Evict ==
  /\ root = "ended"
  /\ ~closing
  /\ root' = "gone"
  /\ UNCHANGED <<log, closing, reader>>

Subscribe(r, since) ==
  /\ root # "gone"
  /\ reader[r].pc = "away"
  /\ reader' = [reader EXCEPT ![r] =
       [pc |-> "replay", since |-> since, pos |-> 1, next |-> Len(log) + 1,
        closed |-> FALSE, at |-> @.at, last |-> @.last,
        overrun |-> @.overrun \/ First(Len(log)) > since + 1]]
  /\ UNCHANGED <<root, log, closing>>

Highest(a, b) == IF a > b THEN a ELSE b

YieldReplayed(r, s) ==
  /\ reader[r].pc = "replay"
  /\ s \in ToReplay(r)
  /\ \A t \in ToReplay(r) : s <= t
  /\ reader' = [reader EXCEPT ![r].pos = s - First(Len(log)) + 2,
                              ![r].at = s, ![r].last = Highest(@, s)]
  /\ UNCHANGED <<root, log, closing>>

\* Mutant of ReplayEnds: a late subscriber waits for live events.
ReplayEndsLive(r) ==
  /\ reader[r].pc = "replay"
  /\ ToReplay(r) = {}
  /\ reader' = [reader EXCEPT ![r].pc = "live"]
  /\ UNCHANGED <<root, log, closing>>

ReplayEnds(r) ==
  /\ reader[r].pc = "replay"
  /\ ToReplay(r) = {}
  /\ reader' = [reader EXCEPT ![r].pc = IF root = "running" THEN "live" ELSE "ended"]
  /\ UNCHANGED <<root, log, closing>>

YieldQueued(r, s) ==
  /\ reader[r].pc = "live"
  /\ s = reader[r].next
  /\ s <= Len(log)
  /\ reader' = [reader EXCEPT ![r].next = s + 1,
                              ![r].at = s, ![r].last = Highest(@, s)]
  /\ UNCHANGED <<root, log, closing>>

\* Mutant of QueueEnds: a closed subscriber drops its queue.
QueueDropped(r) ==
  /\ reader[r].pc = "live"
  /\ reader[r].closed
  /\ reader' = [reader EXCEPT ![r].pc = "ended"]
  /\ UNCHANGED <<root, log, closing>>

QueueEnds(r) ==
  /\ reader[r].pc = "live"
  /\ reader[r].next > Len(log)
  /\ reader[r].closed
  /\ reader' = [reader EXCEPT ![r].pc = "ended"]
  /\ UNCHANGED <<root, log, closing>>

\* The generator hands event s to its consumer, which asked for the next one.
Yield(r, s) == YieldReplayed(r, s) \/ YieldQueued(r, s)

Return(r) == ReplayEnds(r) \/ QueueEnds(r)

\* The consumer breaks off; the generator's finally unsubscribes it.
BreakOff(r, phase) ==
  /\ Attached(r)
  /\ reader' = [reader EXCEPT ![r].pc = phase]
  /\ UNCHANGED <<root, log, closing>>
=============================================================================
