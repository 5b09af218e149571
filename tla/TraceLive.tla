----------------------------- MODULE TraceLive ------------------------------
(* The trace registry of a worker, for one trace: spans are kept while they    *)
(* are active, buffered when they end and written in batches; viewers of the   *)
(* trace get its events live, or what the store has once it is no longer known. *)
EXTENDS Naturals, Sequences, FiniteSets

CONSTANTS
  Spans,         \* spans of the trace
  ToolSpans,     \* the ones of tool calls, which may be dropped
  Viewers,       \* GET /traces/:id/stream
  FlushSize,     \* ended spans that are written at once
  MaxBuffer,     \* spans held, beyond which tool spans are dropped
  MaxFlushFaults \* bound: batches and summaries the store refuses

ASSUME TraceAssumption == ToolSpans \subseteq Spans

VARIABLES
  span,        \* span -> "none", "active", "dropped" or "ended"
  pending,     \* ended spans not written yet
  flushTimer,
  batches,     \* batches the store works on
  spansStored, spansLost,
  trace,       \* "registered" or "done"
  summary,     \* "none", "writing", "stored" or "lost"
  sent,        \* the events of the trace, in order
  viewer,      \* viewer -> its state
  from,        \* viewer -> length of sent when it subscribed
  liveQueue,   \* viewer -> events it has not read
  shown,       \* viewer -> events it has read
  flushFaults

traceVars == <<span, pending, flushTimer, batches, spansStored, spansLost, trace,
               summary, sent, viewer, from, liveQueue, shown, flushFaults>>

StoreSide == <<batches, spansStored, spansLost, summary, flushFaults>>
Active == {s \in Spans : span[s] = "active"}
Subscribed == {v \in Viewers : viewer[v] = "live"}

TraceInit ==
  /\ span = [s \in Spans |-> "none"]
  /\ pending = {}
  /\ flushTimer = FALSE
  /\ batches = {}
  /\ spansStored = {}
  /\ spansLost = {}
  /\ trace = "registered"
  /\ summary = "none"
  /\ sent = <<>>
  /\ viewer = [v \in Viewers |-> "idle"]
  /\ from = [v \in Viewers |-> 0]
  /\ liveQueue = [v \in Viewers |-> <<>>]
  /\ shown = [v \in Viewers |-> <<>>]
  /\ flushFaults = 0

Broadcast(event) ==
  /\ sent' = Append(sent, event)
  /\ liveQueue' = [v \in Viewers |-> IF v \in Subscribed THEN Append(liveQueue[v], event)
                                     ELSE liveQueue[v]]

\* scheduleFlush, at once: the timer is cleared and the buffer handed to the store.
FlushNow(spans) ==
  /\ pending' = {}
  /\ batches' = IF spans = {} THEN batches ELSE batches \cup {spans}
  /\ flushTimer' = FALSE

\* spanStart: tool spans beyond the buffer are dropped.
SpanStart(s) ==
  /\ span[s] = "none"
  /\ IF s \in ToolSpans /\ Cardinality(Active \cup pending) >= MaxBuffer
     THEN span' = [span EXCEPT ![s] = "dropped"] /\ UNCHANGED <<sent, liveQueue>>
     ELSE span' = [span EXCEPT ![s] = "active"] /\ Broadcast([start |-> s])
  /\ UNCHANGED <<pending, flushTimer, trace, viewer, from, shown, StoreSide>>

\* A mutant: only a full buffer is written.
SpanEndUntimed(s) ==
  /\ span[s] = "active"
  /\ span' = [span EXCEPT ![s] = "ended"]
  /\ LET spans == pending \cup {s} IN
     IF Cardinality(spans) >= FlushSize THEN FlushNow(spans)
     ELSE pending' = spans /\ UNCHANGED <<batches, flushTimer>>
  /\ Broadcast([end |-> s])
  /\ UNCHANGED <<spansStored, spansLost, trace, summary, viewer, from, shown, flushFaults>>

\* spanEnd: into the buffer, which is written when full or when its timer fires.
SpanEnd(s) ==
  /\ span[s] = "active"
  /\ span' = [span EXCEPT ![s] = "ended"]
  /\ LET spans == pending \cup {s} IN
     IF Cardinality(spans) >= FlushSize THEN FlushNow(spans)
     ELSE pending' = spans /\ flushTimer' = TRUE /\ UNCHANGED batches
  /\ Broadcast([end |-> s])
  /\ UNCHANGED <<spansStored, spansLost, trace, summary, viewer, from, shown, flushFaults>>

FlushDue ==
  /\ flushTimer
  /\ FlushNow(pending)
  /\ UNCHANGED <<span, spansStored, spansLost, trace, summary, sent, viewer, from, liveQueue, shown, flushFaults>>

BatchLands(spans) ==
  /\ batches' = batches \ {spans}
  /\ spansStored' = spansStored \cup spans
  /\ UNCHANGED <<span, pending, flushTimer, spansLost, trace, summary, sent, viewer, from, liveQueue, shown, flushFaults>>

\* The store throws: the batch is gone.
BatchThrows(spans) ==
  /\ flushFaults < MaxFlushFaults
  /\ flushFaults' = flushFaults + 1
  /\ batches' = batches \ {spans}
  /\ spansLost' = spansLost \cup spans
  /\ UNCHANGED <<span, pending, flushTimer, spansStored, trace, summary, sent, viewer, from, liveQueue, shown>>

SummaryWritten(ok) ==
  /\ summary = "writing"
  /\ summary' = IF ok THEN "stored" ELSE "lost"
  /\ flushFaults' = IF ok THEN flushFaults ELSE flushFaults + 1
  /\ flushFaults' <= MaxFlushFaults
  /\ UNCHANGED <<span, pending, flushTimer, batches, spansStored, spansLost, trace, sent, viewer, from, liveQueue, shown>>

\* A mutant: the viewers are dismissed before the last event goes out.
TraceDoneFirst ==
  /\ trace = "registered"
  /\ trace' = "done"
  /\ summary' = "writing"
  /\ sent' = Append(sent, [done |-> "trace"])
  /\ viewer' = [v \in Viewers |-> IF v \in Subscribed THEN "closed" ELSE viewer[v]]
  /\ FlushNow(pending)
  /\ UNCHANGED <<span, spansStored, spansLost, from, liveQueue, shown, flushFaults>>

\* traceDone, when the run's executor is over; spans of child runs may come later.
TraceDone ==
  /\ trace = "registered"
  /\ trace' = "done"
  /\ summary' = "writing"
  /\ Broadcast([done |-> "trace"])
  /\ viewer' = [v \in Viewers |-> IF v \in Subscribed THEN "closed" ELSE viewer[v]]
  /\ FlushNow(pending)
  /\ UNCHANGED <<span, spansStored, spansLost, from, shown, flushFaults>>

\* GET /traces/:id/stream: live while the trace is registered or has active spans.
View(v) ==
  /\ viewer[v] = "idle"
  /\ viewer' = [viewer EXCEPT ![v] = IF trace = "registered" \/ Active # {} THEN "live"
                                     ELSE IF summary = "stored" THEN "snapshot" ELSE "unknown"]
  /\ from' = [from EXCEPT ![v] = Len(sent)]
  /\ UNCHANGED <<span, pending, flushTimer, trace, sent, liveQueue, shown, StoreSide>>

\* The stream takes the next event; when there is none and it was dismissed it ends.
ViewerReads(v) ==
  /\ viewer[v] \in {"live", "closed"}
  /\ IF liveQueue[v] # <<>>
     THEN /\ shown' = [shown EXCEPT ![v] = Append(@, Head(liveQueue[v]))]
          /\ liveQueue' = [liveQueue EXCEPT ![v] = Tail(@)]
          /\ UNCHANGED viewer
     ELSE /\ viewer[v] = "closed"
          /\ viewer' = [viewer EXCEPT ![v] = "ended"]
          /\ UNCHANGED <<shown, liveQueue>>
  /\ UNCHANGED <<span, pending, flushTimer, trace, sent, from, StoreSide>>

TraceStep == FlushDue \/ \E spans \in batches : BatchLands(spans) \/ BatchThrows(spans)
SpanOver == TraceDone \/ \E s \in Spans : SpanEnd(s)

TraceNext ==
  \/ \E s \in Spans : SpanStart(s)
  \/ SpanOver
  \/ TraceStep
  \/ \E ok \in BOOLEAN : SummaryWritten(ok)
  \/ \E v \in Viewers : View(v) \/ ViewerReads(v)

TraceSpec == TraceInit /\ [][TraceNext]_traceVars

-----------------------------------------------------------------------------
(* Properties. *)

\* A viewer sees every event of the trace since it came, once and in order, and
\* one that is dismissed sees the end of the trace as its last event.
ViewersSeeAll ==
  \A v \in Viewers :
    LET got == shown[v] \o liveQueue[v] IN
    /\ viewer[v] = "live" => got = SubSeq(sent, from[v] + 1, Len(sent))
    /\ viewer[v] \in {"closed", "ended"} =>
         /\ got = SubSeq(sent, from[v] + 1, from[v] + Len(got))
         /\ got # <<>>
         /\ got[Len(got)] = [done |-> "trace"]

\* Every span that ends reaches the store, or is lost with a batch the store
\* refused, and none waits for ever in the buffer; every viewer that came before
\* the trace was done gets to the end of its stream.
TraceSettles ==
  /\ \A s \in Spans : span[s] = "ended" ~> s \in spansStored \cup spansLost
  /\ \A v \in Viewers : viewer[v] = "live" /\ trace = "registered" ~> viewer[v] = "ended"
=============================================================================
