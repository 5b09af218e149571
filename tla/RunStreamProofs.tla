--------------------------- MODULE RunStreamProofs ---------------------------
(* Proofs about RunStream: what the application, the webhook's receiver and   *)
(* the readers of a run are told agrees with the run, for a buffer, a number  *)
(* of events, of attempts and of calls of any size.                           *)
EXTENDS RunStream, Integers, TLAPS

Event == [kind : {"spawn", "reply", "request", "final"}, call : Calls \cup {None}]

\* A request carries the call it is for.
LogOK == \A s \in 1 .. Len(log) : log[s].kind = "request" => log[s].call \in Calls

TypeInv == TypeOK /\ LogOK

-----------------------------------------------------------------------------
\* A call and its broker entry agree; a deadline runs only for a pending entry.
CallOK(q) ==
  /\ request[q] = "none" => outcome[q] = "none"
  /\ request[q] = "pending" <=> outcome[q] = "waiting"
  /\ request[q] = "submitted" => outcome[q] = "answer"
  /\ request[q] \in {"expired", "cancelled"} => outcome[q] \in {"timeout", "cancel"}
  /\ q \in timer => request[q] = "pending"
  /\ told[q] \cap {"accepted", "duplicate"} # {} => outcome[q] = "answer"
  /\ "expired" \in told[q] => outcome[q] \in {"timeout", "cancel"}

ToolInv == \A q \in Calls : CallOK(q)

-----------------------------------------------------------------------------
\* The log has its final event exactly when the root is no longer running, and one
\* only.  What a reader that was not overrun gets next is at most one event ahead.
ReaderOK(r) ==
  /\ reader[r].at <= reader[r].last /\ reader[r].last <= Len(log)
  /\ reader[r].next <= Len(log) + 1
  /\ reader[r].closed => root # "running"
  /\ reader[r].pc = "replay" => reader[r].since <= reader[r].last
  /\ ~reader[r].overrun /\ reader[r].pc = "replay" =>
       First(Len(log)) + reader[r].pos <= reader[r].last + 2
  /\ ~reader[r].overrun /\ reader[r].pc = "live" => reader[r].next <= reader[r].last + 1

StreamInv ==
  /\ \A s, t \in FinalSeq : s = t
  /\ root = "running" <=> FinalSeq = {}
  /\ closing => root # "running"
  /\ \A r \in Readers : ReaderOK(r)

-----------------------------------------------------------------------------
\* An event the forwarder dispatches, and the ones it has a row for.
Reported(s) == s \in 1 .. Len(log) /\ log[s].kind \in {"reply", "final"}
HasRow(s)   == RowsOf(s) # {}

\* The forwarder before it subscribes, with its dispatch, and at its end.
ForwarderOK ==
  /\ hook = "off" => /\ reader["main"].pc = "away"
                     /\ reader["main"].at = 0 /\ reader["main"].last = 0
  /\ hook = "busy" <=> job.step # "none"
  /\ mode # "durable" => hook \in {"off", "next", "stopped"}
  /\ hook = "busy" => /\ job.event = reader["main"].at /\ Reported(job.event)
                      /\ job.last <=> IsFinal(job.event)
  /\ hook = "told" => IsFinal(reader["main"].at)

\* Rows are of events that were dispatched.  The row of the event that is being
\* delivered is the last one, and none of the others is pending unless the
\* forwarder stopped.
RowsSettle ==
  /\ \A i \in DOMAIN rows : Reported(rows[i].event)
  /\ job.step \notin {"none", "insert"} => rows # <<>> /\ rows[Len(rows)].event = job.event
  /\ \A i \in DOMAIN rows : rows[i].status = "pending" =>
       \/ i = Len(rows) /\ job.step \notin {"none", "insert"}
       \/ hook = "stopped"
  /\ job.step = "settle" => job.status # "pending"
  /\ hook = "told" => rows # <<>> /\ IsFinal(rows[Len(rows)].event)

\* A forwarder that was not overrun has a row for all it has read, and so for all
\* that is before an event with a row; the first row of an event is before those
\* of all later events.
RowsComplete ==
  /\ mode = "durable" /\ hook # "stopped" =>
       \A s \in 1 .. reader["main"].last :
         Reported(s) => HasRow(s) \/ (job.step = "insert" /\ job.event = s)
  /\ \A j \in DOMAIN rows : \A s \in 1 .. Len(log) :
       s < rows[j].event /\ Reported(s) => HasRow(s)
  /\ \A s \in 1 .. Len(log) :
       HasRow(s) => \E i \in RowsOf(s) : \A j \in DOMAIN rows : rows[j].event > s => i < j

HookInv ==
  /\ ForwarderOK
  /\ RowsSettle
  /\ ~reader["main"].overrun => RowsComplete

-----------------------------------------------------------------------------
(* What a step of the run may do to each of its three parts. *)

Requested(q) == [kind |-> "request", call |-> q]

\* The consumer of r has the final event, or has told the outcome.
Over(r) == IsFinal(reader[r].at) \/ (r = "main" /\ hook = "told")

StreamMove ==
  \/ UNCHANGED streamVars
  \/ Emit(Plain("reply"))
  \/ \E q \in Calls : Emit(Requested(q))
  \/ EmitFinal(Plain("final"))
  \/ CloseReaders
  \/ Evict
  \/ \E r \in Readers : Subscribe(r, 0) \/ Subscribe(r, reader[r].at)
  \/ \E r \in Readers : \E s \in 1 .. Len(log) : Yield(r, s)
  \/ \E r \in Readers : Return(r)
  \/ \E r \in Readers : BreakOff(r, "away") \/ (Over(r) /\ BreakOff(r, "ended"))

ToolMove ==
  \/ UNCHANGED toolVars
  \/ \E q \in Calls : DispatchCall(q, aborted) \/ Expire(q) \/ Cleanup(q)
  \/ AbortCalls(Calls)
  \/ \E q \in Calls, heard \in BOOLEAN : Submit(q, heard)

HookMove ==
  \/ UNCHANGED hookVars
  \/ hook = "off" /\ hook' = "next" /\ UNCHANGED <<job, rows, faults>>
  \/ hook = "next" /\ hook' = "stopped" /\ UNCHANGED <<job, rows, faults>>
  \/ \E s \in 1 .. Len(log) : Dispatch(s, IsFinal(s))
  \/ HookStep

\* Every step of the run is a move, or none, of its stream.
LEMMA StreamMoves == [Next]_vars => StreamMove
<1> SUFFICES ASSUME [Next]_vars PROVE StreamMove
  OBVIOUS
<1>r. "main" \in Readers /\ "get" \in Readers
  BY RunStreamAssumption
<1>1. CASE UNCHANGED vars
  BY <1>1 DEF vars, StreamMove
<1>2. CASE EmitReply
  BY <1>2 DEF EmitReply, StreamMove
<1>3. ASSUME NEW q \in Calls, CallTool(q) PROVE StreamMove
  BY <1>3 DEF CallTool, StreamMove, Requested
<1>4. ASSUME NEW q \in Calls, RequestExpires(q) \/ RequestForgotten(q) PROVE StreamMove
  BY <1>4 DEF RequestExpires, RequestForgotten, StreamMove
<1>5. CASE RootEnds
  BY <1>5 DEF RootEnds, StreamMove
<1>6. CASE Registry
  BY <1>6 DEF Registry, StreamMove
<1>7. CASE Cancel \/ TakeRequest \/ Disconnect \/ Answer \/ AnswerLost \/ HookWorks
  BY <1>7 DEF Cancel, TakeRequest, Disconnect, Answer, AnswerLost, HookWorks, StreamMove
<1>8. CASE MainSubscribes
  BY <1>8, <1>r DEF MainSubscribes, StreamMove
<1>9. ASSUME NEW s \in 1 .. Len(log), HookTakes(s) \/ AttachedTakes(s) PROVE StreamMove
  BY <1>9, <1>r DEF HookTakes, AttachedTakes, StreamMove
<1>10. CASE HookReturns
  BY <1>10, <1>r DEF HookReturns, StreamMove, Over
<1>11. CASE AttachedReturns
  BY <1>11, <1>r DEF AttachedReturns, StreamMove, Over
<1>12. CASE MainOver
  BY <1>12, <1>r DEF MainOver, StreamMove
<1>13. CASE GetSubscribes
  BY <1>13, <1>r DEF GetSubscribes, StreamMove
<1>14. CASE GetTakes
  BY <1>14, <1>r DEF GetTakes, StreamMove
<1>15. CASE GetBreaksOff
  BY <1>15, <1>r DEF GetBreaksOff, StreamMove
<1> QED
  BY <1>1, <1>2, <1>3, <1>4, <1>5, <1>6, <1>7, <1>8, <1>9, <1>10, <1>11, <1>12, <1>13,
     <1>14, <1>15 DEF Next, Main, Get

\* ... of its tool calls ...
LEMMA ToolMoves == TypeInv /\ [Next]_vars => ToolMove
<1> SUFFICES ASSUME TypeInv, [Next]_vars PROVE ToolMove
  OBVIOUS
<1>c. client.call \in Calls \cup {None}
  BY DEF TypeInv, TypeOK
<1>1. CASE UNCHANGED toolVars
  BY <1>1 DEF ToolMove
<1>2. CASE EmitReply \/ RootEnds \/ Registry \/ TakeRequest \/ GetBreaksOff
  BY <1>2 DEF EmitReply, RootEnds, Registry, TakeRequest, GetBreaksOff, ToolMove
<1>3. ASSUME NEW q \in Calls, CallTool(q) PROVE ToolMove
  BY <1>3 DEF CallTool, ToolMove
<1>4. ASSUME NEW q \in Calls, RequestExpires(q) \/ RequestForgotten(q) PROVE ToolMove
  BY <1>4 DEF RequestExpires, RequestForgotten, ToolMove
<1>5. CASE Cancel
  BY <1>5 DEF Cancel, ToolMove
<1>6. CASE Disconnect
  BY <1>6 DEF Disconnect, ToolMove, toolVars
<1>7. CASE Answer
  BY <1>7, <1>c DEF Answer, ToolMove
<1>8. CASE AnswerLost
  BY <1>8, <1>c DEF AnswerLost, ToolMove
<1>9. CASE Main
  BY <1>9 DEF Main, MainSubscribes, HookTakes, AttachedTakes, HookWorks, HookReturns,
              AttachedReturns, MainOver, ToolMove
<1>10. CASE Get
  BY <1>10 DEF Get, GetSubscribes, GetTakes, ToolMove
<1> QED
  BY <1>1, <1>2, <1>3, <1>4, <1>5, <1>6, <1>7, <1>8, <1>9, <1>10 DEF Next, vars, toolVars

\* ... and of its forwarder.
LEMMA HookMoves == [Next]_vars => HookMove
<1> SUFFICES ASSUME [Next]_vars PROVE HookMove
  OBVIOUS
<1>1. CASE UNCHANGED hookVars
  BY <1>1 DEF HookMove
<1>2. CASE EmitReply \/ RootEnds \/ Registry \/ TakeRequest \/ GetBreaksOff \/ Cancel
           \/ Disconnect \/ Answer \/ AnswerLost
  BY <1>2 DEF EmitReply, RootEnds, Registry, TakeRequest, GetBreaksOff, Cancel, Disconnect,
              Answer, AnswerLost, HookMove
<1>3. ASSUME NEW q \in Calls, CallTool(q) \/ RequestExpires(q) \/ RequestForgotten(q)
      PROVE  HookMove
  BY <1>3 DEF CallTool, RequestExpires, RequestForgotten, HookMove
<1>4. CASE MainSubscribes
  BY <1>4 DEF MainSubscribes, HookMove
<1>9. CASE MainOver
  <2>1. CASE reader'["main"].pc = "ended"
    BY <1>9, <2>1 DEF MainOver, HookMove
  <2>2. CASE reader'["main"].pc # "ended"
    BY <1>9, <2>2 DEF MainOver, HookMove, hookVars
  <2> QED
    BY <2>1, <2>2
<1>5. CASE AttachedReturns \/ HookReturns \/ HookWorks
  BY <1>5 DEF AttachedReturns, HookReturns, HookWorks, HookMove
<1>6. ASSUME NEW s \in 1 .. Len(log), HookTakes(s) PROVE HookMove
  BY <1>6 DEF HookTakes, HookMove
<1>7. ASSUME NEW s \in 1 .. Len(log), AttachedTakes(s) PROVE HookMove
  BY <1>7 DEF AttachedTakes, HookMove
<1>8. CASE Get
  BY <1>8 DEF Get, GetSubscribes, GetTakes, HookMove
<1> QED
  BY <1>1, <1>2, <1>3, <1>4, <1>5, <1>6, <1>7, <1>8, <1>9 DEF Next, Main, vars, hookVars

-----------------------------------------------------------------------------
(* Types. *)

LEMMA StreamTyped == StreamTypeOK /\ log \in Seq(Event) /\ LogOK /\ StreamMove
                       => StreamTypeOK' /\ log' \in Seq(Event) /\ LogOK'
<1> SUFFICES ASSUME StreamTypeOK, log \in Seq(Event), LogOK, StreamMove
             PROVE  StreamTypeOK' /\ log' \in Seq(Event) /\ LogOK'
  OBVIOUS
<1>r. /\ reader \in [Readers -> Reader] /\ Len(log) \in Nat
      /\ root \in {"running", "ended", "gone"} /\ closing \in BOOLEAN
  BY DEF StreamTypeOK
<1>b. BufferSize \in Nat \ {0}
  BY EventStreamAssumption
<1>f. First(Len(log)) \in Nat \ {0}
  BY <1>r, <1>b DEF First
<1>1. ASSUME NEW e \in Event, e.kind = "request" => e.call \in Calls, Record(e)
      PROVE  reader' \in [Readers -> Reader] /\ log' \in Seq(Event) /\ LogOK'
  <2>1. reader' \in [Readers -> Reader]
    BY <1>1, <1>r DEF Record, Reader
  <2>2. log' \in Seq(Event) /\ Len(log') = Len(log) + 1
    BY <1>1 DEF Record
  <2>3. \A s \in 1 .. Len(log) : log'[s] = log[s]
    BY <1>1 DEF Record
  <2>4. log'[Len(log) + 1] = e
    BY <1>1 DEF Record
  <2> QED
    BY <1>1, <1>r, <2>1, <2>2, <2>3, <2>4 DEF LogOK
<1>2. CASE UNCHANGED streamVars
  BY <1>2 DEF streamVars, StreamTypeOK, LogOK
<1>3. CASE Emit(Plain("reply"))
  <2>1. Plain("reply") \in Event /\ Plain("reply").kind # "request"
    BY DEF Plain, Event
  <2> QED
    BY <1>1, <1>3, <1>r, <2>1 DEF Emit, StreamTypeOK
<1>4. ASSUME NEW q \in Calls, Emit(Requested(q))
      PROVE  StreamTypeOK' /\ log' \in Seq(Event) /\ LogOK'
  <2>1. Requested(q) \in Event /\ Requested(q).call \in Calls
    BY DEF Requested, Event
  <2> QED
    BY <1>1, <1>4, <1>r, <2>1 DEF Emit, StreamTypeOK
<1>5. CASE EmitFinal(Plain("final"))
  <2>1. Plain("final") \in Event /\ Plain("final").kind # "request"
    BY DEF Plain, Event
  <2> QED
    BY <1>1, <1>5, <1>r, <2>1 DEF EmitFinal, StreamTypeOK
<1>6. CASE CloseReaders
  <2>1. reader' \in [Readers -> Reader]
    BY <1>6, <1>r DEF CloseReaders, Reader
  <2> QED
    BY <1>6, <1>r, <2>1 DEF CloseReaders, StreamTypeOK, LogOK
<1>7. CASE Evict
  BY <1>7, <1>r DEF Evict, StreamTypeOK, LogOK
<1>8. ASSUME NEW r \in Readers, NEW n \in Nat, Subscribe(r, n)
      PROVE  StreamTypeOK' /\ log' \in Seq(Event) /\ LogOK'
  <2>1. reader' \in [Readers -> Reader]
    BY <1>8, <1>r, <1>f DEF Subscribe, Reader, Phases
  <2> QED
    BY <1>8, <1>r, <2>1 DEF Subscribe, StreamTypeOK, LogOK
<1>9. ASSUME NEW r \in Readers, NEW s \in 1 .. Len(log), Yield(r, s)
      PROVE  StreamTypeOK' /\ log' \in Seq(Event) /\ LogOK'
  <2>1. s \in Nat /\ s + 1 \in Nat /\ Highest(reader[r].last, s) \in Nat
    BY <1>9, <1>r DEF Highest, Reader
  <2>2. YieldReplayed(r, s) => s - First(Len(log)) + 2 \in Nat
    <3>1. reader[r].pos \in Nat
      BY <1>r DEF Reader
    <3>2. YieldReplayed(r, s) => s \in Int /\ s >= First(Len(log)) + reader[r].pos - 1
      BY <1>f, <1>r, <3>1 DEF YieldReplayed, ToReplay
    <3> QED
      BY <1>f, <3>1, <3>2
  <2>3. YieldReplayed(r, s) => reader' \in [Readers -> Reader]
    <3> SUFFICES ASSUME YieldReplayed(r, s) PROVE reader' \in [Readers -> Reader]
      OBVIOUS
    <3>1. reader[r] \in Reader
      BY <1>r
    <3>2. reader' = [reader EXCEPT ![r] =
            [reader[r] EXCEPT !.pos = s - First(Len(log)) + 2, !.at = s,
                              !.last = Highest(reader[r].last, s)]]
      BY <1>r DEF YieldReplayed
    <3>3. [reader[r] EXCEPT !.pos = s - First(Len(log)) + 2, !.at = s,
                            !.last = Highest(reader[r].last, s)] \in Reader
      BY <2>1, <2>2, <3>1 DEF Reader
    <3> QED
      BY <1>r, <3>2, <3>3
  <2>4. YieldQueued(r, s) => reader' \in [Readers -> Reader]
    <3> SUFFICES ASSUME YieldQueued(r, s) PROVE reader' \in [Readers -> Reader]
      OBVIOUS
    <3>1. reader[r] \in Reader
      BY <1>r
    <3>2. reader' = [reader EXCEPT ![r] =
            [reader[r] EXCEPT !.next = s + 1, !.at = s, !.last = Highest(reader[r].last, s)]]
      BY <1>r DEF YieldQueued
    <3>3. [reader[r] EXCEPT !.next = s + 1, !.at = s,
                            !.last = Highest(reader[r].last, s)] \in Reader
      BY <2>1, <3>1 DEF Reader
    <3> QED
      BY <1>r, <3>2, <3>3
  <2>5. UNCHANGED <<root, log, closing>>
    BY <1>9 DEF Yield, YieldReplayed, YieldQueued
  <2> QED
    BY <1>9, <1>r, <2>3, <2>4, <2>5 DEF Yield, StreamTypeOK, LogOK
<1>10. ASSUME NEW r \in Readers, NEW p \in Phases,
              reader' = [reader EXCEPT ![r].pc = p], UNCHANGED <<root, log, closing>>
       PROVE  StreamTypeOK' /\ log' \in Seq(Event) /\ LogOK'
  <2>1. reader' \in [Readers -> Reader]
    BY <1>10, <1>r DEF Reader
  <2> QED
    BY <1>10, <1>r, <2>1 DEF StreamTypeOK, LogOK
<1>11. ASSUME NEW r \in Readers, Return(r)
       PROVE  StreamTypeOK' /\ log' \in Seq(Event) /\ LogOK'
  BY <1>10, <1>11 DEF Return, ReplayEnds, QueueEnds, Phases
<1>12. ASSUME NEW r \in Readers, NEW p \in {"away", "ended"}, BreakOff(r, p)
       PROVE  StreamTypeOK' /\ log' \in Seq(Event) /\ LogOK'
  BY <1>10, <1>12 DEF BreakOff, Phases
<1>13. \A r \in Readers : reader[r].at \in Nat
  BY <1>r DEF Reader
<1> QED
  BY <1>2, <1>3, <1>4, <1>5, <1>6, <1>7, <1>8, <1>9, <1>11, <1>12, <1>13 DEF StreamMove

LEMMA ToolsTyped == ToolsTypeOK /\ ToolMove => ToolsTypeOK'
<1> SUFFICES ASSUME ToolsTypeOK, ToolMove PROVE ToolsTypeOK'
  OBVIOUS
<1>1. CASE UNCHANGED toolVars
  BY <1>1 DEF toolVars, ToolsTypeOK
<1>2. ASSUME NEW q \in Calls, DispatchCall(q, aborted) PROVE ToolsTypeOK'
  BY <1>2 DEF DispatchCall, ToolsTypeOK
<1>3. ASSUME NEW q \in Calls, Expire(q) PROVE ToolsTypeOK'
  BY <1>3 DEF Expire, Settled, ToolsTypeOK
<1>4. ASSUME NEW q \in Calls, Cleanup(q) PROVE ToolsTypeOK'
  BY <1>4 DEF Cleanup, ToolsTypeOK
<1>5. CASE AbortCalls(Calls)
  BY <1>5 DEF AbortCalls, ToolsTypeOK
<1>6. ASSUME NEW q \in Calls, NEW heard \in BOOLEAN, Submit(q, heard) PROVE ToolsTypeOK'
  <2>1. Reply(q) \in Replies
    BY DEF Reply, Replies
  <2>2. told' \in [Calls -> SUBSET Replies]
    BY <1>6, <2>1 DEF Submit, ToolsTypeOK
  <2> QED
    BY <1>6, <2>2 DEF Submit, Settled, ToolsTypeOK
<1> QED
  BY <1>1, <1>2, <1>3, <1>4, <1>5, <1>6 DEF ToolMove

LEMMA HookTyped == HookTypeOK /\ Len(log) \in Nat /\ HookMove => HookTypeOK'
<1> SUFFICES ASSUME HookTypeOK, Len(log) \in Nat, HookMove PROVE HookTypeOK'
  OBVIOUS
<1>a. MaxAttempts \in Nat \ {0} /\ MaxFaults \in Nat
  BY WebhookDeliveryAssumption
<1> DEFINE Jobs == [step : Steps, event : Nat, last : BOOLEAN, attempt : 0 .. MaxAttempts,
                    status : {"pending", "delivered", "failed"}]
<1>h. /\ hook \in {"off", "next", "busy", "told", "stopped"} /\ job \in Jobs
      /\ rows \in Seq(Row) /\ faults \in 0 .. MaxFaults
  BY DEF HookTypeOK
<1>n. NoJob \in Jobs
  BY <1>a DEF NoJob, Steps
<1>1. CASE UNCHANGED hookVars
  BY <1>1 DEF hookVars, HookTypeOK
<1>2. CASE hook' \in {"next", "stopped"} /\ UNCHANGED <<job, rows, faults>>
  BY <1>2, <1>h DEF HookTypeOK
<1>3. ASSUME NEW s \in 1 .. Len(log), Dispatch(s, IsFinal(s)) PROVE HookTypeOK'
  <2>0. PICK b \in BOOLEAN : b = IsFinal(s)
    BY DEF IsFinal
  <2>1. job' = [NoJob EXCEPT !.step = "insert", !.event = s, !.last = b]
    BY <1>3, <2>0 DEF Dispatch
  <2>2. job' \in Jobs
    <3>1. s \in Nat
      BY <1>3
    <3>2. CASE b = TRUE
      BY <1>n, <2>1, <3>1, <3>2 DEF Steps
    <3>3. CASE b = FALSE
      BY <1>n, <2>1, <3>1, <3>3 DEF Steps
    <3> QED
      BY <3>2, <3>3
  <2> QED
    BY <1>3, <1>h, <2>2 DEF Dispatch, HookTypeOK
<1>4. CASE Insert
  <2>1. job' \in Jobs
    BY <1>4, <1>h DEF Insert, Steps
  <2>2. rows' \in Seq(Row)
    BY <1>4, <1>h DEF Insert, Row
  <2> QED
    BY <1>4, <1>h, <2>1, <2>2 DEF Insert, HookTypeOK
<1>5. ASSUME NEW found \in BOOLEAN, ReadSecret(found) PROVE HookTypeOK'
  <2>1. CASE found
    <3>1. job' = [job EXCEPT !.step = "post", !.attempt = 1] /\ UNCHANGED <<hook, rows, faults>>
      BY <1>5, <2>1 DEF ReadSecret
    <3>2. 1 \in 0 .. MaxAttempts
      BY <1>a
    <3>3. job' \in Jobs
      BY <1>h, <3>1, <3>2 DEF Steps
    <3> QED
      BY <1>h, <3>1, <3>3 DEF HookTypeOK
  <2>2. CASE ~found
    BY <1>5, <1>h, <2>2 DEF ReadSecret, Steps, HookTypeOK
  <2> QED
    BY <2>1, <2>2
<1>6. ASSUME NEW o \in {"success", "retry", "permanent"}, Post(o) PROVE HookTypeOK'
  <2>1. job' \in Jobs
    BY <1>6, <1>h DEF Post, Steps
  <2> QED
    BY <1>6, <1>h, <2>1 DEF Post, HookTypeOK
<1>7. CASE CountAttempt
  <2>1. job.attempt < MaxAttempts => job.attempt + 1 \in 0 .. MaxAttempts
    BY <1>h, <1>a
  <2>2. job' \in Jobs
    BY <1>7, <1>h, <2>1 DEF CountAttempt, Steps
  <2> QED
    BY <1>7, <1>h, <2>2 DEF CountAttempt, HookTypeOK
<1>8. CASE SettleRow
  <2>1. rows' \in Seq(Row)
    <3>1. rows \in [1 .. Len(rows) -> Row] /\ Len(rows) \in Nat
      BY <1>h
    <3>2. \A x \in Row : [x EXCEPT !.status = job.status] \in Row
      BY <1>h DEF Row
    <3>3. rows' \in [1 .. Len(rows) -> Row]
      BY <1>8, <3>1, <3>2 DEF SettleRow
    <3> QED
      BY <3>1, <3>3
  <2> QED
    BY <1>8, <1>h, <1>n, <2>1 DEF SettleRow, HookTypeOK
<1>9. CASE StoreFails
  BY <1>9, <1>h, <1>n, <1>a DEF StoreFails, HookTypeOK
<1> QED
  BY <1>1, <1>2, <1>3, <1>4, <1>5, <1>6, <1>7, <1>8, <1>9 DEF HookMove, HookStep

LEMMA Typed == Spec => []TypeInv
<1>1. Init => TypeInv
  <2> SUFFICES ASSUME Init PROVE TypeInv
    OBVIOUS
  <2>1. StreamTypeOK /\ log = <<Plain("spawn")>>
    BY DEF Init, StreamInit, StreamTypeOK, Reader, Phases
  <2>2. log \in Seq(Event) /\ LogOK
    BY <2>1 DEF Plain, Event, LogOK
  <2>3. HookTypeOK
    BY WebhookDeliveryAssumption DEF Init, HookInit, NoJob, HookTypeOK, Steps
  <2>4. ToolsTypeOK
    BY DEF Init, ToolsInit, ToolsTypeOK
  <2> QED
    <3>1. /\ mode \in Modes /\ aborted \in BOOLEAN /\ resumes \in 0 .. MaxResumes
          /\ conn \in {"open", "closed"} /\ inbox \in Seq(Calls)
      <4>1. inbox = <<>> /\ <<>> \in Seq(Calls)
        BY DEF Init
      <4>2. mode \in Modes /\ aborted = FALSE /\ resumes = 0 /\ conn = "open"
        BY DEF Init
      <4> QED
        <5>1. inbox \in Seq(Calls)
          BY <4>1
        <5>2. resumes \in 0 .. MaxResumes
          BY <4>2, RunStreamAssumption
        <5>3. aborted \in BOOLEAN
          BY <4>2
        <5> QED
          BY <4>2, <5>1, <5>2, <5>3
    <3>2. client \in [call : Calls \cup {None}, posts : 0 .. MaxPosts]
      BY RunStreamAssumption DEF Init
    <3> QED
      BY <2>1, <2>2, <2>3, <2>4, <3>1, <3>2 DEF TypeInv, TypeOK, Event
<1>2. TypeInv /\ [Next]_vars => TypeInv'
  <2> SUFFICES ASSUME TypeInv, [Next]_vars PROVE TypeInv'
    OBVIOUS
  <2>t. /\ StreamTypeOK /\ HookTypeOK /\ ToolsTypeOK /\ log \in Seq(Event) /\ LogOK
        /\ Len(log) \in Nat
    BY DEF TypeInv, TypeOK, Event
  <2>a. /\ mode \in Modes /\ aborted \in BOOLEAN /\ resumes \in 0 .. MaxResumes
        /\ conn \in {"open", "closed"} /\ inbox \in Seq(Calls)
        /\ client \in [call : Calls \cup {None}, posts : 0 .. MaxPosts]
    BY DEF TypeInv, TypeOK
  <2>b. MaxResumes \in Nat /\ MaxPosts \in Nat
    BY RunStreamAssumption
  <2>1. StreamTypeOK' /\ log' \in Seq(Event) /\ LogOK'
    BY <2>t, StreamMoves, StreamTyped
  <2>2. ToolsTypeOK'
    BY <2>t, ToolMoves, ToolsTyped
  <2>3. HookTypeOK'
    BY <2>t, HookMoves, HookTyped
  <2> DEFINE Apps == /\ mode' \in Modes /\ aborted' \in BOOLEAN
                     /\ resumes' \in 0 .. MaxResumes /\ conn' \in {"open", "closed"}
                     /\ inbox' \in Seq(Calls)
                     /\ client' \in [call : Calls \cup {None}, posts : 0 .. MaxPosts]
  <2>4. Apps
    <3>1. CASE UNCHANGED <<mode, aborted, resumes, appVars>>
      BY <3>1, <2>a DEF appVars
    <3>2. CASE Cancel
      BY <3>2, <2>a DEF Cancel, appVars
    <3>3. ASSUME NEW s \in 1 .. Len(log), AttachedTakes(s) PROVE Apps
      <4>1. log[s].kind = "request" => log[s].call \in Calls
        BY <2>t DEF LogOK
      <4> QED
        BY <3>3, <2>a, <4>1 DEF AttachedTakes
    <3>4. CASE GetBreaksOff
      BY <3>4, <2>a, <2>b DEF GetBreaksOff, appVars
    <3>5. CASE TakeRequest
      BY <3>5, <2>a, <2>b DEF TakeRequest
    <3>6. CASE Disconnect
      <4>1. aborted' \in BOOLEAN
        BY <3>6, <2>a DEF Disconnect
      <4>2. UNCHANGED <<mode, resumes, client>> /\ conn' = "closed" /\ inbox' = <<>>
        BY <3>6 DEF Disconnect
      <4>3. inbox' \in Seq(Calls)
        BY <4>2
      <4> QED
        BY <2>a, <4>1, <4>2, <4>3
    <3>7. CASE Answer
      BY <3>7, <2>a, <2>b DEF Answer
    <3>8. CASE AnswerLost
      BY <3>8, <2>a, <2>b DEF AnswerLost
    <3>9. CASE EmitReply \/ RootEnds \/ Registry \/ Get
      BY <3>1, <3>9 DEF EmitReply, RootEnds, Registry, Get, GetSubscribes, GetTakes
    <3>10. ASSUME NEW q \in Calls, CallTool(q) \/ RequestExpires(q) \/ RequestForgotten(q)
           PROVE  Apps
      BY <3>1, <3>10 DEF CallTool, RequestExpires, RequestForgotten
    <3>11. CASE MainSubscribes \/ HookWorks \/ HookReturns \/ AttachedReturns \/ MainOver
      BY <3>1, <3>11 DEF MainSubscribes, HookWorks, HookReturns, AttachedReturns, MainOver
    <3>12. ASSUME NEW s \in 1 .. Len(log), HookTakes(s) PROVE Apps
      BY <3>1, <3>12 DEF HookTakes
    <3>13. CASE UNCHANGED vars
      BY <3>1, <3>13 DEF vars
    <3> HIDE DEF Apps
    <3> QED
      BY <3>2, <3>3, <3>4, <3>5, <3>6, <3>7, <3>8, <3>9, <3>10, <3>11, <3>12, <3>13
      DEF Next, Main
  <2> QED
    BY <2>1, <2>2, <2>3, <2>4 DEF TypeInv, TypeOK, Event
<1> QED
  BY <1>1, <1>2, PTL DEF Spec

\* Every variable of the run, its stream, its webhook and its tool calls keeps its type.
THEOREM StreamTypes == Spec => []TypeOK
BY Typed, PTL DEF TypeInv

-----------------------------------------------------------------------------
(* The tool calls: the inductive invariant is ToolInv. *)

\* A step that leaves a call, its entry, its timer and its replies alone.
LEMMA CallKept ==
  ASSUME NEW q \in Calls, CallOK(q), request'[q] = request[q], outcome'[q] = outcome[q],
         told'[q] = told[q], q \in timer' => q \in timer
  PROVE  CallOK(q)'
BY DEF CallOK

LEMMA ToolInvStep == TypeInv /\ ToolInv /\ [Next]_vars => ToolInv'
<1> SUFFICES ASSUME TypeInv, ToolInv, [Next]_vars, NEW p \in Calls PROVE CallOK(p)'
  BY DEF ToolInv
<1>t. /\ request \in [Calls -> {"none", "pending", "submitted", "expired", "cancelled", "deleted"}]
      /\ outcome \in [Calls -> {"none", "waiting", "answer", "timeout", "cancel"}]
      /\ told \in [Calls -> SUBSET Replies]
  BY DEF TypeInv, TypeOK, ToolsTypeOK
<1>i. CallOK(p)
  BY DEF ToolInv
<1>1. CASE UNCHANGED toolVars
  BY <1>1, <1>i DEF toolVars, CallOK
<1>2. ASSUME NEW q \in Calls, DispatchCall(q, aborted) PROVE CallOK(p)'
  <2>1. CASE p # q
    BY <1>2, <1>t, <1>i, <2>1, CallKept DEF DispatchCall
  <2>2. CASE p = q
    <3>1. request'[p] = "pending" /\ outcome'[p] = "waiting" /\ UNCHANGED told
      BY <1>2, <1>t, <2>2 DEF DispatchCall
    <3>2. request[p] = "none"
      BY <1>2, <2>2 DEF DispatchCall
    <3> QED
      BY <3>1, <3>2, <1>i DEF CallOK
  <2> QED
    BY <2>1, <2>2
<1>3. ASSUME NEW q \in Calls, Expire(q) PROVE CallOK(p)'
  <2>1. CASE p # q
    BY <1>3, <1>t, <1>i, <2>1, CallKept DEF Expire, Settled
  <2>2. CASE p = q
    <3>1. request[p] = "pending"
      BY <1>3, <1>i, <2>2 DEF Expire, CallOK
    <3>2. /\ request'[p] = "expired" /\ outcome'[p] = "timeout" /\ UNCHANGED told
          /\ p \notin timer'
      BY <1>3, <1>t, <1>i, <2>2, <3>1 DEF Expire, Settled, CallOK
    <3> QED
      BY <3>1, <3>2, <1>i DEF CallOK
  <2> QED
    BY <2>1, <2>2
<1>4. ASSUME NEW q \in Calls, Cleanup(q) PROVE CallOK(p)'
  <2>1. CASE p # q
    BY <1>4, <1>t, <1>i, <2>1, CallKept DEF Cleanup
  <2>2. CASE p = q
    <3>1. request[p] \in {"submitted", "expired", "cancelled"}
      BY <1>4, <2>2 DEF Cleanup
    <3>2. request'[p] = "deleted" /\ UNCHANGED <<timer, outcome, told>>
      BY <1>4, <1>t, <2>2 DEF Cleanup
    <3> QED
      BY <3>1, <3>2, <1>i DEF CallOK
  <2> QED
    BY <2>1, <2>2
<1>5. CASE AbortCalls(Calls)
  <2>0. UNCHANGED told
    BY <1>5 DEF AbortCalls
  <2>1. CASE p \in listening /\ request[p] = "pending"
    <3>1. outcome[p] = "waiting"
      BY <1>i, <2>1 DEF CallOK
    <3>2. request'[p] = "cancelled" /\ outcome'[p] = "cancel" /\ p \notin timer'
      BY <1>5, <2>1, <3>1 DEF AbortCalls
    <3> QED
      BY <2>0, <2>1, <3>2, <1>i DEF CallOK
  <2>2. CASE ~(p \in listening /\ request[p] = "pending")
    BY <1>5, <1>i, <2>2, CallKept DEF AbortCalls
  <2> QED
    BY <2>1, <2>2
<1>6. ASSUME NEW q \in Calls, NEW heard \in BOOLEAN, Submit(q, heard) PROVE CallOK(p)'
  <2>1. CASE p # q
    BY <1>6, <1>t, <1>i, <2>1, CallKept DEF Submit, Settled
  <2>2. CASE p = q /\ request[q] = "pending"
    <3>1. Reply(q) = "accepted"
      BY <2>2 DEF Reply
    <3>2. outcome[p] = "waiting"
      BY <1>i, <2>2 DEF CallOK
    <3>3. request'[p] = "submitted" /\ outcome'[p] = "answer" /\ p \notin timer'
      BY <1>6, <1>t, <2>2, <3>2 DEF Submit, Settled
    <3>4. told'[p] \subseteq told[p] \cup {"accepted"}
      BY <1>6, <1>t, <2>2, <3>1 DEF Submit
    <3>5. "expired" \notin told[p]
      BY <1>i, <3>2 DEF CallOK
    <3> QED
      BY <3>3, <3>4, <3>5 DEF CallOK
  <2>3. CASE p = q /\ request[q] # "pending"
    <3>1. UNCHANGED <<request, timer, listening, outcome>>
      BY <1>6, <2>3 DEF Submit
    <3>2. told'[p] \subseteq told[p] \cup {Reply(p)}
      BY <1>6, <1>t, <2>3 DEF Submit
    <3>3. Reply(p) \in {"accepted", "duplicate"} => outcome[p] = "answer"
      BY <1>i, <2>3 DEF CallOK, Reply
    <3>4. Reply(p) = "expired" => outcome[p] \in {"timeout", "cancel"}
      BY <1>i, <2>3 DEF CallOK, Reply
    <3>5. told'[p] \cap {"accepted", "duplicate"} # {} => outcome[p] = "answer"
      BY <1>i, <3>2, <3>3 DEF CallOK
    <3>6. "expired" \in told'[p] => outcome[p] \in {"timeout", "cancel"}
      BY <1>i, <3>2, <3>4 DEF CallOK
    <3> QED
      BY <1>i, <3>1, <3>5, <3>6 DEF CallOK
  <2> QED
    BY <2>1, <2>2, <2>3
<1> QED
  BY ToolMoves, <1>1, <1>2, <1>3, <1>4, <1>5, <1>6 DEF ToolMove

\* What the application was told about a call is what the run got: an accepted answer
\* is the call's outcome and one that came too late is not, however answers, repeated
\* answers, deadlines, the cancellation of the run and the disconnection interleave
\* (client-tools.ts).
THEOREM ApplicationAgrees == Spec => []AnswersAgree
<1>1. Init => ToolInv
  BY DEF Init, ToolsInit, ToolInv, CallOK
<1>2. ToolInv => AnswersAgree
  BY DEF ToolInv, CallOK, AnswersAgree
<1> QED
  BY <1>1, <1>2, ToolInvStep, Typed, PTL DEF Spec

-----------------------------------------------------------------------------
(* The readers: the inductive invariant is StreamInv. *)

\* The oldest event in the buffer, as the log grows.
LEMMA FirstMoves ==
  ASSUME NEW n \in Nat
  PROVE  /\ First(n) \in Nat /\ 1 <= First(n) /\ First(n) <= n + 1
         /\ First(n) # 1 => n > BufferSize
         /\ n < BufferSize => First(n + 1) = First(n)
BY EventStreamAssumption DEF First

\* A log that grows by e keeps its events, and has one more final event if e is one.
LEMMA LogGrows ==
  ASSUME log \in Seq(Event), NEW e, Record(e)
  PROVE  /\ Len(log) \in Nat /\ Len(log') = Len(log) + 1
         /\ \A s \in 1 .. Len(log) : log'[s] = log[s]
         /\ log'[Len(log) + 1] = e
         /\ FinalSeq' = IF e.kind = "final" THEN FinalSeq \cup {Len(log) + 1} ELSE FinalSeq
<1>1. Len(log) \in Nat /\ log' = Append(log, e)
  BY DEF Record
<1>2. /\ Len(log') = Len(log) + 1 /\ \A s \in 1 .. Len(log) : log'[s] = log[s]
      /\ log'[Len(log) + 1] = e
  BY <1>1
<1>3. ASSUME NEW s PROVE s \in FinalSeq' <=>
        s \in FinalSeq \/ (s = Len(log) + 1 /\ e.kind = "final")
  BY <1>1, <1>2 DEF FinalSeq
<1> QED
  BY <1>1, <1>2, <1>3

\* The numbers of a reader.
LEMMA ReaderNumbers ==
  ASSUME StreamTypeOK, NEW r \in Readers
  PROVE  /\ reader[r] \in Reader
         /\ reader[r].at \in Nat /\ reader[r].last \in Nat /\ reader[r].next \in Nat
         /\ reader[r].pos \in Nat /\ reader[r].since \in Nat
BY DEF StreamTypeOK, Reader

\* A reader that was not overrun and has nothing left to replay has read all there is.
LEMMA NothingLeft ==
  ASSUME StreamTypeOK, log \in Seq(Event), NEW r \in Readers, ReaderOK(r),
         reader[r].pc = "replay", ~reader[r].overrun, ToReplay(r) = {}
  PROVE  Len(log) <= reader[r].last
<1>1. Len(log) \in Nat
  OBVIOUS
<1>2. /\ First(Len(log)) \in Nat
      /\ First(Len(log)) + reader[r].pos <= reader[r].last + 2
      /\ reader[r].since <= reader[r].last
  BY <1>1, FirstMoves DEF ReaderOK
<1> SUFFICES ASSUME reader[r].last < Len(log) PROVE FALSE
  BY <1>1, ReaderNumbers
<1>3. Len(log) \in First(Len(log)) + reader[r].pos - 1 .. Len(log) /\ Len(log) > reader[r].since
  BY <1>1, <1>2, ReaderNumbers
<1> QED
  BY <1>3 DEF ToReplay

\* A reader that was not overrun gets what it has read, or the event after it.
LEMMA NextInOrder ==
  ASSUME StreamTypeOK, log \in Seq(Event), NEW r \in Readers, ReaderOK(r),
         ~reader[r].overrun, NEW s \in 1 .. Len(log), Yield(r, s)
  PROVE  s <= reader[r].last + 1
<1>1. Len(log) \in Nat
  OBVIOUS
<1>2. CASE YieldQueued(r, s)
  BY <1>2, ReaderNumbers DEF YieldQueued, ReaderOK
<1>3. CASE YieldReplayed(r, s)
  <2>1. /\ First(Len(log)) \in Nat
        /\ First(Len(log)) + reader[r].pos <= reader[r].last + 2
        /\ reader[r].since <= reader[r].last
    BY <1>1, <1>3, FirstMoves DEF ReaderOK, YieldReplayed
  <2> SUFFICES ASSUME reader[r].last + 1 < s PROVE FALSE
    BY <1>1, ReaderNumbers
  <2>2. /\ reader[r].last + 1 \in First(Len(log)) + reader[r].pos - 1 .. Len(log)
        /\ reader[r].last + 1 > reader[r].since
    <3>1. \A n, f, p, l, z \in Nat :
            f + p <= l + 2 /\ z <= l /\ l + 1 < s /\ s <= n
              => l + 1 \in f + p - 1 .. n /\ l + 1 > z
      BY <1>1
    <3>2. s <= Len(log)
      BY <1>1
    <3> QED
      BY <1>1, <2>1, <3>1, <3>2, ReaderNumbers
  <2>3. reader[r].last + 1 \in ToReplay(r)
    BY <2>2 DEF ToReplay
  <2>4. s <= reader[r].last + 1
    BY <1>3, <2>3 DEF YieldReplayed
  <2> QED
    BY <1>1, <2>4, ReaderNumbers
<1> QED
  BY <1>2, <1>3 DEF Yield

\* What handing an event to a reader does to it.
LEMMA Handed ==
  ASSUME StreamTypeOK, log \in Seq(Event), NEW r \in Readers,
         NEW s \in 1 .. Len(log), Yield(r, s)
  PROVE  /\ reader' \in [Readers -> Reader]
         /\ \A q \in Readers : q # r => reader'[q] = reader[q]
         /\ reader'[r].at = s
         /\ reader'[r].last = Highest(reader[r].last, s)
         /\ reader'[r].since = reader[r].since /\ reader'[r].closed = reader[r].closed
         /\ reader'[r].overrun = reader[r].overrun /\ reader'[r].pc = reader[r].pc
         /\ reader[r].pc = "replay" => /\ reader'[r].pos = s - First(Len(log)) + 2
                                       /\ reader'[r].next = reader[r].next
         /\ reader[r].pc = "live" => reader'[r].next = s + 1
         /\ reader[r].pc \in {"replay", "live"}
         /\ UNCHANGED <<root, log, closing>>
<1>1. reader \in [Readers -> Reader]
  BY DEF StreamTypeOK
<1>3. reader[r] \in Reader
  BY <1>1
<1>4. Len(log) \in Nat /\ First(Len(log)) \in Nat
  BY FirstMoves
<1>h. s \in Nat /\ s + 1 \in Nat /\ Highest(reader[r].last, s) \in Nat
  BY <1>4, ReaderNumbers DEF Highest
<1>5. CASE YieldReplayed(r, s)
  <2> DEFINE new == [reader[r] EXCEPT !.pos = s - First(Len(log)) + 2, !.at = s,
                                      !.last = Highest(reader[r].last, s)]
  <2>1. reader' = [reader EXCEPT ![r] = new] /\ reader[r].pc = "replay"
    BY <1>1, <1>5 DEF YieldReplayed
  <2>2. s - First(Len(log)) + 2 \in Nat
    <3>1. s >= First(Len(log)) + reader[r].pos - 1 /\ reader[r].pos \in Nat
      BY <1>4, <1>5, ReaderNumbers DEF YieldReplayed, ToReplay
    <3> QED
      BY <1>4, <3>1
  <2>3. new \in Reader
    BY <1>3, <1>h, <2>2 DEF Reader
  <2>4. /\ new.at = s /\ new.last = Highest(reader[r].last, s)
        /\ new.since = reader[r].since /\ new.closed = reader[r].closed
        /\ new.overrun = reader[r].overrun /\ new.pc = reader[r].pc
        /\ new.pos = s - First(Len(log)) + 2 /\ new.next = reader[r].next
    BY <1>3 DEF Reader
  <2>5. reader'[r] = new /\ \A q \in Readers : q # r => reader'[q] = reader[q]
    BY <1>1, <2>1
  <2>6. UNCHANGED <<root, log, closing>>
    BY <1>5 DEF YieldReplayed
  <2>7. reader' \in [Readers -> Reader]
    BY <1>1, <2>1, <2>3
  <2> HIDE DEF new
  <2> QED
    BY <2>1, <2>4, <2>5, <2>6, <2>7
<1>6. CASE YieldQueued(r, s)
  <2> DEFINE new == [reader[r] EXCEPT !.next = s + 1, !.at = s,
                                      !.last = Highest(reader[r].last, s)]
  <2>1. reader' = [reader EXCEPT ![r] = new] /\ reader[r].pc = "live"
    BY <1>1, <1>6 DEF YieldQueued
  <2>3. new \in Reader
    BY <1>3, <1>h DEF Reader
  <2>4. /\ new.at = s /\ new.last = Highest(reader[r].last, s)
        /\ new.since = reader[r].since /\ new.closed = reader[r].closed
        /\ new.overrun = reader[r].overrun /\ new.pc = reader[r].pc
        /\ new.next = s + 1
    BY <1>3 DEF Reader
  <2>5. reader'[r] = new /\ \A q \in Readers : q # r => reader'[q] = reader[q]
    BY <1>1, <2>1
  <2>6. UNCHANGED <<root, log, closing>>
    BY <1>6 DEF YieldQueued
  <2>7. reader' \in [Readers -> Reader]
    BY <1>1, <2>1, <2>3
  <2> HIDE DEF new
  <2> QED
    BY <2>1, <2>4, <2>5, <2>6, <2>7
<1> QED
  BY <1>5, <1>6 DEF Yield

\* A reader that is left alone, in a log that may have grown.
LEMMA ReaderKept ==
  ASSUME StreamTypeOK, log \in Seq(Event), NEW r \in Readers, ReaderOK(r),
         reader'[r] = reader[r], log' = log, root # "running" => root' # "running"
  PROVE  ReaderOK(r)'
BY DEF ReaderOK

\* An event is recorded: who replays a full buffer is overrun.
LEMMA ReaderRecorded ==
  ASSUME StreamTypeOK, log \in Seq(Event), NEW r \in Readers, ReaderOK(r),
         NEW e, Record(e), root # "running" => root' # "running"
  PROVE  ReaderOK(r)'
<1>1. Len(log) \in Nat /\ Len(log') = Len(log) + 1
  BY LogGrows
<1>2. reader[r] \in Reader /\ BufferSize \in Nat
  BY ReaderNumbers, EventStreamAssumption
<1>3. /\ reader'[r].at = reader[r].at /\ reader'[r].last = reader[r].last
      /\ reader'[r].next = reader[r].next /\ reader'[r].closed = reader[r].closed
      /\ reader'[r].pc = reader[r].pc /\ reader'[r].since = reader[r].since
      /\ reader'[r].pos = reader[r].pos
  BY <1>2 DEF Record, Reader
<1>4. /\ reader[r].overrun => reader'[r].overrun
      /\ reader[r].pc = "replay" /\ ~reader'[r].overrun => Len(log) < BufferSize
  <2>1. reader'[r].overrun =
          (reader[r].overrun \/ (reader[r].pc = "replay" /\ Len(log) >= BufferSize))
    BY <1>2 DEF Record, Reader
  <2> QED
    <3>1. reader[r].overrun => reader'[r].overrun
      BY <2>1
    <3>2. reader[r].pc = "replay" /\ Len(log) >= BufferSize => reader'[r].overrun
      BY <2>1
    <3>3. Len(log) >= BufferSize \/ Len(log) < BufferSize
      BY <1>1, <1>2
    <3> QED
      BY <3>1, <3>2, <3>3
<1>5. ~reader'[r].overrun /\ reader[r].pc = "replay" => First(Len(log')) = First(Len(log))
  BY <1>1, <1>4, FirstMoves
<1>6. /\ reader'[r].at <= reader'[r].last /\ reader'[r].last <= Len(log')
      /\ reader'[r].next <= Len(log') + 1
  BY <1>1, <1>3, ReaderNumbers DEF ReaderOK
<1> QED
  BY <1>3, <1>4, <1>5, <1>6 DEF ReaderOK

LEMMA StreamInvStep == TypeInv /\ StreamInv /\ StreamMove => StreamInv'
<1> SUFFICES ASSUME TypeInv, StreamInv, StreamMove PROVE StreamInv'
  OBVIOUS
<1>t. /\ StreamTypeOK /\ log \in Seq(Event) /\ Len(log) \in Nat
      /\ reader \in [Readers -> Reader]
  BY DEF TypeInv, TypeOK, StreamTypeOK, Event
<1>i. /\ \A s, t \in FinalSeq : s = t
      /\ root = "running" <=> FinalSeq = {}
      /\ closing => root # "running"
      /\ \A r \in Readers : ReaderOK(r)
  BY DEF StreamInv
<1>0. ASSUME NEW r \in Readers, UNCHANGED <<root, log, closing>>, ReaderOK(r)',
             \A q \in Readers : q # r => reader'[q] = reader[q]
      PROVE  StreamInv'
  <2>1. ASSUME NEW q \in Readers PROVE ReaderOK(q)'
    BY <1>0, <1>i, <1>t, <2>1, ReaderKept
  <2>2. FinalSeq' = FinalSeq
    BY <1>0 DEF FinalSeq
  <2> QED
    BY <1>0, <1>i, <2>1, <2>2 DEF StreamInv
<1>1. CASE UNCHANGED streamVars
  <2>1. FinalSeq' = FinalSeq
    BY <1>1 DEF FinalSeq, streamVars
  <2>2. ASSUME NEW q \in Readers PROVE ReaderOK(q)'
    BY <1>1, <1>i, <1>t, <2>2, ReaderKept DEF streamVars
  <2> QED
    BY <1>1, <1>i, <2>1, <2>2 DEF streamVars, StreamInv
<1>2. ASSUME NEW e, Emit(e), e.kind # "final" PROVE StreamInv'
  <2>1. FinalSeq' = FinalSeq
    BY <1>2, <1>t, LogGrows DEF Emit
  <2>2. ASSUME NEW q \in Readers PROVE ReaderOK(q)'
    BY <1>2, <1>i, <1>t, <2>2, ReaderRecorded DEF Emit
  <2> QED
    BY <1>2, <1>i, <2>1, <2>2 DEF Emit, StreamInv
<1>3. CASE EmitFinal(Plain("final"))
  <2>1. Plain("final").kind = "final"
    BY DEF Plain
  <2>2. FinalSeq' = FinalSeq \cup {Len(log) + 1}
    BY <1>3, <1>t, <2>1, LogGrows DEF EmitFinal
  <2>3. FinalSeq = {} /\ root' = "ended"
    BY <1>3, <1>i DEF EmitFinal
  <2>4. ASSUME NEW q \in Readers PROVE ReaderOK(q)'
    BY <1>3, <1>i, <1>t, <2>3, <2>4, ReaderRecorded DEF EmitFinal
  <2> QED
    BY <2>2, <2>3, <2>4 DEF StreamInv
<1>4. CASE CloseReaders
  <2>0. UNCHANGED <<root, log>> /\ closing' = FALSE /\ root # "running"
    BY <1>4, <1>i DEF CloseReaders
  <2>1. FinalSeq' = FinalSeq
    BY <2>0 DEF FinalSeq
  <2>2. ASSUME NEW q \in Readers PROVE ReaderOK(q)'
    <3>1. CASE Attached(q)
      <4>1. reader'[q] = [reader[q] EXCEPT !.closed = TRUE] /\ reader[q] \in Reader
        BY <1>4, <1>t, <2>2, <3>1 DEF CloseReaders
      <4>2. /\ reader'[q].at = reader[q].at /\ reader'[q].last = reader[q].last
            /\ reader'[q].next = reader[q].next /\ reader'[q].overrun = reader[q].overrun
            /\ reader'[q].pc = reader[q].pc /\ reader'[q].since = reader[q].since
            /\ reader'[q].pos = reader[q].pos
        BY <4>1 DEF Reader
      <4> QED
        BY <1>i, <2>0, <2>2, <4>2 DEF ReaderOK
    <3>2. CASE ~Attached(q)
      <4>1. reader'[q] = reader[q]
        BY <1>4, <2>2, <3>2 DEF CloseReaders
      <4> QED
        BY <1>i, <1>t, <2>0, <2>2, <4>1, ReaderKept
    <3> QED
      BY <3>1, <3>2
  <2> QED
    BY <1>i, <2>0, <2>1, <2>2 DEF StreamInv
<1>5. CASE Evict
  <2>0. UNCHANGED <<log, closing, reader>> /\ root # "running" /\ root' # "running"
    BY <1>5 DEF Evict
  <2>1. FinalSeq' = FinalSeq
    BY <2>0 DEF FinalSeq
  <2>2. ASSUME NEW q \in Readers PROVE ReaderOK(q)'
    BY <1>i, <1>t, <2>0, <2>2, ReaderKept
  <2> QED
    BY <1>i, <2>0, <2>1, <2>2 DEF StreamInv
<1>6. ASSUME NEW r \in Readers, NEW n \in Nat, n <= reader[r].last, Subscribe(r, n)
      PROVE  StreamInv'
  <2>1. /\ reader'[r] = [pc |-> "replay", since |-> n, pos |-> 1, next |-> Len(log) + 1,
                         closed |-> FALSE, at |-> reader[r].at, last |-> reader[r].last,
                         overrun |-> reader[r].overrun \/ First(Len(log)) > n + 1]
        /\ UNCHANGED <<root, log, closing>>
        /\ \A q \in Readers : q # r => reader'[q] = reader[q]
    BY <1>6, <1>t DEF Subscribe
  <2>2. /\ reader'[r].pc = "replay" /\ reader'[r].since = n /\ reader'[r].pos = 1
        /\ reader'[r].next = Len(log) + 1 /\ reader'[r].closed = FALSE
        /\ reader'[r].at = reader[r].at /\ reader'[r].last = reader[r].last
    BY <2>1
  <2>3. ~reader'[r].overrun => First(Len(log)) <= n + 1
    <3>1. reader'[r].overrun = (reader[r].overrun \/ First(Len(log)) > n + 1)
      BY <2>1
    <3>2. First(Len(log)) \in Nat /\ n + 1 \in Nat
      BY <1>t, <1>6, FirstMoves
    <3>3. First(Len(log)) > n + 1 => reader'[r].overrun
      BY <3>1
    <3> QED
      BY <3>2, <3>3
  <2>4. ~reader'[r].overrun => First(Len(log)) + 1 <= reader[r].last + 2
    <3>1. First(Len(log)) \in Nat /\ reader[r].last \in Nat
      BY <1>t, <1>6, FirstMoves, ReaderNumbers
    <3> QED
      BY <3>1, <2>3, <1>6
  <2>5. ReaderOK(r)'
    <3>1. reader[r].at <= reader[r].last /\ reader[r].last <= Len(log)
      BY <1>6, <1>i DEF ReaderOK
    <3> QED
      BY <1>6, <1>t, <2>1, <2>2, <2>4, <3>1 DEF ReaderOK
  <2> QED
    BY <1>0, <1>6, <2>1, <2>5
<1>7. ASSUME NEW r \in Readers, NEW s \in 1 .. Len(log), Yield(r, s) PROVE StreamInv'
  <2>1. /\ \A q \in Readers : q # r => reader'[q] = reader[q]
        /\ reader'[r].at = s
        /\ reader'[r].last = Highest(reader[r].last, s)
        /\ reader'[r].since = reader[r].since /\ reader'[r].closed = reader[r].closed
        /\ reader'[r].pc = reader[r].pc
        /\ reader[r].pc = "replay" => /\ reader'[r].pos = s - First(Len(log)) + 2
                                      /\ reader'[r].next = reader[r].next
        /\ reader[r].pc = "live" => reader'[r].next = s + 1
        /\ reader[r].pc \in {"replay", "live"}
        /\ UNCHANGED <<root, log, closing>>
    BY <1>t, <1>7, Handed
  <2>2. PICK h \in Nat : h = Highest(reader[r].last, s) /\ reader[r].last <= h /\ s <= h
                         /\ h <= Len(log)
    <3>1. reader[r].last \in Nat /\ reader[r].last <= Len(log) /\ s \in Nat /\ s <= Len(log)
      BY <1>t, <1>i, <1>7, ReaderNumbers DEF ReaderOK
    <3> QED
      BY <3>1, <1>t DEF Highest
  <2>3. PICK f \in Nat : f = First(Len(log))
    BY <1>t, FirstMoves
  <2>4. s \in Nat /\ s <= Len(log)
    BY <1>7, <1>t
  <2>5. f + (s - f + 2) <= h + 2 /\ s + 1 <= h + 1 /\ s + 1 <= Len(log) + 1
    BY <1>t, <2>2, <2>3, <2>4
  <2>6. /\ reader[r].since \in Nat /\ reader[r].last \in Nat
        /\ reader[r].closed => root # "running"
        /\ reader[r].next <= Len(log) + 1
        /\ reader[r].pc = "replay" => reader[r].since <= reader[r].last
    BY <1>t, <1>i, <1>7, ReaderNumbers DEF ReaderOK
  <2>7. ReaderOK(r)'
    <3>1. CASE reader[r].pc = "replay"
      <4>1. First(Len(log')) + reader'[r].pos <= reader'[r].last + 2
        BY <2>1, <2>2, <2>3, <2>5, <3>1
      <4>2. reader'[r].since <= reader'[r].last
        BY <2>1, <2>2, <2>6, <3>1
      <4> QED
        BY <2>1, <2>2, <2>4, <2>6, <3>1, <4>1, <4>2 DEF ReaderOK
    <3>2. CASE reader[r].pc = "live"
      BY <2>1, <2>2, <2>4, <2>5, <2>6, <3>2 DEF ReaderOK
    <3> QED
      BY <2>1, <3>1, <3>2
  <2> QED
    BY <1>0, <1>7, <2>1, <2>7
<1>8. ASSUME NEW r \in Readers, NEW p \in Phases,
             reader' = [reader EXCEPT ![r].pc = p], UNCHANGED <<root, log, closing>>,
             p = "live" /\ ~reader[r].overrun => reader[r].next <= reader[r].last + 1,
             p # "replay"
      PROVE  StreamInv'
  <2>1. /\ reader'[r] = [reader[r] EXCEPT !.pc = p] /\ reader[r] \in Reader
        /\ \A q \in Readers : q # r => reader'[q] = reader[q]
    BY <1>8, <1>t
  <2>2. /\ reader'[r].at = reader[r].at /\ reader'[r].last = reader[r].last
        /\ reader'[r].next = reader[r].next /\ reader'[r].overrun = reader[r].overrun
        /\ reader'[r].pc = p /\ reader'[r].since = reader[r].since
        /\ reader'[r].pos = reader[r].pos /\ reader'[r].closed = reader[r].closed
    BY <2>1 DEF Reader
  <2>3. ReaderOK(r)'
    BY <1>8, <1>i, <2>2 DEF ReaderOK
  <2> QED
    BY <1>0, <1>8, <2>1, <2>3
<1>9. ASSUME NEW r \in Readers, Return(r) PROVE StreamInv'
  <2>1. CASE QueueEnds(r)
    BY <1>8, <1>9, <2>1 DEF QueueEnds, Phases
  <2>2. CASE ReplayEnds(r)
    <3>1. ~reader[r].overrun => reader[r].next <= reader[r].last + 1
      <4>1. ~reader[r].overrun => Len(log) <= reader[r].last
        BY <1>t, <1>i, <1>9, <2>2, NothingLeft DEF ReplayEnds
      <4>2. reader[r].next \in Nat /\ reader[r].last \in Nat /\ reader[r].next <= Len(log) + 1
        BY <1>t, <1>i, <1>9, ReaderNumbers DEF ReaderOK
      <4> QED
        BY <1>t, <4>1, <4>2
    <3>2. CASE root = "running"
      <4>1. reader' = [reader EXCEPT ![r].pc = "live"] /\ UNCHANGED <<root, log, closing>>
        BY <2>2, <3>2 DEF ReplayEnds
      <4> QED
        BY <1>8, <1>9, <3>1, <4>1 DEF Phases
    <3>3. CASE root # "running"
      <4>1. reader' = [reader EXCEPT ![r].pc = "ended"] /\ UNCHANGED <<root, log, closing>>
        BY <2>2, <3>3 DEF ReplayEnds
      <4> QED
        BY <1>8, <1>9, <4>1 DEF Phases
    <3> QED
      BY <3>2, <3>3
  <2> QED
    BY <1>9, <2>1, <2>2 DEF Return
<1>10. ASSUME NEW r \in Readers, NEW p \in {"away", "ended"}, BreakOff(r, p) PROVE StreamInv'
  BY <1>8, <1>10 DEF BreakOff, Phases
<1>11. /\ Plain("reply").kind # "final"
       /\ \A q \in Calls : Requested(q).kind # "final"
       /\ \A r \in Readers : /\ 0 <= reader[r].last
                             /\ reader[r].at \in Nat /\ reader[r].at <= reader[r].last
  BY <1>t, <1>i, ReaderNumbers DEF Plain, Requested, ReaderOK
<1> QED
  BY <1>1, <1>2, <1>3, <1>4, <1>5, <1>6, <1>7, <1>9, <1>10, <1>11 DEF StreamMove

LEMMA StreamHolds == Spec => []StreamInv
<1>1. Init => StreamInv
  <2> SUFFICES ASSUME Init PROVE StreamInv
    OBVIOUS
  <2>1. log = <<Plain("spawn")>> /\ root = "running" /\ closing = FALSE
    BY DEF Init, StreamInit
  <2>2. FinalSeq = {}
    BY <2>1 DEF FinalSeq, Plain
  <2>3. Len(log) = 1
    BY <2>1
  <2>4. ASSUME NEW r \in Readers PROVE ReaderOK(r)
    BY <2>3, <2>4 DEF Init, StreamInit, ReaderOK
  <2> QED
    BY <2>1, <2>2, <2>4 DEF StreamInv
<1> QED
  BY <1>1, Typed, StreamMoves, StreamInvStep, PTL DEF Spec

-----------------------------------------------------------------------------
(* The webhook: the inductive invariant is HookInv. *)

\* The log only grows.
LEMMA LogKept ==
  ASSUME log \in Seq(Event), StreamMove
  PROVE  /\ Len(log) \in Nat /\ Len(log') \in Nat /\ Len(log) <= Len(log')
         /\ \A s \in 1 .. Len(log) : log'[s] = log[s]
<1>1. ASSUME NEW e, Record(e)
      PROVE  /\ Len(log) \in Nat /\ Len(log') \in Nat /\ Len(log) <= Len(log')
             /\ \A s \in 1 .. Len(log) : log'[s] = log[s]
  BY <1>1, LogGrows
<1>2. CASE UNCHANGED log
  BY <1>2
<1> QED
  BY <1>1, <1>2 DEF StreamMove, Emit, EmitFinal, CloseReaders, Evict, Subscribe, Yield,
     YieldReplayed, YieldQueued, Return, ReplayEnds, QueueEnds, BreakOff, streamVars

\* A step that gives the reader "main" nothing, and does not subscribe it.
Rests ==
  /\ reader'["main"].at = reader["main"].at /\ reader'["main"].last = reader["main"].last
  /\ reader["main"].overrun => reader'["main"].overrun
  /\ reader["main"].pc = "away" => reader'["main"].pc = "away"

SideMove ==
  \/ UNCHANGED streamVars \/ Evict
  \/ \E e : Record(e)
  \/ CloseReaders
  \/ \E r \in Readers \ {"main"} :
       Subscribe(r, reader[r].at) \/ \E s \in 1 .. Len(log) : Yield(r, s)
  \/ \E r \in Readers : \E p : BreakOff(r, p) \/ Return(r)

LEMMA MainRests == StreamTypeOK /\ log \in Seq(Event) /\ SideMove => Rests
<1> SUFFICES ASSUME StreamTypeOK, log \in Seq(Event), SideMove PROVE Rests
  OBVIOUS
<1> DEFINE r == "main"
<1>t. r \in Readers /\ reader \in [Readers -> Reader] /\ reader[r] \in Reader
  BY RunStreamAssumption DEF StreamTypeOK
<1>0. CASE reader'[r] = reader[r]
  BY <1>0 DEF Rests
<1>1. ASSUME NEW e, Record(e) PROVE Rests
  <2>1. reader'[r] = [reader[r] EXCEPT !.overrun =
          reader[r].overrun \/ (reader[r].pc = "replay" /\ Len(log) >= BufferSize)]
    BY <1>1, <1>t DEF Record
  <2>2. /\ reader'[r].at = reader[r].at /\ reader'[r].last = reader[r].last
        /\ reader'[r].pc = reader[r].pc
    BY <1>t, <2>1 DEF Reader
  <2>3. reader[r].overrun => reader'[r].overrun
    <3>1. reader'[r].overrun =
            (reader[r].overrun \/ (reader[r].pc = "replay" /\ Len(log) >= BufferSize))
      BY <1>t, <2>1 DEF Reader
    <3> QED
      BY <3>1
  <2> QED
    BY <2>2, <2>3 DEF Rests
<1>2. CASE CloseReaders
  <2>1. CASE Attached(r)
    <3>1. reader'[r] = [reader[r] EXCEPT !.closed = TRUE] /\ reader[r].pc # "away"
      BY <1>2, <1>t, <2>1 DEF CloseReaders, Attached
    <3> QED
      BY <1>t, <3>1 DEF Rests, Reader
  <2>2. CASE ~Attached(r)
    BY <1>0, <1>2, <1>t, <2>2 DEF CloseReaders
  <2> QED
    BY <2>1, <2>2
<1>3. ASSUME NEW q \in Readers \ {r}, NEW n, Subscribe(q, n) PROVE Rests
  BY <1>0, <1>t, <1>3 DEF Subscribe
<1>4. ASSUME NEW q \in Readers \ {r}, NEW s \in 1 .. Len(log), Yield(q, s) PROVE Rests
  BY <1>0, <1>4, <1>t, Handed
<1>5. ASSUME NEW q \in Readers, NEW p, reader' = [reader EXCEPT ![q].pc = p], Attached(q)
      PROVE  Rests
  <2>1. CASE q # r
    BY <1>0, <1>t, <1>5, <2>1
  <2>2. CASE q = r
    <3>1. reader'[r] = [reader[r] EXCEPT !.pc = p] /\ reader[r].pc # "away"
      BY <1>5, <1>t, <2>2 DEF Attached
    <3> QED
      BY <1>t, <3>1 DEF Rests, Reader
  <2> QED
    BY <2>1, <2>2
<1>6. ASSUME NEW q \in Readers, Return(q) PROVE Rests
  BY <1>5, <1>6 DEF Return, ReplayEnds, QueueEnds, Attached
<1>7. ASSUME NEW q \in Readers, NEW p, BreakOff(q, p) PROVE Rests
  BY <1>5, <1>7 DEF BreakOff
<1>8. CASE UNCHANGED streamVars \/ Evict
  <2>1. reader' = reader
    BY <1>8 DEF streamVars, Evict
  <2> QED
    BY <1>0, <2>1
<1> QED
  BY <1>1, <1>2, <1>3, <1>4, <1>6, <1>7, <1>8 DEF SideMove

\* The steps other than those of "main" and of the forwarder.
Aside ==
  \/ UNCHANGED vars \/ EmitReply \/ Cancel \/ RootEnds \/ Registry
  \/ \E q \in Calls : CallTool(q) \/ RequestExpires(q) \/ RequestForgotten(q)
  \/ Get \/ GetBreaksOff \/ HookReturns \/ AttachedReturns
  \/ TakeRequest \/ Disconnect \/ Answer \/ AnswerLost

LEMMA AsideRests == TypeInv /\ Aside => Rests /\ UNCHANGED <<hook, job, rows, faults, mode>>
<1> SUFFICES ASSUME TypeInv, Aside
             PROVE  Rests /\ UNCHANGED <<hook, job, rows, faults, mode>>
  OBVIOUS
<1>t. StreamTypeOK /\ log \in Seq(Event) /\ "main" \in Readers /\ "get" \in Readers \ {"main"}
  BY RunStreamAssumption DEF TypeInv, TypeOK, Event
<1> DEFINE Goal == SideMove /\ UNCHANGED <<hook, job, rows, faults, mode>>
<1>1. ASSUME UNCHANGED vars \/ Cancel \/ TakeRequest \/ Disconnect \/ Answer \/ AnswerLost
      PROVE  Goal
  BY <1>1 DEF Cancel, TakeRequest, Disconnect, Answer, AnswerLost, SideMove, vars, hookVars
<1>2. ASSUME EmitReply \/ RootEnds PROVE Goal
  BY <1>2 DEF EmitReply, RootEnds, Emit, EmitFinal, SideMove, hookVars
<1>3. ASSUME NEW q \in Calls, CallTool(q) PROVE Goal
  BY <1>3 DEF CallTool, Emit, SideMove, hookVars
<1>4. ASSUME NEW q \in Calls, RequestExpires(q) \/ RequestForgotten(q) PROVE Goal
  BY <1>4 DEF RequestExpires, RequestForgotten, SideMove, hookVars
<1>5. ASSUME Registry PROVE Goal
  BY <1>5 DEF Registry, SideMove, hookVars
<1>6. ASSUME GetSubscribes PROVE Goal
  BY <1>6, <1>t DEF GetSubscribes, SideMove, hookVars
<1>7. ASSUME GetTakes PROVE Goal
  BY <1>7, <1>t DEF GetTakes, SideMove, hookVars
<1>8. ASSUME GetBreaksOff PROVE Goal
  BY <1>8, <1>t DEF GetBreaksOff, SideMove, hookVars
<1>9. ASSUME HookReturns PROVE Goal
  BY <1>9, <1>t DEF HookReturns, SideMove, hookVars
<1>10. ASSUME AttachedReturns PROVE Goal
  BY <1>10, <1>t DEF AttachedReturns, SideMove, hookVars
<1> HIDE DEF Goal
<1>11. Goal
  BY <1>1, <1>2, <1>3, <1>4, <1>5, <1>6, <1>7, <1>8, <1>9, <1>10 DEF Aside, Get
<1> QED
  BY <1>11, <1>t, MainRests DEF Goal

LEMMA NextCases ==
  [Next]_vars => \/ Aside \/ MainSubscribes \/ MainOver \/ HookWorks
                 \/ \E s \in 1 .. Len(log) : HookTakes(s) \/ AttachedTakes(s)
BY DEF Next, Main, Aside

\* Events keep their kind.
LEMMA EventsKept ==
  ASSUME TypeInv, [Next]_vars
  PROVE  /\ Len(log) \in Nat /\ Len(log') \in Nat /\ Len(log) <= Len(log')
         /\ \A s \in 1 .. Len(log) : log'[s] = log[s] /\ s \in 1 .. Len(log')
<1>1. /\ Len(log) \in Nat /\ Len(log') \in Nat /\ Len(log) <= Len(log')
      /\ \A s \in 1 .. Len(log) : log'[s] = log[s]
  BY StreamMoves, LogKept DEF TypeInv, TypeOK, Event
<1>2. \A s \in 1 .. Len(log) : s \in 1 .. Len(log')
  BY <1>1
<1> QED
  BY <1>1, <1>2

\* The dispatch goes on.
LEMMA JobGoesOn ==
  ASSUME HookTypeOK,
         Insert \/ (\E found \in BOOLEAN : ReadSecret(found)) \/ CountAttempt
           \/ \E o \in {"success", "retry", "permanent"} : Post(o)
  PROVE  /\ hook' = hook /\ job'.event = job.event /\ job'.last = job.last
         /\ job'.step \notin {"none", "insert"} /\ job.step # "none"
<1> DEFINE Jobs == [step : Steps, event : Nat, last : BOOLEAN, attempt : 0 .. MaxAttempts,
                    status : {"pending", "delivered", "failed"}]
<1>j. job \in Jobs
  BY DEF HookTypeOK
<1>1. CASE Insert
  BY <1>j, <1>1 DEF Insert
<1>2. ASSUME NEW found \in BOOLEAN, ReadSecret(found)
      PROVE  /\ hook' = hook /\ job'.event = job.event /\ job'.last = job.last
             /\ job'.step \notin {"none", "insert"} /\ job.step # "none"
  BY <1>j, <1>2 DEF ReadSecret
<1>3. CASE CountAttempt
  BY <1>j, <1>3 DEF CountAttempt
<1>4. ASSUME NEW o \in {"success", "retry", "permanent"}, Post(o)
      PROVE  /\ hook' = hook /\ job'.event = job.event /\ job'.last = job.last
             /\ job'.step \notin {"none", "insert"} /\ job.step # "none"
  BY <1>j, <1>4 DEF Post
<1> QED
  BY <1>1, <1>2, <1>3, <1>4

LEMMA ForwarderStep ==
  TypeInv /\ StreamInv /\ ForwarderOK /\ [Next]_vars => ForwarderOK'
<1> SUFFICES ASSUME TypeInv, StreamInv, ForwarderOK, [Next]_vars PROVE ForwarderOK'
  OBVIOUS
<1>t. /\ StreamTypeOK /\ log \in Seq(Event) /\ reader \in [Readers -> Reader]
      /\ "main" \in Readers
  BY RunStreamAssumption DEF TypeInv, TypeOK, Event, StreamTypeOK
<1>n. /\ reader["main"].at \in Nat /\ reader["main"].at <= Len(log)
      /\ reader["main"].last \in Nat
  <2>1. reader["main"].at <= reader["main"].last /\ reader["main"].last <= Len(log)
    BY <1>t DEF StreamInv, ReaderOK
  <2>2. reader["main"].at \in Nat /\ reader["main"].last \in Nat /\ Len(log) \in Nat
    BY <1>t, ReaderNumbers
  <2> QED
    BY <2>1, <2>2
<1>e. \A s \in 1 .. Len(log) : log'[s] = log[s] /\ s \in 1 .. Len(log')
  BY EventsKept
<1>f. /\ reader["main"].at # 0 => reader["main"].at \in 1 .. Len(log)
      /\ hook = "busy" => job.event \in 1 .. Len(log) /\ job.event # 0
  BY <1>t, <1>n DEF ForwarderOK, Reported
<1>1. CASE Aside
  <2>1. Rests /\ UNCHANGED <<hook, job, rows, faults, mode>>
    BY <1>1, AsideRests
  <2> QED
    BY <1>e, <1>f, <2>1 DEF ForwarderOK, Rests, Reported, IsFinal
<1>2. CASE MainSubscribes
  <2>1. hook = "off" /\ hook' = "next" /\ UNCHANGED <<job, mode>>
    BY <1>2 DEF MainSubscribes
  <2> QED
    BY <2>1 DEF ForwarderOK
<1>3. CASE MainOver
  <2>1. hook = "next" /\ hook' \in {"next", "stopped"} /\ UNCHANGED <<job, mode>>
    BY <1>3 DEF MainOver
  <2> QED
    BY <2>1 DEF ForwarderOK
<1>4. ASSUME NEW s \in 1 .. Len(log), HookTakes(s) PROVE ForwarderOK'
  <2>1. reader'["main"].at = s /\ log' = log /\ UNCHANGED mode /\ hook = "next"
        /\ mode = "durable"
    BY <1>4, <1>t, Handed DEF HookTakes
  <2>2. CASE log[s].kind \in {"reply", "final"}
    <3>1. Dispatch(s, IsFinal(s))
      BY <1>4, <2>2 DEF HookTakes
    <3>2. hook' = "busy" /\ job'.step = "insert" /\ job'.event = s /\ (job'.last <=> IsFinal(s))
      BY <3>1 DEF Dispatch, NoJob
    <3>3. Reported(s)
      BY <1>4, <2>2 DEF Reported
    <3> QED
      BY <2>1, <3>2, <3>3 DEF ForwarderOK, Reported, IsFinal
  <2>3. CASE log[s].kind \notin {"reply", "final"}
    <3>1. UNCHANGED <<hook, job>>
      BY <1>4, <2>3 DEF HookTakes, hookVars
    <3> QED
      BY <2>1, <3>1 DEF ForwarderOK
  <2> QED
    BY <2>2, <2>3
<1>5. ASSUME NEW s \in 1 .. Len(log), AttachedTakes(s) PROVE ForwarderOK'
  <2>1. UNCHANGED <<hook, job, mode>> /\ mode = "attached"
    BY <1>5 DEF AttachedTakes, hookVars
  <2>2. reader["main"].pc # "away"
    BY <1>5, <1>t, Handed DEF AttachedTakes
  <2> QED
    BY <2>1, <2>2 DEF ForwarderOK
<1>6. CASE HookWorks
  <2>0. UNCHANGED <<reader, log, mode>> /\ HookStep
    BY <1>6 DEF HookWorks, streamVars
  <2>1. job.step # "none" /\ hook = "busy" /\ mode = "durable"
    <3>1. job.step # "none"
      BY <2>0 DEF HookStep, Insert, ReadSecret, Post, CountAttempt, SettleRow, StoreFails
    <3> QED
      BY <3>1 DEF ForwarderOK
  <2>2. job.event = reader["main"].at /\ Reported(job.event) /\ (job.last <=> IsFinal(job.event))
    BY <2>1 DEF ForwarderOK
  <2>3. CASE Insert \/ (\E found \in BOOLEAN : ReadSecret(found)) \/ CountAttempt
             \/ \E o \in {"success", "retry", "permanent"} : Post(o)
    <3>1. /\ hook' = hook /\ job'.event = job.event /\ job'.last = job.last
          /\ job'.step \notin {"none", "insert"}
      BY <2>3, JobGoesOn DEF TypeInv, TypeOK
    <3> QED
      BY <2>0, <2>1, <2>2, <3>1 DEF ForwarderOK, Reported, IsFinal
  <2>4. CASE SettleRow
    <3>1. hook' = (IF job.last THEN "told" ELSE "next") /\ job'.step = "none"
      BY <2>4 DEF SettleRow, NoJob
    <3> QED
      BY <2>0, <2>1, <2>2, <3>1 DEF ForwarderOK, IsFinal
  <2>5. CASE StoreFails
    <3>1. hook' = "stopped" /\ job'.step = "none"
      BY <2>5 DEF StoreFails, NoJob
    <3> QED
      BY <3>1 DEF ForwarderOK
  <2> QED
    BY <2>0, <2>3, <2>4, <2>5 DEF HookStep
<1> QED
  BY <1>1, <1>2, <1>3, <1>4, <1>5, <1>6, NextCases

LEMMA RowsSettleStep ==
  TypeInv /\ ForwarderOK /\ RowsSettle /\ [Next]_vars => RowsSettle'
<1> SUFFICES ASSUME TypeInv, ForwarderOK, RowsSettle, [Next]_vars PROVE RowsSettle'
  OBVIOUS
<1>e. \A s \in 1 .. Len(log) : log'[s] = log[s] /\ s \in 1 .. Len(log')
  BY EventsKept
<1>h. HookTypeOK /\ rows \in Seq(Row) /\ Len(rows) \in Nat
  BY DEF TypeInv, TypeOK, HookTypeOK
<1>0. ASSUME UNCHANGED rows, job'.step \in {"none", "insert"}, hook' # "told",
             job.step \in {"none", "insert"}, hook = "stopped" => hook' = "stopped"
      PROVE  RowsSettle'
  BY <1>0, <1>e DEF RowsSettle, Reported
<1>1. CASE UNCHANGED <<hook, job, rows>>
  <2>1. rows # <<>> => Len(rows) \in DOMAIN rows
    BY <1>h
  <2> QED
    BY <1>1, <1>e, <2>1 DEF RowsSettle, Reported, IsFinal
<1>2. CASE Aside
  BY <1>1, <1>2, AsideRests
<1>3. CASE MainSubscribes \/ MainOver
  <2>1. /\ UNCHANGED <<job, rows>> /\ hook \in {"off", "next"} /\ hook' \in {"next", "stopped"}
    BY <1>3 DEF MainSubscribes, MainOver
  <2>2. job.step = "none"
    BY <2>1 DEF ForwarderOK
  <2> QED
    BY <1>0, <2>1, <2>2
<1>4. ASSUME NEW s \in 1 .. Len(log), AttachedTakes(s) PROVE RowsSettle'
  BY <1>1, <1>4 DEF AttachedTakes, hookVars
<1>5. ASSUME NEW s \in 1 .. Len(log), HookTakes(s) PROVE RowsSettle'
  <2>1. CASE UNCHANGED hookVars
    BY <1>1, <2>1 DEF hookVars
  <2>2. CASE Dispatch(s, IsFinal(s))
    <3>1. job.step = "none"
      BY <1>5 DEF HookTakes, ForwarderOK
    <3>2. UNCHANGED rows /\ job'.step = "insert" /\ hook = "next" /\ hook' = "busy"
      BY <2>2 DEF Dispatch, NoJob
    <3> QED
      BY <1>0, <3>1, <3>2
  <2> QED
    BY <1>5, <2>1, <2>2 DEF HookTakes
<1>6. ASSUME HookStep, log' = log PROVE RowsSettle'
  <2>0. job.step # "none" => hook = "busy" /\ Reported(job.event)
    BY DEF ForwarderOK
  <2>1. CASE Insert
    <3>1. /\ job.step = "insert" /\ hook' = "busy" /\ hook = "busy"
          /\ rows' = Append(rows, [event |-> job.event, status |-> "pending"])
      BY <2>0, <2>1 DEF Insert
    <3>2. job'.step = "secret" /\ job'.event = job.event
      BY <1>h, <2>1 DEF Insert, HookTypeOK
    <3>3. /\ Len(rows') = Len(rows) + 1 /\ rows'[Len(rows')].event = job.event
          /\ \A i \in DOMAIN rows : rows'[i] = rows[i]
          /\ \A i \in DOMAIN rows' : i # Len(rows') => i \in DOMAIN rows
          /\ rows' # <<>> /\ Len(rows') \in Nat
      BY <1>h, <3>1
    <3>4. ASSUME NEW i \in DOMAIN rows'
          PROVE  Reported(rows'[i].event) /\ (rows'[i].status = "pending" => i = Len(rows'))
      <4>1. CASE i = Len(rows')
        BY <1>6, <2>0, <3>1, <3>3, <4>1 DEF Reported
      <4>2. CASE i \in DOMAIN rows
        BY <1>6, <3>1, <3>3, <4>2 DEF RowsSettle, Reported
      <4> QED
        BY <3>3, <3>4, <4>1, <4>2
    <3> QED
      BY <1>6, <3>1, <3>2, <3>3, <3>4 DEF RowsSettle, Reported
  <2>2. CASE (\E found \in BOOLEAN : ReadSecret(found)) \/ CountAttempt
             \/ \E o \in {"success", "retry", "permanent"} : Post(o)
    <3>1. /\ hook' = hook /\ job'.event = job.event
          /\ job'.step \notin {"none", "insert"} /\ job.step # "none"
      BY <1>h, <2>2, JobGoesOn
    <3>2. UNCHANGED rows /\ job.step # "insert"
      BY <2>2 DEF ReadSecret, CountAttempt, Post
    <3>3. job'.step = "settle" => job'.status # "pending"
      <4>1. CASE \E found \in BOOLEAN : ReadSecret(found)
        BY <1>h, <4>1 DEF ReadSecret, HookTypeOK
      <4>2. CASE CountAttempt
        BY <1>h, <4>2 DEF CountAttempt, HookTypeOK
      <4>3. CASE \E o \in {"success", "retry", "permanent"} : Post(o)
        BY <1>h, <4>3 DEF Post, HookTypeOK
      <4> QED
        BY <2>2, <4>1, <4>2, <4>3
    <3> QED
      BY <1>6, <2>0, <3>1, <3>2, <3>3 DEF RowsSettle, Reported, IsFinal
  <2>3. CASE SettleRow
    <3>1. /\ job.step = "settle" /\ job'.step = "none" /\ hook = "busy"
          /\ rows # <<>> /\ rows[Len(rows)].event = job.event /\ job.status # "pending"
      BY <2>0, <2>3 DEF SettleRow, NoJob, RowsSettle
    <3>2. /\ rows' = [rows EXCEPT ![Len(rows)].status = job.status]
          /\ Len(rows) \in DOMAIN rows /\ DOMAIN rows = 1 .. Len(rows)
      BY <1>h, <2>3, <3>1 DEF SettleRow
    <3>3. /\ DOMAIN rows' = DOMAIN rows /\ Len(rows') = Len(rows)
          /\ \A i \in DOMAIN rows : rows'[i].event = rows[i].event
          /\ rows'[Len(rows)].status = job.status
          /\ \A i \in DOMAIN rows : i # Len(rows) => rows'[i] = rows[i]
      <4>1. \A i \in DOMAIN rows : rows[i] \in Row
        BY <1>h
      <4>2. DOMAIN rows' = DOMAIN rows /\ Len(rows') = Len(rows)
        BY <1>h, <3>2
      <4>3. rows'[Len(rows)] = [rows[Len(rows)] EXCEPT !.status = job.status]
        BY <3>2
      <4>4. /\ rows'[Len(rows)].status = job.status
            /\ rows'[Len(rows)].event = rows[Len(rows)].event
        BY <3>2, <4>1, <4>3 DEF Row
      <4>5. \A i \in DOMAIN rows : i # Len(rows) => rows'[i] = rows[i]
        BY <3>2
      <4> QED
        BY <4>2, <4>4, <4>5
    <3>4. hook' = "told" => IsFinal(job.event)
      BY <2>3, <3>1 DEF SettleRow, ForwarderOK
    <3>5. \A i \in DOMAIN rows' : rows'[i].status # "pending"
      BY <3>1, <3>3 DEF RowsSettle
    <3>6. \A i \in DOMAIN rows' : Reported(rows'[i].event)
      BY <1>6, <3>3 DEF RowsSettle, Reported
    <3>7. hook' = "told" => rows' # <<>> /\ IsFinal(rows'[Len(rows')].event)
      BY <1>6, <3>1, <3>2, <3>3, <3>4 DEF IsFinal
    <3> QED
      BY <1>6, <3>1, <3>5, <3>6, <3>7 DEF RowsSettle, Reported, IsFinal
  <2>4. CASE StoreFails
    <3>1. hook' = "stopped" /\ job'.step = "none" /\ UNCHANGED rows
      BY <2>4 DEF StoreFails, NoJob
    <3> QED
      BY <1>6, <3>1 DEF RowsSettle, Reported
  <2> QED
    BY <1>6, <2>1, <2>2, <2>3, <2>4 DEF HookStep
<1> QED
  BY <1>2, <1>3, <1>4, <1>5, <1>6, NextCases DEF HookWorks, streamVars

\* What the forwarder has read has a row, or is about to get it.
HasReported ==
  mode = "durable" /\ hook # "stopped" =>
    \A s \in 1 .. reader["main"].last :
      Reported(s) => HasRow(s) \/ (job.step = "insert" /\ job.event = s)

RowsInOrder ==
  /\ \A j \in DOMAIN rows : \A s \in 1 .. Len(log) :
       s < rows[j].event /\ Reported(s) => HasRow(s)
  /\ \A s \in 1 .. Len(log) :
       HasRow(s) => \E i \in RowsOf(s) : \A j \in DOMAIN rows : rows[j].event > s => i < j

LEMMA RowsCompleteParts == RowsComplete <=> HasReported /\ RowsInOrder
BY DEF RowsComplete, HasReported, RowsInOrder

LEMMA OrderKept ==
  TypeInv /\ RowsSettle /\ RowsInOrder /\ [Next]_vars /\ UNCHANGED rows => RowsInOrder'
<1> SUFFICES ASSUME TypeInv, RowsSettle, RowsInOrder, [Next]_vars, UNCHANGED rows
             PROVE  RowsInOrder'
  OBVIOUS
<1>e. /\ Len(log) \in Nat /\ Len(log') \in Nat /\ Len(log) <= Len(log')
      /\ \A s \in 1 .. Len(log) : log'[s] = log[s] /\ s \in 1 .. Len(log')
  BY EventsKept
<1>r. \A i \in DOMAIN rows : rows[i].event \in 1 .. Len(log)
  BY DEF RowsSettle, Reported
<1>1. ASSUME NEW j \in DOMAIN rows, NEW s \in 1 .. Len(log'),
             s < rows[j].event, Reported(s)'
      PROVE  HasRow(s)
  <2>1. s \in 1 .. Len(log)
    BY <1>e, <1>r, <1>1
  <2> QED
    BY <1>1, <1>e, <2>1 DEF RowsInOrder, Reported
<1>2. ASSUME NEW s \in 1 .. Len(log'), HasRow(s)
      PROVE  \E i \in RowsOf(s) : \A j \in DOMAIN rows : rows[j].event > s => i < j
  <2>1. s \in 1 .. Len(log)
    BY <1>r, <1>2 DEF HasRow, RowsOf
  <2> QED
    BY <1>2, <2>1 DEF RowsInOrder
<1> QED
  BY <1>1, <1>2 DEF RowsInOrder, HasRow, RowsOf

LEMMA RowsCompleteStep ==
  ASSUME TypeInv, StreamInv, ForwarderOK, RowsSettle, [Next]_vars,
         ~reader["main"].overrun => RowsComplete, ~reader'["main"].overrun
  PROVE  RowsComplete'
<1>t. /\ StreamTypeOK /\ log \in Seq(Event) /\ reader \in [Readers -> Reader]
      /\ "main" \in Readers /\ HookTypeOK /\ rows \in Seq(Row) /\ Len(rows) \in Nat
  BY RunStreamAssumption DEF TypeInv, TypeOK, Event, StreamTypeOK, HookTypeOK
<1>e. /\ Len(log) \in Nat /\ Len(log') \in Nat /\ Len(log) <= Len(log')
      /\ \A s \in 1 .. Len(log) : log'[s] = log[s] /\ s \in 1 .. Len(log')
  BY EventsKept
<1>n. /\ reader["main"].last \in Nat /\ reader["main"].last <= Len(log)
      /\ reader["main"].at \in Nat /\ reader["main"].at <= reader["main"].last
  BY <1>t, ReaderNumbers DEF StreamInv, ReaderOK
<1>0. ASSUME reader'["main"].last = reader["main"].last, ~reader["main"].overrun,
             UNCHANGED <<job, rows, mode>>, hook = "stopped" => hook' = "stopped"
      PROVE  RowsComplete'
  <2>1. HasReported /\ RowsInOrder
    BY <1>0, RowsCompleteParts
  <2>2. RowsInOrder'
    BY <1>0, <2>1, OrderKept
  <2>3. \A s \in 1 .. reader["main"].last : s \in 1 .. Len(log)
    BY <1>e, <1>n
  <2>4. HasReported'
    BY <1>0, <1>e, <2>1, <2>3 DEF HasReported, Reported, HasRow, RowsOf
  <2> QED
    BY <2>2, <2>4 DEF RowsComplete, HasReported, RowsInOrder
<1>1. CASE Aside
  BY <1>0, <1>1, AsideRests DEF Rests
<1>2. CASE MainSubscribes
  <2>1. Subscribe("main", 0) /\ hook = "off" /\ UNCHANGED <<job, rows, mode>>
    BY <1>2 DEF MainSubscribes
  <2>2. reader'["main"] =
          [pc |-> "replay", since |-> 0, pos |-> 1, next |-> Len(log) + 1,
           closed |-> FALSE, at |-> reader["main"].at, last |-> reader["main"].last,
           overrun |-> reader["main"].overrun \/ First(Len(log)) > 0 + 1]
    BY <1>t, <2>1 DEF Subscribe
  <2>3. reader'["main"].overrun = (reader["main"].overrun \/ First(Len(log)) > 0 + 1)
    BY <2>2
  <2>4. reader'["main"].last = reader["main"].last /\ ~reader["main"].overrun
    <3>1. reader["main"].overrun => reader'["main"].overrun
      BY <2>3
    <3>2. reader'["main"].last = reader["main"].last
      BY <2>2
    <3> QED
      BY <3>1, <3>2
  <2> QED
    BY <1>0, <2>1, <2>4
<1>3. CASE MainOver
  <2>1. /\ Return("main") /\ UNCHANGED <<job, rows, mode>>
        /\ hook = "next" /\ hook' \in {"next", "stopped"}
    BY <1>3 DEF MainOver
  <2>2. Rests
    BY <1>t, <2>1, MainRests DEF SideMove
  <2> QED
    BY <1>0, <2>1, <2>2 DEF Rests
<1>4. ASSUME NEW s \in 1 .. Len(log), Yield("main", s), UNCHANGED <<rows, mode>>,
             \/ mode # "durable"
             \/ /\ hook # "stopped" /\ job.step = "none"
                /\ Reported(s) => job'.step = "insert" /\ job'.event = s
      PROVE  RowsComplete'
  <2>1. /\ reader'["main"].last = Highest(reader["main"].last, s)
        /\ reader'["main"].overrun = reader["main"].overrun /\ log' = log
    BY <1>4, <1>t, Handed
  <2>2. HasReported /\ RowsInOrder
    BY <2>1, RowsCompleteParts
  <2>3. RowsInOrder'
    BY <1>4, <2>2, OrderKept
  <2>4. s <= reader["main"].last + 1
    BY <1>4, <1>t, <2>1, NextInOrder DEF StreamInv
  <2>5. HasReported'
    <3> SUFFICES ASSUME mode = "durable", NEW z \in 1 .. reader'["main"].last, Reported(z)
                 PROVE  HasRow(z) \/ (job'.step = "insert" /\ job'.event = z)
      BY <1>4, <2>1 DEF HasReported, HasRow, RowsOf, Reported
    <3>1. z \in 1 .. reader["main"].last \/ z = s
      BY <1>4, <1>e, <1>n, <2>1, <2>4 DEF Highest
    <3> QED
      BY <1>4, <2>2, <3>1 DEF HasReported
  <2> QED
    BY <2>3, <2>5 DEF RowsComplete, HasReported, RowsInOrder
<1>5. ASSUME NEW s \in 1 .. Len(log), AttachedTakes(s) PROVE RowsComplete'
  BY <1>4, <1>5 DEF AttachedTakes, hookVars
<1>6. ASSUME NEW s \in 1 .. Len(log), HookTakes(s) PROVE RowsComplete'
  <2>1. /\ Yield("main", s) /\ UNCHANGED <<rows, mode>> /\ job.step = "none"
        /\ hook # "stopped"
    BY <1>6 DEF HookTakes, Dispatch, hookVars, ForwarderOK
  <2>2. Reported(s) => job'.step = "insert" /\ job'.event = s
    BY <1>6 DEF HookTakes, Reported, Dispatch, NoJob
  <2> QED
    BY <1>4, <1>6, <2>1, <2>2
<1>7. CASE HookWorks
  <2>0. UNCHANGED <<reader, log, mode>> /\ HookStep
    BY <1>7 DEF HookWorks, streamVars
  <2>1. HasReported /\ RowsInOrder
    BY <2>0, RowsCompleteParts
  <2>2. job.step # "none" => /\ hook = "busy" /\ mode = "durable"
                             /\ job.event = reader["main"].at /\ Reported(job.event)
    BY DEF ForwarderOK
  <2>3. CASE Insert
    <3>1. /\ job.step = "insert" /\ hook = "busy" /\ mode = "durable"
          /\ rows' = Append(rows, [event |-> job.event, status |-> "pending"])
      BY <2>2, <2>3 DEF Insert
    <3>2. PICK e \in 1 .. Len(log) : e = job.event /\ e = reader["main"].at /\ Reported(e)
      BY <2>2, <3>1 DEF Reported
    <3>3. /\ Len(rows') = Len(rows) + 1 /\ DOMAIN rows' = 1 .. Len(rows) + 1
          /\ DOMAIN rows = 1 .. Len(rows)
          /\ rows'[Len(rows) + 1].event = e
          /\ \A i \in DOMAIN rows : rows'[i] = rows[i] /\ i \in DOMAIN rows'
      BY <1>t, <3>1, <3>2
    <3>4. \A s : HasRow(s)' <=> HasRow(s) \/ s = e
      <4>1. \A i \in DOMAIN rows' : i \in DOMAIN rows \/ i = Len(rows) + 1
        BY <1>t, <3>3
      <4>2. Len(rows) + 1 \in DOMAIN rows'
        BY <1>t, <3>3
      <4> QED
        BY <3>3, <4>1, <4>2 DEF HasRow, RowsOf
    <3>5. HasReported'
      BY <2>0, <2>1, <3>1, <3>2, <3>4 DEF HasReported, Reported
    <3>6. \A s \in 1 .. Len(log) : s < e /\ Reported(s) => HasRow(s)
      <4>1. ASSUME NEW s \in 1 .. Len(log), s < e PROVE s \in 1 .. reader["main"].last /\ s # e
        BY <1>n, <1>e, <3>2, <4>1
      <4> QED
        BY <2>1, <3>1, <3>2, <4>1 DEF HasReported
    <3>7. ASSUME NEW j \in DOMAIN rows', NEW s \in 1 .. Len(log),
                 s < rows'[j].event, Reported(s)
          PROVE  HasRow(s)
      <4>1. CASE j \in DOMAIN rows
        BY <2>1, <3>3, <3>7, <4>1 DEF RowsInOrder
      <4>2. CASE j = Len(rows) + 1
        BY <3>3, <3>6, <3>7, <4>2
      <4> QED
        BY <1>t, <3>3, <3>7, <4>1, <4>2
    <3>8. ASSUME NEW s \in 1 .. Len(log), HasRow(s)'
          PROVE  \E i \in DOMAIN rows' : /\ rows'[i].event = s
                   /\ \A j \in DOMAIN rows' : rows'[j].event > s => i < j
      <4>1. CASE HasRow(s)
        <5>1. PICK i \in RowsOf(s) : \A j \in DOMAIN rows : rows[j].event > s => i < j
          BY <2>1, <3>8, <4>1 DEF RowsInOrder
        <5>2. i \in DOMAIN rows /\ rows[i].event = s /\ i \in Nat /\ i < Len(rows) + 1
          BY <1>t, <3>3, <5>1 DEF RowsOf
        <5>3. ASSUME NEW j \in DOMAIN rows', rows'[j].event > s PROVE i < j
          <6>1. CASE j \in DOMAIN rows
            BY <3>3, <5>1, <5>3, <6>1
          <6>2. CASE j = Len(rows) + 1
            BY <5>2, <6>2
          <6> QED
            BY <1>t, <3>3, <5>3, <6>1, <6>2
        <5>4. i \in DOMAIN rows' /\ rows'[i].event = s
          BY <3>3, <5>2
        <5> QED
          BY <5>3, <5>4
      <4>2. CASE ~HasRow(s)
        <5>1. s = e
          BY <3>4, <3>8, <4>2
        <5>2. \A j \in DOMAIN rows : ~(s < rows[j].event)
          BY <2>1, <3>2, <4>2, <5>1 DEF RowsInOrder
        <5>3. ASSUME NEW j \in DOMAIN rows', rows'[j].event > s PROVE FALSE
          <6>1. CASE j \in DOMAIN rows
            <7>1. rows[j].event \in Nat /\ s \in Nat
              <8>1. rows[j] \in Row
                BY <1>t, <6>1
              <8> QED
                BY <1>e, <3>8, <8>1 DEF Row
            <7> QED
              BY <3>3, <5>2, <5>3, <6>1, <7>1
          <6>2. CASE j = Len(rows) + 1
            BY <3>2, <3>3, <5>1, <5>3, <6>2
          <6> QED
            BY <1>t, <3>3, <5>3, <6>1, <6>2
        <5>4. Len(rows) + 1 \in DOMAIN rows'
          BY <1>t, <3>3
        <5> QED
          BY <3>3, <5>1, <5>3, <5>4
      <4> QED
        BY <4>1, <4>2
    <3>9. RowsInOrder'
      <4>1. \A j \in DOMAIN rows' : \A s \in 1 .. Len(log') :
              s < rows'[j].event /\ Reported(s)' => HasRow(s)'
        BY <2>0, <3>4, <3>7 DEF Reported
      <4>2. \A s \in 1 .. Len(log') : HasRow(s)' =>
              \E i \in DOMAIN rows' : /\ rows'[i].event = s
                   /\ \A j \in DOMAIN rows' : rows'[j].event > s => i < j
        BY <2>0, <3>8
      <4> QED
        BY <4>1, <4>2 DEF RowsInOrder, RowsOf
    <3> QED
      BY <3>5, <3>9 DEF RowsComplete, HasReported, RowsInOrder
  <2>4. CASE ~Insert
    <3>1. job.step \notin {"none", "insert"} \/ hook' = "stopped"
      BY <2>0, <2>4 DEF HookStep, ReadSecret, CountAttempt, Post, SettleRow, StoreFails
    <3>2. job.step # "none"
      BY <2>0, <2>4 DEF HookStep, ReadSecret, CountAttempt, Post, SettleRow, StoreFails
    <3>3. /\ DOMAIN rows' = DOMAIN rows
          /\ \A i \in DOMAIN rows : rows'[i].event = rows[i].event
      <4>1. CASE SettleRow
        <5>1. rows' = [rows EXCEPT ![Len(rows)].status = job.status]
          BY <4>1 DEF SettleRow
        <5>2. \A i \in DOMAIN rows : rows[i] \in Row
          BY <1>t
        <5>3. \A i \in DOMAIN rows :
                rows'[i] = IF i = Len(rows) THEN [rows[i] EXCEPT !.status = job.status]
                           ELSE rows[i]
          BY <1>t, <5>1
        <5> QED
          BY <5>1, <5>2, <5>3 DEF Row
      <4>2. CASE UNCHANGED rows
        BY <4>2
      <4> QED
        BY <2>0, <2>4, <4>1, <4>2 DEF HookStep, ReadSecret, CountAttempt, Post, StoreFails
    <3>4. \A s : (HasRow(s)' <=> HasRow(s)) /\ RowsOf(s)' = RowsOf(s)
      BY <3>3 DEF HasRow, RowsOf
    <3>5. HasReported'
      BY <2>0, <2>1, <2>2, <3>1, <3>2, <3>4 DEF HasReported, Reported
    <3>6. RowsInOrder'
      BY <2>0, <2>1, <3>3, <3>4 DEF RowsInOrder, Reported
    <3> QED
      BY <3>5, <3>6 DEF RowsComplete, HasReported, RowsInOrder
  <2> QED
    BY <2>3, <2>4
<1> QED
  BY <1>1, <1>2, <1>3, <1>5, <1>6, <1>7, NextCases

LEMMA HookHolds == Spec => []HookInv
<1>1. Init => HookInv
  <2> SUFFICES ASSUME Init PROVE HookInv
    OBVIOUS
  <2>1. hook = "off" /\ job = NoJob /\ rows = <<>>
    BY DEF Init, HookInit
  <2>2. /\ reader["main"].pc = "away" /\ reader["main"].at = 0 /\ reader["main"].last = 0
    BY RunStreamAssumption DEF Init, StreamInit
  <2>3. ForwarderOK
    BY <2>1, <2>2 DEF ForwarderOK, NoJob
  <2>4. RowsSettle
    BY <2>1 DEF RowsSettle, NoJob
  <2>5. RowsComplete
    BY <2>1, <2>2 DEF RowsComplete, HasRow, RowsOf
  <2> QED
    BY <2>3, <2>4, <2>5 DEF HookInv
<1>2. TypeInv /\ StreamInv /\ HookInv /\ [Next]_vars => HookInv'
  BY ForwarderStep, RowsSettleStep, RowsCompleteStep DEF HookInv
<1> QED
  BY <1>1, <1>2, Typed, StreamHolds, PTL DEF Spec

\* When the forwarder of a durable run says that the outcome was told, every row of the
\* outbox is settled and the last one is the outcome's; unless the replay buffer overran
\* it, each reply before has a row, in the order of emission (forwardEvents in
\* routes.ts, dispatcher.ts).
THEOREM WebhookCorrect == Spec => []WebhookTellsRun
<1>1. TypeInv /\ HookInv => WebhookTellsRun
  <2> SUFFICES ASSUME TypeInv, HookInv, hook = "told"
               PROVE  /\ \A i \in DOMAIN rows : rows[i].status # "pending"
                      /\ rows # <<>> /\ IsFinal(rows[Len(rows)].event)
                      /\ ~reader["main"].overrun =>
                           \A s \in 1 .. rows[Len(rows)].event :
                             log[s].kind = "reply" => \E i \in RowsOf(s) :
                               \A j \in DOMAIN rows : rows[j].event > s => i < j
    BY DEF WebhookTellsRun
  <2>1. job.step = "none" /\ rows # <<>> /\ IsFinal(rows[Len(rows)].event)
    BY DEF HookInv, ForwarderOK, RowsSettle
  <2>2. \A i \in DOMAIN rows : rows[i].status # "pending"
    BY <2>1 DEF HookInv, RowsSettle
  <2>3. rows \in Seq(Row) /\ Len(rows) \in DOMAIN rows /\ log \in Seq(Event)
    BY <2>1 DEF TypeInv, TypeOK, HookTypeOK, Event
  <2>4. rows[Len(rows)].event \in 1 .. Len(log)
    BY <2>3 DEF HookInv, RowsSettle, Reported
  <2>5. ASSUME ~reader["main"].overrun, NEW s \in 1 .. rows[Len(rows)].event,
               log[s].kind = "reply"
        PROVE  \E i \in RowsOf(s) : \A j \in DOMAIN rows : rows[j].event > s => i < j
    <3>1. s \in 1 .. Len(log) /\ Reported(s)
      BY <2>3, <2>4, <2>5 DEF Reported
    <3>2. s < rows[Len(rows)].event \/ s = rows[Len(rows)].event
      BY <2>3, <2>4, <2>5
    <3>3. HasRow(s)
      BY <2>3, <2>5, <3>1, <3>2 DEF HookInv, RowsComplete, HasRow, RowsOf
    <3> QED
      BY <2>5, <3>1, <3>3 DEF HookInv, RowsComplete
  <2> QED
    BY <2>1, <2>2, <2>5
<1> QED
  BY <1>1, Typed, HookHolds, PTL

-----------------------------------------------------------------------------
(* The stream keeps the promise of RunLog: what each of RunLog's variables stands *)
(* for, and what each move of the stream is to it.                               *)

FinalOf(S) == IF S = {} THEN 0 ELSE CHOOSE s \in S : TRUE
FinalAt    == FinalOf(FinalSeq)
ReadTo     == [r \in Readers |-> IF reader[r].overrun THEN 0 ELSE reader[r].last]
Lossy      == {r \in Readers : reader[r].overrun}
Finished   == {r \in Readers : reader[r].pc = "ended"}

LEMMA OneFinal ==
  ASSUME NEW S, \A s, t \in S : s = t
  PROVE  /\ S = {} => FinalOf(S) = 0
         /\ \A s \in S : FinalOf(S) = s
BY DEF FinalOf

LEMMA LogAppends ==
  ASSUME Len(log') = Len(log) + 1,
         FinalAt' \in {FinalAt} \cup (IF FinalAt = 0 THEN {Len(log')} ELSE {}),
         Lossy \subseteq Lossy', Lossy' # Lossy => Len(log') > BufferSize,
         ReadTo' = [r \in Readers |-> IF r \in Lossy' THEN 0 ELSE ReadTo[r]],
         Finished' = Finished
  PROVE  StreamLog!Append
<1>1. Lossy' \in SUBSET Readers
  BY DEF Lossy
<1> QED
  BY <1>1 DEF StreamLog!Append, StreamLog!Lose, FinalAt, FinalOf, ReadTo, Lossy, Finished

LEMMA LogLags ==
  ASSUME Len(log') = Len(log), FinalAt' = FinalAt,
         Lossy \subseteq Lossy', Lossy' # Lossy => Len(log) > BufferSize,
         ReadTo' = [r \in Readers |-> IF r \in Lossy' THEN 0 ELSE ReadTo[r]],
         Finished' = Finished
  PROVE  StreamLog!Lag
<1>1. Lossy' \in SUBSET Readers
  BY DEF Lossy
<1> QED
  BY <1>1 DEF StreamLog!Lag, StreamLog!Lose, FinalAt, FinalOf, ReadTo, Lossy, Finished

LEMMA LogRead ==
  ASSUME NEW r \in Readers, r \notin Lossy \cup Finished, ReadTo[r] < Len(log),
         ReadTo' = [ReadTo EXCEPT ![r] = @ + 1],
         Len(log') = Len(log), FinalAt' = FinalAt, Lossy' = Lossy, Finished' = Finished
  PROVE  StreamLog!Read(r)
BY DEF StreamLog!Read, FinalAt, FinalOf, ReadTo, Lossy, Finished

LEMMA LogFinished ==
  ASSUME NEW r \in Readers, r \notin Finished, FinalAt # 0,
         r \notin Lossy => ReadTo[r] >= FinalAt, Finished' = Finished \cup {r},
         Len(log') = Len(log), FinalAt' = FinalAt, ReadTo' = ReadTo, Lossy' = Lossy
  PROVE  StreamLog!Finish(r)
BY DEF StreamLog!Finish, FinalAt, FinalOf, ReadTo, Lossy, Finished

LEMMA LogRests ==
  ASSUME Len(log') = Len(log), FinalAt' = FinalAt, ReadTo' = ReadTo, Lossy' = Lossy,
         Finished' = Finished
  PROVE  UNCHANGED StreamLog!vars
BY DEF StreamLog!vars, FinalAt, FinalOf, ReadTo, Lossy, Finished

\* Readers whose phase, place and overrun are the same look the same to RunLog.
LEMMA SameView ==
  ASSUME \A r \in Readers : /\ reader'[r].last = reader[r].last
                            /\ reader'[r].overrun = reader[r].overrun
  PROVE  ReadTo' = ReadTo /\ Lossy' = Lossy
BY DEF ReadTo, Lossy

LEMMA SameLog ==
  ASSUME UNCHANGED log
  PROVE  Len(log') = Len(log) /\ FinalAt' = FinalAt /\ FinalSeq' = FinalSeq
<1>1. FinalSeq' = FinalSeq
  BY DEF FinalSeq
<1> QED
  BY <1>1 DEF FinalAt, FinalOf

LEMMA RecordAppends ==
  ASSUME StreamTypeOK, log \in Seq(Event), NEW e, Record(e),
         FinalAt' \in {FinalAt} \cup (IF FinalAt = 0 THEN {Len(log')} ELSE {})
  PROVE  StreamLog!Append
<1>1. Len(log) \in Nat /\ Len(log') = Len(log) + 1
  BY LogGrows
<1>2. BufferSize \in Nat /\ reader \in [Readers -> Reader]
  BY EventStreamAssumption DEF StreamTypeOK
<1>3. ASSUME NEW r \in Readers
      PROVE  /\ reader'[r].last = reader[r].last /\ reader'[r].pc = reader[r].pc
             /\ reader[r].overrun => reader'[r].overrun
             /\ reader'[r].overrun /\ ~reader[r].overrun => Len(log) >= BufferSize
  <2>1. /\ reader[r] \in Reader
        /\ reader'[r] = [reader[r] EXCEPT !.overrun =
             reader[r].overrun \/ (reader[r].pc = "replay" /\ Len(log) >= BufferSize)]
    BY <1>2, <1>3 DEF Record
  <2>2. reader'[r].last = reader[r].last /\ reader'[r].pc = reader[r].pc
    BY <2>1 DEF Reader
  <2>3. reader'[r].overrun =
          (reader[r].overrun \/ (reader[r].pc = "replay" /\ Len(log) >= BufferSize))
    BY <2>1 DEF Reader
  <2> QED
    BY <2>2, <2>3
<1>4. Lossy \subseteq Lossy'
  BY <1>3 DEF Lossy
<1>5. Lossy' # Lossy => Len(log') > BufferSize
  <2>1. ASSUME NEW r \in Readers, reader'[r].overrun, ~reader[r].overrun
        PROVE  Len(log') > BufferSize
    BY <1>1, <1>2, <1>3, <2>1
  <2> QED
    BY <1>4, <2>1 DEF Lossy
<1>6. ReadTo' = [r \in Readers |-> IF r \in Lossy' THEN 0 ELSE ReadTo[r]]
  BY <1>3 DEF ReadTo, Lossy
<1>7. Finished' = Finished
  BY <1>3 DEF Finished
<1> QED
  BY <1>1, <1>4, <1>5, <1>6, <1>7, LogAppends

\* A reader that leaves its loop.
LEMMA PhaseChanges ==
  ASSUME StreamTypeOK, NEW r \in Readers, NEW p \in Phases, Attached(r),
         reader' = [reader EXCEPT ![r].pc = p], UNCHANGED log
  PROVE  /\ ReadTo' = ReadTo /\ Lossy' = Lossy /\ r \notin Finished
         /\ Finished' = IF p = "ended" THEN Finished \cup {r} ELSE Finished
<1>1. reader \in [Readers -> Reader]
  BY DEF StreamTypeOK
<1>2. ASSUME NEW q \in Readers
      PROVE  /\ reader'[q].last = reader[q].last /\ reader'[q].overrun = reader[q].overrun
             /\ reader'[q].pc = IF q = r THEN p ELSE reader[q].pc
  BY <1>1, <1>2 DEF Reader
<1>3. reader[r].pc # "ended"
  BY DEF Attached
<1> QED
  BY <1>2, <1>3, SameView DEF Finished

\* A reader that leaves for good has read the final event, if it was not overrun.
LEMMA LeavesAfterFinal ==
  ASSUME TypeInv, StreamInv, NEW r \in Readers, Attached(r),
         reader' = [reader EXCEPT ![r].pc = "ended"], UNCHANGED log,
         NEW f \in FinalSeq, ~reader[r].overrun => f <= reader[r].last
  PROVE  StreamLog!Finish(r)
<1>1. StreamTypeOK /\ "ended" \in Phases
  BY DEF TypeInv, TypeOK, Phases
<1>2. /\ ReadTo' = ReadTo /\ Lossy' = Lossy /\ r \notin Finished
      /\ Finished' = Finished \cup {r}
  BY <1>1, PhaseChanges
<1>3. FinalAt = f /\ f # 0
  <2>1. f \in 1 .. Len(log) /\ log \in Seq(Event)
    BY DEF FinalSeq, TypeInv, TypeOK, Event
  <2>2. f # 0
    BY <2>1
  <2> QED
    BY <2>2, OneFinal DEF StreamInv, FinalAt
<1>4. r \notin Lossy => ReadTo[r] >= FinalAt
  <2>1. f \in Nat /\ reader[r].last \in Nat
    <3>1. f \in 1 .. Len(log) /\ log \in Seq(Event)
      BY DEF FinalSeq, TypeInv, TypeOK, Event
    <3> QED
      BY <1>1, <3>1, ReaderNumbers
  <2> QED
    BY <1>3, <2>1 DEF Lossy, ReadTo
<1> QED
  BY <1>2, <1>3, <1>4, SameLog, LogFinished

LEMMA StreamLogStep ==
  ASSUME TypeInv, StreamInv, ForwarderOK, StreamMove
  PROVE  StreamLog!Next \/ UNCHANGED StreamLog!vars
<1> DEFINE Goal == StreamLog!Next \/ UNCHANGED StreamLog!vars
<1>t. /\ StreamTypeOK /\ log \in Seq(Event) /\ Len(log) \in Nat
      /\ reader \in [Readers -> Reader]
  BY DEF TypeInv, TypeOK, StreamTypeOK, Event
<1>i. /\ \A s, t \in FinalSeq : s = t
      /\ root = "running" <=> FinalSeq = {}
      /\ closing => root # "running"
      /\ \A r \in Readers : ReaderOK(r)
  BY DEF StreamInv
<1>f. ASSUME NEW f \in FinalSeq PROVE f \in Nat /\ f <= Len(log)
  <2>1. f \in 1 .. Len(log)
    BY <1>f DEF FinalSeq
  <2> QED
    BY <1>t, <2>1
<1>0. ASSUME UNCHANGED log,
             \A r \in Readers : /\ reader'[r].last = reader[r].last
                                /\ reader'[r].overrun = reader[r].overrun
                                /\ reader'[r].pc = "ended" <=> reader[r].pc = "ended"
      PROVE  Goal
  <2>1. Finished' = Finished
    BY <1>0 DEF Finished
  <2> QED
    BY <1>0, <2>1, SameLog, SameView, LogRests
<1>1. ASSUME UNCHANGED streamVars \/ Evict PROVE Goal
  BY <1>0, <1>1 DEF streamVars, Evict
<1>2. ASSUME NEW e, Emit(e), e.kind # "final" PROVE Goal
  <2>1. FinalSeq' = FinalSeq
    BY <1>2, <1>t, LogGrows DEF Emit
  <2>2. FinalAt' = FinalAt
    BY <2>1 DEF FinalAt, FinalOf
  <2>3. StreamLog!Append
    BY <1>2, <1>t, <2>2, RecordAppends DEF Emit
  <2> QED
    BY <2>3 DEF StreamLog!Next
<1>3. ASSUME EmitFinal(Plain("final")) PROVE Goal
  <2>1. Plain("final").kind = "final" /\ FinalSeq = {} /\ Record(Plain("final"))
    BY <1>3, <1>i DEF Plain, EmitFinal
  <2>2. FinalSeq' = {Len(log) + 1} /\ Len(log') = Len(log) + 1
    BY <1>t, <2>1, LogGrows
  <2>3. FinalAt = 0
    BY <2>1 DEF FinalAt, FinalOf
  <2>4. FinalAt' = Len(log')
    <3>1. FinalOf({Len(log) + 1}) = Len(log) + 1
      BY DEF FinalOf
    <3> QED
      BY <2>2, <3>1 DEF FinalAt, FinalOf
  <2>5. StreamLog!Append
    BY <1>t, <2>1, <2>3, <2>4, RecordAppends
  <2> QED
    BY <2>5 DEF StreamLog!Next
<1>4. ASSUME CloseReaders PROVE Goal
  <2>1. ASSUME NEW r \in Readers
        PROVE  /\ reader'[r].last = reader[r].last
               /\ reader'[r].overrun = reader[r].overrun
               /\ reader'[r].pc = reader[r].pc
    BY <1>4, <1>t, <2>1 DEF CloseReaders, Reader
  <2> QED
    BY <1>0, <1>4, <2>1 DEF CloseReaders
<1>5. ASSUME NEW r \in Readers, NEW n \in Nat, Subscribe(r, n) PROVE Goal
  <2>1. /\ reader'[r] = [pc |-> "replay", since |-> n, pos |-> 1, next |-> Len(log) + 1,
                         closed |-> FALSE, at |-> reader[r].at, last |-> reader[r].last,
                         overrun |-> reader[r].overrun \/ First(Len(log)) > n + 1]
        /\ \A q \in Readers : q # r => reader'[q] = reader[q]
        /\ log' = log /\ reader[r].pc = "away"
    BY <1>5, <1>t DEF Subscribe
  <2>2. reader'[r].last = reader[r].last /\ reader'[r].pc = "replay"
    BY <2>1
  <2>3. reader'[r].overrun = (reader[r].overrun \/ First(Len(log)) > n + 1)
    BY <2>1
  <2>4. First(Len(log)) > n + 1 => Len(log) > BufferSize
    <3>1. First(Len(log)) \in Nat /\ (First(Len(log)) # 1 => Len(log) > BufferSize)
      BY <1>t, FirstMoves
    <3>2. First(Len(log)) > n + 1 => First(Len(log)) # 1
      BY <1>5, <3>1
    <3> QED
      BY <3>1, <3>2
  <2>5. \A q \in Readers : /\ reader'[q].last = reader[q].last
                           /\ reader[q].overrun => reader'[q].overrun
                           /\ reader'[q].pc = "ended" <=> reader[q].pc = "ended"
    <3>1. reader[r].overrun => reader'[r].overrun
      BY <2>3
    <3> QED
      BY <2>1, <2>2, <3>1
  <2>6. Lossy \subseteq Lossy' /\ Finished' = Finished
    BY <2>5 DEF Lossy, Finished
  <2>7. Lossy' # Lossy => Len(log) > BufferSize
    <3>1. ASSUME NEW q \in Readers, reader'[q].overrun, ~reader[q].overrun
          PROVE  Len(log) > BufferSize
      <4>1. q = r
        BY <2>1, <3>1
      <4>2. First(Len(log)) > n + 1
        BY <2>3, <3>1, <4>1
      <4> QED
        BY <2>4, <4>2
    <3> QED
      BY <2>6, <3>1 DEF Lossy
  <2>8. ReadTo' = [q \in Readers |-> IF q \in Lossy' THEN 0 ELSE ReadTo[q]]
    BY <2>5 DEF ReadTo, Lossy
  <2>9. StreamLog!Lag
    BY <2>1, <2>6, <2>7, <2>8, SameLog, LogLags
  <2> QED
    BY <2>9 DEF StreamLog!Next
<1>6. ASSUME NEW r \in Readers, NEW s \in 1 .. Len(log), Yield(r, s) PROVE Goal
  <2>1. /\ \A q \in Readers : q # r => reader'[q] = reader[q]
        /\ reader'[r].last = Highest(reader[r].last, s)
        /\ reader'[r].overrun = reader[r].overrun /\ reader'[r].pc = reader[r].pc
        /\ reader[r].pc \in {"replay", "live"}
        /\ log' = log
    BY <1>t, <1>6, Handed
  <2>2. Lossy' = Lossy /\ Finished' = Finished /\ r \notin Finished
    BY <2>1 DEF Lossy, Finished
  <2>3. reader[r].last \in Nat /\ s \in Nat /\ s <= Len(log)
    BY <1>t, <1>6, ReaderNumbers
  <2>4. CASE reader[r].overrun \/ s <= reader[r].last
    <3>1. ReadTo' = ReadTo
      BY <2>1, <2>3, <2>4 DEF ReadTo, Highest
    <3> QED
      BY <2>1, <2>2, <3>1, SameLog, LogRests
  <2>5. CASE ~reader[r].overrun /\ ~(s <= reader[r].last)
    <3>1. s = reader[r].last + 1
      <4>1. s <= reader[r].last + 1
        BY <1>t, <1>i, <1>6, <2>5, NextInOrder
      <4> QED
        BY <2>3, <2>5, <4>1
    <3>2. ReadTo[r] = reader[r].last /\ ReadTo[r] < Len(log) /\ r \notin Lossy
      BY <2>3, <2>5, <3>1 DEF ReadTo, Lossy
    <3>3. ReadTo' = [ReadTo EXCEPT ![r] = @ + 1]
      <4>1. reader'[r].last = ReadTo[r] + 1
        BY <2>1, <2>3, <3>1, <3>2 DEF Highest
      <4> QED
        BY <2>1, <2>5, <4>1 DEF ReadTo
    <3>4. StreamLog!Read(r)
      BY <2>1, <2>2, <3>2, <3>3, SameLog, LogRead
    <3> QED
      BY <3>4 DEF StreamLog!Next
  <2> QED
    BY <2>4, <2>5
<1>7. ASSUME NEW r \in Readers, NEW p \in {"live", "away"}, Attached(r),
             reader' = [reader EXCEPT ![r].pc = p], UNCHANGED log
      PROVE  Goal
  <2>1. p \in Phases /\ p # "ended"
    BY <1>7 DEF Phases
  <2>2. ReadTo' = ReadTo /\ Lossy' = Lossy /\ Finished' = Finished
    BY <1>7, <1>t, <2>1, PhaseChanges
  <2> QED
    BY <1>7, <2>2, SameLog, LogRests
<1>8. ASSUME NEW r \in Readers, Return(r) PROVE Goal
  <2>0. Attached(r) /\ UNCHANGED log
    BY <1>8 DEF Return, ReplayEnds, QueueEnds, Attached
  <2>1. CASE ReplayEnds(r) /\ root = "running"
    <3>1. reader' = [reader EXCEPT ![r].pc = "live"]
      BY <2>1 DEF ReplayEnds
    <3> QED
      BY <1>7, <1>8, <2>0, <3>1
  <2>2. CASE (ReplayEnds(r) /\ root # "running") \/ QueueEnds(r)
    <3>1. reader' = [reader EXCEPT ![r].pc = "ended"]
      BY <2>2 DEF ReplayEnds, QueueEnds
    <3>2. ~reader[r].overrun => Len(log) <= reader[r].last
      <4>1. CASE ReplayEnds(r)
        BY <1>t, <1>i, <1>8, <4>1, NothingLeft DEF ReplayEnds
      <4>2. CASE QueueEnds(r)
        <5>1. reader[r].next > Len(log) /\ reader[r].pc = "live"
          BY <4>2 DEF QueueEnds
        <5>2. ~reader[r].overrun => reader[r].next <= reader[r].last + 1
          BY <1>i, <1>8, <5>1 DEF ReaderOK
        <5>3. reader[r].next \in Nat /\ reader[r].last \in Nat
          BY <1>t, <1>8, ReaderNumbers
        <5> QED
          BY <1>t, <5>1, <5>2, <5>3
      <4> QED
        BY <2>2, <4>1, <4>2
    <3>3. root # "running"
      BY <1>i, <1>8, <2>2 DEF QueueEnds, ReaderOK
    <3>4. PICK f : f \in FinalSeq
      BY <1>i, <3>3
    <3>5. ~reader[r].overrun => f <= reader[r].last
      <4>1. f \in Nat /\ f <= Len(log) /\ reader[r].last \in Nat
        BY <1>f, <1>t, <1>8, <3>4, ReaderNumbers
      <4> QED
        BY <1>t, <3>2, <4>1
    <3>6. StreamLog!Finish(r)
      BY <1>8, <2>0, <3>1, <3>4, <3>5, LeavesAfterFinal
    <3> QED
      BY <1>8, <3>6 DEF StreamLog!Next
  <2> QED
    BY <1>8, <2>1, <2>2 DEF Return
<1>9. ASSUME NEW r \in Readers, BreakOff(r, "away") PROVE Goal
  BY <1>7, <1>9 DEF BreakOff
<1>10. ASSUME NEW r \in Readers, Over(r), BreakOff(r, "ended") PROVE Goal
  <2>1. IsFinal(reader[r].at)
    BY <1>10 DEF Over, ForwarderOK
  <2>2. /\ reader[r].at \in Nat /\ reader[r].last \in Nat
        /\ reader[r].at <= reader[r].last /\ reader[r].last <= Len(log)
    BY <1>10, <1>t, <1>i, ReaderNumbers DEF ReaderOK
  <2>3. reader[r].at \in FinalSeq
    <3>1. reader[r].at # 0 /\ log[reader[r].at].kind = "final"
      BY <2>1 DEF IsFinal
    <3>2. reader[r].at \in 1 .. Len(log)
      BY <1>t, <2>2, <3>1
    <3> QED
      BY <3>1, <3>2 DEF FinalSeq
  <2>4. StreamLog!Finish(r)
    BY <1>10, <2>2, <2>3, LeavesAfterFinal DEF BreakOff
  <2> QED
    BY <1>10, <2>4 DEF StreamLog!Next
<1>11. \A r \in Readers : reader[r].at \in Nat
  BY <1>t, ReaderNumbers
<1>12. /\ Plain("reply").kind # "final"
       /\ \A q \in Calls : Requested(q).kind # "final"
  BY DEF Plain, Requested
<1> HIDE DEF Goal
<1>13. Goal
  <2>1. ASSUME NEW r \in Readers, Subscribe(r, 0) \/ Subscribe(r, reader[r].at) PROVE Goal
    BY <1>5, <1>11, <2>1
  <2>2. ASSUME NEW q \in Calls, Emit(Requested(q)) PROVE Goal
    BY <1>2, <1>12, <2>2
  <2>3. ASSUME Emit(Plain("reply")) PROVE Goal
    BY <1>2, <1>12, <2>3
  <2> QED
    BY <1>1, <1>3, <1>4, <1>6, <1>8, <1>9, <1>10, <2>1, <2>2, <2>3 DEF StreamMove
<1> QED
  BY <1>13 DEF Goal

\* The registry's stream implements the log it promises (subscribe and emit of
\* run-registry.ts): whatever the buffer's size and however readers come, replay,
\* break off and resume while events are emitted, one that was not overrun reads every
\* event in order after the one before, and is let go only with or after the final one.
THEOREM StreamKeepsLog == Spec => StreamSpec
<1>1. Init => StreamLog!Init
  <2> SUFFICES ASSUME Init PROVE StreamLog!Init
    OBVIOUS
  <2>1. /\ log = <<Plain("spawn")>>
        /\ \A r \in Readers : /\ reader[r].last = 0 /\ reader[r].overrun = FALSE
                              /\ reader[r].pc = "away"
    BY DEF Init, StreamInit
  <2>2. Len(log) = 1 /\ FinalSeq = {}
    BY <2>1 DEF FinalSeq, Plain
  <2> QED
    BY <2>1, <2>2 DEF StreamLog!Init
<1>2. TypeInv /\ StreamInv /\ HookInv /\ [Next]_vars => [StreamLog!Next]_(StreamLog!vars)
  BY StreamMoves, StreamLogStep DEF HookInv
<1> QED
  BY <1>1, <1>2, Typed, StreamHolds, HookHolds, PTL DEF Spec, StreamSpec, StreamLog!Spec
=============================================================================
