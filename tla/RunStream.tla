------------------------------ MODULE RunStream ------------------------------
(* One root run, its subtree and who follows it.  A durable run (POST /runs)  *)
(* is followed by the webhook forwarder; an attached run (POST /run/stream)   *)
(* by the application that started it, which answers its client tool calls    *)
(* over the same stream; a watched run only by GET /runs/:id/stream, which     *)
(* may break off and resume after the last event it got.  Readers only read    *)
(* the buffer and share nothing else, so one at a time is enough.              *)
EXTENDS EventStream, WebhookDelivery, ClientTools, FiniteSets

CONSTANTS
  Modes,        \* who may follow the run: durable, attached, watched
  MaxEvents,    \* bound: events emitted
  MaxResumes,   \* bound: how often GET /runs/:id/stream is resumed
  MaxPosts,     \* attempts of submitClientToolResult
  None

ASSUME RunStreamAssumption ==
  /\ Modes \subseteq {"durable", "attached", "watched"}
  /\ Readers = {"main", "get"}
  /\ MaxResumes \in Nat /\ MaxPosts \in Nat

VARIABLES
  mode,      \* who follows this run
  aborted,   \* the root's abort signal, which its subtree shares
  resumes,   \* how often GET was resumed
  conn,      \* the attached application's connection
  inbox,     \* the requests written to it and not taken yet
  client     \* the request it handles, with the POSTs it has tried

appVars == <<conn, inbox, client>>
vars == <<streamVars, hookVars, toolVars, mode, aborted, resumes, appVars>>

Plain(kind) == [kind |-> kind, call |-> None]

TypeOK ==
  /\ StreamTypeOK
  /\ HookTypeOK
  /\ ToolsTypeOK
  /\ log \in Seq([kind : {"spawn", "reply", "request", "final"}, call : Calls \cup {None}])
  /\ mode \in Modes
  /\ aborted \in BOOLEAN
  /\ resumes \in 0 .. MaxResumes
  /\ conn \in {"open", "closed"}
  /\ inbox \in Seq(Calls)
  /\ client \in [call : Calls \cup {None}, posts : 0 .. MaxPosts]

Init ==
  /\ StreamInit(Plain("spawn"))
  /\ HookInit
  /\ ToolsInit
  /\ mode \in Modes
  /\ aborted = FALSE
  /\ resumes = 0
  /\ conn = "open"
  /\ inbox = <<>>
  /\ client = [call |-> None, posts |-> 0]

-----------------------------------------------------------------------------
(* The runs of the tree. *)

\* MaxEvents keeps room for the final event.
Room == Len(log) < MaxEvents - (IF root = "running" THEN 1 ELSE 0)

\* The reply tool of any run of the tree.
EmitReply ==
  /\ Room
  /\ Emit(Plain("reply"))
  /\ UNCHANGED <<hookVars, toolVars, mode, aborted, resumes, appVars>>

\* A tool call of any run of the tree.  (While a call of the root itself waits
\* the root cannot end; that only takes behaviours away.)
CallTool(q) ==
  /\ mode = "attached"
  /\ Room
  /\ DispatchCall(q, aborted)
  /\ Emit([kind |-> "request", call |-> q])
  /\ UNCHANGED <<hookVars, mode, aborted, resumes, appVars>>

Cancel ==
  /\ root = "running"
  /\ ~aborted
  /\ aborted' = TRUE
  /\ AbortCalls(Calls)
  /\ UNCHANGED <<streamVars, hookVars, mode, resumes, appVars>>

\* completeRun or failRun of the root.
RootEnds ==
  /\ EmitFinal(Plain("final"))
  /\ UNCHANGED <<hookVars, toolVars, mode, aborted, resumes, appVars>>

RequestExpires(q) ==
  /\ Expire(q)
  /\ UNCHANGED <<streamVars, hookVars, mode, aborted, resumes, appVars>>

RequestForgotten(q) ==
  /\ Cleanup(q)
  /\ UNCHANGED <<streamVars, hookVars, mode, aborted, resumes, appVars>>

-----------------------------------------------------------------------------
(* The registry and the readers. *)

\* The grace period outlives the request that starts the run, so the reader
\* that belongs to the run has subscribed before it is evicted.
Registry ==
  /\ \/ CloseReaders
     \/ /\ mode # "watched" /\ reader["main"].pc = "away" => hook = "stopped"
        /\ Evict
  /\ UNCHANGED <<hookVars, toolVars, mode, aborted, resumes, appVars>>

IsFinal(s) == s # 0 /\ log[s].kind = "final"

MainSubscribes ==
  /\ mode # "watched"
  /\ hook = "off"
  /\ Subscribe("main", 0)
  /\ hook' = "next"
  /\ UNCHANGED <<job, rows, faults, toolVars, mode, aborted, resumes, appVars>>

\* The forwarder takes an event; it dispatches replies and the final event.
HookTakes(s) ==
  /\ mode = "durable"
  /\ hook = "next"
  /\ Yield("main", s)
  /\ IF log[s].kind \in {"reply", "final"}
     THEN Dispatch(s, IsFinal(s))
     ELSE UNCHANGED hookVars
  /\ UNCHANGED <<toolVars, mode, aborted, resumes, appVars>>

HookWorks ==
  /\ HookStep
  /\ UNCHANGED <<streamVars, toolVars, mode, aborted, resumes, appVars>>

\* The forwarder returns after the final event, or stops on an error.
HookReturns ==
  /\ mode = "durable"
  /\ hook \in {"told", "stopped"}
  /\ BreakOff("main", IF hook = "told" THEN "ended" ELSE "away")
  /\ UNCHANGED <<hookVars, toolVars, mode, aborted, resumes, appVars>>

\* The SSE response of an attached run takes an event and writes it.
AttachedTakes(s) ==
  /\ mode = "attached"
  /\ ~IsFinal(reader["main"].at)
  /\ Yield("main", s)
  /\ inbox' = IF log[s].kind = "request" /\ conn = "open"
              THEN Append(inbox, log[s].call) ELSE inbox
  /\ UNCHANGED <<hookVars, toolVars, mode, aborted, resumes, conn, client>>

AttachedReturns ==
  /\ mode = "attached"
  /\ IsFinal(reader["main"].at)
  /\ BreakOff("main", "ended")
  /\ UNCHANGED <<hookVars, toolVars, mode, aborted, resumes, appVars>>

\* The consumer of "main" finds nothing to take.  After the replay of a live run
\* it waits for the queue; when the stream is over its loop ends.
MainOver ==
  /\ hook = "next"
  /\ Return("main")
  /\ hook' = IF reader'["main"].pc = "ended" THEN "stopped" ELSE hook
  /\ UNCHANGED <<job, rows, faults, toolVars, mode, aborted, resumes, appVars>>

GetSubscribes ==
  /\ mode = "watched"
  /\ Subscribe("get", reader["get"].at)
  /\ UNCHANGED <<hookVars, toolVars, mode, aborted, resumes, appVars>>

GetTakes ==
  /\ Return("get") \/ \E s \in 1 .. Len(log) : Yield("get", s)
  /\ UNCHANGED <<hookVars, toolVars, mode, aborted, resumes, appVars>>

GetBreaksOff ==
  /\ resumes < MaxResumes
  /\ resumes' = resumes + 1
  /\ BreakOff("get", "away")
  /\ UNCHANGED <<hookVars, toolVars, mode, aborted, appVars>>

-----------------------------------------------------------------------------
(* The attached application. *)

TakeRequest ==
  /\ conn = "open"
  /\ client.call = None
  /\ inbox # <<>>
  /\ client' = [call |-> Head(inbox), posts |-> 0]
  /\ inbox' = Tail(inbox)
  /\ UNCHANGED <<streamVars, hookVars, toolVars, mode, aborted, resumes, conn>>

\* The connection is gone: the worker cancels the run.
Disconnect ==
  /\ conn = "open"
  /\ conn' = "closed"
  /\ inbox' = <<>>
  /\ IF root = "running" /\ ~aborted
     THEN aborted' = TRUE /\ AbortCalls(Calls)
     ELSE UNCHANGED <<aborted, toolVars>>
  /\ UNCHANGED <<streamVars, hookVars, mode, resumes, client>>

\* A result POST whose response arrives: only 404 makes the handler throw.
Answer ==
  /\ conn = "open"
  /\ client.call # None
  /\ client.posts < MaxPosts
  /\ Submit(client.call, TRUE)
  /\ client' = IF Reply(client.call) = "unknown"
               THEN [client EXCEPT !.posts = MaxPosts]
               ELSE [call |-> None, posts |-> 0]
  /\ UNCHANGED <<streamVars, hookVars, mode, aborted, resumes, conn, inbox>>

\* One whose response is lost, so that the application tries again.
AnswerLost ==
  /\ conn = "open"
  /\ client.call # None
  /\ client.posts < MaxPosts
  /\ Submit(client.call, FALSE)
  /\ client' = [client EXCEPT !.posts = @ + 1]
  /\ UNCHANGED <<streamVars, hookVars, mode, aborted, resumes, conn, inbox>>

-----------------------------------------------------------------------------
Main ==
  \/ MainSubscribes
  \/ \E s \in 1 .. Len(log) : HookTakes(s) \/ AttachedTakes(s)
  \/ HookWorks
  \/ HookReturns
  \/ AttachedReturns
  \/ MainOver

Get == GetSubscribes \/ GetTakes

Next ==
  \/ EmitReply
  \/ \E q \in Calls : CallTool(q) \/ RequestExpires(q) \/ RequestForgotten(q)
  \/ Cancel
  \/ RootEnds
  \/ Registry
  \/ Main
  \/ Get
  \/ GetBreaksOff
  \/ TakeRequest
  \/ (mode = "attached" /\ Disconnect)
  \/ Answer
  \/ AnswerLost

Spec == Init /\ [][Next]_vars

\* Timers fire, microtasks run and consumers go on asking for events.  No run
\* has to end, no application has to answer and nobody has to break off.
FairSpec ==
  /\ Spec
  /\ WF_vars(Registry)
  /\ WF_vars(Main)
  /\ WF_vars(GetTakes)
  /\ \A q \in Calls : WF_vars(RequestExpires(q))

-----------------------------------------------------------------------------
(* Properties. *)

\* The registry's stream keeps the promise of a log: a reader that was not
\* overrun by the buffer while it replayed reads every event after the one it
\* resumes from, none out of order for the first time, and is let go only once
\* it has the final event.  (Events may be read twice: replay and queue overlap.)
FinalSeq == {s \in 1 .. Len(log) : log[s].kind = "final"}

StreamLog == INSTANCE RunLog WITH
  Capacity <- BufferSize,
  length <- Len(log),
  final <- IF FinalSeq = {} THEN 0 ELSE CHOOSE s \in FinalSeq : TRUE,
  read <- [r \in Readers |-> IF reader[r].overrun THEN 0 ELSE reader[r].last],
  lossy <- {r \in Readers : reader[r].overrun},
  finished <- {r \in Readers : reader[r].pc = "ended"}

StreamSpec == StreamLog!Spec

\* A webhook whose forwarder says it has told the outcome has, unless the
\* buffer overran it, a settled row for every reply before the outcome, in the
\* order of emission, and the outcome's row after all of them.
RowsOf(s) == {i \in DOMAIN rows : rows[i].event = s}

WebhookTellsRun ==
  hook = "told" =>
    /\ \A i \in DOMAIN rows : rows[i].status # "pending"
    /\ rows # <<>> /\ IsFinal(rows[Len(rows)].event)
    /\ ~reader["main"].overrun =>
         \A s \in 1 .. rows[Len(rows)].event :
           log[s].kind = "reply" =>
             \E i \in RowsOf(s) : \A j \in DOMAIN rows : rows[j].event > s => i < j

\* The application and the run agree on a call: an answer that was accepted is
\* what the tool call got, one that came too late is not, and no call that the
\* application never answered has an answer.
AnswersAgree ==
  \A q \in Calls :
    /\ told[q] \cap {"accepted", "duplicate"} # {} => outcome[q] = "answer"
    /\ "expired" \in told[q] => outcome[q] # "answer"

\* Whoever reads the stream of a run that has ended is let go.
ReadersEnd ==
  \A r \in Readers : (root # "running" /\ Attached(r)) ~> ~Attached(r)

\* No tool call waits for ever on an application that does not answer, not
\* even one dispatched after its run was cancelled.
CallsSettle ==
  \A q \in Calls : outcome[q] = "waiting" ~> outcome[q] # "waiting"
=============================================================================
