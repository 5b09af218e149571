--------------------------- MODULE MemoryEntries ----------------------------
(* The entries of one scope of the memory service: agents write facts, a       *)
(* curation pass reads the active entries, lets a model rewrite them and        *)
(* supersedes what it rewrote, users correct and erase. Every step reads the    *)
(* store, awaits and writes; topics and their descriptions are left out.        *)
EXTENDS Naturals, FiniteSets

CONSTANTS
  Facts,        \* what agents write
  MaxEntries,   \* bound: entries ever put
  MaxRequests,  \* bound: calls of the service
  NoRow

ASSUME MemoryAssumption ==
  /\ MaxEntries \in Nat /\ MaxRequests \in Nat
  /\ NoRow \notin [status : {"active", "superseded"}, by : 0 .. MaxEntries,
                   content : Facts \cup {"rewritten"}]

VARIABLES
  entry,      \* id -> [status, by, content], or NoRow
  carries,    \* id -> the facts the entry stands for
  drawn,      \* ids drawn so far
  edit,       \* call -> its step and what it has read
  told,       \* the facts whose write returned
  erased      \* ids of the entries that were deleted

memoryVars == <<entry, carries, drawn, edit, told, erased>>

Ids == 1 .. MaxEntries
Calls == 1 .. MaxRequests
Rows == {i \in Ids : entry[i] # NoRow}
ActiveIds == {i \in Rows : entry[i].status = "active"}
Unused == [op |-> "none", step |-> "idle", scanned |-> {}, ids |-> {}, new |-> 0]
Goes(c, next) == edit' = [edit EXCEPT ![c] = next]
Done(c) == Goes(c, [edit[c] EXCEPT !.step = "over"])

MemoryInit ==
  /\ entry = [i \in Ids |-> NoRow]
  /\ carries = [i \in Ids |-> {}]
  /\ drawn = 0
  /\ edit = [c \in Calls |-> Unused]
  /\ told = {}
  /\ erased = {}

\* putEntry of a new entry: its id is drawn by the step before.
Draw(c, op, facts, ids) ==
  /\ drawn < MaxEntries
  /\ drawn' = drawn + 1
  /\ carries' = [carries EXCEPT ![drawn'] = facts]
  /\ Goes(c, [edit[c] EXCEPT !.op = op, !.step = "put", !.ids = ids, !.new = drawn'])

\* Calls are numbered in the order in which they begin.
Starts(c) == edit[c] = Unused /\ (c > 1 => edit[c - 1] # Unused)

\* write, after the tagger: known content is not put again. The tagger may name
\* a duplicate itself, which need not be active.
WriteFact(c, fact) ==
  /\ Starts(c)
  /\ \/ /\ \E i \in Rows : fact \in carries[i]
        /\ Goes(c, [Unused EXCEPT !.op = "write", !.step = "over"])
        /\ told' = told \cup {fact}
        /\ UNCHANGED <<carries, drawn>>
     \/ /\ \A i \in ActiveIds : entry[i].content # fact
        /\ Draw(c, "write", {fact}, {})
        /\ UNCHANGED told
  /\ UNCHANGED <<entry, erased>>

\* correct: of an active entry; the replacement stands for what it stood for.
Correct(c, i) ==
  /\ Starts(c)
  /\ i \in ActiveIds
  /\ Draw(c, "correct", carries[i], {i})
  /\ UNCHANGED <<entry, told, erased>>

\* curate reads the active entries, then calls the curator.
Scan(c) ==
  /\ Starts(c)
  /\ Goes(c, [Unused EXCEPT !.op = "curate", !.step = "curating", !.scanned = ActiveIds])
  /\ UNCHANGED <<entry, carries, drawn, told, erased>>

\* One operation of the curator's answer: of the ids it names those that were
\* scanned; the replacement stands for them. Or there are no more.
Rewrite(c, ids) ==
  /\ edit[c].op = "curate" /\ edit[c].step = "curating"
  /\ LET known == ids \cap edit[c].scanned IN
     IF known = {} THEN Done(c) /\ UNCHANGED <<carries, drawn>>
     ELSE Draw(c, "curate", UNION {carries[i] : i \in known}, known)
  /\ UNCHANGED <<entry, told, erased>>

\* The entry is put; a write returns, a rewriting supersedes next.
Put(c) ==
  /\ edit[c].step = "put"
  /\ LET n == edit[c].new
         content == IF edit[c].op = "write" THEN CHOOSE f \in carries[n] : TRUE ELSE "rewritten" IN
     /\ entry' = [entry EXCEPT ![n] = [status |-> "active", by |-> 0, content |-> content]]
     /\ IF edit[c].op = "write" THEN Done(c) /\ told' = told \cup carries[n]
        ELSE Goes(c, [edit[c] EXCEPT !.step = "supersede"]) /\ UNCHANGED told
  /\ UNCHANGED <<carries, drawn, erased>>

Replaced(c, row) == [row EXCEPT !.status = "superseded", !.by = edit[c].new]

\* A pass goes on with the curator's next operation.
AfterRewrite(c) ==
  IF edit[c].op = "curate" THEN Goes(c, [edit[c] EXCEPT !.step = "curating", !.ids = {}, !.new = 0])
  ELSE Done(c)

\* A mutant: a pass supersedes all that it has scanned.
SupersedeScanned(c) ==
  /\ edit[c].step = "supersede"
  /\ LET gone == IF edit[c].op = "curate" THEN edit[c].scanned ELSE edit[c].ids IN
     entry' = [i \in Ids |-> IF i \in gone \cap Rows THEN Replaced(c, entry[i]) ELSE entry[i]]
  /\ AfterRewrite(c)
  /\ UNCHANGED <<carries, drawn, told, erased>>

\* supersede changes the rows that are still there, be they superseded already.
Supersede(c) ==
  /\ edit[c].step = "supersede"
  /\ entry' = [i \in Ids |-> IF i \in edit[c].ids \cap Rows THEN Replaced(c, entry[i]) ELSE entry[i]]
  /\ AfterRewrite(c)
  /\ UNCHANGED <<carries, drawn, told, erased>>

\* deleteEntry, or deleteScope: all the rows there are.
Erase(c, ids) ==
  /\ Starts(c)
  /\ entry' = [i \in Ids |-> IF i \in ids THEN NoRow ELSE entry[i]]
  /\ erased' = erased \cup ids
  /\ Goes(c, [Unused EXCEPT !.op = "erase", !.step = "over"])
  /\ UNCHANGED <<carries, drawn, told>>

\* The store or the curator throws: what the call has put stays.
Throws(c) ==
  /\ edit[c].step \in {"put", "curating", "supersede"}
  /\ Done(c)
  /\ UNCHANGED <<entry, carries, drawn, told, erased>>

MemoryNext ==
  \E c \in Calls :
    \/ \E fact \in Facts : WriteFact(c, fact)
    \/ \E i \in Ids : Correct(c, i) \/ (i \in Rows /\ Erase(c, {i}))
    \/ Scan(c)
    \/ \E ids \in SUBSET Ids : Rewrite(c, ids)
    \/ Put(c)
    \/ Supersede(c)
    \/ Erase(c, Rows)
    \/ Throws(c)

MemorySpec == MemoryInit /\ [][MemoryNext]_memoryVars

-----------------------------------------------------------------------------
(* Properties. *)

\* A fact whose write returned is carried by an active entry, however passes and
\* corrections overlap and wherever they fail, unless an entry that carried it
\* was erased.
FactsKept ==
  \A f \in told : \E i \in ActiveIds \cup erased : f \in carries[i]

\* A superseded entry names a newer one that replaced it, so the trail ends at an
\* active entry or at one that was erased.
TrailLeads ==
  \A i \in Rows \ ActiveIds :
    /\ entry[i].by > i
    /\ entry[i].by \in Rows \cup erased

\* What users may rely on, whatever calls overlap.
MemoryKept == FactsKept /\ TrailLeads

\* "Irreversible erasure": no pass or correction that read an entry before it was
\* erased puts a replacement that stands for it afterwards.
ErasedStaysErased ==
  [][\A c \in Calls : Put(c) => edit[c].ids \cap erased = {}]_memoryVars
=============================================================================
