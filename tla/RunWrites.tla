----------------------------- MODULE RunWrites ------------------------------
(* How the rows of one run reach the store: every status change is put, each   *)
(* put behind the previous one of the run, and an answer waits for the queue.  *)
EXTENDS Naturals

CONSTANTS
  MaxWrites,    \* puts of the run: pending, running, terminal and one more
  Flushers,     \* requests that wait for the queue
  MaxPutFaults  \* bound: puts that throw

ASSUME WriteAssumption == MaxWrites \in Nat

VARIABLES
  write,       \* put -> its state
  behind,      \* put -> the put it waits for, 0 for none
  issued,      \* puts so far: the n-th holds the n-th status
  lastWrite,   \* pendingRunWrites: the last put of the run, 0 for none
  row,         \* the put whose status the store holds
  awaited,     \* flusher -> the put it waits for, 0 before and NoWrite after
  putFaults

writeVars == <<write, behind, issued, lastWrite, row, awaited, putFaults>>

Writes == 1 .. MaxWrites
NoWrite == MaxWrites + 1

WriteInit ==
  /\ write = [w \in Writes |-> "none"]
  /\ behind = [w \in Writes |-> 0]
  /\ issued = 0
  /\ lastWrite = 0
  /\ row = 0
  /\ awaited = [f \in Flushers |-> 0]
  /\ putFaults = 0

\* persistRunInOrder, with the run as it is at this moment.
Persist ==
  /\ issued < MaxWrites
  /\ issued' = issued + 1
  /\ write' = [write EXCEPT ![issued'] = "queued"]
  /\ behind' = [behind EXCEPT ![issued'] = lastWrite]
  /\ lastWrite' = issued'
  /\ UNCHANGED <<row, awaited, putFaults>>

WriteStarts(w) ==
  /\ write[w] = "queued"
  /\ behind[w] # 0 => write[behind[w]] = "settled"
  /\ write' = [write EXCEPT ![w] = "putting"]
  /\ UNCHANGED <<behind, issued, lastWrite, row, awaited, putFaults>>

WriteLands(w) ==
  /\ write[w] = "putting"
  /\ row' = w
  /\ write' = [write EXCEPT ![w] = "landed"]
  /\ UNCHANGED <<behind, issued, lastWrite, awaited, putFaults>>

\* A mutant: the entry goes away whichever put it names.
WriteSettlesAlways(w) ==
  /\ write[w] = "landed"
  /\ write' = [write EXCEPT ![w] = "settled"]
  /\ lastWrite' = 0
  /\ UNCHANGED <<behind, issued, row, awaited, putFaults>>

\* The put returns; the last one of the queue clears its entry.
WriteSettles(w) ==
  /\ write[w] = "landed"
  /\ write' = [write EXCEPT ![w] = "settled"]
  /\ lastWrite' = IF lastWrite = w THEN 0 ELSE lastWrite
  /\ UNCHANGED <<behind, issued, row, awaited, putFaults>>

\* It throws, before or after it took effect: logged, and the queue goes on.
WriteThrows(w) ==
  /\ write[w] \in {"putting", "landed"}
  /\ putFaults < MaxPutFaults
  /\ putFaults' = putFaults + 1
  /\ write' = [write EXCEPT ![w] = "settled"]
  /\ lastWrite' = IF lastWrite = w THEN 0 ELSE lastWrite
  /\ UNCHANGED <<behind, issued, row, awaited>>

\* flushRunPersistence: once what it waited for has settled it looks again.
Flush(f) ==
  /\ awaited[f] # NoWrite
  /\ awaited[f] # 0 => write[awaited[f]] = "settled"
  /\ awaited' = [awaited EXCEPT ![f] = IF lastWrite = 0 THEN NoWrite ELSE lastWrite]
  /\ UNCHANGED <<write, behind, issued, lastWrite, row, putFaults>>

WriteNext ==
  \/ Persist
  \/ \E w \in Writes : WriteStarts(w) \/ WriteLands(w) \/ WriteSettles(w) \/ WriteThrows(w)
  \/ \E f \in Flushers : Flush(f)

WriteSpec == WriteInit /\ [][WriteNext]_writeVars

-----------------------------------------------------------------------------
(* Properties. *)

\* The stored run never goes back to an older status, whatever put is slow or
\* throws; and when a flush returns, every put issued until then has settled, so
\* the store holds the last status whose put did not throw.
WritesInOrder ==
  [][ /\ row' # row => row' > row
      /\ \A f \in Flushers : awaited'[f] = NoWrite /\ awaited[f] # NoWrite =>
           \A w \in 1 .. issued : write[w] = "settled"
    ]_writeVars
=============================================================================
