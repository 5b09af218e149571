---------------------------- MODULE StoreProofs -----------------------------
(* Proofs about what is kept in the stores: the rows of a run, a dataset's     *)
(* import, the versions of an eval and the entries of a memory scope, each for *)
(* any number of writes, chunks, requests and entries, and whatever fails.     *)
EXTENDS RunWrites, DatasetImport, EvalVersions, MemoryEntries, TLAPS

-----------------------------------------------------------------------------
(* RunWrites: puts of one run take effect in the order of its changes.  A put   *)
(* is at work only when all before it have settled, and the store holds one     *)
(* that is older than all that have not taken effect.                           *)

WriteTypes ==
  /\ issued \in 0 .. MaxWrites /\ row \in Nat /\ lastWrite \in 0 .. issued
  /\ write \in [Writes -> {"none", "queued", "putting", "landed", "settled"}]
  /\ behind \in [Writes -> 0 .. MaxWrites]
  /\ awaited \in [Flushers -> 0 .. NoWrite]

SettledBefore(w) == \A u \in Writes : u < w => write[u] = "settled"

WriteInv ==
  /\ WriteTypes
  /\ \A w \in Writes : write[w] = "none" <=> w > issued
  /\ lastWrite # 0 => lastWrite = issued /\ write[lastWrite] # "settled"
  /\ lastWrite = 0 => SettledBefore(issued + 1)
  /\ \A w \in Writes : w <= issued =>
       IF behind[w] = 0 THEN SettledBefore(w) ELSE behind[w] = w - 1
  /\ \A w \in Writes : write[w] \in {"putting", "landed", "settled"} => SettledBefore(w)
  /\ \A w \in Writes : write[w] \in {"none", "queued", "putting"} => row < w

LEMMA WriteInvInit == WriteInit => WriteInv
  <1> SUFFICES ASSUME WriteInit PROVE WriteInv
    OBVIOUS
  <1> USE WriteAssumption DEF WriteInit, Writes, NoWrite
  <1>1. WriteTypes
    BY DEF WriteTypes
  <1> QED
    BY <1>1 DEF WriteInv, SettledBefore

\* A put that comes to an end was the only one at work.
LEMMA WriteSettling ==
  ASSUME WriteInv, NEW w \in Writes, write[w] \in {"putting", "landed"},
         write' = [write EXCEPT ![w] = "settled"],
         lastWrite' = (IF lastWrite = w THEN 0 ELSE lastWrite),
         UNCHANGED <<behind, issued, row, awaited>>
  PROVE  WriteInv'
  <1> USE WriteAssumption DEF Writes, NoWrite
  <1>1. /\ WriteTypes /\ w \in 1 .. issued
        /\ \A u \in Writes : u < w => write[u] = "settled"
    BY DEF WriteInv, WriteTypes, SettledBefore
  <1>2. WriteTypes'
    BY <1>1 DEF WriteTypes
  <1>3. /\ write'[w] = "settled" /\ \A u \in Writes \ {w} : write'[u] = write[u]
        /\ issued \in Nat /\ issued <= MaxWrites
    BY <1>1 DEF WriteTypes
  <1>4. \A u \in Writes : SettledBefore(u) => SettledBefore(u)'
    BY <1>3 DEF SettledBefore
  <1>5. \A u \in Writes : write'[u] = "none" <=> u > issued'
    BY <1>1, <1>3 DEF WriteInv
  <1>6. lastWrite' # 0 => lastWrite' = issued' /\ write'[lastWrite'] # "settled"
    <2> SUFFICES ASSUME lastWrite' # 0 PROVE lastWrite' = issued' /\ write'[lastWrite'] # "settled"
      OBVIOUS
    <2>1. lastWrite # w /\ lastWrite' = lastWrite
      OBVIOUS
    <2>2. lastWrite = issued /\ write[lastWrite] # "settled" /\ lastWrite \in Writes
      BY <2>1, <1>1, <1>3 DEF WriteInv, WriteTypes
    <2> QED
      BY <2>1, <2>2, <1>3
  <1>7. lastWrite' = 0 => SettledBefore(issued + 1)'
    <2>1. CASE lastWrite = 0
      <3>1. SettledBefore(issued + 1)
        BY <2>1 DEF WriteInv
      <3> QED
        BY <3>1, <1>3 DEF SettledBefore
    <2>2. CASE lastWrite = w
      <3>1. w = issued
        BY <2>2, <1>1 DEF WriteInv
      <3> QED
        BY <3>1, <1>1, <1>3 DEF SettledBefore
    <2> QED
      BY <2>1, <2>2, <1>1 DEF WriteTypes
  <1>8. \A u \in Writes : u <= issued' =>
          IF behind'[u] = 0 THEN SettledBefore(u)' ELSE behind'[u] = u - 1
    BY <1>4, <1>3 DEF WriteInv
  <1>9. \A u \in Writes : write'[u] \in {"putting", "landed", "settled"} => SettledBefore(u)'
    BY <1>3, <1>4 DEF WriteInv
  <1>10. \A u \in Writes : write'[u] \in {"none", "queued", "putting"} => row' < u
    BY <1>3 DEF WriteInv
  <1> QED
    BY <1>2, <1>5, <1>6, <1>7, <1>8, <1>9, <1>10 DEF WriteInv

LEMMA WriteInvPersist ==
  ASSUME WriteInv, Persist
  PROVE  WriteInv'
  <1> DEFINE n == issued + 1
  <1> USE WriteAssumption DEF Writes, NoWrite
  <1>1. /\ issued \in Nat /\ issued < MaxWrites /\ n \in Writes /\ issued' = n
        /\ row \in Nat /\ lastWrite \in 0 .. issued
    BY DEF WriteInv, WriteTypes, Persist
  <1>2. /\ write'[n] = "queued" /\ behind'[n] = lastWrite /\ lastWrite' = n
        /\ \A u \in Writes \ {n} : write'[u] = write[u] /\ behind'[u] = behind[u]
    BY <1>1 DEF WriteInv, WriteTypes, Persist
  <1>3. WriteTypes'
    BY <1>1 DEF WriteInv, WriteTypes, Persist
  <1>4. row' = row
    BY DEF Persist
  <1>5. \A u \in Writes : u > issued <=> write[u] = "none"
    BY DEF WriteInv
  <1>6. \A u \in Writes : u <= n /\ SettledBefore(u) => SettledBefore(u)'
    BY <1>1, <1>2 DEF SettledBefore
  <1>7. \A u \in Writes : write'[u] = "none" <=> u > issued'
    BY <1>1, <1>2, <1>5
  <1>8. \A u \in Writes : u <= issued' =>
          IF behind'[u] = 0 THEN SettledBefore(u)' ELSE behind'[u] = u - 1
    <2>1. lastWrite # 0 => lastWrite = n - 1
      BY <1>1 DEF WriteInv
    <2>2. lastWrite = 0 => \A u \in Writes : u < n => write'[u] = "settled"
      BY <1>2, <1>1 DEF WriteInv, SettledBefore
    <2> QED
      BY <2>1, <2>2, <1>1, <1>2, <1>6 DEF WriteInv, SettledBefore
  <1>9. \A u \in Writes : write'[u] \in {"putting", "landed", "settled"} => SettledBefore(u)'
    BY <1>1, <1>2, <1>5, <1>6 DEF WriteInv
  <1>10. \A u \in Writes : write'[u] \in {"none", "queued", "putting"} => row' < u
    BY <1>1, <1>2, <1>4, <1>5 DEF WriteInv
  <1> QED
    BY <1>1, <1>2, <1>3, <1>7, <1>8, <1>9, <1>10 DEF WriteInv

LEMMA WriteInvStep ==
  ASSUME WriteInv, [WriteNext]_writeVars
  PROVE  WriteInv'
  <1> USE WriteAssumption DEF Writes, NoWrite
  <1>1. CASE Persist
    BY <1>1, WriteInvPersist
  <1>2. ASSUME NEW w \in Writes, WriteStarts(w)
        PROVE  WriteInv'
    <2>1. /\ write[w] = "queued" /\ write'[w] = "putting" /\ w <= issued
          /\ \A u \in Writes \ {w} : write'[u] = write[u]
      BY <1>2 DEF WriteInv, WriteTypes, WriteStarts
    <2>2. WriteTypes'
      BY <1>2 DEF WriteInv, WriteTypes, WriteStarts
    <2>3. UNCHANGED <<behind, issued, lastWrite, row>>
      BY <1>2 DEF WriteStarts
    <2>4. \A u \in Nat : SettledBefore(u) => SettledBefore(u)'
      BY <2>1 DEF SettledBefore
    <2>5. SettledBefore(w)
      <3>1. CASE behind[w] = 0
        BY <3>1, <2>1 DEF WriteInv
      <3>2. CASE behind[w] # 0
        <4>1. behind[w] = w - 1 /\ behind[w] \in Writes /\ write[behind[w]] = "settled"
          BY <3>2, <2>1, <1>2 DEF WriteInv, WriteTypes, WriteStarts
        <4>2. SettledBefore(w - 1)
          BY <4>1 DEF WriteInv
        <4> QED
          BY <4>1, <4>2 DEF SettledBefore
      <3> QED
        BY <3>1, <3>2
    <2>6. issued \in Nat
      BY DEF WriteInv, WriteTypes
    <2>7. (lastWrite = 0 => SettledBefore(issued + 1))'
      BY <2>3, <2>4, <2>6 DEF WriteInv
    <2>8. (lastWrite # 0 => lastWrite = issued /\ write[lastWrite] # "settled")'
      BY <2>1, <2>3 DEF WriteInv, WriteTypes
    <2>9. \A u \in Writes : u <= issued' =>
            IF behind'[u] = 0 THEN SettledBefore(u)' ELSE behind'[u] = u - 1
      BY <2>3, <2>4 DEF WriteInv
    <2>10. \A u \in Writes : write'[u] = "none" <=> u > issued'
      BY <2>1, <2>3, <2>6 DEF WriteInv
    <2>11. \A u \in Writes : write'[u] \in {"putting", "landed", "settled"} => SettledBefore(u)'
      BY <2>1, <2>4, <2>5 DEF WriteInv
    <2>12. \A u \in Writes : write'[u] \in {"none", "queued", "putting"} => row' < u
      BY <2>1, <2>3 DEF WriteInv
    <2> QED
      BY <2>2, <2>7, <2>8, <2>9, <2>10, <2>11, <2>12 DEF WriteInv
  <1>3. ASSUME NEW w \in Writes, WriteLands(w)
        PROVE  WriteInv'
    <2>1. /\ write[w] = "putting" /\ write'[w] = "landed" /\ row' = w
          /\ \A u \in Writes \ {w} : write'[u] = write[u]
      BY <1>3 DEF WriteInv, WriteTypes, WriteLands
    <2>2. WriteTypes'
      BY <1>3 DEF WriteInv, WriteTypes, WriteLands
    <2>3. UNCHANGED <<behind, issued, lastWrite>>
      BY <1>3 DEF WriteLands
    <2>4. \A u \in Nat : SettledBefore(u) => SettledBefore(u)'
      BY <2>1 DEF SettledBefore
    <2>5. SettledBefore(w)
      BY <2>1 DEF WriteInv
    <2>6. \A u \in Writes : write'[u] \in {"none", "queued", "putting"} => row' < u
      BY <2>1, <2>5 DEF SettledBefore
    <2>7. issued \in Nat
      BY DEF WriteInv, WriteTypes
    <2>8. (lastWrite = 0 => SettledBefore(issued + 1))'
      BY <2>3, <2>4, <2>7 DEF WriteInv
    <2>9. (lastWrite # 0 => lastWrite = issued /\ write[lastWrite] # "settled")'
      BY <2>1, <2>3 DEF WriteInv, WriteTypes
    <2>10. \A u \in Writes : u <= issued' =>
            IF behind'[u] = 0 THEN SettledBefore(u)' ELSE behind'[u] = u - 1
      BY <2>3, <2>4 DEF WriteInv
    <2>11. \A u \in Writes : write'[u] = "none" <=> u > issued'
      BY <2>1, <2>3, <2>7 DEF WriteInv
    <2>12. \A u \in Writes : write'[u] \in {"putting", "landed", "settled"} => SettledBefore(u)'
      BY <2>1, <2>4, <2>5 DEF WriteInv
    <2> QED
      BY <2>2, <2>6, <2>8, <2>9, <2>10, <2>11, <2>12 DEF WriteInv
  <1>4. ASSUME NEW w \in Writes, WriteSettles(w) \/ WriteThrows(w)
        PROVE  WriteInv'
    BY <1>4, WriteSettling DEF WriteSettles, WriteThrows
  <1>5. ASSUME NEW f \in Flushers, Flush(f)
        PROVE  WriteInv'
    <2>1. WriteTypes'
      BY <1>5 DEF WriteInv, WriteTypes, Flush
    <2> QED
      BY <2>1, <1>5 DEF WriteInv, SettledBefore, Flush
  <1>6. CASE UNCHANGED writeVars
    BY <1>6 DEF writeVars, WriteInv, WriteTypes, SettledBefore
  <1> QED
    BY <1>1, <1>2, <1>3, <1>4, <1>5, <1>6 DEF WriteNext

\* What a run's row holds never goes back to an older status, and a flush returns
\* only when all puts issued until then have settled, for any number of puts and
\* of requests that wait, and however many puts throw (persistRunInOrder and
\* flushRunPersistence of the worker's routes).
THEOREM RowsInOrder == WriteSpec => WritesInOrder
  <1> DEFINE Rises == row' # row => row' > row
             Drained == \A f \in Flushers : awaited'[f] = NoWrite /\ awaited[f] # NoWrite =>
                          \A w \in 1 .. issued : write[w] = "settled"
  <1>1. ASSUME WriteInv, WriteNext PROVE Rises /\ Drained
    <2>1. Rises
      <3>1. ASSUME NEW w \in Writes, WriteLands(w) PROVE row < w
        BY <1>1, <3>1 DEF WriteInv, WriteLands
      <3> QED
        BY <1>1, <3>1 DEF WriteNext, Persist, WriteStarts, WriteLands, WriteSettles, WriteThrows,
                        Flush, WriteInv, WriteTypes, Writes
    <2>2. ASSUME NEW f \in Flushers, awaited'[f] = NoWrite, awaited[f] # NoWrite
          PROVE  \A w \in 1 .. issued : write[w] = "settled"
      <3>1. PICK g \in Flushers : Flush(g)
        BY <1>1, <2>2 DEF WriteNext, Persist, WriteStarts, WriteLands, WriteSettles, WriteThrows
      <3>2. awaited'[f] = (IF g = f THEN IF lastWrite = 0 THEN NoWrite ELSE lastWrite ELSE awaited[f])
        BY <1>1, <3>1 DEF WriteInv, WriteTypes, Flush
      <3>3. lastWrite \in 0 .. issued /\ issued \in 0 .. MaxWrites
        BY <1>1 DEF WriteInv, WriteTypes
      <3>4. lastWrite = 0
        BY <2>2, <3>2, <3>3, WriteAssumption DEF NoWrite
      <3>5. SettledBefore(issued + 1)
        BY <1>1, <3>4 DEF WriteInv
      <3> QED
        BY <3>3, <3>5, WriteAssumption DEF SettledBefore, Writes
    <2> QED
      BY <2>1, <2>2
  <1>2. WriteInv /\ [WriteNext]_writeVars => [Rises /\ Drained]_writeVars
    BY <1>1
  <1> QED
    BY <1>2, WriteInvInit, WriteInvStep, PTL DEF WriteSpec, WritesInOrder

-----------------------------------------------------------------------------
(* DatasetImport: requests go out one by one, each after the one before is ok,  *)
(* or the delete instead; whoever holds the row's lock sees the whole import.   *)

Stored == {q \in Source : request[q] = "ok"}

ImportTypes ==
  /\ importRow \in {"none", "open", "completed"} /\ itemCount \in Nat
  /\ rowLock \in Requests \cup {Free}
  /\ request \in [Requests -> {"none", "sent", "checked", "locked", "copied", "items", "ok", "error"}]
  /\ importer \in Requests \cup {Threw, Returned}

InTurn ==
  /\ \A q \in Requests \ {Delete} : \A p \in Requests :
       p < q /\ request[q] # "none" => request[p] = "ok"
  /\ \A q \in Requests : q > importer => request[q] = "none"
  /\ importer \in Source \cup {Complete} => request[Delete] = "none"
  /\ request[Delete] # "none" => request[Create] = "ok"
  /\ importer \in Requests => request[importer] # "none"
  /\ importer = Returned => request[Complete] = "ok"

LockHeld ==
  /\ \A r \in Requests : request[r] \in {"locked", "copied"} <=> rowLock = r
  /\ \A r \in Requests : request[r] \in {"locked", "copied"} => r \in Source \cup {Complete}
  /\ \A r \in Requests : request[r] \in {"checked", "copied"} => r = Complete
  /\ request[Create] \in {"none", "sent", "ok", "error"}
  /\ rowLock # Free => importRow = "open"

WholeImport ==
  /\ request[Create] # "ok" => importRow = "none" /\ staged = {}
  /\ request[Delete] = "ok" => importRow = "none"
  /\ importRow = "open" => staged = Stored
  /\ Stored = 1 .. itemCount
  /\ request[Complete] = "copied" => copied = staged
  /\ request[Complete] = "ok" <=> published # NotPublished
  /\ published # NotPublished => published = [chunks |-> Source, count |-> Chunks]

ImportInv == ImportTypes /\ InTurn /\ LockHeld /\ WholeImport

LEMMA ImportInvInit == ImportInit => ImportInv
  <1> SUFFICES ASSUME ImportInit PROVE ImportInv
    OBVIOUS
  <1> USE ImportAssumption DEF ImportInit, Requests, Source, Create, Complete, Delete, Free, Threw, Returned
  <1>1. ImportTypes
    BY DEF ImportTypes
  <1>2. InTurn
    BY DEF InTurn
  <1>3. LockHeld
    BY DEF LockHeld
  <1>4. WholeImport
    BY DEF WholeImport, Stored
  <1> QED
    BY <1>1, <1>2, <1>3, <1>4 DEF ImportInv

\* One request moves on in the store: not out of "ok", nor into or out of "none".
Served(r, state) ==
  /\ r \in Requests /\ request[r] \notin {"none", "ok"}
  /\ state # "none"
  /\ request' = [request EXCEPT ![r] = state]
  /\ importer' = importer

LEMMA ServedChanges ==
  ASSUME ImportTypes, NEW r, NEW state, Served(r, state)
  PROVE  /\ request'[r] = state
         /\ \A q \in Requests \ {r} : request'[q] = request[q]
  BY DEF ImportTypes, Served

LEMMA ServedInTurn ==
  ASSUME ImportTypes, InTurn, NEW r, NEW state, Served(r, state)
  PROVE  InTurn'
  <1> USE ImportAssumption DEF Requests, Source, Create, Complete, Delete, Free, Threw, Returned
  <1>1. /\ \A q \in Requests : request'[q] = "none" <=> request[q] = "none"
        /\ \A q \in Requests : request[q] = "ok" => request'[q] = "ok"
    BY ServedChanges DEF Served
  <1>2. importer' = importer
    BY DEF Served
  <1>3. (\A q \in Requests \ {Delete} : \A p \in Requests :
          p < q /\ request[q] # "none" => request[p] = "ok")'
    BY <1>1 DEF InTurn
  <1>4. (\A q \in Requests : q > importer => request[q] = "none")'
    BY <1>1, <1>2 DEF InTurn
  <1>5. Create \in Requests /\ Complete \in Requests /\ Delete \in Requests
    OBVIOUS
  <1>6. (importer \in Requests => request[importer] # "none")'
    BY <1>1, <1>2 DEF InTurn
  <1> QED
    BY <1>1, <1>2, <1>3, <1>4, <1>5, <1>6 DEF InTurn

\* The client's steps: a request that was not sent is sent, or it waits no longer.
Sent(r) ==
  /\ r \in Requests /\ request[r] = "none"
  /\ request' = [request EXCEPT ![r] = "sent"]
  /\ UNCHANGED Tables

LEMMA SentTables ==
  ASSUME ImportInv, NEW r, Sent(r), r # Create
  PROVE  LockHeld' /\ WholeImport'
  <1> USE ImportAssumption DEF Requests, Source, Create, Complete, Delete, Free, Threw, Returned
  <1>1. /\ request'[r] = "sent" /\ request[r] = "none" /\ r \in Requests
        /\ \A q \in Requests \ {r} : request'[q] = request[q]
    BY DEF Sent, ImportInv, ImportTypes
  <1>2. UNCHANGED <<importRow, itemCount, rowLock, staged, copied, condemned, published>>
    BY DEF Sent, Tables
  <1>3. \A s \in {"checked", "locked", "copied", "items", "ok"} : \A q \in Requests :
          request'[q] = s <=> request[q] = s
    BY <1>1
  <1>4. LockHeld'
    BY <1>1, <1>2, <1>3 DEF ImportInv, LockHeld
  <1>5. Stored' = Stored
    BY <1>3 DEF Stored
  <1>6. WholeImport'
    BY <1>2, <1>3, <1>5 DEF ImportInv, WholeImport
  <1> QED
    BY <1>4, <1>6

LEMMA ClientSteps ==
  ASSUME ImportInv, NEW r \in Requests, Answer(r) \/ GiveUp(r)
  PROVE  ImportInv'
  <1> USE ImportAssumption DEF Requests, Source, Create, Complete, Delete, Free, Threw, Returned
  <1>1. importer = r /\ UNCHANGED Tables
    BY DEF Answer, GiveUp
  <1>2. /\ ImportTypes /\ InTurn /\ LockHeld /\ WholeImport
        /\ request \in [Requests -> {"none", "sent", "checked", "locked", "copied", "items", "ok", "error"}]
    BY DEF ImportInv, ImportTypes
  <1>3. CASE request' = request /\ importer' \in {Threw, Returned}
             /\ (importer' = Returned => request[Complete] = "ok")
    <2>1. InTurn'
      BY <1>1, <1>2, <1>3 DEF InTurn
    <2>2. LockHeld' /\ WholeImport'
      BY <1>1, <1>2, <1>3 DEF LockHeld, WholeImport, Stored, Tables
    <2>3. ImportTypes'
      BY <1>1, <1>2, <1>3 DEF ImportTypes, Tables
    <2> QED
      BY <2>1, <2>2, <2>3 DEF ImportInv
  <1>4. ASSUME NEW s \in Requests \ {Create}, importer' = s, Sent(s),
               \/ s = Delete /\ r \in Source \cup {Complete}
               \/ s = r + 1 /\ r < Complete /\ request[r] = "ok"
        PROVE  ImportInv'
    <2>1. /\ request'[s] = "sent"
          /\ \A q \in Requests \ {s} : request'[q] = request[q]
          /\ \A q \in Requests : request[q] = "ok" => request'[q] = "ok"
      BY <1>2, <1>4 DEF Sent
    <2>2. request[r] # "none" /\ request[Create] = "ok"
      BY <1>1, <1>2, <1>4 DEF InTurn
    <2>3. (\A q \in Requests \ {Delete} : \A p \in Requests :
            p < q /\ request[q] # "none" => request[p] = "ok")'
      <3> SUFFICES ASSUME NEW q \in Requests \ {Delete}, NEW p \in Requests, p < q,
                          request'[q] # "none"
                   PROVE  request[p] = "ok"
        BY <2>1
      <3>1. CASE q # s
        BY <3>1, <2>1, <1>2 DEF InTurn
      <3>2. CASE q = s
        <4>1. s = r + 1 /\ request[r] = "ok" /\ (p = r \/ p < r) /\ r # Delete
          BY <3>2, <1>4
        <4> QED
          BY <4>1, <1>2, <2>2 DEF InTurn
      <3> QED
        BY <3>1, <3>2
    <2>4. (\A q \in Requests : q > importer => request[q] = "none")'
      <3> SUFFICES ASSUME NEW q \in Requests, q > s PROVE request[q] = "none"
        BY <2>1, <1>4
      <3> QED
        BY <1>1, <1>2, <1>4 DEF InTurn
    <2>5. InTurn'
      BY <2>1, <2>2, <2>3, <2>4, <1>1, <1>2, <1>4 DEF InTurn
    <2>6. ImportTypes'
      BY <1>1, <1>2, <1>4 DEF ImportTypes, Tables, Sent
    <2> QED
      BY <2>5, <2>6, <1>4, SentTables DEF ImportInv
  <1>5. ASSUME r \in Source \cup {Complete}, Send(Delete) PROVE ImportInv'
    <2>1. request[Delete] = "none"
      BY <1>1, <1>2, <1>5 DEF InTurn
    <2>2. PICK s \in Requests \ {Create} : s = Delete
      OBVIOUS
    <2>3. Sent(s) /\ importer' = s
      BY <2>1, <2>2, <1>1, <1>5 DEF Send, Serve, Sent
    <2>4. s = Delete /\ r \in Source \cup {Complete}
      BY <2>2, <1>5
    <2> HIDE DEF Requests, Source, Create, Complete, Delete, Free, Threw, Returned
    <2> QED
      BY <2>2, <2>3, <2>4, <1>4
  <1>6. ASSUME r < Complete, request[r] = "ok", Send(r + 1) PROVE ImportInv'
    <2>1. request[r + 1] = "none" /\ r + 1 \in Requests \ {Create}
      BY <1>1, <1>2, <1>6 DEF InTurn
    <2> QED
      BY <2>1, <1>1, <1>4, <1>6 DEF Send, Serve, Sent
  <1>7. CASE Answer(r)
    BY <1>7, <1>3, <1>5, <1>6 DEF Answer, Settle
  <1>8. CASE GiveUp(r)
    <2>1. CASE r \in {Create, Delete}
      BY <2>1, <1>8, <1>3 DEF GiveUp, Settle
    <2>2. CASE r \notin {Create, Delete}
      BY <2>2, <1>8, <1>5 DEF GiveUp
    <2> QED
      BY <2>1, <2>2
  <1> QED
    BY <1>7, <1>8

\* The store's steps but those that commit.
LEMMA StoreSteps ==
  ASSUME ImportInv, NEW r, NEW state, Served(r, state), UNCHANGED <<importRow, itemCount, published>>,
         state \in {"checked", "locked", "copied", "items", "error"},
         state = "checked" => r = Complete,
         state \in {"locked", "copied"} => r \in Source \cup {Complete} /\ rowLock' = r /\ rowLock \in {Free, r},
         state = "locked" => importRow = "open" /\ UNCHANGED copied,
         state = "copied" => r = Complete /\ copied' = staged /\ importRow = "open",
         state \in {"checked", "items", "error"} =>
           rowLock' = (IF rowLock = r THEN Free ELSE rowLock) /\ UNCHANGED copied,
         state = "items" => r = Delete,
         UNCHANGED staged
  PROVE  ImportInv'
  <1> USE ImportAssumption DEF Requests, Source, Create, Complete, Delete, Free, Threw, Returned
  <1>1. /\ request'[r] = state /\ request[r] \notin {"none", "ok"} /\ r \in Requests
        /\ importer' = importer
        /\ \A q \in Requests \ {r} : request'[q] = request[q]
    BY ServedChanges DEF Served, ImportInv
  <1>2. ImportTypes /\ InTurn /\ LockHeld /\ WholeImport
    BY DEF ImportInv
  <1>3. InTurn'
    BY <1>2, ServedInTurn
  <1>4. ImportTypes'
    BY <1>1, <1>2 DEF ImportTypes, Served
  <1>5. LockHeld'
    <2>1. (\A q \in Requests : request[q] \in {"locked", "copied"} <=> rowLock = q)'
      BY <1>1, <1>2 DEF LockHeld
    <2>2. (\A q \in Requests : request[q] \in {"locked", "copied"} => q \in Source \cup {Complete})'
      BY <1>1, <1>2 DEF LockHeld
    <2>3. (\A q \in Requests : request[q] \in {"checked", "copied"} => q = Complete)'
      BY <1>1, <1>2 DEF LockHeld
    <2>4. (request[Create] \in {"none", "sent", "ok", "error"})'
      BY <1>1, <1>2 DEF LockHeld
    <2>5. (rowLock # Free => importRow = "open")'
      BY <1>1, <1>2 DEF LockHeld
    <2> QED
      BY <2>1, <2>2, <2>3, <2>4, <2>5 DEF LockHeld
  <1>6. \A q \in Requests : request'[q] = "ok" <=> request[q] = "ok"
    BY <1>1
  <1>7. Stored' = Stored
    BY <1>6 DEF Stored
  <1>8. WholeImport'
    BY <1>1, <1>2, <1>6, <1>7 DEF WholeImport, LockHeld
  <1> QED
    BY <1>3, <1>4, <1>5, <1>8 DEF ImportInv

LEMMA CommitItemsKeeps ==
  ASSUME ImportInv, NEW r \in Requests, CommitItems(r)
  PROVE  ImportInv'
  <1> USE ImportAssumption DEF Requests, Source, Create, Complete, Delete, Free, Threw, Returned
  <1>1. ImportTypes /\ InTurn /\ LockHeld /\ WholeImport
    BY DEF ImportInv
  <1>2. Served(r, "ok") /\ r \in Source /\ request[r] = "locked"
    BY DEF CommitItems, Serve, Served
  <1>3. /\ request'[r] = "ok" /\ \A q \in Requests \ {r} : request'[q] = request[q]
    BY <1>1, <1>2, ServedChanges
  <1>4. InTurn'
    BY <1>1, <1>2, ServedInTurn
  <1>5. /\ staged' = staged \cup {r} /\ itemCount' = itemCount + 1 /\ rowLock' = Free
        /\ UNCHANGED <<importRow, copied, published, importer>>
    BY DEF CommitItems
  <1>6. ImportTypes'
    BY <1>1, <1>2, <1>5 DEF ImportTypes, Served
  <1>7. rowLock = r /\ importRow = "open"
    BY <1>1, <1>2 DEF LockHeld
  <1>8. LockHeld'
    BY <1>1, <1>2, <1>3, <1>5, <1>7 DEF LockHeld
  <1>9. Stored' = Stored \cup {r}
    BY <1>2, <1>3 DEF Stored
  <1>10. itemCount = r - 1
    <2>1. \A q \in Source : q < r => q \in Stored
      BY <1>1, <1>2 DEF InTurn, Stored
    <2>2. r \notin Stored
      BY <1>2 DEF Stored
    <2>3. Stored = 1 .. itemCount /\ itemCount \in Nat
      BY <1>1 DEF WholeImport, ImportTypes
    <2>4. itemCount < r
      BY <2>2, <2>3, <1>2
    <2>5. CASE r = 1
      BY <2>5, <2>4, <2>3
    <2>6. CASE r # 1
      <3>1. r - 1 \in 1 .. itemCount
        BY <2>1, <2>3, <2>6, <1>2
      <3> QED
        BY <3>1, <2>3, <2>4, <1>2
    <2> QED
      BY <2>5, <2>6
  <1>11. \A q \in Requests \ {r} : request'[q] = "ok" <=> request[q] = "ok"
    BY <1>3
  <1>12. WholeImport'
    <2>1. (request[Create] # "ok" => importRow = "none" /\ staged = {})'
      BY <1>1, <1>2, <1>4, <1>3 DEF InTurn
    <2>2. (request[Delete] = "ok" => importRow = "none")'
      BY <1>1, <1>2, <1>3, <1>5 DEF WholeImport
    <2>3. (importRow = "open" => staged = Stored)'
      BY <1>1, <1>5, <1>9 DEF WholeImport
    <2>4. (Stored = 1 .. itemCount)'
      <3>1. Stored' = 1 .. (r - 1) \cup {r}
        BY <1>1, <1>9, <1>10 DEF WholeImport
      <3>2. itemCount' = r /\ r \in 1 .. Chunks
        BY <1>2, <1>5, <1>10
      <3>3. 1 .. r = 1 .. (r - 1) \cup {r}
        BY <3>2
      <3> QED
        BY <3>1, <3>2, <3>3
    <2>5. (request[Complete] = "copied" => copied = staged)'
      BY <1>1, <1>2, <1>3, <1>7 DEF LockHeld
    <2>6. (request[Complete] = "ok" <=> published # NotPublished)'
      BY <1>1, <1>2, <1>3, <1>5 DEF WholeImport
    <2>7. (published # NotPublished => published = [chunks |-> Source, count |-> Chunks])'
      BY <1>1, <1>5 DEF WholeImport
    <2> QED
      BY <2>1, <2>2, <2>3, <2>4, <2>5, <2>6, <2>7 DEF WholeImport
  <1> QED
    BY <1>4, <1>6, <1>8, <1>12 DEF ImportInv

LEMMA CreateKeeps ==
  ASSUME ImportInv, CreateImport
  PROVE  ImportInv'
  <1> USE ImportAssumption DEF Requests, Source, Create, Complete, Delete, Free, Threw, Returned
  <1>1. ImportTypes /\ InTurn /\ LockHeld /\ WholeImport
    BY DEF ImportInv
  <1>2. Served(Create, "ok") /\ request[Create] = "sent"
    BY DEF CreateImport, Serve, Served
  <1>3. /\ request'[Create] = "ok" /\ \A q \in Requests \ {Create} : request'[q] = request[q]
    BY <1>1, <1>2, ServedChanges
  <1>4. InTurn'
    BY <1>1, <1>2, ServedInTurn
  <1>5. importRow' = "open" /\ UNCHANGED <<itemCount, rowLock, staged, copied, published, importer>>
    BY DEF CreateImport
  <1>6. ImportTypes'
    BY <1>1, <1>2, <1>5 DEF ImportTypes, Served
  <1>7. \A q \in Source \cup {Complete, Delete} : request[q] # "ok" /\ request'[q] # "ok" /\ request[q] # "copied"
    BY <1>1, <1>2, <1>3 DEF InTurn
  <1>8. Stored = {} /\ Stored' = {} /\ staged = {}
    BY <1>1, <1>2, <1>7 DEF Stored, WholeImport
  <1>9. LockHeld'
    BY <1>1, <1>2, <1>3, <1>5 DEF LockHeld
  <1>10. WholeImport'
    BY <1>1, <1>2, <1>3, <1>5, <1>7, <1>8 DEF WholeImport
  <1> QED
    BY <1>4, <1>6, <1>9, <1>10 DEF ImportInv

LEMMA CommitCompleteKeeps ==
  ASSUME ImportInv, CommitComplete
  PROVE  ImportInv'
  <1> USE ImportAssumption DEF Requests, Source, Create, Complete, Delete, Free, Threw, Returned
  <1>1. ImportTypes /\ InTurn /\ LockHeld /\ WholeImport
    BY DEF ImportInv
  <1>2. Served(Complete, "ok") /\ request[Complete] = "copied"
    BY DEF CommitComplete, Serve, Served
  <1>3. /\ request'[Complete] = "ok" /\ \A q \in Requests \ {Complete} : request'[q] = request[q]
    BY <1>1, <1>2, ServedChanges
  <1>4. InTurn'
    BY <1>1, <1>2, ServedInTurn
  <1>5. /\ importRow' = "completed" /\ rowLock' = Free
        /\ published' = [chunks |-> copied, count |-> itemCount]
        /\ UNCHANGED <<itemCount, staged, copied, importer>>
    BY DEF CommitComplete
  <1>6. ImportTypes'
    BY <1>1, <1>2, <1>5 DEF ImportTypes, Served
  <1>7. rowLock = Complete /\ importRow = "open"
    BY <1>1, <1>2 DEF LockHeld
  <1>8. Stored = Source /\ Stored' = Stored
    <2>1. \A q \in Source : request[q] = "ok" /\ request'[q] = "ok"
      BY <1>1, <1>2, <1>3 DEF InTurn
    <2> QED
      BY <2>1 DEF Stored
  <1>9. itemCount = Chunks
    <2>1. itemCount \in Nat /\ 1 .. itemCount = 1 .. Chunks
      BY <1>1, <1>8 DEF WholeImport, ImportTypes
    <2>2. Chunks \in 1 .. itemCount
      BY <2>1
    <2>3. itemCount \in 1 .. Chunks
      BY <2>1, <2>2
    <2> QED
      BY <2>1, <2>2, <2>3
  <1>10. published' = [chunks |-> Source, count |-> Chunks]
    BY <1>1, <1>2, <1>5, <1>7, <1>8, <1>9 DEF WholeImport
  <1>11. published' # NotPublished
    <2>1. published'.count = Chunks /\ NotPublished.count = 0
      BY <1>10 DEF NotPublished
    <2> QED
      BY <2>1
  <1>12. LockHeld'
    BY <1>1, <1>2, <1>3, <1>5, <1>7 DEF LockHeld
  <1>13. request[Create] = "ok" /\ request[Delete] # "ok"
    BY <1>1, <1>2, <1>7 DEF InTurn, WholeImport
  <1>14. WholeImport'
    <2>1. request'[Create] = "ok" /\ request'[Delete] # "ok"
      BY <1>3, <1>13
    <2>2. (request[Complete] = "copied" => copied = staged)'
      BY <1>3
    <2>3. (Stored = 1 .. itemCount)'
      BY <1>1, <1>5, <1>8 DEF WholeImport
    <2> QED
      BY <2>1, <2>2, <2>3, <1>3, <1>5, <1>10, <1>11 DEF WholeImport
  <1> QED
    BY <1>4, <1>6, <1>12, <1>14 DEF ImportInv

LEMMA CommitDeleteKeeps ==
  ASSUME ImportInv, CommitDelete
  PROVE  ImportInv'
  <1> USE ImportAssumption DEF Requests, Source, Create, Complete, Delete, Free, Threw, Returned
  <1>1. ImportTypes /\ InTurn /\ LockHeld /\ WholeImport
    BY DEF ImportInv
  <1>2. Served(Delete, "ok") /\ request[Delete] = "items" /\ rowLock = Free
    BY DEF CommitDelete, Serve, Served
  <1>3. /\ request'[Delete] = "ok" /\ \A q \in Requests \ {Delete} : request'[q] = request[q]
    BY <1>1, <1>2, ServedChanges
  <1>4. InTurn'
    BY <1>1, <1>2, ServedInTurn
  <1>5. /\ importRow' = "none" /\ UNCHANGED <<itemCount, rowLock, copied, published, importer>>
    BY DEF CommitDelete
  <1>6. ImportTypes'
    BY <1>1, <1>2, <1>5 DEF ImportTypes, Served
  <1>7. LockHeld'
    BY <1>1, <1>2, <1>3, <1>5 DEF LockHeld
  <1>8. Stored' = Stored
    BY <1>3 DEF Stored
  <1>9. request[Create] = "ok" /\ request[Complete] # "copied"
    BY <1>1, <1>2 DEF InTurn, LockHeld
  <1>10. WholeImport'
    BY <1>1, <1>3, <1>5, <1>8, <1>9 DEF WholeImport
  <1> QED
    BY <1>4, <1>6, <1>7, <1>10 DEF ImportInv

LEMMA ImportInvStep ==
  ASSUME ImportInv, [ImportNext]_importVars
  PROVE  ImportInv'
  <1> USE ImportAssumption DEF Requests, Source, Create, Complete, Delete, Free, Threw, Returned
  <1>1. LockHeld
    BY DEF ImportInv
  <1>2. ASSUME NEW r \in Requests, LockRow(r) PROVE ImportInv'
    <2>1. CASE importRow = "open"
      <3>1. Served(r, "locked")
        BY <1>2, <2>1 DEF LockRow, Serve, Served
      <3> QED
        BY <3>1, <1>2, <2>1, StoreSteps DEF LockRow
    <2>2. CASE importRow # "open"
      <3>1. Served(r, "error")
        BY <1>2, <2>2 DEF LockRow, Serve, Served
      <3>2. rowLock' = (IF rowLock = r THEN Free ELSE rowLock)
        BY <1>2, <2>2 DEF LockRow
      <3> QED
        BY <3>1, <3>2, <1>2, StoreSteps DEF LockRow
    <2> QED
      BY <2>1, <2>2
  <1>3. CASE CheckStaged
    <2>1. rowLock # Complete
      BY <1>1, <1>3 DEF LockHeld, CheckStaged
    <2>2. rowLock' = (IF rowLock = Complete THEN Free ELSE rowLock)
      BY <1>3, <2>1 DEF CheckStaged, Tables
    <2>3. PICK state \in {"checked", "error"} : Served(Complete, state)
      <3>1. Complete \in Requests
        OBVIOUS
      <3>2. request[Complete] = "sent" /\ importer' = importer
        BY <1>3 DEF CheckStaged
      <3>3. PICK s \in {"checked", "error"} : request' = [request EXCEPT ![Complete] = s]
        BY <1>3, Zenon DEF CheckStaged, Serve
      <3> QED
        BY <3>1, <3>2, <3>3 DEF Served
    <2> QED
      BY <2>2, <2>3, <1>3, StoreSteps DEF CheckStaged, Tables
  <1>4. CASE CopyItems
    <2>1. rowLock = Complete /\ importRow = "open"
      BY <1>1, <1>4 DEF LockHeld, CopyItems
    <2>2. Served(Complete, "copied")
      BY <1>4 DEF CopyItems, Serve, Served
    <2> QED
      BY <2>1, <2>2, <1>4, StoreSteps DEF CopyItems
  <1>5. CASE DeleteItems
    <2>1. rowLock # Delete
      BY <1>1, <1>5 DEF LockHeld, DeleteItems
    <2>2. rowLock' = (IF rowLock = Delete THEN Free ELSE rowLock)
      BY <1>5, <2>1 DEF DeleteItems
    <2>3. Served(Delete, "items")
      BY <1>5 DEF DeleteItems, Serve, Served
    <2> QED
      BY <2>2, <2>3, <1>5, StoreSteps DEF DeleteItems
  <1>6. ASSUME NEW r \in Requests, RollBack(r) PROVE ImportInv'
    <2>1. Served(r, "error")
      BY <1>6 DEF RollBack, Serve, Served
    <2> QED
      BY <2>1, <1>6, StoreSteps DEF RollBack
  <1>7. CASE UNCHANGED importVars
    BY <1>7 DEF importVars, ImportInv, ImportTypes, InTurn, LockHeld, WholeImport, Stored
  <1> QED
    BY <1>2, <1>3, <1>4, <1>5, <1>6, <1>7, ClientSteps, CommitItemsKeeps, CreateKeeps,
       CommitCompleteKeeps, CommitDeleteKeeps DEF ImportNext

\* A published version is the whole source and says so, import() returns only what
\* is published, and what threw and was deleted is gone, for any number of chunks
\* and faults, with the request that was given up still at work (the import of the
\* SDK's datasets and the PostgreSQL store's transactions).
THEOREM ImportsAreWhole == ImportSpec => []ImportOutcome
  <1>1. ImportInv => ImportOutcome
    BY DEF ImportInv, WholeImport, InTurn, ImportOutcome
  <1> QED
    BY <1>1, ImportInvInit, ImportInvStep, PTL DEF ImportSpec

-----------------------------------------------------------------------------
(* EvalVersions: while no delete was torn, one that is under way is alone, and   *)
(* what the others have read is still there.                                    *)

WriterSteps == {"idle", "commit", "versions", "aliases", "over"}

ChangeType == [op : Ops, step : {"idle", "commit", "versions", "aliases", "over"},
               time : Times \cup {0}, body : Writers \cup {NoVersion}]

VersionTypes ==
  /\ versions \in [Times -> Writers \cup {NoVersion}]
  /\ current # NoVersion => current.version \in Times
  /\ alias # NoVersion => alias \in Times
  /\ writer \in [Writers -> ChangeType]
  /\ \A w \in Writers : writer[w].step \notin {"idle", "over"} => writer[w].time \in Times
  /\ \A w \in Writers : writer[w].step \in {"versions", "aliases"} => writer[w].op = "delete"
  /\ torn \in BOOLEAN

ReadHolds(w) ==
  writer[w].step = "commit" /\ writer[w].op \in {"activate", "alias"} =>
    /\ versions[writer[w].time] # NoVersion
    /\ writer[w].body = versions[writer[w].time]

Deleting(w) ==
  /\ writer[w].step = "versions" => current = NoVersion
  /\ writer[w].step = "aliases" => current = NoVersion /\ \A t \in Times : versions[t] = NoVersion

Pinned ==
  /\ current # NoVersion => versions[current.version] = current.body
  /\ alias # NoVersion => versions[alias] # NoVersion

DeleteBegun == \E w \in Deletes : writer[w].step # "commit"

Untorn ==
  /\ \A w \in Deletes : Busy = {w} /\ Deleting(w)
  /\ \A w \in Writers : ReadHolds(w)
  /\ ~DeleteBegun => Pinned

VersionInv == VersionTypes /\ (~torn => Untorn)

LEMMA VersionInvInit == VersionInit => VersionInv
  <1> SUFFICES ASSUME VersionInit PROVE VersionInv
    OBVIOUS
  <1>1. /\ current = NoVersion /\ alias = NoVersion /\ torn = FALSE
        /\ versions = [t \in Times |-> NoVersion] /\ writer = [w \in Writers |-> Idle]
    BY DEF VersionInit
  <1>2. Idle \in ChangeType /\ Idle.step = "idle"
    BY DEF ChangeType, Idle, Ops
  <1>3. \A w \in Writers : writer[w] \in ChangeType /\ writer[w].step = "idle"
    BY <1>1, <1>2
  <1>4. VersionTypes
    BY <1>1, <1>2, <1>3 DEF VersionTypes
  <1>5. Busy = {} /\ Deletes = {}
    BY <1>3 DEF Busy, Deletes
  <1>6. Untorn
    BY <1>1, <1>3, <1>5 DEF Untorn, ReadHolds, Pinned
  <1> QED
    BY <1>4, <1>6 DEF VersionInv

\* One change moves on.
LEMMA ChangeMoves ==
  ASSUME VersionTypes, NEW w \in Writers, NEW next \in ChangeType, Moves(w, next)
  PROVE  /\ writer' \in [Writers -> ChangeType] /\ writer'[w] = next
         /\ \A x \in Writers \ {w} : writer'[x] = writer[x]
         /\ \A x \in Writers \ {w} : x \in Busy' <=> x \in Busy
         /\ \A x \in Writers \ {w} : x \in Deletes' <=> x \in Deletes
         /\ w \in Busy' <=> next.step \notin {"idle", "over"}
         /\ w \in Deletes' <=> next.step \notin {"idle", "over"} /\ next.op = "delete"
  <1>1. /\ writer' \in [Writers -> ChangeType] /\ writer'[w] = next
        /\ \A x \in Writers \ {w} : writer'[x] = writer[x]
    BY DEF VersionTypes, Moves
  <1> QED
    BY <1>1 DEF Busy, Deletes

LEMMA ChangeEnds ==
  ASSUME VersionTypes, NEW w \in Writers, Ends(w)
  PROVE  /\ writer' \in [Writers -> ChangeType] /\ writer'[w].step = "over"
         /\ \A x \in Writers \ {w} : writer'[x] = writer[x]
         /\ Busy' = Busy \ {w} /\ Deletes' = Deletes \ {w}
  <1> DEFINE next == [writer[w] EXCEPT !.step = "over"]
  <1>1. next \in ChangeType /\ next.step = "over"
    BY DEF VersionTypes, ChangeType
  <1>2. Moves(w, next)
    BY DEF Ends
  <1> HIDE DEF next
  <1>3. /\ writer' \in [Writers -> ChangeType] /\ writer'[w] = next
        /\ \A x \in Writers \ {w} : writer'[x] = writer[x]
        /\ \A x \in Writers \ {w} : (x \in Busy' <=> x \in Busy) /\ (x \in Deletes' <=> x \in Deletes)
        /\ w \notin Busy' /\ w \notin Deletes'
    BY <1>1, <1>2, ChangeMoves
  <1>4. Busy \subseteq Writers /\ Deletes \subseteq Writers
        /\ Busy' \subseteq Writers /\ Deletes' \subseteq Writers
    BY DEF Busy, Deletes
  <1> QED
    BY <1>1, <1>3, <1>4

\* While no delete was torn, a change that is none finds none under way.
LEMMA NoDeleteBeside ==
  ASSUME Untorn, NEW w \in Busy, writer[w].op # "delete"
  PROVE  Deletes = {} /\ Pinned /\ ReadHolds(w)
  <1>1. Deletes = {}
    BY DEF Untorn, Deletes
  <1>2. w \in Writers
    BY DEF Busy
  <1> QED
    BY <1>1, <1>2 DEF Untorn, DeleteBegun

LEMMA BeginKeeps ==
  ASSUME VersionInv, NEW w \in Writers, NEW op \in Ops, NEW t \in Times, BeginChange(w, op, t)
  PROVE  VersionInv'
  <1> DEFINE next == [op |-> op, step |-> "commit", time |-> t,
                      body |-> IF op = "put" THEN w ELSE versions[t]]
  <1>1. /\ VersionTypes /\ UNCHANGED <<current, versions, alias>>
        /\ torn' = (torn \/ (IF op = "delete" THEN Busy # {} ELSE Deletes # {}))
        /\ w \notin Busy /\ writer[w].step = "idle"
    BY DEF VersionInv, BeginChange, Busy
  <1>2. ASSUME ~torn'
        PROVE  /\ Untorn /\ (op = "delete" => Busy = {}) /\ (op # "delete" => Deletes = {})
               /\ Deletes = {} /\ Pinned
    <2>1. Untorn
      BY <1>1, <1>2 DEF VersionInv, VersionTypes
    <2>2. /\ (op = "delete" => Busy = {}) /\ (op # "delete" => Deletes = {}) /\ Deletes \subseteq Busy
      BY <1>1, <1>2 DEF Deletes
    <2> QED
      BY <2>1, <2>2 DEF Untorn, DeleteBegun
  <1>3. CASE Ends(w)
    <2>1. /\ writer' \in [Writers -> ChangeType] /\ writer'[w].step = "over"
          /\ \A x \in Writers \ {w} : writer'[x] = writer[x]
          /\ Busy' = Busy /\ Deletes' = Deletes
      BY <1>1, <1>3, ChangeEnds DEF Deletes
    <2>2. VersionTypes'
      BY <1>1, <2>1 DEF VersionTypes
    <2>3. ASSUME ~torn' PROVE Untorn'
      BY <1>1, <1>2, <2>1, <2>3 DEF Untorn, ReadHolds, Pinned
    <2> QED
      BY <2>2, <2>3 DEF VersionInv
  <1>4. CASE Moves(w, next) /\ (op \in {"put", "delete", "unalias"} \/ versions[t] # NoVersion)
    <2>1. next \in ChangeType
      BY <1>1 DEF ChangeType, VersionTypes
    <2>2. next.op = op /\ next.step = "commit" /\ next.time = t
          /\ (op # "put" => next.body = versions[t])
      OBVIOUS
    <2> HIDE DEF next
    <2>3. /\ writer' \in [Writers -> ChangeType] /\ writer'[w] = next
          /\ \A x \in Writers \ {w} : writer'[x] = writer[x]
          /\ \A x \in Writers \ {w} : (x \in Busy' <=> x \in Busy) /\ (x \in Deletes' <=> x \in Deletes)
          /\ w \in Busy' /\ (w \in Deletes' <=> op = "delete")
      BY <1>1, <1>4, <2>1, <2>2, ChangeMoves
    <2>4. VersionTypes'
      BY <1>1, <2>2, <2>3 DEF VersionTypes
    <2>5. ASSUME ~torn' PROVE Untorn'
      <3>1. Busy' \subseteq Writers /\ Deletes' \subseteq Writers
        BY DEF Busy, Deletes
      <3>2. \A x \in Deletes' : x = w
        BY <1>2, <2>5, <2>3, <3>1
      <3>3. \A x \in Deletes' : Busy' = {x} /\ Deleting(x)'
        BY <1>2, <2>2, <2>3, <2>5, <3>1, <3>2 DEF Deleting
      <3>4. \A x \in Writers : ReadHolds(x)'
        <4>1. ReadHolds(w)'
          BY <1>1, <1>4, <2>2, <2>3 DEF ReadHolds
        <4>2. \A x \in Writers \ {w} : ReadHolds(x)'
          BY <1>1, <1>2, <2>3, <2>5 DEF ReadHolds, Untorn
        <4> QED
          BY <4>1, <4>2
      <3>5. Pinned'
        BY <1>1, <1>2, <2>5 DEF Pinned
      <3> QED
        BY <3>3, <3>4, <3>5 DEF Untorn
    <2> QED
      BY <2>4, <2>5 DEF VersionInv
  <1> QED
    BY <1>3, <1>4 DEF BeginChange

\* A change that is no delete commits: pins hold, and what others have read.
LEMMA ChangeCommits ==
  ASSUME VersionInv, NEW w \in Busy, writer[w].op # "delete", Ends(w), UNCHANGED torn,
         VersionTypes => VersionTypes',
         Pinned /\ ReadHolds(w) => Pinned',
         \A x \in Writers \ {w} : ReadHolds(x) => ReadHolds(x)'
  PROVE  VersionInv'
  <1>1. VersionTypes' /\ w \in Writers
    BY DEF VersionInv, Busy
  <1>2. ASSUME ~torn PROVE Untorn'
    <2>1. Untorn
      BY <1>2 DEF VersionInv
    <2>2. Deletes = {} /\ Pinned /\ ReadHolds(w)
      BY <2>1, NoDeleteBeside
    <2>3. Deletes' = {} /\ writer'[w].step = "over"
      BY <2>2, <1>1, ChangeEnds DEF VersionInv
    <2>4. \A x \in Writers : ReadHolds(x)'
      BY <2>1, <2>3 DEF Untorn, ReadHolds
    <2> QED
      BY <2>2, <2>3, <2>4 DEF Untorn
  <1> QED
    BY <1>1, <1>2 DEF VersionInv

LEMMA DeleteKeeps ==
  ASSUME VersionInv, NEW w \in Writers, DeleteEval(w)
  PROVE  VersionInv'
  <1>1. VersionTypes /\ writer[w].op = "delete" /\ torn' = torn
    BY DEF VersionInv, DeleteEval
  <1>2. writer[w].step \in {"commit", "versions", "aliases"} /\ w \in Deletes
    BY <1>1 DEF DeleteEval, Deletes, Busy
  <1>3. ~torn => Untorn /\ Busy = {w} /\ Deletes = {w} /\ Deleting(w)
    BY <1>2 DEF VersionInv, Untorn, Deletes
  <1>4. ASSUME NEW step \in {"versions", "aliases"}, Moves(w, [writer[w] EXCEPT !.step = step]),
               versions' \in [Times -> Writers \cup {NoVersion}], current' = NoVersion,
               alias' = alias, step = "aliases" => \A t \in Times : versions'[t] = NoVersion
        PROVE  VersionInv'
    <2> DEFINE next == [writer[w] EXCEPT !.step = step]
    <2>1. next \in ChangeType /\ next.step = step /\ next.op = "delete" /\ next.time = writer[w].time
      BY <1>1 DEF VersionTypes, ChangeType
    <2> HIDE DEF next
    <2>2. /\ writer' \in [Writers -> ChangeType] /\ writer'[w] = next
          /\ \A x \in Writers \ {w} : writer'[x] = writer[x]
          /\ \A x \in Writers \ {w} : x \in Busy' <=> x \in Busy
          /\ w \in Busy' /\ w \in Deletes'
      BY <1>1, <1>4, <2>1, ChangeMoves DEF next
    <2>3. writer[w].time \in Times
      BY <1>1, <1>2 DEF VersionTypes
    <2>4. VersionTypes'
      BY <1>1, <1>4, <2>1, <2>2, <2>3 DEF VersionTypes
    <2>5. ASSUME ~torn PROVE Untorn'
      <3>1. Busy' = {w} /\ Deletes' \subseteq Busy'
        BY <1>3, <2>2, <2>5 DEF Busy, Deletes
      <3>2. Deleting(w)'
        BY <1>4, <2>1, <2>2 DEF Deleting
      <3>3. \A x \in Writers : writer'[x].step # "commit"
        BY <3>1, <2>1, <2>2 DEF Busy
      <3>4. DeleteBegun'
        BY <2>2, <3>3 DEF DeleteBegun, Deletes, Busy
      <3> QED
        BY <3>1, <3>2, <3>3, <3>4 DEF Untorn, ReadHolds
    <2> QED
      BY <1>1, <2>4, <2>5 DEF VersionInv
  <1>5. CASE writer[w].step = "commit"
    <2>1. /\ current' = NoVersion /\ UNCHANGED <<versions, alias>>
          /\ Moves(w, [writer[w] EXCEPT !.step = "versions"])
      BY <1>5 DEF DeleteEval
    <2> QED
      BY <2>1, <1>1, <1>4 DEF VersionTypes
  <1>6. CASE writer[w].step = "versions"
    <2>1. /\ versions' = [t \in Times |-> NoVersion] /\ UNCHANGED <<current, alias>>
          /\ Moves(w, [writer[w] EXCEPT !.step = "aliases"])
      BY <1>6 DEF DeleteEval
    <2>2. CASE ~torn
      <3>1. current' = NoVersion
        BY <2>1, <2>2, <1>3, <1>6 DEF Deleting
      <3> QED
        BY <2>1, <3>1, <1>4
    <2>3. CASE torn
      <3> DEFINE next == [writer[w] EXCEPT !.step = "aliases"]
      <3>1. /\ next \in ChangeType /\ next.step = "aliases" /\ next.op = "delete"
            /\ next.time = writer[w].time
        BY <1>1 DEF VersionTypes, ChangeType
      <3> HIDE DEF next
      <3>2. /\ writer' \in [Writers -> ChangeType] /\ writer'[w] = next
            /\ \A x \in Writers \ {w} : writer'[x] = writer[x]
        BY <1>1, <2>1, <3>1, ChangeMoves DEF next
      <3>3. writer[w].time \in Times
        BY <1>1, <1>2 DEF VersionTypes
      <3>4. VersionTypes'
        BY <1>1, <2>1, <3>1, <3>2, <3>3 DEF VersionTypes
      <3> QED
        BY <3>4, <1>1, <2>3 DEF VersionInv
    <2> QED
      BY <2>2, <2>3
  <1>7. CASE writer[w].step = "aliases"
    <2>1. alias' = NoVersion /\ UNCHANGED <<current, versions>> /\ Ends(w)
      BY <1>7 DEF DeleteEval
    <2>2. /\ writer' \in [Writers -> ChangeType] /\ writer'[w].step = "over"
          /\ \A x \in Writers \ {w} : writer'[x] = writer[x]
          /\ Busy' = Busy \ {w} /\ Deletes' = Deletes \ {w}
      BY <1>1, <2>1, ChangeEnds
    <2>3. VersionTypes'
      BY <1>1, <2>1, <2>2 DEF VersionTypes
    <2>4. ASSUME ~torn PROVE Untorn'
      <3>1. Busy' = {} /\ Deletes' = {} /\ current = NoVersion
        BY <1>3, <1>7, <2>2, <2>4 DEF Deleting
      <3>2. \A x \in Writers : writer'[x].step # "commit"
        BY <3>1 DEF Busy
      <3> QED
        BY <2>1, <3>1, <3>2 DEF Untorn, ReadHolds, Pinned
    <2> QED
      BY <1>1, <2>3, <2>4 DEF VersionInv
  <1> QED
    BY <1>2, <1>5, <1>6, <1>7

LEMMA ThrowKeeps ==
  ASSUME VersionInv, NEW w \in Writers, ChangeThrows(w)
  PROVE  VersionInv'
  <1>1. /\ VersionTypes /\ w \in Busy /\ Ends(w) /\ UNCHANGED <<current, versions, alias>>
        /\ torn' = (torn \/ (writer[w].op = "delete" /\ writer[w].step # "commit"))
    BY DEF VersionInv, ChangeThrows
  <1>2. /\ writer' \in [Writers -> ChangeType] /\ writer'[w].step = "over"
        /\ \A x \in Writers \ {w} : writer'[x] = writer[x]
        /\ Busy' = Busy \ {w} /\ Deletes' = Deletes \ {w}
    BY <1>1, ChangeEnds
  <1>3. VersionTypes'
    BY <1>1, <1>2 DEF VersionTypes
  <1>4. ASSUME ~torn' PROVE Untorn'
    <2>1. ~torn /\ Untorn /\ (writer[w].op = "delete" => writer[w].step = "commit")
      BY <1>1, <1>4 DEF VersionInv, VersionTypes
    <2>2. Deletes' = {}
      BY <1>1, <1>2, <2>1 DEF Untorn
    <2>3. Pinned
      <3>1. \A x \in Deletes : x = w
        BY <1>1, <2>1 DEF Untorn
      <3> QED
        BY <3>1, <2>1 DEF Untorn, DeleteBegun, Deletes
    <2>4. \A x \in Writers : ReadHolds(x)'
      BY <1>1, <1>2, <2>1 DEF Untorn, ReadHolds
    <2> QED
      BY <1>1, <2>2, <2>3, <2>4 DEF Untorn, Pinned
  <1> QED
    BY <1>3, <1>4 DEF VersionInv

LEMMA PutKeeps ==
  ASSUME VersionInv, NEW w \in Writers, PutEval(w)
  PROVE  VersionInv'
  <1> DEFINE v == writer[w].time
  <1>1. /\ w \in Busy /\ writer[w].op # "delete" /\ Ends(w) /\ UNCHANGED <<torn, alias>>
    BY DEF PutEval, Busy
  <1>2. VersionTypes /\ v \in Times
    BY DEF VersionInv, VersionTypes, PutEval
  <1>3. /\ writer' \in [Writers -> ChangeType] /\ writer'[w].step = "over"
        /\ \A x \in Writers \ {w} : writer'[x] = writer[x]
    BY <1>1, <1>2, ChangeEnds
  <1>4. CASE versions[v] # NoVersion
    <2>1. UNCHANGED <<current, versions>>
      BY <1>4 DEF PutEval
    <2>2. VersionTypes'
      BY <1>1, <1>2, <1>3, <2>1 DEF VersionTypes
    <2>3. \A x \in Writers \ {w} : ReadHolds(x) => ReadHolds(x)'
      BY <1>3, <2>1 DEF ReadHolds
    <2> QED
      BY <1>1, <2>1, <2>2, <2>3, ChangeCommits DEF Pinned
  <1>5. CASE versions[v] = NoVersion
    <2>1. current' = [version |-> v, body |-> w] /\ versions' = [versions EXCEPT ![v] = w]
      BY <1>5 DEF PutEval
    <2>2. /\ versions' \in [Times -> Writers \cup {NoVersion}] /\ versions'[v] = w
          /\ \A t \in Times \ {v} : versions'[t] = versions[t]
      BY <1>2, <2>1 DEF VersionTypes
    <2>3. current'.version = v /\ current'.body = w /\ w # NoVersion
      BY <2>1, VersionAssumption
    <2>4. VersionTypes'
      BY <1>1, <1>2, <1>3, <2>2, <2>3 DEF VersionTypes
    <2>5. Pinned => Pinned'
      BY <1>1, <1>2, <2>2, <2>3 DEF Pinned, VersionTypes
    <2>6. \A x \in Writers \ {w} : ReadHolds(x) => ReadHolds(x)'
      <3> SUFFICES ASSUME NEW x \in Writers \ {w}, ReadHolds(x) PROVE ReadHolds(x)'
        OBVIOUS
      <3>1. writer[x].step = "commit" => writer[x].time \in Times
        BY <1>2 DEF VersionTypes
      <3> QED
        BY <3>1, <1>3, <1>5, <2>2 DEF ReadHolds
    <2> QED
      BY <1>1, <2>4, <2>5, <2>6, ChangeCommits
  <1> QED
    BY <1>4, <1>5

LEMMA ReadersKeep ==
  ASSUME VersionInv, NEW w \in Writers, ActivateEval(w) \/ SetAlias(w)
  PROVE  VersionInv'
  <1>1. /\ w \in Busy /\ writer[w].op # "delete" /\ Ends(w) /\ UNCHANGED <<torn, versions>>
        /\ writer[w].step = "commit"
    BY DEF ActivateEval, SetAlias, Busy
  <1>2. VersionTypes /\ writer[w].time \in Times
    BY <1>1 DEF VersionInv, VersionTypes
  <1>3. /\ writer' \in [Writers -> ChangeType] /\ writer'[w].step = "over"
        /\ \A x \in Writers \ {w} : writer'[x] = writer[x]
    BY <1>1, <1>2, ChangeEnds
  <1>4. \A x \in Writers \ {w} : ReadHolds(x) => ReadHolds(x)'
    BY <1>1, <1>3 DEF ReadHolds
  <1>5. CASE ActivateEval(w)
    <2>1. current'.version = writer[w].time /\ current'.body = writer[w].body /\ alias' = alias
      BY <1>5 DEF ActivateEval
    <2>2. VersionTypes'
      BY <1>1, <1>2, <1>3, <2>1 DEF VersionTypes
    <2>3. Pinned /\ ReadHolds(w) => Pinned'
      BY <1>1, <2>1, <1>5 DEF Pinned, ReadHolds, ActivateEval
    <2> QED
      BY <1>1, <1>4, <2>2, <2>3, ChangeCommits
  <1>6. CASE SetAlias(w)
    <2>1. /\ current' = current
          /\ alias' = IF writer[w].op = "alias" THEN writer[w].time ELSE NoVersion
      BY <1>6 DEF SetAlias
    <2>2. VersionTypes'
      BY <1>1, <1>2, <1>3, <2>1 DEF VersionTypes
    <2>3. Pinned /\ ReadHolds(w) => Pinned'
      BY <1>1, <2>1 DEF Pinned, ReadHolds
    <2> QED
      BY <1>1, <1>4, <2>2, <2>3, ChangeCommits
  <1> QED
    BY <1>5, <1>6

LEMMA VersionInvStep ==
  ASSUME VersionInv, [VersionNext]_versionVars
  PROVE  VersionInv'
  <1>1. ASSUME Tick \/ UNCHANGED versionVars PROVE VersionInv'
    <2>1. UNCHANGED <<current, versions, alias, writer, torn>>
      BY <1>1 DEF Tick, versionVars
    <2> QED
      BY <2>1 DEF VersionInv, VersionTypes, Untorn, ReadHolds, Deleting, DeleteBegun, Pinned, Deletes, Busy
  <1> QED
    BY <1>1, BeginKeeps, PutKeeps, ReadersKeep, DeleteKeeps, ThrowKeeps DEF VersionNext

\* A version is there with the definition it was put with or is deleted, and while
\* no delete overlapped another change or stopped half-way, the versions that the
\* current row and the alias name are there, for any number of requests and times
\* (putEval, activateEvalVersion, the aliases and deleteEval of the PostgreSQL store).
THEOREM VersionsStay == VersionSpec => VersionsHold
  <1> DEFINE Stays == \A t \in Times : versions[t] # NoVersion => versions'[t] \in {versions[t], NoVersion}
  <1>1. ASSUME VersionInv, VersionNext PROVE Stays
    <2>1. versions \in [Times -> Writers \cup {NoVersion}]
      BY <1>1 DEF VersionInv, VersionTypes
    <2> QED
      BY <2>1, <1>1 DEF VersionNext, BeginChange, PutEval, ActivateEval, SetAlias, DeleteEval,
                        ChangeThrows, Tick
  <1>2. VersionInv /\ VersionInv' /\ [VersionNext]_versionVars => [Stays /\ PinsResolve']_versionVars
    <2> SUFFICES ASSUME VersionInv, VersionInv', VersionNext PROVE Stays /\ PinsResolve'
      OBVIOUS
    <2>1. PinsResolve'
      <3>1. (~torn /\ Deletes = {} => Pinned)'
        BY DEF VersionInv, Untorn, DeleteBegun
      <3> QED
        BY <3>1 DEF PinsResolve, Pinned, VersionInv, VersionTypes
    <2> QED
      BY <2>1, <1>1
  <1> QED
    BY <1>2, VersionInvInit, VersionInvStep, PTL DEF VersionSpec, VersionsHold

-----------------------------------------------------------------------------
(* MemoryEntries: an id is put once; what replaces an entry is newer and stands *)
(* for all it stood for, so nothing that was told is lost along the trail.       *)

RowType == [status : {"active", "superseded"}, by : 0 .. MaxEntries,
            content : Facts \cup {"rewritten"}]
EditType == [op : {"none", "write", "correct", "curate", "erase"},
             step : {"idle", "put", "curating", "supersede", "over"},
             scanned : SUBSET Ids, ids : SUBSET Ids, new : 0 .. MaxEntries]

MemoryTypes ==
  /\ entry \in [Ids -> RowType \cup {NoRow}]
  /\ carries \in [Ids -> SUBSET Facts]
  /\ drawn \in 0 .. MaxEntries
  /\ edit \in [Calls -> EditType]
  /\ erased \in SUBSET Ids

\* The ids that were put.
Known == Rows \cup erased

CallHolds(c) ==
  LET call == edit[c] IN
  /\ call.scanned \subseteq Known
  /\ call.step = "put" =>
       /\ call.new \in Ids /\ call.new <= drawn /\ call.new \notin Known
       /\ call.op = "write" => carries[call.new] # {}
  /\ call.step = "supersede" => call.new \in Known
  /\ call.step \in {"put", "supersede"} => \A i \in call.ids :
       i \in Known /\ i < call.new /\ carries[i] \subseteq carries[call.new]

DrawnOnce ==
  \A b, c \in Calls : b # c /\ edit[b].step = "put" /\ edit[c].step = "put" => edit[b].new # edit[c].new

\* A fact of an entry is carried by an active or erased one that is not older.
Carried(i) ==
  \A f \in carries[i] : \E j \in ActiveIds \cup erased : i <= j /\ f \in carries[j]

KnownHold == \A i \in Known : i <= drawn /\ Carried(i)
ErasedGone == \A i \in erased : entry[i] = NoRow
ToldKnown == \A f \in told : \E i \in Known : f \in carries[i]

MemoryInv ==
  /\ MemoryTypes
  /\ KnownHold
  /\ ErasedGone
  /\ TrailLeads
  /\ ToldKnown
  /\ DrawnOnce
  /\ \A c \in Calls : CallHolds(c)

LEMMA UnusedTyped ==
  /\ Unused \in EditType
  /\ Unused.step = "idle" /\ Unused.scanned = {}
  <1>1. 0 \in 0 .. MaxEntries
    BY MemoryAssumption
  <1> QED
    BY <1>1 DEF EditType, Unused

LEMMA MemoryInvInit == MemoryInit => MemoryInv
  <1> SUFFICES ASSUME MemoryInit PROVE MemoryInv
    OBVIOUS
  <1> USE MemoryAssumption DEF Ids, Calls
  <1>1. /\ entry = [i \in Ids |-> NoRow] /\ carries = [i \in Ids |-> {}] /\ drawn = 0
        /\ edit = [c \in Calls |-> Unused] /\ told = {} /\ erased = {}
    BY DEF MemoryInit
  <1>2. Unused \in EditType /\ Unused.step = "idle" /\ Unused.scanned = {}
    BY UnusedTyped
  <1>3. \A c \in Calls : edit[c].step = "idle" /\ edit[c].scanned = {}
    BY <1>1, <1>2
  <1>4. edit \in [Calls -> EditType]
    BY <1>1, <1>2
  <1>5. MemoryTypes
    BY <1>1, <1>4 DEF MemoryTypes
  <1>6. Rows = {} /\ Known = {}
    BY <1>1 DEF Rows, Known
  <1>7. TrailLeads
    BY <1>6 DEF TrailLeads
  <1> QED
    BY <1>1, <1>3, <1>5, <1>6, <1>7 DEF MemoryInv, KnownHold, ErasedGone, ToldKnown, DrawnOnce, CallHolds

\* One call moves on, and no entry, fact or id changes.
LEMMA CallMoves ==
  ASSUME MemoryInv, NEW c \in Calls, NEW next \in EditType, Goes(c, next),
         UNCHANGED <<entry, carries, drawn, erased>>,
         \A f \in told' : f \in told \/ \E i \in Known : f \in carries[i],
         next.step \in {"curating", "over"}, next.scanned \subseteq Known
  PROVE  MemoryInv'
  <1>1. /\ edit' \in [Calls -> EditType] /\ edit'[c] = next
        /\ \A b \in Calls \ {c} : edit'[b] = edit[b]
    BY DEF MemoryInv, MemoryTypes, Goes
  <1>2. Rows' = Rows /\ Known' = Known /\ ActiveIds' = ActiveIds
    BY DEF Rows, Known, ActiveIds
  <1>3. MemoryTypes'
    BY <1>1 DEF MemoryInv, MemoryTypes
  <1>4. KnownHold' /\ ErasedGone' /\ TrailLeads'
    BY <1>2 DEF MemoryInv, KnownHold, ErasedGone, TrailLeads, Carried
  <1>5. ToldKnown'
    BY <1>2 DEF MemoryInv, ToldKnown
  <1>6. DrawnOnce'
    BY <1>1 DEF MemoryInv, DrawnOnce
  <1>7. \A b \in Calls : CallHolds(b)'
    BY <1>1, <1>2 DEF MemoryInv, CallHolds
  <1> QED
    BY <1>3, <1>4, <1>5, <1>6, <1>7 DEF MemoryInv

LEMMA DrawKeeps ==
  ASSUME MemoryInv, NEW c \in Calls, NEW op \in {"write", "correct", "curate"},
         NEW facts \in SUBSET Facts, NEW ids \in SUBSET Ids, Draw(c, op, facts, ids),
         UNCHANGED <<entry, told, erased>>, ids \subseteq Known,
         \A i \in ids : carries[i] \subseteq facts, op = "write" => facts # {}
  PROVE  MemoryInv'
  <1> USE MemoryAssumption DEF Ids
  <1> DEFINE n == drawn + 1
             next == [edit[c] EXCEPT !.op = op, !.step = "put", !.ids = ids, !.new = drawn']
  <1>1. /\ MemoryTypes /\ n \in Ids /\ drawn' = n /\ drawn \in Nat
        /\ carries' = [carries EXCEPT ![n] = facts] /\ Goes(c, next)
    BY DEF Draw, MemoryInv, MemoryTypes
  <1>2. /\ next \in EditType /\ next.op = op /\ next.step = "put" /\ next.ids = ids
        /\ next.new = n /\ next.scanned = edit[c].scanned
    <2>1. edit[c] \in EditType /\ drawn' \in 0 .. MaxEntries
      BY <1>1 DEF MemoryTypes
    <2> HIDE DEF Ids, n
    <2> QED
      BY <2>1, <1>1 DEF EditType
  <1> HIDE DEF next
  <1>3. /\ edit' \in [Calls -> EditType] /\ edit'[c] = next
        /\ \A b \in Calls \ {c} : edit'[b] = edit[b]
    BY <1>1, <1>2 DEF MemoryTypes, Goes
  <1>4. /\ carries' \in [Ids -> SUBSET Facts] /\ carries'[n] = facts
        /\ \A i \in Ids \ {n} : carries'[i] = carries[i]
    BY <1>1 DEF MemoryTypes
  <1>5. Rows' = Rows /\ Known' = Known /\ ActiveIds' = ActiveIds /\ Known \subseteq Ids
    BY <1>1 DEF Rows, Known, ActiveIds, MemoryTypes
  <1>6. \A i \in Known : i <= drawn /\ i \in Ids \ {n}
    BY <1>1, <1>5 DEF MemoryInv, KnownHold
  <1>7. ActiveIds \cup erased \subseteq Known
    BY DEF Known, ActiveIds
  <1>8. MemoryTypes'
    BY <1>1, <1>3, <1>4 DEF MemoryTypes
  <1>9. KnownHold'
    <2> SUFFICES ASSUME NEW i \in Known PROVE i <= n /\ Carried(i)'
      BY <1>1, <1>5 DEF KnownHold
    <2>1. Carried(i)
      BY DEF MemoryInv, KnownHold
    <2>2. i <= n
      BY <1>1, <1>6
    <2> QED
      BY <2>1, <2>2, <1>4, <1>5, <1>6, <1>7 DEF Carried
  <1>10. ErasedGone' /\ TrailLeads'
    BY <1>5 DEF MemoryInv, ErasedGone, TrailLeads
  <1>11. ToldKnown'
    BY <1>4, <1>5, <1>6 DEF MemoryInv, ToldKnown
  <1>12. \A b \in Calls : edit[b].step = "put" => edit[b].new \in Ids /\ edit[b].new <= drawn
    BY DEF MemoryInv, CallHolds
  <1>13. DrawnOnce'
    <2> SUFFICES ASSUME NEW a \in Calls, NEW b \in Calls, a # b,
                        edit'[a].step = "put", edit'[b].step = "put"
                 PROVE  edit'[a].new # edit'[b].new
      BY DEF DrawnOnce
    <2>1. CASE a = c
      BY <2>1, <1>1, <1>2, <1>3, <1>12
    <2>2. CASE b = c
      BY <2>2, <1>1, <1>2, <1>3, <1>12
    <2>3. CASE a # c /\ b # c
      BY <2>3, <1>3 DEF MemoryInv, DrawnOnce
    <2> QED
      BY <2>1, <2>2, <2>3
  <1>14. CallHolds(c)'
    <2>1. edit[c].scanned \subseteq Known
      BY DEF MemoryInv, CallHolds
    <2>2. n \notin Known
      BY <1>6
    <2>3. \A i \in ids : i \in Known /\ i < n /\ carries'[i] \subseteq carries'[n]
      BY <1>1, <1>4, <1>6
    <2> QED
      BY <2>1, <2>2, <2>3, <1>1, <1>2, <1>3, <1>4, <1>5 DEF CallHolds
  <1>15. ASSUME NEW b \in Calls \ {c} PROVE CallHolds(b)'
    <2>1. CallHolds(b) /\ edit'[b] = edit[b]
      BY <1>3 DEF MemoryInv
    <2>2. edit[b].step \in {"put", "supersede"} => edit[b].new \in Ids \ {n} /\ edit[b].new <= drawn
      <3>1. edit[b].step = "put" => edit[b].new \in Ids /\ edit[b].new <= drawn
        BY <1>12
      <3>2. edit[b].step = "supersede" => edit[b].new \in Ids /\ edit[b].new <= drawn
        BY <2>1, <1>6 DEF CallHolds
      <3> QED
        BY <3>1, <3>2, <1>1
    <2>3. \A i \in Known : carries'[i] = carries[i]
      BY <1>4, <1>6
    <2>4. edit[b].step \in {"put", "supersede"} => carries'[edit[b].new] = carries[edit[b].new]
      BY <2>2, <1>4
    <2>5. edit[b].new <= drawn => edit[b].new <= drawn'
      <3>1. edit[b].new \in Nat
        BY <1>1 DEF MemoryTypes, EditType
      <3> QED
        BY <3>1, <1>1
    <2> HIDE DEF n, Ids
    <2> QED
      BY <2>1, <2>2, <2>3, <2>4, <2>5, <1>5 DEF CallHolds
  <1> QED
    BY <1>8, <1>9, <1>10, <1>11, <1>13, <1>14, <1>15 DEF MemoryInv

LEMMA EntryPutKeeps ==
  ASSUME MemoryInv, NEW c \in Calls, Put(c)
  PROVE  MemoryInv'
  <1> DEFINE n == edit[c].new
             content == IF edit[c].op = "write" THEN CHOOSE f \in carries[n] : TRUE ELSE "rewritten"
             new == [status |-> "active", by |-> 0, content |-> content]
  <1>1. MemoryTypes /\ edit[c].step = "put" /\ CallHolds(c)
    BY DEF MemoryInv, Put
  <1>2. /\ n \in Ids /\ n <= drawn /\ n \notin Known
        /\ edit[c].op = "write" => carries[n] # {} /\ carries[n] \subseteq Facts
    BY <1>1 DEF CallHolds, MemoryTypes
  <1>3. new \in RowType /\ new # NoRow /\ new.status = "active"
    <2>1. content \in Facts \cup {"rewritten"}
      BY <1>2
    <2> HIDE DEF content
    <2> QED
      BY <2>1, MemoryAssumption DEF RowType
  <1>4. entry' = [entry EXCEPT ![n] = new] /\ UNCHANGED <<carries, drawn, erased>>
    BY DEF Put
  <1> HIDE DEF new
  <1>5. /\ entry' \in [Ids -> RowType \cup {NoRow}] /\ entry'[n] = new
        /\ \A i \in Ids \ {n} : entry'[i] = entry[i]
    BY <1>1, <1>2, <1>3, <1>4 DEF MemoryTypes
  <1>6. /\ Rows' = Rows \cup {n} /\ Known' = Known \cup {n} /\ ActiveIds' = ActiveIds \cup {n}
    BY <1>2, <1>3, <1>4, <1>5 DEF Rows, Known, ActiveIds
  <1>7. PICK next \in EditType : /\ Goes(c, next) /\ next.step \in {"over", "supersede"}
                               /\ next.ids = edit[c].ids /\ next.new = n /\ next.scanned = edit[c].scanned
    <2>1. \A step \in {"over", "supersede"} : [edit[c] EXCEPT !.step = step] \in EditType
      BY <1>1 DEF MemoryTypes, EditType
    <2>2. PICK step \in {"over", "supersede"} : Goes(c, [edit[c] EXCEPT !.step = step])
      BY Zenon DEF Put, Done
    <2>3. edit[c] \in EditType
      BY <1>1 DEF MemoryTypes
    <2> QED
      BY <2>1, <2>2, <2>3 DEF EditType
  <1>8. /\ edit' \in [Calls -> EditType] /\ edit'[c] = next
        /\ \A b \in Calls \ {c} : edit'[b] = edit[b]
    BY <1>1, <1>7 DEF MemoryTypes, Goes
  <1>9. MemoryTypes'
    BY <1>1, <1>4, <1>5, <1>8 DEF MemoryTypes
  <1>10. KnownHold'
    <2>1. \A i \in Known : i <= drawn /\ Carried(i)'
      BY <1>4, <1>6 DEF MemoryInv, KnownHold, Carried
    <2>2. n <= n
      BY <1>2 DEF Ids
    <2>3. \A i : i = n => Carried(i)'
      BY <2>2, <1>4, <1>6 DEF Carried
    <2>4. \A i \in Known' : i \in Known \/ i = n
      BY <1>6
    <2> HIDE DEF n
    <2> QED
      BY <2>1, <2>3, <2>4, <1>2, <1>4 DEF KnownHold
  <1>11. ErasedGone'
    BY <1>1, <1>2, <1>4, <1>5 DEF MemoryInv, ErasedGone, Known, MemoryTypes
  <1>12. TrailLeads'
    <2>1. \A i \in Rows' \ ActiveIds' : i \in Rows \ ActiveIds /\ entry'[i] = entry[i]
      BY <1>5, <1>6 DEF Rows
    <2> QED
      BY <2>1, <1>4, <1>6 DEF MemoryInv, TrailLeads
  <1>13. ToldKnown'
    <2>1. \A f \in told' : f \in told \/ f \in carries[n]
      BY DEF Put
    <2> QED
      BY <2>1, <1>4, <1>6 DEF MemoryInv, ToldKnown
  <1>14. DrawnOnce'
    BY <1>7, <1>8 DEF MemoryInv, DrawnOnce
  <1>15. CallHolds(c)'
    BY <1>1, <1>4, <1>6, <1>7, <1>8 DEF CallHolds
  <1>16. ASSUME NEW b \in Calls \ {c} PROVE CallHolds(b)'
    <2>1. CallHolds(b) /\ edit'[b] = edit[b] /\ (edit[b].step = "put" => edit[b].new # n)
      BY <1>1, <1>8 DEF MemoryInv, DrawnOnce
    <2> QED
      BY <2>1, <1>4, <1>6 DEF CallHolds
  <1> QED
    BY <1>9, <1>10, <1>11, <1>12, <1>13, <1>14, <1>15, <1>16 DEF MemoryInv

\* What replaces entries stands for what they stood for and is newer, so the newest
\* entry that carries a fact is not the one that is superseded.
LEMMA SupersedeKeeps ==
  ASSUME MemoryInv, NEW c \in Calls, Supersede(c)
  PROVE  MemoryInv'
  <1> DEFINE n == edit[c].new
             gone == edit[c].ids \cap Rows
  <1>1. MemoryTypes /\ edit[c].step = "supersede" /\ CallHolds(c)
    BY DEF MemoryInv, Supersede
  <1>2. /\ n \in Known /\ gone \subseteq Rows /\ Known \subseteq Ids
        /\ \A i \in gone : i < n /\ carries[i] \subseteq carries[n]
    BY <1>1 DEF CallHolds, Known, Rows, MemoryTypes
  <1>3. /\ entry' = [i \in Ids |-> IF i \in gone THEN Replaced(c, entry[i]) ELSE entry[i]]
        /\ UNCHANGED <<carries, drawn, told, erased>>
    BY DEF Supersede
  <1>4. ASSUME NEW i \in gone
        PROVE  /\ Replaced(c, entry[i]) \in RowType /\ Replaced(c, entry[i]).status = "superseded"
               /\ Replaced(c, entry[i]).by = n /\ Replaced(c, entry[i]) # NoRow
    <2>1. entry[i] \in RowType /\ n \in 0 .. MaxEntries
      BY <1>1, <1>4 DEF MemoryTypes, Rows, EditType
    <2>2. /\ Replaced(c, entry[i]) \in RowType /\ Replaced(c, entry[i]).status = "superseded"
          /\ Replaced(c, entry[i]).by = n
      BY <2>1 DEF Replaced, RowType
    <2> QED
      BY <2>2, MemoryAssumption DEF RowType
  <1>5. /\ entry' \in [Ids -> RowType \cup {NoRow}]
        /\ \A i \in gone : entry'[i] # NoRow /\ entry'[i].status = "superseded" /\ entry'[i].by = n
        /\ \A i \in Ids \ gone : entry'[i] = entry[i]
    BY <1>1, <1>2, <1>3, <1>4 DEF MemoryTypes, Rows
  <1> HIDE DEF gone
  <1>6. /\ Rows' = Rows /\ Known' = Known /\ ActiveIds' = ActiveIds \ gone
    BY <1>2, <1>3, <1>5 DEF Rows, Known, ActiveIds
  <1>7. PICK next \in EditType : /\ Goes(c, next) /\ next.step \in {"over", "curating"}
                               /\ next.scanned = edit[c].scanned
    <2>1. edit[c] \in EditType /\ 0 \in 0 .. MaxEntries /\ {} \in SUBSET Ids
      BY <1>1, MemoryAssumption DEF MemoryTypes
    <2>2. CASE edit[c].op = "curate"
      <3> DEFINE next == [edit[c] EXCEPT !.step = "curating", !.ids = {}, !.new = 0]
      <3>1. Goes(c, next)
        BY <2>2 DEF Supersede, AfterRewrite
      <3>2. next \in EditType /\ next.step = "curating" /\ next.scanned = edit[c].scanned
        BY <2>1 DEF EditType
      <3> HIDE DEF next
      <3> QED
        BY <3>1, <3>2
    <2>3. CASE edit[c].op # "curate"
      BY <2>1, <2>3 DEF Supersede, AfterRewrite, EditType, Done
    <2> QED
      BY <2>2, <2>3
  <1>8. /\ edit' \in [Calls -> EditType] /\ edit'[c] = next
        /\ \A b \in Calls \ {c} : edit'[b] = edit[b]
    BY <1>1, <1>7 DEF MemoryTypes, Goes
  <1>9. MemoryTypes'
    BY <1>1, <1>3, <1>5, <1>8 DEF MemoryTypes
  <1>10. ASSUME NEW i \in Known PROVE Carried(i)'
    <2> SUFFICES ASSUME NEW f \in carries[i]
                 PROVE  \E j \in ActiveIds' \cup erased : i <= j /\ f \in carries[j]
      BY <1>3 DEF Carried
    <2>1. PICK j \in ActiveIds \cup erased : i <= j /\ f \in carries[j]
      BY DEF MemoryInv, KnownHold, Carried
    <2>2. CASE j \notin gone
      BY <2>1, <2>2, <1>6
    <2>3. CASE j \in gone
      <3>1. j < n /\ f \in carries[n]
        BY <2>1, <2>3, <1>2
      <3>2. PICK k \in ActiveIds \cup erased : n <= k /\ f \in carries[k]
        BY <3>1, <1>2 DEF MemoryInv, KnownHold, Carried
      <3>3. i \in Nat /\ j \in Nat /\ n \in Nat /\ k \in Nat
        <4>1. ActiveIds \cup erased \subseteq Ids
          BY <1>1 DEF ActiveIds, Rows, MemoryTypes
        <4>2. i \in Ids /\ j \in Ids /\ n \in Ids /\ k \in Ids
          BY <4>1, <1>2
        <4> HIDE DEF n
        <4> QED
          BY <4>2 DEF Ids
      <3>4. k \notin gone /\ i <= k
        BY <3>1, <3>2, <3>3, <2>1, <1>2
      <3> QED
        BY <3>2, <3>4, <1>6
    <2> QED
      BY <2>2, <2>3
  <1>11. KnownHold'
    BY <1>3, <1>6, <1>10 DEF MemoryInv, KnownHold
  <1>12. ErasedGone'
    <2>1. \A i \in erased : i \notin gone /\ i \in Ids
      BY <1>1, <1>2 DEF MemoryInv, ErasedGone, Rows, MemoryTypes
    <2> QED
      BY <2>1, <1>3, <1>5 DEF MemoryInv, ErasedGone
  <1>13. TrailLeads'
    <2> SUFFICES ASSUME NEW i \in Rows \ (ActiveIds \ gone)
                 PROVE  entry'[i].by > i /\ entry'[i].by \in Known
      BY <1>3, <1>6 DEF TrailLeads, Known
    <2>1. CASE i \in gone
      <3>1. entry'[i].by = n /\ i < n /\ n \in Nat /\ i \in Nat
        <4>1. n \in Ids /\ i \in Ids
          BY <1>2, <2>1 DEF Known
        <4> HIDE DEF n
        <4> QED
          BY <4>1, <2>1, <1>2, <1>5 DEF Ids
      <3> QED
        BY <3>1, <1>2
    <2>2. CASE i \notin gone
      <3>1. entry'[i] = entry[i] /\ i \in Rows \ ActiveIds
        BY <2>2, <1>5 DEF Rows
      <3> QED
        BY <3>1 DEF MemoryInv, TrailLeads, Known
    <2> QED
      BY <2>1, <2>2
  <1>14. ToldKnown'
    BY <1>3, <1>6 DEF MemoryInv, ToldKnown
  <1>15. DrawnOnce'
    BY <1>7, <1>8 DEF MemoryInv, DrawnOnce
  <1>16. \A b \in Calls : CallHolds(b)'
    BY <1>3, <1>6, <1>7, <1>8 DEF MemoryInv, CallHolds
  <1> QED
    BY <1>9, <1>11, <1>12, <1>13, <1>14, <1>15, <1>16 DEF MemoryInv

LEMMA EraseKeeps ==
  ASSUME MemoryInv, NEW c \in Calls, NEW ids \in SUBSET Rows, Erase(c, ids)
  PROVE  MemoryInv'
  <1>1. /\ MemoryTypes /\ Rows \subseteq Ids
        /\ entry' = [i \in Ids |-> IF i \in ids THEN NoRow ELSE entry[i]]
        /\ erased' = erased \cup ids /\ UNCHANGED <<carries, drawn, told>>
    BY DEF MemoryInv, Erase, Rows
  <1>2. /\ entry' \in [Ids -> RowType \cup {NoRow}]
        /\ \A i \in Ids : entry'[i] = IF i \in ids THEN NoRow ELSE entry[i]
    BY <1>1 DEF MemoryTypes
  <1>3. Rows' = Rows \ ids /\ ActiveIds' = ActiveIds \ ids /\ Known' = Known
    BY <1>1, <1>2 DEF Rows, ActiveIds, Known
  <1> DEFINE next == [Unused EXCEPT !.op = "erase", !.step = "over"]
  <1>4. next \in EditType /\ next.step = "over" /\ next.scanned = {}
    BY UnusedTyped DEF EditType
  <1>5. Goes(c, next)
    BY DEF Erase
  <1> HIDE DEF next
  <1>6. /\ edit' \in [Calls -> EditType] /\ edit'[c] = next
        /\ \A b \in Calls \ {c} : edit'[b] = edit[b]
    BY <1>1, <1>4, <1>5 DEF MemoryTypes, Goes
  <1>7. MemoryTypes'
    BY <1>1, <1>2, <1>6 DEF MemoryTypes
  <1>8. ActiveIds \cup erased \subseteq ActiveIds' \cup erased'
    BY <1>1, <1>3
  <1>9. KnownHold'
    BY <1>1, <1>3, <1>8 DEF MemoryInv, KnownHold, Carried
  <1>10. ErasedGone'
    BY <1>1, <1>2 DEF MemoryInv, ErasedGone, MemoryTypes
  <1>11. TrailLeads'
    <2>1. \A i \in Rows' \ ActiveIds' : i \in Rows \ ActiveIds /\ entry'[i] = entry[i]
      BY <1>1, <1>2, <1>3
    <2>2. Rows \cup erased = Rows' \cup erased'
      BY <1>3 DEF Known
    <2> QED
      BY <2>1, <2>2 DEF MemoryInv, TrailLeads
  <1>12. ToldKnown'
    BY <1>1, <1>3 DEF MemoryInv, ToldKnown
  <1>13. DrawnOnce'
    BY <1>4, <1>6 DEF MemoryInv, DrawnOnce
  <1>14. \A b \in Calls : CallHolds(b)'
    BY <1>1, <1>3, <1>4, <1>6 DEF MemoryInv, CallHolds
  <1> QED
    BY <1>7, <1>9, <1>10, <1>11, <1>12, <1>13, <1>14 DEF MemoryInv

LEMMA MemoryInvStep ==
  ASSUME MemoryInv, [MemoryNext]_memoryVars
  PROVE  MemoryInv'
  <1>1. MemoryTypes /\ Rows \subseteq Known /\ ActiveIds \subseteq Rows /\ Known \subseteq Ids
    BY DEF MemoryInv, MemoryTypes, Known, Rows, ActiveIds
  <1>2. /\ \A op \in {"write", "curate"}, step \in {"over", "curating"}, ids \in SUBSET Ids :
             [Unused EXCEPT !.op = op, !.step = step, !.scanned = ids] \in EditType
        /\ [Unused EXCEPT !.op = "write", !.step = "over"] \in EditType
    BY UnusedTyped DEF EditType
  <1>3. ASSUME NEW c \in Calls
        PROVE  /\ [edit[c] EXCEPT !.step = "over"] \in EditType
               /\ [edit[c] EXCEPT !.step = "over"].step = "over"
               /\ [edit[c] EXCEPT !.step = "over"].scanned \subseteq Known
    BY <1>1 DEF MemoryTypes, EditType, MemoryInv, CallHolds
  <1>4. ASSUME NEW c \in Calls, NEW fact \in Facts, WriteFact(c, fact)
        PROVE  MemoryInv'
    <2>1. CASE Draw(c, "write", {fact}, {}) /\ UNCHANGED told
      BY <2>1, <1>4, DrawKeeps DEF WriteFact
    <2>2. CASE /\ \E i \in Rows : fact \in carries[i]
               /\ Goes(c, [Unused EXCEPT !.op = "write", !.step = "over"])
               /\ told' = told \cup {fact} /\ UNCHANGED <<carries, drawn>>
      <3> DEFINE next == [Unused EXCEPT !.op = "write", !.step = "over"]
      <3>1. next \in EditType /\ next.step = "over" /\ next.scanned = {}
        BY <1>2 DEF Unused
      <3> HIDE DEF next
      <3> QED
        BY <2>2, <3>1, <1>1, <1>4, CallMoves DEF WriteFact, next
    <2> QED
      BY <2>1, <2>2, <1>4 DEF WriteFact
  <1>5. ASSUME NEW c \in Calls, NEW i \in Ids, Correct(c, i)
        PROVE  MemoryInv'
    <2>1. carries[i] \in SUBSET Facts /\ {i} \subseteq Known
      BY <1>1, <1>5 DEF MemoryTypes, Correct
    <2> QED
      BY <2>1, <1>5, DrawKeeps DEF Correct
  <1>6. ASSUME NEW c \in Calls, Scan(c)
        PROVE  MemoryInv'
    <2> DEFINE next == [Unused EXCEPT !.op = "curate", !.step = "curating", !.scanned = ActiveIds]
    <2>1. next \in EditType /\ next.step = "curating" /\ next.scanned = ActiveIds
      BY <1>1, <1>2 DEF Unused
    <2>2. Goes(c, next) /\ UNCHANGED <<entry, carries, drawn, told, erased>>
      BY <1>6 DEF Scan
    <2> HIDE DEF next
    <2> QED
      BY <2>1, <2>2, <1>1, CallMoves
  <1>7. ASSUME NEW c \in Calls, NEW ids \in SUBSET Ids, Rewrite(c, ids)
        PROVE  MemoryInv'
    <2> DEFINE known == ids \cap edit[c].scanned
    <2>1. known \in SUBSET Ids /\ known \subseteq Known
      BY DEF MemoryInv, CallHolds
    <2>2. UNCHANGED <<entry, told, erased>>
      BY <1>7 DEF Rewrite
    <2>3. CASE known = {}
      <3>1. Goes(c, [edit[c] EXCEPT !.step = "over"]) /\ UNCHANGED <<carries, drawn>>
        BY <1>7, <2>3 DEF Rewrite, Done
      <3> QED
        BY <3>1, <2>2, <1>3, CallMoves
    <2>4. CASE known # {}
      <3> DEFINE facts == UNION {carries[i] : i \in known}
      <3>1. facts \in SUBSET Facts /\ \A i \in known : carries[i] \subseteq facts
        BY <1>1, <2>1 DEF MemoryTypes
      <3>2. Draw(c, "curate", facts, known)
        BY <1>7, <2>4 DEF Rewrite
      <3> HIDE DEF facts, known
      <3> QED
        BY <3>1, <3>2, <2>1, <2>2, DrawKeeps
    <2> QED
      BY <2>3, <2>4
  <1>8. ASSUME NEW c \in Calls, Throws(c)
        PROVE  MemoryInv'
    <2>1. Goes(c, [edit[c] EXCEPT !.step = "over"]) /\ UNCHANGED <<entry, carries, drawn, told, erased>>
      BY <1>8 DEF Throws, Done
    <2> QED
      BY <2>1, <1>3, CallMoves
  <1>9. ASSUME NEW c \in Calls, NEW i \in Ids, i \in Rows, Erase(c, {i})
        PROVE  MemoryInv'
    BY <1>9, EraseKeeps
  <1>10. ASSUME NEW c \in Calls, Erase(c, Rows)
         PROVE  MemoryInv'
    BY <1>10, EraseKeeps
  <1>11. CASE UNCHANGED memoryVars
    BY <1>11 DEF memoryVars, MemoryInv, MemoryTypes, KnownHold, Carried, ErasedGone, TrailLeads,
                 ToldKnown, DrawnOnce, CallHolds, Known, Rows, ActiveIds
  <1> QED
    BY <1>4, <1>5, <1>6, <1>7, <1>8, <1>9, <1>10, <1>11, EntryPutKeeps, SupersedeKeeps DEF MemoryNext

\* A fact whose write returned is carried by an active entry unless one that carried
\* it was erased, and the trail of what was superseded leads to newer entries, for any
\* number of facts, entries and overlapping calls, wherever they fail (write, curate,
\* correct and the deletes of the memory service).  It does not say that what an erased
\* entry held is gone: a call that has read it may put it back.
THEOREM MemoryStays == MemorySpec => []MemoryKept
  <1>1. MemoryInv => MemoryKept
    <2> SUFFICES ASSUME MemoryInv PROVE FactsKept
      BY DEF MemoryKept, MemoryInv
    <2> SUFFICES ASSUME NEW f \in told PROVE \E i \in ActiveIds \cup erased : f \in carries[i]
      BY DEF FactsKept
    <2>1. PICK i \in Known : f \in carries[i]
      BY DEF MemoryInv, ToldKnown
    <2> QED
      BY <2>1 DEF MemoryInv, KnownHold, Carried
  <1> QED
    BY <1>1, MemoryInvInit, MemoryInvStep, PTL DEF MemorySpec
=============================================================================
