--------------------------- MODULE DatasetImport ----------------------------
(* One import of a dataset by the SDK into the PostgreSQL store: the import is *)
(* created, its items are staged chunk by chunk and published together; after  *)
(* any error the import is deleted, while the request that was given up may    *)
(* still be at work in the store. Transactions are READ COMMITTED.              *)
EXTENDS Naturals

CONSTANTS
  Chunks,           \* chunks of the source
  MaxImportFaults   \* bound: requests the store fails

ASSUME ImportAssumption == Chunks \in Nat \ {0}

VARIABLES
  importRow,    \* the committed row of dataset_imports: "none", "open", "completed"
  itemCount,    \* its item_count
  rowLock,      \* the request whose transaction has locked the row, or "free"
  staged,       \* committed rows of dataset_import_items, by chunk
  copied,       \* the chunks the completing transaction copies
  condemned,    \* the chunks the deleting transaction deletes
  published,    \* the published chunks and the count published with them
  request,      \* request -> its state
  importer,     \* what the SDK's import() waits for or has come to
  importFaults

importVars == <<importRow, itemCount, rowLock, staged, copied, condemned, published, request,
                importer, importFaults>>

\* Requests by number: 0 creates, 1 .. Chunks stage, one completes, one deletes.
Create == 0
Source == 1 .. Chunks
Complete == Chunks + 1
Delete == Chunks + 2
Requests == Create .. Delete
Free == Delete + 1

\* Where import() is when it waits for no request.
Threw == Delete + 1
Returned == Delete + 2

NotPublished == [chunks |-> {}, count |-> 0]
Tables == <<importRow, itemCount, rowLock, staged, copied, condemned, published>>
Serve(r, state) == request' = [request EXCEPT ![r] = state]

ImportInit ==
  /\ importRow = "none"
  /\ itemCount = 0
  /\ rowLock = Free
  /\ staged = {}
  /\ copied = {}
  /\ condemned = {}
  /\ published = NotPublished
  /\ request = [r \in Requests |-> IF r = Create THEN "sent" ELSE "none"]
  /\ importer = Create
  /\ importFaults = 0

-----------------------------------------------------------------------------
(* The SDK: import() sends a request when the one before it was answered. *)

Send(r) == importer' = r /\ Serve(r, "sent")
Settle(outcome) == importer' = outcome /\ UNCHANGED request

\* The answer it waits for: an error leads to the delete, whose own is ignored.
Answer(r) ==
  /\ importer = r
  /\ request[r] \in {"ok", "error"}
  /\ \/ r = Delete /\ Settle(Threw)
     \/ r = Create /\ request[r] = "error" /\ Settle(Threw)
     \/ r \in Source \cup {Complete} /\ request[r] = "error" /\ Send(Delete)
     \/ r = Complete /\ request[r] = "ok" /\ Settle(Returned)
     \/ r < Complete /\ request[r] = "ok" /\ Send(r + 1)
  /\ UNCHANGED <<Tables, importFaults>>

\* The caller's signal, a timeout or a lost answer: the request may be served yet.
GiveUp(r) ==
  /\ importer = r
  /\ IF r \in {Create, Delete} THEN Settle(Threw) ELSE Send(Delete)
  /\ UNCHANGED <<Tables, importFaults>>

-----------------------------------------------------------------------------
(* The store: transactions that lock the import's row. *)

CreateImport ==
  /\ request[Create] = "sent"
  /\ importRow' = "open"
  /\ Serve(Create, "ok")
  /\ UNCHANGED <<itemCount, rowLock, staged, copied, condemned, published, importer, importFaults>>

\* POST .../complete first looks for the row and for items, outside a transaction.
CheckStaged ==
  /\ request[Complete] = "sent"
  /\ Serve(Complete, IF importRow = "none" \/ itemCount = 0 THEN "error" ELSE "checked")
  /\ UNCHANGED <<Tables, importer, importFaults>>

\* SELECT ... FOR UPDATE: waits for the lock, then sees the committed row.
LockRow(r) ==
  /\ request[r] = IF r = Complete THEN "checked" ELSE "sent"
  /\ r \in Source \cup {Complete}
  /\ rowLock = Free
  /\ IF importRow = "open" THEN rowLock' = r /\ Serve(r, "locked")
     ELSE rowLock' = Free /\ Serve(r, "error")
  /\ UNCHANGED <<importRow, itemCount, staged, copied, condemned, published, importer, importFaults>>

CommitItems(r) ==
  /\ r \in Source
  /\ request[r] = "locked"
  /\ staged' = staged \cup {r}
  /\ itemCount' = itemCount + 1
  /\ rowLock' = Free
  /\ Serve(r, "ok")
  /\ UNCHANGED <<importRow, copied, condemned, published, importer, importFaults>>

\* INSERT ... SELECT of what is staged and committed now.
CopyItems ==
  /\ request[Complete] = "locked"
  /\ copied' = staged
  /\ Serve(Complete, "copied")
  /\ UNCHANGED <<importRow, itemCount, rowLock, staged, condemned, published, importer, importFaults>>

CommitComplete ==
  /\ request[Complete] = "copied"
  /\ published' = [chunks |-> copied, count |-> itemCount]
  /\ importRow' = "completed"
  /\ rowLock' = Free
  /\ Serve(Complete, "ok")
  /\ UNCHANGED <<itemCount, staged, copied, condemned, importer, importFaults>>

\* A mutant: the two deletes are transactions of their own.
DeleteItemsAtOnce ==
  /\ request[Delete] = "sent"
  /\ Serve(Delete, "items")
  /\ staged' = {}
  /\ UNCHANGED <<importRow, itemCount, rowLock, copied, condemned, published, importer, importFaults>>

\* The delete's transaction: the items it sees, which nobody misses before it commits,
DeleteItems ==
  /\ request[Delete] = "sent"
  /\ Serve(Delete, "items")
  /\ condemned' = staged
  /\ UNCHANGED <<importRow, itemCount, rowLock, staged, copied, published, importer, importFaults>>

\* and the row, once nobody has locked it.
CommitDelete ==
  /\ request[Delete] = "items"
  /\ rowLock = Free
  /\ importRow' = "none"
  /\ staged' = staged \ condemned
  /\ Serve(Delete, "ok")
  /\ UNCHANGED <<itemCount, rowLock, copied, condemned, published, importer, importFaults>>

\* The store throws: the transaction is rolled back.
RollBack(r) ==
  /\ request[r] \in {"sent", "locked", "copied", "items"}
  /\ importFaults < MaxImportFaults
  /\ importFaults' = importFaults + 1
  /\ rowLock' = IF rowLock = r THEN Free ELSE rowLock
  /\ Serve(r, "error")
  /\ UNCHANGED <<importRow, itemCount, staged, copied, condemned, published, importer>>

ImportNext ==
  \/ \E r \in Requests : Answer(r) \/ GiveUp(r) \/ LockRow(r) \/ CommitItems(r) \/ RollBack(r)
  \/ CreateImport \/ CheckStaged \/ CopyItems \/ CommitComplete
  \/ DeleteItems \/ CommitDelete

ImportSpec == ImportInit /\ [][ImportNext]_importVars

-----------------------------------------------------------------------------
(* Properties. *)

\* A published version has the whole source and says so, whatever is deleted
\* meanwhile; import() returns only what is published; and when it throws and its
\* delete went through, no import is left.
ImportOutcome ==
  /\ published # NotPublished => published = [chunks |-> Source, count |-> Chunks]
  /\ importer = Returned => published # NotPublished
  /\ importer = Threw /\ request[Delete] = "ok" => importRow = "none"
=============================================================================
