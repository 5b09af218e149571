--------------------------- MODULE BatchRunProofs ---------------------------
(***************************************************************************)
(* Proofs about BatchRun, for any number of runs, items, overlapping       *)
(* passes, faults and crashes.                                             *)
(***************************************************************************)
EXTENDS BatchRun, TLAPS

USE DEF Terminal, Live, ItemStatus

Busy == {"get", "load", "putItems", "put", "hook", "deliver", "mark"}

\* The type of a pass.
PassRec == [pc : WkPc, claims : SUBSET Runs, snap : [Runs -> Record],
            cur : Runs \cup {None}, run : Record,
            final : [Items -> ItemStatus \cup {"none"}]]

\* A pass p decides on copies of stored runs, and loads items and tells receivers
\* only of runs that have ended.
PassOK(p) ==
    /\ \A r \in p.claims : p.snap[r].status # "absent"
    /\ p.pc \in Busy \cup {"error"} => p.cur \in Runs /\ p.snap[p.cur].status # "absent"
    /\ p.pc \in {"idle", "pick"} => p.cur = None
    /\ p.pc \in Busy => p.run.status # "absent"
    /\ p.pc \in {"get", "load", "putItems"} => p.run.pid /\ p.snap[p.cur].pid
    /\ p.pc \in {"load", "putItems"} =>
          prov[p.cur] \in Terminal /\ p.run.status = prov[p.cur]
    /\ p.pc \in {"hook", "deliver", "mark"} => p.run.status \in Terminal

\* The provider has heard of a run only if its submission got that far, and a
\* client cancels a run that was live when it read it.
RequestOK(r) ==
    /\ sub[r] \in {"idle", "create", "items", "submit", "returned"} => prov[r] = "none"
    /\ can[r].pc \in {"provider", "put"} => can[r].snap.status \in Live

TypeInv == /\ TypeOK
           /\ \A w \in Workers : PassOK(wk[w])
           /\ \A r \in Runs : RequestOK(r)

LEMMA TypeInit == Init => TypeInv
  BY BatchRunAssumption
  DEF Init, TypeInv, TypeOK, PassOK, RequestOK, IdlePass, NoRun, NoItems, NoRow, Record,
      SubPc, WkPc, Busy

\* A put stores a record and may clear a lease.
LEMMA PutOrNot ==
  ASSUME TypeOK, NEW r \in Runs, NEW rec \in Record,
         PutBatchRun(r, rec) \/ UNCHANGED <<db, lease>>
  PROVE  /\ db' \in [Runs -> Record]
         /\ lease' \in [Runs -> Workers \cup {None}]
<1>1. /\ db \in [Runs -> Record]
      /\ lease \in [Runs -> Workers \cup {None}]
  BY DEF TypeOK
<1> QED BY <1>1 DEF PutBatchRun

LEMMA SubmissionRecords ==
  /\ Submitting \in Record /\ NoRun \in Record
  /\ [Submitting EXCEPT !.status = "queued", !.pid = TRUE] \in Record
  /\ [Submitting EXCEPT !.status = "failed"] \in Record
  BY DEF Submitting, Record, NoRun

\* The submission of a run and its crash,
LEMMA TypeSubmit ==
  ASSUME TypeInv, NEW r \in Runs, Submitter(r) \/ SubCrash(r)
  PROVE  TypeInv'
<1> USE DEF TypeInv
<1>1. UNCHANGED <<wk, can>>
  BY DEF Submitter, SubLookup, SubCreate, SubItems, SubProvider, SubQueue, SubFail, SubCrash
<1>2. sub \in [Runs -> SubPc] /\ faults \in Nat
  BY DEF TypeOK
<1>3. TypeOK'
  <2>1. CASE SubLookup(r)
    BY <2>1 DEF SubLookup, TypeOK, SubPc
  <2>2. CASE SubCreate(r)
    <3>1. PutBatchRun(r, Submitting) \/ UNCHANGED <<db, lease>>
      BY <2>2 DEF SubCreate
    <3>2. /\ db' \in [Runs -> Record]
          /\ lease' \in [Runs -> Workers \cup {None}]
      BY <3>1, PutOrNot, SubmissionRecords
    <3>3. sub' \in [Runs -> SubPc]
      BY <2>2 DEF SubCreate, TypeOK, SubPc
    <3> QED BY <2>2, <3>2, <3>3 DEF SubCreate, TypeOK
  <2>3. CASE SubItems(r)
    BY <2>3 DEF SubItems, TypeOK, SubPc
  <2>4. CASE SubProvider(r)
    <3>1. prov' \in [Runs -> {"none", "active", "stopping"} \cup Terminal]
      BY <2>4 DEF SubProvider, TypeOK
    <3>2. sub' \in [Runs -> SubPc] /\ faults' \in Nat
      BY <2>4, <1>2 DEF SubProvider, SubPc, Fault
    <3> QED BY <2>4, <3>1, <3>2 DEF SubProvider, TypeOK
  <2>5. CASE SubQueue(r)
    <3>1. \/ PutBatchRun(r, [Submitting EXCEPT !.status = "queued", !.pid = TRUE])
          \/ UNCHANGED <<db, lease>>
      BY <2>5 DEF SubQueue
    <3>2. /\ db' \in [Runs -> Record]
          /\ lease' \in [Runs -> Workers \cup {None}]
      BY <3>1, PutOrNot, SubmissionRecords
    <3>3. sub' \in [Runs -> SubPc] /\ faults' \in Nat
      BY <2>5, <1>2 DEF SubQueue, SubPc, Fault
    <3> QED BY <2>5, <3>2, <3>3 DEF SubQueue, TypeOK
  <2>6. CASE SubFail(r)
    <3>1. PutBatchRun(r, [Submitting EXCEPT !.status = "failed"]) \/ UNCHANGED <<db, lease>>
      BY <2>6 DEF SubFail
    <3>2. /\ db' \in [Runs -> Record]
          /\ lease' \in [Runs -> Workers \cup {None}]
      BY <3>1, PutOrNot, SubmissionRecords
    <3>3. sub' \in [Runs -> SubPc]
      BY <2>6 DEF SubFail, TypeOK, SubPc
    <3> QED BY <2>6, <3>2, <3>3 DEF SubFail, TypeOK
  <2>7. CASE SubCrash(r)
    BY <2>7 DEF SubCrash, TypeOK, SubPc
  <2> QED BY <2>1, <2>2, <2>3, <2>4, <2>5, <2>6, <2>7 DEF Submitter
<1>4. \A o \in Runs : RequestOK(o)'
  BY <1>1
  DEF RequestOK, Submitter, SubLookup, SubCreate, SubItems, SubProvider, SubQueue, SubFail, SubCrash, TypeOK
<1>5. \A w \in Workers : PassOK(wk[w])'
  <2>1. \A o \in Runs : prov[o] \in Terminal => prov'[o] = prov[o]
    BY DEF RequestOK, Submitter, SubLookup, SubCreate, SubItems, SubProvider, SubQueue,
           SubFail, SubCrash, TypeOK
  <2> QED BY <1>1, <2>1 DEF PassOK, Busy
<1> QED BY <1>3, <1>4, <1>5
\* the provider, the client that cancels and the one that deletes, the clock,
LEMMA TypeProvider ==
  ASSUME TypeInv, NEW r \in Runs, ProviderEnd(r)
  PROVE  TypeInv'
<1> USE DEF TypeInv
<1>1. prov \in [Runs -> {"none", "active", "stopping"} \cup Terminal]
  BY DEF TypeOK
<1>2. prov' \in [Runs -> {"none", "active", "stopping"} \cup Terminal]
  BY <1>1 DEF ProviderEnd
<1>3. TypeOK'
  <2>1. result \in [Runs -> [Items -> {"none", "succeeded", "failed", "missing"}]]
    BY DEF TypeOK
  <2>2. result' \in [Runs -> [Items -> {"none", "succeeded", "failed", "missing"}]]
    BY <2>1 DEF ProviderEnd
  <2> QED BY <1>2, <2>2 DEF TypeOK, ProviderEnd
<1>4. \A o \in Runs : RequestOK(o)'
  BY <1>1 DEF ProviderEnd, RequestOK
<1>5. \A w \in Workers : PassOK(wk[w])'
  <2>1. \A o \in Runs : prov[o] \in Terminal => prov'[o] = prov[o]
    BY <1>1 DEF ProviderEnd
  <2> QED BY <2>1 DEF PassOK, Busy, ProviderEnd
<1> QED BY <1>3, <1>4, <1>5

LEMMA TypeCancel ==
  ASSUME TypeInv, NEW r \in Runs, Canceller(r)
  PROVE  TypeInv'
<1> USE DEF TypeInv
<1>1. /\ can \in [Runs -> [pc : {"idle", "provider", "put", "done"}, snap : Record]]
      /\ prov \in [Runs -> {"none", "active", "stopping"} \cup Terminal]
      /\ db \in [Runs -> Record] /\ faults \in Nat
  BY DEF TypeOK
<1>2. can' \in [Runs -> [pc : {"idle", "provider", "put", "done"}, snap : Record]]
  <2>1. CASE CanRead(r)  BY <1>1, <2>1 DEF CanRead
  <2>2. CASE CanProvider(r)  BY <1>1, <2>2, SubmissionRecords DEF CanProvider
  <2>3. CASE CanPut(r)  BY <1>1, <2>3, SubmissionRecords DEF CanPut
  <2> QED BY <2>1, <2>2, <2>3 DEF Canceller
<1>3. TypeOK'
  <2>1. CASE CanRead(r)
    BY <1>2, <2>1 DEF CanRead, TypeOK
  <2>2. CASE CanProvider(r)
    <3>1. /\ prov' \in [Runs -> {"none", "active", "stopping"} \cup Terminal]
          /\ faults' \in Nat
      BY <1>1, <2>2 DEF CanProvider, Fault
    <3> QED BY <1>2, <2>2, <3>1 DEF CanProvider, TypeOK
  <2>3. CASE CanPut(r)
    <3> DEFINE rec == [can[r].snap EXCEPT
                         !.status = IF can[r].snap.pid THEN "cancelling" ELSE "cancelled"]
    <3>1. rec \in Record
      BY <1>1 DEF Record
    <3>2. PutBatchRun(r, rec) \/ UNCHANGED <<db, lease>>
      BY <2>3 DEF CanPut
    <3>3. /\ db' \in [Runs -> Record]
          /\ lease' \in [Runs -> Workers \cup {None}]
      BY <3>1, <3>2, PutOrNot
    <3> QED BY <1>2, <2>3, <3>3 DEF CanPut, TypeOK
  <2> QED BY <2>1, <2>2, <2>3 DEF Canceller
<1>4. \A o \in Runs : RequestOK(o)'
  BY <1>1 DEF Canceller, CanRead, CanProvider, CanPut, RequestOK
<1>5. \A w \in Workers : PassOK(wk[w])'
  <2>1. /\ \A o \in Runs : prov[o] \in Terminal => prov'[o] = prov[o]
        /\ UNCHANGED wk
    BY <1>1 DEF Canceller, CanRead, CanProvider, CanPut
  <2> QED BY <2>1 DEF PassOK, Busy
<1> QED BY <1>3, <1>4, <1>5

LEMMA TypeDelete ==
  ASSUME TypeInv, NEW r \in Runs, DelRead(r) \/ DeleteBatchRun(r) \/ LeaseExpires(r)
  PROVE  TypeInv'
<1> USE DEF TypeInv
<1>1. TypeOK'
  <2>1. CASE DelRead(r)
    BY <2>1 DEF DelRead, TypeOK
  <2>2. CASE DeleteBatchRun(r)
    <3>1. db' \in [Runs -> Record]
      BY <2>2, SubmissionRecords DEF DeleteBatchRun, TypeOK
    <3>2. items' \in [Runs -> [Items -> ItemStatus \cup {"none"}]]
      BY <2>2 DEF DeleteBatchRun, TypeOK, NoItems
    <3> QED BY <2>2, <3>1, <3>2 DEF DeleteBatchRun, TypeOK
  <2>3. CASE LeaseExpires(r)
    BY <2>3 DEF LeaseExpires, TypeOK
  <2> QED BY <2>1, <2>2, <2>3
<1>2. UNCHANGED <<prov, can, sub, wk>>
  BY DEF DelRead, DeleteBatchRun, LeaseExpires
<1> QED BY <1>1, <1>2 DEF RequestOK, PassOK

\* and the steps of a pass, which change its own copies.
LEMMA IdlePassOK == IdlePass \in PassRec /\ PassOK(IdlePass)
  BY SubmissionRecords DEF IdlePass, PassRec, PassOK, WkPc, Busy, NoItems

LEMMA FinishedOK ==
  ASSUME TypeInv, NEW w \in Workers
  PROVE  Finished(w) \in PassRec /\ PassOK(Finished(w))
<1>1. wk[w] \in PassRec /\ PassOK(wk[w])
  BY DEF TypeInv, TypeOK, PassRec
<1>2. NoItems \in [Items -> ItemStatus \cup {"none"}]
  BY DEF NoItems
<1>3. CASE wk[w].claims = {}
  BY <1>3, IdlePassOK DEF Finished
<1>4. CASE wk[w].claims # {}
  <2> DEFINE p == [wk[w] EXCEPT !.pc = "pick", !.cur = None, !.run = NoRun, !.final = NoItems]
  <2>1. p \in PassRec
    BY <1>1, <1>2, SubmissionRecords DEF PassRec, WkPc
  <2>2. PassOK(p)
    BY <1>1 DEF PassRec, PassOK, Busy
  <2> QED BY <1>4, <2>1, <2>2 DEF Finished
<1> QED BY <1>3, <1>4

\* The types of what a pass writes outside of its copies.
StoreOK ==
    /\ db \in [Runs -> Record]
    /\ items \in [Runs -> [Items -> ItemStatus \cup {"none"}]]
    /\ lease \in [Runs -> Workers \cup {None}]
    /\ outbox \in [Runs -> [status : Terminal \cup {"absent"},
                            state : {"none", "pending", "delivered", "failed_permanent"}]]
    /\ loops \in [Runs -> Nat]
    /\ faults \in Nat /\ crashes \in Nat

LEMMA StoreTypes == TypeInv => StoreOK
  BY DEF TypeInv, TypeOK, StoreOK

\* What every step of a pass leaves alone.
LEMMA PassLeaves ==
  ASSUME NEW w \in Workers, Pass(w) \/ CrashPass(w)
  PROVE  UNCHANGED <<prov, result, sub, can, del, deleted>>
  BY DEF Pass, Claim, Take, Get, Load, PutItems, PutRun, Hook, Deliver, Mark, Throw,
         PutError, AbortPass, CrashPass

\* A step of pass w that leaves copies p keeps the types if p and the store do.
LEMMA PassTypes ==
  ASSUME TypeInv, StoreOK', NEW w \in Workers, Pass(w) \/ CrashPass(w),
         NEW p \in PassRec, PassOK(p), wk' = [wk EXCEPT ![w] = p]
  PROVE  TypeInv'
<1>1. wk \in [Workers -> PassRec]
  BY DEF TypeInv, TypeOK, PassRec
<1>2. wk' \in [Workers -> PassRec]
  BY <1>1
<1>3. \A v \in Workers : PassOK(wk'[v])
  BY <1>1 DEF TypeInv
<1>4. UNCHANGED <<prov, result, sub, can, del, deleted>>
  BY PassLeaves
<1>5. TypeOK'
  BY <1>2, <1>4 DEF TypeInv, TypeOK, StoreOK, PassRec
<1> QED BY <1>3, <1>4, <1>5 DEF TypeInv, PassOK, RequestOK

\* The steps of a pass: what it claims and takes up,
LEMMA ClaimTypes ==
  ASSUME TypeInv, NEW w \in Workers, Claim(w)
  PROVE  TypeInv'
<1>1. wk \in [Workers -> PassRec] /\ StoreOK
  BY StoreTypes DEF TypeInv, TypeOK, PassRec
<1>2. PICK S \in SUBSET Due :
         /\ lease' = [r \in Runs |-> IF r \in S THEN w ELSE lease[r]]
         /\ wk' = [wk EXCEPT ![w].pc = "pick", ![w].claims = S,
                             ![w].snap = [r \in Runs |-> IF r \in S THEN db[r] ELSE NoRun]]
  BY DEF Claim
<1> DEFINE p == [wk[w] EXCEPT !.pc = "pick", !.claims = S,
                              !.snap = [r \in Runs |-> IF r \in S THEN db[r] ELSE NoRun]]
<1>3. S \subseteq Runs /\ \A r \in S : db[r].status # "absent"
  BY DEF Due, Stored
<1>4. p \in PassRec
  <2>1. [r \in Runs |-> IF r \in S THEN db[r] ELSE NoRun] \in [Runs -> Record]
    BY <1>1, SubmissionRecords DEF StoreOK
  <2>2. wk[w] \in PassRec
    BY <1>1
  <2> QED BY <1>3, <2>1, <2>2 DEF PassRec, WkPc
<1>5. PassOK(p)
  <2>1. wk[w].cur = None
    BY DEF TypeInv, PassOK, Claim
  <2> QED BY <1>1, <1>3, <2>1 DEF PassOK, PassRec, Busy
<1>6. wk' = [wk EXCEPT ![w] = p]
  BY <1>1, <1>2 DEF PassRec
<1>7. StoreOK'
  BY <1>1, <1>2 DEF Claim, StoreOK
<1> HIDE DEF p
<1> QED BY <1>4, <1>5, <1>6, <1>7, PassTypes DEF Pass

LEMMA TakeTypes ==
  ASSUME TypeInv, NEW w \in Workers, Take(w)
  PROVE  TypeInv'
<1>1. /\ wk \in [Workers -> PassRec] /\ StoreOK
      /\ PassOK(wk[w])
  BY StoreTypes DEF TypeInv, TypeOK, PassRec
<1>2. PICK r \in wk[w].claims :
         wk' = [wk EXCEPT ![w].cur = r, ![w].run = wk[w].snap[r],
                          ![w].claims = @ \ {r},
                          ![w].pc = IF wk[w].snap[r].status \in Terminal THEN "hook"
                                    ELSE IF wk[w].snap[r].pid THEN "get" ELSE "error"]
  BY DEF Take
<1> DEFINE p == [wk[w] EXCEPT !.cur = r, !.run = wk[w].snap[r],
                              !.claims = @ \ {r},
                              !.pc = IF wk[w].snap[r].status \in Terminal THEN "hook"
                                     ELSE IF wk[w].snap[r].pid THEN "get" ELSE "error"]
<1>3. p \in PassRec
  <2>1. wk[w] \in PassRec /\ r \in Runs /\ wk[w].snap[r] \in Record
    BY <1>1 DEF PassRec
  <2> QED BY <2>1 DEF PassRec, WkPc
<1>4. PassOK(p)
  BY <1>1 DEF PassOK, PassRec, Busy
<1>5. wk' = [wk EXCEPT ![w] = p]
  BY <1>1, <1>2 DEF PassRec
<1>6. StoreOK'
  BY <1>1 DEF Take, StoreOK
<1> HIDE DEF p
<1> QED BY <1>3, <1>4, <1>5, <1>6, PassTypes DEF Pass
\* what it asks the provider and does with the answer,
LEMMA GetSets ==
  ASSUME TypeInv, NEW w \in Workers, Get(w)
  PROVE  \E s \in Live \cup Terminal, c \in {"put", "load"} :
            /\ wk' = [wk EXCEPT ![w].run.status = s, ![w].pc = c]
            /\ c = "load" => s = prov[wk[w].cur] /\ s \in Terminal
            /\ c = "put" => s \in Live
<1>1. CASE prov[wk[w].cur] \in Terminal
  BY <1>1 DEF Get
<1>2. CASE prov[wk[w].cur] \notin Terminal
  <2>1. \E s \in {"cancelling", "queued", "running"} :
          wk' = [wk EXCEPT ![w].run.status = s, ![w].pc = "put"]
    BY <1>2 DEF Get
  <2> QED BY <2>1
<1> QED BY <1>1, <1>2

LEMMA GetTypes ==
  ASSUME TypeInv, NEW w \in Workers, Get(w)
  PROVE  TypeInv'
<1>1. /\ wk \in [Workers -> PassRec] /\ StoreOK
      /\ PassOK(wk[w]) /\ prov \in [Runs -> {"none", "active", "stopping"} \cup Terminal]
  BY StoreTypes DEF TypeInv, TypeOK, PassRec
<1>2. wk[w].pc = "get" /\ wk[w] \in PassRec /\ wk[w].cur \in Runs
  BY <1>1 DEF Get, PassOK, Busy
<1>3. PICK s \in Live \cup Terminal, c \in {"put", "load"} :
         /\ wk' = [wk EXCEPT ![w].run.status = s, ![w].pc = c]
         /\ c = "load" => s = prov[wk[w].cur] /\ s \in Terminal
  BY GetSets
<1> DEFINE p == [wk[w] EXCEPT !.run.status = s, !.pc = c]
<1>4. p \in PassRec
  BY <1>2 DEF PassRec, WkPc, Record
<1>5. PassOK(p)
  BY <1>1, <1>2, <1>3 DEF PassOK, PassRec, Record, Busy
<1>6. wk' = [wk EXCEPT ![w] = p]
  BY <1>1, <1>3 DEF PassRec
<1>7. StoreOK'
  BY <1>1 DEF Get, StoreOK
<1> HIDE DEF p
<1> QED BY <1>4, <1>5, <1>6, <1>7, PassTypes DEF Pass

LEMMA FinalTypes ==
  ASSUME TypeInv, NEW r \in Runs, prov[r] \in Terminal
  PROVE  FinalItems(r) \in [Items -> ItemStatus \cup {"none"}]
<1>1. /\ items[r] \in [Items -> ItemStatus \cup {"none"}]
      /\ result[r] \in [Items -> {"none", "succeeded", "failed", "missing"}]
  BY DEF TypeInv, TypeOK
<1> QED BY <1>1 DEF FinalItems

LEMMA ItemsTypes ==
  ASSUME TypeInv, NEW w \in Workers, Load(w) \/ PutItems(w)
  PROVE  TypeInv'
<1>1. /\ wk \in [Workers -> PassRec] /\ StoreOK
      /\ PassOK(wk[w])
  BY StoreTypes DEF TypeInv, TypeOK, PassRec
<1>2. wk[w] \in PassRec /\ wk[w].cur \in Runs
  BY <1>1 DEF Load, PutItems, PassOK, Busy
<1>3. PICK c \in {"putItems", "put"}, f \in [Items -> ItemStatus \cup {"none"}] :
         /\ wk' = [wk EXCEPT ![w].final = f, ![w].pc = c]
         /\ c = "putItems" => wk[w].pc = "load"
         /\ c = "put" => wk[w].pc = "putItems"
  <2>1. CASE Load(w)
    <3>1. FinalItems(wk[w].cur) \in [Items -> ItemStatus \cup {"none"}]
      BY <1>1, <1>2, <2>1, FinalTypes DEF Load, PassOK
    <3> QED BY <2>1, <3>1 DEF Load
  <2>2. CASE PutItems(w)
    <3>1. NoItems \in [Items -> ItemStatus \cup {"none"}]
      BY DEF NoItems
    <3>2. wk' = [wk EXCEPT ![w].final = NoItems, ![w].pc = "put"] /\ wk[w].pc = "putItems"
      BY <2>2 DEF PutItems
    <3> QED BY <3>1, <3>2
  <2> QED BY <2>1, <2>2
<1> DEFINE p == [wk[w] EXCEPT !.final = f, !.pc = c]
<1>4. p \in PassRec
  BY <1>2 DEF PassRec, WkPc
<1>5. PassOK(p)
  BY <1>1, <1>2, <1>3 DEF PassOK, PassRec, Busy
<1>6. wk' = [wk EXCEPT ![w] = p]
  BY <1>1, <1>3 DEF PassRec
<1>7. items' \in [Runs -> [Items -> ItemStatus \cup {"none"}]]
  <2>1. wk[w].final \in [Items -> ItemStatus \cup {"none"}]
    BY <1>2 DEF PassRec
  <2>2. items \in [Runs -> [Items -> ItemStatus \cup {"none"}]]
    BY <1>1 DEF StoreOK
  <2>3. CASE Load(w)
    BY <2>2, <2>3 DEF Load
  <2>4. CASE PutItems(w)
    <3> DEFINE new == [i \in Items |-> IF wk[w].final[i] = "none"
                                       THEN items[wk[w].cur][i] ELSE wk[w].final[i]]
    <3>1. new \in [Items -> ItemStatus \cup {"none"}]
      BY <1>2, <2>1, <2>2
    <3>2. items' = [items EXCEPT ![wk[w].cur] = new]
      BY <2>4 DEF PutItems
    <3> HIDE DEF new
    <3> QED BY <2>2, <3>1, <3>2
  <2> QED BY <2>3, <2>4
<1>8. StoreOK'
  BY <1>1, <1>7 DEF Load, PutItems, StoreOK
<1> HIDE DEF p
<1> QED BY <1>4, <1>5, <1>6, <1>8, PassTypes DEF Pass

\* what it puts and announces,
LEMMA PutRunTypes ==
  ASSUME TypeInv, NEW w \in Workers, PutRun(w)
  PROVE  TypeInv'
<1>1. /\ wk \in [Workers -> PassRec] /\ StoreOK /\ TypeOK
      /\ PassOK(wk[w])
  BY StoreTypes DEF TypeInv, TypeOK, PassRec
<1>2. wk[w] \in PassRec /\ wk[w].cur \in Runs /\ wk[w].run \in Record /\ wk[w].pc = "put"
  BY <1>1 DEF PutRun, PassOK, Busy, PassRec
<1> DEFINE p == IF NeedsWebhook(wk[w].cur, wk[w].run)
                THEN [wk[w] EXCEPT !.pc = "hook"] ELSE Finished(w)
<1>3. p \in PassRec /\ PassOK(p)
  <2>1. CASE NeedsWebhook(wk[w].cur, wk[w].run)
    BY <1>1, <1>2, <2>1 DEF NeedsWebhook, PassRec, PassOK, WkPc, Busy
  <2>2. CASE ~NeedsWebhook(wk[w].cur, wk[w].run)
    BY <2>2, FinishedOK
  <2> QED BY <2>1, <2>2
<1>4. /\ wk' = [wk EXCEPT ![w] = p]
      /\ PutBatchRun(wk[w].cur, wk[w].run)
  BY DEF PutRun
<1>5. db' \in [Runs -> Record] /\ lease' \in [Runs -> Workers \cup {None}]
  BY <1>1, <1>2, <1>4, PutOrNot
<1>6. StoreOK'
  BY <1>1, <1>5 DEF PutRun, StoreOK
<1> HIDE DEF p
<1> QED BY <1>3, <1>4, <1>6, PassTypes DEF Pass

LEMMA HookTypes ==
  ASSUME TypeInv, NEW w \in Workers, Hook(w) \/ Deliver(w)
  PROVE  TypeInv'
<1>1. /\ wk \in [Workers -> PassRec] /\ StoreOK
      /\ PassOK(wk[w])
  BY StoreTypes DEF TypeInv, TypeOK, PassRec
<1>2. /\ wk[w] \in PassRec /\ wk[w].cur \in Runs /\ wk[w].run.status \in Terminal
      /\ wk[w].pc \in {"hook", "deliver"}
  BY <1>1 DEF Hook, Deliver, PassOK, Busy
<1>3. PICK c \in {"deliver", "mark"} : wk' = [wk EXCEPT ![w].pc = c]
  BY DEF Hook, Deliver
<1> DEFINE p == [wk[w] EXCEPT !.pc = c]
<1>4. p \in PassRec /\ PassOK(p)
  BY <1>1, <1>2 DEF PassRec, PassOK, WkPc, Busy
<1>5. wk' = [wk EXCEPT ![w] = p]
  BY <1>1, <1>3 DEF PassRec
<1>6. outbox' \in [Runs -> [status : Terminal \cup {"absent"},
                          state : {"none", "pending", "delivered", "failed_permanent"}]]
  <2>1. outbox \in [Runs -> [status : Terminal \cup {"absent"},
                            state : {"none", "pending", "delivered", "failed_permanent"}]]
    BY <1>1 DEF StoreOK
  <2>2. CASE Hook(w)
    BY <1>2, <2>1, <2>2 DEF Hook
  <2>3. CASE Deliver(w)
    BY <1>2, <2>1, <2>3 DEF Deliver
  <2> QED BY <2>2, <2>3
<1>7. loops' \in [Runs -> Nat]
  <2>1. loops \in [Runs -> Nat]
    BY <1>1 DEF StoreOK
  <2> QED BY <1>2, <2>1 DEF Hook, Deliver
<1>8. StoreOK'
  BY <1>1, <1>6, <1>7 DEF Hook, Deliver, StoreOK
<1> HIDE DEF p
<1> QED BY <1>4, <1>5, <1>8, PassTypes DEF Pass

LEMMA MarkTypes ==
  ASSUME TypeInv, NEW w \in Workers, Mark(w) \/ PutError(w)
  PROVE  TypeInv'
<1>1. /\ wk \in [Workers -> PassRec] /\ StoreOK /\ TypeOK
      /\ PassOK(wk[w])
  BY StoreTypes DEF TypeInv, TypeOK, PassRec
<1>2. wk[w] \in PassRec /\ wk[w].cur \in Runs
  BY <1>1 DEF Mark, PutError, PassOK, Busy
<1>3. PICK rec \in Record : PutBatchRun(wk[w].cur, rec)
  <2>1. wk[w].run \in Record /\ wk[w].snap[wk[w].cur] \in Record
    BY <1>2 DEF PassRec
  <2>2. [wk[w].run EXCEPT !.queued = TRUE] \in Record
    BY <2>1 DEF Record
  <2> QED BY <2>1, <2>2 DEF Mark, PutError
<1>4. db' \in [Runs -> Record] /\ lease' \in [Runs -> Workers \cup {None}]
  BY <1>1, <1>2, <1>3, PutOrNot
<1>5. StoreOK'
  BY <1>1, <1>4 DEF Mark, PutError, StoreOK
<1>6. wk' = [wk EXCEPT ![w] = Finished(w)]
  BY DEF Mark, PutError
<1> QED BY <1>5, <1>6, FinishedOK, PassTypes DEF Pass

\* and how it fails.
LEMMA ThrowTypes ==
  ASSUME TypeInv, NEW w \in Workers, Throw(w) \/ AbortPass(w) \/ CrashPass(w)
  PROVE  TypeInv'
<1>1. /\ wk \in [Workers -> PassRec] /\ StoreOK
      /\ PassOK(wk[w])
  BY StoreTypes DEF TypeInv, TypeOK, PassRec
<1>2. StoreOK'
  BY <1>1 DEF Throw, AbortPass, CrashPass, StoreOK, Fault
<1>3. CASE Throw(w)
  <2> DEFINE p == [wk[w] EXCEPT !.pc = "error", !.final = NoItems]
  <2>1. wk[w] \in PassRec /\ wk[w].pc \in Busy
    BY <1>1, <1>3 DEF Throw, Busy
  <2>2. p \in PassRec
    BY <2>1 DEF PassRec, WkPc, NoItems
  <2>3. PassOK(p)
    BY <1>1, <2>1 DEF PassRec, PassOK, Busy
  <2>4. wk' = [wk EXCEPT ![w] = p]
    BY <1>1, <1>3 DEF Throw, PassRec
  <2> HIDE DEF p
  <2> QED BY <1>2, <1>3, <2>2, <2>3, <2>4, PassTypes DEF Pass
<1>4. CASE AbortPass(w) \/ CrashPass(w)
  <2>1. wk' = [wk EXCEPT ![w] = IdlePass]
    BY <1>4 DEF AbortPass, CrashPass
  <2> QED BY <1>2, <1>4, <2>1, IdlePassOK, PassTypes DEF Pass
<1> QED BY <1>3, <1>4

LEMMA TypeStep == TypeInv /\ [Next]_vars => TypeInv'
<1> SUFFICES ASSUME TypeInv, [Next]_vars PROVE TypeInv'
  OBVIOUS
<1>1. ASSUME NEW r \in Runs,
             \/ Submitter(r) \/ SubCrash(r) \/ ProviderEnd(r) \/ Canceller(r)
             \/ DelRead(r) \/ DeleteBatchRun(r) \/ LeaseExpires(r)
      PROVE  TypeInv'
  BY <1>1, TypeSubmit, TypeProvider, TypeCancel, TypeDelete
<1>2. ASSUME NEW w \in Workers, Pass(w) \/ CrashPass(w)
      PROVE  TypeInv'
  BY <1>2, ClaimTypes, TakeTypes, GetTypes, ItemsTypes, PutRunTypes, HookTypes, MarkTypes,
     ThrowTypes
  DEF Pass
<1>3. CASE UNCHANGED vars
  BY <1>3 DEF vars, TypeInv, TypeOK, PassOK, RequestOK
<1> QED BY <1>1, <1>2, <1>3 DEF Next

\* The records, rows and copies of the batch service always have their types, and
\* a pass only ever asks the provider about runs whose id it has read.
THEOREM BatchTypes == Spec => []TypeOK
<1>1. TypeInv => TypeOK
  BY DEF TypeInv
<1> QED BY <1>1, TypeInit, TypeStep, PTL DEF Spec
-----------------------------------------------------------------------------
\* The steps that change the outbox,
LEMMA OutboxStep ==
  ASSUME [Next]_vars
  PROVE  UNCHANGED <<outbox, loops>> \/ \E w \in Workers : Hook(w) \/ Deliver(w)
<1>1. ASSUME NEW r \in Runs, Submitter(r) \/ SubCrash(r) PROVE UNCHANGED <<outbox, loops>>
  BY <1>1 DEF Submitter, SubLookup, SubCreate, SubItems, SubProvider, SubQueue, SubFail, SubCrash
<1>2. ASSUME NEW r \in Runs, Canceller(r) PROVE UNCHANGED <<outbox, loops>>
  BY <1>2 DEF Canceller, CanRead, CanProvider, CanPut
<1>3. ASSUME NEW r \in Runs,
             ProviderEnd(r) \/ DelRead(r) \/ DeleteBatchRun(r) \/ LeaseExpires(r)
      PROVE  UNCHANGED <<outbox, loops>>
  BY <1>3 DEF ProviderEnd, DelRead, DeleteBatchRun, LeaseExpires
<1>4. ASSUME NEW w \in Workers, Pass(w) \/ CrashPass(w), ~Hook(w), ~Deliver(w)
      PROVE  UNCHANGED <<outbox, loops>>
  BY <1>4 DEF Pass, Claim, Take, Get, Load, PutItems, PutRun, Mark, Throw, PutError,
              AbortPass, CrashPass
<1>5. CASE UNCHANGED vars
  BY <1>5 DEF vars
<1> QED BY <1>1, <1>2, <1>3, <1>4, <1>5 DEF Next

\* ... the stored record of a run, which is one that says something of a run and
\* whose key no other stored run has,
LEMMA DbStep ==
  ASSUME TypeInv, [Next]_vars
  PROVE  \/ UNCHANGED db
         \/ \E r \in Runs, rec \in Record : rec.status # "absent" /\ PutBatchRun(r, rec)
         \/ \E r \in Runs : DeleteBatchRun(r)
<1>1. CASE UNCHANGED vars
  BY <1>1 DEF vars
<1>2. ASSUME NEW r \in Runs, Submitter(r)
      PROVE  UNCHANGED db \/ \E rec \in Record : rec.status # "absent" /\ PutBatchRun(r, rec)
  <2>1. /\ Submitting.status # "absent"
        /\ [Submitting EXCEPT !.status = "queued", !.pid = TRUE].status # "absent"
        /\ [Submitting EXCEPT !.status = "failed"].status # "absent"
    BY DEF Submitting
  <2> QED BY <1>2, <2>1, SubmissionRecords
          DEF Submitter, SubLookup, SubCreate, SubItems, SubProvider, SubQueue, SubFail
<1>3. ASSUME NEW r \in Runs, Canceller(r)
      PROVE  UNCHANGED db \/ \E rec \in Record : rec.status # "absent" /\ PutBatchRun(r, rec)
  <2> DEFINE rec == [can[r].snap EXCEPT
                       !.status = IF can[r].snap.pid THEN "cancelling" ELSE "cancelled"]
  <2>1. rec \in Record /\ rec.status # "absent"
    <3>1. can[r].snap \in Record
      BY DEF TypeInv, TypeOK
    <3> QED BY <3>1 DEF Record
  <2>2. UNCHANGED db \/ PutBatchRun(r, rec)
    BY <1>3 DEF Canceller, CanRead, CanProvider, CanPut
  <2> QED BY <2>1, <2>2
<1>4. ASSUME NEW r \in Runs, SubCrash(r) \/ ProviderEnd(r) \/ DelRead(r) \/ LeaseExpires(r)
      PROVE  UNCHANGED db
  BY <1>4 DEF SubCrash, ProviderEnd, DelRead, LeaseExpires
<1>5. ASSUME NEW w \in Workers, Pass(w) \/ CrashPass(w)
      PROVE  \/ UNCHANGED db
             \/ \E r \in Runs, rec \in Record : rec.status # "absent" /\ PutBatchRun(r, rec)
  <2>1. wk[w] \in PassRec /\ PassOK(wk[w])
    BY DEF TypeInv, TypeOK, PassRec
  <2>2. CASE PutRun(w) \/ Mark(w) \/ PutError(w)
    <3>1. /\ wk[w].cur \in Runs /\ wk[w].run \in Record
          /\ wk[w].snap[wk[w].cur] \in Record
          /\ wk[w].snap[wk[w].cur].status # "absent"
          /\ ~PutError(w) => wk[w].run.status # "absent"
      BY <2>1, <2>2 DEF PassOK, PassRec, PutRun, Mark, PutError, Busy
    <3>2. [wk[w].run EXCEPT !.queued = TRUE] \in Record
      BY <3>1 DEF Record
    <3>3. [wk[w].run EXCEPT !.queued = TRUE].status = wk[w].run.status
      BY <3>1 DEF Record
    <3> QED BY <2>2, <3>1, <3>2, <3>3 DEF PutRun, Mark, PutError
  <2>3. CASE ~(PutRun(w) \/ Mark(w) \/ PutError(w))
    BY <1>5, <2>3 DEF Pass, Claim, Take, Get, Load, PutItems, Hook, Deliver, Throw, AbortPass,
       CrashPass
  <2> QED BY <2>2, <2>3
<1> QED BY <1>1, <1>2, <1>3, <1>4, <1>5 DEF Next

\* ... and the progress of a submission; what was deleted is remembered.
LEMMA SubStep ==
  ASSUME TypeInv, [Next]_vars, NEW r \in Runs
  PROVE  /\ sub'[r] = sub[r] \/ Submitter(r) \/ SubCrash(r)
         /\ deleted \subseteq deleted'
<1>1. sub \in [Runs -> SubPc]
  BY DEF TypeInv, TypeOK
<1>2. ASSUME NEW o \in Runs, Submitter(o) \/ SubCrash(o)
      PROVE  UNCHANGED deleted /\ (o # r => sub'[r] = sub[r])
  BY <1>1, <1>2
  DEF Submitter, SubLookup, SubCreate, SubItems, SubProvider, SubQueue, SubFail, SubCrash
<1>3. ASSUME NEW o \in Runs,
             \/ ProviderEnd(o) \/ Canceller(o) \/ DelRead(o) \/ DeleteBatchRun(o)
             \/ LeaseExpires(o)
      PROVE  UNCHANGED sub /\ deleted \subseteq deleted'
  BY <1>3 DEF ProviderEnd, Canceller, CanRead, CanProvider, CanPut, DelRead, DeleteBatchRun,
              LeaseExpires
<1>4. ASSUME NEW w \in Workers, Pass(w) \/ CrashPass(w)
      PROVE  UNCHANGED <<sub, deleted>>
  BY <1>4, PassLeaves
<1>5. CASE UNCHANGED vars
  BY <1>5 DEF vars
<1> QED BY <1>2, <1>3, <1>4, <1>5 DEF Next

-----------------------------------------------------------------------------
\* The row of a run is inserted by one pass, which alone runs its delivery loop.
LoopInv == \A r \in Runs : loops[r] <= 1 /\ (outbox[r] = NoRow => loops[r] = 0)

LEMMA LoopStep ==
  ASSUME TypeInv, LoopInv, [Next]_vars
  PROVE  LoopInv'
<1>1. /\ loops \in [Runs -> Nat]
      /\ outbox \in [Runs -> [status : Terminal \cup {"absent"},
                            state : {"none", "pending", "delivered", "failed_permanent"}]]
  BY DEF TypeInv, TypeOK
<1>2. CASE UNCHANGED <<outbox, loops>>
  BY <1>2 DEF LoopInv
<1>3. ASSUME NEW w \in Workers, Hook(w) PROVE LoopInv'
  BY <1>1, <1>3 DEF LoopInv, Hook, NoRow
<1>4. ASSUME NEW w \in Workers, Deliver(w) PROVE LoopInv'
  BY <1>1, <1>4 DEF LoopInv, Deliver, NoRow
<1> QED BY <1>2, <1>3, <1>4, OutboxStep

\* However many passes and replicas find a run terminal and unannounced, its
\* receiver sees one delivery loop.
THEOREM OneLoopPerRun == Spec => []OneDeliveryLoop
<1>1. Init => LoopInv
  BY DEF Init, LoopInv
<1>2. TypeInv /\ LoopInv /\ [Next]_vars => LoopInv'
  BY LoopStep
<1>3. TypeInv /\ LoopInv => OneDeliveryLoop
  BY DEF LoopInv, OneDeliveryLoop
<1> QED BY <1>1, <1>2, <1>3, TypeInit, TypeStep, PTL DEF Spec
-----------------------------------------------------------------------------
\* Stored runs have different keys, and the run of a request that has put its
\* record is stored until it is deleted.
KeyInv ==
    /\ \A r, o \in Runs : /\ r # o /\ KeyOf[r] = KeyOf[o] /\ KeyOf[r] # NoKey
                          => ~(Stored(r) /\ Stored(o))
    /\ \A r \in Runs : sub[r] \notin {"idle", "create", "returned"} => Stored(r) \/ r \in deleted

LEMMA KeyStep ==
  ASSUME TypeInv, KeyInv, [Next]_vars
  PROVE  KeyInv'
<1>1. db \in [Runs -> Record] /\ sub \in [Runs -> SubPc]
  BY DEF TypeInv, TypeOK
<1> DEFINE Unique == \A r, o \in Runs : /\ r # o /\ KeyOf[r] = KeyOf[o] /\ KeyOf[r] # NoKey
                                        => ~(Stored(r) /\ Stored(o))'
           Lasting == \A r \in Runs : Stored(r) => Stored(r)' \/ r \in deleted'
<1>2. Unique /\ Lasting
  <2>1. CASE UNCHANGED db
    BY <2>1 DEF KeyInv, Stored
  <2>2. ASSUME NEW r \in Runs, NEW rec \in Record,
               rec.status # "absent", PutBatchRun(r, rec)
        PROVE  Unique /\ Lasting
    <3>1. \A o \in Runs : db'[o] = IF o = r THEN rec ELSE db[o]
      BY <1>1, <2>2 DEF PutBatchRun
    <3> QED BY <2>2, <3>1 DEF KeyInv, Stored, PutBatchRun, Conflict
  <2>3. ASSUME NEW r \in Runs, DeleteBatchRun(r)
        PROVE  Unique /\ Lasting
    BY <1>1, <2>3 DEF DeleteBatchRun, KeyInv, Stored, NoRun
  <2> QED BY <2>1, <2>2, <2>3, DbStep
<1>3. ASSUME NEW r \in Runs, sub'[r] \notin {"idle", "create", "returned"}
      PROVE  Stored(r)' \/ r \in deleted'
  <2>1. CASE sub[r] \notin {"idle", "create", "returned"}
    BY <1>2, <2>1, SubStep DEF KeyInv
  <2>2. CASE sub[r] \in {"idle", "create", "returned"}
    <3>1. SubCreate(r) /\ sub'[r] = "items"
      BY <1>1, <1>3, <2>2, SubStep
      DEF Submitter, SubLookup, SubCreate, SubItems, SubProvider, SubQueue, SubFail, SubCrash
    <3> QED BY <1>1, <3>1 DEF SubCreate, PutBatchRun, Stored, Submitting
  <2> QED BY <2>1, <2>2
<1> QED BY <1>2, <1>3 DEF KeyInv

\* However lookups, puts, deletes and passes interleave, two requests with one
\* idempotency key reach the provider twice only if a client deleted one.
THEOREM OneSubmissionPerKey == Spec => []SubmittedOncePerKey
<1>1. Init => KeyInv
  BY DEF Init, KeyInv, Stored, NoRun
<1>2. TypeInv /\ KeyInv /\ [Next]_vars => KeyInv'
  BY KeyStep
<1>3. TypeInv /\ KeyInv => SubmittedOncePerKey
  BY DEF TypeInv, RequestOK, KeyInv, SubmittedOncePerKey
<1> QED BY <1>1, <1>2, <1>3, TypeInit, TypeStep, PTL DEF Spec

-----------------------------------------------------------------------------
\* The records of run r that are stored or that some actor may still put: its
\* canceller's, the ones passes claimed, and the one a pass works on, unless that
\* one says the batch has ended and the items are not settled yet.
InPlay == {"get", "put", "hook", "deliver", "mark"}

Copy(c, r) ==
    \/ c = db[r] \/ c = can[r].snap
    \/ \E w \in Workers : \/ c = wk[w].snap[r]
                          \/ (wk[w].cur = r /\ wk[w].pc \in InPlay /\ c = wk[w].run)

\* Only records written after the submission know the provider's id.
PidInv == \A r \in Runs : \A c \in Record : Copy(c, r) /\ c.pid => sub[r] = "done"

\* A settled item has the batch's outcome, and so has what a pass is about to put.
ItemInv ==
    /\ \A r \in Runs : \A i \in Items :
          /\ prov[r] = "completed" => result[r][i] # "none"
          /\ items[r][i] \notin {"none", "pending"} =>
                prov[r] \in Terminal /\ items[r][i] = Outcome(r, i)
    /\ \A w \in Workers : wk[w].pc = "putItems" =>
          \A i \in Items : /\ wk[w].final[i] \in {"none", Outcome(wk[w].cur, i)}
                           /\ wk[w].final[i] = "none" => items[wk[w].cur][i] # "pending"

\* A record that says the batch has ended is in play only when no item is pending.
SettledInv ==
    \A r \in Runs : \A c \in Record :
        Copy(c, r) /\ c.pid /\ c.status \in Terminal => \A i \in Items : items[r][i] # "pending"

\* ... and says how it ended.
EndInv ==
    \A r \in Runs : \A c \in Record :
        Copy(c, r) /\ c.pid /\ c.status \in Terminal => c.status = prov[r]

\* Only an inserted row is delivered.  Until a client cancels, the terminal records
\* of a run and its outbox row agree: on the provider's outcome if its id was
\* stored, else on the failed submission.
AgreeInv ==
    /\ \A w \in Workers : wk[w].pc = "deliver" => outbox[wk[w].cur] # NoRow
    /\ \A r \in Runs :
        /\ outbox[r] # NoRow => outbox[r].status \in Terminal
        /\ can[r].pc = "idle" =>
              /\ sub[r] # "done" => outbox[r] = NoRow
              /\ \A c \in Record : Copy(c, r) =>
                    /\ c.status \in Terminal =>
                          sub[r] = "done" /\ c.status = IF c.pid THEN prov[r] ELSE "failed"
                    /\ c.pid /\ outbox[r] # NoRow => outbox[r].status = prov[r]
                    /\ c.status \in Terminal /\ ~c.pid /\ outbox[r] # NoRow =>
                          outbox[r].status = "failed"
                    /\ c.pid => \A d \in Record : Copy(d, r) /\ d.status \in Terminal => d.pid

OutcomeInv == PidInv /\ ItemInv /\ SettledInv /\ EndInv /\ AgreeInv
\* Where a record in play comes from: it was in play, it is the first one of the
\* run, one of the other two puts of the submission, the canceller's, or what a
\* pass made of one in play, after PutItems if the batch has ended.
Came(c, r) ==
    \/ \E d \in Record : Copy(d, r) /\ d.status = c.status /\ d.pid = c.pid
    \/ c.status \in {"absent", "submitting"} /\ ~c.pid
    \/ sub[r] = "queue" /\ sub'[r] = "done" /\ c.status = "queued" /\ c.pid
    \/ sub[r] = "fail" /\ sub'[r] = "done" /\ c.status = "failed" /\ ~c.pid
    \/ /\ can[r].pc = "put" /\ c.pid = can[r].snap.pid
       /\ c.status = IF c.pid THEN "cancelling" ELSE "cancelled"
    \/ /\ c.pid /\ c.status \in Live
       /\ \E d \in Record : Copy(d, r) /\ d.pid
    \/ /\ c.pid /\ c.status = prov[r] /\ c.status \in Terminal
       /\ \E w \in Workers : wk[w].cur = r /\ PutItems(w)
       /\ \E d \in Record : Copy(d, r) /\ d.pid

\* Another pass, run or request keeps its copies.
LEMMA CameSame ==
  ASSUME NEW r \in Runs, NEW c \in Record, Copy(c, r)
  PROVE  Came(c, r)
  BY DEF Came

LEMMA CameSubmit ==
  ASSUME TypeInv, NEW r \in Runs, NEW c \in Record, Copy(c, r)', NEW o \in Runs,
         Submitter(o) \/ SubCrash(o)
  PROVE  Came(c, r)
<1>1. db \in [Runs -> Record] /\ sub \in [Runs -> SubPc]
  BY DEF TypeInv, TypeOK
<1>2. UNCHANGED <<can, wk>>
  BY DEF Submitter, SubLookup, SubCreate, SubItems, SubProvider, SubQueue, SubFail, SubCrash
<1>3. CASE c = db'[r] /\ db'[r] # db[r]
  <2>1. o = r /\ Submitter(r)
    BY <1>1, <1>3 DEF Submitter, SubLookup, SubCreate, SubItems, SubProvider, SubQueue, SubFail,
       SubCrash, PutBatchRun
  <2>2. CASE SubCreate(r)
    BY <1>1, <1>3, <2>2 DEF SubCreate, PutBatchRun, Submitting, Came
  <2>3. CASE SubQueue(r)
    BY <1>1, <1>3, <2>3 DEF SubQueue, PutBatchRun, Submitting, Came
  <2>4. CASE SubFail(r)
    BY <1>1, <1>3, <2>4 DEF SubFail, PutBatchRun, Submitting, Came
  <2> QED BY <1>3, <2>1, <2>2, <2>3, <2>4 DEF Submitter, SubLookup, SubItems, SubProvider
<1>4. CASE ~(c = db'[r] /\ db'[r] # db[r])
  BY <1>2, <1>4, CameSame DEF Copy
<1> QED BY <1>3, <1>4

LEMMA CameRequest ==
  ASSUME TypeInv, NEW r \in Runs, NEW c \in Record, Copy(c, r)', NEW o \in Runs,
         Canceller(o) \/ ProviderEnd(o) \/ DelRead(o) \/ DeleteBatchRun(o) \/ LeaseExpires(o)
  PROVE  Came(c, r)
<1>1. /\ db \in [Runs -> Record]
      /\ can \in [Runs -> [pc : {"idle", "provider", "put", "done"}, snap : Record]]
  BY DEF TypeInv, TypeOK
<1>2. UNCHANGED wk
  BY DEF Canceller, CanRead, CanProvider, CanPut, ProviderEnd, DelRead, DeleteBatchRun,
         LeaseExpires
<1>3. CASE c = can'[r].snap /\ can'[r].snap # can[r].snap
  <2>1. c = db[r] \/ c = NoRun
    BY <1>1, <1>3 DEF Canceller, CanRead, CanProvider, CanPut, ProviderEnd, DelRead,
       DeleteBatchRun, LeaseExpires
  <2> QED BY <2>1, CameSame DEF Copy, Came, NoRun
<1>4. CASE c = db'[r] /\ db'[r] # db[r]
  <2>1. CASE Canceller(o)
    <3>1. o = r /\ CanPut(r)
      BY <1>1, <1>4, <2>1 DEF Canceller, CanRead, CanProvider, CanPut, PutBatchRun
    <3>2. /\ can[r].pc = "put"
          /\ db'[r] = [can[r].snap EXCEPT
                        !.status = IF can[r].snap.pid THEN "cancelling" ELSE "cancelled"]
      BY <1>1, <1>4, <3>1 DEF CanPut, PutBatchRun
    <3>3. can[r].snap \in Record
      BY <1>1
    <3> QED BY <1>4, <3>2, <3>3 DEF Came, Record
  <2>2. CASE ~Canceller(o)
    BY <1>1, <1>4, <2>2 DEF ProviderEnd, DelRead, DeleteBatchRun, LeaseExpires, Came, NoRun
  <2> QED BY <2>1, <2>2
<1>5. CASE /\ ~(c = db'[r] /\ db'[r] # db[r])
           /\ ~(c = can'[r].snap /\ can'[r].snap # can[r].snap)
  BY <1>2, <1>5, CameSame DEF Copy
<1> QED BY <1>3, <1>4, <1>5
\* A step of pass w: what it leaves in the store and in its own copies came.
LEMMA CameFromPass ==
  ASSUME TypeInv, NEW r \in Runs, NEW c \in Record, Copy(c, r)', NEW w \in Workers,
         Pass(w) \/ CrashPass(w),
         c = db'[r] => Came(c, r),
         c = wk'[w].snap[r] => Came(c, r),
         wk'[w].cur = r /\ wk'[w].pc \in InPlay /\ c = wk'[w].run => Came(c, r)
  PROVE  Came(c, r)
<1>1. UNCHANGED can
  BY PassLeaves
<1>2. \A v \in Workers \ {w} : wk'[v] = wk[v]
  <2>1. wk \in [Workers -> PassRec]
    BY DEF TypeInv, TypeOK, PassRec
  <2>2. CASE Get(w)
    <3>1. PICK s, p : wk' = [wk EXCEPT ![w].run.status = s, ![w].pc = p]
      BY <2>2, GetSets
    <3> QED BY <2>1, <3>1
  <2>3. CASE ~Get(w)
    BY <2>1, <2>3 DEF Pass, Claim, Take, Load, PutItems, PutRun, Hook, Deliver, Mark, Throw,
                      PutError, AbortPass, CrashPass
  <2> QED BY <2>2, <2>3
<1> QED BY <1>1, <1>2, CameSame DEF Copy

LEMMA CameClaim ==
  ASSUME TypeInv, NEW r \in Runs, NEW c \in Record, Copy(c, r)', NEW w \in Workers,
         Claim(w) \/ Take(w)
  PROVE  Came(c, r)
<1>1. wk \in [Workers -> PassRec] /\ UNCHANGED db
  BY DEF TypeInv, TypeOK, PassRec, Claim, Take
<1>2. c = db'[r] => Came(c, r)
  BY <1>1, CameSame DEF Copy
<1>3. CASE Claim(w)
  <2>1. wk'[w].pc = "pick" /\ wk'[w].snap[r] \in {db[r], NoRun}
    <3>1. PICK S \in SUBSET Due :
             wk' = [wk EXCEPT ![w].pc = "pick", ![w].claims = S,
                              ![w].snap = [o \in Runs |-> IF o \in S THEN db[o] ELSE NoRun]]
      BY <1>3 DEF Claim
    <3> QED BY <1>1, <3>1 DEF PassRec
  <2>2. c = wk'[w].snap[r] => Came(c, r)
    BY <2>1, CameSame DEF Copy, Came, NoRun
  <2> QED BY <1>2, <1>3, <2>1, <2>2, CameFromPass DEF Pass, InPlay
<1>4. CASE Take(w)
  <2>1. wk'[w].snap = wk[w].snap /\ wk'[w].run = wk[w].snap[wk'[w].cur]
    <3>1. PICK o \in wk[w].claims, p \in {"hook", "get", "error"} :
             wk' = [wk EXCEPT ![w].cur = o, ![w].run = wk[w].snap[o],
                              ![w].claims = @ \ {o}, ![w].pc = p]
      BY <1>4 DEF Take
    <3> QED BY <1>1, <3>1 DEF PassRec
  <2> QED BY <1>2, <1>4, <2>1, CameFromPass, CameSame DEF Pass, Copy
<1> QED BY <1>3, <1>4

LEMMA CameGet ==
  ASSUME TypeInv, NEW r \in Runs, NEW c \in Record, Copy(c, r)', NEW w \in Workers,
         Get(w) \/ Load(w) \/ PutItems(w)
  PROVE  Came(c, r)
<1>1. wk \in [Workers -> PassRec] /\ UNCHANGED db /\ PassOK(wk[w])
  BY DEF TypeInv, TypeOK, PassRec, Get, Load, PutItems
<1>2. c = db'[r] => Came(c, r)
  BY <1>1, CameSame DEF Copy
<1>3. wk[w].cur \in Runs /\ wk[w].snap[wk[w].cur] \in Record
  BY <1>1 DEF Get, Load, PutItems, PassOK, Busy, PassRec
<1>4. /\ wk[w].snap[wk[w].cur].pid /\ wk[w].run.pid
      /\ Copy(wk[w].snap[wk[w].cur], wk[w].cur)
  BY <1>1 DEF Get, Load, PutItems, PassOK, Copy
<1>5. CASE Get(w)
  <2>1. PICK s \in Live \cup Terminal, p \in {"put", "load"} :
           /\ wk' = [wk EXCEPT ![w].run.status = s, ![w].pc = p]
           /\ p = "put" => s \in Live
    BY <1>5, GetSets
  <2>2. /\ wk'[w].snap = wk[w].snap /\ wk'[w].cur = wk[w].cur /\ wk'[w].pc = p
        /\ wk'[w].run.status = s /\ wk'[w].run.pid = wk[w].run.pid
    BY <1>1, <2>1 DEF PassRec, Record
  <2>3. wk'[w].cur = r /\ wk'[w].pc \in InPlay /\ c = wk'[w].run => Came(c, r)
    BY <1>3, <1>4, <2>1, <2>2 DEF Came, InPlay
  <2> QED BY <1>2, <1>5, <2>2, <2>3, CameFromPass, CameSame DEF Pass, Copy
<1>6. CASE Load(w)
  <2>1. wk'[w].snap = wk[w].snap /\ wk'[w].pc = "putItems"
    BY <1>1, <1>6 DEF Load, PassRec
  <2> QED BY <1>2, <1>6, <2>1, CameFromPass, CameSame DEF Pass, Copy, InPlay
<1>7. CASE PutItems(w)
  <2>1. /\ wk'[w].snap = wk[w].snap /\ wk'[w].run = wk[w].run /\ wk'[w].cur = wk[w].cur
        /\ wk[w].run.status = prov[wk[w].cur] /\ prov[wk[w].cur] \in Terminal
    BY <1>1, <1>7 DEF PutItems, PassRec, PassOK
  <2>2. wk'[w].cur = r /\ c = wk'[w].run => Came(c, r)
    BY <1>3, <1>4, <1>7, <2>1 DEF Came
  <2> QED BY <1>2, <1>7, <2>1, <2>2, CameFromPass, CameSame DEF Pass, Copy
<1> QED BY <1>5, <1>6, <1>7

LEMMA CamePut ==
  ASSUME TypeInv, NEW r \in Runs, NEW c \in Record, Copy(c, r)', NEW w \in Workers,
         PutRun(w) \/ Mark(w) \/ PutError(w)
  PROVE  Came(c, r)
<1>1. wk \in [Workers -> PassRec] /\ db \in [Runs -> Record] /\ PassOK(wk[w])
  BY DEF TypeInv, TypeOK, PassRec
<1>2. /\ wk[w] \in PassRec /\ wk[w].cur \in Runs /\ wk[w].run \in Record
  BY <1>1 DEF PutRun, Mark, PutError, PassOK, Busy, PassRec
<1>3. CASE c = db'[r] /\ db'[r] # db[r]
  <2>1. /\ wk[w].cur = r
        /\ \/ db'[r] = wk[w].run /\ wk[w].pc = "put"
           \/ db'[r] = [wk[w].run EXCEPT !.queued = TRUE] /\ wk[w].pc = "mark"
           \/ db'[r] = wk[w].snap[r]
    BY <1>1, <1>2, <1>3 DEF PutRun, Mark, PutError, PutBatchRun
  <2>2. CASE db'[r] = [wk[w].run EXCEPT !.queued = TRUE] /\ wk[w].pc = "mark"
    <3>1. c.status = wk[w].run.status /\ c.pid = wk[w].run.pid
      BY <1>2, <1>3, <2>2 DEF Record
    <3> QED BY <1>2, <2>1, <2>2, <3>1 DEF Came, Copy, InPlay
  <2> QED BY <1>3, <2>1, <2>2, CameSame DEF Copy, InPlay
<1>4. c = db'[r] => Came(c, r)
  BY <1>3, CameSame DEF Copy
<1>5. CASE wk' = [wk EXCEPT ![w] = Finished(w)]
  <2>1. wk'[w].snap[r] \in {wk[w].snap[r], NoRun} /\ wk'[w].pc \in {"idle", "pick"}
    BY <1>1, <1>2, <1>5 DEF Finished, IdlePass, PassRec
  <2> QED BY <1>4, <2>1, CameFromPass, CameSame DEF Pass, Copy, Came, NoRun, InPlay
<1>6. CASE PutRun(w) /\ wk' = [wk EXCEPT ![w] = [wk[w] EXCEPT !.pc = "hook"]]
  <2>1. wk'[w].snap = wk[w].snap /\ wk'[w].run = wk[w].run /\ wk'[w].cur = wk[w].cur
    BY <1>1, <1>2, <1>6 DEF PassRec
  <2>2. wk[w].pc \in InPlay
    BY <1>6 DEF PutRun, InPlay
  <2> QED BY <1>4, <1>6, <2>1, <2>2, CameFromPass, CameSame DEF Pass, Copy
<1> QED BY <1>5, <1>6 DEF PutRun, Mark, PutError

LEMMA CameHook ==
  ASSUME TypeInv, NEW r \in Runs, NEW c \in Record, Copy(c, r)', NEW w \in Workers,
         Hook(w) \/ Deliver(w) \/ Throw(w) \/ AbortPass(w) \/ CrashPass(w)
  PROVE  Came(c, r)
<1>1. wk \in [Workers -> PassRec] /\ UNCHANGED db
  BY DEF TypeInv, TypeOK, PassRec, Hook, Deliver, Throw, AbortPass, CrashPass
<1>2. c = db'[r] => Came(c, r)
  BY <1>1, CameSame DEF Copy
<1>3. CASE Hook(w) \/ Deliver(w)
  <2>1. /\ wk'[w].snap = wk[w].snap /\ wk'[w].run = wk[w].run /\ wk'[w].cur = wk[w].cur
        /\ wk[w].pc \in InPlay
    BY <1>1, <1>3 DEF Hook, Deliver, PassRec, InPlay
  <2> QED BY <1>2, <1>3, <2>1, CameFromPass, CameSame DEF Pass, Copy
<1>4. CASE Throw(w)
  <2>1. wk'[w].snap = wk[w].snap /\ wk'[w].pc = "error"
    BY <1>1, <1>4 DEF Throw, PassRec
  <2> QED BY <1>2, <1>4, <2>1, CameFromPass, CameSame DEF Pass, Copy, InPlay
<1>5. CASE AbortPass(w) \/ CrashPass(w)
  <2>1. wk'[w].snap[r] = NoRun /\ wk'[w].pc = "idle"
    BY <1>1, <1>5 DEF AbortPass, CrashPass, IdlePass
  <2> QED BY <1>2, <1>5, <2>1, CameFromPass DEF Pass, Came, NoRun, InPlay
<1> QED BY <1>3, <1>4, <1>5

LEMMA CopyStep ==
  ASSUME TypeInv, [Next]_vars, NEW r \in Runs, NEW c \in Record, Copy(c, r)'
  PROVE  Came(c, r)
<1>1. CASE UNCHANGED vars
  BY <1>1, CameSame DEF vars, Copy
<1>2. ASSUME NEW w \in Workers, Pass(w) \/ CrashPass(w) PROVE Came(c, r)
  BY <1>2, CameClaim, CameGet, CamePut, CameHook DEF Pass
<1> QED BY <1>1, <1>2, CameSubmit, CameRequest DEF Next
-----------------------------------------------------------------------------
\* An ended batch stays ended, with its results.
LEMMA ProvStep ==
  ASSUME TypeInv, [Next]_vars, NEW r \in Runs
  PROVE  \/ prov'[r] = prov[r] /\ result'[r] = result[r]
         \/ /\ prov[r] \notin Terminal
            /\ prov'[r] = "completed" => \A i \in Items : result'[r][i] # "none"
<1>1. /\ prov \in [Runs -> {"none", "active", "stopping"} \cup Terminal]
      /\ result \in [Runs -> [Items -> {"none", "succeeded", "failed", "missing"}]]
      /\ \A o \in Runs : RequestOK(o)
  BY DEF TypeInv, TypeOK
<1>2. CASE ProviderEnd(r)
  BY <1>1, <1>2 DEF ProviderEnd
<1>3. ASSUME NEW o \in Runs, o # r, ProviderEnd(o)
      PROVE  prov'[r] = prov[r] /\ result'[r] = result[r]
  BY <1>1, <1>3 DEF ProviderEnd
<1>4. CASE SubProvider(r) \/ CanProvider(r)
  BY <1>1, <1>4 DEF SubProvider, CanProvider, RequestOK
<1>5. ASSUME NEW o \in Runs, o # r \/ ~(SubProvider(r) \/ CanProvider(r)),
             \/ Submitter(o) \/ SubCrash(o) \/ Canceller(o) \/ DelRead(o) \/ DeleteBatchRun(o)
             \/ LeaseExpires(o)
      PROVE  prov'[r] = prov[r] /\ result'[r] = result[r]
  BY <1>1, <1>5 DEF Submitter, SubLookup, SubCreate, SubItems, SubProvider, SubQueue, SubFail,
     SubCrash, Canceller, CanRead, CanProvider, CanPut, DelRead, DeleteBatchRun, LeaseExpires
<1>6. CASE UNCHANGED <<prov, result>>
  BY <1>6
<1> QED BY <1>2, <1>3, <1>4, <1>5, <1>6, PassLeaves DEF Next, vars

\* Item rows are written by the submission, the delete and PutItems.
LEMMA ItemsStep ==
  ASSUME TypeInv, [Next]_vars, NEW r \in Runs
  PROVE  \/ items'[r] = items[r]
         \/ SubItems(r) \/ DeleteBatchRun(r)
         \/ \E w \in Workers : wk[w].cur = r /\ PutItems(w)
<1>1. items \in [Runs -> [Items -> ItemStatus \cup {"none"}]]
  BY DEF TypeInv, TypeOK
<1>2. ASSUME NEW o \in Runs, DeleteBatchRun(o) \/ SubItems(o), o # r
      PROVE  items'[r] = items[r]
  BY <1>1, <1>2 DEF SubItems, DeleteBatchRun
<1>3. ASSUME NEW o \in Runs, ~SubItems(o),
             \/ Submitter(o) \/ SubCrash(o) \/ Canceller(o) \/ DelRead(o) \/ ProviderEnd(o)
             \/ LeaseExpires(o)
      PROVE  UNCHANGED items
  BY <1>3 DEF Submitter, SubLookup, SubCreate, SubProvider, SubQueue, SubFail, SubCrash,
     Canceller, CanRead, CanProvider, CanPut, DelRead, ProviderEnd, LeaseExpires
<1>4. ASSUME NEW w \in Workers, PutItems(w), wk[w].cur # r
      PROVE  items'[r] = items[r]
  BY <1>1, <1>4 DEF PutItems
<1>5. ASSUME NEW w \in Workers, Pass(w) \/ CrashPass(w), ~PutItems(w)
      PROVE  UNCHANGED items
  BY <1>5 DEF Pass, Claim, Take, Get, Load, PutRun, Hook, Deliver, Mark, Throw, PutError,
              AbortPass, CrashPass
<1>6. CASE UNCHANGED vars
  BY <1>6 DEF vars
<1> QED BY <1>2, <1>3, <1>4, <1>5, <1>6 DEF Next, Submitter

\* A pass is at putItems because it stayed there or has just loaded the items, and
\* delivers because it stayed there or has just inserted the row.
LEMMA LoadStep ==
  ASSUME TypeInv, [Next]_vars, NEW w \in Workers, wk'[w].pc \in {"putItems", "deliver"}
  PROVE  \/ wk'[w] = wk[w]
         \/ Load(w) /\ wk'[w].pc = "putItems"
         \/ Hook(w) /\ wk'[w].pc = "deliver"
<1>1. wk \in [Workers -> PassRec]
  BY DEF TypeInv, TypeOK, PassRec
<1>2. ASSUME NEW r \in Runs,
             \/ Submitter(r) \/ SubCrash(r) \/ ProviderEnd(r) \/ Canceller(r)
             \/ DelRead(r) \/ DeleteBatchRun(r) \/ LeaseExpires(r)
      PROVE  UNCHANGED wk
  BY <1>2 DEF Submitter, SubLookup, SubCreate, SubItems, SubProvider, SubQueue, SubFail, SubCrash,
     Canceller, CanRead, CanProvider, CanPut, DelRead, DeleteBatchRun, ProviderEnd, LeaseExpires
<1>3. ASSUME NEW v \in Workers, Pass(v) \/ CrashPass(v), ~Load(v), ~Hook(v)
      PROVE  wk'[w] = wk[w]
  <2>1. CASE Get(v)
    <3>1. PICK s \in Live \cup Terminal, c \in {"put", "load"} :
             /\ wk' = [wk EXCEPT ![v].run.status = s, ![v].pc = c]
             /\ c = "put" => s \in Live
      BY <1>3, <2>1, GetSets
    <3> QED BY <1>1, <1>3, <3>1 DEF PassRec
  <2>2. CASE \/ wk' = [wk EXCEPT ![v] = Finished(v)]
             \/ wk' = [wk EXCEPT ![v] = IdlePass]
             \/ wk' = [wk EXCEPT ![v] = [wk[v] EXCEPT !.pc = "hook"]]
    <3>1. wk[v] \in PassRec
      BY <1>1, <1>3
    <3>2. Finished(v).pc \in {"idle", "pick"}
      BY <3>1 DEF Finished, IdlePass, PassRec
    <3>3. /\ IdlePass.pc = "idle" /\ [wk[v] EXCEPT !.pc = "hook"].pc = "hook"
      BY <3>1 DEF IdlePass, PassRec
    <3>4. wk'[v] \in {Finished(v), IdlePass, [wk[v] EXCEPT !.pc = "hook"]}
      BY <1>1, <1>3, <2>2
    <3> QED BY <1>1, <1>3, <2>2, <3>2, <3>3, <3>4
  <2>3. CASE Claim(v)
    <3>1. PICK S \in SUBSET Due :
             wk' = [wk EXCEPT ![v].pc = "pick", ![v].claims = S,
                              ![v].snap = [o \in Runs |-> IF o \in S THEN db[o] ELSE NoRun]]
      BY <2>3 DEF Claim
    <3> QED BY <1>1, <3>1 DEF PassRec
  <2>4. CASE Take(v)
    <3>1. PICK o \in wk[v].claims, p \in {"hook", "get", "error"} :
             wk' = [wk EXCEPT ![v].cur = o, ![v].run = wk[v].snap[o],
                              ![v].claims = @ \ {o}, ![v].pc = p]
      BY <2>4 DEF Take
    <3> QED BY <1>1, <3>1 DEF PassRec
  <2>5. CASE PutItems(v) \/ Deliver(v) \/ Throw(v)
    BY <1>1, <2>5 DEF PutItems, Deliver, Throw, PassRec
  <2> QED BY <1>3, <2>1, <2>2, <2>3, <2>4, <2>5
          DEF Pass, PutRun, Mark, PutError, AbortPass, CrashPass
<1>4. ASSUME NEW v \in Workers, Load(v) \/ Hook(v)
      PROVE  \/ wk'[w] = wk[w]
             \/ v = w /\ Load(v) /\ wk'[w].pc = "putItems"
             \/ v = w /\ Hook(v) /\ wk'[w].pc \in {"deliver", "mark"}
  BY <1>1, <1>4 DEF Load, Hook, PassRec
<1>5. CASE UNCHANGED vars
  BY <1>5 DEF vars
<1> QED BY <1>2, <1>3, <1>4, <1>5 DEF Next

LEMMA PidStep ==
  ASSUME TypeInv, PidInv, [Next]_vars
  PROVE  PidInv'
<1>1. sub \in [Runs -> SubPc]
      /\ can \in [Runs -> [pc : {"idle", "provider", "put", "done"}, snap : Record]]
  BY DEF TypeInv, TypeOK
<1> SUFFICES ASSUME NEW r \in Runs, NEW c \in Record, Copy(c, r)', c.pid
             PROVE  sub'[r] = "done"
  BY DEF PidInv
<1>2. sub[r] = "done" => sub'[r] = "done"
  BY <1>1, SubStep
  DEF Submitter, SubLookup, SubCreate, SubItems, SubProvider, SubQueue, SubFail, SubCrash
<1>3. Copy(can[r].snap, r) /\ can[r].snap \in Record
  BY <1>1 DEF Copy
<1> QED BY <1>2, <1>3, CopyStep DEF Came, PidInv
\* What a pass is about to put, and what it makes of the item's row.
LEMMA FinalIs ==
  ASSUME TypeInv, ItemInv, NEW w \in Workers, wk[w].pc = "putItems",
         NEW r \in Runs, wk[w].cur = r, NEW i \in Items
  PROVE  /\ prov[r] \in Terminal /\ Outcome(r, i) \notin {"none", "pending"}
         /\ wk[w].final[i] = "none" \/ wk[w].final[i] = Outcome(r, i)
         /\ wk[w].final[i] = "none" => items[r][i] # "pending"
<1>1. prov[r] \in Terminal
  BY DEF TypeInv, PassOK
<1>2. result[r] \in [Items -> {"none", "succeeded", "failed", "missing"}]
  BY DEF TypeInv, TypeOK
<1>3. prov[r] = "completed" => result[r][i] # "none"
  BY DEF ItemInv
<1>4. Outcome(r, i) \notin {"none", "pending"}
  BY <1>1, <1>2, <1>3 DEF Outcome
<1>5. /\ wk[w].final[i] \in {"none", Outcome(wk[w].cur, i)}
      /\ wk[w].final[i] = "none" => items[wk[w].cur][i] # "pending"
  BY DEF ItemInv
<1>6. Outcome(wk[w].cur, i) = Outcome(r, i)
  BY DEF Outcome
<1> QED BY <1>1, <1>4, <1>5, <1>6

\* A batch that ended is one whose run was submitted before, so that no item row
\* is still to be inserted.
LEMMA ItemStep ==
  ASSUME TypeInv, PidInv, ItemInv, [Next]_vars
  PROVE  ItemInv'
<1>1. /\ items \in [Runs -> [Items -> ItemStatus \cup {"none"}]]
      /\ wk \in [Workers -> PassRec] /\ \A w \in Workers : PassOK(wk[w])
      /\ \A r \in Runs : RequestOK(r)
  BY DEF TypeInv, TypeOK, PassRec
<1>2. \A r \in Runs, i \in Items :
         prov[r] \in Terminal => prov'[r] = prov[r] /\ Outcome(r, i)' = Outcome(r, i)
  BY ProvStep DEF Outcome
<1>3. \A r \in Runs, i \in Items : prov'[r] = "completed" => result'[r][i] # "none"
  BY ProvStep DEF ItemInv
<1>4. ASSUME NEW r \in Runs, NEW i \in Items, items'[r][i] \notin {"none", "pending"}
      PROVE  prov'[r] \in Terminal /\ items'[r][i] = Outcome(r, i)'
  <2>1. CASE items'[r] = items[r]
    BY <1>2, <1>4, <2>1 DEF ItemInv
  <2>2. CASE SubItems(r) \/ DeleteBatchRun(r)
    BY <1>1, <1>4, <2>2 DEF SubItems, DeleteBatchRun, NoItems
  <2>3. ASSUME NEW w \in Workers, wk[w].cur = r, PutItems(w)
        PROVE  prov'[r] \in Terminal /\ items'[r][i] = Outcome(r, i)'
    <3>1. /\ wk[w].pc = "putItems" /\ prov[r] \in Terminal
          /\ items'[r][i] = IF wk[w].final[i] = "none" THEN items[r][i] ELSE wk[w].final[i]
      BY <1>1, <2>3 DEF PutItems, PassOK
    <3>2. wk[w].final[i] = "none" \/ wk[w].final[i] = Outcome(r, i)
      BY <2>3, <3>1, FinalIs
    <3>3. items[r][i] \notin {"none", "pending"} => items[r][i] = Outcome(r, i)
      BY DEF ItemInv
    <3>4. items'[r][i] = Outcome(r, i)
      BY <1>4, <3>1, <3>2, <3>3
    <3> QED BY <1>2, <3>1, <3>4
  <2> QED BY <2>1, <2>2, <2>3, ItemsStep
<1>5. ASSUME NEW w \in Workers, wk'[w].pc = "putItems", NEW i \in Items
      PROVE  /\ wk'[w].final[i] \in {"none", Outcome(wk[w].cur, i)'}
             /\ wk'[w].final[i] = "none" => items[wk[w].cur][i]' # "pending"
  <2>1. CASE wk'[w] = wk[w]
    <3> DEFINE r == wk[w].cur
    <3>1. r \in Runs /\ prov[r] \in Terminal /\ sub[r] # "items"
      BY <1>1, <1>5, <2>1 DEF PassOK, Busy, RequestOK
    <3>2. wk[w].final[i] \in {"none", Outcome(r, i)'}
      BY <1>2, <1>5, <2>1, <3>1, FinalIs
    <3>3. ASSUME wk[w].final[i] = "none" PROVE items'[r][i] # "pending"
      <4>1. items[r][i] # "pending"
        BY <1>5, <2>1, <3>1, <3>3, FinalIs
      <4>2. CASE items'[r] = items[r]
        BY <4>1, <4>2
      <4>3. CASE SubItems(r) \/ DeleteBatchRun(r)
        BY <1>1, <3>1, <4>3 DEF SubItems, DeleteBatchRun, NoItems
      <4>4. ASSUME NEW v \in Workers, wk[v].cur = r, PutItems(v)
            PROVE  items'[r][i] # "pending"
        <5>1. /\ wk[v].pc = "putItems"
              /\ items'[r][i] = IF wk[v].final[i] = "none" THEN items[r][i] ELSE wk[v].final[i]
          BY <1>1, <3>1, <4>4 DEF PutItems
        <5> HIDE DEF r
        <5> QED BY <3>1, <4>1, <4>4, <5>1, FinalIs
      <4> QED BY <3>1, <4>2, <4>3, <4>4, ItemsStep
    <3> QED BY <2>1, <3>2, <3>3
  <2>2. CASE Load(w)
    <3>1. wk[w].cur \in Runs /\ prov[wk[w].cur] \in Terminal
      BY <1>1, <2>2 DEF Load, PassOK, Busy
    <3>2. PICK r \in Runs : r = wk[w].cur
      BY <3>1
    <3>3. prov[r] \in Terminal
      BY <3>1, <3>2
    <3>4. /\ wk'[w].cur = r /\ wk'[w].final = FinalItems(r)
          /\ UNCHANGED <<items, prov, result>>
      BY <1>1, <2>2, <3>2 DEF Load, PassRec
    <3>5. Outcome(wk[w].cur, i)' = Outcome(r, i)
      BY <3>2, <3>4 DEF Outcome
    <3>6. items[wk[w].cur][i]' = items[r][i]
      BY <3>2, <3>4
    <3>7. items[r][i] \notin {"none", "pending"} => items[r][i] = Outcome(r, i)
      BY DEF ItemInv
    <3>8. FinalItems(r)[i] = IF items[r][i] = "none" THEN "none" ELSE Outcome(r, i)
      BY <3>3, <3>7 DEF FinalItems, Outcome
    <3>9. result[r] \in [Items -> {"none", "succeeded", "failed", "missing"}]
      BY DEF TypeInv, TypeOK
    <3>10. prov[r] = "completed" => result[r][i] # "none"
      BY DEF ItemInv
    <3>11. Outcome(r, i) \notin {"none", "pending"}
      BY <3>3, <3>9, <3>10 DEF Outcome
    <3> QED BY <3>4, <3>5, <3>6, <3>8, <3>11
  <2> QED BY <1>5, <2>1, <2>2, LoadStep
<1> QED BY <1>3, <1>4, <1>5 DEF ItemInv

LEMMA SettledStep ==
  ASSUME TypeInv, PidInv, ItemInv, SettledInv, [Next]_vars
  PROVE  SettledInv'
<1>1. /\ items \in [Runs -> [Items -> ItemStatus \cup {"none"}]]
      /\ wk \in [Workers -> PassRec] /\ \A w \in Workers : PassOK(wk[w])
  BY DEF TypeInv, TypeOK, PassRec
<1>2. ASSUME NEW r \in Runs, NEW w \in Workers, wk[w].cur = r, PutItems(w), NEW i \in Items
      PROVE  items'[r][i] # "pending"
  <2>1. /\ wk[w].pc = "putItems" /\ prov[r] \in Terminal
        /\ items'[r][i] = IF wk[w].final[i] = "none" THEN items[r][i] ELSE wk[w].final[i]
    BY <1>1, <1>2 DEF PutItems, PassOK
  <2> QED BY <1>2, <2>1, FinalIs
<1> SUFFICES ASSUME NEW r \in Runs, NEW c \in Record, Copy(c, r)', c.pid, c.status \in Terminal,
                    NEW i \in Items
             PROVE  items'[r][i] # "pending"
  BY DEF SettledInv
<1>3. CASE \E w \in Workers : wk[w].cur = r /\ PutItems(w)
  BY <1>2, <1>3
<1>4. CASE ~\E w \in Workers : wk[w].cur = r /\ PutItems(w)
  <2>1. PICK d \in Record : Copy(d, r) /\ d.status = c.status /\ d.pid = c.pid
    <3>1. Came(c, r)
      BY CopyStep
    <3> QED BY <1>4, <3>1 DEF Came
  <2>2. items[r][i] # "pending" /\ sub[r] = "done"
    BY <2>1 DEF SettledInv, PidInv
  <2>3. CASE SubItems(r) \/ DeleteBatchRun(r)
    BY <1>1, <2>2, <2>3 DEF SubItems, DeleteBatchRun, NoItems
  <2> QED BY <1>4, <2>2, <2>3, ItemsStep
<1> QED BY <1>3, <1>4

\* A record in play that says the batch ended was made from the provider's answer,
\* or is a copy of one; the provider does not change its mind.
LEMMA EndStep ==
  ASSUME TypeInv, EndInv, [Next]_vars
  PROVE  EndInv'
<1> SUFFICES ASSUME NEW r \in Runs, NEW c \in Record, Copy(c, r)', c.pid, c.status \in Terminal
             PROVE  c.status = prov'[r]
  BY DEF EndInv
<1>1. Came(c, r)
  BY CopyStep
<1>2. c.status = prov[r]
  <2>1. CASE \E d \in Record : Copy(d, r) /\ d.status = c.status /\ d.pid = c.pid
    BY <2>1 DEF EndInv
  <2>2. CASE ~\E d \in Record : Copy(d, r) /\ d.status = c.status /\ d.pid = c.pid
    BY <1>1, <2>2 DEF Came
  <2> QED BY <2>1, <2>2
<1> QED BY <1>2, ProvStep

\* A run no client has begun to cancel was not being cancelled before.
LEMMA CanStep ==
  ASSUME TypeInv, [Next]_vars, NEW r \in Runs, can'[r].pc = "idle"
  PROVE  can[r].pc = "idle"
<1>1. can \in [Runs -> [pc : {"idle", "provider", "put", "done"}, snap : Record]]
  BY DEF TypeInv, TypeOK
<1>2. ASSUME NEW o \in Runs, Canceller(o) PROVE can[r].pc = "idle"
  BY <1>1, <1>2 DEF Canceller, CanRead, CanProvider, CanPut
<1>3. ASSUME NEW o \in Runs,
             \/ Submitter(o) \/ SubCrash(o) \/ ProviderEnd(o) \/ DelRead(o)
             \/ DeleteBatchRun(o) \/ LeaseExpires(o)
      PROVE  UNCHANGED can
  BY <1>3 DEF Submitter, SubLookup, SubCreate, SubItems, SubProvider, SubQueue, SubFail, SubCrash,
     ProviderEnd, DelRead, DeleteBatchRun, LeaseExpires
<1>4. CASE UNCHANGED vars
  BY <1>4 DEF vars
<1> QED BY <1>2, <1>3, <1>4, PassLeaves DEF Next

\* A row is there to stay: a pass inserts it with what its own record says, and
\* deliveries change its state only.
LEMMA RowStep ==
  ASSUME TypeInv, AgreeInv, [Next]_vars, NEW r \in Runs
  PROVE  \/ outbox'[r] = outbox[r]
         \/ outbox[r] # NoRow /\ outbox'[r] # NoRow /\ outbox'[r].status = outbox[r].status
         \/ /\ outbox[r] = NoRow /\ outbox'[r] # NoRow
            /\ \E d \in Record : /\ Copy(d, r) /\ d.status \in Terminal
                                /\ outbox'[r].status = d.status
<1>1. /\ outbox \in [Runs -> [status : Terminal \cup {"absent"},
                            state : {"none", "pending", "delivered", "failed_permanent"}]]
      /\ wk \in [Workers -> PassRec] /\ \A w \in Workers : PassOK(wk[w])
  BY DEF TypeInv, TypeOK, PassRec
<1>2. ASSUME NEW w \in Workers, Hook(w), wk[w].cur = r, outbox[r] = NoRow
      PROVE  /\ outbox'[r] # NoRow
             /\ \E d \in Record : /\ Copy(d, r) /\ d.status \in Terminal
                                 /\ outbox'[r].status = d.status
  <2>1. /\ wk[w].run \in Record /\ wk[w].run.status \in Terminal /\ wk[w].pc = "hook"
    BY <1>1, <1>2 DEF Hook, PassOK, PassRec
  <2>2. outbox'[r] = [status |-> wk[w].run.status, state |-> "pending"]
    BY <1>1, <1>2 DEF Hook
  <2>3. Copy(wk[w].run, r)
    BY <1>2, <2>1 DEF Copy, InPlay
  <2> QED BY <2>1, <2>2, <2>3 DEF NoRow
<1>3. ASSUME NEW w \in Workers, Hook(w), ~(wk[w].cur = r /\ outbox[r] = NoRow)
      PROVE  outbox'[r] = outbox[r]
  BY <1>1, <1>3 DEF Hook
<1>4. ASSUME NEW w \in Workers, Deliver(w), wk[w].cur = r
      PROVE  outbox[r] # NoRow /\ outbox'[r] # NoRow /\ outbox'[r].status = outbox[r].status
  <2>1. outbox[r] # NoRow
    BY <1>4 DEF Deliver, AgreeInv
  <2>2. PICK s \in {"delivered", "failed_permanent"} : outbox' = [outbox EXCEPT ![r].state = s]
    BY <1>4 DEF Deliver
  <2> QED BY <1>1, <2>1, <2>2 DEF NoRow
<1>5. ASSUME NEW w \in Workers, Deliver(w), wk[w].cur # r
      PROVE  outbox'[r] = outbox[r]
  BY <1>1, <1>5 DEF Deliver
<1> QED BY <1>2, <1>3, <1>4, <1>5, OutboxStep

LEMMA AgreeStep ==
  ASSUME TypeInv, PidInv, AgreeInv, [Next]_vars
  PROVE  AgreeInv'
<1>1. /\ wk \in [Workers -> PassRec] /\ \A w \in Workers : PassOK(wk[w])
      /\ outbox \in [Runs -> [status : Terminal \cup {"absent"},
                            state : {"none", "pending", "delivered", "failed_permanent"}]]
  BY DEF TypeInv, TypeOK, PassRec
<1>2. ASSUME NEW w \in Workers, wk'[w].pc = "deliver"
      PROVE  outbox'[wk'[w].cur] # NoRow
  <2>1. CASE wk'[w] = wk[w]
    <3>1. wk[w].cur \in Runs /\ outbox[wk[w].cur] # NoRow
      BY <1>1, <1>2, <2>1 DEF PassOK, Busy, AgreeInv
    <3> QED BY <2>1, <3>1, RowStep
  <2>2. CASE Hook(w)
    <3>1. wk[w].cur \in Runs /\ wk'[w].cur = wk[w].cur
      BY <1>1, <1>2, <2>2 DEF Hook, PassOK, Busy, PassRec
    <3> QED BY <1>1, <1>2, <2>2, <3>1 DEF Hook, NoRow, PassRec
  <2> QED BY <1>2, <2>1, <2>2, LoadStep
<1>3. ASSUME NEW r \in Runs PROVE outbox'[r] # NoRow => outbox'[r].status \in Terminal
  BY RowStep DEF AgreeInv
<1>4. ASSUME NEW r \in Runs, can'[r].pc = "idle"
      PROVE  /\ sub'[r] # "done" => outbox'[r] = NoRow
             /\ \A c \in Record : Copy(c, r)' =>
                   /\ c.status \in Terminal =>
                         sub'[r] = "done" /\ c.status = IF c.pid THEN prov'[r] ELSE "failed"
                   /\ c.pid /\ outbox'[r] # NoRow => outbox'[r].status = prov'[r]
                   /\ c.status \in Terminal /\ ~c.pid /\ outbox'[r] # NoRow =>
                         outbox'[r].status = "failed"
                   /\ c.pid => \A d \in Record : Copy(d, r)' /\ d.status \in Terminal => d.pid
  <2>1. can[r].pc = "idle"
    BY <1>4, CanStep
  <2>2. sub[r] = "done" => sub'[r] = "done"
    <3>1. sub \in [Runs -> SubPc]
      BY DEF TypeInv, TypeOK
    <3> QED BY <3>1, SubStep
        DEF Submitter, SubLookup, SubCreate, SubItems, SubProvider, SubQueue, SubFail, SubCrash
  <2>3. /\ sub[r] # "done" => outbox[r] = NoRow
        /\ \A c \in Record : Copy(c, r) =>
              /\ c.status \in Terminal =>
                    sub[r] = "done" /\ c.status = IF c.pid THEN prov[r] ELSE "failed"
              /\ c.pid /\ outbox[r] # NoRow => outbox[r].status = prov[r]
              /\ c.status \in Terminal /\ ~c.pid /\ outbox[r] # NoRow =>
                    outbox[r].status = "failed"
              /\ c.pid => \A d \in Record : Copy(d, r) /\ d.status \in Terminal => d.pid
    BY <2>1 DEF AgreeInv
  <2>4. prov[r] \in Terminal => prov'[r] = prov[r]
    BY ProvStep
  <2>5. ASSUME NEW c \in Record, Copy(c, r)', c.pid
        PROVE  (\E d \in Record : Copy(d, r) /\ d.pid /\ sub[r] = "done") \/ sub[r] = "queue"
    <3>1. Came(c, r)
      BY <2>5, CopyStep
    <3> QED BY <2>1, <2>5, <3>1 DEF Came, PidInv
  <2>6. ASSUME NEW c \in Record, Copy(c, r)', c.status \in Terminal, c.pid
        PROVE  /\ sub[r] = "done" /\ c.status = prov[r]
               /\ \E d \in Record : Copy(d, r) /\ d.pid
    <3>1. Came(c, r)
      BY <2>6, CopyStep
    <3> QED BY <2>1, <2>3, <2>6, <3>1 DEF Came, PidInv
  <2>7. ASSUME NEW c \in Record, Copy(c, r)', c.status \in Terminal, ~c.pid
        PROVE  /\ sub'[r] = "done" /\ c.status = "failed"
               /\ \/ \E d \in Record : Copy(d, r) /\ d.status \in Terminal /\ ~d.pid
                  \/ sub[r] = "fail"
    <3>1. Came(c, r)
      BY <2>7, CopyStep
    <3> QED BY <2>1, <2>2, <2>3, <2>7, <3>1 DEF Came
  <2>8. sub'[r] # "done" => outbox'[r] = NoRow
    BY <2>2, <2>3, RowStep
  <2>9. ASSUME NEW c \in Record, Copy(c, r)', c.pid, outbox'[r] # NoRow
        PROVE  outbox'[r].status = prov'[r]
    <3>1. PICK d \in Record : Copy(d, r) /\ d.pid
      BY <2>3, <2>5, <2>9, RowStep
    <3>2. outbox'[r].status = prov[r]
      BY <2>3, <2>9, <3>1, RowStep
    <3> QED BY <1>3, <2>4, <2>9, <3>2
  <2>10. ASSUME NEW c \in Record, Copy(c, r)', c.status \in Terminal, ~c.pid, outbox'[r] # NoRow
         PROVE  outbox'[r].status = "failed"
    <3>1. PICK d \in Record : Copy(d, r) /\ d.status \in Terminal /\ ~d.pid
      BY <2>3, <2>7, <2>10, RowStep
    <3> QED BY <2>3, <2>10, <3>1, RowStep
  <2>11. ASSUME NEW c \in Record, Copy(c, r)', c.pid,
                NEW d \in Record, Copy(d, r)', d.status \in Terminal
         PROVE  d.pid
    <3>1. SUFFICES ASSUME ~d.pid PROVE FALSE
      OBVIOUS
    <3>2. \/ \E e \in Record : Copy(e, r) /\ e.status \in Terminal /\ ~e.pid
          \/ sub[r] = "fail"
      BY <2>7, <2>11, <3>1
    <3> QED BY <2>3, <2>5, <2>11, <3>2
  <2> QED BY <2>4, <2>6, <2>7, <2>2, <2>8, <2>9, <2>10, <2>11
<1> QED BY <1>2, <1>3, <1>4 DEF AgreeInv

-----------------------------------------------------------------------------
LEMMA OutcomeInit == Init => OutcomeInv
<1> SUFFICES ASSUME Init PROVE OutcomeInv
  OBVIOUS
<1>1. \A r \in Runs, c \in Record : Copy(c, r) => c = NoRun
  BY DEF Init, Copy, IdlePass, InPlay
<1>2. \A r \in Runs : can[r].pc = "idle" /\ outbox[r] = NoRow /\ prov[r] = "none"
  BY DEF Init
<1>3. ItemInv
  BY DEF ItemInv, Init, NoItems, IdlePass
<1>4. AgreeInv
  BY <1>1, <1>2 DEF AgreeInv, NoRun, Init, IdlePass
<1> QED BY <1>1, <1>3, <1>4 DEF OutcomeInv, PidInv, SettledInv, EndInv, NoRun

\* However passes, cancels, deletes, faults and crashes interleave, the records in
\* play, the item rows and the outbox row keep agreeing.
LEMMA OutcomeHolds == Spec => [](TypeInv /\ OutcomeInv)
<1>1. TypeInv /\ OutcomeInv /\ [Next]_vars => OutcomeInv'
  BY PidStep, ItemStep, SettledStep, EndStep, AgreeStep DEF OutcomeInv
<1> QED BY <1>1, TypeInit, TypeStep, OutcomeInit, PTL DEF Spec

\* A stored record that says the provider's batch ended stands beside settled item
\* rows, whatever any pass still holds of it (reconcileOne).
THEOREM TerminalIsSettled == Spec => []SettledBeforeTerminal
<1>1. TypeInv /\ OutcomeInv => SettledBeforeTerminal
  <2> SUFFICES ASSUME TypeInv, OutcomeInv, NEW r \in Runs,
                      db[r].status \in Terminal, db[r].pid, NEW i \in Items
               PROVE  items[r][i] # "pending"
    BY DEF SettledBeforeTerminal
  <2>1. db[r] \in Record
    BY DEF TypeInv, TypeOK
  <2> QED BY <2>1 DEF OutcomeInv, SettledInv, Copy
<1> QED BY <1>1, OutcomeHolds, PTL

\* The outcome a client reads, of a run whose provider id is stored and of each of
\* its items, is the provider's: passes that overlap, retry or hold old copies
\* cannot store another (reconcileOne, reconcileBatchRuns, cancelBatchRun).
THEOREM OutcomesAreTrue == Spec => []OutcomeIsProviders
<1>1. TypeInv /\ OutcomeInv => OutcomeIsProviders
  <2> SUFFICES ASSUME TypeInv, OutcomeInv, NEW r \in Runs
               PROVE  /\ db[r].status \in Terminal /\ db[r].pid => db[r].status = prov[r]
                      /\ \A i \in Items : items[r][i] \in ItemStatus \ {"pending"} =>
                            prov[r] \in Terminal /\ items[r][i] = Outcome(r, i)
    BY DEF OutcomeIsProviders
  <2>1. db[r] \in Record /\ Copy(db[r], r)
    BY DEF TypeInv, TypeOK, Copy
  <2>2. db[r].status \in Terminal /\ db[r].pid => db[r].status = prov[r]
    BY <2>1 DEF OutcomeInv, EndInv
  <2>3. ASSUME NEW i \in Items, items[r][i] \in ItemStatus \ {"pending"}
        PROVE  prov[r] \in Terminal /\ items[r][i] = Outcome(r, i)
    BY <2>3 DEF OutcomeInv, ItemInv
  <2> QED BY <2>2, <2>3
<1> QED BY <1>1, OutcomeHolds, PTL

\* What the receiver is told is what the store says of a terminal run no client
\* has begun to cancel (the terminal branches of reconcileBatchRuns, dispatch).
THEOREM WebhookAgrees == Spec => []WebhookTellsOutcome
<1>1. TypeInv /\ OutcomeInv => WebhookTellsOutcome
  <2> SUFFICES ASSUME TypeInv, OutcomeInv, NEW r \in Runs, can[r].pc = "idle",
                      outbox[r] # NoRow, db[r].status \in Terminal
               PROVE  outbox[r].status = db[r].status
    BY DEF WebhookTellsOutcome
  <2>1. db[r] \in Record /\ Copy(db[r], r)
    BY DEF TypeInv, TypeOK, Copy
  <2> QED BY <2>1 DEF OutcomeInv, AgreeInv
<1> QED BY <1>1, OutcomeHolds, PTL

\* A settled item keeps its status until the run is deleted: late and repeated
\* passes compute the same one from the provider's results (reconcileOne).
THEOREM ResultsStay == Spec => ResultsDurable
<1>1. TypeInv /\ OutcomeInv /\ [Next]_vars =>
        \A r \in Runs : \A i \in Items :
            items[r][i] \in ItemStatus \ {"pending"} => items'[r][i] \in {items[r][i], "none"}
  <2> SUFFICES ASSUME TypeInv, OutcomeInv, [Next]_vars, NEW r \in Runs, NEW i \in Items,
                      items[r][i] \in ItemStatus \ {"pending"}
               PROVE  items'[r][i] \in {items[r][i], "none"}
    OBVIOUS
  <2>1. items \in [Runs -> [Items -> ItemStatus \cup {"none"}]] /\ RequestOK(r)
    BY DEF TypeInv, TypeOK
  <2>2. prov[r] \in Terminal /\ items[r][i] = Outcome(r, i)
    BY DEF OutcomeInv, ItemInv
  <2>3. CASE SubItems(r)
    BY <2>1, <2>2, <2>3 DEF SubItems, RequestOK
  <2>4. CASE DeleteBatchRun(r)
    BY <2>1, <2>4 DEF DeleteBatchRun, NoItems
  <2>5. ASSUME NEW w \in Workers, wk[w].cur = r, PutItems(w)
        PROVE  items'[r][i] = items[r][i]
    <3>1. /\ wk[w].pc = "putItems"
          /\ items'[r][i] = IF wk[w].final[i] = "none" THEN items[r][i] ELSE wk[w].final[i]
      BY <2>1, <2>5 DEF PutItems
    <3> QED BY <2>2, <2>5, <3>1, FinalIs DEF OutcomeInv
  <2> QED BY <2>3, <2>4, <2>5, ItemsStep
<1>2. [](TypeInv /\ OutcomeInv) /\ [][Next]_vars => ResultsDurable
  BY <1>1, PTL DEF ResultsDurable
<1> QED BY <1>2, OutcomeHolds, PTL DEF Spec
=============================================================================
