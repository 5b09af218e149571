--------------------------- MODULE ExecutorProofs ---------------------------
(* Proofs about the two executors that work through a list: the one of a       *)
(* hosted eval, over the items of its dataset, and the one of a pipeline, over *)
(* the steps of its manifest, for any number of items, steps and cancels.      *)
EXTENDS Pipeline, HostedEval, FiniteSetTheorems, SequenceTheorems, TLAPS

-----------------------------------------------------------------------------
(* Lists of cases. *)

\* No item has two cases.
Distinct(cases) ==
  \A m, n \in DOMAIN cases : cases[m].item = cases[n].item => m = n

\* Every item has one.
Whole(cases) == \A i \in Items : Has(cases, i)

CaseType == [item : Items, result : {"completed", "failed", "cancelled"}]

\* SetToSeq lists a finite set, each member once.
LEMMA SetToSeqLists ==
  ASSUME NEW S, IsFiniteSet(S)
  PROVE  /\ SetToSeq(S) \in Seq(S)
         /\ \A m, n \in DOMAIN SetToSeq(S) : SetToSeq(S)[m] = SetToSeq(S)[n] => m = n
         /\ \A x \in S : \E n \in DOMAIN SetToSeq(S) : SetToSeq(S)[n] = x
  <1> DEFINE k == Cardinality(S)
             f == SetToSeq(S)
  <1>1. k \in Nat /\ ExistsBijection(1 .. k, S)
    BY FS_CardinalityType
  <1>2. \E g \in [1 .. k -> S] : IsInjective(g)
    BY <1>1 DEF ExistsBijection, Bijection, Injection
  <1>3. f \in [1 .. k -> S] /\ IsInjective(f)
    BY <1>2 DEF SetToSeq
  <1>4. f \in Injection(1 .. k, S)
    BY <1>3 DEF Injection
  <1>5. IsFiniteSet(1 .. k) /\ Cardinality(1 .. k) = k
    BY <1>1, FS_Interval
  <1>6. f \in Surjection(1 .. k, S)
    BY <1>4, <1>5, FS_Injection
  <1>7. f \in Seq(S)
    BY <1>1, <1>3
  <1> QED
    BY <1>3, <1>6, <1>7 DEF IsInjective, Surjection

\* A case is appended for an item that has none.
LEMMA AppendCase ==
  ASSUME NEW s \in Seq(CaseType), NEW i \in Items, NEW r \in {"completed", "failed", "cancelled"}
  PROVE  LET t == Append(s, Case(i, r)) IN
         /\ t \in Seq(CaseType)
         /\ ToSet(s) \subseteq ToSet(t)
         /\ \A j : Has(t, j) <=> Has(s, j) \/ j = i
         /\ Distinct(s) /\ ~Has(s, i) => Distinct(t)
  <1> DEFINE t == Append(s, Case(i, r))
  <1>1. Case(i, r) \in CaseType /\ Case(i, r).item = i
    BY DEF CaseType, Case
  <1>2. /\ t \in Seq(CaseType)
        /\ Len(t) = Len(s) + 1
        /\ \A n \in 1 .. Len(s) : t[n] = s[n]
        /\ t[Len(s) + 1] = Case(i, r)
    BY <1>1, AppendProperties
  <1> HIDE DEF t
  <1>3. DOMAIN s = 1 .. Len(s) /\ DOMAIN t = 1 .. Len(s) + 1 /\ Len(s) \in Nat
    BY <1>2
  <1>4. ToSet(s) \subseteq ToSet(t)
    BY <1>2, <1>3 DEF ToSet
  <1>5. \A j : Has(t, j) <=> Has(s, j) \/ j = i
    BY <1>1, <1>2, <1>3 DEF Has
  <1>6. ASSUME Distinct(s), ~Has(s, i)
        PROVE  Distinct(t)
    BY <1>1, <1>2, <1>3, <1>6 DEF Distinct, Has
  <1> QED
    BY <1>2, <1>4, <1>5, <1>6 DEF t

\* The cases of a set, for items of their own, are listed behind those of s.
LEMMA ListCases ==
  ASSUME NEW s \in Seq(CaseType), NEW C, C \subseteq CaseType, IsFiniteSet(C),
         \A c \in C : ~Has(s, c.item)
  PROVE  LET t == s \o SetToSeq(C) IN
         /\ t \in Seq(CaseType)
         /\ ToSet(s) \subseteq ToSet(t)
         /\ \A j : Has(t, j) <=> Has(s, j) \/ \E c \in C : c.item = j
         /\ Distinct(s) /\ (\A c, d \in C : c.item = d.item => c = d) => Distinct(t)
  <1> DEFINE z == SetToSeq(C)
             t == s \o z
  <1>1. /\ z \in Seq(C)
        /\ \A m, n \in DOMAIN z : z[m] = z[n] => m = n
        /\ \A x \in C : \E n \in DOMAIN z : z[n] = x
    BY SetToSeqLists
  <1> HIDE DEF z
  <1>2. z \in Seq(CaseType) /\ DOMAIN z = 1 .. Len(z) /\ Len(z) \in Nat
    BY <1>1
  <1>3. \A n \in 1 .. Len(z) : z[n] \in C
    BY <1>1
  <1>4. /\ t \in Seq(CaseType)
        /\ Len(t) = Len(s) + Len(z)
        /\ \A n \in 1 .. Len(s) + Len(z) : t[n] = IF n <= Len(s) THEN s[n] ELSE z[n - Len(s)]
    BY <1>2, ConcatProperties
  <1> HIDE DEF t
  <1>5. DOMAIN s = 1 .. Len(s) /\ DOMAIN t = 1 .. Len(s) + Len(z) /\ Len(s) \in Nat
    BY <1>4
  <1>6. /\ \A n \in 1 .. Len(s) : n \in DOMAIN t /\ t[n] = s[n]
        /\ \A n \in 1 .. Len(z) : Len(s) + n \in DOMAIN t /\ t[Len(s) + n] = z[n]
    BY <1>2, <1>4, <1>5
  <1>7. \A n \in DOMAIN t : (n \in 1 .. Len(s) /\ t[n] = s[n])
                            \/ (n - Len(s) \in 1 .. Len(z) /\ t[n] = z[n - Len(s)])
    BY <1>2, <1>4, <1>5
  <1>8. ToSet(s) \subseteq ToSet(t)
    BY <1>5, <1>6 DEF ToSet
  <1>9. \A j : Has(t, j) <=> Has(s, j) \/ \E c \in C : c.item = j
    <2> TAKE j
    <2>1. ASSUME NEW n \in DOMAIN t, t[n].item = j
          PROVE  Has(s, j) \/ \E c \in C : c.item = j
      <3>1. CASE n \in 1 .. Len(s) /\ t[n] = s[n]
        BY <1>5, <2>1, <3>1 DEF Has
      <3>2. CASE n - Len(s) \in 1 .. Len(z) /\ t[n] = z[n - Len(s)]
        BY <1>3, <2>1, <3>2
      <3> QED
        BY <1>7, <3>1, <3>2
    <2>2. ASSUME Has(s, j)
          PROVE  Has(t, j)
      BY <1>5, <1>6, <2>2 DEF Has
    <2>3. ASSUME NEW c \in C, c.item = j
          PROVE  Has(t, j)
      <3>1. PICK n \in DOMAIN z : z[n] = c
        BY <1>1
      <3> QED
        BY <1>2, <1>6, <2>3, <3>1 DEF Has
    <2>4. Has(t, j) => \E n \in DOMAIN t : t[n].item = j
      BY DEF Has
    <2> QED
      BY <2>1, <2>2, <2>3, <2>4
  <1>10. ASSUME Distinct(s), \A c, d \in C : c.item = d.item => c = d
         PROVE  Distinct(t)
    <2> SUFFICES ASSUME NEW m \in DOMAIN t, NEW n \in DOMAIN t, t[m].item = t[n].item
                 PROVE  m = n
      BY DEF Distinct
    <2>1. CASE m \in 1 .. Len(s) /\ n \in 1 .. Len(s)
      BY <1>5, <1>6, <1>10, <2>1 DEF Distinct
    <2>2. CASE m - Len(s) \in 1 .. Len(z) /\ n - Len(s) \in 1 .. Len(z)
      <3>1. m \in Int /\ n \in Int /\ Len(s) \in Int
        BY <1>2, <1>5
      <3>2. t[m] = z[m - Len(s)] /\ t[n] = z[n - Len(s)]
        BY <1>5, <1>6, <1>7, <2>2
      <3>3. z[m - Len(s)] = z[n - Len(s)]
        BY <1>3, <1>10, <2>2, <3>2
      <3>4. m - Len(s) = n - Len(s)
        BY <1>1, <1>2, <2>2, <3>3
      <3> QED
        BY <3>1, <3>4
    <2>3. ASSUME NEW p \in 1 .. Len(s), NEW q \in 1 .. Len(z)
          PROVE  s[p].item # z[q].item
      BY <1>3, <1>5 DEF Has
    <2> QED
      BY <1>7, <2>1, <2>2, <2>3
  <1> QED
    BY <1>4, <1>8, <1>9, <1>10 DEF t, z

\* What mergeEvalCaseResults returns.
LEMMA Merged ==
  ASSUME NEW s \in Seq(CaseType), NEW stored \in Seq(CaseType)
  PROVE  LET t == MergeCases(s, stored) IN
         /\ t \in Seq(CaseType)
         /\ ToSet(s) \subseteq ToSet(t)
         /\ \A j : Has(s, j) => Has(t, j)
         /\ Distinct(s) /\ Distinct(stored) => Distinct(t)
  <1> DEFINE C == {c \in ToSet(stored) : ~Has(s, c.item)}
  <1>1. DOMAIN stored = 1 .. Len(stored) /\ Len(stored) \in Nat
    OBVIOUS
  <1>2. stored \in Surjection(1 .. Len(stored), ToSet(stored))
    BY <1>1 DEF Surjection, ToSet
  <1>3. IsFiniteSet(ToSet(stored))
    BY <1>1, <1>2, FS_Surjection, FS_Interval
  <1>4. C \subseteq ToSet(stored)
    OBVIOUS
  <1>5. IsFiniteSet(C)
    BY <1>3, <1>4, FS_Subset
  <1>6. C \subseteq CaseType
    BY <1>1 DEF ToSet
  <1>7. \A c \in C : ~Has(s, c.item)
    OBVIOUS
  <1>8. ASSUME Distinct(stored)
        PROVE  \A c, d \in C : c.item = d.item => c = d
    BY <1>8 DEF Distinct, ToSet
  <1> HIDE DEF C
  <1>9. LET t == s \o SetToSeq(C) IN
        /\ t \in Seq(CaseType)
        /\ ToSet(s) \subseteq ToSet(t)
        /\ \A j : Has(t, j) <=> Has(s, j) \/ \E c \in C : c.item = j
        /\ Distinct(s) /\ (\A c, d \in C : c.item = d.item => c = d) => Distinct(t)
    BY <1>5, <1>6, <1>7, ListCases
  <1>10. MergeCases(s, stored) = s \o SetToSeq(C)
    BY DEF MergeCases, C
  <1> QED
    BY <1>8, <1>9, <1>10

\* What cancelStoredEvalRun writes has a case for every item.
LEMMA Completed ==
  ASSUME NEW s \in Seq(CaseType)
  PROVE  LET t == s \o SetToSeq({Case(i, "cancelled") : i \in {j \in Items : ~Has(s, j)}}) IN
         /\ t \in Seq(CaseType)
         /\ Whole(t)
         /\ Distinct(s) => Distinct(t)
  <1> DEFINE M == {j \in Items : ~Has(s, j)}
             C == {Case(i, "cancelled") : i \in M}
             g == [i \in M |-> Case(i, "cancelled")]
  <1>1. IsFiniteSet(Items)
    BY HostedEvalAssumption, FS_Interval DEF Items
  <1>2. M \subseteq Items
    OBVIOUS
  <1>3. IsFiniteSet(M)
    BY <1>1, <1>2, FS_Subset
  <1>4. g \in Surjection(M, C)
    BY DEF Surjection
  <1>5. IsFiniteSet(C)
    BY <1>3, <1>4, FS_Surjection
  <1>6. \A i : Case(i, "cancelled").item = i
    BY DEF Case
  <1>7. C \subseteq CaseType
    BY <1>2 DEF CaseType, Case
  <1>8. /\ \A c \in C : ~Has(s, c.item)
        /\ \A c, d \in C : c.item = d.item => c = d
        /\ \A i \in M : \E c \in C : c.item = i
    <2>1. \A i \in M : Case(i, "cancelled") \in C
      OBVIOUS
    <2>2. \A c \in C : c.item \in M /\ c = Case(c.item, "cancelled")
      BY <1>6
    <2> HIDE DEF C
    <2>3. \A c \in C : ~Has(s, c.item)
      BY <2>2
    <2>4. \A c, d \in C : c.item = d.item => c = d
      BY <2>2
    <2>5. \A i \in M : \E c \in C : c.item = i
      BY <2>1, <1>6
    <2> QED
      BY <2>3, <2>4, <2>5
  <1>9. \A i \in Items : i \in M \/ Has(s, i)
    OBVIOUS
  <1>10. C = {Case(i, "cancelled") : i \in {j \in Items : ~Has(s, j)}}
    OBVIOUS
  <1> HIDE DEF C, M
  <1>11. LET t == s \o SetToSeq(C) IN
        /\ t \in Seq(CaseType)
        /\ ToSet(s) \subseteq ToSet(t)
        /\ \A j : Has(t, j) <=> Has(s, j) \/ \E c \in C : c.item = j
        /\ Distinct(s) /\ (\A c, d \in C : c.item = d.item => c = d) => Distinct(t)
    BY <1>5, <1>7, <1>8, ListCases
  <1>12. Whole(s \o SetToSeq(C))
    BY <1>8, <1>9, <1>11 DEF Whole
  <1> QED
    BY <1>8, <1>10, <1>11, <1>12

-----------------------------------------------------------------------------
(* HostedEval: an item the executor has not come to has no result of its own,  *)
(* and once it has seen the cancellation, the stored record says so for good.   *)

Record == [status : {"running", "cancelled", "failed", "completed"}, cases : Seq(CaseType)]
Working == {"look", "decide", "target", "judge"}
Writing == {"put", "putTried", "putLast", "putFailed"}

EvalTypes ==
  /\ evalRun \in Record /\ local \in Record /\ latest \in Record /\ outgoing \in Record
  /\ evalPc \in {"idle", "finish", "score", "scoreFailed", "over", "lost", "dead"}
               \cup Working \cup Writing
  /\ item \in 1 .. ItemCount + 1
  /\ signal \in BOOLEAN
  /\ asked \in [Cancels -> [pc : {"idle", "read", "put", "score", "answered", "refused"},
                            run : Record]]
  /\ evalPc \in {"idle"} \cup Working => item \in Items
  /\ evalPc \in {"finish", "putLast"} => item = ItemCount + 1

\* No record that anybody holds has two cases of one item.
NoRepeats ==
  /\ Distinct(evalRun.cases) /\ Distinct(local.cases) /\ Distinct(latest.cases)
  /\ Distinct(outgoing.cases)
  /\ \A c \in Cancels : Distinct(asked[c].run.cases)

\* How far the executor has come.
Progress ==
  /\ \A i \in Items : i < item => Has(local.cases, i)
  /\ local.status = "running" => \A i \in Items : i >= item => ~Has(local.cases, i)
  /\ evalPc \in {"finish", "put", "putTried"} \cup Working =>
       local.status \in {"running", "cancelled"}
  /\ evalPc \in {"idle", "target", "judge"} => local.status = "running"
  /\ evalPc \in Writing => outgoing = local
  /\ evalPc = "putFailed" => local.status = "failed"
  /\ evalPc = "scoreFailed" => evalRun.status \in {"failed", "cancelled"}

\* A cancellation that the executor has seen stays in the store.
CancelSeen ==
  local.status = "cancelled" =>
    /\ evalPc = "look" => evalRun.status = "cancelled"
    /\ evalPc = "decide" => latest.status = "cancelled"

\* What is final has every item.
Ended ==
  /\ evalRun.status = "completed" => Whole(evalRun.cases)
  /\ evalRun.status = "cancelled" /\ evalPc \in {"score", "scoreFailed", "over"} =>
       Whole(evalRun.cases)
  /\ \A c \in Cancels : asked[c].pc = "put" =>
       asked[c].run.status = "cancelled" /\ Whole(asked[c].run.cases)

EvalInv == EvalTypes /\ NoRepeats /\ Progress /\ CancelSeen /\ Ended

LEMMA EvalInvInit == EvalInit => EvalInv
  <1> SUFFICES ASSUME EvalInit PROVE EvalInv
    OBVIOUS
  <1> USE HostedEvalAssumption DEF EvalInit
  <1>1. Fresh \in Record /\ Fresh.status = "running" /\ Fresh.cases = <<>>
    BY DEF Fresh, Record
  <1>2. Distinct(<<>>) /\ \A i : ~Has(<<>>, i)
    BY DEF Distinct, Has
  <1>3. EvalTypes
    <2>1. 1 \in 1 .. ItemCount + 1 /\ 1 \in Items
      BY DEF Items
    <2>2. asked \in [Cancels -> [pc : {"idle", "read", "put", "score", "answered", "refused"},
                                run : Record]]
      BY <1>1
    <2> QED
      BY <1>1, <2>1, <2>2 DEF EvalTypes, Working, Writing
  <1>4. NoRepeats
    BY <1>1, <1>2 DEF NoRepeats
  <1>5. Progress
    BY <1>1, <1>2 DEF Progress, Working, Writing, Items
  <1>6. CancelSeen /\ Ended
    BY <1>1 DEF CancelSeen, Ended
  <1> QED
    BY <1>3, <1>4, <1>5, <1>6 DEF EvalInv

\* The case of a cancelled run.
LEMMA CancelledCase ==
  ASSUME NEW s \in Seq(CaseType), item \in Items
  PROVE  /\ CancelCase(s) \in Record
         /\ CancelCase(s).status = "cancelled"
         /\ ToSet(s) \subseteq ToSet(CancelCase(s).cases)
         /\ \A i : i = item \/ Has(s, i) => Has(CancelCase(s).cases, i)
         /\ Distinct(s) => Distinct(CancelCase(s).cases)
  <1>1. CASE Has(s, item)
    <2>1. CancelCase(s) = [status |-> "cancelled", cases |-> s]
      BY <1>1 DEF CancelCase
    <2> QED
      BY <1>1, <2>1 DEF Record
  <1>2. CASE ~Has(s, item)
    <2> DEFINE t == Append(s, Case(item, "cancelled"))
    <2>1. CancelCase(s) = [status |-> "cancelled", cases |-> t]
      BY <1>2 DEF CancelCase
    <2>2. /\ t \in Seq(CaseType)
          /\ ToSet(s) \subseteq ToSet(t)
          /\ \A j : Has(t, j) <=> Has(s, j) \/ j = item
          /\ Distinct(s) /\ ~Has(s, item) => Distinct(t)
      BY AppendCase
    <2> HIDE DEF t
    <2> QED
      BY <1>2, <2>1, <2>2 DEF Record
  <1> QED
    BY <1>1, <1>2

\* The executor is through with an item and writes its record.
LEMMA CaseEnds ==
  ASSUME EvalInv, evalPc \in Working,
         NEW r \in Record, NEW step \in {"put", "putTried"},
         r.status \in {"running", "cancelled"}, Distinct(r.cases),
         \A i \in Items : i <= item => Has(r.cases, i),
         r.status = "running" => \A i \in Items : i > item => ~Has(r.cases, i),
         WriteBack(r, step), item' = item + 1,
         UNCHANGED <<latest, signal, EvalOther>>
  PROVE  EvalInv'
  <1> USE HostedEvalAssumption DEF EvalInv, WriteBack, EvalOther
  <1>1. item \in Items /\ item' \in 1 .. ItemCount + 1
    BY DEF EvalTypes, Items
  <1>2. EvalTypes'
    BY <1>1 DEF EvalTypes, Working, Writing
  <1>3. NoRepeats'
    BY DEF NoRepeats
  <1>4. Progress'
    <2>1. \A i \in Items : (i < item' <=> i <= item) /\ (i >= item' <=> i > item)
      BY <1>1 DEF Items
    <2> QED
      BY <2>1 DEF Progress, Working, Writing
  <1>5. CancelSeen'
    BY DEF CancelSeen
  <1>6. Ended'
    BY DEF Ended, Whole
  <1> QED
    BY <1>2, <1>3, <1>4, <1>5, <1>6

LEMMA CancelledEnds ==
  ASSUME EvalInv, evalPc \in Working, NEW s \in Seq(CaseType), Distinct(s),
         \A i \in Items : Has(local.cases, i) => Has(s, i),
         NEW step \in {"put", "putTried"},
         WriteBack(CancelCase(s), step), item' = item + 1,
         UNCHANGED <<latest, signal, EvalOther>>
  PROVE  EvalInv'
  <1> DEFINE r == CancelCase(s)
  <1>1. item \in Items
    BY DEF EvalInv, EvalTypes
  <1>2. /\ r \in Record /\ r.status = "cancelled"
        /\ \A i : i = item \/ Has(s, i) => Has(r.cases, i)
        /\ Distinct(r.cases)
    BY <1>1, CancelledCase
  <1>3. \A i \in Items : i < item => Has(s, i)
    BY DEF EvalInv, Progress
  <1> HIDE DEF r
  <1>4. \A i \in Items : i <= item => Has(r.cases, i)
    BY <1>1, <1>2, <1>3 DEF Items
  <1>5. WriteBack(r, step)
    BY DEF r
  <1> QED
    BY <1>2, <1>4, <1>5, CaseEnds

LEMMA ResultEnds ==
  ASSUME EvalInv, evalPc \in {"target", "judge"}, NEW o \in {"completed", "failed"},
         CaseResult(o), UNCHANGED <<latest, signal, EvalOther>>
  PROVE  EvalInv'
  <1> DEFINE t == Append(local.cases, Case(item, o))
             r == [local EXCEPT !.cases = t]
  <1>1. /\ item \in Items /\ local \in Record /\ local.status = "running"
        /\ Distinct(local.cases)
        /\ \A i \in Items : i < item => Has(local.cases, i)
        /\ \A i \in Items : i >= item => ~Has(local.cases, i)
    BY DEF EvalInv, EvalTypes, Working, Progress, NoRepeats
  <1>2. local.cases \in Seq(CaseType) /\ ~Has(local.cases, item)
    BY <1>1 DEF Record, Items
  <1>3. /\ t \in Seq(CaseType)
        /\ \A j : Has(t, j) <=> Has(local.cases, j) \/ j = item
        /\ Distinct(local.cases) /\ ~Has(local.cases, item) => Distinct(t)
    BY <1>1, <1>2, AppendCase
  <1>4. CaseDone(r)
    BY DEF CaseResult
  <1> HIDE DEF t
  <1>5. r \in Record /\ r.status = "running" /\ r.cases = t
    BY <1>1, <1>3 DEF Record
  <1> HIDE DEF r
  <1>6. /\ \A i \in Items : i <= item => Has(r.cases, i)
        /\ \A i \in Items : i > item => ~Has(r.cases, i)
    BY <1>1, <1>3, <1>5 DEF Items
  <1>7. Distinct(r.cases) /\ evalPc \in Working
    BY <1>1, <1>2, <1>3, <1>5 DEF Working
  <1> QED
    BY <1>4, <1>5, <1>6, <1>7, CaseEnds DEF CaseDone

LEMMA StartEvalKeeps == EvalInv /\ StartEval => EvalInv'
  <1> SUFFICES ASSUME EvalInv, StartEval PROVE EvalInv'
    OBVIOUS
  <1> USE DEF EvalInv, StartEval
  <1>1. Fresh \in Record /\ Fresh.status = "running" /\ Distinct(Fresh.cases)
    BY DEF Fresh, Record, Distinct
  <1>2. local.status = "running" /\ item \in Items
    BY DEF Progress, EvalTypes
  <1>3. EvalTypes'
    BY <1>1, <1>2 DEF EvalTypes, Working, Writing
  <1>4. NoRepeats'
    BY <1>1 DEF NoRepeats
  <1>5. Progress'
    BY <1>1, <1>2 DEF Progress, Working, Writing
  <1>6. CancelSeen'
    BY <1>1, <1>2 DEF CancelSeen
  <1>7. Ended'
    BY <1>1 DEF Ended, Whole
  <1> QED
    BY <1>3, <1>4, <1>5, <1>6, <1>7

LEMMA LookKeeps == EvalInv /\ Look => EvalInv'
  <1> SUFFICES ASSUME EvalInv, Look PROVE EvalInv'
    OBVIOUS
  <1> USE DEF EvalInv, Look, EvalOther
  <1>1. EvalTypes'
    BY DEF EvalTypes, Working, Writing
  <1>2. NoRepeats'
    BY DEF NoRepeats
  <1>3. Progress'
    BY DEF Progress, Working, Writing
  <1>4. CancelSeen'
    BY DEF CancelSeen
  <1>5. Ended'
    BY DEF Ended, Whole
  <1> QED
    BY <1>1, <1>2, <1>3, <1>4, <1>5

LEMMA DecideKeeps == EvalInv /\ Decide => EvalInv'
  <1> SUFFICES ASSUME EvalInv, Decide PROVE EvalInv'
    OBVIOUS
  <1>1. /\ local.cases \in Seq(CaseType) /\ latest.cases \in Seq(CaseType)
        /\ Distinct(local.cases) /\ Distinct(latest.cases)
        /\ evalPc \in Working
    BY DEF EvalInv, EvalTypes, NoRepeats, Record, Decide, Working
  <1>2. CASE signal \/ latest.status = "cancelled"
    <2> DEFINE s == IF latest.status = "cancelled" THEN MergeCases(local.cases, latest.cases)
                    ELSE local.cases
    <2>1. /\ s \in Seq(CaseType) /\ Distinct(s)
          /\ \A i \in Items : Has(local.cases, i) => Has(s, i)
      BY <1>1, Merged
    <2>2. CaseDone(CancelCase(s)) /\ UNCHANGED <<latest, signal, EvalOther>>
      BY <1>2 DEF Decide
    <2> HIDE DEF s
    <2> QED
      BY <1>1, <2>1, <2>2, CancelledEnds DEF CaseDone
  <1>3. CASE ~signal /\ latest.status # "cancelled"
    <2> USE <1>3 DEF EvalInv, Decide, EvalOther
    <2>1. evalPc' = "target" /\ UNCHANGED <<local, outgoing, item, latest, signal, EvalOther>>
      OBVIOUS
    <2>2. local.status = "running"
      BY DEF Progress, CancelSeen, Working
    <2>3. EvalTypes'
      BY <2>1 DEF EvalTypes, Working, Writing
    <2>4. NoRepeats'
      BY <2>1 DEF NoRepeats
    <2>5. Progress'
      BY <2>1, <2>2 DEF Progress, Working, Writing
    <2>6. CancelSeen'
      BY <2>1 DEF CancelSeen
    <2>7. Ended'
      BY <2>1 DEF Ended, Whole
    <2> QED
      BY <2>3, <2>4, <2>5, <2>6, <2>7
  <1> QED
    BY <1>2, <1>3 DEF EvalInv, EvalTypes

LEMMA TargetKeeps ==
  ASSUME EvalInv, NEW ok \in BOOLEAN, Target(ok)
  PROVE  EvalInv'
  <1>1. /\ local.cases \in Seq(CaseType) /\ Distinct(local.cases)
        /\ evalPc \in Working
    BY DEF EvalInv, EvalTypes, NoRepeats, Record, Target, Working
  <1>2. CASE signal
    <2> DEFINE step == IF ok THEN "putTried" ELSE "put"
    <2>1. /\ step \in {"put", "putTried"}
          /\ WriteBack(CancelCase(local.cases), step) /\ item' = item + 1
          /\ UNCHANGED <<latest, signal, EvalOther>>
      BY <1>2 DEF Target
    <2> HIDE DEF step
    <2> QED
      BY <1>1, <2>1, CancelledEnds
  <1>3. CASE ~signal /\ ok
    <2> USE <1>3 DEF EvalInv, Target, EvalOther
    <2>1. /\ evalPc = "target" /\ evalPc' = "judge"
          /\ UNCHANGED <<local, outgoing, item, latest, signal, EvalOther>>
      OBVIOUS
    <2>3. EvalTypes'
      BY <2>1 DEF EvalTypes, Working, Writing
    <2>4. NoRepeats'
      BY <2>1 DEF NoRepeats
    <2>5. Progress'
      BY <2>1 DEF Progress, Working, Writing
    <2>6. CancelSeen'
      BY <2>1 DEF CancelSeen
    <2>7. Ended'
      BY <2>1 DEF Ended, Whole
    <2> QED
      BY <2>3, <2>4, <2>5, <2>6, <2>7
  <1>4. CASE ~signal /\ ~ok
    BY <1>4, ResultEnds DEF Target
  <1> QED
    BY <1>2, <1>3, <1>4

LEMMA JudgeKeeps ==
  ASSUME EvalInv, NEW threw \in BOOLEAN, Judge(threw)
  PROVE  EvalInv'
  <1>1. CASE threw
    <2>1. /\ local.cases \in Seq(CaseType) /\ Distinct(local.cases)
          /\ evalPc \in Working
      BY DEF EvalInv, EvalTypes, NoRepeats, Record, Judge, Working
    <2>2. CaseDone(CancelCase(local.cases)) /\ UNCHANGED <<latest, signal, EvalOther>>
      BY <1>1 DEF Judge
    <2> QED
      BY <2>1, <2>2, CancelledEnds DEF CaseDone
  <1>2. CASE ~threw
    BY <1>2, ResultEnds DEF Judge
  <1> QED
    BY <1>1, <1>2

LEMMA FinishEvalKeeps == EvalInv /\ FinishEval => EvalInv'
  <1> SUFFICES ASSUME EvalInv, FinishEval PROVE EvalInv'
    OBVIOUS
  <1> DEFINE status == IF signal THEN "cancelled" ELSE "completed"
             r == [local EXCEPT !.status = status]
  <1> USE DEF EvalInv, EvalOther
  <1>1. /\ evalPc = "finish" /\ evalPc' = "putLast" /\ local' = r /\ outgoing' = r
        /\ UNCHANGED <<latest, item, signal, EvalOther>>
    BY DEF FinishEval, WriteBack
  <1>2. r \in Record /\ r.cases = local.cases /\ r.status \in {"cancelled", "completed"}
    BY DEF EvalTypes, Record
  <1> HIDE DEF r
  <1>3. EvalTypes'
    BY <1>1, <1>2 DEF EvalTypes, Working, Writing
  <1>4. NoRepeats'
    BY <1>1, <1>2 DEF NoRepeats
  <1>5. Progress'
    BY <1>1, <1>2 DEF Progress, Working, Writing
  <1>6. CancelSeen'
    BY <1>1 DEF CancelSeen
  <1>7. Ended'
    BY <1>1 DEF Ended, Whole
  <1> QED
    BY <1>3, <1>4, <1>5, <1>6, <1>7

LEMMA EvalLandsKeeps == EvalInv /\ EvalLands => EvalInv'
  <1> SUFFICES ASSUME EvalInv, EvalLands PROVE EvalInv'
    OBVIOUS
  <1> USE HostedEvalAssumption DEF EvalInv
  <1>1. /\ evalPc \in Writing /\ evalRun' = local
        /\ UNCHANGED <<local, latest, outgoing, item, signal, score, asked>>
    BY DEF EvalLands, After, Writing, Progress
  <1>2. /\ evalPc \in {"put", "putTried"} => evalPc' = NextCase
        /\ evalPc = "putLast" => evalPc' = "score"
        /\ evalPc = "putFailed" => evalPc' = "scoreFailed"
    BY DEF EvalLands, After
  <1>3. local \in Record /\ item \in 1 .. ItemCount + 1
    BY DEF EvalTypes
  <1>4. /\ NextCase \in {"look", "finish"}
        /\ NextCase = "look" => item \in Items
        /\ NextCase = "finish" => item = ItemCount + 1
    BY <1>3 DEF NextCase, Items
  <1>5. EvalTypes'
    BY <1>1, <1>2, <1>3, <1>4 DEF EvalTypes, Working, Writing
  <1>6. NoRepeats'
    BY <1>1 DEF NoRepeats
  <1>7. Progress'
    BY <1>1, <1>2, <1>4 DEF Progress, Working, Writing
  <1>8. CancelSeen'
    BY <1>1, <1>2, <1>4 DEF CancelSeen, Writing
  <1>9. Ended'
    <2>1. evalPc \in {"put", "putTried"} => local.status \in {"running", "cancelled"}
      BY DEF Progress
    <2>2. evalPc = "putFailed" => local.status = "failed"
      BY DEF Progress
    <2>3. evalPc = "putLast" => Whole(local.cases)
      BY DEF Progress, Whole, EvalTypes, Items
    <2> QED
      BY <1>1, <1>2, <1>4, <2>1, <2>2, <2>3 DEF Ended, Writing, Whole
  <1> QED
    BY <1>5, <1>6, <1>7, <1>8, <1>9

LEMMA EvalScoresKeeps == EvalInv /\ EvalScores => EvalInv'
  <1> SUFFICES ASSUME EvalInv, EvalScores PROVE EvalInv'
    OBVIOUS
  <1> USE DEF EvalInv, EvalScores
  <1>1. EvalTypes'
    BY DEF EvalTypes, Working, Writing
  <1>2. NoRepeats'
    BY DEF NoRepeats
  <1>3. Progress'
    BY DEF Progress, Working, Writing
  <1>4. CancelSeen' /\ Ended'
    BY DEF CancelSeen, Ended, Whole
  <1> QED
    BY <1>1, <1>2, <1>3, <1>4

LEMMA EvalThrowsKeeps == EvalInv /\ EvalThrows => EvalInv'
  <1> SUFFICES ASSUME EvalInv, EvalThrows PROVE EvalInv'
    OBVIOUS
  <1> USE DEF EvalInv
  <1> DEFINE r == [local EXCEPT !.status = "failed"]
  <1>1. UNCHANGED <<evalRun, latest, item, signal, score, asked>>
    BY DEF EvalThrows
  <1>2. /\ evalPc \in {"put", "putTried", "putLast", "putFailed", "look", "score", "scoreFailed"}
        /\ \/ evalPc = "putFailed" /\ evalPc' = "lost" /\ UNCHANGED <<local, outgoing>>
           \/ evalPc = "scoreFailed" /\ evalPc' = "over" /\ UNCHANGED <<local, outgoing>>
           \/ evalPc = "putTried" /\ evalPc' = "put" /\ local' = local /\ outgoing' = local
           \/ evalPc' = "putFailed" /\ local' = r /\ outgoing' = r
    BY DEF EvalThrows, After, WriteBack
  <1>3. r \in Record /\ r.cases = local.cases /\ r.status = "failed"
    BY DEF EvalTypes, Record
  <1> HIDE DEF r
  <1>4. EvalTypes'
    BY <1>1, <1>2, <1>3 DEF EvalTypes, Working, Writing
  <1>5. NoRepeats'
    BY <1>1, <1>2, <1>3 DEF NoRepeats
  <1>6. Progress'
    BY <1>1, <1>2, <1>3 DEF Progress, Working, Writing
  <1>7. CancelSeen'
    BY <1>1, <1>2, <1>3 DEF CancelSeen
  <1>8. Ended'
    BY <1>1, <1>2 DEF Ended, Whole
  <1> QED
    BY <1>4, <1>5, <1>6, <1>7, <1>8

\* A cancel request touches nothing of the executor's but its signal, and it
\* puts only records that are cancelled and whole.
LEMMA CancelKeeps ==
  ASSUME EvalInv, NEW c \in Cancels, NEW pc \in {"idle", "read", "put", "score", "answered", "refused"},
         NEW r \in Record, CancelMoves(c, pc, r), Distinct(r.cases),
         pc = "put" => r.status = "cancelled" /\ Whole(r.cases),
         signal' \in BOOLEAN,
         evalRun' = evalRun \/ (evalRun' = asked[c].run /\ asked[c].pc = "put"),
         UNCHANGED <<local, latest, outgoing, evalPc, item>>
  PROVE  EvalInv'
  <1> USE DEF EvalInv
  <1>1. \A d \in Cancels : asked'[d] = IF d = c THEN [pc |-> pc, run |-> r] ELSE asked[d]
    BY DEF CancelMoves, EvalTypes
  <1>2. asked' \in [Cancels -> [pc : {"idle", "read", "put", "score", "answered", "refused"},
                                run : Record]]
    BY DEF CancelMoves, EvalTypes
  <1>3. /\ evalRun' \in Record /\ Distinct(evalRun'.cases)
        /\ evalRun' = evalRun \/ (evalRun'.status = "cancelled" /\ Whole(evalRun'.cases))
    BY DEF EvalTypes, NoRepeats, Ended
  <1>4. EvalTypes'
    BY <1>2, <1>3 DEF EvalTypes
  <1>5. NoRepeats'
    BY <1>1, <1>3 DEF NoRepeats
  <1>6. Progress'
    BY <1>3 DEF Progress
  <1>7. CancelSeen'
    BY <1>3 DEF CancelSeen
  <1>8. Ended'
    BY <1>1, <1>3 DEF Ended, Whole
  <1> QED
    BY <1>4, <1>5, <1>6, <1>7, <1>8

LEMMA CancelsKeep ==
  ASSUME EvalInv, NEW c \in Cancels,
         \/ CancelReads(c) \/ CancelActs(c) \/ CancelLands(c)
         \/ CancelScores(c) \/ CancelThrows(c)
  PROVE  EvalInv'
  <1>1. /\ evalRun \in Record /\ signal \in BOOLEAN /\ asked[c].run \in Record
        /\ Distinct(evalRun.cases) /\ Distinct(asked[c].run.cases)
    BY DEF EvalInv, EvalTypes, NoRepeats
  <1>2. CASE CancelReads(c)
    BY <1>1, <1>2, CancelKeeps DEF CancelReads
  <1>3. CASE CancelActs(c)
    <2> DEFINE row == asked[c].run
               t == row.cases \o SetToSeq({Case(i, "cancelled") : i \in {j \in Items : ~Has(row.cases, j)}})
               next == [status |-> "cancelled", cases |-> t]
    <2>1. signal' \in BOOLEAN
      BY <1>3 DEF CancelActs
    <2>2. CASE row.status = "running"
      <3>1. row.cases \in Seq(CaseType)
        BY <1>1 DEF Record
      <3>2. t \in Seq(CaseType) /\ Whole(t) /\ Distinct(t)
        BY <1>1, <3>1, Completed
      <3>3. CancelMoves(c, "put", next)
        BY <1>3, <2>2 DEF CancelActs
      <3> HIDE DEF t
      <3>4. next \in Record /\ Distinct(next.cases) /\ next.status = "cancelled" /\ Whole(next.cases)
        BY <3>2 DEF Record
      <3>5. UNCHANGED <<evalRun, local, latest, outgoing, evalPc, item>>
        BY <1>3 DEF CancelActs
      <3> HIDE DEF next
      <3> QED
        BY <2>1, <3>3, <3>4, <3>5, CancelKeeps
    <2>3. CASE row.status # "running"
      BY <1>1, <1>3, <2>1, <2>3, CancelKeeps DEF CancelActs
    <2> QED
      BY <2>2, <2>3
  <1>4. CASE CancelLands(c)
    BY <1>1, <1>4, CancelKeeps DEF CancelLands
  <1>5. CASE CancelScores(c)
    BY <1>1, <1>5, CancelKeeps DEF CancelScores
  <1>6. CASE CancelThrows(c)
    BY <1>1, <1>6, CancelKeeps DEF CancelThrows
  <1> QED
    BY <1>2, <1>3, <1>4, <1>5, <1>6

LEMMA DieKeeps == EvalInv /\ Die => EvalInv'
  <1> SUFFICES ASSUME EvalInv, Die PROVE EvalInv'
    OBVIOUS
  <1> USE DEF EvalInv, Die
  <1>1. /\ asked' \in [Cancels -> [pc : {"idle", "read", "put", "score", "answered", "refused"},
                                   run : Record]]
        /\ \A c \in Cancels : asked'[c].run = asked[c].run
                              /\ asked'[c].pc \in {asked[c].pc, "refused"}
    BY DEF EvalTypes
  <1>2. EvalTypes'
    BY <1>1 DEF EvalTypes, Working, Writing
  <1>3. NoRepeats'
    BY <1>1 DEF NoRepeats
  <1>4. Progress'
    BY DEF Progress, Working, Writing
  <1>5. CancelSeen' /\ Ended'
    BY <1>1 DEF CancelSeen, Ended, Whole
  <1> QED
    BY <1>2, <1>3, <1>4, <1>5

LEMMA EvalInvStep == EvalInv /\ [EvalNext]_evalVars => EvalInv'
  <1> SUFFICES ASSUME EvalInv, [EvalNext]_evalVars PROVE EvalInv'
    OBVIOUS
  <1>1. CASE StartEval
    BY <1>1, StartEvalKeeps
  <1>2. CASE EvalStep
    BY <1>2, LookKeeps, DecideKeeps, TargetKeeps, JudgeKeeps, FinishEvalKeeps, EvalLandsKeeps,
       EvalScoresKeeps, EvalThrowsKeeps DEF EvalStep
  <1>3. CASE \E c \in Cancels : \/ CancelReads(c) \/ CancelActs(c) \/ CancelLands(c)
                                \/ CancelScores(c) \/ CancelThrows(c)
    BY <1>3, CancelsKeep
  <1>4. CASE Die
    BY <1>4, DieKeeps
  <1>5. CASE UNCHANGED evalVars
    BY <1>5 DEF evalVars, EvalInv, EvalTypes, NoRepeats, Progress, CancelSeen, Ended, Whole
  <1> QED
    BY <1>1, <1>2, <1>3, <1>4, <1>5 DEF EvalNext

LEMMA EvalInvHolds == EvalSpec => []EvalInv
  BY EvalInvInit, EvalInvStep, PTL DEF EvalSpec

\* A hosted eval reports no item twice, and once it has completed, or its
\* cancelled executor is over, it reports every item, however the executor, the
\* cancel routes of all replicas and failing store calls interleave.
THEOREM EvalsAreReported == EvalSpec => []EvalReport
  <1>1. EvalInv => EvalReport
    <2> SUFFICES ASSUME EvalInv PROVE EvalReport
      OBVIOUS
    <2> QED
      BY DEF EvalInv, NoRepeats, Ended, Distinct, Whole, EvalReport
  <1> QED
    BY EvalInvHolds, <1>1, PTL

\* A record that is written back has every result the executor had.
LEMMA Extended ==
  ASSUME EvalInv, NEW r, ToSet(local.cases) \subseteq ToSet(r.cases),
         local' \in {local, r}, outgoing' \in {outgoing, local, r}
  PROVE  ResultsKept
  BY DEF ResultsKept

LEMMA EvalKeepsRules == EvalInv /\ EvalNext => ResultsKept /\ CancelStops
  <1> SUFFICES ASSUME EvalInv, EvalNext PROVE ResultsKept /\ CancelStops
    OBVIOUS
  <1>1. local.cases \in Seq(CaseType) /\ latest.cases \in Seq(CaseType)
    BY DEF EvalInv, EvalTypes, Record
  <1>2. evalPc = "finish" => local.status # "completed"
    BY DEF EvalInv, Progress
  <1>3. evalPc \in Working => item \in Items
    BY DEF EvalInv, EvalTypes
  <1>4. CASE Decide
    <2>1. CASE signal \/ latest.status = "cancelled"
      <3> DEFINE s == IF latest.status = "cancelled" THEN MergeCases(local.cases, latest.cases)
                      ELSE local.cases
      <3>1. s \in Seq(CaseType) /\ ToSet(local.cases) \subseteq ToSet(s)
        BY <1>1, Merged
      <3>2. WriteBack(CancelCase(s), "put") /\ evalPc = "decide"
        BY <1>4, <2>1 DEF Decide, CaseDone
      <3> HIDE DEF s
      <3>3. ToSet(s) \subseteq ToSet(CancelCase(s).cases)
        BY <1>3, <3>1, <3>2, CancelledCase DEF Working
      <3>4. ResultsKept
        BY <3>1, <3>2, <3>3, Extended DEF WriteBack
      <3> QED
        BY <3>2, <3>4 DEF CancelStops, WriteBack
    <2>2. CASE ~signal /\ latest.status # "cancelled"
      BY <1>4, <2>2 DEF Decide, ResultsKept, CancelStops
    <2> QED
      BY <2>1, <2>2 DEF EvalInv, EvalTypes
  <1>5. ASSUME NEW o \in {"completed", "failed"}, CaseResult(o), evalPc \in Working
        PROVE  ResultsKept
    <2> DEFINE t == Append(local.cases, Case(item, o))
    <2>1. ToSet(local.cases) \subseteq ToSet(t)
      BY <1>1, <1>3, <1>5, AppendCase
    <2> HIDE DEF t
    <2>2. [local EXCEPT !.cases = t].cases = t
      BY DEF EvalInv, EvalTypes, Record
    <2>3. WriteBack([local EXCEPT !.cases = t], "put")
      BY <1>5 DEF CaseResult, CaseDone, t
    <2> QED
      BY <2>1, <2>2, <2>3, Extended DEF WriteBack
  <1>6. ASSUME NEW step, WriteBack(CancelCase(local.cases), step), evalPc \in Working
        PROVE  ResultsKept
    <2>1. ToSet(local.cases) \subseteq ToSet(CancelCase(local.cases).cases)
      BY <1>1, <1>3, <1>6, CancelledCase
    <2> QED
      BY <1>6, <2>1, Extended DEF WriteBack
  <1>7. ASSUME NEW ok \in BOOLEAN, Target(ok)
        PROVE  ResultsKept /\ CancelStops
    <2>1. evalPc = "target" /\ evalPc \in Working
      BY <1>7 DEF Target, Working
    <2>2. ResultsKept
      <3>1. CASE signal
        BY <1>6, <1>7, <2>1, <3>1 DEF Target
      <3>2. CASE ~signal /\ ok
        BY <1>7, <3>2 DEF Target, ResultsKept
      <3>3. CASE ~signal /\ ~ok
        BY <1>5, <1>7, <2>1, <3>3 DEF Target
      <3> QED
        BY <3>1, <3>2, <3>3
    <2> QED
      BY <2>1, <2>2 DEF CancelStops
  <1>8. ASSUME NEW threw \in BOOLEAN, Judge(threw)
        PROVE  ResultsKept /\ CancelStops
    <2>1. evalPc = "judge" /\ evalPc \in Working
      BY <1>8 DEF Judge, Working
    <2>2. ResultsKept
      BY <1>5, <1>6, <1>8, <2>1 DEF Judge, CaseDone
    <2>3. evalPc' = "put"
      BY <1>8 DEF Judge, CaseDone, CaseResult, WriteBack
    <2> QED
      BY <2>1, <2>2, <2>3 DEF CancelStops
  <1>9. CASE FinishEval
    <2> DEFINE r == [local EXCEPT !.status = IF signal THEN "cancelled" ELSE "completed"]
    <2>1. r.cases = local.cases /\ (signal => r.status = "cancelled")
      BY DEF EvalInv, EvalTypes, Record
    <2>2. WriteBack(r, "putLast")
      BY <1>9 DEF FinishEval
    <2> HIDE DEF r
    <2> QED
      BY <2>1, <2>2, Extended DEF WriteBack, CancelStops
  <1>10. CASE EvalThrows
    <2> DEFINE r == [local EXCEPT !.status = "failed"]
    <2>1. r.cases = local.cases
      BY DEF EvalInv, EvalTypes, Record
    <2>2. /\ local' \in {local, r} /\ outgoing' \in {outgoing, local, r}
          /\ evalPc # "finish" /\ evalPc' \in {"over", "lost", "put", "putFailed"}
      BY <1>10 DEF EvalThrows, WriteBack, After
    <2> HIDE DEF r
    <2> QED
      BY <2>1, <2>2, Extended DEF CancelStops
  <1>11. ASSUME UNCHANGED <<local, outgoing>>, evalPc' = "target" => evalPc = "target"
         PROVE  ResultsKept /\ CancelStops
    BY <1>2, <1>11 DEF ResultsKept, CancelStops
  <1>12. CASE StartEval \/ Look \/ EvalLands \/ EvalScores
    BY <1>11, <1>12 DEF StartEval, Look, EvalLands, EvalScores, EvalOther, After, NextCase
  <1>13. CASE Die \/ \E c \in Cancels : \/ CancelReads(c) \/ CancelActs(c) \/ CancelLands(c)
                                        \/ CancelScores(c) \/ CancelThrows(c)
    BY <1>11, <1>13 DEF Die, CancelReads, CancelActs, CancelLands, CancelScores, CancelThrows
  <1> QED
    BY <1>4, <1>7, <1>8, <1>9, <1>10, <1>12, <1>13 DEF EvalNext, EvalStep

\* The executor of a hosted eval never drops a result it has, whatever a canceller
\* has put meanwhile, and once its signal is set it begins no case and does not
\* complete.
THEOREM ExecutorObeys == EvalSpec => ExecutorRules
  <1>1. EvalInv /\ [EvalNext]_evalVars => [ResultsKept /\ CancelStops]_evalVars
    BY EvalKeepsRules
  <1> QED
    BY EvalInvHolds, <1>1, PTL DEF EvalSpec, ExecutorRules

-----------------------------------------------------------------------------
(* Pipeline: what the validator found out about a step holds of the accepted   *)
(* manifest, and the executors' state has what it counted on.                  *)

Count == Len(StepKeys)
Keys == {StepKeys[i] : i \in DOMAIN StepKeys}

Manifests == [kind : {"sequential", "parallel"}, schema : Schemas, defaults : {{}, Props},
              until : Clauses, steps : Seq(Steps), output : Clauses]
Results == [how : {"none", "ran", "skipped", "threw"}, value : Values]

PipeTypes ==
  /\ manifest \in Manifests
  /\ Len(manifest.steps) <= Count
  /\ stage \in {"load", "run", "done", "failed"}
  /\ stage # "load" => Len(manifest.steps) = Count
  /\ given \in Values /\ previous \in Values
  /\ results \in [DOMAIN StepKeys -> Results]
  /\ DOMAIN began = DOMAIN StepKeys
  /\ at \in Nat /\ iteration \in Nat

\* What the validator established of step i.
Validated(i) ==
  LET step == manifest.steps[i] IN
  /\ RefsOf(step) \subseteq Available(i)
  /\ InputFits(i, step)
  /\ Unverified(i, step) => i \in unsure

Accepted ==
  /\ \A i \in 1 .. Len(manifest.steps) : Validated(i)
  /\ manifest.until # NoClause =>
       manifest.kind = "sequential" /\ manifest.until \in Available(Count + 1)
  /\ stage # "load" /\ manifest.output # NoClause =>
       manifest.output \in Available(Count + 1) \cup Keys

\* What the state of a run need not have: its input was no object.
Left == IF given.type = "object" \/ manifest.schema = NoClause THEN {} ELSE manifest.schema

\* How far the run has come, and what is in the state by then.
Under ==
  /\ InputVars \subseteq DOMAIN state \cup Left
  /\ Parallel /\ stage = "done" => Keys \subseteq DOMAIN state
  /\ ~Parallel =>
       /\ at \in 1 .. Count + 1 /\ iteration >= 1
       /\ stage = "done" => at = Count + 1
       /\ \A j \in DOMAIN StepKeys : j < at \/ iteration > 1 => StepKeys[j] \in DOMAIN state
       /\ stage = "run" /\ at = 1 /\ iteration = 1 => previous = given
       /\ \A j \in DOMAIN StepKeys : stage = "run" /\ at = j + 1 =>
            previous = results[j].value /\ results[j].how \in {"ran", "skipped"}
  /\ \A i \in DOMAIN StepKeys : results[i].how = "ran" =>
       results[i].value \in Outputs(manifest.steps[i])

PipeInv ==
  /\ PipeTypes
  /\ Accepted
  /\ stage = "load" => at = 0 /\ results = [i \in DOMAIN StepKeys |-> Pending]
  /\ stage # "load" => Under
  /\ StepsAreFed

LEMMA PipeInvInit == PipeInit => PipeInv
  <1> SUFFICES ASSUME PipeInit PROVE PipeInv
    OBVIOUS
  <1> USE PipelineAssumption DEF PipeInit
  <1>1. Null \in Values /\ Pending \in Results
    BY DEF Null, Values, Pending, Results
  <1>2. manifest \in Manifests
    <2>1. manifest.steps = <<>> /\ <<>> \in Seq(Steps) /\ NoClause \in Clauses
      BY DEF Clauses
    <2> QED
      BY <2>1 DEF Manifests
  <1>3. Len(manifest.steps) = 0 /\ Count \in Nat /\ DOMAIN StepKeys = 1 .. Count
    BY DEF Count
  <1>4. PipeTypes
    BY <1>1, <1>2, <1>3 DEF PipeTypes
  <1>5. Accepted
    BY <1>3 DEF Accepted, Count
  <1>6. StepsAreFed
    BY <1>3 DEF StepsAreFed, JustBegan
  <1> QED
    BY <1>4, <1>5, <1>6 DEF PipeInv

\* What StepsAreFed says of a step that has just begun.
Fed(i) ==
  LET step == manifest.steps[i] IN
  IF step.input # NoClause THEN DOMAIN began[i] = step.schema
  ELSE \/ i \in unsure
       \/ iteration > 1 /\ i = 1
       \/ (i = 1 \/ Parallel) /\ ~CallerGave(i)
       \/ ~Parallel /\ i > 1 /\ results[i - 1].how = "skipped"
       \/ \A p \in step.schema : p \in DOMAIN began[i] /\ began[i][p] # Null

LEMMA FedSteps ==
  StepsAreFed <=> \A i \in DOMAIN StepKeys : JustBegan(i) /\ manifest.steps[i].schema # NoClause => Fed(i)
  BY DEF StepsAreFed, Fed

\* What a step gets that begins from u, by what the validator found out.
LEMMA Feeds ==
  ASSUME PipeInv, stage # "load", NEW i \in DOMAIN StepKeys, NEW u \in Values,
         manifest.steps[i].schema # NoClause,
         i = 1 \/ Parallel => u = given \/ (i = 1 /\ iteration > 1),
         ~Parallel /\ i > 1 => u = results[i - 1].value /\ results[i - 1].how \in {"ran", "skipped"}
  PROVE  LET step == manifest.steps[i]
             b == CreateInitialState(ApplyInputTransform(step, u), step.schema, {}) IN
         IF step.input # NoClause THEN DOMAIN b = step.schema
         ELSE \/ i \in unsure
              \/ iteration > 1 /\ i = 1
              \/ (i = 1 \/ Parallel) /\ ~CallerGave(i)
              \/ ~Parallel /\ i > 1 /\ results[i - 1].how = "skipped"
              \/ \A p \in step.schema : p \in DOMAIN b /\ b[p] # Null
  <1> DEFINE step == manifest.steps[i]
             b == CreateInitialState(ApplyInputTransform(step, u), step.schema, {})
  <1>1. DOMAIN StepKeys = 1 .. Count /\ Count \in Nat
    BY PipelineAssumption DEF Count
  <1>2. i \in 1 .. Len(manifest.steps) /\ Validated(i)
    BY <1>1 DEF PipeInv, PipeTypes, Accepted
  <1>3. CASE step.input # NoClause
    BY <1>3 DEF CreateInitialState, ApplyInputTransform, Object
  <1>4. CASE step.input = NoClause
    <2>1. ApplyInputTransform(step, u) = u
      BY <1>4 DEF ApplyInputTransform
    <2>2. ASSUME u.type = "object", step.schema \subseteq u.props
          PROVE  \A p \in step.schema : p \in DOMAIN b /\ b[p] # Null
      BY <2>1, <2>2 DEF CreateInitialState, Text, Null
    <2>3. CASE i = 1 \/ Parallel
      BY <1>4, <2>2, <2>3 DEF CallerGave
    <2>4. CASE ~(i = 1 \/ Parallel)
      <3>1. i - 1 \in DOMAIN StepKeys /\ i > 1
        BY <1>1, <2>4
      <3>2. CASE results[i - 1].how = "skipped"
        BY <1>4, <2>4, <3>1, <3>2
      <3>3. CASE results[i - 1].how = "ran"
        <4>1. u \in Outputs(manifest.steps[i - 1])
          BY <2>4, <3>1, <3>3 DEF PipeInv, Under
        <4>2. UpstreamKeys(i) = manifest.steps[i - 1].out
          BY <2>4 DEF UpstreamKeys, Parallel
        <4>3. CASE UpstreamKeys(i) = NoClause
          BY <1>2, <1>4, <4>3 DEF Validated, Unverified
        <4>4. CASE UpstreamKeys(i) # NoClause
          <5>1. u = Object(UpstreamKeys(i))
            BY <4>1, <4>2, <4>4 DEF Outputs
          <5>2. step.schema \subseteq UpstreamKeys(i)
            BY <1>2, <1>4, <4>4 DEF Validated, InputFits
          <5> QED
            BY <1>4, <2>2, <5>1, <5>2 DEF Object
        <4> QED
          BY <4>3, <4>4
      <3> QED
        BY <2>4, <3>1, <3>2, <3>3
    <2> QED
      BY <2>3, <2>4
  <1> QED
    BY <1>3, <1>4

LEMMA BeginFeeds ==
  ASSUME PipeInv, stage # "load", NEW i \in DOMAIN StepKeys, NEW u \in Values,
         manifest.steps[i].schema # NoClause,
         i = 1 \/ Parallel => u = given \/ (i = 1 /\ iteration > 1),
         ~Parallel /\ i > 1 => u = results[i - 1].value /\ results[i - 1].how \in {"ran", "skipped"},
         Begin(i, u), UNCHANGED <<manifest, unsure, given, iteration>>,
         ~Parallel /\ i > 1 => results'[i - 1] = results[i - 1]
  PROVE  Fed(i)'
  <1> DEFINE step == manifest.steps[i]
             b == CreateInitialState(ApplyInputTransform(step, u), step.schema, {})
  <1>1. IF step.input # NoClause THEN DOMAIN b = step.schema
        ELSE \/ i \in unsure
             \/ iteration > 1 /\ i = 1
             \/ (i = 1 \/ Parallel) /\ ~CallerGave(i)
             \/ ~Parallel /\ i > 1 /\ results[i - 1].how = "skipped"
             \/ \A p \in step.schema : p \in DOMAIN b /\ b[p] # Null
    BY Feeds
  <1>2. began'[i] = b
    BY DEF Begin, PipeInv, PipeTypes
  <1> HIDE DEF b
  <1>3. Parallel' = Parallel /\ CallerGave(i)' = CallerGave(i)
    BY DEF Parallel, CallerGave
  <1> QED
    BY <1>1, <1>2, <1>3 DEF Fed

LEMMA FedStays ==
  ASSUME NEW i \in DOMAIN StepKeys, Fed(i),
         UNCHANGED <<manifest, unsure, given, iteration>>, began'[i] = began[i],
         ~Parallel /\ i > 1 => results'[i - 1] = results[i - 1]
  PROVE  Fed(i)'
  <1>1. Parallel' = Parallel /\ CallerGave(i)' = CallerGave(i)
    BY DEF Parallel, CallerGave
  <1> QED
    BY <1>1 DEF Fed

\* A run does not change what was accepted.
LEMMA AcceptedStays ==
  ASSUME PipeInv, stage # "load", stage' # "load", UNCHANGED <<manifest, unsure>>
  PROVE  Accepted'
  BY DEF PipeInv, Accepted, Validated, Available, InputVars, InputFits, UpstreamKeys, Unverified

LEMMA LoadStepKeeps ==
  ASSUME PipeInv, NEW step \in Steps, LoadStep(step)
  PROVE  PipeInv'
  <1> DEFINE i == Len(manifest.steps) + 1
             t == Append(manifest.steps, step)
  <1>1. /\ manifest \in Manifests /\ stage = "load" /\ i \in DOMAIN StepKeys
        /\ manifest' = [manifest EXCEPT !.steps = t]
        /\ UNCHANGED <<stage, given, state, previous, at, iteration, began, results>>
    BY DEF LoadStep, PipeInv, PipeTypes
  <1>2. manifest.steps \in Seq(Steps) /\ DOMAIN StepKeys = 1 .. Count /\ Count \in Nat
    BY <1>1, PipelineAssumption DEF Manifests, Count
  <1>3. /\ t \in Seq(Steps) /\ Len(t) = i
        /\ \A j \in 1 .. Len(manifest.steps) : t[j] = manifest.steps[j]
        /\ t[i] = step
    BY <1>2, AppendProperties
  <1> HIDE DEF t
  <1>4. /\ manifest' \in Manifests /\ manifest'.steps = t
        /\ manifest'.kind = manifest.kind /\ manifest'.schema = manifest.schema
        /\ manifest'.until = manifest.until
    BY <1>1, <1>3 DEF Manifests
  <1>5. /\ InputVars' = InputVars /\ Parallel' = Parallel
        /\ \A j : Available(j)' = Available(j)
    BY <1>4 DEF InputVars, Parallel, Available
  <1>6. \A j \in 1 .. i : UpstreamKeys(j)' = UpstreamKeys(j)
    <2> TAKE j \in 1 .. i
    <2>1. j # 1 => j - 1 \in 1 .. Len(manifest.steps)
      BY <1>2
    <2> QED
      BY <1>3, <1>4, <1>5, <2>1 DEF UpstreamKeys
  <1>7. \A j \in 1 .. Len(manifest.steps) : Validated(j)'
    <2> TAKE j \in 1 .. Len(manifest.steps)
    <2>1. Validated(j) /\ j \in 1 .. i
      BY <1>2 DEF PipeInv, Accepted
    <2>2. t[j] = manifest.steps[j] /\ unsure \subseteq unsure'
      BY <1>3 DEF LoadStep
    <2> QED
      BY <1>4, <1>5, <1>6, <2>1, <2>2 DEF Validated, RefsOf, InputFits, Unverified
  <1>8. ASSUME NEW j \in 1 .. Len(t), j = i
        PROVE  Validated(j)'
    <2>1. /\ RefsOf(step) \subseteq Available(j) /\ InputFits(j, step)
          /\ Unverified(j, step) => j \in unsure'
      BY <1>8 DEF LoadStep
    <2>2. UpstreamKeys(j)' = UpstreamKeys(j) /\ Available(j)' = Available(j)
      BY <1>3, <1>5, <1>6
    <2>3. manifest'.steps[j] = step
      BY <1>3, <1>4, <1>8
    <2>4. RefsOf(step)' = RefsOf(step)
      BY DEF RefsOf
    <2>5. InputFits(j, step)' = InputFits(j, step) /\ Unverified(j, step)' = Unverified(j, step)
      BY <2>2 DEF InputFits, Unverified
    <2> QED
      BY <2>1, <2>2, <2>3, <2>4, <2>5 DEF Validated, RefsOf, InputFits, Unverified
  <1>9. Accepted'
    <2>1. \A j \in 1 .. Len(t) : j \in 1 .. Len(manifest.steps) \/ j = i
      BY <1>2, <1>3
    <2>2. \A j \in 1 .. Len(manifest'.steps) : Validated(j)'
      <3> SUFFICES ASSUME NEW j \in 1 .. Len(t) PROVE Validated(j)'
        BY <1>4
      <3> QED
        BY <1>7, <1>8, <2>1
    <2>3. manifest'.until # NoClause =>
            manifest'.kind = "sequential" /\ manifest'.until \in Available(Count + 1)'
      BY <1>4, <1>5 DEF PipeInv, Accepted
    <2> QED
      BY <1>1, <2>2, <2>3 DEF Accepted
  <1>10. PipeTypes'
    BY <1>1, <1>2, <1>3, <1>4 DEF PipeInv, PipeTypes
  <1>11. at = 0 /\ results = [j \in DOMAIN StepKeys |-> Pending]
    BY <1>1 DEF PipeInv
  <1>12. StepsAreFed'
    BY <1>1, <1>2, <1>11 DEF StepsAreFed, JustBegan
  <1> QED
    BY <1>1, <1>9, <1>10, <1>11, <1>12 DEF PipeInv

LEMMA ExecuteKeeps ==
  ASSUME PipeInv, NEW output \in Clauses, NEW input \in Values \ {Null},
         NEW nulls \in SUBSET Props, Execute(output, input, nulls)
  PROVE  PipeInv'
  <1>1. /\ manifest \in Manifests /\ stage = "load" /\ stage' = "run" /\ at' = 1 /\ iteration' = 1
        /\ Len(manifest.steps) = Count
        /\ manifest' = [manifest EXCEPT !.output = output]
        /\ given' = input /\ previous' = input
        /\ state' = CreateInitialState(input, manifest.schema, manifest.defaults \ nulls)
        /\ UNCHANGED <<unsure, began, results>>
        /\ results = [j \in DOMAIN StepKeys |-> Pending]
    BY DEF Execute, PipeInv, PipeTypes, Count
  <1>2. /\ manifest' \in Manifests /\ manifest'.steps = manifest.steps /\ manifest'.output = output
        /\ manifest'.kind = manifest.kind /\ manifest'.schema = manifest.schema
        /\ manifest'.until = manifest.until
    BY <1>1 DEF Manifests
  <1>3. /\ InputVars' = InputVars /\ Parallel' = Parallel
        /\ \A j : Available(j)' = Available(j) /\ UpstreamKeys(j)' = UpstreamKeys(j)
    BY <1>2 DEF InputVars, Parallel, Available, UpstreamKeys
  <1>4. DOMAIN StepKeys = 1 .. Count /\ Count \in Nat
    BY PipelineAssumption DEF Count
  <1>5. Accepted'
    <2>1. \A j \in 1 .. Len(manifest.steps) : Validated(j)'
      BY <1>1, <1>2, <1>3 DEF PipeInv, Accepted, Validated, RefsOf, InputFits, Unverified
    <2>2. output # NoClause => output \in Available(Count + 1) \cup Keys
      BY DEF Execute, Count, Keys
    <2>3. manifest.until # NoClause =>
            manifest.kind = "sequential" /\ manifest.until \in Available(Count + 1)
      BY DEF PipeInv, Accepted
    <2> QED
      BY <1>2, <1>3, <2>1, <2>2, <2>3 DEF Accepted
  <1>6. PipeTypes'
    BY <1>1, <1>2 DEF PipeInv, PipeTypes
  <1>7. Under'
    <2>1. InputVars' \subseteq DOMAIN state' \cup Left'
      BY <1>1, <1>2, <1>3 DEF InputVars, Left, CreateInitialState
    <2>2. \A j \in DOMAIN StepKeys : ~(j < at') /\ at' # j + 1
      BY <1>1, <1>4
    <2>3. \A j \in DOMAIN StepKeys : results'[j].how = "none"
      BY <1>1 DEF Pending
    <2>4. stage' = "run" /\ at' = 1 /\ iteration' = 1 /\ previous' = given'
      BY <1>1
    <2> QED
      BY <1>4, <2>1, <2>2, <2>3, <2>4 DEF Under
  <1>8. StepsAreFed'
    BY <1>1, <1>4 DEF StepsAreFed, JustBegan
  <1> QED
    BY <1>1, <1>5, <1>6, <1>7, <1>8 DEF PipeInv

LEMMA SkipKeeps ==
  ASSUME PipeInv, NEW i \in DOMAIN StepKeys, Skip(i)
  PROVE  PipeInv'
  <1>1. /\ stage = "run" /\ ~Parallel /\ at = i /\ at' = at + 1
        /\ state' = Write(StepKeys[i], Null)
        /\ results' = [results EXCEPT ![i] = [how |-> "skipped", value |-> Null]]
        /\ previous' = Null
        /\ UNCHANGED <<manifest, unsure, stage, given, iteration, began>>
    BY DEF Skip, Sequential, Parallel
  <1>2. DOMAIN StepKeys = 1 .. Count /\ Count \in Nat
    BY PipelineAssumption DEF Count
  <1>3. Under
    BY <1>1 DEF PipeInv
  <1>4. Parallel' = Parallel /\ InputVars' = InputVars /\ Left' = Left
    BY <1>1 DEF Parallel, InputVars, Left
  <1>5. Null \in Values /\ [how |-> "skipped", value |-> Null] \in Results
    BY DEF Null, Values, Results
  <1>6. /\ results' \in [DOMAIN StepKeys -> Results]
        /\ results'[i] = [how |-> "skipped", value |-> Null]
        /\ \A j \in DOMAIN StepKeys : j # i => results'[j] = results[j]
    BY <1>1, <1>5 DEF PipeInv, PipeTypes
  <1>7. DOMAIN state' = DOMAIN state \cup {StepKeys[i]}
    BY <1>1 DEF Write
  <1>8. PipeTypes'
    BY <1>1, <1>5, <1>6 DEF PipeInv, PipeTypes
  <1>9. Under'
    <2>1. \A j \in DOMAIN StepKeys : j < at' \/ iteration > 1 => StepKeys[j] \in DOMAIN state'
      BY <1>1, <1>2, <1>3, <1>7 DEF Under
    <2>2. \A j \in DOMAIN StepKeys : at' = j + 1 =>
            previous' = results'[j].value /\ results'[j].how \in {"ran", "skipped"}
      BY <1>1, <1>2, <1>6
    <2>3. \A j \in DOMAIN StepKeys : results'[j].how = "ran" =>
            results'[j].value \in Outputs(manifest.steps[j])
      BY <1>3, <1>6 DEF Under
    <2>4. at' \in 1 .. Count + 1 /\ at' # 1
      BY <1>1, <1>2
    <2> QED
      BY <1>1, <1>3, <1>4, <1>7, <2>1, <2>2, <2>3, <2>4 DEF Under, Outputs
  <1>10. StepsAreFed'
    <2>1. \A j \in DOMAIN StepKeys : ~JustBegan(j)'
      BY <1>1, <1>2, <1>4, <1>6 DEF JustBegan
    <2> QED
      BY <2>1 DEF StepsAreFed
  <1>11. Accepted'
    BY <1>1, AcceptedStays
  <1> QED
    BY <1>1, <1>8, <1>9, <1>10, <1>11 DEF PipeInv

LEMMA RunStepKeeps ==
  ASSUME PipeInv, NEW i \in DOMAIN StepKeys, NEW value \in Values, RunStep(i, value)
  PROVE  PipeInv'
  <1>1. /\ stage = "run" /\ ~Parallel /\ at = i /\ at' = at + 1
        /\ Begin(i, previous) /\ value \in Outputs(manifest.steps[i])
        /\ state' = Write(StepKeys[i], value)
        /\ results' = [results EXCEPT ![i] = [how |-> "ran", value |-> value]]
        /\ previous' = value
        /\ UNCHANGED <<manifest, unsure, stage, given, iteration>>
    BY DEF RunStep, Sequential, Parallel
  <1>2. DOMAIN StepKeys = 1 .. Count /\ Count \in Nat
    BY PipelineAssumption DEF Count
  <1>3. Under /\ previous \in Values /\ iteration \in Nat
    BY <1>1 DEF PipeInv, PipeTypes
  <1>4. Parallel' = Parallel /\ InputVars' = InputVars /\ Left' = Left
    BY <1>1 DEF Parallel, InputVars, Left
  <1>5. [how |-> "ran", value |-> value] \in Results
    BY DEF Results
  <1>6. /\ results' \in [DOMAIN StepKeys -> Results]
        /\ results'[i] = [how |-> "ran", value |-> value]
        /\ \A j \in DOMAIN StepKeys : j # i => results'[j] = results[j]
    BY <1>1, <1>5 DEF PipeInv, PipeTypes
  <1>7. DOMAIN state' = DOMAIN state \cup {StepKeys[i]}
    BY <1>1 DEF Write
  <1>8. PipeTypes'
    BY <1>1, <1>6 DEF PipeInv, PipeTypes, Begin
  <1>9. Under'
    <2>1. \A j \in DOMAIN StepKeys : j < at' \/ iteration > 1 => StepKeys[j] \in DOMAIN state'
      BY <1>1, <1>2, <1>3, <1>7 DEF Under
    <2>2. \A j \in DOMAIN StepKeys : at' = j + 1 =>
            previous' = results'[j].value /\ results'[j].how \in {"ran", "skipped"}
      BY <1>1, <1>2, <1>6
    <2>3. \A j \in DOMAIN StepKeys : results'[j].how = "ran" =>
            results'[j].value \in Outputs(manifest.steps[j])
      BY <1>1, <1>3, <1>6 DEF Under
    <2>4. at' \in 1 .. Count + 1 /\ at' # 1
      BY <1>1, <1>2
    <2> QED
      BY <1>1, <1>3, <1>4, <1>7, <2>1, <2>2, <2>3, <2>4 DEF Under, Outputs
  <1>10. StepsAreFed'
    <2>1. \A j \in DOMAIN StepKeys : JustBegan(j)' => j = i
      BY <1>1, <1>2, <1>4, <1>6 DEF JustBegan
    <2>2. i > 1 => i - 1 \in DOMAIN StepKeys /\ at = (i - 1) + 1 /\ i - 1 # i
      BY <1>1, <1>2
    <2>3. manifest.steps[i].schema # NoClause => Fed(i)'
      <3>1. i = 1 => previous = given \/ iteration > 1
        BY <1>1, <1>3 DEF Under
      <3>2. i > 1 => previous = results[i - 1].value /\ results[i - 1].how \in {"ran", "skipped"}
        BY <1>1, <1>3, <2>2 DEF Under
      <3>3. i > 1 => results'[i - 1] = results[i - 1]
        BY <1>6, <2>2
      <3> QED
        BY <1>1, <1>3, <3>1, <3>2, <3>3, BeginFeeds
    <2>4. \A j \in DOMAIN StepKeys : JustBegan(j)' /\ manifest'.steps[j].schema # NoClause => Fed(j)'
      BY <1>1, <2>1, <2>3
    <2> QED
      BY <2>4 DEF StepsAreFed, Fed
  <1>11. Accepted'
    BY <1>1, AcceptedStays
  <1> QED
    BY <1>1, <1>8, <1>9, <1>10, <1>11 DEF PipeInv

LEMMA FailStepKeeps ==
  ASSUME PipeInv, NEW i \in DOMAIN StepKeys, FailStep(i)
  PROVE  PipeInv'
  <1>1. /\ stage = "run" /\ stage' = "failed" /\ ~Parallel /\ at = i
        /\ Begin(i, previous)
        /\ results' = [results EXCEPT ![i] = [how |-> "threw", value |-> Null]]
        /\ UNCHANGED <<manifest, unsure, given, state, previous, at, iteration>>
    BY DEF FailStep, Sequential, Parallel
  <1>2. DOMAIN StepKeys = 1 .. Count /\ Count \in Nat
    BY PipelineAssumption DEF Count
  <1>3. Under /\ previous \in Values /\ iteration \in Nat
    BY <1>1 DEF PipeInv, PipeTypes
  <1>4. Parallel' = Parallel /\ InputVars' = InputVars /\ Left' = Left
    BY <1>1 DEF Parallel, InputVars, Left
  <1>5. [how |-> "threw", value |-> Null] \in Results
    BY DEF Results, Null, Values
  <1>6. /\ results' \in [DOMAIN StepKeys -> Results]
        /\ results'[i] = [how |-> "threw", value |-> Null]
        /\ \A j \in DOMAIN StepKeys : j # i => results'[j] = results[j]
        /\ \A j \in DOMAIN StepKeys : j # i => began'[j] = began[j]
        /\ DOMAIN began' = DOMAIN StepKeys
    BY <1>1, <1>5 DEF PipeInv, PipeTypes, Begin
  <1>7. PipeTypes'
    BY <1>1, <1>6 DEF PipeInv, PipeTypes
  <1>8. Under'
    <2>1. \A j \in DOMAIN StepKeys : results'[j].how = "ran" =>
            results'[j].value \in Outputs(manifest.steps[j])
      BY <1>3, <1>6 DEF Under
    <2> QED
      BY <1>1, <1>3, <1>4, <2>1 DEF Under, Outputs
  <1>9. StepsAreFed'
    <2>1. i > 1 => i - 1 \in DOMAIN StepKeys /\ at = (i - 1) + 1 /\ i - 1 # i
      BY <1>1, <1>2
    <2>2. manifest.steps[i].schema # NoClause => Fed(i)'
      <3>1. i = 1 => previous = given \/ iteration > 1
        BY <1>1, <1>3 DEF Under
      <3>2. i > 1 => previous = results[i - 1].value /\ results[i - 1].how \in {"ran", "skipped"}
        BY <1>1, <1>3, <2>1 DEF Under
      <3>3. i > 1 => results'[i - 1] = results[i - 1]
        BY <1>6, <2>1
      <3> QED
        BY <1>1, <1>3, <3>1, <3>2, <3>3, BeginFeeds
    <2>3. ASSUME NEW j \in DOMAIN StepKeys, j # i, JustBegan(j)', manifest.steps[j].schema # NoClause
          PROVE  Fed(j)'
      <3>1. at = j + 1 /\ JustBegan(j)
        BY <1>1, <1>4, <1>6, <2>3 DEF JustBegan
      <3>2. Fed(j)
        BY <2>3, <3>1, FedSteps DEF PipeInv
      <3>3. j > 1 => j - 1 \in DOMAIN StepKeys /\ j - 1 # i
        BY <1>1, <1>2, <3>1
      <3> QED
        BY <1>1, <1>6, <2>3, <3>2, <3>3, FedStays
    <2>4. \A j \in DOMAIN StepKeys : JustBegan(j)' /\ manifest'.steps[j].schema # NoClause => Fed(j)'
      <3> SUFFICES ASSUME NEW j \in DOMAIN StepKeys, JustBegan(j)', manifest'.steps[j].schema # NoClause
                   PROVE  Fed(j)'
        OBVIOUS
      <3> QED
        BY <1>1, <2>2, <2>3
    <2> QED
      BY <2>4 DEF StepsAreFed, Fed
  <1>10. Accepted'
    BY <1>1, AcceptedStays
  <1> QED
    BY <1>1, <1>7, <1>8, <1>9, <1>10 DEF PipeInv

\* Steps that only move on.
LEMMA LoopKeeps ==
  ASSUME PipeInv, LoopAgain \/ LoopEnds
  PROVE  PipeInv'
  <1>1. /\ stage = "run" /\ ~Parallel /\ at = Count + 1 /\ stage' \in {"run", "done"}
        /\ UNCHANGED <<manifest, unsure, given, state, previous, began, results>>
        /\ \/ at' = 1 /\ iteration' = iteration + 1 /\ stage' = "run"
           \/ at' = at /\ iteration' = iteration /\ stage' = "done"
    BY DEF LoopAgain, LoopEnds, Sequential, Parallel, Count
  <1>2. DOMAIN StepKeys = 1 .. Count /\ Count \in Nat
    BY PipelineAssumption DEF Count
  <1>3. Under /\ iteration \in Nat
    BY <1>1 DEF PipeInv, PipeTypes
  <1>4. Parallel' = Parallel /\ InputVars' = InputVars /\ Left' = Left
    BY <1>1 DEF Parallel, InputVars, Left
  <1>5. PipeTypes'
    BY <1>1, <1>3 DEF PipeInv, PipeTypes
  <1>6. Under'
    <2>1. \A j \in DOMAIN StepKeys : StepKeys[j] \in DOMAIN state
      BY <1>1, <1>2, <1>3 DEF Under
    <2>2. /\ at' \in 1 .. Count + 1 /\ iteration' >= 1
          /\ stage' = "run" => iteration' > 1 /\ \A j \in DOMAIN StepKeys : at' # j + 1
      BY <1>1, <1>2, <1>3 DEF Under
    <2> QED
      BY <1>1, <1>3, <1>4, <2>1, <2>2 DEF Under, Outputs
  <1>7. StepsAreFed'
    <2>1. ASSUME NEW j \in DOMAIN StepKeys, JustBegan(j)', manifest'.steps[j].schema # NoClause
          PROVE  Fed(j)'
      <3>1. at' = at /\ iteration' = iteration /\ JustBegan(j)
        BY <1>1, <1>2, <1>4, <2>1 DEF JustBegan
      <3>2. Fed(j)
        BY <1>1, <2>1, <3>1, FedSteps DEF PipeInv
      <3> QED
        BY <1>1, <3>1, <3>2, FedStays
    <2> QED
      BY <2>1 DEF StepsAreFed, Fed
  <1>8. Accepted'
    BY <1>1, AcceptedStays
  <1> QED
    BY <1>1, <1>5, <1>6, <1>7, <1>8 DEF PipeInv

\* A branch begins from the pipeline's input, and ends well or badly.
LEMMA BranchKeeps ==
  ASSUME PipeInv, NEW i \in DOMAIN StepKeys, NEW value \in Values,
         RunBranch(i, value) \/ FailBranch(i)
  PROVE  PipeInv'
  <1>1. /\ Parallel /\ stage \in {"run", "failed"} /\ stage' \in {stage, "failed"}
        /\ Begin(i, given)
        /\ \/ /\ value \in Outputs(manifest.steps[i])
              /\ results' = [results EXCEPT ![i] = [how |-> "ran", value |-> value]]
           \/ results' = [results EXCEPT ![i] = [how |-> "threw", value |-> Null]]
        /\ UNCHANGED <<manifest, unsure, given, state, previous, at, iteration>>
    BY DEF RunBranch, FailBranch
  <1>2. Under /\ given \in Values
    BY <1>1 DEF PipeInv, PipeTypes
  <1>3. Parallel' = Parallel /\ InputVars' = InputVars /\ Left' = Left
    BY <1>1 DEF Parallel, InputVars, Left
  <1>4. [how |-> "ran", value |-> value] \in Results /\ [how |-> "threw", value |-> Null] \in Results
    BY DEF Results, Null, Values
  <1>5. /\ results' \in [DOMAIN StepKeys -> Results]
        /\ results'[i].how = "ran" => results'[i].value \in Outputs(manifest.steps[i])
        /\ \A j \in DOMAIN StepKeys : j # i => results'[j] = results[j]
        /\ \A j \in DOMAIN StepKeys : j # i => began'[j] = began[j]
        /\ DOMAIN began' = DOMAIN StepKeys
    BY <1>1, <1>4 DEF PipeInv, PipeTypes, Begin
  <1>6. PipeTypes'
    BY <1>1, <1>5 DEF PipeInv, PipeTypes
  <1>7. Under'
    <2>1. \A j \in DOMAIN StepKeys : results'[j].how = "ran" =>
            results'[j].value \in Outputs(manifest.steps[j])
      BY <1>2, <1>5 DEF Under
    <2> QED
      BY <1>1, <1>2, <1>3, <2>1 DEF Under, Outputs
  <1>8. StepsAreFed'
    <2>1. manifest.steps[i].schema # NoClause => Fed(i)'
      BY <1>1, <1>2, BeginFeeds
    <2>2. ASSUME NEW j \in DOMAIN StepKeys, j # i, JustBegan(j)', manifest.steps[j].schema # NoClause
          PROVE  Fed(j)'
      <3>1. JustBegan(j)
        BY <1>1, <1>3, <1>5, <2>2 DEF JustBegan
      <3>2. Fed(j)
        BY <2>2, <3>1, FedSteps DEF PipeInv
      <3> QED
        BY <1>1, <1>5, <2>2, <3>2, FedStays
    <2>3. ASSUME NEW j \in DOMAIN StepKeys, JustBegan(j)', manifest'.steps[j].schema # NoClause
          PROVE  Fed(j)'
      BY <1>1, <2>1, <2>2, <2>3
    <2> QED
      BY <2>3 DEF StepsAreFed, Fed
  <1>9. Accepted'
    BY <1>1, AcceptedStays
  <1> QED
    BY <1>1, <1>6, <1>7, <1>8, <1>9 DEF PipeInv

LEMMA MergeKeeps == PipeInv /\ Merge => PipeInv'
  <1> SUFFICES ASSUME PipeInv, Merge PROVE PipeInv'
    OBVIOUS
  <1>1. /\ Parallel /\ stage = "run" /\ stage' = "done"
        /\ DOMAIN state' = DOMAIN state \cup Keys
        /\ UNCHANGED <<manifest, unsure, given, previous, at, iteration, began, results>>
    BY DEF Merge, Keys
  <1>2. Under
    BY <1>1 DEF PipeInv
  <1>3. Parallel' = Parallel /\ InputVars' = InputVars /\ Left' = Left
    BY <1>1 DEF Parallel, InputVars, Left
  <1>4. PipeTypes'
    BY <1>1 DEF PipeInv, PipeTypes
  <1>5. Under'
    BY <1>1, <1>2, <1>3 DEF Under, Outputs
  <1>6. StepsAreFed'
    <2>1. ASSUME NEW j \in DOMAIN StepKeys, JustBegan(j)', manifest'.steps[j].schema # NoClause
          PROVE  Fed(j)'
      <3>1. JustBegan(j)
        BY <1>1, <1>3, <2>1 DEF JustBegan
      <3>2. Fed(j)
        BY <1>1, <2>1, <3>1, FedSteps DEF PipeInv
      <3> QED
        BY <1>1, <3>2, FedStays
    <2> QED
      BY <2>1 DEF StepsAreFed, Fed
  <1>7. Accepted'
    BY <1>1, AcceptedStays
  <1> QED
    BY <1>1, <1>4, <1>5, <1>6, <1>7 DEF PipeInv

LEMMA PipeInvStep == PipeInv /\ [PipeNext]_pipeVars => PipeInv'
  <1> SUFFICES ASSUME PipeInv, [PipeNext]_pipeVars PROVE PipeInv'
    OBVIOUS
  <1>1. CASE \E step \in Steps : LoadStep(step)
    BY <1>1, LoadStepKeeps
  <1>2. CASE \E output \in Clauses : \E input \in Values \ {Null} : \E nulls \in SUBSET Props :
                 Execute(output, input, nulls)
    BY <1>2, ExecuteKeeps
  <1>3. ASSUME NEW i \in DOMAIN StepKeys, Skip(i) \/ FailStep(i) \/ FailBranch(i)
        PROVE  PipeInv'
    <2>1. Null \in Values
      BY DEF Values
    <2> QED
      BY <1>3, <2>1, SkipKeeps, FailStepKeeps, BranchKeeps
  <1>4. ASSUME NEW i \in DOMAIN StepKeys, NEW value \in Values, RunStep(i, value) \/ RunBranch(i, value)
        PROVE  PipeInv'
    BY <1>4, RunStepKeeps, BranchKeeps
  <1>5. CASE LoopAgain \/ LoopEnds \/ Merge
    BY <1>5, LoopKeeps, MergeKeeps
  <1>6. CASE UNCHANGED pipeVars
    <2> USE <1>6 DEF pipeVars
    <2>1. PipeTypes'
      BY DEF PipeInv, PipeTypes
    <2>2. Accepted'
      BY DEF PipeInv, Accepted, Validated, Available, InputVars, InputFits, UpstreamKeys, Unverified
    <2>3. stage # "load" => Under'
      BY DEF PipeInv, Under, Left, InputVars, Parallel, Outputs
    <2>4. StepsAreFed'
      BY DEF PipeInv, StepsAreFed, JustBegan, CallerGave, Parallel
    <2> QED
      BY <2>1, <2>2, <2>3, <2>4 DEF PipeInv
  <1> QED
    BY <1>1, <1>2, <1>3, <1>4, <1>5, <1>6 DEF PipeNext

\* What was in scope for the validator is in the state.
LEMMA ScopeHolds == PipeInv => RefsResolve
  <1> SUFFICES ASSUME PipeInv PROVE RefsResolve
    OBVIOUS
  <1>1. DOMAIN StepKeys = 1 .. Count /\ Count \in Nat
    BY PipelineAssumption DEF Count
  <1>3. stage # "load" => \A i \in DOMAIN StepKeys : Validated(i)
    BY <1>1 DEF PipeInv, PipeTypes, Accepted
  <1>4. ASSUME NEW i \in DOMAIN StepKeys,
               (Sequential(i) /\ (manifest.until # NoClause => iteration > 1))
                 \/ (Parallel /\ stage = "run")
        PROVE  InScope(RefsOf(manifest.steps[i]))
    <2>1. stage # "load" /\ Under /\ RefsOf(manifest.steps[i]) \subseteq Available(i)
      BY <1>3, <1>4 DEF Sequential, PipeInv, Validated
    <2>2. Available(i) \subseteq DOMAIN state \cup Left
      <3>1. CASE Parallel /\ stage = "run"
        BY <2>1, <3>1 DEF Available, Under, Parallel, PipeInv, Accepted
      <3>2. CASE Sequential(i) /\ (manifest.until # NoClause => iteration > 1)
        <4>1. ~Parallel /\ at = i
          BY <3>2 DEF Sequential, Parallel
        <4>2. CASE manifest.until # NoClause
          BY <2>1, <3>2, <4>1, <4>2 DEF Available, Under
        <4>3. CASE manifest.until = NoClause
          BY <1>1, <2>1, <3>2, <4>1, <4>3 DEF Available, Under, Parallel
        <4> QED
          BY <4>2, <4>3
      <3> QED
        BY <1>4, <3>1, <3>2
    <2> QED
      BY <2>1, <2>2 DEF InScope, Left
  <1>5. ASSUME Sequential(Count + 1) \/ stage = "done"
        PROVE  InScope({manifest.until, manifest.output} \ {NoClause})
    <2>1. stage # "load" /\ Under
      BY <1>5 DEF Sequential, PipeInv
    <2>2. Keys \subseteq DOMAIN state
      <3>1. CASE Parallel
        BY <1>5, <2>1, <3>1 DEF Under, Sequential, Parallel
      <3>2. CASE ~Parallel
        BY <1>1, <1>5, <2>1, <3>2 DEF Under, Sequential, Keys
      <3> QED
        BY <3>1, <3>2
    <2>3. Available(Count + 1) \subseteq DOMAIN state \cup Left
      <3>1. Available(Count + 1) \subseteq InputVars \cup Keys
        BY <1>1 DEF Available, Keys
      <3> QED
        BY <2>1, <2>2, <3>1 DEF Under
    <2>4. {manifest.until, manifest.output} \ {NoClause} \subseteq Available(Count + 1) \cup Keys
      BY <2>1 DEF PipeInv, Accepted
    <2> QED
      BY <2>2, <2>3, <2>4 DEF InScope, Left
  <1> QED
    BY <1>4, <1>5 DEF RefsResolve, Count

LEMMA PipeInvHolds == PipeSpec => []PipeInv
  BY PipeInvInit, PipeInvStep, PTL DEF PipeSpec

\* The contract between the validator and the executors of a pipeline: every
\* child that declares its input gets it, but where the validator warned or the
\* run itself took it away, and every name a manifest refers to is in the state
\* when it is looked up, for any number of steps, properties and iterations.
THEOREM ValidationHolds == PipeSpec => []ValidatedRuns
  <1>1. PipeInv => ValidatedRuns
    BY ScopeHolds DEF PipeInv, ValidatedRuns
  <1> QED
    BY PipeInvHolds, <1>1, PTL
=============================================================================
