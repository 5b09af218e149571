------------------------- MODULE RunDeliveryProofs -------------------------
(***************************************************************************)
(* Proofs about RunRegistry: the results of child runs reach their parents *)
(* once, no parent sleeps through one, and an answer comes after all of    *)
(* them, for any tree of runs.                                             *)
(***************************************************************************)
EXTENDS RunRegistryProofs, FiniteSetTheorems

USE DEF Runs, Terminal, Live

\* The members of a sequence, and that none is there twice.
Elems(s)    == {s[i] : i \in DOMAIN s}
Distinct(s) == \A i, j \in DOMAIN s : s[i] = s[j] => i = j

Over == Terminal \cup {"evicted"}

\* Only child runs have a parent.  A child of a run the registry still has was
\* created below it, and is evicted only together with it.
Family ==
    /\ \A c \in Callers : parent[c] = None
    /\ \A k \in Kids : parent[k] # None =>
          /\ status[k] # "none" /\ status[parent[k]] # "none"
          /\ Resident(parent[k]) =>
                /\ parent[k] \in up[k] /\ up[k] = up[parent[k]] \cup {parent[k]}
                /\ status[k] # "evicted"

\* What was delivered to p: each result is from a child that is over, and it is
\* either queued once or was collected once.
Delivered(p) ==
    /\ \A k \in Elems(pending[p]) \cup Elems(got[p]) :
          k \in Kids /\ parent[k] = p /\ status[k] \in Over
    /\ Distinct(pending[p]) /\ Distinct(got[p])
    /\ Elems(pending[p]) \cap Elems(got[p]) = {}

\* A settled child of a run the registry still has was delivered.
Settled ==
    \A k \in Kids : /\ parent[k] # None /\ status[k] \in Terminal
                    /\ Resident(parent[k])
                    => k \in Elems(pending[parent[k]]) \cup Elems(got[parent[k]])

\* A loop that has answered has collected every child.
Answered ==
    \A k \in Kids : /\ parent[k] # None
                    /\ loop[parent[k]] = "answered" /\ Resident(parent[k])
                    => status[k] \in Terminal /\ k \in Elems(got[parent[k]])

DeliveryInv ==
    /\ Family /\ (\A p \in Runs : Delivered(p)) /\ Settled
    /\ NoLostWakeup /\ Answered

-----------------------------------------------------------------------------
\* Queueing a result, collecting the queue, and counting.
LEMMA ElemsAppend ==
  ASSUME NEW S, NEW s \in Seq(S), NEW x \in S
  PROVE  /\ Elems(Append(s, x)) = Elems(s) \cup {x}
         /\ Distinct(s) /\ x \notin Elems(s) => Distinct(Append(s, x))
<1>1. /\ DOMAIN Append(s, x) = 1 .. Len(s) + 1 /\ DOMAIN s = 1 .. Len(s) /\ Len(s) \in Nat
      /\ \A i \in 1 .. Len(s) : Append(s, x)[i] = s[i]
      /\ Append(s, x)[Len(s) + 1] = x
  OBVIOUS
<1>2. \A i \in DOMAIN Append(s, x) : i \in DOMAIN s \/ i = Len(s) + 1
  BY <1>1
<1>3. DOMAIN s \subseteq DOMAIN Append(s, x) /\ Len(s) + 1 \in DOMAIN Append(s, x)
  BY <1>1
<1>4. Elems(Append(s, x)) = Elems(s) \cup {x}
  BY <1>1, <1>2, <1>3 DEF Elems
<1>5. ASSUME Distinct(s), x \notin Elems(s) PROVE Distinct(Append(s, x))
  BY <1>1, <1>2, <1>5 DEF Distinct, Elems
<1> QED BY <1>4, <1>5

LEMMA ElemsConcat ==
  ASSUME NEW S, NEW s \in Seq(S), NEW t \in Seq(S)
  PROVE  /\ Elems(s \o t) = Elems(s) \cup Elems(t)
         /\ Distinct(s) /\ Distinct(t) /\ Elems(s) \cap Elems(t) = {} => Distinct(s \o t)
<1>1. /\ DOMAIN (s \o t) = 1 .. Len(s) + Len(t)
      /\ DOMAIN s = 1 .. Len(s) /\ Len(s) \in Nat
      /\ DOMAIN t = 1 .. Len(t) /\ Len(t) \in Nat
      /\ \A i \in 1 .. Len(s) + Len(t) :
            (s \o t)[i] = IF i <= Len(s) THEN s[i] ELSE t[i - Len(s)]
  OBVIOUS
<1>2. \A i \in DOMAIN (s \o t) : \/ i \in DOMAIN s /\ (s \o t)[i] = s[i]
                                 \/ i - Len(s) \in DOMAIN t /\ (s \o t)[i] = t[i - Len(s)]
  BY <1>1
<1>3. /\ \A i \in DOMAIN s : i \in DOMAIN (s \o t) /\ (s \o t)[i] = s[i]
      /\ \A i \in DOMAIN t : i + Len(s) \in DOMAIN (s \o t) /\ (s \o t)[i + Len(s)] = t[i]
  BY <1>1
<1>4. Elems(s \o t) = Elems(s) \cup Elems(t)
  <2>1. Elems(s \o t) \subseteq Elems(s) \cup Elems(t)
    BY <1>2 DEF Elems
  <2>2. Elems(s) \subseteq Elems(s \o t)
    BY <1>3 DEF Elems
  <2>3. Elems(t) \subseteq Elems(s \o t)
    <3>1. ASSUME NEW i \in DOMAIN t PROVE t[i] \in Elems(s \o t)
      BY <1>3 DEF Elems
    <3> QED BY <3>1 DEF Elems
  <2> QED BY <2>1, <2>2, <2>3
<1>5. ASSUME Distinct(s), Distinct(t), Elems(s) \cap Elems(t) = {},
             NEW i \in DOMAIN (s \o t), NEW j \in DOMAIN (s \o t), (s \o t)[i] = (s \o t)[j]
      PROVE  i = j
  <2>1. CASE i \in DOMAIN s /\ (s \o t)[i] = s[i] /\ j \in DOMAIN s /\ (s \o t)[j] = s[j]
    BY <1>5, <2>1 DEF Distinct
  <2>2. CASE /\ i - Len(s) \in DOMAIN t /\ (s \o t)[i] = t[i - Len(s)]
             /\ j - Len(s) \in DOMAIN t /\ (s \o t)[j] = t[j - Len(s)]
    <3>1. i - Len(s) = j - Len(s)
      BY <1>5, <2>2 DEF Distinct
    <3> QED BY <1>1, <1>5, <3>1
  <2>3. s[i] \in Elems(s) \/ i \notin DOMAIN s
    BY DEF Elems
  <2>4. s[j] \in Elems(s) \/ j \notin DOMAIN s
    BY DEF Elems
  <2>5. t[i - Len(s)] \in Elems(t) \/ i - Len(s) \notin DOMAIN t
    BY DEF Elems
  <2>6. t[j - Len(s)] \in Elems(t) \/ j - Len(s) \notin DOMAIN t
    BY DEF Elems
  <2> QED BY <1>2, <1>5, <2>1, <2>2, <2>3, <2>4, <2>5, <2>6
<1> QED BY <1>4, <1>5 DEF Distinct

LEMMA ElemsEmpty == Elems(<<>>) = {} /\ Distinct(<<>>)
  BY DEF Elems, Distinct

LEMMA TimesIs ==
  ASSUME NEW s \in Seq(Runs), Distinct(s), NEW k
  PROVE  Times(k, s) = IF k \in Elems(s) THEN 1 ELSE 0
<1> DEFINE I == {i \in DOMAIN s : s[i] = k}
<1>1. CASE k \in Elems(s)
  <2>1. PICK i \in DOMAIN s : s[i] = k
    BY <1>1 DEF Elems
  <2>2. I = {i}
    BY <2>1 DEF Distinct
  <2> QED BY <1>1, <2>2, FS_Singleton DEF Times
<1>2. CASE k \notin Elems(s)
  <2>1. I = {}
    BY <1>2 DEF Elems
  <2> QED BY <1>2, <2>1, FS_EmptySet DEF Times
<1> QED BY <1>1, <1>2

-----------------------------------------------------------------------------
\* Steps that deliver nothing, create and settle no child, and let no loop wait or
\* answer.
LEMMA QuietDelivery ==
  ASSUME TreeInv, DeliveryInv, UNCHANGED <<parent, up, pending, got>>,
         \A k \in Kids : status'[k] = status[k],
         \A r \in Runs : status[r] # "none" => status'[r] = status[r],
         \A r \in Runs : /\ loop'[r] = "draining" =>
                               loop[r] = "draining" /\ (Resident(r) => ~aborted'[r])
                         /\ loop'[r] = "answered" => loop[r] = "answered"
  PROVE  DeliveryInv'
<1>1. \A r \in Runs : status[r] # "none" => (Resident(r)' <=> Resident(r))
  BY DEF Resident
<1>2. \A k \in Kids : parent[k] # None => parent[k] \in Runs
  <2>1. parent \in [Runs -> Runs \cup {None}]
    BY DEF TreeInv, TypeOK
  <2> QED BY <2>1
<1>3. \A k \in Kids : parent[k] # None => status[parent[k]] # "none" /\ status[k] # "none"
  BY DEF DeliveryInv, Family
<1>4. Family'
  BY <1>1, <1>2, <1>3 DEF DeliveryInv, Family
<1>5. \A p \in Runs : Delivered(p)'
  BY DEF DeliveryInv, Delivered
<1>6. Settled'
  BY <1>1, <1>2, <1>3 DEF DeliveryInv, Settled
<1>7. NoLostWakeup'
  <2> SUFFICES ASSUME NEW p \in Runs, loop'[p] = "draining", Resident(p)'
               PROVE  /\ Outstanding(p)' # {} /\ pending[p] = <<>> /\ ~aborted'[p]
    BY DEF NoLostWakeup
  <2>1. status[p] # "none"
    BY DEF TreeInv, Lineage
  <2>2. Outstanding(p) # {} /\ pending[p] = <<>>
    BY <1>1, <2>1 DEF DeliveryInv, NoLostWakeup
  <2>3. PICK k \in Kids : parent[k] = p /\ p \in up[k] /\ Active(k)
    BY <2>2 DEF Outstanding, Children
  <2>4. k \in Outstanding(p)'
    BY <2>3 DEF Outstanding, Children, Active
  <2> QED BY <1>1, <2>1, <2>2, <2>4
<1>8. Answered'
  BY <1>1, <1>2, <1>3 DEF DeliveryInv, Answered
<1> QED BY <1>4, <1>5, <1>6, <1>7, <1>8 DEF DeliveryInv

\* An abort wakes the loops of its subtree that wait.
LEMMA AbortDelivery ==
  ASSUME TreeInv, DeliveryInv, NEW S, Abort(S), UNCHANGED <<parent, up, pending, got, status>>
  PROVE  DeliveryInv'
<1>1. \A r \in Runs : /\ loop'[r] = IF r \in S /\ loop[r] = "draining" THEN "failing" ELSE loop[r]
                      /\ aborted'[r] = (aborted[r] \/ r \in S)
  BY DEF Abort
<1>2. \A r \in Runs : loop[r] = "draining" /\ Resident(r) => ~aborted[r]
  BY DEF DeliveryInv, NoLostWakeup
<1>3. ASSUME NEW r \in Runs, loop'[r] = "draining" PROVE loop[r] = "draining" /\ r \notin S
  BY <1>1, <1>3
<1> QED BY <1>1, <1>2, <1>3, QuietDelivery

\* A run settles: its parent gets its result, and is woken if it waits.
LEMMA SettleDelivery ==
  ASSUME TreeInv, DeliveryInv, NEW r \in Runs, NEW o \in Terminal,
         NEW lp \in {loop, [loop EXCEPT ![r] = "off"]}, Settle(r, o, lp),
         UNCHANGED <<parent, up, got, aborted>>
  PROVE  DeliveryInv'
<1>1. /\ status \in [Runs -> {"none", "evicted"} \cup Live \cup Terminal]
      /\ parent \in [Runs -> Runs \cup {None}]
      /\ pending \in [Runs -> Seq(Runs)] /\ got \in [Runs -> Seq(Runs)]
      /\ loop \in [Runs -> {"off", "busy", "draining", "failing", "answered", "stopped", "exhausted"}]
      /\ None \notin Runs
  BY SessionLockAssumption, RunRegistryAssumption DEF TreeInv, TypeOK
<1>2. \A p \in Runs : lp[p] \in {loop[p], "off"}
  BY <1>1
<1>3. CASE ~Active(r)
  <2>1. loop' = lp /\ UNCHANGED <<status, pending>>
    BY <1>3 DEF Settle
  <2>2. \A p \in Runs : loop'[p] = "draining" => loop[p] = "draining" /\ (Resident(p) => ~aborted'[p])
    BY <1>2, <2>1 DEF DeliveryInv, NoLostWakeup
  <2> QED BY <1>2, <2>1, <2>2, QuietDelivery
<1>4. CASE Active(r)
  <2>1. status' = [status EXCEPT ![r] = o] /\ Deliver(r, lp)
    BY <1>4 DEF Settle
  <2>2. /\ \A p \in Runs : Resident(p)' <=> Resident(p)
        /\ \A k \in Runs : status'[k] = IF k = r THEN o ELSE status[k]
        /\ status[r] \in Live
    BY <1>1, <1>4, <2>1 DEF Resident, Active
  <2>3. \A p \in Runs : r \notin Elems(pending[p]) /\ r \notin Elems(got[p])
    BY <2>2 DEF DeliveryInv, Delivered, Over
  <2>4. Family'
    BY <1>1, <2>2 DEF DeliveryInv, Family
  <2>5. \A p \in Runs : p # parent[r] => loop'[p] = lp[p] /\ pending'[p] = pending[p]
    BY <1>1, <1>2, <2>1 DEF Deliver
  <2>6. ASSUME parent[r] # None
        PROVE  /\ r \in Kids
               /\ pending'[parent[r]] = Append(pending[parent[r]], r)
               /\ Resident(parent[r]) => loop'[parent[r]] # "draining"
               /\ loop'[parent[r]] \in {"busy", lp[parent[r]]}
    <3>1. r \in Kids /\ parent[r] \in Runs
      BY <1>1, <2>6 DEF DeliveryInv, Family
    <3>2. lp \in [Runs -> {"off", "busy", "draining", "failing", "answered", "stopped", "exhausted"}]
      BY <1>1
    <3> QED BY <1>1, <2>1, <2>6, <3>1, <3>2 DEF Deliver
  <2>7. \A p \in Runs : p = parent[r] =>
           /\ Elems(pending'[p]) = Elems(pending[p]) \cup {r}
           /\ Distinct(pending'[p])
    <3> SUFFICES ASSUME NEW p \in Runs, p = parent[r]
                 PROVE  /\ Elems(pending'[p]) = Elems(pending[p]) \cup {r}
                        /\ Distinct(pending'[p])
      OBVIOUS
    <3>1. pending'[p] = Append(pending[p], r) /\ pending[p] \in Seq(Runs)
      BY <1>1, <2>6
    <3>2. Distinct(pending[p])
      BY DEF DeliveryInv, Delivered
    <3> QED BY <2>3, <3>1, <3>2, ElemsAppend
  <2>8. ASSUME NEW p \in Runs PROVE Delivered(p)'
    <3>1. CASE p # parent[r]
      BY <2>2, <2>5, <3>1 DEF DeliveryInv, Delivered, Over
    <3>2. CASE p = parent[r]
      <4>1. r \in Kids /\ parent[r] = p
        BY <1>1, <2>6, <3>2
      <4> QED BY <2>2, <2>3, <2>7, <3>2, <4>1 DEF DeliveryInv, Delivered, Over
    <3> QED BY <3>1, <3>2
  <2>9. Settled'
    <3> SUFFICES ASSUME NEW k \in Kids, parent[k] # None, status'[k] \in Terminal,
                        Resident(parent[k])'
                 PROVE  k \in Elems(pending'[parent[k]]) \cup Elems(got[parent[k]])
      BY DEF Settled
    <3>1. parent[k] \in Runs
      BY <1>1
    <3>2. CASE k = r
      BY <2>7, <3>1, <3>2
    <3>3. CASE k # r
      <4>1. k \in Elems(pending[parent[k]]) \cup Elems(got[parent[k]])
        BY <2>2, <3>1, <3>3 DEF DeliveryInv, Settled
      <4> QED BY <2>5, <2>7, <3>1, <4>1
    <3> QED BY <3>2, <3>3
  <2>10. NoLostWakeup'
    <3> SUFFICES ASSUME NEW p \in Runs, loop'[p] = "draining", Resident(p)'
                 PROVE  Outstanding(p)' # {} /\ pending'[p] = <<>> /\ ~aborted'[p]
      BY DEF NoLostWakeup
    <3>1. p # parent[r] /\ loop[p] = "draining" /\ Resident(p)
      BY <1>1, <1>2, <2>2, <2>5, <2>6
    <3>2. Outstanding(p) # {} /\ pending[p] = <<>> /\ ~aborted[p]
      BY <3>1 DEF DeliveryInv, NoLostWakeup
    <3>3. PICK k \in Kids : parent[k] = p /\ p \in up[k] /\ Active(k)
      BY <3>2 DEF Outstanding, Children
    <3>4. k \in Outstanding(p)'
      BY <2>2, <3>1, <3>3 DEF Outstanding, Children, Active
    <3> QED BY <2>5, <3>1, <3>2, <3>4
  <2>11. Answered'
    <3> SUFFICES ASSUME NEW k \in Kids, parent[k] # None, loop'[parent[k]] = "answered",
                        Resident(parent[k])'
                 PROVE  status'[k] \in Terminal /\ k \in Elems(got[parent[k]])
      BY DEF Answered
    <3>1. parent[k] \in Runs /\ Resident(parent[k])
      BY <1>1, <2>2
    <3>2. loop[parent[k]] = "answered"
      BY <1>2, <2>5, <2>6, <3>1
    <3> QED BY <2>2, <3>1, <3>2 DEF DeliveryInv, Answered
  <2> QED BY <2>4, <2>8, <2>9, <2>10, <2>11 DEF DeliveryInv
<1> QED BY <1>3, <1>4

\* A loop collects what is queued, and then goes on, waits or answers.
LEMMA TurnDelivery ==
  ASSUME TreeInv, DeliveryInv, NEW p \in Runs, Inject(p) \/ TurnEnd(p)
  PROVE  DeliveryInv'
<1>1. /\ status \in [Runs -> {"none", "evicted"} \cup Live \cup Terminal]
      /\ parent \in [Runs -> Runs \cup {None}]
      /\ pending \in [Runs -> Seq(Runs)] /\ got \in [Runs -> Seq(Runs)]
      /\ loop \in [Runs -> {"off", "busy", "draining", "failing", "answered", "stopped", "exhausted"}]
      /\ None \notin Runs
  BY SessionLockAssumption, RunRegistryAssumption DEF TreeInv, TypeOK
<1>2. /\ UNCHANGED <<status, aborted, parent, up>>
      /\ got' = [got EXCEPT ![p] = got[p] \o pending[p]]
      /\ pending' = [pending EXCEPT ![p] = <<>>]
      /\ \A q \in Runs : q # p => loop'[q] = loop[q]
  BY <1>1 DEF Inject, TurnEnd
<1>3. /\ \A q \in Runs : q # p => pending'[q] = pending[q] /\ got'[q] = got[q]
      /\ pending'[p] = <<>> /\ got'[p] = got[p] \o pending[p]
  BY <1>1, <1>2
<1>4. /\ Elems(pending'[p]) = {} /\ Distinct(pending'[p])
      /\ Elems(got'[p]) = Elems(got[p]) \cup Elems(pending[p])
      /\ Distinct(got'[p])
  <2>1. pending[p] \in Seq(Runs) /\ got[p] \in Seq(Runs)
    BY <1>1
  <2>2. /\ Distinct(pending[p]) /\ Distinct(got[p])
        /\ Elems(got[p]) \cap Elems(pending[p]) = {}
    BY DEF DeliveryInv, Delivered
  <2>3. /\ Elems(got[p] \o pending[p]) = Elems(got[p]) \cup Elems(pending[p])
        /\ Distinct(got[p] \o pending[p])
    BY <2>1, <2>2, ElemsConcat
  <2> QED BY <1>3, <2>3, ElemsEmpty
<1>5. \A q \in Runs : Resident(q)' <=> Resident(q)
  BY <1>2 DEF Resident
<1>6. Family'
  BY <1>1, <1>2, <1>5 DEF DeliveryInv, Family
<1>7. \A q \in Runs : Delivered(q)'
  BY <1>2, <1>3, <1>4 DEF DeliveryInv, Delivered
<1>8. Settled'
  BY <1>1, <1>2, <1>3, <1>4, <1>5 DEF DeliveryInv, Settled
<1>9. NoLostWakeup'
  <2>1. Outstanding(p)' = Outstanding(p) /\ \A q \in Runs : Outstanding(q)' = Outstanding(q)
    BY <1>2 DEF Outstanding, Children, Active, Resident
  <2>2. loop'[p] = "draining" => Outstanding(p) # {} /\ ~aborted[p]
    BY <1>1 DEF Inject, TurnEnd
  <2> QED BY <1>2, <1>3, <1>5, <2>1, <2>2 DEF DeliveryInv, NoLostWakeup
<1>10. Answered'
  <2> SUFFICES ASSUME NEW k \in Kids, parent[k] # None, loop'[parent[k]] = "answered",
                      Resident(parent[k])
               PROVE  status[k] \in Terminal /\ k \in Elems(got'[parent[k]])
    BY <1>1, <1>2, <1>5 DEF Answered
  <2>1. CASE parent[k] # p
    BY <1>1, <1>2, <1>3, <2>1 DEF DeliveryInv, Answered
  <2>2. CASE parent[k] = p
    <3>1. Outstanding(p) = {}
      BY <1>1, <2>2 DEF Inject, TurnEnd
    <3>2. /\ p \in up[k] /\ status[k] # "none" /\ status[k] # "evicted"
      BY <1>1, <2>2 DEF DeliveryInv, Family
    <3>3. status[k] \in Terminal
      BY <1>1, <2>2, <3>1, <3>2 DEF Outstanding, Children, Active
    <3>4. k \in Elems(pending[p]) \cup Elems(got[p])
      BY <2>2, <3>3 DEF DeliveryInv, Settled
    <3> QED BY <1>4, <2>2, <3>3, <3>4
  <2> QED BY <2>1, <2>2
<1> QED BY <1>6, <1>7, <1>8, <1>9, <1>10 DEF DeliveryInv

\* A new child has no children of its own, and nothing was delivered of it.
LEMMA SpawnDelivery ==
  ASSUME TreeInv, DeliveryInv, NEW p \in Runs, NEW k \in Kids, Spawn(p, k)
  PROVE  DeliveryInv'
<1>1. /\ status \in [Runs -> {"none", "evicted"} \cup Live \cup Terminal]
      /\ parent \in [Runs -> Runs \cup {None}]
      /\ loop \in [Runs -> {"off", "busy", "draining", "failing", "answered", "stopped", "exhausted"}]
      /\ up \in [Runs -> SUBSET Runs] /\ aborted \in [Runs -> BOOLEAN]
      /\ None \notin Runs /\ k \notin Callers
  BY SessionLockAssumption, RunRegistryAssumption DEF TreeInv, TypeOK
<1>2. status[k] = "none" /\ status[p] # "none" /\ k # p
  BY DEF Spawn, TreeInv, Lineage
<1>3. \A j \in Kids : parent[j] # k
  BY <1>1, <1>2 DEF DeliveryInv, Family
<1>4. \A q \in Runs : k \notin Elems(pending[q]) /\ k \notin Elems(got[q])
  BY <1>2 DEF DeliveryInv, Delivered, Over
<1>5. UNCHANGED <<pending, got>>
  BY DEF Spawn
<1>6. /\ \A q \in Runs : q # k => status'[q] = status[q] /\ aborted'[q] = aborted[q]
      /\ status'[k] \in Live
  BY <1>1 DEF Spawn
<1>7. /\ \A q \in Runs : q # k => parent'[q] = parent[q] /\ up'[q] = up[q]
      /\ parent'[k] = p /\ up'[k] = IF Resident(p) THEN up[p] \cup {p} ELSE {}
  BY <1>1 DEF Spawn
<1>8. /\ \A q \in Runs : q # k => loop'[q] = loop[q]
      /\ loop'[k] = "busy" /\ loop[p] \in {"busy", "off"}
  BY <1>1 DEF Spawn
<1>9. \A q \in Runs : q # k => (Resident(q)' <=> Resident(q))
  BY <1>6 DEF Resident
<1>10. Family'
  <2>1. \A c \in Callers : parent'[c] = None
    BY <1>1, <1>7 DEF DeliveryInv, Family
  <2>2. ASSUME NEW j \in Kids, parent'[j] # None
        PROVE  /\ status'[j] # "none" /\ status'[parent'[j]] # "none"
               /\ Resident(parent[j])' =>
                     /\ parent'[j] \in up'[j] /\ up'[j] = up'[parent'[j]] \cup {parent'[j]}
                     /\ status'[j] # "evicted"
    <3>1. CASE j = k
      <4>1. parent'[j] = p /\ status'[j] \in Live /\ status'[p] # "none" /\ up'[p] = up[p]
        BY <1>2, <1>6, <1>7, <3>1
      <4>2. Resident(parent[j])' => Resident(p)
        BY <1>2, <1>9, <4>1
      <4> QED BY <1>7, <3>1, <4>1, <4>2
    <3>2. CASE j # k
      <4>1. parent'[j] = parent[j] /\ parent[j] # k /\ parent[j] \in Runs
        BY <1>1, <1>3, <1>7, <2>2, <3>2
      <4>2. Resident(parent[j])' => Resident(parent[j])
        BY <1>9, <4>1
      <4>3. /\ up'[j] = up[j] /\ up'[parent[j]] = up[parent[j]]
            /\ status'[j] = status[j] /\ status'[parent[j]] = status[parent[j]]
        BY <1>6, <1>7, <3>2, <4>1
      <4> QED BY <2>2, <4>1, <4>2, <4>3 DEF DeliveryInv, Family
    <3> QED BY <3>1, <3>2
  <2> QED BY <2>1, <2>2 DEF Family
<1>11. \A q \in Runs : Delivered(q)'
  BY <1>4, <1>5, <1>6, <1>7 DEF DeliveryInv, Delivered
<1>12. Settled'
  <2> SUFFICES ASSUME NEW j \in Kids, parent'[j] # None, status'[j] \in Terminal,
                      Resident(parent[j])'
               PROVE  j \in Elems(pending[parent'[j]]) \cup Elems(got[parent'[j]])
    BY <1>5 DEF Settled
  <2>1. j # k
    BY <1>6
  <2>2. parent'[j] = parent[j] /\ parent[j] # k /\ parent[j] \in Runs
    BY <1>1, <1>3, <1>7, <2>1
  <2>3. Resident(parent[j]) /\ status[j] \in Terminal
    BY <1>6, <1>9, <2>1, <2>2
  <2> QED BY <2>2, <2>3 DEF DeliveryInv, Settled
<1>13. NoLostWakeup'
  <2> SUFFICES ASSUME NEW q \in Runs, loop'[q] = "draining", Resident(q)'
               PROVE  Outstanding(q)' # {} /\ pending[q] = <<>> /\ ~aborted'[q]
    BY <1>5 DEF NoLostWakeup
  <2>1. q # k /\ loop[q] = "draining" /\ Resident(q)
    BY <1>8, <1>9
  <2>2. Outstanding(q) # {} /\ pending[q] = <<>> /\ ~aborted[q]
    BY <2>1 DEF DeliveryInv, NoLostWakeup
  <2>3. PICK j \in Kids : parent[j] = q /\ q \in up[j] /\ Active(j)
    BY <2>2 DEF Outstanding, Children
  <2>4. j # k
    BY <1>2, <2>3 DEF Active
  <2>5. j \in Outstanding(q)'
    BY <1>6, <1>7, <2>3, <2>4 DEF Outstanding, Children, Active
  <2> QED BY <1>6, <2>1, <2>2, <2>5
<1>14. Answered'
  <2> SUFFICES ASSUME NEW j \in Kids, parent'[j] # None, loop'[parent'[j]] = "answered",
                      Resident(parent[j])'
               PROVE  status'[j] \in Terminal /\ j \in Elems(got[parent'[j]])
    BY <1>5 DEF Answered
  <2>1. j # k
    BY <1>2, <1>7, <1>8
  <2>2. parent'[j] = parent[j] /\ parent[j] # k /\ parent[j] \in Runs
    BY <1>1, <1>3, <1>7, <2>1
  <2>3. Resident(parent[j]) /\ loop[parent[j]] = "answered" /\ status'[j] = status[j]
    BY <1>6, <1>8, <1>9, <2>1, <2>2
  <2> QED BY <2>2, <2>3 DEF DeliveryInv, Answered
<1> QED BY <1>10, <1>11, <1>12, <1>13, <1>14 DEF DeliveryInv

\* An eviction drops no child of a run that stays.
LEMMA EvictDelivery ==
  ASSUME TreeInv, DeliveryInv, NEW r \in Runs, EvictSubtree(r)
  PROVE  DeliveryInv'
<1> DEFINE gone == {k \in Subtree(r) : Resident(k)}
<1>1. /\ status \in [Runs -> {"none", "evicted"} \cup Live \cup Terminal]
      /\ parent \in [Runs -> Runs \cup {None}]
      /\ pending \in [Runs -> Seq(Runs)]
      /\ None \notin Runs
  BY SessionLockAssumption, RunRegistryAssumption DEF TreeInv, TypeOK
<1>2. /\ status' = [k \in Runs |-> IF k \in gone THEN "evicted" ELSE status[k]]
      /\ pending' = [k \in Runs |-> IF k \in gone THEN <<>> ELSE pending[k]]
      /\ UNCHANGED <<aborted, parent, up, loop, got>>
      /\ up[r] = {}
  BY DEF EvictSubtree
<1>3. \A q \in Runs : Resident(q)' <=> Resident(q) /\ q \notin gone
  BY <1>1, <1>2 DEF Resident
<1>4. ASSUME NEW k \in Kids, parent[k] # None, Resident(parent[k])'
      PROVE  k \notin gone /\ parent[k] \notin gone /\ Resident(parent[k]) /\ parent[k] \in Runs
  <2>1. parent[k] \in Runs /\ Resident(parent[k]) /\ parent[k] \notin gone
    BY <1>1, <1>2, <1>3, <1>4 DEF Resident
  <2>2. parent[k] \in up[k] /\ up[k] = up[parent[k]] \cup {parent[k]}
    BY <1>4, <2>1 DEF DeliveryInv, Family
  <2>3. parent[k] # r /\ r \notin up[parent[k]]
    BY <2>1 DEF Subtree, TreeInv, Lineage
  <2>4. k \notin Subtree(r)
    BY <1>2, <2>2, <2>3 DEF Subtree
  <2> QED BY <2>1, <2>4
<1>5. \A k \in Runs : /\ k \notin gone => status'[k] = status[k] /\ pending'[k] = pending[k]
                      /\ k \in gone => status'[k] = "evicted" /\ pending'[k] = <<>>
  BY <1>2
<1> HIDE DEF gone
<1>6. Family'
  BY <1>1, <1>2, <1>4, <1>5 DEF DeliveryInv, Family
<1>7. \A q \in Runs : Delivered(q)'
  BY <1>2, <1>5, ElemsEmpty DEF DeliveryInv, Delivered, Over
<1>8. Settled'
  BY <1>2, <1>4, <1>5 DEF DeliveryInv, Settled
<1>9. NoLostWakeup'
  <2> SUFFICES ASSUME NEW p \in Runs, loop[p] = "draining", Resident(p)'
               PROVE  Outstanding(p)' # {} /\ pending'[p] = <<>> /\ ~aborted[p]
    BY <1>2 DEF NoLostWakeup
  <2>1. Resident(p) /\ p \notin gone
    BY <1>3
  <2>2. Outstanding(p) # {} /\ pending[p] = <<>> /\ ~aborted[p]
    BY <2>1 DEF DeliveryInv, NoLostWakeup
  <2>3. PICK k \in Kids : parent[k] = p /\ p \in up[k] /\ Active(k)
    BY <2>2 DEF Outstanding, Children
  <2>4. k \notin gone
    BY <1>1, <1>2, <1>4, <2>3 DEF Resident
  <2>5. k \in Outstanding(p)'
    BY <1>2, <1>5, <2>3, <2>4 DEF Outstanding, Children, Active
  <2> QED BY <1>5, <2>1, <2>2, <2>5
<1>10. Answered'
  BY <1>2, <1>4, <1>5 DEF DeliveryInv, Answered
<1> QED BY <1>6, <1>7, <1>8, <1>9, <1>10 DEF DeliveryInv

-----------------------------------------------------------------------------
\* A top-level run is created once.
LEMMA RootDelivery ==
  ASSUME RegInv, TreeInv, DeliveryInv, NEW c \in Callers, Begin(c) \/ Replace(c)
  PROVE  DeliveryInv'
<1>1. status[c] = "none"
  BY DEF Begin, Replace, RegInv, RunAfterRelease
<1>2. UNCHANGED <<parent, up, pending, got, aborted>>
  BY DEF Begin, Replace
<1>3. \E st \in Live : status' = [status EXCEPT ![c] = st]
  BY DEF Begin, Replace, CreateRoot
<1>4. \E x \in {"off", "busy"} : loop' = [loop EXCEPT ![c] = x]
  BY DEF Begin, Replace
<1>5. /\ status \in [Runs -> {"none", "evicted"} \cup Live \cup Terminal]
      /\ loop \in [Runs -> {"off", "busy", "draining", "failing", "answered", "stopped", "exhausted"}]
      /\ \A k \in Kids : k # c
  BY RunRegistryAssumption DEF TreeInv, TypeOK
<1>6. \A r \in Runs : r # c => status'[r] = status[r] /\ loop'[r] = loop[r]
  BY <1>3, <1>4, <1>5
<1>7. loop'[c] \in {"off", "busy"}
  BY <1>4, <1>5
<1>8. \A r \in Runs : loop[r] = "draining" /\ Resident(r) => ~aborted[r]
  BY DEF DeliveryInv, NoLostWakeup
<1> QED BY <1>1, <1>2, <1>5, <1>6, <1>7, <1>8, QuietDelivery

LEMMA DeliveryStep ==
  ASSUME RegInv, TreeInv, DeliveryInv, [Next]_vars
  PROVE  DeliveryInv'
<1>1. /\ loop \in [Runs -> {"off", "busy", "draining", "failing", "answered", "stopped", "exhausted"}]
      /\ index \in [Sessions -> Callers \cup {None}]
      /\ \A r \in Runs : loop[r] = "draining" /\ Resident(r) => ~aborted[r]
  BY DEF TreeInv, TypeOK, DeliveryInv, NoLostWakeup
<1>2. CASE UNCHANGED <<parent, up, pending, got, status, aborted, loop>>
  BY <1>1, <1>2, QuietDelivery
<1>3. ASSUME NEW c \in Callers, Request(c) \/ Granted(c)
      PROVE  UNCHANGED <<parent, up, pending, got, status, aborted, loop>>
  BY <1>3 DEF Request, Granted, regVars
<1>4. ASSUME NEW c \in Callers, Supersede(c) PROVE DeliveryInv'
  BY <1>4, AbortDelivery DEF Supersede
<1>5. ASSUME NEW r \in Runs, Cancel(r) PROVE DeliveryInv'
  BY <1>5, AbortDelivery DEF Cancel
<1>6. ASSUME NEW r \in Runs, StopsWithTools(r) \/ StepsExhausted(r) \/ DrainTimeout(r) \/ Abandon(r)
      PROVE  DeliveryInv'
  <2>1. UNCHANGED <<parent, up, pending, got, status, aborted>>
    BY <1>6 DEF StopsWithTools, StepsExhausted, DrainTimeout, Abandon
  <2>2. \A q \in Runs : loop'[q] \in {loop[q], "stopped", "exhausted", "failing", "off"}
    BY <1>1, <1>6 DEF StopsWithTools, StepsExhausted, DrainTimeout, Abandon
  <2> QED BY <1>1, <2>1, <2>2, QuietDelivery
<1>7. ASSUME NEW r \in Runs, Finish(r) PROVE DeliveryInv'
  <2>1. /\ \E o \in Terminal, lp \in {loop, [loop EXCEPT ![r] = "off"]} : Settle(r, o, lp)
        /\ UNCHANGED <<parent, up, got, aborted>>
    BY <1>7 DEF Finish, NotifyCompleted, NotifyFailed, ExecutorReturns, Notify, ErrorStatus
  <2> QED BY <2>1, SettleDelivery
<1>8. CASE UNCHANGED vars
  BY <1>2, <1>8 DEF vars, regVars
<1> QED BY <1>2, <1>3, <1>4, <1>5, <1>6, <1>7, <1>8, RootDelivery, TurnDelivery, SpawnDelivery,
           EvictDelivery
        DEF Next, CallerStep, LoopStep

LEMMA DeliveryInit == Init => DeliveryInv
<1> SUFFICES ASSUME Init PROVE DeliveryInv
  OBVIOUS
<1>1. /\ \A r \in Runs : parent[r] = None /\ loop[r] = "off"
      /\ \A r \in Runs : pending[r] = <<>> /\ got[r] = <<>>
  BY DEF Init
<1> QED BY <1>1, ElemsEmpty
        DEF DeliveryInv, Family, Delivered, Settled, NoLostWakeup, Answered

LEMMA DeliveryHolds == Spec => [](RegInv /\ TreeInv /\ DeliveryInv)
<1>1. RegInv /\ TreeInv /\ DeliveryInv /\ [Next]_vars => DeliveryInv'
  BY DeliveryStep
<1> QED BY <1>1, DeliveryInit, TreeHolds, RegistryAgrees, PTL DEF Spec

\* A settled child's result is queued for its parent or was collected by it, once;
\* invoke and the executor's return both report it, and the second report is void.
THEOREM ResultsDeliveredOnce == Spec => []DeliveredOnce
<1>1. TreeInv /\ DeliveryInv => DeliveredOnce
  <2> SUFFICES ASSUME TreeInv, DeliveryInv, NEW k \in Kids, parent[k] # None,
                      NEW n, n = Times(k, pending[parent[k]] \o got[parent[k]])
               PROVE  /\ n <= 1
                      /\ Active(k) => n = 0
                      /\ status[k] \in Terminal /\ Resident(parent[k]) => n = 1
    BY DEF DeliveredOnce
  <2> DEFINE s == pending[parent[k]] \o got[parent[k]]
  <2>1. /\ parent[k] \in Runs
        /\ pending[parent[k]] \in Seq(Runs) /\ got[parent[k]] \in Seq(Runs)
    BY DEF TreeInv, TypeOK
  <2>2. Delivered(parent[k])
    BY <2>1 DEF DeliveryInv
  <2>3. /\ s \in Seq(Runs) /\ Distinct(s)
        /\ Elems(s) = Elems(pending[parent[k]]) \cup Elems(got[parent[k]])
    BY <2>1, <2>2, ElemsConcat DEF Delivered
  <2>4. n = IF k \in Elems(s) THEN 1 ELSE 0
    BY <2>3, TimesIs
  <2>5. Active(k) => k \notin Elems(s)
    BY <2>2, <2>3 DEF Delivered, Over, Active
  <2>6. status[k] \in Terminal /\ Resident(parent[k]) => k \in Elems(s)
    BY <2>3 DEF DeliveryInv, Settled
  <2> HIDE DEF s
  <2> QED BY <2>4, <2>5, <2>6
<1> QED BY <1>1, DeliveryHolds, PTL

\* A loop that waits for a child has one outstanding, was not aborted, and has no
\* result it could have taken instead (awaitNextSettled, deliverToParent).
THEOREM NoWakeupLost == Spec => []NoLostWakeup
<1>1. DeliveryInv => NoLostWakeup
  BY DEF DeliveryInv
<1> QED BY <1>1, DeliveryHolds, PTL

\* A run that answers in a turn without tool calls has the result of every child it
\* spawned, once, whenever each of them settles.
THEOREM AnswersAreComplete == Spec => []DrainedAnswerIsComplete
<1>1. TreeInv /\ DeliveryInv => DrainedAnswerIsComplete
  <2> SUFFICES ASSUME TreeInv, DeliveryInv, NEW p \in Runs, loop[p] = "answered", Resident(p),
                      NEW k \in Kids, parent[k] = p
               PROVE  status[k] \in Terminal /\ Times(k, got[p]) = 1
    BY DEF DrainedAnswerIsComplete, CollectedAll
  <2>1. got[p] \in Seq(Runs) /\ p # None
    BY SessionLockAssumption, RunRegistryAssumption DEF TreeInv, TypeOK
  <2>2. status[k] \in Terminal /\ k \in Elems(got[p]) /\ Distinct(got[p])
    BY <2>1 DEF DeliveryInv, Answered, Delivered
  <2> QED BY <2>1, <2>2, TimesIs
<1> QED BY <1>1, DeliveryHolds, PTL

\* A settled run keeps its status until it is evicted: of two reports, the first
\* counts, and no name is given to two runs.
THEOREM TerminalStays == Spec => TerminalIsFinal
<1>1. RegInv /\ TreeInv /\ [Next]_vars =>
        \A r \in Runs : status[r] \in Terminal => status'[r] \in {status[r], "evicted"}
  <2> SUFFICES ASSUME RegInv, TreeInv, [Next]_vars, NEW r \in Runs, status[r] \in Terminal
               PROVE  status'[r] \in {status[r], "evicted"}
    OBVIOUS
  <2>1. status \in [Runs -> {"none", "evicted"} \cup Live \cup Terminal]
    BY DEF TreeInv, TypeOK
  <2>2. ASSUME NEW c \in Callers, Begin(c) \/ Replace(c) PROVE status'[r] = status[r]
    <3>1. status[c] = "none"
      BY <2>2 DEF Begin, Replace, RegInv, RunAfterRelease
    <3>2. \E st \in Live : status' = [status EXCEPT ![c] = st]
      BY <2>2 DEF Begin, Replace, CreateRoot
    <3> QED BY <2>1, <3>1, <3>2
  <2>3. ASSUME NEW p \in Runs, NEW k \in Kids, Spawn(p, k) PROVE status'[r] = status[r]
    BY <2>1, <2>3 DEF Spawn
  <2>4. ASSUME NEW q \in Runs, Finish(q) PROVE status'[r] = status[r]
    <3>1. \E o, lp : Settle(q, o, lp)
      BY <2>4 DEF Finish, NotifyCompleted, NotifyFailed, ExecutorReturns, Notify
    <3> QED BY <2>1, <3>1 DEF Settle, Active
  <2>5. ASSUME NEW q \in Runs, EvictSubtree(q) PROVE status'[r] \in {status[r], "evicted"}
    BY <2>1, <2>5 DEF EvictSubtree
  <2>6. ASSUME NEW c \in Callers, Request(c) \/ Granted(c) \/ Supersede(c) \/ Abandon(c)
        PROVE  UNCHANGED status
    BY <2>6 DEF Request, Granted, Supersede, Abandon, regVars
  <2>7. ASSUME NEW q \in Runs, \/ Inject(q) \/ TurnEnd(q) \/ StopsWithTools(q) \/ StepsExhausted(q)
                               \/ DrainTimeout(q) \/ Cancel(q)
        PROVE  UNCHANGED status
    BY <2>7 DEF Inject, TurnEnd, StopsWithTools, StepsExhausted, DrainTimeout, Cancel
  <2>8. CASE UNCHANGED vars
    BY <2>8 DEF vars, regVars
  <2> QED BY <2>2, <2>3, <2>4, <2>5, <2>6, <2>7, <2>8 DEF Next, CallerStep, LoopStep
<1>2. [](RegInv /\ TreeInv) /\ [][Next]_vars => TerminalIsFinal
  BY <1>1, PTL DEF TerminalIsFinal
<1> QED BY <1>2, DeliveryHolds, PTL DEF Spec
=============================================================================
