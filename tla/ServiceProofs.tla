--------------------------- MODULE ServiceProofs ----------------------------
(* Proofs about two services of the worker that keep their state in memory:    *)
(* the token that HTTP tool calls share, and the live traces, for any number   *)
(* of calls, tokens, spans and viewers.                                         *)
EXTENDS TokenResolver, TraceLive, Integers, FiniteSetTheorems, SequenceTheorems, TLAPS

-----------------------------------------------------------------------------
(* TokenResolver: at most one fetch is under way, the one that callers join; a *)
(* refused token was fetched before, so no later fetch yields it again.         *)

FetchStates == {"none", "fetching", "done", "failed"}
CallSteps == {"lookup", "looked", "waiting", "request", "invalidate", "answered", "error"}

TokenTypes ==
  /\ cached \in 0 .. MaxTokens /\ inflight \in 0 .. MaxTokens
  /\ fetching \in [Fetches -> FetchStates]
  /\ call \in [ToolCalls -> CallSteps]
  /\ used \in [ToolCalls -> 0 .. MaxTokens]
  /\ refused \in [ToolCalls -> 0 .. MaxTokens]
  /\ retries \in [ToolCalls -> {0, 1}]

\* Fetches are numbered in the order in which they begin.
Numbered == \E k \in 0 .. MaxTokens : Fetched = 1 .. k

\* The token was fetched.
Got(n) == n \in Fetches /\ fetching[n] = "done"

CallHasToken(c) ==
  /\ call[c] = "looked" /\ used[c] # 0 => Got(used[c])
  /\ call[c] = "waiting" => used[c] \in Fetched
  /\ call[c] = "request" => Got(used[c])
  /\ refused[c] # 0 => Got(refused[c])
  /\ call[c] = "invalidate" \/ retries[c] = 1 => refused[c] # 0

\* What a second attempt may come by is not the token that was refused.
SecondAttempt(c) ==
  retries[c] = 1 =>
    /\ call[c] \in {"lookup", "looked", "waiting", "request"} => cached # refused[c]
    /\ call[c] \in {"looked", "waiting", "request"} => used[c] # refused[c]

TokenInv ==
  /\ TokenTypes
  /\ Numbered
  /\ inflight # 0 => fetching[inflight] = "fetching"
  /\ \A n \in Fetches : fetching[n] = "fetching" => n = inflight
  /\ cached # 0 => Got(cached)
  /\ \A c \in ToolCalls : CallHasToken(c) /\ SecondAttempt(c)

LEMMA TokenInvInit == TokenInit => TokenInv
  <1> SUFFICES ASSUME TokenInit PROVE TokenInv
    OBVIOUS
  <1> USE TokenAssumption DEF TokenInit
  <1>1. TokenTypes
    BY DEF TokenTypes, FetchStates, CallSteps
  <1>2. Numbered
    <2>1. Fetched = {}
      BY DEF Fetched
    <2>2. 1 .. 0 = {} /\ 0 \in 0 .. MaxTokens
      OBVIOUS
    <2> QED
      BY <2>1, <2>2 DEF Numbered
  <1> QED
    BY <1>1, <1>2 DEF TokenInv, CallHasToken, SecondAttempt

\* A call that does not move keeps what it has, unless the cache gets a token that
\* was there before.
LEMMA OtherCall ==
  ASSUME TokenInv, NEW d \in ToolCalls, call'[d] = call[d], used'[d] = used[d],
         refused'[d] = refused[d], retries'[d] = retries[d],
         \A n \in Fetches : fetching[n] = "done" => fetching'[n] = "done",
         Fetched \subseteq Fetched',
         cached' \in {0, cached} \/ (cached' \in Fetches /\ fetching[cached'] # "done")
  PROVE  CallHasToken(d)' /\ SecondAttempt(d)'
  <1>1. CallHasToken(d) /\ SecondAttempt(d)
    BY DEF TokenInv
  <1>2. \A n : Got(n) => Got(n)'
    BY DEF Got
  <1>3. CallHasToken(d)'
    <2>1. (call[d] = "looked" /\ used[d] # 0 => Got(used[d]))'
      BY <1>1, <1>2 DEF CallHasToken, Got
    <2>2. (call[d] = "waiting" => used[d] \in Fetched)'
      BY <1>1 DEF CallHasToken
    <2>3. (call[d] = "request" => Got(used[d]))'
      BY <1>1, <1>2 DEF CallHasToken, Got
    <2>4. (refused[d] # 0 => Got(refused[d]))'
      BY <1>1, <1>2 DEF CallHasToken, Got
    <2> QED
      BY <2>1, <2>2, <2>3, <2>4, <1>1 DEF CallHasToken
  <1>4. SecondAttempt(d)'
    BY <1>1 DEF CallHasToken, SecondAttempt, Got
  <1> QED
    BY <1>3, <1>4

\* A step of a call that leaves cache and fetches as they are.
LEMMA CallStep ==
  ASSUME TokenInv, NEW c \in ToolCalls, UNCHANGED <<inflight, fetching>>,
         cached' \in {0, cached}, TokenTypes',
         \A d \in ToolCalls \ {c} : call'[d] = call[d] /\ used'[d] = used[d]
                                   /\ refused'[d] = refused[d] /\ retries'[d] = retries[d],
         CallHasToken(c)', SecondAttempt(c)'
  PROVE  TokenInv'
  <1>1. Fetched' = Fetched
    BY DEF Fetched
  <1>2. \A d \in ToolCalls : CallHasToken(d)' /\ SecondAttempt(d)'
    BY <1>1, OtherCall
  <1>3. Numbered'
    BY <1>1 DEF TokenInv, Numbered
  <1>4. (cached # 0 => Got(cached))'
    BY DEF TokenInv, Got
  <1> QED
    BY <1>2, <1>3, <1>4 DEF TokenInv

\* A new fetch, which yields a token that nobody was refused.
LEMMA NewFetch ==
  ASSUME TokenInv, NEW c \in ToolCalls, call[c] = "looked", used[c] = 0, inflight = 0,
         Cardinality(Fetched) < MaxTokens,
         inflight' = Cardinality(Fetched) + 1,
         fetching' = [fetching EXCEPT ![inflight'] = "fetching"],
         call' = [call EXCEPT ![c] = "waiting"],
         used' = [used EXCEPT ![c] = inflight'],
         UNCHANGED <<cached, refused, retries>>
  PROVE  TokenInv'
  <1>1. PICK k \in 0 .. MaxTokens : Fetched = 1 .. k
    BY DEF TokenInv, Numbered
  <1> DEFINE n == k + 1
  <1>2. Cardinality(Fetched) = k
    <2>1. Cardinality(1 .. k) = IF 1 > k THEN 0 ELSE k - 1 + 1
      BY FS_Interval
    <2> QED
      BY <1>1, <2>1
  <1>3. inflight' = n /\ n \in Fetches /\ n # 0 /\ n \notin Fetched
    BY <1>1, <1>2, TokenAssumption DEF Fetches
  <1>4. fetching[n] = "none"
    BY <1>3 DEF Fetched
  <1> HIDE DEF n
  <1>5. TokenTypes
    BY DEF TokenInv
  <1>6. /\ fetching' \in [Fetches -> FetchStates] /\ fetching'[n] = "fetching"
        /\ \A m \in Fetches \ {n} : fetching'[m] = fetching[m]
    BY <1>3, <1>5 DEF TokenTypes, FetchStates
  <1>7. TokenTypes'
    BY <1>3, <1>5, <1>6, TokenAssumption DEF TokenTypes, CallSteps, Fetches
  <1>8. Fetched' = Fetched \cup {n}
    BY <1>3, <1>6 DEF Fetched
  <1>9. Numbered'
    <2>1. Fetched' = 1 .. k + 1 /\ k + 1 \in 0 .. MaxTokens
      BY <1>1, <1>2, <1>8, TokenAssumption DEF n
    <2> QED
      BY <2>1 DEF Numbered
  <1>10. \A m : Got(m) => Got(m)' /\ m # n
    BY <1>4, <1>6 DEF Got
  <1>11. /\ call'[c] = "waiting" /\ used'[c] = n
         /\ \A d \in ToolCalls \ {c} : call'[d] = call[d] /\ used'[d] = used[d]
    BY <1>3, <1>5 DEF TokenTypes
  <1>12. CallHasToken(c) /\ SecondAttempt(c)
    BY DEF TokenInv
  <1>13. (refused[c] # 0 => Got(refused[c]))'
    BY <1>10, <1>12 DEF CallHasToken, Got
  <1>14. CallHasToken(c)'
    BY <1>8, <1>11, <1>12, <1>13 DEF CallHasToken
  <1>15. SecondAttempt(c)'
    BY <1>10, <1>11, <1>12 DEF CallHasToken, SecondAttempt
  <1>16. \A d \in ToolCalls \ {c} : CallHasToken(d)' /\ SecondAttempt(d)'
    BY <1>6, <1>4, <1>8, <1>11, OtherCall
  <1>17. (\A m \in Fetches : fetching[m] = "fetching" => m = inflight)'
    BY <1>3, <1>6 DEF TokenInv, Fetches
  <1>18. (cached # 0 => Got(cached))'
    BY <1>10 DEF TokenInv, Got
  <1> QED
    BY <1>3, <1>6, <1>7, <1>9, <1>14, <1>15, <1>16, <1>17, <1>18 DEF TokenInv

LEMMA FetchEndsKeeps ==
  ASSUME TokenInv, NEW n \in Fetches, NEW ok \in BOOLEAN, FetchEnds(n, ok)
  PROVE  TokenInv'
  <1>1. /\ TokenTypes /\ fetching[n] = "fetching" /\ n = inflight
        /\ inflight' = 0 /\ UNCHANGED <<call, used, refused, retries>>
    BY DEF TokenInv, FetchEnds
  <1>2. /\ fetching'[n] = (IF ok THEN "done" ELSE "failed")
        /\ \A m \in Fetches \ {n} : fetching'[m] = fetching[m]
        /\ fetching' \in [Fetches -> FetchStates]
    BY <1>1 DEF FetchEnds, TokenTypes, FetchStates
  <1>3. cached' = (IF ok THEN n ELSE cached)
    BY DEF FetchEnds
  <1>4. Fetched' = Fetched
    BY <1>1, <1>2 DEF Fetched
  <1>5. TokenTypes'
    BY <1>1, <1>2, <1>3, TokenAssumption DEF TokenTypes, Fetches
  <1>6. Numbered'
    BY <1>4 DEF TokenInv, Numbered
  <1>7. \A m \in Fetches : fetching[m] = "done" => fetching'[m] = "done"
    BY <1>1, <1>2
  <1>8. \A d \in ToolCalls : CallHasToken(d)' /\ SecondAttempt(d)'
    BY <1>1, <1>3, <1>4, <1>7, OtherCall
  <1>9. (cached # 0 => Got(cached))'
    BY <1>2, <1>3, <1>7 DEF TokenInv, Got
  <1>10. \A m \in Fetches : fetching'[m] # "fetching"
    BY <1>1, <1>2 DEF TokenInv
  <1> QED
    BY <1>1, <1>5, <1>6, <1>8, <1>9, <1>10 DEF TokenInv

LEMMA TokenInvStep ==
  ASSUME TokenInv, [TokenNext]_tokenVars
  PROVE  TokenInv'
  <1>1. TokenTypes
    BY DEF TokenInv
  <1>2. ASSUME NEW c \in ToolCalls, CacheGet(c) PROVE TokenInv'
    <2>1. /\ call[c] = "lookup" /\ call'[c] = "looked" /\ used'[c] = cached
          /\ \A d \in ToolCalls \ {c} : call'[d] = call[d] /\ used'[d] = used[d]
          /\ UNCHANGED <<cached, inflight, fetching, refused, retries>>
      BY <1>1, <1>2 DEF TokenTypes, CacheGet, Step
    <2>2. TokenTypes'
      BY <1>1, <1>2 DEF TokenTypes, CacheGet, Step, CallSteps
    <2>3. CallHasToken(c) /\ SecondAttempt(c) /\ (cached # 0 => Got(cached))
      BY DEF TokenInv
    <2>4. CallHasToken(c)'
      BY <2>1, <2>3 DEF CallHasToken, Got
    <2>5. SecondAttempt(c)'
      BY <2>1, <2>3 DEF SecondAttempt
    <2> QED
      BY <2>1, <2>2, <2>4, <2>5, CallStep
  <1>3. ASSUME NEW c \in ToolCalls, Resolve(c) PROVE TokenInv'
    <2>1. call[c] = "looked" /\ CallHasToken(c) /\ SecondAttempt(c)
      BY <1>3 DEF TokenInv, Resolve
    <2>2. CASE used[c] # 0
      <3>1. /\ call'[c] = "request" /\ \A d \in ToolCalls \ {c} : call'[d] = call[d]
            /\ UNCHANGED <<cached, inflight, fetching, used, refused, retries>>
        BY <1>1, <1>3, <2>2 DEF TokenTypes, Resolve, Step
      <3>2. TokenTypes'
        BY <1>1, <1>3, <2>2 DEF TokenTypes, Resolve, Step, CallSteps
      <3>3. CallHasToken(c)' /\ SecondAttempt(c)'
        BY <2>1, <2>2, <3>1 DEF CallHasToken, SecondAttempt, Got
      <3> QED
        BY <3>1, <3>2, <3>3, CallStep
    <2>3. CASE used[c] = 0 /\ inflight # 0
      <3>1. /\ call'[c] = "waiting" /\ used'[c] = inflight
            /\ \A d \in ToolCalls \ {c} : call'[d] = call[d] /\ used'[d] = used[d]
            /\ UNCHANGED <<cached, inflight, fetching, refused, retries>>
        BY <1>1, <1>3, <2>3 DEF TokenTypes, Resolve, Step
      <3>2. TokenTypes'
        BY <1>1, <1>3, <2>3 DEF TokenTypes, Resolve, Step, CallSteps
      <3>3. inflight \in Fetches /\ fetching[inflight] = "fetching"
        BY <1>1, <2>3, TokenAssumption DEF TokenInv, TokenTypes, Fetches
      <3>4. CallHasToken(c)'
        BY <2>1, <3>1, <3>3 DEF CallHasToken, Got, Fetched
      <3>5. SecondAttempt(c)'
        BY <2>1, <3>1, <3>3 DEF CallHasToken, SecondAttempt, Got
      <3> QED
        BY <3>1, <3>2, <3>4, <3>5, CallStep
    <2>4. CASE used[c] = 0 /\ inflight = 0
      BY <1>3, <2>1, <2>4, NewFetch DEF Resolve, Step
    <2> QED
      BY <2>2, <2>3, <2>4
  <1>4. ASSUME NEW c \in ToolCalls, Join(c) PROVE TokenInv'
    <2>1. /\ call[c] = "waiting" /\ CallHasToken(c) /\ SecondAttempt(c)
          /\ fetching[used[c]] \in {"done", "failed"}
          /\ call'[c] = (IF fetching[used[c]] = "failed" THEN "error" ELSE "request")
          /\ \A d \in ToolCalls \ {c} : call'[d] = call[d]
          /\ UNCHANGED <<cached, inflight, fetching, used, refused, retries>>
      BY <1>1, <1>4 DEF TokenInv, TokenTypes, Join, Step
    <2>2. TokenTypes'
      BY <1>1, <1>4 DEF TokenTypes, Join, Step, CallSteps
    <2>3. CallHasToken(c)' /\ SecondAttempt(c)'
      BY <2>1 DEF CallHasToken, SecondAttempt, Got, Fetched
    <2> QED
      BY <2>1, <2>2, <2>3, CallStep
  <1>5. ASSUME NEW c \in ToolCalls, Invalidate(c) PROVE TokenInv'
    <2>1. /\ call[c] = "invalidate" /\ CallHasToken(c)
          /\ call'[c] = "lookup" /\ cached' = 0 /\ retries'[c] = 1
          /\ \A d \in ToolCalls \ {c} : call'[d] = call[d] /\ retries'[d] = retries[d]
          /\ UNCHANGED <<inflight, fetching, used, refused>>
      BY <1>1, <1>5 DEF TokenInv, TokenTypes, Invalidate, Step
    <2>2. TokenTypes'
      BY <1>1, <1>5, TokenAssumption DEF TokenTypes, Invalidate, Step, CallSteps
    <2>3. CallHasToken(c)' /\ SecondAttempt(c)'
      BY <2>1 DEF CallHasToken, SecondAttempt, Got
    <2> QED
      BY <2>1, <2>2, <2>3, CallStep
  <1>6. ASSUME NEW c \in ToolCalls, NEW refusal \in BOOLEAN, Answered(c, refusal) PROVE TokenInv'
    <2>1. /\ call[c] = "request" /\ CallHasToken(c) /\ SecondAttempt(c)
          /\ call'[c] = (IF refusal /\ retries[c] = 0 THEN "invalidate" ELSE "answered")
          /\ refused'[c] = (IF refusal THEN used[c] ELSE refused[c])
          /\ \A d \in ToolCalls \ {c} : call'[d] = call[d] /\ refused'[d] = refused[d]
          /\ UNCHANGED <<cached, inflight, fetching, used, retries>>
      BY <1>1, <1>6 DEF TokenInv, TokenTypes, Answered, Step
    <2>2. TokenTypes'
      BY <1>1, <1>6 DEF TokenTypes, Answered, Step, CallSteps
    <2>3. Got(used[c]) /\ used[c] # 0
      BY <2>1, TokenAssumption DEF CallHasToken, Got, Fetches
    <2>4. CallHasToken(c)' /\ SecondAttempt(c)'
      BY <2>1, <2>3 DEF CallHasToken, SecondAttempt, Got
    <2> QED
      BY <2>1, <2>2, <2>4, CallStep
  <1>7. ASSUME Expire \/ UNCHANGED tokenVars PROVE TokenInv'
    <2>1. cached' \in {0, cached} /\ UNCHANGED <<inflight, fetching, call, used, refused, retries>>
      BY <1>7 DEF Expire, tokenVars
    <2>2. TokenTypes'
      BY <1>1, <2>1, TokenAssumption DEF TokenTypes
    <2>3. Fetched' = Fetched
      BY <2>1 DEF Fetched
    <2>4. \A d \in ToolCalls : CallHasToken(d)' /\ SecondAttempt(d)'
      BY <2>1, <2>3, OtherCall
    <2>5. Numbered'
      BY <2>3 DEF TokenInv, Numbered
    <2> QED
      BY <2>1, <2>2, <2>4, <2>5 DEF TokenInv, Got
  <1> QED
    BY <1>2, <1>3, <1>4, <1>5, <1>6, <1>7, FetchEndsKeeps DEF TokenNext

\* Calls share the fetch that is under way, and a second attempt never sends the
\* token that the first was refused with, for any number of calls and tokens and
\* however the cache expires (the token resolver and the retry of the HTTP tools).
THEOREM TokensAreShared == TokenSpec => []TokensHold
  <1>1. TokenInv => TokensHold
    <2> SUFFICES ASSUME TokenInv PROVE OneFetch /\ RetryIsFresh
      BY DEF TokensHold
    <2> DEFINE going == {n \in Fetches : fetching[n] = "fetching"}
    <2>1. going \subseteq {inflight}
      BY DEF TokenInv
    <2>2. IsFiniteSet({inflight}) /\ Cardinality({inflight}) = 1
      BY FS_Singleton
    <2>3. Cardinality(going) <= 1
      BY <2>1, <2>2, FS_Subset
    <2>4. RetryIsFresh
      BY DEF TokenInv, SecondAttempt, RetryIsFresh
    <2> QED
      BY <2>3, <2>4 DEF OneFetch
  <1> QED
    BY <1>1, TokenInvInit, TokenInvStep, PTL DEF TokenSpec

-----------------------------------------------------------------------------
(* TraceLive: what a viewer has read and will read are the events from where   *)
(* it came up to the last one, or up to the trace's end if it was dismissed.    *)

Events == {[start |-> s] : s \in Spans} \cup {[end |-> s] : s \in Spans} \cup {[done |-> "trace"]}

ViewerTypes ==
  /\ sent \in Seq(Events)
  /\ viewer \in [Viewers -> {"idle", "live", "snapshot", "unknown", "closed", "ended"}]
  /\ from \in [Viewers -> Nat]
  /\ liveQueue \in [Viewers -> Seq(Events)]
  /\ shown \in [Viewers -> Seq(Events)]

\* What was read, s, and what is queued, q, are the events of t after the f-th as far
\* as the n-th.
Covers(s, q, t, f, n) ==
  /\ n <= Len(t)
  /\ Len(s) + Len(q) = n - f
  /\ \A i \in 1 .. Len(s) : s[i] = t[f + i]
  /\ \A i \in 1 .. Len(q) : q[i] = t[f + Len(s) + i]

Sees(v, n) == Covers(shown[v], liveQueue[v], sent, from[v], n)

ViewerHolds(v) ==
  /\ viewer[v] = "idle" => shown[v] = <<>> /\ liveQueue[v] = <<>>
  /\ viewer[v] = "live" => Sees(v, Len(sent))
  /\ viewer[v] \in {"closed", "ended"} =>
       \E n \in 1 .. Len(sent) : n > from[v] /\ Sees(v, n) /\ sent[n] = [done |-> "trace"]

ViewerInv == ViewerTypes /\ \A v \in Viewers : ViewerHolds(v)

LEMMA ViewerInvInit == TraceInit => ViewerInv
  <1> SUFFICES ASSUME TraceInit PROVE ViewerInv
    OBVIOUS
  <1>1. ViewerTypes
    BY DEF TraceInit, ViewerTypes
  <1> QED
    BY <1>1 DEF TraceInit, ViewerInv, ViewerHolds

\* What was sent stays as it is when an event is added.
LEMMA CoversMore ==
  ASSUME NEW S, NEW s \in Seq(S), NEW q \in Seq(S), NEW t \in Seq(S), NEW e \in S,
         NEW f \in Nat, NEW n \in Nat, Covers(s, q, t, f, n)
  PROVE  Covers(s, q, Append(t, e), f, n)
  <1>1. /\ Len(Append(t, e)) = Len(t) + 1
        /\ \A i \in 1 .. Len(t) : Append(t, e)[i] = t[i]
    BY AppendProperties
  <1> DEFINE u == Append(t, e)
  <1> HIDE DEF u
  <1>2. PICK a \in Nat, b \in Nat, c \in Nat : a = Len(s) /\ b = Len(q) /\ c = Len(t)
    OBVIOUS
  <1>3. /\ n <= c /\ a + b = n - f
        /\ \A i \in 1 .. a : s[i] = t[f + i]
        /\ \A i \in 1 .. b : q[i] = t[f + a + i]
    BY <1>2 DEF Covers
  <1>4. /\ \A i \in 1 .. a : f + i \in 1 .. c
        /\ \A i \in 1 .. b : f + a + i \in 1 .. c
    BY <1>2, <1>3
  <1>5. Len(u) = c + 1 /\ \A i \in 1 .. c : u[i] = t[i]
    BY <1>1, <1>2 DEF u
  <1>6. /\ n <= c + 1
        /\ \A i \in 1 .. a : s[i] = u[f + i]
        /\ \A i \in 1 .. b : q[i] = u[f + a + i]
    BY <1>3, <1>4, <1>5
  <1>7. Covers(s, q, u, f, n)
    BY <1>2, <1>3, <1>5, <1>6 DEF Covers
  <1> QED
    BY <1>7 DEF u

\* An event that is sent and queued is covered.
LEMMA CoversNext ==
  ASSUME NEW S, NEW s \in Seq(S), NEW q \in Seq(S), NEW t \in Seq(S), NEW e \in S,
         NEW f \in Nat, Covers(s, q, t, f, Len(t))
  PROVE  Covers(s, Append(q, e), Append(t, e), f, Len(t) + 1) /\ Len(t) + 1 > f
  <1>1. /\ Len(Append(t, e)) = Len(t) + 1 /\ Append(t, e)[Len(t) + 1] = e
        /\ \A i \in 1 .. Len(t) : Append(t, e)[i] = t[i]
        /\ Len(Append(q, e)) = Len(q) + 1 /\ Append(q, e)[Len(q) + 1] = e
        /\ \A i \in 1 .. Len(q) : Append(q, e)[i] = q[i]
    BY AppendProperties
  <1> DEFINE u == Append(t, e)
             r == Append(q, e)
  <1> HIDE DEF u, r
  <1>2. PICK a \in Nat, b \in Nat, c \in Nat : a = Len(s) /\ b = Len(q) /\ c = Len(t)
    OBVIOUS
  <1>3. /\ a + b = c - f
        /\ \A i \in 1 .. a : s[i] = t[f + i]
        /\ \A i \in 1 .. b : q[i] = t[f + a + i]
    BY <1>2 DEF Covers
  <1>4. /\ \A i \in 1 .. a : f + i \in 1 .. c
        /\ \A i \in 1 .. b : f + a + i \in 1 .. c
        /\ f + a + (b + 1) = c + 1
    BY <1>3
  <1>5. /\ Len(u) = c + 1 /\ u[c + 1] = e /\ \A i \in 1 .. c : u[i] = t[i]
        /\ Len(r) = b + 1 /\ r[b + 1] = e /\ \A i \in 1 .. b : r[i] = q[i]
    BY <1>1, <1>2 DEF u, r
  <1>6. \A i \in 1 .. a : s[i] = u[f + i]
    BY <1>3, <1>4, <1>5
  <1>7. \A i \in 1 .. b : r[i] = u[f + a + i]
    BY <1>3, <1>4, <1>5
  <1>8. \A i \in 1 .. b + 1 : i = b + 1 \/ i \in 1 .. b
    OBVIOUS
  <1>9. \A i \in 1 .. b + 1 : r[i] = u[f + a + i]
    BY <1>4, <1>5, <1>7, <1>8
  <1>10. c + 1 <= Len(u) /\ a + (b + 1) = (c + 1) - f /\ c + 1 > f
    BY <1>3, <1>5
  <1>11. Covers(s, r, u, f, c + 1)
    BY <1>2, <1>5, <1>6, <1>9, <1>10 DEF Covers
  <1> QED
    BY <1>2, <1>10, <1>11 DEF u, r

\* So is one that is read.
LEMMA CoversRead ==
  ASSUME NEW S, NEW s \in Seq(S), NEW q \in Seq(S), NEW t \in Seq(S),
         NEW f \in Nat, NEW n \in Nat, Covers(s, q, t, f, n), q # <<>>
  PROVE  Covers(Append(s, Head(q)), Tail(q), t, f, n)
  <1> DEFINE e == Head(q)
             r == Append(s, e)
             u == Tail(q)
  <1>1. /\ e \in S /\ e = q[1] /\ Len(u) = Len(q) - 1 /\ Len(q) \in Nat \ {0}
        /\ \A i \in 1 .. Len(u) : u[i] = q[i + 1]
    BY HeadTailProperties
  <1> HIDE DEF e, u
  <1>2. /\ Len(r) = Len(s) + 1 /\ r[Len(s) + 1] = e /\ \A i \in 1 .. Len(s) : r[i] = s[i]
    BY <1>1, AppendProperties
  <1> HIDE DEF r
  <1>3. PICK a \in Nat, b \in Nat \ {0}, c \in Nat : a = Len(s) /\ b = Len(q) /\ c = Len(t)
    BY <1>1
  <1>4. /\ n <= c /\ a + b = n - f
        /\ \A i \in 1 .. a : s[i] = t[f + i]
        /\ \A i \in 1 .. b : q[i] = t[f + a + i]
    BY <1>3 DEF Covers
  <1>5. /\ Len(r) = a + 1 /\ r[a + 1] = q[1] /\ \A i \in 1 .. a : r[i] = s[i]
        /\ Len(u) = b - 1 /\ \A i \in 1 .. b - 1 : u[i] = q[i + 1]
    BY <1>1, <1>2, <1>3
  <1>6. /\ \A i \in 1 .. a + 1 : i = a + 1 \/ i \in 1 .. a
        /\ \A i \in 1 .. b - 1 : i + 1 \in 1 .. b /\ f + (a + 1) + i = f + a + (i + 1)
        /\ 1 \in 1 .. b /\ f + a + 1 = f + (a + 1) /\ (a + 1) + (b - 1) = a + b
    OBVIOUS
  <1>7. q[1] = t[f + (a + 1)]
    BY <1>4, <1>6
  <1>8. \A i \in 1 .. a + 1 : r[i] = t[f + i]
    BY <1>4, <1>5, <1>6, <1>7
  <1>9. \A i \in 1 .. b - 1 : u[i] = t[f + (a + 1) + i]
    BY <1>4, <1>5, <1>6
  <1>10. Covers(r, u, t, f, n)
    BY <1>3, <1>4, <1>5, <1>6, <1>8, <1>9 DEF Covers
  <1> QED
    BY <1>10 DEF e, r, u

\* An event goes out; with the last one those who were live are dismissed.
LEMMA BroadcastKeeps ==
  ASSUME ViewerInv, NEW event \in Events, Broadcast(event), UNCHANGED <<from, shown>>,
         \/ UNCHANGED viewer
         \/ /\ viewer' = [v \in Viewers |-> IF v \in Subscribed THEN "closed" ELSE viewer[v]]
            /\ event = [done |-> "trace"]
  PROVE  ViewerInv'
  <1>1. /\ ViewerTypes /\ sent' = Append(sent, event)
        /\ \A v \in Viewers : liveQueue'[v] = (IF v \in Subscribed THEN Append(liveQueue[v], event)
                                              ELSE liveQueue[v])
    BY DEF ViewerInv, Broadcast
  <1>2. ViewerTypes'
    <2>1. sent' \in Seq(Events)
      BY <1>1, AppendProperties DEF ViewerTypes
    <2>2. \A v \in Viewers : Append(liveQueue[v], event) \in Seq(Events) /\ liveQueue[v] \in Seq(Events)
      BY <1>1, AppendProperties DEF ViewerTypes
    <2>3. liveQueue' \in [Viewers -> Seq(Events)]
      BY <2>2 DEF Broadcast
    <2>4. viewer' \in [Viewers -> {"idle", "live", "snapshot", "unknown", "closed", "ended"}]
      BY <1>1 DEF ViewerTypes
    <2> QED
      BY <2>1, <2>3, <2>4, <1>1 DEF ViewerTypes
  <1>3. ASSUME NEW v \in Viewers PROVE ViewerHolds(v)'
    <2>1. ViewerHolds(v) /\ viewer[v] \in {"idle", "live", "snapshot", "unknown", "closed", "ended"}
      BY <1>1 DEF ViewerInv, ViewerTypes
    <2>2. CASE viewer[v] = "live"
      <3>1. /\ Sees(v, Len(sent)) /\ liveQueue'[v] = Append(liveQueue[v], event)
            /\ viewer'[v] = "live" \/ (viewer'[v] = "closed" /\ event = [done |-> "trace"])
        BY <2>1, <2>2, <1>1 DEF ViewerHolds, Subscribed
      <3>2. /\ sent \in Seq(Events) /\ from[v] \in Nat
            /\ liveQueue[v] \in Seq(Events) /\ shown[v] \in Seq(Events)
        BY <1>1 DEF ViewerTypes
      <3>3. /\ Covers(shown[v], Append(liveQueue[v], event), Append(sent, event), from[v], Len(sent) + 1)
            /\ Len(sent) + 1 > from[v]
        BY <3>1, <3>2, CoversNext DEF Sees
      <3>4. Len(sent') = Len(sent) + 1 /\ sent'[Len(sent) + 1] = event
        BY <3>2, <1>1, AppendProperties
      <3>5. Len(sent') \in 1 .. Len(sent')
        BY <3>2, <3>4
      <3>6. Sees(v, Len(sent))' /\ Len(sent') > from[v] /\ sent'[Len(sent')] = event
        BY <3>1, <3>3, <3>4, <1>1 DEF Sees
      <3> QED
        BY <3>1, <3>5, <3>6 DEF ViewerHolds
    <2>3. CASE viewer[v] # "live"
      <3>1. viewer'[v] = viewer[v] /\ liveQueue'[v] = liveQueue[v]
        BY <2>3, <1>1 DEF Subscribed
      <3>2. CASE viewer[v] \in {"closed", "ended"}
        <4>1. PICK n \in 1 .. Len(sent) : n > from[v] /\ Sees(v, n) /\ sent[n] = [done |-> "trace"]
          BY <2>1, <3>2 DEF ViewerHolds
        <4>2. /\ sent \in Seq(Events) /\ from[v] \in Nat
              /\ liveQueue[v] \in Seq(Events) /\ shown[v] \in Seq(Events)
          BY <1>1 DEF ViewerTypes
        <4>3. sent'[n] = sent[n] /\ n \in 1 .. Len(sent') /\ n \in Nat
          BY <4>2, <1>1, AppendProperties
        <4>4. Covers(shown[v], liveQueue[v], Append(sent, event), from[v], n)
          BY <4>1, <4>2, <4>3, CoversMore DEF Sees
        <4>5. Sees(v, n)'
          BY <4>4, <3>1, <1>1 DEF Sees
        <4> QED
          BY <4>1, <4>3, <4>5, <3>1, <3>2 DEF ViewerHolds
      <3>3. CASE viewer[v] \notin {"closed", "ended"}
        BY <2>1, <2>3, <3>1, <3>3 DEF ViewerHolds
      <3> QED
        BY <3>2, <3>3
    <2> QED
      BY <2>2, <2>3
  <1> QED
    BY <1>2, <1>3 DEF ViewerInv

LEMMA ViewKeeps ==
  ASSUME ViewerInv, NEW v \in Viewers, View(v)
  PROVE  ViewerInv'
  <1>1. ViewerTypes /\ viewer[v] = "idle" /\ UNCHANGED <<sent, liveQueue, shown>>
    BY DEF ViewerInv, View
  <1>2. /\ viewer'[v] \in {"live", "snapshot", "unknown"} /\ from'[v] = Len(sent)
        /\ \A w \in Viewers \ {v} : viewer'[w] = viewer[w] /\ from'[w] = from[w]
    BY <1>1 DEF ViewerTypes, View
  <1>3. ViewerTypes'
    <2>1. Len(sent) \in Nat
      BY <1>1 DEF ViewerTypes
    <2>2. from' \in [Viewers -> Nat]
      BY <2>1, <1>1 DEF View, ViewerTypes
    <2>3. viewer' \in [Viewers -> {"idle", "live", "snapshot", "unknown", "closed", "ended"}]
      BY <1>1 DEF View, ViewerTypes
    <2> QED
      BY <2>2, <2>3, <1>1 DEF ViewerTypes
  <1>4. ViewerHolds(v)'
    <2>1. shown[v] = <<>> /\ liveQueue[v] = <<>> /\ Len(sent) \in Nat
      BY <1>1 DEF ViewerInv, ViewerHolds, ViewerTypes
    <2>2. Sees(v, Len(sent))'
      <3>1. Covers(<<>>, <<>>, sent, Len(sent), Len(sent))
        BY <2>1 DEF Covers
      <3> QED
        BY <3>1, <2>1, <1>1, <1>2 DEF Sees
    <2> QED
      BY <2>2, <1>2 DEF ViewerHolds
  <1>5. \A w \in Viewers \ {v} : ViewerHolds(w)'
    BY <1>1, <1>2 DEF ViewerInv, ViewerHolds, Sees
  <1> QED
    BY <1>3, <1>4, <1>5 DEF ViewerInv

LEMMA ReadKeeps ==
  ASSUME ViewerInv, NEW v \in Viewers, ViewerReads(v)
  PROVE  ViewerInv'
  <1>1. /\ ViewerTypes /\ viewer[v] \in {"live", "closed"} /\ UNCHANGED <<sent, from>>
        /\ sent \in Seq(Events) /\ from[v] \in Nat
        /\ liveQueue[v] \in Seq(Events) /\ shown[v] \in Seq(Events)
    BY DEF ViewerInv, ViewerTypes, ViewerReads
  <1>2. CASE liveQueue[v] # <<>>
    <2> DEFINE event == Head(liveQueue[v])
    <2>1. /\ viewer' = viewer
          /\ shown' = [shown EXCEPT ![v] = Append(shown[v], event)]
          /\ liveQueue' = [liveQueue EXCEPT ![v] = Tail(liveQueue[v])]
      BY <1>2 DEF ViewerReads
    <2>2. event \in Events /\ Tail(liveQueue[v]) \in Seq(Events)
      BY <1>1, <1>2, HeadTailProperties
    <2> HIDE DEF event
    <2>3. Append(shown[v], event) \in Seq(Events)
      BY <1>1, <2>2, AppendProperties
    <2>4. /\ shown'[v] = Append(shown[v], event) /\ liveQueue'[v] = Tail(liveQueue[v])
          /\ \A w \in Viewers \ {v} : shown'[w] = shown[w] /\ liveQueue'[w] = liveQueue[w]
      BY <1>1, <2>1 DEF ViewerTypes
    <2>5. ViewerTypes'
      BY <1>1, <2>1, <2>2, <2>3 DEF ViewerTypes
    <2>6. ASSUME NEW n \in Nat, Sees(v, n) PROVE Sees(v, n)'
      <3>1. Covers(Append(shown[v], event), Tail(liveQueue[v]), sent, from[v], n)
        BY <1>1, <1>2, <2>6, CoversRead DEF Sees, event
      <3> QED
        BY <3>1, <2>4, <1>1 DEF Sees
    <2>7. ViewerHolds(v)'
      <3>1. Len(sent) \in Nat
        BY <1>1
      <3>2. CASE viewer[v] = "live"
        BY <3>1, <3>2, <2>1, <2>6, <1>1 DEF ViewerInv, ViewerHolds
      <3>3. CASE viewer[v] = "closed"
        <4>1. PICK n \in 1 .. Len(sent) : n > from[v] /\ Sees(v, n) /\ sent[n] = [done |-> "trace"]
          BY <3>3 DEF ViewerInv, ViewerHolds
        <4> QED
          BY <4>1, <3>1, <3>3, <2>1, <2>6, <1>1 DEF ViewerHolds
      <3> QED
        BY <3>2, <3>3, <1>1
    <2>8. \A w \in Viewers \ {v} : ViewerHolds(w)'
      BY <1>1, <2>1, <2>4 DEF ViewerInv, ViewerHolds, Sees
    <2> QED
      BY <2>5, <2>7, <2>8 DEF ViewerInv
  <1>3. CASE liveQueue[v] = <<>>
    <2>1. /\ viewer[v] = "closed" /\ viewer' = [viewer EXCEPT ![v] = "ended"]
          /\ UNCHANGED <<shown, liveQueue>>
      BY <1>3 DEF ViewerReads
    <2>2. ViewerTypes'
      BY <1>1, <2>1 DEF ViewerTypes
    <2>3. viewer'[v] = "ended" /\ \A w \in Viewers \ {v} : viewer'[w] = viewer[w]
      BY <1>1, <2>1 DEF ViewerTypes
    <2>4. \A w \in Viewers : ViewerHolds(w)'
      BY <1>1, <2>1, <2>3 DEF ViewerInv, ViewerHolds, Sees
    <2> QED
      BY <2>2, <2>4 DEF ViewerInv
  <1> QED
    BY <1>2, <1>3

LEMMA ViewerInvStep ==
  ASSUME ViewerInv, [TraceNext]_traceVars
  PROVE  ViewerInv'
  <1> DEFINE viewing == <<sent, viewer, from, liveQueue, shown>>
  <1>1. ASSUME UNCHANGED viewing PROVE ViewerInv'
    BY <1>1 DEF ViewerInv, ViewerTypes, ViewerHolds, Sees
  <1>2. ASSUME NEW s \in Spans, SpanStart(s) PROVE ViewerInv'
    <2>1. UNCHANGED <<viewer, from, shown>> /\ [start |-> s] \in Events
      BY <1>2 DEF SpanStart, Events
    <2>2. Broadcast([start |-> s]) \/ UNCHANGED <<sent, liveQueue>>
      BY <1>2 DEF SpanStart
    <2> QED
      BY <2>1, <2>2, <1>1, BroadcastKeeps
  <1>3. ASSUME NEW s \in Spans, SpanEnd(s) PROVE ViewerInv'
    <2>1. UNCHANGED <<viewer, from, shown>> /\ Broadcast([end |-> s]) /\ [end |-> s] \in Events
      BY <1>3 DEF SpanEnd, Events
    <2> QED
      BY <2>1, BroadcastKeeps
  <1>4. CASE TraceDone
    <2>1. /\ UNCHANGED <<from, shown>> /\ Broadcast([done |-> "trace"]) /\ [done |-> "trace"] \in Events
          /\ viewer' = [v \in Viewers |-> IF v \in Subscribed THEN "closed" ELSE viewer[v]]
      BY <1>4 DEF TraceDone, Events
    <2> QED
      BY <2>1, BroadcastKeeps
  <1>5. CASE TraceStep \/ \E ok \in BOOLEAN : SummaryWritten(ok)
    <2>1. UNCHANGED viewing
      BY <1>5 DEF TraceStep, FlushDue, BatchLands, BatchThrows, SummaryWritten
    <2> QED
      BY <2>1, <1>1
  <1>6. CASE UNCHANGED traceVars
    BY <1>6, <1>1 DEF traceVars
  <1> QED
    BY <1>2, <1>3, <1>4, <1>5, <1>6, ViewKeeps, ReadKeeps DEF TraceNext, SpanOver

\* The elements say what the sequences are.
LEMMA CoversSequence ==
  ASSUME NEW S, NEW s \in Seq(S), NEW q \in Seq(S), NEW t \in Seq(S),
         NEW f \in Nat, NEW n \in Nat, Covers(s, q, t, f, n)
  PROVE  /\ s \o q = SubSeq(t, f + 1, n) /\ Len(s \o q) = n - f
         /\ n > f => (s \o q)[Len(s \o q)] = t[n]
  <1> DEFINE got == s \o q
             part == SubSeq(t, f + 1, n)
  <1>1. PICK a \in Nat, b \in Nat, c \in Nat : a = Len(s) /\ b = Len(q) /\ c = Len(t)
    OBVIOUS
  <1>2. /\ n <= c /\ a + b = n - f
        /\ \A i \in 1 .. a : s[i] = t[f + i]
        /\ \A i \in 1 .. b : q[i] = t[f + a + i]
    BY <1>1 DEF Covers
  <1>3. /\ got \in Seq(S) /\ Len(got) = a + b
        /\ \A i \in 1 .. a + b : got[i] = IF i <= a THEN s[i] ELSE q[i - a]
    BY <1>1, ConcatProperties
  <1> HIDE DEF got
  <1>4. \A i \in 1 .. a + b : got[i] = t[f + i]
    <2> SUFFICES ASSUME NEW i \in 1 .. a + b PROVE got[i] = t[f + i]
      OBVIOUS
    <2>1. CASE i <= a
      <3>1. i \in 1 .. a
        BY <2>1
      <3> QED
        BY <3>1, <2>1, <1>2, <1>3
    <2>2. CASE ~(i <= a)
      <3>1. i - a \in 1 .. b /\ f + a + (i - a) = f + i
        BY <2>2
      <3> QED
        BY <3>1, <2>2, <1>2, <1>3
    <2> QED
      BY <2>1, <2>2
  <1>5. \A i \in f + 1 .. n : t[i] \in S
    <2> SUFFICES ASSUME NEW i \in f + 1 .. n PROVE t[i] \in S
      OBVIOUS
    <2>1. i \in 1 .. Len(t)
      BY <1>1, <1>2
    <2> QED
      BY <2>1
  <1>6. /\ part \in Seq(S) /\ Len(part) = (IF f + 1 <= n THEN n - (f + 1) + 1 ELSE 0)
        /\ \A i \in 1 .. n - (f + 1) + 1 : part[i] = t[(f + 1) + i - 1]
    BY <1>5, SubSeqProperties
  <1> HIDE DEF part
  <1>7. /\ n - (f + 1) + 1 = a + b /\ n - f = a + b
        /\ (IF f + 1 <= n THEN n - (f + 1) + 1 ELSE 0) = a + b
        /\ \A i \in 1 .. a + b : (f + 1) + i - 1 = f + i
        /\ n > f => a + b \in 1 .. a + b /\ f + (a + b) = n
    BY <1>2
  <1>8. Len(part) = a + b /\ \A i \in 1 .. a + b : part[i] = t[f + i]
    BY <1>6, <1>7
  <1>9. got = part
    BY <1>3, <1>4, <1>6, <1>8, SeqEqual
  <1>10. n > f => got[Len(got)] = t[n]
    BY <1>3, <1>4, <1>7
  <1> QED
    BY <1>3, <1>7, <1>9, <1>10 DEF got, part

\* A viewer sees every event of the trace from when it came, once and in order, and
\* one that is dismissed sees the end of the trace last, for any number of spans and
\* viewers, however batches fail (TraceRegistry and GET /traces/:id/stream).
THEOREM ViewersAreServed == TraceSpec => []ViewersSeeAll
  <1>1. ViewerInv => ViewersSeeAll
    <2> SUFFICES ASSUME ViewerInv, NEW v \in Viewers
                 PROVE  LET got == shown[v] \o liveQueue[v] IN
                        /\ viewer[v] = "live" => got = SubSeq(sent, from[v] + 1, Len(sent))
                        /\ viewer[v] \in {"closed", "ended"} =>
                             /\ got = SubSeq(sent, from[v] + 1, from[v] + Len(got))
                             /\ got # <<>>
                             /\ got[Len(got)] = [done |-> "trace"]
      BY DEF ViewersSeeAll
    <2>1. PICK f \in Nat, s \in Seq(Events), q \in Seq(Events), t \in Seq(Events) :
            f = from[v] /\ s = shown[v] /\ q = liveQueue[v] /\ t = sent
      BY DEF ViewerInv, ViewerTypes
    <2>2. ViewerHolds(v)
      BY DEF ViewerInv
    <2> DEFINE got == s \o q
    <2>3. ASSUME viewer[v] = "live" PROVE got = SubSeq(t, f + 1, Len(t))
      <3>1. Covers(s, q, t, f, Len(t)) /\ Len(t) \in Nat
        BY <2>1, <2>2, <2>3 DEF ViewerHolds, Sees
      <3> QED
        BY <3>1, CoversSequence
    <2>4. ASSUME viewer[v] \in {"closed", "ended"}
          PROVE  /\ got = SubSeq(t, f + 1, f + Len(got))
                 /\ got # <<>>
                 /\ got[Len(got)] = [done |-> "trace"]
      <3>1. PICK n \in Nat : n > f /\ Covers(s, q, t, f, n) /\ t[n] = [done |-> "trace"]
        <4>1. PICK n \in 1 .. Len(t) : n > f /\ Covers(s, q, t, f, n) /\ t[n] = [done |-> "trace"]
          BY <2>1, <2>2, <2>4 DEF ViewerHolds, Sees
        <4> QED
          BY <4>1
      <3>2. Covers(s, q, t, f, n)
        BY <3>1
      <3>3. got = SubSeq(t, f + 1, n)
        BY <3>2, CoversSequence
      <3>4. Len(got) = n - f
        BY <3>2, CoversSequence
      <3>5. got[Len(got)] = t[n]
        BY <3>1, <3>2, CoversSequence
      <3> HIDE DEF got
      <3>6. f + Len(got) = n /\ Len(got) # 0
        BY <3>1, <3>4
      <3>7. got # <<>>
        BY <3>6
      <3> QED
        BY <3>1, <3>3, <3>5, <3>6, <3>7
    <2> QED
      BY <2>1, <2>3, <2>4
  <1> QED
    BY <1>1, ViewerInvInit, ViewerInvStep, PTL DEF TraceSpec
=============================================================================
