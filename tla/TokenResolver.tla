--------------------------- MODULE TokenResolver ----------------------------
(* HTTP tool calls that share one auth configuration: the token of a call      *)
(* comes from the cache, from the fetch under way, or from a fetch of its own; *)
(* a refused token is dropped and the call is tried once more. The cache is    *)
(* the in-memory one: what it returns is read a moment before the call goes on. *)
EXTENDS Naturals, FiniteSets

CONSTANTS
  MaxToolCalls,   \* bound: concurrent calls
  MaxTokens,      \* bound: fetches of a token
  MaxExpiries     \* bound: entries that expire in the cache

ASSUME TokenAssumption == MaxTokens \in Nat

VARIABLES
  cached,      \* token in the cache, 0 for none
  inflight,    \* the fetch under way, 0 for none: the n-th yields token n
  fetching,    \* fetch -> its state
  call,        \* tool call -> its step
  used,        \* tool call -> the token it has, or the fetch it waits for
  refused,     \* tool call -> the token refused to it, 0 for none
  retries,     \* tool call -> times it was tried again
  expiries

tokenVars == <<cached, inflight, fetching, call, used, refused, retries, expiries>>

ToolCalls == 1 .. MaxToolCalls
Fetches == 1 .. MaxTokens
Fetched == {n \in Fetches : fetching[n] # "none"}
Step(c, step) == call' = [call EXCEPT ![c] = step]

TokenInit ==
  /\ cached = 0
  /\ inflight = 0
  /\ fetching = [n \in Fetches |-> "none"]
  /\ call = [c \in ToolCalls |-> "lookup"]
  /\ used = [c \in ToolCalls |-> 0]
  /\ refused = [c \in ToolCalls |-> 0]
  /\ retries = [c \in ToolCalls |-> 0]
  /\ expiries = 0

\* The cache reads its entry. Calls are numbered in the order in which they begin.
CacheGet(c) ==
  /\ call[c] = "lookup"
  /\ c > 1 => call[c - 1] # "lookup" \/ retries[c - 1] > 0
  /\ Step(c, "looked")
  /\ used' = [used EXCEPT ![c] = cached]
  /\ UNCHANGED <<cached, inflight, fetching, refused, retries, expiries>>

\* A mutant: the fetch of another call is not looked for.
ResolveAlone(c) ==
  /\ call[c] = "looked"
  /\ IF used[c] # 0 THEN Step(c, "request") /\ UNCHANGED <<used, inflight, fetching>>
     ELSE /\ Cardinality(Fetched) < MaxTokens
          /\ inflight' = Cardinality(Fetched) + 1
          /\ fetching' = [fetching EXCEPT ![inflight'] = "fetching"]
          /\ Step(c, "waiting")
          /\ used' = [used EXCEPT ![c] = inflight']
  /\ UNCHANGED <<cached, refused, retries, expiries>>

\* resolve goes on: the entry, else the fetch under way, else a new one.
Resolve(c) ==
  /\ call[c] = "looked"
  /\ IF used[c] # 0 THEN Step(c, "request") /\ UNCHANGED <<used, inflight, fetching>>
     ELSE IF inflight # 0
     THEN /\ Step(c, "waiting")
          /\ used' = [used EXCEPT ![c] = inflight]
          /\ UNCHANGED <<inflight, fetching>>
     ELSE /\ Cardinality(Fetched) < MaxTokens
          /\ inflight' = Cardinality(Fetched) + 1
          /\ fetching' = [fetching EXCEPT ![inflight'] = "fetching"]
          /\ Step(c, "waiting")
          /\ used' = [used EXCEPT ![c] = inflight']
  /\ UNCHANGED <<cached, refused, retries, expiries>>

\* The token arrives and is in the cache before any caller has it; or the fetch
\* fails, and with it those who wait.
FetchEnds(n, ok) ==
  /\ fetching[n] = "fetching"
  /\ fetching' = [fetching EXCEPT ![n] = IF ok THEN "done" ELSE "failed"]
  /\ cached' = IF ok THEN n ELSE cached
  /\ inflight' = 0
  /\ UNCHANGED <<call, used, refused, retries, expiries>>

Join(c) ==
  /\ call[c] = "waiting"
  /\ fetching[used[c]] \in {"done", "failed"}
  /\ Step(c, IF fetching[used[c]] = "failed" THEN "error" ELSE "request")
  /\ UNCHANGED <<cached, inflight, fetching, used, refused, retries, expiries>>

\* The tool's answer: a first refusal is followed by one more attempt.
Answered(c, refusal) ==
  /\ call[c] = "request"
  /\ Step(c, IF refusal /\ retries[c] = 0 THEN "invalidate" ELSE "answered")
  /\ refused' = [refused EXCEPT ![c] = IF refusal THEN used[c] ELSE @]
  /\ UNCHANGED <<cached, inflight, fetching, used, retries, expiries>>

\* invalidate: whatever the cache holds goes, then the call starts again.
Invalidate(c) ==
  /\ call[c] = "invalidate"
  /\ cached' = 0
  /\ retries' = [retries EXCEPT ![c] = 1]
  /\ Step(c, "lookup")
  /\ UNCHANGED <<inflight, fetching, used, refused, expiries>>

Expire ==
  /\ cached # 0
  /\ expiries < MaxExpiries
  /\ expiries' = expiries + 1
  /\ cached' = 0
  /\ UNCHANGED <<inflight, fetching, call, used, refused, retries>>

TokenNext ==
  \/ \E c \in ToolCalls : \/ CacheGet(c) \/ Resolve(c) \/ Join(c) \/ Invalidate(c)
                          \/ \E refusal \in BOOLEAN : Answered(c, refusal)
  \/ \E n \in Fetches, ok \in BOOLEAN : FetchEnds(n, ok)
  \/ Expire

TokenSpec == TokenInit /\ [][TokenNext]_tokenVars

-----------------------------------------------------------------------------
(* Properties. *)

\* Calls that look into the cache before a fetch has filled it share that fetch.
OneFetch == Cardinality({n \in Fetches : fetching[n] = "fetching"}) <= 1

\* The second attempt of a call never sends the token its first was refused with,
\* though other calls store and drop tokens meanwhile.
RetryIsFresh == \A c \in ToolCalls : call[c] = "request" /\ retries[c] = 1 => used[c] # refused[c]

\* Both: what a caller of the resolver relies on.
TokensHold == OneFetch /\ RetryIsFresh
=============================================================================
