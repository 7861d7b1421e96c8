----------------------------- MODULE LlmRouting -----------------------------
(***************************************************************************)
(* Choosing and calling an LLM provider (core/llm): the three routers, the *)
(* orchestrator and RetryingProvider.                                      *)
(*                                                                         *)
(* Select reads the status of one provider after the other, and a status   *)
(* may change in between.  A router ranks by one key: cost, latency or     *)
(* priority.  NewFallbackRouter sorts the slice that it is given in place, *)
(* so a router that shares the slice is rearranged under its loop.         *)
(***************************************************************************)
EXTENDS Naturals, Sequences, FiniteSets

CONSTANTS
  Providers,     \* the providers
  Rank,          \* key of each provider: cost, latency or priority
  Capable,       \* providers that meet minCapability
  MaxRetries     \* attempts of RetryingProvider

ASSUME RoutingAssumption ==
  /\ Rank \in [Providers -> Nat] /\ Capable \subseteq Providers
  /\ MaxRetries \in Nat \ {0} /\ IsFiniteSet(Providers)

Routers == {"cost", "latency", "fallback"}

VARIABLES
  healthy,       \* providers whose Status is healthy now
  order,         \* the slice of providers
  router,        \* kind of the router that runs Select
  execute,       \* where Orchestrator.Execute is
  at,            \* index of the loop in Select
  candidates,    \* providers that the loop found fit
  selected,      \* set with the provider that Select returned
  attempt,       \* i of the retry loop
  ever, always,  \* history: fit at some time, or all the time, since Select began
  moved          \* history: the slice was sorted since Select began

selectVars == <<router, at, candidates, selected>>
fitVars == <<ever, always, moved>>
routingVars == <<healthy, order, execute, selectVars, attempt, fitVars>>

Orders == {s \in [1..Cardinality(Providers) -> Providers] : \A i, j \in DOMAIN s : i # j => s[i] # s[j]}
Ranked(s) == \A i, j \in DOMAIN s : i < j => Rank[s[i]] <= Rank[s[j]]

RoutingInit ==
  /\ healthy = Providers /\ order \in Orders
  /\ router \in Routers /\ (router = "fallback" => Ranked(order))
  /\ execute = "idle" /\ at = 1 /\ candidates = {} /\ selected = {}
  /\ attempt = 0 /\ ever = {} /\ always = {} /\ moved = FALSE

Fit(p) == p \in healthy /\ (router = "cost" => p \in Capable)
AllFit == {p \in Providers : Fit(p)}

(* The environment: a provider fails or recovers.                          *)
StatusChanges ==
  /\ \E p \in Providers : healthy' = (IF p \in healthy THEN healthy \ {p} ELSE healthy \cup {p})
  /\ UNCHANGED <<order, execute, selectVars, attempt, moved>>
  /\ ever' = IF execute = "select" THEN ever \cup AllFit' ELSE ever
  /\ always' = IF execute = "select" THEN always \cap AllFit' ELSE always

(* Another goroutine builds a FallbackRouter from the same slice.          *)
NewFallbackRouter ==
  /\ order' \in {s \in Orders : Ranked(s)} /\ order' # order
  /\ moved' = (moved \/ execute = "select")
  /\ UNCHANGED <<healthy, execute, selectVars, attempt, ever, always>>

Execute ==
  /\ execute = "idle" /\ execute' = "select" /\ ever' = AllFit /\ always' = AllFit
  /\ UNCHANGED <<healthy, order, selectVars, attempt, moved>>

(* One turn of the loop: FallbackRouter returns its first healthy          *)
(* provider, the others collect theirs.                                    *)
SelectTurn ==
  /\ execute = "select" /\ at <= Len(order) /\ (router = "fallback" => candidates = {})
  /\ candidates' = IF Fit(order[at]) THEN candidates \cup {order[at]} ELSE candidates
  /\ at' = at + 1
  /\ UNCHANGED <<healthy, order, execute, router, selected, attempt, fitVars>>

Lowest(S) == {p \in S : \A q \in S : Rank[p] <= Rank[q]}

(* The candidates in the order in which they were found.                   *)
Best_UnsortedBug(S) == S

(* sort.Slice is not stable: any of the lowest may come first.             *)
Best(S) == Lowest(S)

SelectReturns ==
  /\ execute = "select" /\ (at > Len(order) \/ (router = "fallback" /\ candidates # {}))
  /\ execute' = IF candidates = {} THEN "failed" ELSE "attempt"
  /\ IF candidates = {} THEN selected' = {} ELSE \E p \in Best(candidates) : selected' = {p}
  /\ UNCHANGED <<healthy, order, router, at, candidates, attempt, fitVars>>

(* RetryingProvider.Execute around the base provider.                      *)
AttemptSucceeds ==
  /\ execute = "attempt" /\ execute' = "ok"
  /\ UNCHANGED <<healthy, order, selectVars, attempt, fitVars>>

AttemptFails ==
  /\ execute = "attempt"
  /\ execute' = (IF attempt = MaxRetries - 1 THEN "failed" ELSE "backoff")
  /\ UNCHANGED <<healthy, order, selectVars, attempt, fitVars>>

BackoffEnds ==
  /\ execute = "backoff" /\ execute' = "attempt" /\ attempt' = attempt + 1
  /\ UNCHANGED <<healthy, order, selectVars, fitVars>>

BackoffCancelled ==
  /\ execute = "backoff" /\ execute' = "failed"
  /\ UNCHANGED <<healthy, order, selectVars, attempt, fitVars>>

RoutingNext ==
  \/ StatusChanges \/ NewFallbackRouter \/ Execute \/ SelectTurn \/ SelectReturns
  \/ AttemptSucceeds \/ AttemptFails \/ BackoffEnds \/ BackoffCancelled

RoutingSpec == RoutingInit /\ [][RoutingNext]_routingVars

(* Against one reference for the three routers, whatever statuses change   *)
(* while Select looks: it returns a provider that was fit meanwhile and    *)
(* ranks no higher than any that was fit all along, and fails only if none *)
(* was.  A slice that another router's constructor sorts under the loop    *)
(* may hide a provider from it, and is left out.                           *)
SelectsBest ==
  [][SelectReturns /\ ~moved =>
       /\ selected' \subseteq ever
       /\ \A p \in selected', q \in always : Rank[p] <= Rank[q]
       /\ selected' = {} => always = {}]_routingVars
=============================================================================
