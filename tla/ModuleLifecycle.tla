--------------------------- MODULE ModuleLifecycle ---------------------------
(***************************************************************************)
(* sdk/registry.go and sdk/lifecycle.go: StartModule, StopModule and       *)
(* StopAll over the ModuleRegistry, called by any number of goroutines,    *)
(* and the gateway adapters (HandleRun in gateway/discord/adapter.go and   *)
(* gateway/telegram/adapter.go) that fan a task out to the loaded modules  *)
(* meanwhile.  The registry's operations are atomic (its lock); the hooks  *)
(* of a module run outside the lock, so each call takes several steps.     *)
(* Load and Unload are exported too: other code calls them directly, with  *)
(* no hook around them, as the tests of the SDK do.                        *)
(***************************************************************************)
EXTENDS Naturals, FiniteSets

CONSTANTS
  Modules,    \* Module values; each is given to StartModule or to Load at most once
  Names,      \* manifest names
  NameOf,     \* the name each module's manifest declares
  Direct,     \* the modules that other code loads or unloads by itself
  StopCalls,  \* calls of StopModule by other code than StopAll
  Runs,       \* calls of HandleRun
  Nil

ASSUME NameOfAssumption == NameOf \in [Modules -> Names]
ASSUME DirectAssumption == Direct \subseteq Modules
ASSUME NilAssumption == Nil \notin Modules \cup Names
ASSUME StopCallsAssumption == StopCalls \cap Names = {}

VARIABLES
  registry,  \* r.modules: the module loaded under each name, or Nil
  mpc,       \* progress of StartModule, or of a direct Load, for each module
  spc,       \* progress of each StopModule call
  sname,     \* its argument, until it returns
  smod,      \* the module it got from the registry, until it returns
  apc,       \* progress of StopAll
  snapshot,  \* the names StopAll found
  loaded,    \* history: the modules registered when StopAll took them
  rpc,       \* progress of each HandleRun
  rnames,    \* names of the manifests it has not visited yet
  rmod,      \* the module it is about to call
  started,   \* history: modules whose OnStart succeeded
  stopped,   \* history: modules whose OnStop was called
  handled,   \* history: modules whose HandleTask was called
  dropped,   \* history: whether Unload removed the module, and who called it
  refused    \* history: modules that Load refused, the name being taken

stopVars == <<spc, sname, smod>>
allVars == <<apc, snapshot, loaded>>
runVars == <<rpc, rnames, rmod>>
history == <<started, stopped, handled, dropped, refused>>
vars == <<registry, mpc, stopVars, allVars, runVars, history>>

(* The goroutine StopAll spawns for a name is the stop call of that name.  *)
Stops == StopCalls \cup Names

(* Who called the Unload that removed a module: StopModule for it, a       *)
(* StopModule that had got another module of that name, or other code.     *)
Drops == {"no", "stopped", "mistaken", "direct"}

LoadedNames == {n \in Names : registry[n] # Nil}

Init ==
  /\ registry = [n \in Names |-> Nil]
  /\ mpc = [m \in Modules |-> "new"]
  /\ spc = [s \in Stops |-> "idle"]
  /\ sname = [s \in Stops |-> Nil]
  /\ smod = [s \in Stops |-> Nil]
  /\ apc = "idle"
  /\ snapshot = {}
  /\ loaded = {}
  /\ rpc = [d \in Runs |-> "idle"]
  /\ rnames = [d \in Runs |-> {}]
  /\ rmod = [d \in Runs |-> Nil]
  /\ started = {}
  /\ stopped = {}
  /\ handled = {}
  /\ dropped = [m \in Modules |-> "no"]
  /\ refused = {}

-----------------------------------------------------------------------------
(* Operators whose name ends in _Bug are mistakes the properties below are *)
(* tested against; no specification uses them.                             *)

(* the error of OnStart is ignored *)
OnStartFails_IgnoredBug(m) ==
  /\ mpc[m] = "new"
  /\ mpc' = [mpc EXCEPT ![m] = "started"]
  /\ UNCHANGED <<registry, stopVars, allVars, runVars, history>>

(* StartModule: OnStart fails, the module is not registered.               *)
OnStartFails(m) ==
  /\ mpc[m] = "new"
  /\ mpc' = [mpc EXCEPT ![m] = "failed"]
  /\ UNCHANGED <<registry, stopVars, allVars, runVars, history>>

OnStart(m) ==
  /\ mpc[m] = "new"
  /\ started' = started \cup {m}
  /\ mpc' = [mpc EXCEPT ![m] = "started"]
  /\ UNCHANGED <<registry, stopVars, allVars, runVars, stopped, handled, dropped, refused>>

(* Load registers the module unless its name is taken; it calls no hook.   *)
Load(m) ==
  /\ registry' = IF registry[NameOf[m]] = Nil
                 THEN [registry EXCEPT ![NameOf[m]] = m] ELSE registry
  /\ refused' = IF registry[NameOf[m]] = Nil THEN refused ELSE refused \cup {m}
  /\ UNCHANGED <<stopVars, allVars, runVars, started, stopped, handled, dropped>>

(* The end of StartModule: an error of Load is returned, without a call of *)
(* OnStop.                                                                 *)
StartLoad(m) ==
  /\ mpc[m] = "started"
  /\ mpc' = [mpc EXCEPT ![m] = "returned"]
  /\ Load(m)

(* Other code calls Load itself: the module's OnStart is never called.     *)
LoadDirect(m) ==
  /\ m \in Direct
  /\ mpc[m] = "new"
  /\ mpc' = [mpc EXCEPT ![m] = "direct"]
  /\ Load(m)

-----------------------------------------------------------------------------
(* StopModule(name): Get, then OnStop, then Unload.                        *)
CallStop(s, n) ==
  /\ s \in StopCalls
  /\ spc[s] = "idle"
  /\ sname' = [sname EXCEPT ![s] = n]
  /\ spc' = [spc EXCEPT ![s] = "get"]
  /\ UNCHANGED <<registry, mpc, smod, allVars, runVars, history>>

StopGet(s) ==
  /\ spc[s] = "get"
  /\ smod' = [smod EXCEPT ![s] = registry[sname[s]]]
  /\ spc' = [spc EXCEPT ![s] = IF registry[sname[s]] = Nil THEN "returned" ELSE "stop"]
  /\ sname' = [sname EXCEPT ![s] = IF registry[@] = Nil THEN Nil ELSE @]
  /\ UNCHANGED <<registry, mpc, allVars, runVars, history>>

(* OnStop returns, with or without an error: Unload follows in both cases. *)
OnStop(s) ==
  /\ spc[s] = "stop"
  /\ stopped' = stopped \cup {smod[s]}
  /\ spc' = [spc EXCEPT ![s] = "unload"]
  /\ UNCHANGED <<registry, mpc, sname, smod, allVars, runVars, started, handled, dropped, refused>>

(* an error of OnStop skips Unload *)
Unload_SkippedBug(s) ==
  /\ spc[s] = "unload"
  /\ spc' = [spc EXCEPT ![s] = "returned"]
  /\ UNCHANGED <<registry, mpc, sname, smod, allVars, runVars, history>>

(* Unload removes whatever the name leads to now.                          *)
UnloadAs(n, how) ==
  /\ dropped' = [m \in Modules |-> IF m = registry[n] THEN how ELSE dropped[m]]
  /\ registry' = [registry EXCEPT ![n] = Nil]

(* The Unload of StopModule; ErrModuleNotFound is ignored.                 *)
Unload(s) ==
  /\ spc[s] = "unload"
  /\ UnloadAs(sname[s], IF registry[sname[s]] = smod[s] THEN "stopped" ELSE "mistaken")
  /\ spc' = [spc EXCEPT ![s] = "returned"]
  /\ sname' = [sname EXCEPT ![s] = Nil]
  /\ smod' = [smod EXCEPT ![s] = Nil]
  /\ UNCHANGED <<mpc, allVars, runVars, started, stopped, handled, refused>>

(* Other code calls Unload itself, and OnStop or not: "callers are         *)
(* responsible for invoking OnStop" (sdk/registry.go:65).                  *)
UnloadDirect(n) ==
  /\ registry[n] \in Direct
  /\ UnloadAs(n, "direct")
  /\ UNCHANGED <<mpc, stopVars, allVars, runVars, started, stopped, handled, refused>>

-----------------------------------------------------------------------------
(* StopAll: one StopModule goroutine for each manifest, then wait for all. *)
StopAll ==
  /\ apc = "idle"
  /\ snapshot' = LoadedNames
  /\ loaded' = {registry[n] : n \in LoadedNames}
  /\ spc' = [s \in Stops |-> IF s \in LoadedNames THEN "get" ELSE spc[s]]
  /\ sname' = [s \in Stops |-> IF s \in LoadedNames THEN s ELSE sname[s]]
  /\ apc' = "wait"
  /\ UNCHANGED <<registry, mpc, smod, runVars, history>>

(* the channel is read once more than there are goroutines *)
StopAllReturns_StuckBug ==
  /\ apc = "wait"
  /\ \A n \in Names : spc[n] = "returned"
  /\ apc' = "returned"
  /\ UNCHANGED <<registry, mpc, stopVars, snapshot, loaded, runVars, history>>

StopAllReturns ==
  /\ apc = "wait"
  /\ \A n \in snapshot : spc[n] = "returned"
  /\ apc' = "returned"
  /\ UNCHANGED <<registry, mpc, stopVars, snapshot, loaded, runVars, history>>

-----------------------------------------------------------------------------
(* HandleRun: a snapshot of the manifests, then Get and HandleTask for     *)
(* each; a name that is gone meanwhile is skipped.                         *)
RunBegin(d) ==
  /\ rpc[d] = "idle"
  /\ rnames' = [rnames EXCEPT ![d] = LoadedNames]
  /\ rpc' = [rpc EXCEPT ![d] = "next"]
  /\ UNCHANGED <<registry, mpc, stopVars, allVars, rmod, history>>

RunGet(d) ==
  /\ rpc[d] = "next"
  /\ \E n \in rnames[d] :
       /\ rnames' = [rnames EXCEPT ![d] = @ \ {n}]
       /\ rmod' = [rmod EXCEPT ![d] = registry[n]]
       /\ rpc' = [rpc EXCEPT ![d] = IF registry[n] = Nil THEN "next" ELSE "handle"]
  /\ UNCHANGED <<registry, mpc, stopVars, allVars, history>>

RunHandle(d) ==
  /\ rpc[d] = "handle"
  /\ handled' = handled \cup {rmod[d]}
  /\ rmod' = [rmod EXCEPT ![d] = Nil]
  /\ rpc' = [rpc EXCEPT ![d] = "next"]
  /\ UNCHANGED <<registry, mpc, stopVars, allVars, rnames, started, stopped, dropped, refused>>

(* The collected answers are sent as one reply.                            *)
RunReply(d) ==
  /\ rpc[d] = "next"
  /\ rnames[d] = {}
  /\ rpc' = [rpc EXCEPT ![d] = "returned"]
  /\ UNCHANGED <<registry, mpc, stopVars, allVars, rnames, rmod, history>>

-----------------------------------------------------------------------------
StopStep(s) == StopGet(s) \/ OnStop(s) \/ Unload(s)

Next ==
  \/ \E m \in Modules : OnStartFails(m) \/ OnStart(m) \/ StartLoad(m) \/ LoadDirect(m)
  \/ \E n \in Names : UnloadDirect(n)
  \/ \E s \in Stops, n \in Names : CallStop(s, n)
  \/ \E s \in Stops : StopStep(s)
  \/ StopAll
  \/ StopAllReturns
  \/ \E d \in Runs : RunBegin(d) \/ RunGet(d) \/ RunHandle(d) \/ RunReply(d)

Spec == Init /\ [][Next]_vars

(* OnStop gets a context that expires after three seconds; that a module's *)
(* OnStop obeys it and returns is assumed.                                 *)
FairSpec ==
  /\ Spec
  /\ \A s \in Stops : WF_vars(StopStep(s))
  /\ WF_vars(StopAllReturns)

-----------------------------------------------------------------------------
(* Type invariant; in particular no hook is called on a nil module.        *)
TypeOK ==
  /\ registry \in [Names -> Modules \cup {Nil}]
  /\ mpc \in [Modules -> {"new", "started", "returned", "failed", "direct"}]
  /\ spc \in [Stops -> {"idle", "get", "stop", "unload", "returned"}]
  /\ sname \in [Stops -> Names \cup {Nil}]
  /\ smod \in [Stops -> Modules \cup {Nil}]
  /\ apc \in {"idle", "wait", "returned"}
  /\ snapshot \subseteq Names
  /\ loaded \subseteq Modules
  /\ rpc \in [Runs -> {"idle", "next", "handle", "returned"}]
  /\ rnames \in [Runs -> SUBSET Names]
  /\ rmod \in [Runs -> Modules \cup {Nil}]
  /\ \A s \in Stops : spc[s] \in {"stop", "unload"} => smod[s] \in Modules
  /\ \A d \in Runs : rpc[d] = "handle" => rmod[d] \in Modules
  /\ started \subseteq Modules
  /\ stopped \subseteq Modules
  /\ handled \subseteq Modules
  /\ dropped \in [Modules -> Drops]
  /\ refused \subseteq Modules

(* Only a module that was started, or that other code put into the         *)
(* registry itself, is registered, stopped or handed a task: "if OnStart   *)
(* returns an error the module is NOT registered" (sdk/lifecycle.go:20),   *)
(* and nobody gets hold of it while OnStart runs.  A module that was       *)
(* loaded and is neither registered nor unloaded lost its name to another  *)
(* one: nobody can stop it or hand it a task, and if StartModule started   *)
(* it, it runs on.                                                         *)
UsedOnlyIfStarted ==
  /\ TypeOK
  /\ \A m \in Modules :
       LET registered == \E n \in Names : registry[n] = m
       IN /\ m \in handled \/ m \in stopped \/ registered =>
               \/ mpc[m] = "returned" /\ m \in started
               \/ mpc[m] = "direct"
          /\ mpc[m] \in {"returned", "direct"} =>
               registered \/ dropped[m] # "no" \/ m \in refused
          /\ m \in refused => ~registered /\ m \notin stopped \cup handled

(* When StopAll returns, every module it found is out of the registry, and *)
(* its OnStop was called, whatever that returned and however other calls   *)
(* interleave; except that an Unload may have come first which was not     *)
(* meant for it: one of a StopModule that had got an older module of the   *)
(* name, or one of other code.                                             *)
StopAllUnloads ==
  apc = "returned" => \A m \in loaded :
    /\ dropped[m] # "no"
    /\ \A n \in Names : registry[n] # m
    /\ m \in stopped \/ dropped[m] \in {"mistaken", "direct"}

(* StopAll returns.                                                        *)
StopAllEnds == apc = "wait" ~> apc = "returned"

(* "StopAll stops every loaded module" (sdk/lifecycle.go:66): when it      *)
(* returns, the OnStop of every module it found was called, provided that  *)
(* no other code than StopModule and StopAll calls Unload.                 *)
StopAllStops ==
  apc = "returned" /\ (\A m \in Modules : dropped[m] # "direct") =>
    \A m \in loaded : m \in stopped
=============================================================================
