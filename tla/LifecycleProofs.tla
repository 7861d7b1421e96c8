--------------------------- MODULE LifecycleProofs ---------------------------
(***************************************************************************)
(* The module lifecycle, for any set of modules and names and any number   *)
(* of concurrent StartModule, StopModule and HandleRun calls, and of calls  *)
(* of Load and Unload by other code.                                       *)
(***************************************************************************)
EXTENDS ModuleLifecycle, TLAPS

(* A module that was started by StartModule, or given to Load by other     *)
(* code, and was not refused.                                              *)
Live(m) ==
  /\ m \notin refused
  /\ (mpc[m] = "returned" /\ m \in started) \/ mpc[m] = "direct"

(* StartModule comes to Load only if OnStart succeeded, and Load judges a  *)
(* module once.                                                            *)
StartInv ==
  \A m \in Modules :
    /\ mpc[m] \in {"started", "returned"} => m \in started
    /\ m \in refused => mpc[m] \in {"returned", "direct"}

(* Whoever holds a module got it from the registry, and the registry holds *)
(* it under its own name and only until Unload.                            *)
HoldInv ==
  /\ \A n \in Names : registry[n] # Nil =>
       Live(registry[n]) /\ NameOf[registry[n]] = n /\ dropped[registry[n]] = "no"
  /\ \A s \in Stops : smod[s] # Nil => Live(smod[s])
  /\ \A d \in Runs : rmod[d] # Nil => Live(rmod[d])
  /\ \A m \in Modules : m \in handled \/ m \in stopped \/ dropped[m] # "no" => Live(m)

(* A loaded module is where its name leads, or was unloaded or refused.    *)
FoundInv ==
  \A m \in Modules : mpc[m] \in {"returned", "direct"} =>
    registry[NameOf[m]] = m \/ dropped[m] # "no" \/ m \in refused

(* A StopModule call about to unload has called the OnStop of the module   *)
(* it got, so an Unload that meets that module comes after its OnStop.     *)
CalledInv ==
  /\ \A s \in Stops : spc[s] = "unload" => smod[s] \in stopped
  /\ \A m \in Modules : dropped[m] = "stopped" => m \in stopped

(* What StopAll took is being stopped under its name until it is unloaded. *)
StopAllInv ==
  /\ \A s \in Stops : spc[s] \in {"get", "stop", "unload"} => sname[s] \in Names
  /\ apc # "idle" =>
       /\ \A n \in snapshot : spc[n] \in {"get", "stop", "unload"} => sname[n] = n
       /\ \A m \in loaded : Live(m) /\ NameOf[m] \in snapshot
       /\ \A m \in loaded : spc[NameOf[m]] = "returned" => dropped[m] # "no"
  /\ apc = "returned" => \A n \in snapshot : spc[n] = "returned"

LifeInv == TypeOK /\ StartInv /\ HoldInv /\ FoundInv /\ CalledInv /\ StopAllInv

-----------------------------------------------------------------------------
USE DEF stopVars, allVars, runVars, history

(* An empty registry.                                                      *)
LEMMA InitLife == Init => LifeInv
<1> SUFFICES ASSUME Init PROVE LifeInv
  OBVIOUS
<1>1. TypeOK
  BY DEF Init, TypeOK, Stops, Drops
<1>2. StartInv /\ HoldInv /\ FoundInv /\ CalledInv /\ StopAllInv
  BY NilAssumption DEF Init, StartInv, HoldInv, FoundInv, CalledInv, StopAllInv, Live, Stops
<1> QED
  BY <1>1, <1>2 DEF LifeInv

(* Every step keeps the types; names and modules are looked up where they  *)
(* exist.                                                                  *)
LEMMA TypeStep == LifeInv /\ [Next]_vars => TypeOK'
<1> SUFFICES ASSUME LifeInv, [Next]_vars PROVE TypeOK'
  OBVIOUS
<1> USE DEF LifeInv
<1>1. ASSUME NEW m \in Modules, OnStartFails(m) \/ OnStart(m) PROVE TypeOK'
  BY <1>1 DEF OnStartFails, OnStart, TypeOK
<1>2. ASSUME NEW m \in Modules, StartLoad(m) \/ LoadDirect(m) PROVE TypeOK'
  BY <1>2, NameOfAssumption DEF StartLoad, LoadDirect, Load, TypeOK
<1>3. ASSUME NEW s \in Stops, NEW n \in Names, CallStop(s, n) PROVE TypeOK'
  BY <1>3 DEF CallStop, TypeOK
<1>4. ASSUME NEW s \in Stops, StopGet(s) PROVE TypeOK'
  BY <1>4 DEF StopGet, TypeOK, StopAllInv
<1>5. ASSUME NEW s \in Stops, OnStop(s) PROVE TypeOK'
  BY <1>5 DEF OnStop, TypeOK
<1>6. ASSUME NEW s \in Stops, Unload(s) PROVE TypeOK'
  BY <1>6 DEF Unload, UnloadAs, TypeOK, StopAllInv, Drops
<1>11. ASSUME NEW n \in Names, UnloadDirect(n) PROVE TypeOK'
  BY <1>11 DEF UnloadDirect, UnloadAs, TypeOK, Drops
<1>7. CASE StopAll
  BY <1>7 DEF StopAll, LoadedNames, TypeOK, Stops
<1>8. CASE StopAllReturns
  BY <1>8 DEF StopAllReturns, TypeOK
<1>9. ASSUME NEW d \in Runs, RunBegin(d) \/ RunGet(d) \/ RunHandle(d) \/ RunReply(d) PROVE TypeOK'
  BY <1>9 DEF RunBegin, RunGet, RunHandle, RunReply, LoadedNames, TypeOK
<1>10. CASE UNCHANGED vars
  BY <1>10 DEF vars, TypeOK
<1> QED
  BY <1>1, <1>2, <1>3, <1>4, <1>5, <1>6, <1>7, <1>8, <1>9, <1>10, <1>11 DEF Next, StopStep

(* StartModule goes on to Load only from a successful OnStart.             *)
LEMMA StartStep == LifeInv /\ [Next]_vars => StartInv'
<1> SUFFICES ASSUME LifeInv, [Next]_vars PROVE StartInv'
  OBVIOUS
<1> USE DEF LifeInv
<1>1. ASSUME NEW m \in Modules, OnStartFails(m) \/ OnStart(m) \/ StartLoad(m) \/ LoadDirect(m) PROVE StartInv'
  BY <1>1 DEF OnStartFails, OnStart, StartLoad, LoadDirect, Load, TypeOK, StartInv
<1>2. CASE UNCHANGED <<mpc, started, refused>>
  BY <1>2 DEF StartInv
<1> QED
  BY <1>1, <1>2 DEF Next, StopStep, vars, CallStop, StopGet, OnStop, Unload, UnloadDirect, StopAll,
     StopAllReturns, RunBegin, RunGet, RunHandle, RunReply

(* A module that was loaded stays so.                                      *)
LEMMA LiveStep == LifeInv /\ [Next]_vars => \A m \in Modules : Live(m) => Live(m)'
<1> SUFFICES ASSUME LifeInv, [Next]_vars, NEW m \in Modules, Live(m) PROVE Live(m)'
  OBVIOUS
<1>1. ASSUME NEW x \in Modules, OnStartFails(x) \/ OnStart(x) \/ StartLoad(x) \/ LoadDirect(x) PROVE Live(m)'
  BY <1>1 DEF OnStartFails, OnStart, StartLoad, LoadDirect, Load, LifeInv, TypeOK, Live
<1>2. CASE UNCHANGED <<mpc, started, refused>>
  BY <1>2 DEF Live
<1> QED
  BY <1>1, <1>2 DEF Next, StopStep, vars, CallStop, StopGet, OnStop, Unload, UnloadDirect, StopAll,
     StopAllReturns, RunBegin, RunGet, RunHandle, RunReply

(* Modules are taken from the registry only, which holds live ones.        *)
LEMMA HoldStep == LifeInv /\ [Next]_vars => HoldInv'
<1> SUFFICES ASSUME LifeInv, [Next]_vars PROVE HoldInv'
  OBVIOUS
<1>0. TypeOK /\ HoldInv /\ StartInv /\ StopAllInv
  BY DEF LifeInv
<1>1. \A m \in Modules : Live(m) => Live(m)'
  BY LiveStep
<1>2. CASE UNCHANGED <<registry, smod, rmod, handled, stopped, dropped>>
  BY <1>0, <1>1, <1>2 DEF HoldInv, TypeOK
<1>3. ASSUME NEW m \in Modules, StartLoad(m) \/ LoadDirect(m) PROVE HoldInv'
  <2>1. CASE registry[NameOf[m]] # Nil
    BY <1>2, <1>3, <2>1 DEF StartLoad, LoadDirect, Load
  <2>2. CASE registry[NameOf[m]] = Nil
    <3>1. /\ registry' = [registry EXCEPT ![NameOf[m]] = m]
          /\ UNCHANGED <<smod, rmod, handled, stopped, dropped, started, refused>>
      BY <1>3, <2>2 DEF StartLoad, LoadDirect, Load
    <3>2. Live(m)' /\ ~Live(m)
      BY <1>0, <1>3, <3>1 DEF Live, StartInv, TypeOK, StartLoad, LoadDirect
    <3>3. dropped[m] = "no"
      BY <1>0, <3>2 DEF HoldInv
    <3> QED
      BY <1>0, <1>1, <3>1, <3>2, <3>3, NameOfAssumption DEF HoldInv, TypeOK
  <2> QED
    BY <2>1, <2>2
<1>4. ASSUME NEW s \in Stops, StopGet(s) PROVE HoldInv'
  <2>1. /\ smod' = [smod EXCEPT ![s] = registry[sname[s]]] /\ sname[s] \in Names
        /\ UNCHANGED <<registry, rmod, handled, stopped, dropped>>
    BY <1>0, <1>4 DEF StopGet, StopAllInv
  <2> QED
    BY <1>0, <1>1, <2>1 DEF HoldInv, TypeOK
<1>5. ASSUME NEW s \in Stops, OnStop(s) PROVE HoldInv'
  <2>1. /\ stopped' = stopped \cup {smod[s]} /\ smod[s] \in Modules /\ smod[s] # Nil
        /\ UNCHANGED <<registry, smod, rmod, handled, dropped>>
    BY <1>0, <1>5, NilAssumption DEF OnStop, TypeOK
  <2> QED
    BY <1>0, <1>1, <2>1 DEF HoldInv, TypeOK
<1>6. ASSUME NEW x \in Names, NEW how \in Drops, UnloadAs(x, how),
             UNCHANGED <<rmod, handled, stopped>>,
             \A s \in Stops : smod'[s] \in {smod[s], Nil}
      PROVE  HoldInv'
  <2>1. /\ \A m \in Modules : dropped'[m] = IF m = registry[x] THEN how ELSE dropped[m]
        /\ \A n \in Names : registry'[n] = IF n = x THEN Nil ELSE registry[n]
    BY <1>0, <1>6 DEF UnloadAs, TypeOK
  <2>2. ASSUME NEW n \in Names, registry'[n] # Nil
        PROVE  (Live(registry[n]) /\ NameOf[registry[n]] = n /\ dropped[registry[n]] = "no")'
    <3>1. PICK m \in Modules : m = registry'[n] /\ m = registry[n] /\ n # x
      BY <1>0, <2>1, <2>2 DEF TypeOK
    <3>2. Live(m) /\ NameOf[m] = n /\ dropped[m] = "no"
      BY <1>0, <2>1, <2>2, <3>1 DEF HoldInv
    <3>3. m # registry[x]
      BY <1>0, <3>1, <3>2, NilAssumption DEF HoldInv
    <3>4. Live(m)' /\ dropped'[m] = "no"
      BY <1>1, <2>1, <3>2, <3>3
    <3> QED
      BY <3>1, <3>2, <3>4 DEF Live
  <2>3. ASSUME NEW m \in Modules, dropped'[m] # "no" PROVE Live(m)'
    BY <1>0, <1>1, <2>1, <2>3, NilAssumption DEF HoldInv
  <2>4. \A s \in Stops : smod'[s] # Nil => Live(smod[s])' /\ smod'[s] = smod[s]
    BY <1>0, <1>1, <1>6 DEF HoldInv, TypeOK
  <2> QED
    BY <1>0, <1>1, <1>6, <2>2, <2>3, <2>4 DEF HoldInv, TypeOK
<1>9. ASSUME NEW s \in Stops, Unload(s) PROVE HoldInv'
  <2>1. /\ sname[s] \in Names /\ UNCHANGED <<rmod, handled, stopped>>
        /\ \E how \in Drops : UnloadAs(sname[s], how)
        /\ \A t \in Stops : smod'[t] \in {smod[t], Nil}
    BY <1>0, <1>9 DEF Unload, StopAllInv, Drops, TypeOK
  <2> QED
    BY <1>6, <2>1
<1>10. ASSUME NEW n \in Names, UnloadDirect(n) PROVE HoldInv'
  <2>1. /\ UnloadAs(n, "direct") /\ "direct" \in Drops
        /\ UNCHANGED <<smod, rmod, handled, stopped>>
    BY <1>10 DEF UnloadDirect, Drops
  <2> QED
    BY <1>6, <2>1
<1>7. ASSUME NEW d \in Runs, RunGet(d) PROVE HoldInv'
  <2>1. PICK n \in rnames[d] : rmod' = [rmod EXCEPT ![d] = registry[n]]
    BY <1>7 DEF RunGet
  <2>2. n \in Names /\ UNCHANGED <<registry, smod, handled, stopped, dropped>>
    BY <1>0, <1>7, <2>1 DEF RunGet, TypeOK
  <2> QED
    BY <1>0, <1>1, <2>1, <2>2 DEF HoldInv, TypeOK
<1>8. ASSUME NEW d \in Runs, RunHandle(d) PROVE HoldInv'
  <2>1. /\ handled' = handled \cup {rmod[d]} /\ rmod' = [rmod EXCEPT ![d] = Nil]
        /\ rmod[d] \in Modules /\ rmod[d] # Nil
        /\ UNCHANGED <<registry, smod, stopped, dropped>>
    BY <1>0, <1>8, NilAssumption DEF RunHandle, TypeOK
  <2> QED
    BY <1>0, <1>1, <2>1 DEF HoldInv, TypeOK
<1> QED
  BY <1>2, <1>3, <1>4, <1>5, <1>7, <1>8, <1>9, <1>10 DEF Next, StopStep, vars, OnStartFails,
     OnStart, CallStop, StopAll, StopAllReturns, RunBegin, RunReply

(* Only Unload takes a module out of the registry, and it is recorded.     *)
LEMMA FoundStep == LifeInv /\ [Next]_vars => FoundInv'
<1> SUFFICES ASSUME LifeInv, [Next]_vars PROVE FoundInv'
  OBVIOUS
<1>0. TypeOK /\ HoldInv /\ StopAllInv /\ FoundInv
  BY DEF LifeInv
<1>1. CASE UNCHANGED <<registry, dropped, refused, mpc>>
  BY <1>0, <1>1 DEF FoundInv
<1>2. ASSUME NEW m \in Modules, OnStartFails(m) \/ OnStart(m) PROVE FoundInv'
  BY <1>0, <1>2 DEF OnStartFails, OnStart, FoundInv, TypeOK
<1>3. ASSUME NEW m \in Modules, StartLoad(m) \/ LoadDirect(m) PROVE FoundInv'
  <2>0. /\ mpc' = [mpc EXCEPT ![m] = mpc'[m]] /\ dropped' = dropped /\ Load(m)
    BY <1>0, <1>3 DEF StartLoad, LoadDirect, Load, TypeOK
  <2>1. CASE registry[NameOf[m]] = Nil
    <3>1. registry' = [registry EXCEPT ![NameOf[m]] = m] /\ refused' = refused
      BY <2>0, <2>1 DEF Load
    <3>2. \A x \in Modules : x # m /\ registry[NameOf[x]] = x => registry'[NameOf[x]] = x
      BY <1>0, <2>1, <3>1, NameOfAssumption, NilAssumption DEF TypeOK
    <3>3. registry'[NameOf[m]] = m
      BY <1>0, <3>1, NameOfAssumption DEF TypeOK
    <3>4. \A x \in Modules : x # m => mpc'[x] = mpc[x]
      BY <1>0, <2>0 DEF TypeOK
    <3> QED
      BY <1>0, <2>0, <3>1, <3>2, <3>3, <3>4 DEF FoundInv
  <2>2. CASE registry[NameOf[m]] # Nil
    BY <1>0, <2>0, <2>2 DEF Load, FoundInv, TypeOK
  <2> QED
    BY <2>1, <2>2
<1>4. ASSUME NEW x \in Names, NEW how \in Drops \ {"no"}, UnloadAs(x, how), UNCHANGED <<mpc, refused>>
      PROVE  FoundInv'
  <2>1. /\ \A m \in Modules : dropped'[m] = IF m = registry[x] THEN how ELSE dropped[m]
        /\ \A n \in Names : registry'[n] = IF n = x THEN Nil ELSE registry[n]
    BY <1>0, <1>4 DEF UnloadAs, TypeOK
  <2> QED
    BY <1>0, <1>4, <2>1, NameOfAssumption, NilAssumption DEF FoundInv
<1>5. ASSUME NEW s \in Stops, Unload(s) PROVE FoundInv'
  <2>1. /\ sname[s] \in Names /\ UNCHANGED <<mpc, refused>>
        /\ \E how \in Drops \ {"no"} : UnloadAs(sname[s], how)
    BY <1>0, <1>5 DEF Unload, StopAllInv, Drops
  <2> QED
    BY <1>4, <2>1
<1>6. ASSUME NEW n \in Names, UnloadDirect(n) PROVE FoundInv'
  <2>1. UnloadAs(n, "direct") /\ "direct" \in Drops \ {"no"} /\ UNCHANGED <<mpc, refused>>
    BY <1>6 DEF UnloadDirect, Drops
  <2> QED
    BY <1>4, <2>1
<1> QED
  BY <1>1, <1>2, <1>3, <1>5, <1>6 DEF Next, StopStep, vars, CallStop, StopGet, OnStop, StopAll,
     StopAllReturns, RunBegin, RunGet, RunHandle, RunReply

(* StopModule calls OnStop of what it got before Unload, and the Unload of *)
(* a call that finds the module it got is the only one counted as its own. *)
LEMMA CalledStep == LifeInv /\ [Next]_vars => CalledInv'
<1> SUFFICES ASSUME LifeInv, [Next]_vars PROVE CalledInv'
  OBVIOUS
<1>0. TypeOK /\ CalledInv /\ StopAllInv
  BY DEF LifeInv
<1>1. CASE UNCHANGED <<spc, smod, stopped, dropped>>
  BY <1>0, <1>1 DEF CalledInv
<1>2. ASSUME NEW s \in Stops, NEW n \in Names, CallStop(s, n) PROVE CalledInv'
  BY <1>0, <1>2 DEF CallStop, CalledInv, TypeOK
<1>3. ASSUME NEW s \in Stops, StopGet(s) PROVE CalledInv'
  BY <1>0, <1>3 DEF StopGet, CalledInv, TypeOK
<1>4. ASSUME NEW s \in Stops, OnStop(s) PROVE CalledInv'
  BY <1>0, <1>4 DEF OnStop, CalledInv, TypeOK
<1>5. ASSUME NEW s \in Stops, Unload(s) PROVE CalledInv'
  <2>1. /\ spc[s] = "unload" /\ spc' = [spc EXCEPT ![s] = "returned"]
        /\ smod' = [smod EXCEPT ![s] = Nil] /\ stopped' = stopped
        /\ \A m \in Modules : dropped'[m] = "stopped" => dropped[m] = "stopped" \/ m = smod[s]
    BY <1>5 DEF Unload, UnloadAs
  <2> QED
    BY <1>0, <2>1 DEF CalledInv, TypeOK
<1>6. ASSUME NEW n \in Names, UnloadDirect(n) PROVE CalledInv'
  BY <1>0, <1>6 DEF UnloadDirect, UnloadAs, CalledInv, TypeOK
<1>7. CASE StopAll
  BY <1>0, <1>7 DEF StopAll, CalledInv, TypeOK
<1> QED
  BY <1>1, <1>2, <1>3, <1>4, <1>5, <1>6, <1>7 DEF Next, StopStep, vars, OnStartFails, OnStart, StartLoad,
     LoadDirect, Load, StopAllReturns, RunBegin, RunGet, RunHandle, RunReply

(* The goroutine StopAll spawned for a name ends only when the module that *)
(* StopAll found there has been unloaded, by it or by someone else.        *)
LEMMA StopAllStep == LifeInv /\ [Next]_vars => StopAllInv'
<1> SUFFICES ASSUME LifeInv, [Next]_vars PROVE StopAllInv'
  OBVIOUS
<1>0. TypeOK /\ HoldInv /\ StopAllInv /\ FoundInv
  BY DEF LifeInv
<1>1. \A m \in Modules : Live(m) => Live(m)'
  BY LiveStep
<1>2. CASE UNCHANGED <<spc, sname, apc, snapshot, loaded, dropped>>
  BY <1>0, <1>1, <1>2 DEF StopAllInv, TypeOK
<1>3. ASSUME NEW s \in Stops, NEW n \in Names, CallStop(s, n) PROVE StopAllInv'
  <2>1. /\ s \notin Names /\ spc' = [spc EXCEPT ![s] = "get"] /\ sname' = [sname EXCEPT ![s] = n]
        /\ UNCHANGED <<apc, snapshot, loaded, dropped>>
    BY <1>3, StopCallsAssumption DEF CallStop
  <2> QED
    BY <1>0, <1>1, <2>1 DEF StopAllInv, TypeOK, Stops
<1>4. ASSUME NEW s \in Stops, OnStop(s) PROVE StopAllInv'
  <2>1. /\ spc[s] = "stop" /\ spc' = [spc EXCEPT ![s] = "unload"]
        /\ UNCHANGED <<sname, apc, snapshot, loaded, dropped>>
    BY <1>4 DEF OnStop
  <2> QED
    BY <1>0, <1>1, <2>1 DEF StopAllInv, TypeOK, Stops
<1>5. ASSUME NEW s \in Stops, StopGet(s) PROVE StopAllInv'
  <2>1. /\ spc[s] = "get" /\ sname[s] \in Names
        /\ spc' = [spc EXCEPT ![s] = IF registry[sname[s]] = Nil THEN "returned" ELSE "stop"]
        /\ sname' = [sname EXCEPT ![s] = IF registry[sname[s]] = Nil THEN Nil ELSE sname[s]]
        /\ UNCHANGED <<apc, snapshot, loaded, dropped>>
    BY <1>0, <1>5 DEF StopGet, StopAllInv
  <2>2. ASSUME apc # "idle", NEW m \in loaded, NameOf[m] = s, registry[sname[s]] = Nil
        PROVE  dropped[m] # "no"
    <3>1. m \in Modules /\ m # Nil /\ Live(m) /\ sname[s] = s
      BY <1>0, <2>1, <2>2, NilAssumption DEF StopAllInv, TypeOK
    <3> QED
      BY <1>0, <2>2, <3>1 DEF FoundInv, Live
  <2>3. ASSUME apc # "idle", NEW m \in loaded, spc'[NameOf[m]] = "returned" PROVE dropped[m] # "no"
    <3>1. NameOf[m] \in Stops
      BY <1>0, NameOfAssumption DEF TypeOK, Stops
    <3> QED
      BY <1>0, <2>1, <2>2, <2>3, <3>1 DEF StopAllInv, TypeOK
  <2> QED
    BY <1>0, <1>1, <2>1, <2>3 DEF StopAllInv, TypeOK, Stops
<1>6. ASSUME NEW s \in Stops, Unload(s) PROVE StopAllInv'
  <2>1. /\ spc[s] = "unload" /\ sname[s] \in Names /\ spc' = [spc EXCEPT ![s] = "returned"]
        /\ sname' = [sname EXCEPT ![s] = Nil] /\ UNCHANGED <<apc, snapshot, loaded>>
        /\ \A m \in Modules : dropped[m] # "no" \/ m = registry[sname[s]] => dropped'[m] # "no"
    BY <1>0, <1>6 DEF Unload, UnloadAs, StopAllInv
  <2>2. ASSUME apc # "idle", NEW m \in loaded, NameOf[m] = s PROVE dropped'[m] # "no"
    <3>1. m \in Modules /\ Live(m) /\ sname[s] = s
      BY <1>0, <2>1, <2>2 DEF StopAllInv, TypeOK
    <3> QED
      BY <1>0, <2>1, <2>2, <3>1 DEF FoundInv, Live
  <2>3. ASSUME apc # "idle", NEW m \in loaded, spc'[NameOf[m]] = "returned" PROVE dropped'[m] # "no"
    <3>1. NameOf[m] \in Stops /\ m \in Modules
      BY <1>0, NameOfAssumption DEF TypeOK, Stops
    <3> QED
      BY <1>0, <2>1, <2>2, <2>3, <3>1 DEF StopAllInv, TypeOK
  <2> QED
    BY <1>0, <1>1, <2>1, <2>3 DEF StopAllInv, TypeOK, Stops
<1>9. ASSUME NEW n \in Names, UnloadDirect(n) PROVE StopAllInv'
  <2>1. /\ \A m \in Modules : dropped[m] # "no" => dropped'[m] # "no"
        /\ UNCHANGED <<spc, sname, apc, snapshot, loaded>>
    BY <1>9 DEF UnloadDirect, UnloadAs
  <2> QED
    BY <1>0, <1>1, <2>1 DEF StopAllInv, TypeOK
<1>7. CASE StopAll
  <2>1. /\ snapshot' = LoadedNames /\ loaded' = {registry[n] : n \in LoadedNames} /\ apc' = "wait"
        /\ spc' = [s \in Stops |-> IF s \in LoadedNames THEN "get" ELSE spc[s]]
        /\ sname' = [s \in Stops |-> IF s \in LoadedNames THEN s ELSE sname[s]]
    BY <1>7 DEF StopAll
  <2>2. \A n \in LoadedNames : n \in Names /\ n \in Stops /\ registry[n] \in Modules
                               /\ Live(registry[n]) /\ NameOf[registry[n]] = n
    BY <1>0 DEF LoadedNames, Stops, HoldInv, TypeOK
  <2>3. \A m \in loaded' : Live(m)' /\ NameOf[m] \in LoadedNames
    BY <1>1, <2>1, <2>2
  <2> QED
    BY <1>0, <2>1, <2>2, <2>3 DEF StopAllInv
<1>8. CASE StopAllReturns
  BY <1>0, <1>1, <1>8 DEF StopAllReturns, StopAllInv, TypeOK
<1> QED
  BY <1>2, <1>3, <1>4, <1>5, <1>6, <1>7, <1>8, <1>9 DEF Next, StopStep, vars, OnStartFails, OnStart,
     StartLoad, LoadDirect, Load, RunBegin, RunGet, RunHandle, RunReply

(* The lifecycle invariant holds in every reachable state.                 *)
THEOREM LifeCorrect == Spec => []LifeInv
<1>1. LifeInv /\ [Next]_vars => LifeInv'
  BY TypeStep, StartStep, HoldStep, FoundStep, CalledStep, StopAllStep DEF LifeInv
<1> QED
  BY <1>1, InitLife, PTL DEF Spec

(* Only modules whose OnStart succeeded, or that other code loaded itself, *)
(* are registered, stopped or handed a task, and none gets lost but by a   *)
(* name clash, whatever StartModule, StopModule, StopAll, HandleRun, Load  *)
(* and Unload calls overlap.                                               *)
THEOREM HooksOnlyOnStarted == Spec => []UsedOnlyIfStarted
<1>1. LifeInv => UsedOnlyIfStarted
  <2> SUFFICES ASSUME LifeInv, NEW m \in Modules
               PROVE  LET registered == \E n \in Names : registry[n] = m
                      IN /\ m \in handled \/ m \in stopped \/ registered =>
                              \/ mpc[m] = "returned" /\ m \in started
                              \/ mpc[m] = "direct"
                         /\ mpc[m] \in {"returned", "direct"} =>
                              registered \/ dropped[m] # "no" \/ m \in refused
                         /\ m \in refused => ~registered /\ m \notin stopped \cup handled
    BY DEF UsedOnlyIfStarted, LifeInv
  <2>1. m # Nil /\ NameOf[m] \in Names
    BY NameOfAssumption, NilAssumption
  <2>2. (m \in handled \/ m \in stopped \/ \E n \in Names : registry[n] = m) => Live(m)
    BY <2>1 DEF LifeInv, HoldInv
  <2>3. mpc[m] \in {"returned", "direct"} =>
          (\E n \in Names : registry[n] = m) \/ dropped[m] # "no" \/ m \in refused
    BY <2>1 DEF LifeInv, FoundInv
  <2> QED
    BY <2>2, <2>3 DEF Live
<1> QED
  BY <1>1, LifeCorrect, PTL

(* When StopAll returns, all the modules it found are unloaded, and their  *)
(* OnStop was called unless an Unload that was not meant for them came     *)
(* first, however many other calls interfere.                              *)
THEOREM StopAllIsComplete == Spec => []StopAllUnloads
<1>1. LifeInv => StopAllUnloads
  <2> SUFFICES ASSUME LifeInv, apc = "returned", NEW m \in loaded
               PROVE  /\ dropped[m] # "no"
                      /\ \A n \in Names : registry[n] # m
                      /\ m \in stopped \/ dropped[m] \in {"mistaken", "direct"}
    BY DEF StopAllUnloads
  <2>1. m \in Modules /\ m # Nil /\ dropped[m] \in Drops
    BY NilAssumption DEF LifeInv, TypeOK
  <2>2. dropped[m] # "no"
    BY DEF LifeInv, StopAllInv
  <2> QED
    BY <2>1, <2>2 DEF LifeInv, HoldInv, CalledInv, Drops
<1> QED
  BY <1>1, LifeCorrect, PTL
=============================================================================
