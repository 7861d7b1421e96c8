-------------------------------- MODULE Node --------------------------------
(***************************************************************************)
(* The parts of a node that share no state with each other: the ephemeral  *)
(* log, the mTLS identity, the stored login, the audit chain and its file, *)
(* the memory engine, the LLM routers and the signed memory server.  One   *)
(* of them moves in each behaviour.  A property that relates only the      *)
(* state of one part holds of the node where all of them run if it holds   *)
(* in each of these behaviours.                                            *)
(***************************************************************************)
EXTENDS EphemeralLog, Identity, Auth, AuditChain, AuditFile, MemoryEngine, LlmRouting, MemoryServer

VARIABLE part      \* the part that moves

nodeVars == <<part, logVars, identityVars, authVars, chainVars, auditFileVars,
              memoryVars, routingVars, memoryServerVars>>

Parts == {"log", "identity", "auth", "chain", "auditfile", "memory", "routing", "server"}

NodeInit ==
  /\ part \in Parts
  /\ LogInit /\ IdentityInit /\ AuthInit /\ ChainInit /\ AuditFileInit
  /\ MemoryInit /\ RoutingInit /\ MemoryServerInit
  /\ part = "routing" \/ (router = "fallback" /\ order = CHOOSE s \in Orders : Ranked(s))

(* Part p moves, every other one keeps its state.                          *)
Only(p) ==
  /\ part = p /\ UNCHANGED part
  /\ IF p = "log" THEN TRUE ELSE UNCHANGED logVars
  /\ IF p = "identity" THEN TRUE ELSE UNCHANGED identityVars
  /\ IF p = "auth" THEN TRUE ELSE UNCHANGED authVars
  /\ IF p = "chain" THEN TRUE ELSE UNCHANGED chainVars
  /\ IF p = "auditfile" THEN TRUE ELSE UNCHANGED auditFileVars
  /\ IF p = "memory" THEN TRUE ELSE UNCHANGED memoryVars
  /\ IF p = "routing" THEN TRUE ELSE UNCHANGED routingVars
  /\ IF p = "server" THEN TRUE ELSE UNCHANGED memoryServerVars

NodeNext ==
  \/ Only("log") /\ LogNext
  \/ Only("identity") /\ IdentityNext
  \/ Only("auth") /\ AuthNext
  \/ Only("chain") /\ ChainNext
  \/ Only("auditfile") /\ AuditFileNext
  \/ Only("memory") /\ MemoryNext
  \/ Only("routing") /\ RoutingNext
  \/ Only("server") /\ MemoryServerNext

(* The login command runs, with its timer of 5 minutes, and so does the    *)
(* accept loop; nobody owes the other actions a step.                      *)
NodeSpec ==
  /\ NodeInit /\ [][NodeNext]_nodeVars
  /\ WF_nodeVars(Only("auth") /\ LoginStep) /\ WF_nodeVars(Only("auth") /\ LoginTimeout)
  /\ WF_nodeVars(Only("server") /\ ServeLoop)
=============================================================================
