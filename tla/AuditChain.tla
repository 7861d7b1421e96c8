----------------------------- MODULE AuditChain -----------------------------
(***************************************************************************)
(* The hash chain of the audit trail, ChainManager of core/audit/chain.go. *)
(* Its writers are the engine's workers, which log their events            *)
(* concurrently.  A hash is the record it is computed from: equal hashes   *)
(* mean equal blocks.                                                      *)
(***************************************************************************)
EXTENDS Naturals, Sequences

CONSTANTS
  Loggers,       \* goroutines that call LogEvent
  MaxChain       \* bound on the blocks

ASSUME ChainAssumption == MaxChain \in Nat

VARIABLES
  blocks,        \* c.blocks
  locked,        \* the goroutines that hold c.mu
  prevBlock      \* the last block, as each logger has read it

chainVars == <<blocks, locked, prevBlock>>

CalculateHash(index, event, prev) == <<index, event, prev>>

Block(index, event, prev) ==
  [index |-> index, event |-> event, prev |-> prev, hash |-> CalculateHash(index, event, prev)]

Genesis == Block(0, "SYSTEM_INIT", <<>>)

ChainInit ==
  /\ blocks = <<Genesis>> /\ locked = {}
  /\ prevBlock = [l \in Loggers |-> Genesis]

(* Append without the lock.                                                *)
AppendLock_NoLockBug(l) ==
  /\ l \notin locked /\ Len(blocks) < MaxChain
  /\ locked' = locked \cup {l} /\ prevBlock' = [prevBlock EXCEPT ![l] = blocks[Len(blocks)]]
  /\ UNCHANGED blocks

AppendLock(l) ==
  /\ locked = {} /\ Len(blocks) < MaxChain
  /\ locked' = {l} /\ prevBlock' = [prevBlock EXCEPT ![l] = blocks[Len(blocks)]]
  /\ UNCHANGED blocks

AppendLink(l) ==
  /\ l \in locked /\ locked' = locked \ {l}
  /\ blocks' = Append(blocks, Block(prevBlock[l].index + 1, l, prevBlock[l].hash))
  /\ UNCHANGED prevBlock

VerifyChain ==
  \A i \in 2..Len(blocks) :
     /\ blocks[i].prev = blocks[i - 1].hash
     /\ CalculateHash(blocks[i].index, blocks[i].event, blocks[i].prev) = blocks[i].hash

ChainNext == \E l \in Loggers : AppendLock(l) \/ AppendLink(l)

ChainSpec == ChainInit /\ [][ChainNext]_chainVars

(* Nothing but honest calls of Append, from any number of workers, has     *)
(* made the chain: VerifyChain must accept it at every moment, and the     *)
(* indices must count the blocks.                                          *)
ChainVerifies == VerifyChain /\ \A i \in 1..Len(blocks) : blocks[i].index = i - 1
=============================================================================
