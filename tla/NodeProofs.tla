----------------------------- MODULE NodeProofs -----------------------------
(***************************************************************************)
(* The parts of Node, each for every value of its constants: the audit     *)
(* chain and its file, the memory engine, the ephemeral log, the LLM       *)
(* routers, the stored login, the mTLS identity and the memory server.     *)
(* The last section is about the session of DiscordGateway.                *)
(***************************************************************************)
EXTENDS Node, DiscordGateway, FiniteSetTheorems, SequenceTheorems, TLAPS

(* Every part begins in its own initial state.                             *)
LEMMA NodeStarts ==
  NodeInit =>
    /\ LogInit /\ IdentityInit /\ AuthInit /\ ChainInit /\ AuditFileInit /\ MemoryInit /\ RoutingInit
    /\ MemoryServerInit
BY DEF NodeInit

(* A step of the node is a step of one part, and stutters for the others.  *)
LEMMA OnePartMoves ==
  [NodeNext]_nodeVars =>
    /\ [LogNext]_logVars /\ [IdentityNext]_identityVars /\ [AuthNext]_authVars /\ [ChainNext]_chainVars
    /\ [AuditFileNext]_auditFileVars /\ [MemoryNext]_memoryVars /\ [RoutingNext]_routingVars
    /\ [MemoryServerNext]_memoryServerVars
BY DEF NodeNext, nodeVars, Only

-----------------------------------------------------------------------------
(* The audit chain.                                                        *)

(* blocks is a non-empty sequence; no set of all blocks exists, because a  *)
(* hash holds every earlier block.                                         *)
IsChain == (\E S : blocks \in Seq(S)) /\ Len(blocks) >= 1

(* The mutex has at most one holder, who has read the last block.          *)
LockInv ==
  /\ locked \subseteq Loggers
  /\ \A l, m \in locked : l = m
  /\ prevBlock = [l \in Loggers |-> prevBlock[l]]
  /\ \A l \in locked : prevBlock[l] = blocks[Len(blocks)]

(* ChainVerifies alone is not inductive: AppendLink links to what its      *)
(* goroutine read when it took the lock.                                   *)
ChainInv == IsChain /\ LockInv /\ ChainVerifies

(* NewChainManager starts with the genesis block.                          *)
LEMMA ChainInitially == ChainInit => ChainInv
<1> SUFFICES ASSUME ChainInit PROVE ChainInv
  OBVIOUS
<1>1. blocks \in Seq({Genesis}) /\ Len(blocks) = 1 /\ blocks[1] = Genesis
  BY DEF ChainInit
<1>2. IsChain
  BY <1>1 DEF IsChain
<1>3. LockInv
  BY DEF ChainInit, LockInv
<1>4. ChainVerifies
  BY <1>1 DEF ChainVerifies, VerifyChain, Genesis, Block
<1> QED
  BY <1>2, <1>3, <1>4 DEF ChainInv

(* What appending to any chain leaves and adds.                            *)
LEMMA AppendToChain ==
  ASSUME IsChain, NEW b, blocks' = Append(blocks, b)
  PROVE  /\ IsChain'
         /\ Len(blocks) \in Nat
         /\ Len(blocks') = Len(blocks) + 1
         /\ \A i \in 1..Len(blocks) : blocks'[i] = blocks[i]
         /\ blocks'[Len(blocks) + 1] = b
<1>1. PICK S : blocks \in Seq(S)
  BY DEF IsChain
<1>2. blocks \in Seq(S \cup {b})
  BY <1>1
<1>3. blocks' \in Seq(S \cup {b}) /\ Len(blocks') = Len(blocks) + 1 /\ Len(blocks) \in Nat
  BY <1>2
<1>4. IsChain'
  BY <1>3 DEF IsChain
<1>5. /\ \A i \in 1..Len(blocks) : blocks'[i] = blocks[i]
      /\ blocks'[Len(blocks) + 1] = b
  BY <1>2
<1> QED
  BY <1>3, <1>4, <1>5

(* Append (chain.go), taken apart at its lock, keeps the invariant.        *)
LEMMA ChainStep == ChainInv /\ [ChainNext]_chainVars => ChainInv'
<1> SUFFICES ASSUME ChainInv, [ChainNext]_chainVars PROVE ChainInv'
  OBVIOUS
<1> USE DEF ChainInv
<1>1. ASSUME NEW l \in Loggers, AppendLock(l) PROVE ChainInv'
  <2>1. blocks' = blocks
    BY <1>1 DEF AppendLock
  <2>2. LockInv'
    BY <1>1 DEF AppendLock, LockInv
  <2> QED
    BY <2>1, <2>2 DEF IsChain, ChainVerifies, VerifyChain
<1>2. ASSUME NEW l \in Loggers, AppendLink(l) PROVE ChainInv'
  <2> DEFINE n == Len(blocks)
             b == Block(prevBlock[l].index + 1, l, prevBlock[l].hash)
  <2>1. blocks' = Append(blocks, b)
    BY <1>2 DEF AppendLink
  <2>2. /\ IsChain' /\ n \in Nat /\ Len(blocks') = n + 1
        /\ \A i \in 1..n : blocks'[i] = blocks[i]
        /\ blocks'[n + 1] = b
    BY <2>1, AppendToChain
  <2>3. n >= 1 /\ prevBlock[l] = blocks[n]
    BY <1>2 DEF AppendLink, LockInv, IsChain
  <2>4. locked' = {} /\ prevBlock' = prevBlock
    BY <1>2 DEF AppendLink, LockInv
  <2>5. LockInv'
    BY <2>4 DEF LockInv
  <2>6. b.index = n /\ b.prev = blocks[n].hash /\ b.hash = CalculateHash(b.index, b.event, b.prev)
    BY <2>2, <2>3 DEF Block, ChainVerifies
  <2>7. VerifyChain'
    <3> SUFFICES ASSUME NEW i \in 2..(n + 1)
                 PROVE  /\ blocks'[i].prev = blocks'[i - 1].hash
                        /\ CalculateHash(blocks'[i].index, blocks'[i].event, blocks'[i].prev) = blocks'[i].hash
      BY <2>2 DEF VerifyChain, CalculateHash
    <3>1. CASE i = n + 1
      BY <3>1, <2>2, <2>3, <2>6
    <3>2. CASE i # n + 1
      <4>1. i \in 2..n /\ i - 1 \in 1..n /\ i \in 1..n
        BY <3>2, <2>2
      <4> QED
        BY <4>1, <2>2 DEF ChainVerifies, VerifyChain
    <3> QED
      BY <3>1, <3>2
  <2>8. \A i \in 1..(n + 1) : blocks'[i].index = i - 1
    <3> TAKE i \in 1..(n + 1)
    <3>1. CASE i = n + 1
      BY <3>1, <2>2, <2>6
    <3>2. CASE i # n + 1
      BY <3>2, <2>2 DEF ChainVerifies
    <3> QED
      BY <3>1, <3>2
  <2> QED
    BY <2>2, <2>5, <2>7, <2>8 DEF ChainVerifies
<1>3. CASE UNCHANGED chainVars
  BY <1>3 DEF chainVars, IsChain, LockInv, ChainVerifies, VerifyChain
<1> QED
  BY <1>1, <1>2, <1>3 DEF ChainNext

(* VerifyChain accepts, at every moment, the chain that any number of      *)
(* concurrent calls of LogEvent have built, and its indices count it.      *)
THEOREM ChainAlwaysVerifies == NodeSpec => []ChainVerifies
<1>1. ChainInv => ChainVerifies
  BY DEF ChainInv
<1>2. [NodeNext]_nodeVars => [ChainNext]_chainVars
  BY OnePartMoves
<1> QED
  BY ChainInitially, ChainStep, NodeStarts, <1>1, <1>2, PTL DEF NodeSpec

-----------------------------------------------------------------------------
(* The memory engine.                                                      *)

Entry == [key : Nat, message : Nat]

(* The short-term memory is the latest messages, behind a summary at most. *)
ShortInv ==
  /\ recorded \in Nat /\ shortTerm \in Seq(Nat) /\ Len(shortTerm) <= MaxShortTerm
  /\ \A i \in 1..Len(shortTerm) : shortTerm[i] = 0 => i = 1
  /\ \A i \in 1..Len(shortTerm) : shortTerm[i] # 0 => shortTerm[i] + Len(shortTerm) = recorded + i

(* The storage has one entry for each message that is not gone.            *)
StoreInv ==
  /\ recorded \in Nat /\ nano \in Nat /\ data \subseteq Entry
  /\ \A e \in data : e.message <= recorded
  /\ \A e, d \in data : e.message = d.message => e = d
  /\ \A m \in (1..recorded) \ gone : \E e \in data : e.message = m

(* Nothing is remembered at first.                                         *)
LEMMA MemoryInitially == MemoryInit => ShortInv /\ StoreInv
BY MemoryAssumption DEF MemoryInit, ShortInv, StoreInv

(* Eviction drops the oldest, Summarize keeps the newer half in order.     *)
LEMMA ShortStep == ShortInv /\ [MemoryNext]_memoryVars => ShortInv'
<1> SUFFICES ASSUME ShortInv, [MemoryNext]_memoryVars PROVE ShortInv'
  OBVIOUS
<1>1. PICK n \in Nat : n = Len(shortTerm) /\ n <= MaxShortTerm
  BY DEF ShortInv
<1>2. /\ recorded \in Nat /\ shortTerm \in Seq(Nat) /\ MaxShortTerm \in Nat
      /\ \A i \in 1..n : /\ shortTerm[i] \in Nat /\ (shortTerm[i] = 0 => i = 1)
                         /\ shortTerm[i] # 0 => shortTerm[i] + n = recorded + i
  BY <1>1, MemoryAssumption DEF ShortInv
<1>3. CASE Record
  <2>1. PICK longer : longer = Append(shortTerm, recorded + 1)
    OBVIOUS
  <2>2. recorded' = recorded + 1 /\ shortTerm' = IF Len(longer) > MaxShortTerm THEN Tail1(longer) ELSE longer
    BY <1>3, <2>1 DEF Record
  <2>3. /\ longer \in Seq(Nat) /\ Len(longer) = n + 1
        /\ \A i \in 1..n : longer[i] = shortTerm[i]
        /\ longer[n + 1] = recorded + 1
    BY <1>1, <1>2, <2>1
  <2>4. ASSUME NEW i \in 1..(n + 1)
        PROVE  longer[i] \in Nat /\ (longer[i] = 0 => i = 1) /\ (longer[i] # 0 => longer[i] + n = recorded + i)
    <3>1. CASE i \in 1..n
      BY <1>2, <2>3, <3>1
    <3>2. CASE i = n + 1
      <4>1. longer[i] = recorded + 1
        BY <2>3, <3>2
      <4>2. recorded + 1 \in Nat /\ recorded + 1 # 0 /\ (recorded + 1) + n = recorded + (n + 1)
        BY <1>1, <1>2
      <4> QED
        BY <3>2, <4>1, <4>2
    <3> QED
      BY <1>1, <3>1, <3>2
  <2>5. CASE n + 1 <= MaxShortTerm
    <3>1. shortTerm' = longer
      BY <1>1, <1>2, <2>2, <2>3, <2>5
    <3> QED
      BY <1>2, <2>2, <2>3, <2>4, <2>5, <3>1 DEF ShortInv
  <2>6. CASE ~(n + 1 <= MaxShortTerm)
    <3>1. shortTerm' = SubSeq(longer, 2, n + 1)
      BY <1>1, <1>2, <2>2, <2>3, <2>6 DEF Tail1
    <3>2. /\ shortTerm' \in Seq(Nat) /\ Len(shortTerm') = n
          /\ \A i \in 1..n : shortTerm'[i] = longer[i + 1]
      BY <1>1, <2>3, <3>1
    <3>3. ASSUME NEW i \in 1..n
          PROVE  shortTerm'[i] # 0 /\ shortTerm'[i] + n = recorded' + i
      <4>1. i + 1 \in 1..(n + 1) /\ i + 1 # 1 /\ i \in Nat
        BY <1>1
      <4>2. longer[i + 1] \in Nat /\ longer[i + 1] # 0 /\ longer[i + 1] + n = recorded + (i + 1)
        BY <2>4, <4>1
      <4>3. shortTerm'[i] = longer[i + 1]
        BY <3>2
      <4> QED
        BY <1>1, <1>2, <2>2, <4>1, <4>2, <4>3
    <3>4. recorded' \in Nat /\ Len(shortTerm') <= MaxShortTerm
      BY <1>1, <1>2, <2>2, <3>2
    <3> QED
      BY <3>2, <3>3, <3>4 DEF ShortInv
  <2> QED
    BY <2>5, <2>6
<1>4. CASE Summarize
  <2>1. PICK h \in Nat : h = n \div 2 /\ 2 * h <= n /\ n <= 2 * h + 1
    BY <1>1
  <2>2. PICK newer : newer = SubSeq(shortTerm, h + 1, n)
    OBVIOUS
  <2>3. n > 3 /\ shortTerm' = <<0>> \o newer /\ recorded' = recorded
    BY <1>1, <1>4, <2>1, <2>2 DEF Summarize
  <2>4. PICK k \in Nat : k + h = n /\ k + 1 <= n
    <3>1. n - h \in Nat /\ (n - h) + h = n /\ (n - h) + 1 <= n
      BY <1>1, <2>1, <2>3
    <3> QED
      BY <3>1
  <2>5. newer \in Seq(Nat) /\ Len(newer) = k /\ \A i \in 1..k : newer[i] = shortTerm[i + h]
    <3>1. h + 1 \in 1..(Len(shortTerm) + 1) /\ n \in ((h + 1) - 1)..Len(shortTerm) /\ n - (h + 1) + 1 = k
      BY <1>1, <2>1, <2>4
    <3>2. /\ newer \in Seq(Nat) /\ Len(newer) = n - (h + 1) + 1
          /\ \A i \in 1..(n - (h + 1) + 1) : newer[i] = shortTerm[(h + 1) + i - 1]
      BY <1>2, <2>2, <3>1, SubSeqProperties
    <3>3. \A i \in 1..k : (h + 1) + i - 1 = i + h
      BY <2>1, <2>4
    <3> QED
      BY <3>1, <3>2, <3>3
  <2>6. /\ shortTerm' \in Seq(Nat) /\ Len(shortTerm') = k + 1 /\ shortTerm'[1] = 0
        /\ \A i \in 2..(k + 1) : shortTerm'[i] = newer[i - 1]
    BY <2>3, <2>4, <2>5
  <2>7. ASSUME NEW i \in 2..(k + 1)
        PROVE  shortTerm'[i] # 0 /\ shortTerm'[i] + (k + 1) = recorded + i
    <3>1. i - 1 \in 1..k /\ (i - 1) + h \in 1..n /\ (i - 1) + h # 1 /\ i \in Nat
      BY <1>1, <2>1, <2>3, <2>4
    <3>2. shortTerm'[i] = shortTerm[(i - 1) + h]
      BY <2>5, <2>6, <3>1
    <3>3. shortTerm[(i - 1) + h] \in Nat /\ shortTerm[(i - 1) + h] # 0
          /\ shortTerm[(i - 1) + h] + n = recorded + ((i - 1) + h)
      BY <1>2, <3>1
    <3>4. PICK x \in Nat : x = shortTerm'[i] /\ x # 0 /\ x + n = recorded + ((i - 1) + h)
      BY <3>2, <3>3
    <3>5. x + (k + 1) = recorded + i
      <4>1. recorded \in Nat
        BY <1>2
      <4>2. k + h = n /\ x + n = recorded + ((i - 1) + h) /\ i \in Nat
        BY <2>4, <3>1, <3>4
      <4> QED
        BY <4>1, <4>2
    <3> QED
      BY <3>4, <3>5
  <2>8. ASSUME NEW i \in 1..(k + 1)
        PROVE  (shortTerm'[i] = 0 => i = 1) /\ (shortTerm'[i] # 0 => shortTerm'[i] + (k + 1) = recorded + i)
    <3>1. i = 1 \/ i \in 2..(k + 1)
      BY <2>4
    <3> QED
      BY <2>6, <2>7, <3>1
  <2>9. k + 1 <= MaxShortTerm
    BY <1>1, <1>2, <2>4
  <2> QED
    BY <1>2, <2>3, <2>6, <2>8, <2>9 DEF ShortInv
<1>5. CASE DeleteEntry \/ UNCHANGED memoryVars
  BY <1>5 DEF DeleteEntry, memoryVars, ShortInv
<1> QED
  BY <1>3, <1>4, <1>5 DEF MemoryNext

(* An entry leaves the storage only with its message gone.                 *)
LEMMA StoreStep == StoreInv /\ [MemoryNext]_memoryVars => StoreInv'
<1> SUFFICES ASSUME StoreInv, [MemoryNext]_memoryVars PROVE StoreInv'
  OBVIOUS
<1>1. /\ recorded \in Nat /\ nano \in Nat /\ data \subseteq Entry
      /\ \A e \in data : e.message \in Nat /\ e.message <= recorded
  BY DEF StoreInv, Entry
<1>2. CASE Record
  <2>1. PICK clash : clash = {e \in data : e.key = nano'}
    OBVIOUS
  <2>2. PICK new : new = [key |-> nano', message |-> recorded + 1]
    OBVIOUS
  <2>3. /\ recorded' = recorded + 1 /\ nano' \in {nano + 0, nano + 1}
        /\ data' = (data \ clash) \cup {new} /\ gone' = gone \cup {e.message : e \in clash}
    BY <1>2, <2>1, <2>2 DEF Record
  <2>4. recorded' \in Nat /\ nano' \in Nat /\ new \in Entry /\ new.message = recorded'
    BY <1>1, <2>2, <2>3 DEF Entry
  <2>5. \A e \in data' : e.message <= recorded' /\ e \in Entry
    BY <1>1, <2>3, <2>4
  <2>6. \A e \in data : e.message # recorded'
    BY <1>1, <2>3
  <2>7. \A e, d \in data' : e.message = d.message => e = d
    BY <2>3, <2>4, <2>6 DEF StoreInv
  <2>8. ASSUME NEW m \in (1..recorded') \ gone' PROVE \E e \in data' : e.message = m
    <3>1. CASE m = recorded'
      BY <2>3, <2>4, <3>1
    <3>2. CASE m # recorded'
      <4>1. m \in (1..recorded) \ gone
        BY <1>1, <2>3, <3>2
      <4>2. PICK e \in data : e.message = m
        BY <4>1 DEF StoreInv
      <4>3. e \notin clash
        BY <2>3, <2>8, <4>2
      <4> QED
        BY <2>3, <4>2, <4>3
    <3> QED
      BY <3>1, <3>2
  <2> QED
    BY <2>4, <2>5, <2>7, <2>8 DEF StoreInv
<1>3. CASE DeleteEntry
  <2>1. PICK e \in data : data' = data \ {e} /\ gone' = gone \cup {e.message} /\ UNCHANGED <<recorded, nano>>
    BY <1>3 DEF DeleteEntry
  <2>2. \A m \in (1..recorded) \ gone' : \E d \in data' : d.message = m
    BY <2>1 DEF StoreInv
  <2> QED
    BY <2>1, <2>2 DEF StoreInv
<1>4. CASE Summarize \/ UNCHANGED memoryVars
  BY <1>4 DEF Summarize, memoryVars, StoreInv
<1> QED
  BY <1>2, <1>3, <1>4 DEF MemoryNext

(* The short-term memory holds the latest messages within its capacity,    *)
(* and a query for a message that is not gone recalls it, for any capacity *)
(* and any order of Record, Summarize and DeleteEntry.                     *)
THEOREM MemoryRecallsRecent == NodeSpec => []RecallsRecent
<1>1. ASSUME ShortInv, StoreInv PROVE RecallsRecent
  <2>1. Len(shortTerm) <= MaxShortTerm /\ Summaries \subseteq {1}
    BY <1>1 DEF ShortInv, Summaries
  <2>2. ASSUME NEW i \in 1..Len(shortTerm), shortTerm[i] # 0
        PROVE  shortTerm[i] = recorded - (Len(shortTerm) - i)
    <3>1. PICK n \in Nat : n = Len(shortTerm)
      BY <1>1 DEF ShortInv
    <3>2. PICK x : x = shortTerm[i]
      OBVIOUS
    <3>3. x \in Nat /\ x # 0
      BY <1>1, <2>2, <3>2 DEF ShortInv
    <3>4. x + n = recorded + i
      BY <1>1, <2>2, <3>1, <3>2 DEF ShortInv
    <3>5. recorded \in Nat /\ i \in Nat
      BY <1>1, <3>1 DEF ShortInv
    <3>6. x = recorded - (n - i)
      BY <3>1, <3>4, <3>5, <3>3
    <3> QED
      BY <3>1, <3>6, <3>2
  <2>3. ASSUME NEW m \in (1..recorded) \ gone, NEW r \in Recall({m}) PROVE r.long = {m}
    <3> DEFINE hits == {e \in data : e.message \in {m}}
    <3>1. PICK e \in data : e.message = m
      BY <1>1 DEF StoreInv
    <3>2. hits = {e}
      BY <1>1, <3>1 DEF StoreInv
    <3>3. Cardinality(hits) = 1
      BY <3>2, FS_Singleton
    <3>4. Search({m}, 3) = IF Cardinality(hits) <= 3 THEN {hits}
                           ELSE {s \in SUBSET hits : Cardinality(s) = 3}
      BY DEF Search
    <3>5. Cardinality(hits) <= 3
      BY <3>3
    <3>6. Search({m}, 3) = {hits}
      BY <3>4, <3>5, Zenon
    <3>7. r = [short |-> shortTerm, long |-> {d.message : d \in hits}]
      BY <3>6 DEF Recall
    <3> QED
      BY <3>1, <3>2, <3>7
  <2> QED
    BY <2>1, <2>2, <2>3 DEF RecallsRecent
<1>2. [NodeNext]_nodeVars => [MemoryNext]_memoryVars
  BY OnePartMoves
<1> QED
  BY MemoryInitially, ShortStep, StoreStep, NodeStarts, <1>1, <1>2, PTL DEF NodeSpec

-----------------------------------------------------------------------------
(* The ephemeral log.                                                      *)

(* A stamp that a recorder took is at most MaxLag old, so that an event is *)
(* at most MaxLag younger than any event behind it in the slice, if no     *)
(* caller brought a stamp for one of them.                                 *)
LogInv ==
  /\ now \in Nat /\ events \in [LogTasks -> Seq(Nat)]
  /\ DOMAIN pending = Recorders
  /\ \A r \in Recorders : pending[r] # Idle =>
       /\ pending[r].task \in LogTasks /\ pending[r].at \in Nat
       /\ pending[r].given \/ (pending[r].at <= now /\ now <= pending[r].at + MaxLag)
  /\ \A t \in LogTasks \ marked : \A i \in 1..Len(events[t]) : events[t][i] <= now
  /\ \A t \in LogTasks \ marked : \A i, j \in 1..Len(events[t]) : i < j => events[t][i] <= events[t][j] + MaxLag

(* The log begins empty, and no recorder holds a stamp.                    *)
LEMMA LogInitially == LogInit => LogInv
BY DEF LogInit, LogInv

(* Every call keeps the stamps young and the events nearly sorted.         *)
LEMMA LogStep == LogInv /\ [LogNext]_logVars => LogInv'
<1> SUFFICES ASSUME LogInv, [LogNext]_logVars PROVE LogInv'
  OBVIOUS
<1>0. MaxLag \in Nat /\ now \in Nat
  BY LogAssumption DEF LogInv
<1>1. ASSUME NEW r \in Recorders, RecordAppend(r) PROVE LogInv'
  <2>1. PICK t \in LogTasks, a \in Nat : t = pending[r].task /\ a = pending[r].at
    BY <1>1 DEF RecordAppend, LogInv
  <2>2. PICK s \in Seq(Nat) : s = events[t]
    BY DEF LogInv
  <2>3. PICK n \in Nat : n = Len(s)
    BY <2>2
  <2>4. PICK l : l = Append(s, a)
    OBVIOUS
  <2>5. /\ l \in Seq(Nat) /\ Len(l) = n + 1 /\ l[n + 1] = a
        /\ \A i \in 1..n : l[i] = s[i]
    BY <2>2, <2>3, <2>4
  <2>6. events' = [events EXCEPT ![t] = l]
    BY <1>1, <2>1, <2>2, <2>4 DEF RecordAppend
  <2>7. /\ events' \in [LogTasks -> Seq(Nat)] /\ events'[t] = l
        /\ \A u \in LogTasks : u # t => events'[u] = events[u]
    BY <2>5, <2>6 DEF LogInv
  <2>8. marked \subseteq marked' /\ (t \notin marked' => t \notin marked /\ a <= now /\ now <= a + MaxLag)
    <3>1. marked' = IF pending[r].given THEN marked \cup {t} ELSE marked
      BY <1>1, <2>1 DEF RecordAppend
    <3>2. pending[r].given \/ (a <= now /\ now <= a + MaxLag)
      BY <1>1, <2>1 DEF RecordAppend, LogInv
    <3> QED
      BY <3>1, <3>2
  <2>9. ASSUME t \notin marked', NEW i \in 1..(n + 1) PROVE l[i] <= now
    <3>1. i = n + 1 \/ i \in 1..n
      BY <2>3
    <3>2. \A k \in 1..n : s[k] <= now
      BY <2>2, <2>3, <2>8, <2>9 DEF LogInv
    <3> QED
      BY <2>1, <2>5, <2>8, <2>9, <3>1, <3>2
  <2>10. ASSUME t \notin marked', NEW i \in 1..(n + 1), NEW j \in 1..(n + 1), i < j PROVE l[i] <= l[j] + MaxLag
    <3>0. i \in 1..n
      BY <2>3, <2>10
    <3>1. PICK x \in Nat : x = s[i] /\ x = l[i] /\ x <= now
      <4>1. s[i] \in Nat
        BY <2>2, <2>3, <3>0
      <4>4. l[i] = s[i]
        BY <2>5, <3>0
      <4>2. t \notin marked
        BY <2>8, <2>10
      <4>3. events[t][i] <= now
        BY <2>2, <2>3, <3>0, <4>2 DEF LogInv
      <4> QED
        BY <2>2, <4>1, <4>3, <4>4
    <3>2. CASE j = n + 1
      <4>1. l[j] = a
        BY <2>5, <3>2
      <4>2. x <= a + MaxLag
        BY <1>0, <2>1, <2>8, <2>10, <3>1
      <4> QED
        BY <3>1, <4>1, <4>2
    <3>3. CASE j \in 1..n
      BY <2>2, <2>3, <2>5, <2>8, <2>10, <3>0, <3>1, <3>3 DEF LogInv
    <3> QED
      BY <2>3, <3>2, <3>3
  <2>11. now' = now /\ DOMAIN pending' = Recorders /\ pending'[r] = Idle
         /\ \A q \in Recorders : q # r => pending'[q] = pending[q]
    BY <1>1 DEF RecordAppend, LogInv
  <2>12. \A u \in LogTasks \ marked' : \A i \in 1..Len(events'[u]) : events'[u][i] <= now'
    BY <2>5, <2>7, <2>8, <2>9, <2>11 DEF LogInv
  <2>13. \A u \in LogTasks \ marked' : \A i, j \in 1..Len(events'[u]) : i < j => events'[u][i] <= events'[u][j] + MaxLag
    BY <2>5, <2>7, <2>8, <2>10 DEF LogInv
  <2>14. \A q \in Recorders : pending'[q] # Idle =>
           /\ pending'[q].task \in LogTasks /\ pending'[q].at \in Nat
           /\ pending'[q].given \/ (pending'[q].at <= now' /\ now' <= pending'[q].at + MaxLag)
    BY <2>11 DEF LogInv
  <2> QED
    BY <2>7, <2>11, <2>12, <2>13, <2>14 DEF LogInv
<1>2. ASSUME NEW r \in Recorders, NEW t \in LogTasks, RecordStamp(r, t) \/ RecordGiven(r, t) PROVE LogInv'
  <2>1. PICK a \in Nat, g \in BOOLEAN : /\ pending' = [pending EXCEPT ![r] = [task |-> t, at |-> a, given |-> g]]
                                       /\ (g \/ a = now)
    BY <1>0, <1>2, LogAssumption DEF RecordStamp, RecordGiven
  <2>2. now' = now /\ events' = events /\ marked' = marked
    BY <1>2 DEF RecordStamp, RecordGiven
  <2>3. /\ DOMAIN pending' = Recorders
        /\ \A q \in Recorders : q # r => pending'[q] = pending[q]
        /\ pending'[r].task = t /\ pending'[r].at = a /\ pending'[r].given = g
    BY <2>1 DEF LogInv
  <2>4. g \/ (a <= now /\ now <= a + MaxLag)
    BY <1>0, <2>1
  <2>5. \A q \in Recorders : pending'[q] # Idle =>
           /\ pending'[q].task \in LogTasks /\ pending'[q].at \in Nat
           /\ pending'[q].given \/ (pending'[q].at <= now' /\ now' <= pending'[q].at + MaxLag)
    BY <2>2, <2>3, <2>4 DEF LogInv
  <2> QED
    BY <2>2, <2>3, <2>5 DEF LogInv
<1>3. ASSUME events' \in [LogTasks -> Seq(Nat)], UNCHANGED <<now, pending>>,
             \A t \in LogTasks : events'[t] = <<>> \/ (events'[t] = events[t] /\ (t \in marked => t \in marked'))
      PROVE  LogInv'
  <2>1. \A t \in LogTasks \ marked' : \A i \in 1..Len(events'[t]) :
          Len(events'[t]) = Len(events[t]) /\ events'[t] = events[t] /\ t \notin marked
    BY <1>3
  <2> QED
    BY <1>3, <2>1 DEF LogInv
<1>4. ASSUME NEW t \in LogTasks, Purge(t) PROVE LogInv'
  BY <1>3, <1>4 DEF Purge, LogInv
<1>5. CASE PurgeExpired
  BY <1>3, <1>5 DEF PurgeExpired, LogInv
<1>6. CASE LogTick
  <2>1. now' = now + 1 /\ UNCHANGED <<events, pending, marked>>
    BY <1>6 DEF LogTick
  <2>2. ASSUME NEW r \in Recorders, pending[r] # Idle, ~pending[r].given
        PROVE  pending[r].at <= now + 1 /\ now + 1 <= pending[r].at + MaxLag
    <3>1. PICK a \in Nat : a = pending[r].at /\ a <= now
      BY <2>2 DEF LogInv
    <3>2. now - a < MaxLag
      BY <1>6, <2>2, <3>1 DEF LogTick
    <3>3. a <= now + 1 /\ now + 1 <= a + MaxLag
      BY <1>0, <3>1, <3>2
    <3> QED
      BY <3>1, <3>3
  <2>3. \A t \in LogTasks \ marked : \A i \in 1..Len(events[t]) : events[t][i] \in Nat /\ events[t][i] <= now + 1
    BY DEF LogInv
  <2> QED
    BY <2>1, <2>2, <2>3 DEF LogInv
<1>7. CASE UNCHANGED logVars
  BY <1>7 DEF logVars, LogInv
<1> QED
  BY <1>1, <1>2, <1>4, <1>5, <1>6, <1>7 DEF LogNext

(* PurgeExpired removes no event younger than maxAge by more than the time *)
(* that a Record waits for the lock, for any number of recorders and any   *)
(* task for which no caller brought a timestamp.                           *)
THEOREM PurgesOnlyOld == NodeSpec => PurgeKeepsFresh
<1> DEFINE Fresh == PurgeExpired => \A t \in LogTasks : Expired(t) /\ t \notin marked =>
                      \A i \in 1..Len(events[t]) : now - events[t][i] > MaxAge - MaxLag
<1>1. ASSUME LogInv PROVE Fresh
  <2> SUFFICES ASSUME NEW t \in LogTasks, Expired(t), t \notin marked, NEW i \in 1..Len(events[t])
               PROVE  now - events[t][i] > MaxAge - MaxLag
    OBVIOUS
  <2>1. PICK n \in Nat : n = Len(events[t])
    BY <1>1 DEF LogInv
  <2>2. PICK a \in Nat, b \in Nat : a = events[t][i] /\ b = events[t][n] /\ n \in 1..n
    BY <1>1, <2>1 DEF LogInv
  <2>3. a <= b + MaxLag
    <3>1. i < n => a <= b + MaxLag
      BY <1>1, <2>1, <2>2 DEF LogInv
    <3>2. MaxLag \in Nat /\ (i = n \/ i < n)
      BY <2>1, LogAssumption
    <3> QED
      BY <2>2, <3>1, <3>2
  <2>4. b < now - MaxAge
    BY <2>1, <2>2 DEF Expired
  <2>5. now \in Nat /\ MaxLag \in Nat /\ MaxAge \in Nat
    BY <1>1, LogAssumption DEF LogInv
  <2>6. now - a > MaxAge - MaxLag
    <3>1. \A x, y, c, age, lag \in Int : x <= y + lag /\ y < c - age => c - x > age - lag
      OBVIOUS
    <3> QED
      BY <2>2, <2>3, <2>4, <2>5, <3>1
  <2> QED
    BY <2>2, <2>6
<1>2. [NodeNext]_nodeVars => [LogNext]_logVars
  BY OnePartMoves
<1> QED
  BY LogInitially, LogStep, NodeStarts, <1>1, <1>2, PTL DEF NodeSpec, PurgeKeepsFresh

-----------------------------------------------------------------------------
(* The file of the audit trail.                                            *)

AuditFiles == [lines : Seq(Nat), size : Nat]

(* What is over the limit is one line, or ends in a torn one.              *)
Bounded(file) == file.size > Limit => Len(file.lines) = 1 \/ EndsTorn(file)

(* Block 0 is never acknowledged, so a torn line costs no acknowledged     *)
(* block; and an open appender knows the size of its file.                 *)
FileInv ==
  /\ current \in AuditFiles /\ rotated \in [0..MaxSecond -> AuditFiles] /\ second \in 0..MaxSecond
  /\ calls \in Nat /\ acked \subseteq 1..calls
  /\ AcknowledgedKept
  /\ Bounded(current) /\ \A s \in 0..MaxSecond : Bounded(rotated[s])
  /\ appender = "open" => currentSize = current.size

(* A line is appended, or swallowed by the torn one before it.             *)
LEMMA ExtendKeeps ==
  ASSUME NEW file \in AuditFiles, NEW block \in Nat, NEW len \in Nat
  PROVE  /\ Extend(file, block, len) \in AuditFiles
         /\ Extend(file, block, len).size = file.size + len
         /\ Held(file) \subseteq Held(Extend(file, block, len))
         /\ block = 0 => EndsTorn(Extend(file, block, len))
<1>1. PICK n \in Nat : n = Len(file.lines)
  BY DEF AuditFiles
<1>2. PICK longer : longer = Extend(file, block, len)
  OBVIOUS
<1>3. longer.size = file.size + len /\ longer.size \in Nat
  BY <1>2 DEF Extend, AuditFiles
<1>4. CASE EndsTorn(file)
  <2>1. longer.lines = file.lines /\ longer \in AuditFiles
    BY <1>2, <1>4 DEF Extend, AuditFiles
  <2> QED
    BY <1>2, <1>3, <1>4, <2>1 DEF Held, EndsTorn
<1>5. CASE ~EndsTorn(file)
  <2>1. longer.lines = Append(file.lines, block) /\ longer \in AuditFiles
    BY <1>2, <1>5 DEF Extend, AuditFiles
  <2>2. /\ Len(longer.lines) = n + 1 /\ longer.lines[n + 1] = block /\ DOMAIN longer.lines = 1..(n + 1)
        /\ longer.lines # <<>> /\ DOMAIN file.lines = 1..n
        /\ \A i \in 1..n : longer.lines[i] = file.lines[i]
    BY <1>1, <2>1 DEF AuditFiles
  <2>3. Held(file) \subseteq Held(longer)
    BY <1>1, <2>2 DEF Held, ToSet
  <2>4. block = 0 => EndsTorn(longer)
    BY <2>2 DEF EndsTorn, Last
  <2> QED
    BY <1>2, <1>3, <2>1, <2>3, <2>4
<1> QED
  BY <1>4, <1>5

(* A torn byte keeps a file bounded, whatever its size.                    *)
LEMMA TearKeeps ==
  ASSUME NEW file \in AuditFiles
  PROVE  Tear(file) \in AuditFiles /\ Held(file) \subseteq Held(Tear(file)) /\ Bounded(Tear(file))
BY ExtendKeeps DEF Tear, Bounded

(* An empty file holds nothing and is within any limit.                    *)
LEMMA EmptyKeeps == EmptyFile \in AuditFiles /\ EmptyFile.lines = <<>> /\ EmptyFile.size = 0 /\ Bounded(EmptyFile)
<1>1. Limit \in Nat
  BY AuditFileAssumption
<1> QED
  BY <1>1 DEF EmptyFile, AuditFiles, Bounded

(* Where an acknowledged block is, one file at a time.                     *)
LEMMA KeptMeans ==
  ASSUME AcknowledgedKept, NEW b \in acked
  PROVE  b \in excused \/ b \in Held(current) \/ \E s \in 0..MaxSecond : b \in Held(rotated[s])
BY DEF AcknowledgedKept, Files

(* The trail begins with empty files and nothing acknowledged.             *)
LEMMA FileInitially == AuditFileInit => FileInv
<1> SUFFICES ASSUME AuditFileInit PROVE FileInv
  OBVIOUS
<1>1. MaxSecond \in Nat
  BY AuditFileAssumption
<1> QED
  BY <1>1, EmptyKeeps DEF AuditFileInit, FileInv, AcknowledgedKept

(* rotate replaces a file, whose blocks are then excused, by the current   *)
(* one.                                                                    *)
LEMMA RotateKeeps ==
  ASSUME FileInv, Rotate
  PROVE  /\ rotated' \in [0..MaxSecond -> AuditFiles]
         /\ \A s \in 0..MaxSecond : Bounded(rotated'[s])
         /\ \A b \in acked : b \in excused' \/ \E s \in 0..MaxSecond : b \in Held(rotated'[s])
<1>0. RotatedName \in 0..MaxSecond
  BY AuditFileAssumption DEF FileInv, RotatedName
<1>1. /\ rotated' \in [0..MaxSecond -> AuditFiles] /\ rotated'[RotatedName] = current
      /\ \A s \in 0..MaxSecond : s # RotatedName => rotated'[s] = rotated[s]
  BY <1>0 DEF FileInv, Rotate
<1>2. \A s \in 0..MaxSecond : Bounded(rotated'[s])
  BY <1>1 DEF FileInv
<1>3. ASSUME NEW b \in acked PROVE b \in excused' \/ \E s \in 0..MaxSecond : b \in Held(rotated'[s])
  <2>1. b \in excused \/ b \in Held(current) \/ \E s \in 0..MaxSecond : b \in Held(rotated[s])
    BY <1>3, KeptMeans DEF FileInv
  <2>2. excused' = excused \cup (Held(rotated[RotatedName]) \cap acked)
    BY DEF Rotate
  <2> QED
    BY <1>0, <1>1, <1>3, <2>1, <2>2
<1> QED
  BY <1>1, <1>2, <1>3

(* Rotation, failed writes, restarts and torn lines keep every             *)
(* acknowledged block that is not excused, and the files bounded.          *)
LEMMA FileStep == FileInv /\ [AuditFileNext]_auditFileVars => FileInv'
<1> SUFFICES ASSUME FileInv, [AuditFileNext]_auditFileVars PROVE FileInv'
  OBVIOUS
<1>0. /\ current \in AuditFiles /\ rotated \in [0..MaxSecond -> AuditFiles] /\ second \in 0..MaxSecond
      /\ calls \in Nat /\ acked \subseteq 1..calls /\ Sizes \subseteq Nat /\ MaxSecond \in Nat /\ Limit \in Nat
      /\ Bounded(current) /\ \A s \in 0..MaxSecond : Bounded(rotated[s])
  BY AuditFileAssumption DEF FileInv
<1>1. ASSUME current' \in AuditFiles, Held(current) \subseteq Held(current'), Bounded(current'),
             calls' \in Nat, calls <= calls', UNCHANGED <<rotated, acked, excused>>, second' \in 0..MaxSecond,
             appender' = "open" => currentSize' = current'.size
      PROVE  FileInv'
  <2>1. ASSUME NEW b \in acked'
        PROVE  b \in excused' \/ b \in Held(current') \/ \E s \in 0..MaxSecond : b \in Held(rotated'[s])
    <3>1. b \in acked
      BY <1>1
    <3> QED
      BY <1>1, <3>1, KeptMeans DEF FileInv
  <2>2. AcknowledgedKept'
    BY <2>1 DEF AcknowledgedKept, Files
  <2>3. acked' \subseteq 1..calls'
    BY <1>0, <1>1
  <2>4. rotated' \in [0..MaxSecond -> AuditFiles] /\ \A s \in 0..MaxSecond : Bounded(rotated'[s])
    BY <1>0, <1>1
  <2> QED
    BY <1>1, <2>2, <2>3, <2>4 DEF FileInv, Bounded
<1>2. CASE Open
  <2>1. UNCHANGED <<current, rotated, second, calls, acked, excused>> /\ currentSize' = current.size
    BY <1>2 DEF Open
  <2>2. Bounded(current')
    BY <1>0, <2>1
  <2> QED
    BY <1>0, <1>1, <2>1, <2>2
<1>3. CASE NextSecond \/ UNCHANGED auditFileVars
  <2>1. UNCHANGED <<current, rotated, calls, acked, excused, currentSize, appender>> /\ second' \in 0..MaxSecond
    BY <1>0, <1>3 DEF NextSecond, auditFileVars
  <2>2. Bounded(current') /\ (appender' = "open" => currentSize' = current'.size)
    BY <1>0, <2>1 DEF FileInv
  <2> QED
    BY <1>0, <1>1, <2>1, <2>2
<1>4. CASE ProcessEnds
  <2>1. /\ UNCHANGED <<rotated, second, acked, excused>> /\ appender' = "closed"
        /\ calls' \in {calls, calls + 1} /\ current' \in {current, Tear(current)}
    BY <1>4 DEF ProcessEnds
  <2>2. current' \in AuditFiles /\ Held(current) \subseteq Held(current') /\ Bounded(current')
    BY <1>0, <2>1, TearKeeps
  <2> QED
    BY <1>0, <1>1, <2>1, <2>2
<1>5. ASSUME NEW len \in Sizes, AppendBlockFails(len) PROVE FileInv'
  <2>1. calls' = calls + 1 /\ appender' = "broken" /\ UNCHANGED <<second, acked>>
    BY <1>5 DEF AppendBlockFails
  <2>2. CASE current' \in {current, Tear(current)} /\ UNCHANGED <<rotated, excused>>
    <3>1. current' \in AuditFiles /\ Held(current) \subseteq Held(current') /\ Bounded(current')
      BY <1>0, <2>2, TearKeeps
    <3> QED
      BY <1>0, <1>1, <2>1, <2>2, <3>1
  <2>3. CASE Rotate /\ current' \in {EmptyFile, Tear(EmptyFile)}
    <3>1. current' \in AuditFiles /\ Bounded(current')
      BY <2>3, EmptyKeeps, TearKeeps
    <3>2. AcknowledgedKept'
      BY <2>1, <2>3, RotateKeeps DEF AcknowledgedKept, Files
    <3>3. acked' \subseteq 1..calls' /\ calls' \in Nat
      BY <1>0, <2>1
    <3> QED
      BY <1>0, <2>1, <2>3, <3>1, <3>2, <3>3, RotateKeeps DEF FileInv, Bounded
  <2> QED
    BY <1>5, <2>2, <2>3 DEF AppendBlockFails
<1>6. ASSUME NEW len \in Sizes, AppendBlock(len) PROVE FileInv'
  <2>1. /\ current' = Extend(current, calls + 1, len) /\ calls' = calls + 1 /\ acked' = acked \cup {calls + 1}
        /\ UNCHANGED <<rotated, second>> /\ currentSize' = currentSize + len
        /\ excused \subseteq excused' /\ (calls + 1 \in Held(current') \/ calls + 1 \in excused')
        /\ currentSize + len <= Limit /\ currentSize = current.size
    BY <1>6 DEF AppendBlock, Fits, FileInv
  <2>0. calls + 1 \in Nat /\ len \in Nat
    BY <1>0
  <2>2. current' \in AuditFiles /\ Held(current) \subseteq Held(current') /\ current'.size = current.size + len
    BY <1>0, <2>0, <2>1, ExtendKeeps
  <2>3. Bounded(current')
    BY <1>0, <2>1, <2>2 DEF Bounded, AuditFiles
  <2>4. ASSUME NEW b \in acked'
        PROVE  b \in excused' \/ b \in Held(current') \/ \E s \in 0..MaxSecond : b \in Held(rotated'[s])
    BY <2>1, <2>2, KeptMeans DEF FileInv
  <2>5. AcknowledgedKept'
    BY <2>4 DEF AcknowledgedKept, Files
  <2>6. calls' \in Nat /\ acked' \subseteq 1..calls'
    BY <1>0, <2>1
  <2>7. rotated' \in [0..MaxSecond -> AuditFiles] /\ \A s \in 0..MaxSecond : Bounded(rotated'[s])
    BY <1>0, <2>1
  <2> QED
    BY <1>0, <2>1, <2>2, <2>3, <2>5, <2>6, <2>7 DEF FileInv, Bounded
<1>7. ASSUME NEW len \in Sizes, AppendBlockRotated(len) PROVE FileInv'
  <2>1. /\ current' = Extend(EmptyFile, calls + 1, len) /\ calls' = calls + 1 /\ acked' = acked \cup {calls + 1}
        /\ Rotate /\ UNCHANGED second /\ currentSize' = len
    BY <1>7 DEF AppendBlockRotated
  <2>0. calls + 1 \in Nat /\ len \in Nat /\ 0 + len = len
    BY <1>0
  <2>2. current' \in AuditFiles /\ current'.size = len
    BY <2>0, <2>1, EmptyKeeps, ExtendKeeps
  <2>3. current'.lines = <<calls + 1>>
    BY <2>1, EmptyKeeps DEF Extend, EndsTorn
  <2>4. Len(current'.lines) = 1 /\ calls + 1 \in Held(current')
    BY <2>3 DEF Held, ToSet
  <2>5. Bounded(current')
    BY <2>4 DEF Bounded
  <2>6. AcknowledgedKept'
    BY <2>1, <2>4, RotateKeeps DEF AcknowledgedKept, Files
  <2>7. calls' \in Nat /\ acked' \subseteq 1..calls'
    BY <1>0, <2>1
  <2> QED
    BY <1>0, <2>1, <2>2, <2>5, <2>6, <2>7, RotateKeeps DEF FileInv, Bounded
<1> QED
  BY <1>2, <1>3, <1>4, <1>5, <1>6, <1>7 DEF AuditFileNext

(* A block whose AppendBlock returned nil stays in one of the files,       *)
(* through rotation, failed writes and restarts, for any limit and any     *)
(* sizes, unless it was lost in one of the two excused ways; and rotation  *)
(* bounds every file.                                                      *)
THEOREM AuditTrailIsKept == NodeSpec => []AuditTrailKept
<1>1. FileInv => AuditTrailKept
  BY DEF FileInv, AuditTrailKept, FilesBounded, Files, Bounded
<1>2. [NodeNext]_nodeVars => [AuditFileNext]_auditFileVars
  BY OnePartMoves
<1> QED
  BY FileInitially, FileStep, NodeStarts, <1>1, <1>2, PTL DEF NodeSpec

-----------------------------------------------------------------------------
(* The mTLS identity.                                                      *)

(* The files that parse are all of generation g.                           *)
Uniform(g) == \A f \in CertFiles : disk[f] \in {NoFile, Torn, g}

(* generateAndSave: what is under way, and what it has written.            *)
SaveInv ==
  /\ opened # "none" => booting = "saving" /\ opened \in todo
  /\ booting = "saving" => gen >= 1 /\ \A f \in CertFiles \ todo : disk[f] = gen

(* IdentityMatches says nothing of the files, from which a later boot      *)
(* takes the identity.  Before the first interruption they are all missing *)
(* or all of the latest generation, so that saving begins without any;     *)
(* after it the files that parse are of one generation until a repair,     *)
(* which replaces all four.                                                *)
DiskInv ==
  /\ interrupted = 0 /\ booting # "saving" =>
       (\A f \in CertFiles : disk[f] = NoFile) \/ (\A f \in CertFiles : disk[f] = gen)
  /\ interrupted = 0 /\ booting = "saving" => Uniform(gen)
  /\ booting # "saving" => \E g \in Nat : Uniform(g)

Undisturbed == expired = {} /\ interrupted <= 1

IdentityInv ==
  /\ IdentityTypeOK /\ SaveInv
  /\ Undisturbed => DiskInv /\ identity.ca = identity.leaf

(* Before the first boot no file exists.                                   *)
LEMMA IdentityInitially == IdentityInit => IdentityInv
<1> SUFFICES ASSUME IdentityInit PROVE IdentityInv
  OBVIOUS
<1>1. IdentityTypeOK /\ SaveInv /\ identity.ca = identity.leaf
  BY IdentityAssumption DEF IdentityInit, IdentityTypeOK, SaveInv, None
<1>2. Uniform(0)
  BY DEF IdentityInit, Uniform
<1>3. DiskInv
  BY <1>2 DEF IdentityInit, DiskInv
<1> QED
  BY <1>1, <1>3 DEF IdentityInv

(* Every step leaves well-typed state and keeps the books of saving.       *)
LEMMA SaveStep == IdentityTypeOK /\ SaveInv /\ [IdentityNext]_identityVars => IdentityTypeOK' /\ SaveInv'
<1> SUFFICES ASSUME IdentityTypeOK, SaveInv, [IdentityNext]_identityVars PROVE IdentityTypeOK' /\ SaveInv'
  OBVIOUS
<1> USE IdentityAssumption DEF IdentityTypeOK, SaveInv, Generations
<1>1. CASE GenerateAndSave
  BY <1>1 DEF GenerateAndSave
<1>2. ASSUME NEW f \in CertFiles, Truncate(f) PROVE IdentityTypeOK' /\ SaveInv'
  BY <1>2 DEF Truncate
<1>3. CASE WriteCertFile
  <2>1. opened \in CertFiles /\ opened \in todo /\ booting = "saving" /\ gen \in Generations
    BY <1>3 DEF WriteCertFile
  <2>2. disk' \in [CertFiles -> {NoFile, Torn} \cup Generations]
        /\ \A f \in CertFiles : disk'[f] = IF f = opened THEN gen ELSE disk[f]
    BY <1>3, <2>1 DEF WriteCertFile
  <2>3. identity' = None \/ identity' \in [ca : Generations, leaf : Generations]
    BY <1>3, <2>1 DEF WriteCertFile
  <2>4. todo' = todo \ {opened} /\ opened' = "none" /\ booting' \in {"up", "saving"} /\ UNCHANGED <<gen, expired, interrupted>>
    BY <1>3 DEF WriteCertFile
  <2> QED
    BY <2>1, <2>2, <2>3, <2>4
<1>4. CASE SavingInterrupted
  BY <1>4 DEF SavingInterrupted
<1>5. CASE LoadIdentity
  BY <1>5 DEF LoadIdentity, Readable
<1>6. CASE Shutdown
  BY <1>6 DEF Shutdown
<1>7. CASE ExpireCa
  BY <1>7 DEF ExpireCa
<1>8. CASE UNCHANGED identityVars
  BY <1>8 DEF identityVars
<1> QED
  BY <1>1, <1>2, <1>3, <1>4, <1>5, <1>6, <1>7, <1>8 DEF IdentityNext

(* No step that leaves the node undisturbed mixes generations.             *)
LEMMA DiskStep ==
  ASSUME IdentityTypeOK, SaveInv, Undisturbed => DiskInv /\ identity.ca = identity.leaf,
         [IdentityNext]_identityVars, Undisturbed'
  PROVE  DiskInv' /\ identity'.ca = identity'.leaf
<1>0. /\ Undisturbed /\ DiskInv /\ identity.ca = identity.leaf /\ gen \in Nat /\ interrupted \in Nat
      /\ disk \in [CertFiles -> {NoFile, Torn} \cup Generations]
  <2>1. Undisturbed
    BY DEF Undisturbed, IdentityTypeOK, IdentityNext, identityVars, GenerateAndSave, WriteCertFile,
           SavingInterrupted, LoadIdentity, Shutdown, ExpireCa, Truncate
  <2> QED
    BY <2>1 DEF IdentityTypeOK
<1>1. CASE GenerateAndSave
  <2>1. \E f \in CertFiles : disk[f] = NoFile
    BY <1>0, <1>1 DEF GenerateAndSave, CaExpired, Missing, Undisturbed
  <2>2. interrupted = 0 => \A f \in CertFiles : disk[f] = NoFile
    BY <1>0, <1>1, <2>1 DEF GenerateAndSave, DiskInv, NoFile
  <2>3. disk' = disk /\ interrupted' = interrupted /\ booting' = "saving" /\ identity' = identity
    BY <1>1 DEF GenerateAndSave
  <2> QED
    BY <1>0, <2>2, <2>3 DEF DiskInv, Uniform
<1>2. ASSUME NEW f \in CertFiles, Truncate(f) PROVE DiskInv' /\ identity'.ca = identity'.leaf
  <2>1. /\ booting = "saving" /\ booting' = "saving" /\ UNCHANGED <<interrupted, identity, gen>>
        /\ \A h \in CertFiles : disk'[h] = IF h = f THEN Torn ELSE disk[h]
    BY <1>0, <1>2 DEF Truncate
  <2> QED
    BY <1>0, <2>1 DEF DiskInv, Uniform
<1>3. CASE WriteCertFile
  <2>1. opened \in CertFiles /\ opened \in todo /\ booting = "saving"
    BY <1>3 DEF WriteCertFile, SaveInv, IdentityTypeOK
  <2>2. /\ \A f \in CertFiles : disk'[f] = IF f = opened THEN gen ELSE disk[f]
        /\ UNCHANGED <<gen, interrupted>> /\ booting' = IF todo' = {} THEN "up" ELSE "saving"
        /\ todo' = todo \ {opened}
    BY <1>0, <1>3, <2>1 DEF WriteCertFile
  <2>3. todo' = {} => \A f \in CertFiles : disk'[f] = gen'
    BY <2>1, <2>2 DEF SaveInv
  <2>4. todo' = {} => \E g \in Nat : Uniform(g)'
    BY <1>0, <2>2, <2>3 DEF Uniform
  <2>5. interrupted = 0 => Uniform(gen)'
    BY <1>0, <2>1, <2>2 DEF DiskInv, Uniform
  <2>6. identity'.ca = identity'.leaf
    BY <1>0, <1>3 DEF WriteCertFile
  <2> QED
    BY <2>2, <2>3, <2>4, <2>5, <2>6 DEF DiskInv
<1>4. CASE SavingInterrupted
  <2>1. /\ booting = "saving" /\ booting' = "down" /\ interrupted' = interrupted + 1
        /\ disk' = disk /\ gen' = gen /\ identity' = identity
    BY <1>4 DEF SavingInterrupted
  <2>2. interrupted = 0 /\ interrupted' # 0
    BY <1>0, <2>1 DEF Undisturbed
  <2>3. Uniform(gen)
    BY <1>0, <2>1, <2>2 DEF DiskInv
  <2> QED
    BY <1>0, <2>1, <2>2, <2>3 DEF DiskInv, Uniform
<1>5. CASE LoadIdentity
  <2>1. /\ booting = "down" /\ booting' = "up" /\ UNCHANGED <<disk, gen, interrupted>>
        /\ identity' = [ca |-> disk["ca.crt"], leaf |-> disk["node.crt"]]
        /\ disk["ca.crt"] \in Generations /\ disk["node.crt"] \in Generations
    BY <1>5 DEF LoadIdentity, Readable
  <2>2. PICK g \in Nat : Uniform(g)
    BY <1>0, <2>1 DEF DiskInv
  <2>3. disk["ca.crt"] = g /\ disk["node.crt"] = g
    BY <2>1, <2>2, IdentityAssumption DEF Uniform, CertFiles, Generations, NoFile, Torn
  <2> QED
    BY <1>0, <2>1, <2>3 DEF DiskInv, Uniform
<1>6. CASE Shutdown
  <2>1. booting = "up" /\ booting' = "down" /\ UNCHANGED <<disk, gen, interrupted>> /\ identity' = None
    BY <1>6 DEF Shutdown
  <2> QED
    BY <1>0, <2>1 DEF DiskInv, Uniform, None
<1>7. CASE ExpireCa
  BY <1>7 DEF ExpireCa, Undisturbed
<1>8. CASE UNCHANGED identityVars
  BY <1>0, <1>8 DEF identityVars, DiskInv, Uniform
<1> QED
  BY <1>1, <1>2, <1>3, <1>4, <1>5, <1>6, <1>7, <1>8 DEF IdentityNext

(* Whenever the process dies inside generateAndSave, and in whatever order *)
(* it writes the files, one interruption without an expiry never leaves a  *)
(* node with a leaf that its CA did not sign.                              *)
THEOREM IdentitiesMatch == NodeSpec => []IdentityMatches
<1>1. IdentityInv /\ [IdentityNext]_identityVars => IdentityInv'
  BY SaveStep, DiskStep DEF IdentityInv
<1>2. IdentityInv => IdentityMatches
  BY DEF IdentityInv, IdentityMatches, Undisturbed
<1>3. [NodeNext]_nodeVars => [IdentityNext]_identityVars
  BY OnePartMoves
<1> QED
  BY IdentityInitially, NodeStarts, <1>1, <1>2, <1>3, PTL DEF NodeSpec

-----------------------------------------------------------------------------
(* The stored login.                                                       *)

(* A writer inside Save is a command that wants to save; what it saves is  *)
(* a token unless the cloud, or a callback, has given it something else.   *)
(* A command that verifies has no background refresh yet.                  *)
WriterInv ==
  /\ "run" \in saving => runCmd = "save"
  /\ "refresh" \in saving => refresher = "save"
  /\ "login" \in saving => loginCmd = "save"
  /\ runCmd = "verify" => refresher = "idle"
  /\ runCmd = "save" => answer["run"] # "bad" \/ emptied
  /\ refresher = "save" => answer["refresh"] # "bad" \/ emptied
  /\ loginCmd = "save" => answer["login"] # "bad" \/ misled

(* The file is removed only after the account; a Save under way has        *)
(* created it.                                                             *)
AccountInv ==
  /\ deleteCmd = "request" => account
  /\ deleteCmd = "remove" => ~account
  /\ account /\ (stored \/ saving # {}) => token # "none"

(* The file is bad only after a mixed Save or an answer or a callback      *)
(* without a token, and empty only inside a Save.                          *)
TokenInv ==
  /\ ~torn /\ ~emptied /\ ~misled => token # "bad"
  /\ ~torn /\ token = "empty" => saving # {}

(* SessionKept speaks of the file alone; what the file will hold depends   *)
(* on the commands that are under way.                                     *)
AuthInv == AuthTypeOK /\ blocked <= callbacks /\ WriterInv /\ AccountInv /\ TokenInv

(* Nobody is logged in at first and no command runs.                       *)
LEMMA AuthInitially == AuthInit => AuthInv
<1> SUFFICES ASSUME AuthInit PROVE AuthInv
  OBVIOUS
<1>1. answer \in [Writers -> Tokens] /\ saving \subseteq Writers
  BY DEF AuthInit, Tokens
<1>2. {account, torn, emptied, misled, stored} \subseteq BOOLEAN
  BY DEF AuthInit
<1>3. AuthTypeOK /\ blocked <= callbacks
  BY <1>1, <1>2, AuthAssumption DEF AuthInit, AuthTypeOK
<1> QED
  BY <1>3 DEF AuthInit, AuthInv, WriterInv, AccountInv, TokenInv

(* Each command keeps its own state well-typed.                            *)
LEMMA AuthTypeStep ==
  AuthTypeOK /\ blocked <= callbacks /\ WriterInv /\ [AuthNext]_authVars => AuthTypeOK' /\ blocked' <= callbacks'
<1> SUFFICES ASSUME AuthTypeOK, blocked <= callbacks, WriterInv, [AuthNext]_authVars
             PROVE  AuthTypeOK' /\ blocked' <= callbacks'
  OBVIOUS
<1> USE AuthAssumption DEF AuthTypeOK, Tokens
<1>1. ASSUME NEW w \in Writers, SaveTruncate(w) PROVE AuthTypeOK' /\ blocked' <= callbacks'
  BY <1>1 DEF SaveTruncate, runVars, loginVars, deleteVars
<1>2. ASSUME NEW w \in Writers, SaveWrite(w) PROVE AuthTypeOK' /\ blocked' <= callbacks'
  <2>1. answer[w] \in Tokens
    OBVIOUS
  <2>2. token' \in Tokens \cup {"none", "empty"}
    BY <1>2, <2>1 DEF SaveWrite
  <2>3. torn' \in BOOLEAN /\ stored' \in BOOLEAN /\ saving' \subseteq Writers
    BY <1>2 DEF SaveWrite
  <2>4. runCmd' \in {"idle", "verify", "request", "save", "authenticated"} /\ refresher' \in {"idle", "request", "save"}
        /\ loginCmd' \in {"idle", "wait", "save", "shutdown", "done"}
    BY <1>2 DEF SaveWrite
  <2>5. UNCHANGED <<answer, read, emptied, misled, callbacks, blocked, deleteCmd, account>>
    BY <1>2 DEF SaveWrite, deleteVars
  <2> QED
    BY <2>2, <2>3, <2>4, <2>5
<1>3. CASE Load
  BY <1>3 DEF Load, fileVars, loginVars, deleteVars
<1>4. CASE Verify
  <2>1. runCmd' \in {"request", "authenticated", "idle"} /\ refresher' \in {"request", "idle"}
    BY <1>4 DEF Verify
  <2> QED
    BY <1>4, <2>1 DEF Verify, fileVars, loginVars, deleteVars
<1>5. ASSUME NEW w \in {"run", "refresh"}, NEW t \in {"fresh", "bad"}, RefreshAnswered(w, t)
      PROVE  AuthTypeOK' /\ blocked' <= callbacks'
  <2>1. answer' \in [Writers -> Tokens]
    BY <1>5 DEF RefreshAnswered
  <2>2. emptied' \in BOOLEAN
    BY <1>5 DEF RefreshAnswered
  <2>3. runCmd' \in {"idle", "verify", "request", "save", "authenticated"} /\ refresher' \in {"idle", "request", "save"}
    BY <1>5 DEF RefreshAnswered
  <2> QED
    BY <1>5, <2>1, <2>2, <2>3 DEF RefreshAnswered, loginVars, deleteVars
<1>6. ASSUME NEW w \in {"run", "refresh"}, RefreshFails(w) PROVE AuthTypeOK' /\ blocked' <= callbacks'
  <2>1. runCmd' \in {"idle", "verify", "request", "save", "authenticated"} /\ refresher' \in {"idle", "request", "save"}
    BY <1>6 DEF RefreshFails
  <2> QED
    BY <1>6, <2>1 DEF RefreshFails, fileVars, loginVars, deleteVars
<1>7. CASE RunEnds
  <2>1. torn' \in BOOLEAN
    BY <1>7 DEF RunEnds
  <2> QED
    BY <1>7, <2>1 DEF RunEnds, loginVars, deleteVars
<1>8. CASE Login \/ LoginTimeout \/ LoginShutdown
  BY <1>8 DEF Login, LoginTimeout, LoginShutdown, fileVars, runVars, deleteVars
<1>9. CASE Callback
  BY <1>9 DEF Callback, fileVars, runVars, deleteVars
<1>10. CASE ReceiveToken
  <2>1. answer' \in [Writers -> Tokens] /\ misled' \in BOOLEAN
    BY <1>10 DEF ReceiveToken
  <2> QED
    BY <1>10, <2>1 DEF ReceiveToken, runVars, deleteVars
<1>11. CASE LoginSaveFails
  <2>1. torn' \in BOOLEAN
    BY <1>11 DEF LoginSaveFails
  <2> QED
    BY <1>11, <2>1 DEF LoginSaveFails, runVars, deleteVars
<1>12. CASE DeleteRequest
  BY <1>12 DEF DeleteRequest, fileVars, runVars, loginVars
<1>13. CASE DeleteAnswered
  <2>1. deleteCmd' \in {"remove", "idle"} /\ account' \in BOOLEAN
    BY <1>13 DEF DeleteAnswered
  <2> QED
    BY <1>13, <2>1 DEF DeleteAnswered, fileVars, runVars, loginVars
<1>14. CASE DeleteToken
  BY <1>14 DEF DeleteToken, runVars, loginVars
<1>15. CASE TokenAges
  BY <1>15 DEF TokenAges, runVars, loginVars, deleteVars
<1>16. CASE UNCHANGED authVars
  BY <1>16 DEF authVars, fileVars, runVars, loginVars, deleteVars
<1> QED
  BY <1>1, <1>2, <1>3, <1>4, <1>5, <1>6, <1>7, <1>8, <1>9, <1>10, <1>11, <1>12, <1>13, <1>14, <1>15, <1>16
     DEF AuthNext, LoginStep, Writers

(* Every command enters and leaves Save through its own state.             *)
LEMMA WriterStep == AuthTypeOK /\ WriterInv /\ [AuthNext]_authVars => WriterInv'
<1> SUFFICES ASSUME AuthTypeOK, WriterInv, [AuthNext]_authVars PROVE WriterInv'
  OBVIOUS
<1>0. DOMAIN answer = Writers /\ saving \subseteq Writers
  BY DEF AuthTypeOK
<1> USE DEF WriterInv
<1>1. ASSUME NEW w \in Writers, SaveTruncate(w) PROVE WriterInv'
  BY <1>1 DEF SaveTruncate, Wants, Writers, runVars, loginVars
<1>2. ASSUME NEW w \in Writers, SaveWrite(w) PROVE WriterInv'
  BY <1>2 DEF SaveWrite, Writers
<1>3. CASE Load \/ Verify \/ RunEnds
  BY <1>3 DEF Load, Verify, RunEnds, fileVars, loginVars
<1>4. ASSUME NEW w \in {"run", "refresh"}, NEW t \in {"fresh", "bad"}, RefreshAnswered(w, t) PROVE WriterInv'
  <2>1. /\ answer'[w] = t /\ \A v \in Writers : v # w => answer'[v] = answer[v]
        /\ UNCHANGED <<saving, loginCmd, misled>>
    BY <1>0, <1>4 DEF RefreshAnswered, loginVars, Writers
  <2>2. emptied => emptied'
    BY <1>4 DEF RefreshAnswered
  <2>3. t = "bad" => emptied'
    BY <1>4 DEF RefreshAnswered
  <2> QED
    BY <1>4, <2>1, <2>2, <2>3 DEF RefreshAnswered, Writers
<1>5. ASSUME NEW w \in {"run", "refresh"}, RefreshFails(w) PROVE WriterInv'
  BY <1>5 DEF RefreshFails, fileVars, loginVars
<1>6. CASE Login \/ Callback \/ LoginTimeout \/ LoginShutdown \/ LoginSaveFails
  BY <1>6 DEF Login, Callback, LoginTimeout, LoginShutdown, LoginSaveFails, fileVars, runVars
<1>7. CASE ReceiveToken
  <2>1. (answer'["login"] = "bad" => misled') /\ answer'["run"] = answer["run"] /\ answer'["refresh"] = answer["refresh"]
    BY <1>0, <1>7 DEF ReceiveToken, Writers
  <2> QED
    BY <1>7, <2>1 DEF ReceiveToken, runVars
<1>8. CASE DeleteRequest \/ DeleteAnswered \/ DeleteToken \/ TokenAges \/ UNCHANGED authVars
  BY <1>8 DEF DeleteRequest, DeleteAnswered, DeleteToken, TokenAges, authVars, fileVars, runVars, loginVars
<1> QED
  BY <1>1, <1>2, <1>3, <1>4, <1>5, <1>6, <1>7, <1>8 DEF AuthNext, LoginStep, Writers

(* The file goes only with the account, whatever Save is doing.            *)
LEMMA AccountStep == AuthTypeOK /\ AccountInv /\ [AuthNext]_authVars => AccountInv'
<1> SUFFICES ASSUME AuthTypeOK, AccountInv, [AuthNext]_authVars PROVE AccountInv'
  OBVIOUS
<1> USE DEF AccountInv
<1>1. ASSUME NEW w \in Writers, SaveTruncate(w) PROVE AccountInv'
  BY <1>1 DEF SaveTruncate, deleteVars
<1>2. ASSUME NEW w \in Writers, SaveWrite(w) PROVE AccountInv'
  <2>1. answer[w] \in Tokens /\ w \in saving
    BY <1>2 DEF AuthTypeOK, SaveWrite
  <2>2. token # "none" => token' # "none"
    BY <1>2, <2>1 DEF SaveWrite, Tokens
  <2>3. UNCHANGED <<deleteCmd, account>>
    BY <1>2 DEF SaveWrite, deleteVars
  <2> QED
    BY <2>1, <2>2, <2>3
<1>3. CASE Load \/ Verify \/ RunEnds
  BY <1>3 DEF Load, Verify, RunEnds, fileVars, deleteVars
<1>4. ASSUME NEW w \in {"run", "refresh"}, NEW t \in {"fresh", "bad"}, RefreshAnswered(w, t) \/ RefreshFails(w)
      PROVE  AccountInv'
  BY <1>4 DEF RefreshAnswered, RefreshFails, fileVars, deleteVars
<1>5. CASE Login \/ Callback \/ LoginTimeout \/ LoginShutdown \/ LoginSaveFails \/ ReceiveToken
  BY <1>5 DEF Login, Callback, LoginTimeout, LoginShutdown, LoginSaveFails, ReceiveToken, fileVars, deleteVars
<1>6. CASE DeleteRequest \/ DeleteToken \/ TokenAges \/ UNCHANGED authVars
  BY <1>6 DEF DeleteRequest, DeleteToken, TokenAges, authVars, fileVars, deleteVars
<1>7. CASE DeleteAnswered
  <2>1. deleteCmd = "request" /\ UNCHANGED <<token, saving, stored>>
    BY <1>7 DEF DeleteAnswered, fileVars
  <2>2. (deleteCmd' = "remove" /\ ~account') \/ (deleteCmd' = "idle" /\ account')
    BY <1>7 DEF DeleteAnswered
  <2> QED
    BY <2>1, <2>2
<1> QED
  BY <1>1, <1>2, <1>3, <1>4, <1>5, <1>6, <1>7 DEF AuthNext, LoginStep, Writers

(* Only a completed Save, a truncation and time change a file that stays.  *)
LEMMA TokenStep == AuthTypeOK /\ WriterInv /\ TokenInv /\ [AuthNext]_authVars => TokenInv'
<1> SUFFICES ASSUME AuthTypeOK, WriterInv, TokenInv, [AuthNext]_authVars PROVE TokenInv'
  OBVIOUS
<1> USE DEF TokenInv
<1>1. ASSUME NEW w \in Writers, SaveTruncate(w) PROVE TokenInv'
  BY <1>1 DEF SaveTruncate, runVars, loginVars
<1>2. ASSUME NEW w \in Writers, SaveWrite(w) PROVE TokenInv'
  <2>1. answer[w] \in Tokens /\ emptied' = emptied /\ misled' = misled
    BY <1>2 DEF AuthTypeOK, SaveWrite
  <2>2. emptied \/ misled \/ answer[w] # "bad"
    BY <1>2 DEF SaveWrite, WriterInv, Writers
  <2>3. torn' \/ token' \in {answer[w], "none"}
    BY <1>2 DEF SaveWrite
  <2>4. token' # "empty"
    BY <1>2, <2>1 DEF SaveWrite, Tokens
  <2> QED
    BY <2>1, <2>2, <2>3, <2>4
<1>3. CASE Load \/ Verify
  BY <1>3 DEF Load, Verify, fileVars, loginVars
<1>4. CASE RunEnds
  <2>1. torn' \/ (~torn /\ saving \cap {"run", "refresh"} = {})
    BY <1>4 DEF RunEnds
  <2>2. saving \cap {"run", "refresh"} = {} => saving' = saving
    BY <1>4 DEF RunEnds
  <2> QED
    BY <1>4, <2>1, <2>2 DEF RunEnds, loginVars
<1>5. ASSUME NEW w \in {"run", "refresh"}, NEW t \in {"fresh", "bad"}, RefreshAnswered(w, t) \/ RefreshFails(w)
      PROVE  TokenInv'
  <2>1. UNCHANGED <<token, torn, saving, misled>>
    BY <1>5 DEF RefreshAnswered, RefreshFails, fileVars, loginVars
  <2>2. emptied => emptied'
    BY <1>5 DEF RefreshAnswered, RefreshFails
  <2> QED
    BY <2>1, <2>2
<1>6. CASE Login \/ Callback \/ LoginTimeout \/ LoginShutdown \/ ReceiveToken
  BY <1>6 DEF Login, Callback, LoginTimeout, LoginShutdown, ReceiveToken, fileVars, runVars
<1>7. CASE LoginSaveFails
  <2>1. torn' \/ (~torn /\ "login" \notin saving)
    BY <1>7 DEF LoginSaveFails
  <2>2. "login" \notin saving => saving' = saving
    BY <1>7 DEF LoginSaveFails
  <2> QED
    BY <1>7, <2>1, <2>2 DEF LoginSaveFails, runVars
<1>8. CASE DeleteRequest \/ DeleteAnswered \/ DeleteToken \/ TokenAges \/ UNCHANGED authVars
  BY <1>8 DEF DeleteRequest, DeleteAnswered, DeleteToken, TokenAges, authVars, fileVars, runVars, loginVars
<1> QED
  BY <1>1, <1>2, <1>3, <1>4, <1>5, <1>6, <1>7, <1>8 DEF AuthNext, LoginStep, Writers

(* Whatever the three commands do at the same time, a saved login stays    *)
(* until the account is deleted, and outside Save it is a token; excepted  *)
(* are a Save that is cut off or mixed, and a cloud or a callback that     *)
(* brings something else than a token.                                     *)
THEOREM SessionsKept == NodeSpec => []SessionKept
<1>1. AuthInv /\ [AuthNext]_authVars => AuthInv'
  BY AuthTypeStep, WriterStep, AccountStep, TokenStep DEF AuthInv
<1>2. AuthInv => SessionKept
  BY DEF AuthInv, AccountInv, TokenInv, SessionKept
<1>3. [NodeNext]_nodeVars => [AuthNext]_authVars
  BY OnePartMoves
<1> QED
  BY AuthInitially, NodeStarts, <1>1, <1>2, <1>3, PTL DEF NodeSpec

-----------------------------------------------------------------------------
(* The LLM routers.                                                        *)

(* The slice lists every provider once.                                    *)
LEMMA OrderListsAll ==
  ASSUME NEW s \in Orders
  PROVE  /\ Len(s) \in Nat /\ DOMAIN s = 1..Len(s)
         /\ \A i \in 1..Len(s) : s[i] \in Providers
         /\ \A p \in Providers : \E i \in 1..Len(s) : s[i] = p
<1>1. PICK n \in Nat : n = Cardinality(Providers)
  BY RoutingAssumption, FS_CardinalityType
<1>2. s \in [1..n -> Providers] /\ \A i, j \in 1..n : i # j => s[i] # s[j]
  BY <1>1 DEF Orders
<1>3. s \in Seq(Providers)
  BY <1>2, SeqDef
<1>4. Len(s) = n
  BY <1>2, <1>3, LenProperties
<1>5. s \in Injection(1..n, Providers)
  BY <1>2 DEF Injection, IsInjective
<1>6. Cardinality(1..n) = n
  BY <1>1, FS_Interval
<1>7. s \in Surjection(1..n, Providers)
  BY <1>1, <1>5, <1>6, FS_Injection, RoutingAssumption
<1> QED
  BY <1>2, <1>4, <1>7 DEF Surjection

(* Sorting the slice leaves its length.                                    *)
LEMMA SameLength == \A s, t \in Orders : Len(s) = Len(t)
<1> SUFFICES ASSUME NEW s \in Orders, NEW t \in Orders PROVE Len(s) = Len(t)
  OBVIOUS
<1>1. PICK n \in Nat : n = Cardinality(Providers)
  BY RoutingAssumption, FS_CardinalityType
<1>2. s \in [1..n -> Providers] /\ t \in [1..n -> Providers]
  BY <1>1 DEF Orders
<1>3. s \in Seq(Providers) /\ t \in Seq(Providers)
  BY <1>2, SeqDef
<1> QED
  BY <1>2, <1>3, LenProperties

(* While the slice stays as it is, the candidates were fit when the loop   *)
(* passed them, and no provider that it passed and that was fit all along  *)
(* is missing; only a FallbackRouter relies on the order.                  *)
RoutingInv ==
  /\ order \in Orders /\ at \in Nat \ {0} /\ candidates \subseteq Providers
  /\ router = "fallback" => Ranked(order)
  /\ execute = "idle" => at = 1 /\ candidates = {}
  /\ execute = "select" => at <= Len(order) + 1
  /\ always \subseteq Providers
  /\ execute = "select" => AllFit \subseteq ever /\ always \subseteq AllFit /\ candidates \subseteq ever
  /\ execute = "select" /\ ~moved =>
       /\ \A p \in candidates : \E j \in 1..Len(order) : j < at /\ order[j] = p
       /\ \A j \in 1..Len(order) : j < at /\ order[j] \in always => order[j] \in candidates

(* Select has not begun.                                                   *)
LEMMA RoutingInitially == RoutingInit => RoutingInv
BY DEF RoutingInit, RoutingInv

(* A turn of the loop, a status or a sort keep what the loop knows.        *)
LEMMA RoutingStep == RoutingInv /\ [RoutingNext]_routingVars => RoutingInv'
<1> SUFFICES ASSUME RoutingInv, [RoutingNext]_routingVars PROVE RoutingInv'
  OBVIOUS
<1>0. PICK n \in Nat : n = Len(order) /\ \A i \in 1..n : order[i] \in Providers
  BY OrderListsAll DEF RoutingInv
<1>1. CASE StatusChanges
  <2>1. UNCHANGED <<order, execute, router, at, candidates, moved>>
    BY <1>1 DEF StatusChanges, selectVars
  <2>2. /\ execute = "select" => ever' = ever \cup AllFit' /\ always' = always \cap AllFit'
        /\ execute # "select" => always' = always
    BY <1>1 DEF StatusChanges
  <2>3. always' \subseteq always
    BY <2>2
  <2> QED
    BY <2>1, <2>2, <2>3 DEF RoutingInv, Ranked
<1>2. CASE NewFallbackRouter
  <2>1. /\ order' \in Orders /\ Ranked(order')
        /\ UNCHANGED <<execute, router, at, candidates, healthy, ever, always>>
    BY <1>2 DEF NewFallbackRouter, selectVars
  <2>2. execute = "select" => moved'
    BY <1>2 DEF NewFallbackRouter
  <2>3. Len(order') = Len(order) /\ AllFit' = AllFit
    BY <2>1, SameLength DEF RoutingInv, AllFit, Fit
  <2> QED
    BY <2>1, <2>2, <2>3 DEF RoutingInv, Ranked
<1>3. CASE Execute
  <2>1. /\ execute = "idle" /\ execute' = "select" /\ UNCHANGED <<order, router, at, candidates, healthy, moved>>
        /\ ever' = AllFit /\ always' = AllFit
    BY <1>3 DEF Execute, selectVars
  <2>2. at = 1 /\ candidates = {} /\ AllFit' = AllFit /\ AllFit \subseteq Providers
    BY <2>1 DEF RoutingInv, AllFit, Fit
  <2> QED
    BY <1>0, <2>1, <2>2 DEF RoutingInv, Ranked
<1>4. CASE SelectTurn
  <2>1. /\ execute = "select" /\ at \in 1..n /\ at' = at + 1
        /\ candidates' = IF Fit(order[at]) THEN candidates \cup {order[at]} ELSE candidates
        /\ UNCHANGED <<order, execute, router, healthy, ever, always, moved>>
    BY <1>0, <1>4 DEF SelectTurn, RoutingInv, fitVars
  <2>2. AllFit' = AllFit
    BY <2>1 DEF AllFit, Fit
  <2>3. \A j \in 1..n : j < at' <=> j < at \/ j = at
    BY <1>0, <2>1
  <2>4. order[at] \in Providers /\ (Fit(order[at]) <=> order[at] \in AllFit)
    BY <1>0, <2>1 DEF AllFit
  <2>5. candidates \subseteq candidates' /\ candidates' \subseteq ever /\ candidates' \subseteq Providers
    BY <2>1, <2>4 DEF RoutingInv
  <2>6. ASSUME ~moved
        PROVE  /\ \A p \in candidates' : \E j \in 1..n : j < at' /\ order[j] = p
               /\ \A j \in 1..n : j < at' /\ order[j] \in always => order[j] \in candidates'
    <3>1. /\ \A p \in candidates : \E j \in 1..n : j < at /\ order[j] = p
          /\ \A j \in 1..n : j < at /\ order[j] \in always => order[j] \in candidates
          /\ always \subseteq AllFit
      BY <1>0, <2>1, <2>6 DEF RoutingInv
    <3> QED
      BY <2>1, <2>3, <2>4, <3>1
  <2>7. at' \in Nat \ {0} /\ at' <= n + 1
    BY <1>0, <2>1 DEF RoutingInv
  <2>8. order' \in Orders /\ (router' = "fallback" => Ranked(order'))
    BY <2>1 DEF RoutingInv
  <2> QED
    BY <1>0, <2>1, <2>2, <2>5, <2>6, <2>7, <2>8 DEF RoutingInv
<1>5. CASE SelectReturns
  <2>1. execute' \in {"failed", "attempt"} /\ UNCHANGED <<order, router, at, candidates, always>>
    BY <1>5 DEF SelectReturns, fitVars
  <2> QED
    BY <2>1 DEF RoutingInv, Ranked
<1>6. CASE AttemptSucceeds \/ AttemptFails \/ BackoffEnds \/ BackoffCancelled
  <2>1. execute' \in {"ok", "failed", "backoff", "attempt"} /\ UNCHANGED <<order, router, at, candidates, always>>
    BY <1>6 DEF AttemptSucceeds, AttemptFails, BackoffEnds, BackoffCancelled, selectVars, fitVars
  <2> QED
    BY <2>1 DEF RoutingInv, Ranked
<1>7. CASE UNCHANGED routingVars
  BY <1>7 DEF routingVars, selectVars, fitVars, RoutingInv, Ranked, AllFit, Fit
<1> QED
  BY <1>1, <1>2, <1>3, <1>4, <1>5, <1>6, <1>7 DEF RoutingNext

(* Whatever statuses change while Select looks, each of the three routers  *)
(* returns a provider that was fit meanwhile and ranks no higher than any  *)
(* that was fit all along, and fails only if none was, for any set of      *)
(* providers, ranking and order of the slice.                              *)
THEOREM RoutersSelectBest == NodeSpec => SelectsBest
<1> DEFINE best ==
      SelectReturns /\ ~moved =>
        /\ selected' \subseteq ever
        /\ \A p \in selected', q \in always : Rank[p] <= Rank[q]
        /\ selected' = {} => always = {}
<1>1. ASSUME RoutingInv PROVE best
  <2> SUFFICES ASSUME SelectReturns, ~moved PROVE best
    OBVIOUS
  <2>1. PICK n \in Nat : /\ n = Len(order) /\ DOMAIN order = 1..n
                         /\ \A p \in Providers : \E i \in 1..n : order[i] = p
    BY <1>1, OrderListsAll DEF RoutingInv
  <2>2. /\ execute = "select" /\ at \in Nat /\ candidates \subseteq ever
        /\ always \subseteq Providers
        /\ at > n \/ (router = "fallback" /\ candidates # {} /\ Ranked(order))
    BY <1>1, <2>1 DEF SelectReturns, RoutingInv
  <2>3. /\ \A p \in candidates : \E j \in 1..n : j < at /\ order[j] = p
        /\ \A j \in 1..n : j < at /\ order[j] \in always => order[j] \in candidates
    BY <1>1, <2>1, <2>2 DEF RoutingInv
  <2>4. at > n => always \subseteq candidates
    <3> SUFFICES ASSUME at > n, NEW p \in always PROVE p \in candidates
      OBVIOUS
    <3>1. PICK i \in 1..n : order[i] = p
      BY <2>1, <2>2
    <3>2. i < at
      BY <2>1, <2>2
    <3> QED
      BY <2>3, <3>1, <3>2
  <2>5. CASE candidates = {}
    <3>1. selected' = {} /\ always = {}
      BY <2>2, <2>4, <2>5 DEF SelectReturns
    <3> QED
      BY <3>1
  <2>6. CASE candidates # {}
    <3>1. PICK p \in Lowest(candidates) : selected' = {p}
      BY <2>6 DEF SelectReturns, Best
    <3>2. p \in candidates /\ p \in ever /\ \A q \in candidates : Rank[p] <= Rank[q]
      BY <2>2, <3>1 DEF Lowest
    <3>3. ASSUME NEW q \in always PROVE Rank[p] <= Rank[q]
      <4>1. CASE q \in candidates
        BY <3>2, <4>1
      <4>2. CASE q \notin candidates
        <5>1. Ranked(order)
          BY <2>2, <2>4, <4>2
        <5>2. PICK j \in 1..n : j < at /\ order[j] = p
          BY <2>3, <3>2
        <5>3. PICK k \in 1..n : order[k] = q
          BY <2>1, <2>2
        <5>4. ~(k < at)
          BY <2>3, <4>2, <5>3
        <5>5. j < k
          BY <2>1, <2>2, <5>2, <5>4
        <5> QED
          BY <2>1, <5>1, <5>2, <5>3, <5>5 DEF Ranked
      <4> QED
        BY <4>1, <4>2
    <3> QED
      BY <3>1, <3>2, <3>3
  <2> QED
    BY <2>5, <2>6
<1>2. [NodeNext]_nodeVars => [RoutingNext]_routingVars
  BY OnePartMoves
<1> QED
  BY RoutingInitially, RoutingStep, NodeStarts, <1>1, <1>2, PTL DEF NodeSpec, SelectsBest
-----------------------------------------------------------------------------
(* The memory server.                                                      *)

(* A Stop that found the listener has closed it for good: nobody waits to  *)
(* be accepted.                                                            *)
StopCloses == found => ~listening /\ \A q \in Queries : query[q] # "backlog"

(* From then on no connection is opened and none accepted, although Serve, *)
(* other handlers and further calls of Stop go on; the requests that were  *)
(* accepted before are still handled.                                      *)
NoneAccepted ==
  [][found => \A q \in Queries :
       query[q] \in {"none", "backlog"} => query'[q] = query[q]]_memoryServerVars

(* Stop finds a listener only after Serve stored it, so that no bind       *)
(* follows; only an open listener has a backlog.                           *)
ServerInv ==
  /\ DOMAIN query = Queries
  /\ serve \in {"idle", "bound", "failed"} => ~hasListener
  /\ serve = "idle" => ~listening
  /\ found => hasListener /\ ~listening /\ stop = "done"
  /\ \A q \in Queries : query[q] = "backlog" => listening

(* Nothing is bound and nobody is connected.                               *)
LEMMA ServerInitially == MemoryServerInit => ServerInv
BY DEF MemoryServerInit, ServerInv

(* Each step of Serve, Stop, a request or the store.                       *)
LEMMA ServerMoves == ServerInv /\ [MemoryServerNext]_memoryServerVars => ServerInv'
<1> SUFFICES ASSUME ServerInv, [MemoryServerNext]_memoryServerVars PROVE ServerInv'
  OBVIOUS
<1> USE DEF ServerInv, serverVars, queryVars
<1>1. CASE ServeBind \/ ServeStore \/ ServeAcceptFails \/ ServeCheckQuit \/ StopQuit
  <2>1. query' = query
    BY <1>1 DEF ServeBind, ServeStore, ServeAcceptFails, ServeCheckQuit, StopQuit
  <2>2. /\ serve' \in {"idle", "bound", "failed"} => ~hasListener'
        /\ found' => hasListener' /\ ~listening' /\ stop' = "done"
        /\ serve' = "idle" => ~listening'
        /\ listening => listening'
    BY <1>1 DEF ServeBind, ServeStore, ServeAcceptFails, ServeCheckQuit, StopQuit
  <2> QED
    BY <2>1, <2>2
<1>2. CASE StopListener
  <2>1. /\ query' = [q \in Queries |-> IF query[q] = "backlog" /\ hasListener THEN "closed" ELSE query[q]]
        /\ UNCHANGED <<serve, hasListener>>
        /\ stop' = "done" /\ found' = hasListener /\ listening' = (listening /\ ~hasListener)
    BY <1>2 DEF StopListener
  <2> QED
    BY <2>1
<1>3. CASE Panics
  <2>1. /\ \A q \in Queries : query'[q] # "backlog"
        /\ DOMAIN query' = Queries /\ ~listening' /\ UNCHANGED <<serve, hasListener, stop, found>>
    BY <1>3 DEF Panics
  <2> QED
    BY <2>1
<1>4. ASSUME NEW q \in Queries, ServeAccept(q) \/ SignQuery(q) \/ HandleDecode(q) \/ HandleRefuse(q) \/ HandleAnswer(q)
      PROVE  ServerInv'
  <2>1. /\ UNCHANGED serverVars
        /\ \E k \in {"backlog", "accepted", "sent", "refused", "answered", "closed"} :
             query' = [query EXCEPT ![q] = k] /\ (k = "backlog" => listening)
    BY <1>4 DEF ServeAccept, SignQuery, HandleDecode, HandleRefuse, HandleAnswer
  <2> QED
    BY <2>1
<1>5. CASE UNCHANGED <<serverVars, query>>
  BY <1>5
<1> QED
  BY <1>1, <1>2, <1>3, <1>4, <1>5
  DEF MemoryServerNext, HandleStep, HandlePanics, StopAgain, TokenExpires, StoreVector, DeleteVector, memoryServerVars

(* For any requests, and wherever Stop falls into Serve, its handlers and  *)
(* other calls of Stop: one that found the listener "stop[s] accepting new *)
(* connections" (memory/signed_store.go:186), there and then and for good. *)
THEOREM StopEndsAccepting == NodeSpec => []StopCloses /\ NoneAccepted
<1> DEFINE none == found => \A q \in Queries : query[q] \in {"none", "backlog"} => query'[q] = query[q]
<1>1. NodeInit => ServerInv
  BY NodeStarts, ServerInitially
<1>2. ServerInv /\ [NodeNext]_nodeVars => ServerInv'
  BY OnePartMoves, ServerMoves
<1>3. ServerInv => StopCloses
  BY DEF ServerInv, StopCloses
<1>4. ASSUME ServerInv, [NodeNext]_nodeVars PROVE [none]_memoryServerVars
  <2> SUFFICES ASSUME MemoryServerNext, found, NEW q \in Queries, query[q] \in {"none", "backlog"}
               PROVE  query'[q] = query[q]
    BY <1>4, OnePartMoves
  <2>1. query[q] = "none" /\ ~listening /\ stop = "done" /\ hasListener /\ DOMAIN query = Queries /\ serve # "idle"
    BY <1>4 DEF ServerInv
  <2>2. CASE Panics
    BY <2>1, <2>2 DEF Panics
  <2>3. ASSUME NEW p \in Queries, SignQuery(p) \/ ServeAccept(p) PROVE FALSE
    BY <2>1, <2>3 DEF SignQuery, ServeAccept
  <2>4. ASSUME NEW p \in Queries, HandleDecode(p) \/ HandleRefuse(p) \/ HandleAnswer(p) PROVE query'[q] = query[q]
    <3>1. p # q /\ \E k : query' = [query EXCEPT ![p] = k]
      BY <2>1, <2>4 DEF HandleDecode, HandleRefuse, HandleAnswer
    <3> QED
      BY <2>1, <3>1
  <2>5. CASE StopListener
    BY <2>1, <2>5 DEF StopListener
  <2>6. CASE query' = query
    BY <2>6
  <2> QED
    BY <2>2, <2>3, <2>4, <2>5, <2>6
    DEF MemoryServerNext, HandleStep, HandlePanics, StopAgain, TokenExpires, StoreVector, DeleteVector, queryVars,
        ServeBind, ServeStore, ServeAcceptFails, ServeCheckQuit, StopQuit
<1> QED
  BY <1>1, <1>2, <1>3, <1>4, PTL DEF NodeSpec, NoneAccepted

-----------------------------------------------------------------------------
(* The Discord gateway, which shares nothing with the node's other parts.  *)

(* HeartbeatEndsWithSession is not inductive: that no goroutine survives   *)
(* the drain needs it to have exited before Close, that it never writes    *)
(* first needs Identify sent before it starts, and that its connection is  *)
(* not closed needs one to be open in every step of a session.             *)
SessionInv ==
  /\ HeartbeatEndsWithSession
  /\ phase \in {"upgrade", "hello", "identify", "check", "read", "drain"} => ws \in {"open", "broken"}
  /\ hb \in {"begin", "select"} => "identify" \in frames
  /\ phase \in {"check", "read", "drain"} => hb \in {"begin", "select", "exited"}

(* Every step of a session keeps its heartbeat inside it.                  *)
LEMMA SessionStep == SessionInv /\ [DiscordNext]_discordVars => SessionInv'
<1> SUFFICES ASSUME SessionInv, [DiscordNext]_discordVars PROVE SessionInv'
  OBVIOUS
<1> USE DEF SessionInv, HeartbeatEndsWithSession, DiscordTypeOK, gatewayVars, frameVars
<1>1. CASE RunStep
  <2>1. CASE Top
    BY <2>1 DEF Top
  <2>2. CASE IdentifyFails
    BY <2>2 DEF IdentifyFails, Fail
  <2>3. CASE IdentifyOK
    BY <2>3 DEF IdentifyOK
  <2>4. CASE ReceiveCancelled
    BY <2>4 DEF ReceiveCancelled, EndSession
  <2>5. CASE ReceiveNext
    BY <2>5 DEF ReceiveNext
  <2>6. CASE ReceiveFails
    BY <2>6 DEF ReceiveFails, EndSession
  <2>7. CASE HeartbeatDone
    BY <2>7 DEF HeartbeatDone
  <2>8. CASE Disconnected
    BY <2>8 DEF Disconnected
  <2>9. CASE ReconnectWaitEnds
    <3>1. delay' \in {2, 4, 8, 16, 32, 64}
      BY <2>9 DEF ReconnectWaitEnds, DiscordBackoffMax
    <3> QED
      BY <2>9, <3>1 DEF ReconnectWaitEnds
  <2>10. CASE ReconnectWaitCancelled
    BY <2>10 DEF ReconnectWaitCancelled
  <2> QED
    BY <1>1, <2>1, <2>2, <2>3, <2>4, <2>5, <2>6, <2>7, <2>8, <2>9, <2>10 DEF RunStep
<1>2. CASE ServerStep
  <2>1. CASE UpgradeFails
    BY <2>1 DEF UpgradeFails, Fail
  <2>2. CASE UpgradeOK
    BY <2>2 DEF UpgradeOK
  <2>3. CASE HelloFails
    BY <2>3 DEF HelloFails, Fail
  <2>4. CASE HelloOK
    BY <2>4 DEF HelloOK
  <2> QED
    BY <1>2, <2>1, <2>2, <2>3, <2>4 DEF ServerStep
<1>3. CASE DialFails \/ DialOK
  <2>1. CASE DialFails
    BY <2>1 DEF DialFails, Fail
  <2>2. CASE DialOK
    BY <2>2 DEF DialOK
  <2> QED
    BY <1>3, <2>1, <2>2
<1>4. CASE PingFrame \/ ReceivePayload
  <2>1. CASE PingFrame
    BY <2>1 DEF PingFrame
  <2>2. CASE ReceivePayload
    BY <2>2 DEF ReceivePayload
  <2> QED
    BY <1>4, <2>1, <2>2
<1>5. CASE HeartbeatStep
  <2>1. CASE HeartbeatCancelled
    BY <2>1 DEF HeartbeatCancelled
  <2>2. CASE HeartbeatTick
    <3>1. ws \in {"open", "broken"} /\ ws # "closed"
      BY <2>2 DEF HeartbeatTick
    <3>2. ~lateWrite'
      BY <2>2, <3>1 DEF HeartbeatTick
    <3>3. /\ UNCHANGED <<phase, recvErr, delay, ctxDone, ws, connDone, interval, silent>>
          /\ hb = "select" /\ hb' \in {"select", "exited"} /\ frames \subseteq frames'
          /\ frames' \subseteq frames \cup {"heartbeat"}
      BY <2>2 DEF HeartbeatTick
    <3>4. "identify" \in frames'
      BY <3>3
    <3>5. lateWrite' \in BOOLEAN /\ frames' \subseteq {"identify", "heartbeat", "pong"}
      BY <2>2, <3>3 DEF HeartbeatTick
    <3>6. DiscordTypeOK'
      BY <3>3, <3>5 DEF DiscordTypeOK
    <3>7. phase \in {"check", "read", "drain"}
      BY <3>3
    <3> QED
      BY <3>1, <3>2, <3>3, <3>4, <3>6, <3>7
  <2>3. CASE HeartbeatBegins
    BY <2>3 DEF HeartbeatBegins
  <2>4. CASE TickerPanics
    BY <2>4 DEF TickerPanics
  <2> QED
    BY <1>5, <2>1, <2>2, <2>3, <2>4 DEF HeartbeatStep
<1>6. CASE CancelRun \/ ConnectionLost \/ ServerSilent
  <2>1. CASE CancelRun
    BY <2>1 DEF CancelRun
  <2>2. CASE ConnectionLost
    BY <2>2 DEF ConnectionLost
  <2>3. CASE ServerSilent
    BY <2>3 DEF ServerSilent
  <2> QED
    BY <1>6, <2>1, <2>2, <2>3
<1>7. CASE UNCHANGED discordVars
  BY <1>7 DEF discordVars
<1> QED
  BY <1>1, <1>2, <1>3, <1>4, <1>5, <1>6, <1>7 DEF DiscordNext

(* Whatever the server answers and whenever the connection breaks or the   *)
(* context is cancelled, connect outlives its heartbeat goroutine, which   *)
(* writes only after Identify and never to a closed connection.            *)
THEOREM NoHeartbeatOutlivesItsSession == DiscordSpec => []HeartbeatEndsWithSession
<1>1. DiscordInit => SessionInv
  BY DEF DiscordInit, SessionInv, HeartbeatEndsWithSession, DiscordTypeOK, DiscordBackoffBase
<1>2. SessionInv => HeartbeatEndsWithSession
  BY DEF SessionInv
<1> QED
  BY <1>1, <1>2, SessionStep, PTL DEF DiscordSpec
=============================================================================
