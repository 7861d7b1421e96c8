---------------------------- MODULE MemoryEngine ----------------------------
(***************************************************************************)
(* Conversation memory: MemoryEngine (core/memory/engine.go) over          *)
(* ZestDBStorage (core/memory/zestdb_adapter.go).  Messages are numbered   *)
(* in the order of Record; 0 is the summary.  The key of an entry is the   *)
(* nanosecond of its Record, which two calls may share.                    *)
(***************************************************************************)
EXTENDS Naturals, Sequences, FiniteSets

CONSTANTS
  MaxShortTerm,    \* capacity of the short-term memory
  MaxMessages      \* bound on the calls of Record

ASSUME MemoryAssumption == MaxShortTerm \in Nat /\ MaxMessages \in Nat

VARIABLES
  recorded,      \* history: number of messages so far
  shortTerm,     \* e.shortTermMem
  nano,          \* the clock
  data,          \* s.data: entries [key, message]
  gone           \* history: messages deleted, or overwritten under their key

memoryVars == <<recorded, shortTerm, nano, data, gone>>

MemoryInit == recorded = 0 /\ shortTerm = <<>> /\ nano = 0 /\ data = {} /\ gone = {}

Tail1(s) == SubSeq(s, 2, Len(s))

(* FIFO eviction, then Put, which replaces an entry of the same key.       *)
Record ==
  /\ recorded < MaxMessages /\ recorded' = recorded + 1
  /\ LET longer == Append(shortTerm, recorded')
     IN shortTerm' = IF Len(longer) > MaxShortTerm THEN Tail1(longer) ELSE longer
  /\ \E later \in {0, 1} : nano' = nano + later
  /\ LET clash == {e \in data : e.key = nano'}
     IN /\ data' = (data \ clash) \cup {[key |-> nano', message |-> recorded']}
        /\ gone' = gone \cup {e.message : e \in clash}

(* The older half kept in place of the newer one.                          *)
Summarize_OlderBug ==
  /\ Len(shortTerm) > 3
  /\ shortTerm' = <<0>> \o SubSeq(shortTerm, 1, Len(shortTerm) \div 2)
  /\ UNCHANGED <<recorded, nano, data, gone>>

(* The newer half stays, behind one summary; a summary among the older     *)
(* half goes with it.                                                      *)
Summarize ==
  /\ Len(shortTerm) > 3
  /\ shortTerm' = <<0>> \o SubSeq(shortTerm, Len(shortTerm) \div 2 + 1, Len(shortTerm))
  /\ UNCHANGED <<recorded, nano, data, gone>>

DeleteEntry ==
  /\ \E e \in data : data' = data \ {e} /\ gone' = gone \cup {e.message}
  /\ UNCHANGED <<recorded, shortTerm, nano>>

(* Search returns the matching entries, or any Limit of them: the order of *)
(* a Go map is random.                                                     *)
Search(matching, limit) ==
  LET found == {e \in data : e.message \in matching}
  IN IF Cardinality(found) <= limit THEN {found} ELSE {s \in SUBSET found : Cardinality(s) = limit}

(* Recall: the short-term memory, then what Search found for the query.    *)
Recall(matching) ==
  {[short |-> shortTerm, long |-> {e.message : e \in found}] : found \in Search(matching, 3)}

MemoryNext == Record \/ Summarize \/ DeleteEntry

MemorySpec == MemoryInit /\ [][MemoryNext]_memoryVars

Summaries == {i \in 1..Len(shortTerm) : shortTerm[i] = 0}

(* Whatever the order of Record and Summarize, the short-term memory stays *)
(* within its capacity and is the most recent messages in order, ending    *)
(* with the latest, behind at most one summary; and a query for a single   *)
(* message recalls it from storage unless it was deleted or another Record *)
(* of the same nanosecond replaced it.                                     *)
RecallsRecent ==
  /\ Len(shortTerm) <= MaxShortTerm
  /\ Summaries \subseteq {1}
  /\ \A i \in 1..Len(shortTerm) : shortTerm[i] # 0 => shortTerm[i] = recorded - (Len(shortTerm) - i)
  /\ \A m \in (1..recorded) \ gone : \A r \in Recall({m}) : r.long = {m}
=============================================================================
