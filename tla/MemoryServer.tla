---------------------------- MODULE MemoryServer ----------------------------
(***************************************************************************)
(* Signed queries against another node's vectors: MemoryServer,            *)
(* SignedMemoryStore (memory/signed_store.go) and VectorStore              *)
(* (memory/vector_store.go).                                               *)
(*                                                                         *)
(* Stop closes the listener that it finds in ms.listener, a field that     *)
(* Serve fills in without a lock after it has bound the port.  An entry is *)
(* its id, with a fixed similarity to the query.  A request comes with a   *)
(* certificate that is trusted, unknown or without an ECDSA key, with      *)
(* another key's signature, or with no token at all.  Nothing recovers a   *)
(* panic of Stop or of a handler: it ends the process.                     *)
(***************************************************************************)
EXTENDS Naturals, FiniteSets

CONSTANTS
  Queries,       \* connections, one signed request each
  Entries,       \* ids of vectors
  Score,         \* similarity of each entry's embedding to the query's
  Comparable,    \* entries of the query's dimension
  TopK           \* results asked for

ASSUME ServerAssumption ==
  /\ Score \in [Entries -> Nat] /\ Comparable \subseteq Entries /\ TopK \in Nat

VARIABLES
  serve,         \* where Serve is
  hasListener,   \* ms.listener is set
  listening,     \* the listener is open
  stop,          \* where Stop is: quit is closed from "quit" on
  found,         \* history: Stop found ms.listener set
  dead,          \* a panic ended the process
  query,         \* where each request is
  fresh,         \* its token is younger than tokenTTL
  cert,          \* the certificate that came with it
  entries,       \* vs.entries
  result         \* entries that the response holds

serverVars == <<serve, hasListener, listening, stop, found, dead>>
queryVars == <<query, fresh, cert, result>>
memoryServerVars == <<serverVars, queryVars, entries>>

Certs == {"trusted", "unknown", "badkey", "othersignature", "notoken"}

MemoryServerTypeOK ==
  /\ serve \in {"idle", "bound", "accept", "check", "returned", "failed"}
  /\ {hasListener, listening, found, dead} \subseteq BOOLEAN
  /\ stop \in {"no", "quit", "done"}
  /\ query \in [Queries -> {"none", "backlog", "accepted", "sent", "answered", "refused", "closed"}]
  /\ fresh \in [Queries -> BOOLEAN] /\ cert \in [Queries -> Certs]
  /\ entries \subseteq Entries /\ result \in [Queries -> SUBSET Entries]

MemoryServerInit ==
  /\ serve = "idle" /\ hasListener = FALSE /\ listening = FALSE
  /\ stop = "no" /\ found = FALSE /\ dead = FALSE
  /\ query = [q \in Queries |-> "none"] /\ fresh = [q \in Queries |-> FALSE]
  /\ cert = [q \in Queries |-> "unknown"] /\ entries = {}
  /\ result = [q \in Queries |-> {}]

----------------------------------------------------------------------------
ServeBind ==
  /\ ~dead /\ serve = "idle"
  /\ \E ok \in BOOLEAN : serve' = (IF ok THEN "bound" ELSE "failed") /\ listening' = ok
  /\ UNCHANGED <<hasListener, stop, found, dead, queryVars, entries>>

ServeStore ==
  /\ ~dead /\ serve = "bound" /\ serve' = "accept" /\ hasListener' = TRUE
  /\ UNCHANGED <<listening, stop, found, dead, queryVars, entries>>

ServeAccept(q) ==
  /\ ~dead /\ serve = "accept" /\ listening /\ query[q] = "backlog"
  /\ query' = [query EXCEPT ![q] = "accepted"]
  /\ UNCHANGED <<serverVars, fresh, cert, result, entries>>

(* Any error of Accept, of a closed listener or a passing one.             *)
ServeAcceptFails ==
  /\ ~dead /\ serve = "accept" /\ serve' = "check"
  /\ UNCHANGED <<hasListener, listening, stop, found, dead, queryVars, entries>>

(* The select on quit: without it the loop goes on, whatever the error.    *)
ServeCheckQuit ==
  /\ ~dead /\ serve = "check" /\ serve' = (IF stop # "no" THEN "returned" ELSE "accept")
  /\ UNCHANGED <<hasListener, listening, stop, found, dead, queryVars, entries>>

StopQuit ==
  /\ ~dead /\ stop = "no" /\ stop' = "quit"
  /\ UNCHANGED <<serve, hasListener, listening, found, dead, queryVars, entries>>

(* The process ends, and with it its listener and its connections.         *)
Panics ==
  /\ dead' = TRUE /\ listening' = FALSE
  /\ query' = [q \in Queries |-> IF query[q] \in {"backlog", "accepted", "sent"} THEN "closed" ELSE query[q]]
  /\ UNCHANGED <<serve, hasListener, stop, found, fresh, cert, result, entries>>

(* A second Stop closes a closed channel.                                  *)
StopAgain == ~dead /\ stop # "no" /\ Panics

(* The listener left open: the accept loop is told and not woken.          *)
StopListener_LeftOpenBug ==
  /\ ~dead /\ stop = "quit" /\ stop' = "done" /\ found' = hasListener
  /\ UNCHANGED <<serve, hasListener, listening, dead, queryVars, entries>>

(* Stop closes the listener if it is there yet; connections that nobody    *)
(* accepted go with it.                                                    *)
StopListener ==
  /\ ~dead /\ stop = "quit" /\ stop' = "done" /\ found' = hasListener
  /\ listening' = (listening /\ ~hasListener)
  /\ query' = [q \in Queries |-> IF query[q] = "backlog" /\ hasListener THEN "closed" ELSE query[q]]
  /\ UNCHANGED <<serve, hasListener, dead, fresh, cert, result, entries>>

----------------------------------------------------------------------------
(* The client signs its query with its node's key and connects.            *)
SignQuery(q) ==
  /\ ~dead /\ query[q] = "none" /\ listening
  /\ query' = [query EXCEPT ![q] = "backlog"] /\ fresh' = [fresh EXCEPT ![q] = TRUE]
  /\ \E c \in Certs : cert' = [cert EXCEPT ![q] = c]
  /\ UNCHANGED <<serverVars, result, entries>>

(* Decode: the request is in, or it failed or took 10 seconds.             *)
HandleDecode(q) ==
  /\ ~dead /\ query[q] = "accepted"
  /\ \E ok \in BOOLEAN : query' = [query EXCEPT ![q] = IF ok THEN "sent" ELSE "closed"]
  /\ UNCHANGED <<serverVars, fresh, cert, result, entries>>

(* AuthorisedQuery reads the time of a token that is nil.                  *)
HandlePanics(q) == ~dead /\ query[q] = "sent" /\ cert[q] = "notoken" /\ Panics

(* The checks of AuthorisedQuery, in any order: each failure refuses.      *)
Authorised(q) == fresh[q] /\ cert[q] = "trusted"

HandleRefuse(q) ==
  /\ ~dead /\ query[q] = "sent" /\ cert[q] # "notoken" /\ ~Authorised(q)
  /\ query' = [query EXCEPT ![q] = "refused"]
  /\ UNCHANGED <<serverVars, fresh, cert, result, entries>>

(* VectorStore.Query under the read lock: the topK most similar of the     *)
(* entries that can be compared, ties in any order.                        *)
Cut(S) == {T \in SUBSET S :
  /\ Cardinality(T) = IF Cardinality(S) < TopK THEN Cardinality(S) ELSE TopK
  /\ \A e \in T, f \in S \ T : Score[e] >= Score[f]}

VectorQuery == Cut(entries \cap Comparable)

HandleAnswer(q) ==
  /\ ~dead /\ query[q] = "sent" /\ Authorised(q)
  /\ query' = [query EXCEPT ![q] = "answered"]
  /\ \E r \in VectorQuery : result' = [result EXCEPT ![q] = r]
  /\ UNCHANGED <<serverVars, fresh, cert, entries>>

TokenExpires(q) ==
  /\ fresh[q] /\ query[q] \in {"backlog", "accepted", "sent"}
  /\ fresh' = [fresh EXCEPT ![q] = FALSE]
  /\ UNCHANGED <<serverVars, query, cert, result, entries>>

(* The node that owns the vectors goes on changing them.                   *)
StoreVector(e) ==
  /\ ~dead /\ e \notin entries /\ entries' = entries \cup {e}
  /\ UNCHANGED <<serverVars, queryVars>>

DeleteVector(e) ==
  /\ ~dead /\ e \in entries /\ entries' = entries \ {e}
  /\ UNCHANGED <<serverVars, queryVars>>

----------------------------------------------------------------------------
ServeLoop == ServeStore \/ ServeCheckQuit \/ (ServeAcceptFails /\ ~listening)
HandleStep(q) == HandleDecode(q) \/ HandlePanics(q) \/ HandleRefuse(q) \/ HandleAnswer(q)

MemoryServerNext ==
  \/ ServeBind \/ ServeStore \/ ServeAcceptFails \/ ServeCheckQuit
  \/ StopQuit \/ StopListener \/ StopAgain
  \/ \E q \in Queries : ServeAccept(q) \/ SignQuery(q) \/ HandleStep(q) \/ TokenExpires(q)
  \/ \E e \in Entries : StoreVector(e) \/ DeleteVector(e)

MemoryServerSpec == MemoryServerInit /\ [][MemoryServerNext]_memoryServerVars

(* Serve runs "until Stop is called" (memory/signed_store.go:194): it      *)
(* returns after every Stop that found the listener, unless a panic ends   *)
(* the process.                                                            *)
ServeReturns == found ~> (serve = "returned" \/ dead)
=============================================================================
