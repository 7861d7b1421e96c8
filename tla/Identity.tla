------------------------------ MODULE Identity ------------------------------
(***************************************************************************)
(* The node's mTLS identity on disk, LoadOrCreateIdentity of core/mtls.go. *)
(*                                                                         *)
(* Four files, each missing, torn or holding what generation n wrote:      *)
(* keys and certificates of one call of generateAndSave belong together.   *)
(* os.WriteFile truncates and then writes, one file after the other in the *)
(* random order of a Go map; the process may die, or a write fail, between *)
(* any two of these steps.                                                 *)
(***************************************************************************)
EXTENDS Integers

CONSTANTS
  MaxGenerations,    \* bound on the calls of generateAndSave
  MaxInterrupted     \* bound on the crashes and failed writes while saving

ASSUME IdentityAssumption == MaxGenerations \in Nat /\ MaxInterrupted \in Nat

CertFiles == {"ca.key", "ca.crt", "node.key", "node.crt"}

VARIABLES
  disk,          \* the content of each file
  booting,       \* what LoadOrCreateIdentity is doing
  gen,           \* generation that was created last
  todo,          \* files that generateAndSave has still to write
  opened,        \* the file that os.WriteFile has truncated
  expired,       \* generations whose CA certificate has expired
  interrupted,   \* history: how often saving did not finish
  identity       \* generations of the CA and of the leaf in use

identityVars == <<disk, booting, gen, todo, opened, expired, interrupted, identity>>

NoFile == -1   \* the file does not exist
Torn == 0      \* truncated, or written in part: it does not parse
None == [ca |-> 0, leaf |-> 0]
Generations == 1..MaxGenerations

IdentityTypeOK ==
  /\ disk \in [CertFiles -> {NoFile, Torn} \cup Generations]
  /\ booting \in {"down", "saving", "up"}
  /\ gen \in 0..MaxGenerations /\ todo \subseteq CertFiles /\ opened \in CertFiles \cup {"none"}
  /\ expired \subseteq Generations /\ interrupted \in 0..MaxInterrupted
  /\ identity = None \/ identity \in [ca : Generations, leaf : Generations]

IdentityInit ==
  /\ disk = [f \in CertFiles |-> NoFile]
  /\ booting = "down" /\ gen = 0 /\ todo = {} /\ opened = "none"
  /\ expired = {} /\ interrupted = 0 /\ identity = None

Missing == {f \in CertFiles : disk[f] = NoFile}
CaExpired == disk["ca.crt"] \in expired
Readable(f) == disk[f] \in Generations

(* A repair that writes only the files that are not there.                 *)
GenerateAndSave_MissingOnlyBug ==
  /\ booting = "down" /\ gen < MaxGenerations
  /\ Missing # {} \/ CaExpired
  /\ gen' = gen + 1 /\ todo' = (IF CaExpired THEN CertFiles ELSE Missing) /\ booting' = "saving"
  /\ UNCHANGED <<disk, opened, expired, interrupted, identity>>

(* Any file missing, or the CA expired: everything is made from scratch.   *)
GenerateAndSave ==
  /\ booting = "down" /\ gen < MaxGenerations
  /\ Missing # {} \/ CaExpired
  /\ gen' = gen + 1 /\ todo' = CertFiles /\ booting' = "saving"
  /\ UNCHANGED <<disk, opened, expired, interrupted, identity>>

Truncate(f) ==
  /\ booting = "saving" /\ opened = "none" /\ f \in todo
  /\ disk' = [disk EXCEPT ![f] = Torn] /\ opened' = f
  /\ UNCHANGED <<booting, gen, todo, expired, interrupted, identity>>

(* After the last file the new identity is used as it is in memory.        *)
WriteCertFile ==
  /\ opened # "none"
  /\ disk' = [disk EXCEPT ![opened] = gen]
  /\ todo' = todo \ {opened} /\ opened' = "none"
  /\ booting' = IF todo' = {} THEN "up" ELSE "saving"
  /\ identity' = IF todo' = {} THEN [ca |-> gen, leaf |-> gen] ELSE identity
  /\ UNCHANGED <<gen, expired, interrupted>>

(* A failed write returns an error and leaves the rest undone, as does the *)
(* end of the process.                                                     *)
SavingInterrupted ==
  /\ booting = "saving" /\ interrupted < MaxInterrupted
  /\ booting' = "down" /\ todo' = {} /\ opened' = "none" /\ interrupted' = interrupted + 1
  /\ UNCHANGED <<disk, gen, expired, identity>>

(* ca.key is never read again; LoadX509KeyPair compares the leaf's key and *)
(* certificate, and nobody compares the leaf with the CA.  A torn file, or *)
(* a pair that does not match, is an error on every boot.                  *)
LoadIdentity ==
  /\ booting = "down" /\ Missing = {} /\ ~CaExpired
  /\ Readable("ca.crt") /\ Readable("node.crt") /\ disk["node.key"] = disk["node.crt"]
  /\ identity' = [ca |-> disk["ca.crt"], leaf |-> disk["node.crt"]]
  /\ booting' = "up"
  /\ UNCHANGED <<disk, gen, todo, opened, expired, interrupted>>

Shutdown ==
  /\ booting = "up" /\ booting' = "down" /\ identity' = None
  /\ UNCHANGED <<disk, gen, todo, opened, expired, interrupted>>

ExpireCa ==
  /\ \E g \in 1..gen : g \notin expired /\ expired' = expired \cup {g}
  /\ UNCHANGED <<disk, booting, gen, todo, opened, interrupted, identity>>

IdentityNext ==
  \/ GenerateAndSave \/ WriteCertFile \/ SavingInterrupted \/ LoadIdentity \/ Shutdown \/ ExpireCa
  \/ \E f \in CertFiles : Truncate(f)

IdentitySpec == IdentityInit /\ [][IdentityNext]_identityVars

(* A leaf that its own CA did not sign fails every handshake.  As long as  *)
(* no CA expired and saving was interrupted at most once, the identity in  *)
(* use is of one generation: a file missing makes the next boot replace    *)
(* all four.  Two interruptions, or one after an expiry, can leave all     *)
(* four files present with two generations among them.                     *)
IdentityMatches ==
  /\ IdentityTypeOK
  /\ expired = {} /\ interrupted <= 1 => identity.ca = identity.leaf
=============================================================================
