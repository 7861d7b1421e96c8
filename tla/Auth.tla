-------------------------------- MODULE Auth --------------------------------
(***************************************************************************)
(* The stored login (core/auth.go) and the commands that share its file:   *)
(* "aether run" (cmd/aether/main.go), "aether login" and "aether account   *)
(* delete" (cmd/aether/auth.go), each a process of its own.                *)
(*                                                                         *)
(* A token is what Verify makes of it: "fresh", "near" (expires within 7   *)
(* days), "stale" (expired) or "bad" (malformed, foreign issuer, or the    *)
(* empty string).  The commands verify without a public key, so a bad      *)
(* signature is not among the reasons.  Save is os.WriteFile: truncate,    *)
(* then write, without a lock between processes.                           *)
(***************************************************************************)
EXTENDS Naturals, FiniteSets

CONSTANT MaxCallbacks        \* bound on the browser's calls of /callback

ASSUME AuthAssumption == MaxCallbacks \in Nat

Tokens == {"fresh", "near", "stale", "bad"}
Writers == {"run", "refresh", "login"}     \* who calls TokenStore.Save

VARIABLES
  token,       \* the token file: "none", "empty" or a token
  runCmd,      \* where "aether run" is
  read,        \* the token that it has loaded
  refresher,   \* where the background refresh of "aether run" is
  answer,      \* token that each writer is about to save
  saving,      \* writers between the truncation and the write
  loginCmd,    \* where "aether login" is
  callbacks,   \* requests to /callback so far
  blocked,     \* handlers of /callback that wait on tokenChan
  deleteCmd,   \* where "aether account delete" is
  account,     \* the account exists in the cloud
  torn,        \* history: a Save was cut off, or two were mixed
  emptied,     \* history: the cloud answered 200 without a good token
  misled,      \* history: a callback brought a token that is none
  stored       \* history: a Save has been completed

fileVars == <<token, answer, saving, torn, stored>>
runVars == <<runCmd, read, refresher, emptied>>
loginVars == <<loginCmd, callbacks, blocked, misled>>
deleteVars == <<deleteCmd, account>>
authVars == <<fileVars, runVars, loginVars, deleteVars>>

AuthTypeOK ==
  /\ token \in Tokens \cup {"none", "empty"}
  /\ runCmd \in {"idle", "verify", "request", "save", "authenticated"}
  /\ read \in Tokens \cup {"none", "empty"} /\ refresher \in {"idle", "request", "save"}
  /\ answer \in [Writers -> Tokens] /\ saving \subseteq Writers
  /\ loginCmd \in {"idle", "wait", "save", "shutdown", "done"}
  /\ callbacks \in 0..MaxCallbacks /\ blocked \in 0..MaxCallbacks
  /\ deleteCmd \in {"idle", "request", "remove"}
  /\ {account, torn, emptied, misled, stored} \subseteq BOOLEAN

AuthInit ==
  /\ token = "none" /\ runCmd = "idle" /\ read = "none" /\ refresher = "idle"
  /\ answer = [w \in Writers |-> "bad"] /\ saving = {}
  /\ loginCmd = "idle" /\ callbacks = 0 /\ blocked = 0
  /\ deleteCmd = "idle" /\ account = TRUE
  /\ torn = FALSE /\ emptied = FALSE /\ misled = FALSE /\ stored = FALSE

----------------------------------------------------------------------------
(* TokenStore.Save by writer w.                                            *)

Wants(w) == CASE w = "run" -> runCmd = "save" [] w = "refresh" -> refresher = "save" [] OTHER -> loginCmd = "save"

SaveTruncate(w) ==
  /\ Wants(w) /\ w \notin saving
  /\ saving' = saving \cup {w} /\ token' = "empty"
  /\ UNCHANGED <<answer, torn, stored, runVars, loginVars, deleteVars>>

(* A file that was removed meanwhile stays removed.  One that another      *)
(* writer has filled since the truncation keeps the tail of the longer     *)
(* token.  Then the run command verifies the token, login shuts down its   *)
(* server, and the background refresh is over.                             *)
SaveWrite(w) ==
  /\ w \in saving
  /\ token' \in CASE token = "none" -> {"none"} [] token = "empty" -> {answer[w]} [] OTHER -> {answer[w], "bad"}
  /\ torn' = (torn \/ token' \notin {answer[w], "none"})
  /\ stored' = TRUE /\ saving' = saving \ {w}
  /\ runCmd' = IF w # "run" THEN runCmd ELSE IF answer[w] \in {"fresh", "near"} THEN "authenticated" ELSE "idle"
  /\ refresher' = IF w = "refresh" THEN "idle" ELSE refresher
  /\ loginCmd' = IF w = "login" THEN "shutdown" ELSE loginCmd
  /\ UNCHANGED <<answer, read, emptied, callbacks, blocked, misled, deleteVars>>

----------------------------------------------------------------------------
(* aether run: Authenticate, then the engine until a result or a signal.   *)

Load ==
  /\ runCmd = "idle" /\ refresher = "idle" /\ token # "none"
  /\ read' = token /\ runCmd' = "verify"
  /\ UNCHANGED <<fileVars, refresher, emptied, loginVars, deleteVars>>

(* Verify: an expired token is refreshed before Authenticate returns, one  *)
(* that is near its end in the background, anything else ends the command. *)
Verify ==
  /\ runCmd = "verify"
  /\ runCmd' = CASE read = "stale" -> "request" [] read \in {"fresh", "near"} -> "authenticated" [] OTHER -> "idle"
  /\ refresher' = IF read = "near" THEN "request" ELSE "idle"
  /\ UNCHANGED <<fileVars, read, emptied, loginVars, deleteVars>>

(* SilentRefresh gets 200 and a token (possibly the empty string), or it   *)
(* returns an error: no answer in 10 seconds, another status, bad JSON.    *)
RefreshAnswered(w, t) ==
  /\ IF w = "run" THEN runCmd = "request" ELSE refresher = "request"
  /\ answer' = [answer EXCEPT ![w] = t]
  /\ emptied' = (emptied \/ t = "bad")
  /\ runCmd' = IF w = "run" THEN "save" ELSE runCmd
  /\ refresher' = IF w = "run" THEN refresher ELSE "save"
  /\ UNCHANGED <<token, saving, torn, stored, read, loginVars, deleteVars>>

RefreshFails_SavesBug(w) ==
  /\ IF w = "run" THEN runCmd = "request" ELSE refresher = "request"
  /\ answer' = [answer EXCEPT ![w] = "bad"]
  /\ runCmd' = IF w = "run" THEN "save" ELSE runCmd
  /\ refresher' = IF w = "run" THEN refresher ELSE "save"
  /\ UNCHANGED <<token, saving, torn, stored, read, emptied, loginVars, deleteVars>>

RefreshFails(w) ==
  /\ IF w = "run" THEN runCmd = "request" ELSE refresher = "request"
  /\ runCmd' = IF w = "run" THEN "idle" ELSE runCmd
  /\ refresher' = IF w = "run" THEN refresher ELSE "idle"
  /\ UNCHANGED <<fileVars, read, emptied, loginVars, deleteVars>>

(* The command ends, by its task's result or by a signal, and takes its    *)
(* background refresh with it, a Save in progress included.                *)
RunEnds ==
  /\ runCmd # "idle" /\ runCmd' = "idle" /\ refresher' = "idle"
  /\ torn' = (torn \/ saving \cap {"run", "refresh"} # {})
  /\ saving' = saving \ {"run", "refresh"}
  /\ UNCHANGED <<token, answer, stored, read, emptied, loginVars, deleteVars>>

----------------------------------------------------------------------------
(* aether login                                                            *)

Login ==
  /\ loginCmd \in {"idle", "done"} /\ account
  /\ loginCmd' = "wait" /\ blocked' = 0
  /\ UNCHANGED <<fileVars, runVars, callbacks, misled, deleteVars>>

(* The handler answers the browser, then sends on the unbuffered channel.  *)
Callback ==
  /\ loginCmd \in {"wait", "save"} /\ callbacks < MaxCallbacks
  /\ callbacks' = callbacks + 1 /\ blocked' = blocked + 1
  /\ UNCHANGED <<fileVars, runVars, loginCmd, misled, deleteVars>>

(* The token of the first callback, whatever it is: nothing compares the   *)
(* state and nothing verifies the token before it is saved.                *)
ReceiveToken ==
  /\ loginCmd = "wait" /\ blocked > 0
  /\ blocked' = blocked - 1 /\ loginCmd' = "save"
  /\ \E t \in Tokens : answer' = [answer EXCEPT !["login"] = t] /\ misled' = (misled \/ t = "bad")
  /\ UNCHANGED <<token, saving, torn, stored, runVars, callbacks, deleteVars>>

(* A select without its 5 minutes.                                         *)
LoginTimeout_NeverBug ==
  /\ loginCmd = "wait" /\ callbacks > MaxCallbacks /\ loginCmd' = "done"
  /\ UNCHANGED <<fileVars, runVars, callbacks, blocked, misled, deleteVars>>

(* log.Fatalf ends the process, with the server and its handlers: after 5  *)
(* minutes, or because the port is taken.                                  *)
LoginTimeout ==
  /\ loginCmd = "wait" /\ loginCmd' = "done"
  /\ UNCHANGED <<fileVars, runVars, callbacks, blocked, misled, deleteVars>>

LoginSaveFails ==
  /\ loginCmd = "save" /\ loginCmd' = "done"
  /\ torn' = (torn \/ "login" \in saving) /\ saving' = saving \ {"login"}
  /\ UNCHANGED <<token, answer, stored, runVars, callbacks, blocked, misled, deleteVars>>

(* Shutdown waits for the handlers, without a deadline.                    *)
LoginShutdown ==
  /\ loginCmd = "shutdown" /\ blocked = 0 /\ loginCmd' = "done"
  /\ UNCHANGED <<fileVars, runVars, callbacks, blocked, misled, deleteVars>>

----------------------------------------------------------------------------
(* aether account delete                                                   *)

DeleteRequest ==
  /\ deleteCmd = "idle" /\ token # "none" /\ account
  /\ deleteCmd' = "request"
  /\ UNCHANGED <<fileVars, runVars, loginVars, account>>

DeleteAnswered ==
  /\ deleteCmd = "request"
  /\ \E ok \in BOOLEAN : deleteCmd' = (IF ok THEN "remove" ELSE "idle") /\ account' = ~ok
  /\ UNCHANGED <<fileVars, runVars, loginVars>>

DeleteToken ==
  /\ deleteCmd = "remove" /\ deleteCmd' = "idle" /\ token' = "none"
  /\ UNCHANGED <<answer, saving, torn, stored, runVars, loginVars, account>>

(* Time passes for the stored token.                                       *)
TokenAges ==
  /\ token \in {"fresh", "near"}
  /\ token' = IF token = "fresh" THEN "near" ELSE "stale"
  /\ UNCHANGED <<answer, saving, torn, stored, runVars, loginVars, deleteVars>>

----------------------------------------------------------------------------
LoginStep == ReceiveToken \/ SaveTruncate("login") \/ SaveWrite("login") \/ LoginShutdown

AuthNext ==
  \/ Load \/ Verify \/ RunEnds \/ Login \/ Callback \/ LoginStep \/ LoginTimeout \/ LoginSaveFails
  \/ DeleteRequest \/ DeleteAnswered \/ DeleteToken \/ TokenAges
  \/ \E w \in {"run", "refresh"} :
        \/ SaveTruncate(w) \/ SaveWrite(w) \/ RefreshFails(w)
        \/ \E t \in {"fresh", "bad"} : RefreshAnswered(w, t)

AuthSpec == AuthInit /\ [][AuthNext]_authVars

(* A failed refresh, a refused deletion and any interleaving of the three  *)
(* commands leave the login as it was: once a token has been saved, the    *)
(* file is absent only after the account is deleted, and empty or bad only *)
(* while a Save is under way.  The code loses a working login in three     *)
(* ways, which are excepted: a process ends inside Save, for which the     *)
(* background refresh gives every run a chance, or two Saves mix; the      *)
(* cloud answers a refresh with 200 and no token; and /callback is called  *)
(* with something that is no token.  The last two are saved unverified.    *)
SessionKept ==
  /\ AuthTypeOK
  /\ stored /\ account => token # "none"
  /\ ~torn /\ saving = {} => token # "empty"
  /\ ~torn /\ ~emptied /\ ~misled => token # "bad"

(* Login ends, with or without a token, unless a second callback is        *)
(* waiting on the channel that nobody will read again: Shutdown then waits *)
(* for that handler for ever.                                              *)
LoginEnds == loginCmd = "wait" ~> (loginCmd = "done" \/ (loginCmd = "shutdown" /\ blocked > 0))
=============================================================================
