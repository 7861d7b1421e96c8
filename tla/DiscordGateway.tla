---------------------------- MODULE DiscordGateway ----------------------------
(***************************************************************************)
(* gateway/discord/gateway.go over gateway/discord/websocket.go: Run       *)
(* connects, upgrades, reads Hello, sends Identify, then receives payloads *)
(* while a heartbeat goroutine writes to the same connection; when the     *)
(* session fails it backs off and connects again, until its context is     *)
(* cancelled.                                                              *)
(* The server is the environment: it may answer anything, close the        *)
(* connection at any moment or fall silent for good.                       *)
(***************************************************************************)
EXTENDS Naturals

VARIABLES
  phase,      \* where Run, with connect and receiveLoop, is
  recvErr,    \* what connect is about to return
  delay,      \* the backoff, in seconds
  ctxDone,    \* whether Run's context was cancelled
  ws,         \* the connection: "none", "open", "broken" by the peer, "closed" by us
  connDone,   \* whether connCtx was cancelled
  interval,   \* the heartbeat interval that Hello gave
  hb,         \* the heartbeat goroutine of the current session
  silent,     \* the server keeps the connection and never answers again
  frames,     \* history: kinds of frames written to the current connection
  lateWrite   \* history: a frame was written to a connection after its Close

gatewayVars == <<phase, recvErr, delay>>
frameVars == <<frames, lateWrite>>
discordVars == <<gatewayVars, ctxDone, ws, connDone, interval, hb, silent, frameVars>>

DiscordBackoffBase == 2
DiscordBackoffMax == 60

DiscordInit ==
  /\ phase = "top"
  /\ recvErr = "nil"
  /\ delay = DiscordBackoffBase
  /\ ctxDone = FALSE
  /\ ws = "none"
  /\ connDone = FALSE
  /\ interval = "positive"
  /\ hb = "none"
  /\ silent = FALSE
  /\ frames = {}
  /\ lateWrite = FALSE

-----------------------------------------------------------------------------
(* The head of Run's loop.                                                 *)
Top ==
  /\ phase = "top"
  /\ phase' = IF ctxDone THEN "returned" ELSE "dial"
  /\ UNCHANGED <<recvErr, delay, ctxDone, ws, connDone, interval, hb, silent, frameVars>>

(* connect returns an error; its deferred ws.Close has run.                *)
Fail == phase' = "after" /\ recvErr' = "error" /\ ws' = "closed"

(* The TCP and TLS handshakes, under the dialer's timeout.                 *)
DialFails ==
  /\ phase = "dial"
  /\ Fail
  /\ UNCHANGED <<delay, ctxDone, connDone, interval, hb, silent, frameVars>>

DialOK ==
  /\ phase = "dial"
  /\ ws' = "open"
  /\ frames' = {}
  /\ hb' = "none"
  /\ phase' = "upgrade"
  /\ UNCHANGED <<recvErr, delay, ctxDone, connDone, interval, silent, lateWrite>>

(* The answer to the upgrade request: no deadline is set on the            *)
(* connection, so this read may wait for ever, and the next one too.       *)
UpgradeFails ==
  /\ phase = "upgrade"
  /\ ~silent
  /\ Fail
  /\ UNCHANGED <<delay, ctxDone, connDone, interval, hb, silent, frameVars>>

UpgradeOK ==
  /\ phase = "upgrade"
  /\ ~silent
  /\ phase' = "hello"
  /\ UNCHANGED <<recvErr, delay, ctxDone, ws, connDone, interval, hb, silent, frameVars>>

(* ReadText answers a ping and reads on, before Hello and after.  Data     *)
(* that arrived before the connection broke can still be read, and a frame *)
(* written after it did may end in a buffer.                               *)
PingFrame ==
  /\ phase \in {"hello", "read"}
  /\ frames' = frames \cup {"pong"}
  /\ UNCHANGED <<gatewayVars, ctxDone, ws, connDone, interval, hb, silent, lateWrite>>

(* The first message: an error or a Close frame, something else than       *)
(* Hello, or Hello, whose heartbeat_interval is whatever the server wrote: *)
(* zero when it is missing, and not checked.                               *)
HelloFails ==
  /\ phase = "hello"
  /\ ~silent
  /\ Fail
  /\ UNCHANGED <<delay, ctxDone, connDone, interval, hb, silent, frameVars>>

HelloOK ==
  /\ phase = "hello"
  /\ ~silent
  /\ interval' \in {"positive", "zero"}
  /\ phase' = "identify"
  /\ UNCHANGED <<recvErr, delay, ctxDone, ws, connDone, hb, silent, frameVars>>

IdentifyFails ==
  /\ phase = "identify"
  /\ ws = "broken"
  /\ Fail
  /\ UNCHANGED <<delay, ctxDone, connDone, interval, hb, silent, frameVars>>

(* sendIdentify; then the heartbeat goroutine starts under connCtx.        *)
IdentifyOK ==
  /\ phase = "identify"
  /\ frames' = frames \cup {"identify"}
  /\ connDone' = FALSE
  /\ hb' = "begin"
  /\ phase' = "check"
  /\ UNCHANGED <<recvErr, delay, ctxDone, ws, interval, silent, lateWrite>>

-----------------------------------------------------------------------------
(* receiveLoop returns and connCtx is cancelled.                           *)
EndSession(err) == phase' = "drain" /\ recvErr' = err /\ connDone' = TRUE

(* The head of receiveLoop.                                                *)
ReceiveCancelled ==
  /\ phase = "check"
  /\ ctxDone
  /\ EndSession("nil")
  /\ UNCHANGED <<delay, ctxDone, ws, interval, hb, silent, frameVars>>

ReceiveNext ==
  /\ phase = "check"
  /\ ~ctxDone
  /\ phase' = "read"
  /\ UNCHANGED <<recvErr, delay, ctxDone, ws, connDone, interval, hb, silent, frameVars>>

(* Any payload: a message is handed to a goroutine of its own, the rest is *)
(* logged, a requested reconnect and an invalid session included.          *)
ReceivePayload ==
  /\ phase = "read"
  /\ phase' = "check"
  /\ UNCHANGED <<recvErr, delay, ctxDone, ws, connDone, interval, hb, silent, frameVars>>

(* Operators whose name ends in _Bug are mistakes the properties below are *)
(* tested against; no specification uses them.                             *)

(* the error of a broken connection is logged and the loop goes on *)
ReceiveFails_ContinueBug ==
  /\ phase = "read"
  /\ phase' = "read"
  /\ UNCHANGED <<recvErr, delay, ctxDone, ws, connDone, interval, hb, silent, frameVars>>

(* The connection is gone, or the deadline of 90 seconds has passed.       *)
ReceiveFails ==
  /\ phase = "read"
  /\ EndSession("error")
  /\ UNCHANGED <<delay, ctxDone, ws, interval, hb, silent, frameVars>>

(* connect does not wait for heartbeatDone *)
HeartbeatDone_NoWaitBug ==
  /\ phase = "drain"
  /\ ws' = "closed"
  /\ phase' = "after"
  /\ UNCHANGED <<recvErr, delay, ctxDone, connDone, interval, hb, silent, frameVars>>

(* <-heartbeatDone, then the deferred Close.                               *)
HeartbeatDone ==
  /\ phase = "drain"
  /\ hb = "exited"
  /\ ws' = "closed"
  /\ phase' = "after"
  /\ UNCHANGED <<recvErr, delay, ctxDone, connDone, interval, hb, silent, frameVars>>

(* Run gives up once the backoff has reached its maximum *)
Disconnected_GiveUpBug ==
  /\ phase = "after"
  /\ phase' = IF recvErr = "nil" \/ ctxDone \/ delay > DiscordBackoffMax THEN "returned" ELSE "backoff"
  /\ UNCHANGED <<recvErr, delay, ctxDone, ws, connDone, interval, hb, silent, frameVars>>

(* err == nil || ctx.Err() != nil                                          *)
Disconnected ==
  /\ phase = "after"
  /\ phase' = IF recvErr = "nil" \/ ctxDone THEN "returned" ELSE "backoff"
  /\ UNCHANGED <<recvErr, delay, ctxDone, ws, connDone, interval, hb, silent, frameVars>>

(* The wait before the next attempt, doubled while below backoffMax and    *)
(* never reset.                                                            *)
ReconnectWaitEnds ==
  /\ phase = "backoff"
  /\ delay' = IF delay < DiscordBackoffMax THEN 2 * delay ELSE delay
  /\ phase' = "top"
  /\ UNCHANGED <<recvErr, ctxDone, ws, connDone, interval, hb, silent, frameVars>>

ReconnectWaitCancelled ==
  /\ phase = "backoff"
  /\ ctxDone
  /\ phase' = "returned"
  /\ UNCHANGED <<recvErr, delay, ctxDone, ws, connDone, interval, hb, silent, frameVars>>

-----------------------------------------------------------------------------
(* The heartbeat goroutine begins with NewTicker, which panics if the      *)
(* interval is not positive; nothing recovers, so the process ends.        *)
HeartbeatBegins ==
  /\ hb = "begin"
  /\ interval = "positive"
  /\ hb' = "select"
  /\ UNCHANGED <<gatewayVars, ctxDone, ws, connDone, interval, silent, frameVars>>

TickerPanics ==
  /\ hb = "begin"
  /\ interval = "zero"
  /\ phase' = "crashed"
  /\ hb' = "none"
  /\ ws' = "closed"
  /\ UNCHANGED <<recvErr, delay, ctxDone, connDone, interval, silent, frameVars>>

(* Its loop: connCtx is a child of ctx.                                    *)
HeartbeatCancelled ==
  /\ hb = "select"
  /\ connDone \/ ctxDone
  /\ hb' = "exited"
  /\ UNCHANGED <<gatewayVars, ctxDone, ws, connDone, interval, silent, frameVars>>

(* A tick: the frame is written, or the write fails and the goroutine ends.*)
HeartbeatTick ==
  /\ hb = "select"
  /\ \/ ws # "closed" /\ frames' = frames \cup {"heartbeat"} /\ UNCHANGED hb
     \/ ws # "open" /\ hb' = "exited" /\ UNCHANGED frames
  /\ lateWrite' = (lateWrite \/ ws = "closed")
  /\ UNCHANGED <<gatewayVars, ctxDone, ws, connDone, interval, silent>>

-----------------------------------------------------------------------------
(* The environment.                                                        *)
CancelRun ==
  /\ ~ctxDone
  /\ phase # "crashed"
  /\ ctxDone' = TRUE
  /\ UNCHANGED <<gatewayVars, ws, connDone, interval, hb, silent, frameVars>>

ConnectionLost ==
  /\ ws = "open"
  /\ ~silent
  /\ ws' = "broken"
  /\ UNCHANGED <<gatewayVars, ctxDone, connDone, interval, hb, silent, frameVars>>

(* From some moment on, before Hello has arrived, nothing comes from the   *)
(* server that ends the read: no answer and no error, pings at most.       *)
ServerSilent ==
  /\ phase \in {"upgrade", "hello"}
  /\ ~silent
  /\ silent' = TRUE
  /\ UNCHANGED <<gatewayVars, ctxDone, ws, connDone, interval, hb, frameVars>>

-----------------------------------------------------------------------------
(* The steps Run takes without the server's help.                          *)
RunStep ==
  \/ Top
  \/ IdentifyFails
  \/ IdentifyOK
  \/ ReceiveCancelled
  \/ ReceiveNext
  \/ ReceiveFails
  \/ HeartbeatDone
  \/ Disconnected
  \/ ReconnectWaitEnds
  \/ ReconnectWaitCancelled

(* The steps that wait for the server, without a deadline and without a    *)
(* look at the context.                                                    *)
ServerStep == UpgradeFails \/ UpgradeOK \/ HelloFails \/ HelloOK

HeartbeatStep == HeartbeatBegins \/ TickerPanics \/ HeartbeatCancelled \/ HeartbeatTick

DiscordNext ==
  \/ RunStep
  \/ ServerStep
  \/ DialFails
  \/ DialOK
  \/ PingFrame
  \/ ReceivePayload
  \/ HeartbeatStep
  \/ CancelRun
  \/ ConnectionLost
  \/ ServerSilent

DiscordSpec == DiscordInit /\ [][DiscordNext]_discordVars

-----------------------------------------------------------------------------
(* Type invariant; the backoff is doubled below 60 seconds and so stops at *)
(* 64.                                                                     *)
DiscordTypeOK ==
  /\ phase \in {"top", "dial", "upgrade", "hello", "identify", "check", "read", "drain", "after",
                "backoff", "returned", "crashed"}
  /\ recvErr \in {"nil", "error"}
  /\ delay \in {2, 4, 8, 16, 32, 64}
  /\ ctxDone \in BOOLEAN
  /\ ws \in {"none", "open", "broken", "closed"}
  /\ connDone \in BOOLEAN
  /\ interval \in {"positive", "zero"}
  /\ hb \in {"none", "begin", "select", "exited"}
  /\ silent \in BOOLEAN
  /\ frames \subseteq {"identify", "heartbeat", "pong"}
  /\ lateWrite \in BOOLEAN

(* A session's heartbeat goroutine ends with the session: none is left     *)
(* while Run backs off, connects again or has returned, and none writes to *)
(* a connection that connect has closed or before Identify was sent.       *)
HeartbeatEndsWithSession ==
  /\ DiscordTypeOK
  /\ hb \in {"begin", "select"} => phase \in {"check", "read", "drain"} /\ ws \in {"open", "broken"}
  /\ ~lateWrite
  /\ "heartbeat" \in frames => "identify" \in frames

(* Cancellation ends Run in every phase of a session, unless the server    *)
(* has fallen silent before Hello, or the process has ended.               *)
RunReturns == ctxDone ~> (phase \in {"returned", "crashed"} \/ silent)

(* "It reconnects automatically on transient failures" (:20): a session    *)
(* that failed is followed by one whose heartbeat runs, with a server that *)
(* accepts again and again, does not fall silent before Hello and names a  *)
(* heartbeat interval.                                                     *)
Reconnects ==
  (phase = "after" /\ recvErr = "error") ~> (hb = "select" \/ ctxDone \/ silent \/ phase = "crashed")
=============================================================================
