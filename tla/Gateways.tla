------------------------------ MODULE Gateways ------------------------------
(***************************************************************************)
(* The two chat gateways of a node, the Discord session and the Telegram   *)
(* poller.  They are started by commands of their own and share no state:  *)
(* one of them moves in each behaviour, and a property of one holds of a   *)
(* node that runs both if it holds in these behaviours.                    *)
(***************************************************************************)
EXTENDS DiscordGateway, TelegramPoller

VARIABLE gateway   \* the gateway that moves

gatewaysVars == <<gateway, discordVars, vars>>

GatewaysInit == gateway \in {"discord", "telegram"} /\ DiscordInit /\ Init

(* A is a step of one gateway; the other keeps its state.                  *)
Discord(A) == gateway = "discord" /\ A /\ UNCHANGED <<gateway, vars>>
Telegram(A) == gateway = "telegram" /\ A /\ UNCHANGED <<gateway, discordVars>>

GatewaysNext == Discord(DiscordNext) \/ Telegram(Next)

(* The goroutines of the Discord gateway run; dialling ends by its timeout *)
(* of 15 seconds; a read after Hello ends by its deadline.  A read before  *)
(* it has none: it ends when the server answers or drops the connection    *)
(* (ServerStep), and never once the server is silent.  A server that is    *)
(* not silent accepts sessions again and again.                            *)
DiscordFairness ==
  /\ WF_gatewaysVars(Discord(RunStep))
  /\ WF_gatewaysVars(Discord(DialFails \/ DialOK))
  /\ WF_gatewaysVars(Discord(HeartbeatBegins \/ TickerPanics))
  /\ WF_gatewaysVars(Discord(HeartbeatCancelled))
  /\ WF_gatewaysVars(Discord(ServerStep))
  /\ SF_gatewaysVars(Discord(DialOK))
  /\ SF_gatewaysVars(Discord(UpgradeOK))
  /\ SF_gatewaysVars(Discord(HelloOK))
  /\ SF_gatewaysVars(Discord(IdentifyOK))

(* The poller goes on; a request ends by the client's timeout at the       *)
(* latest; a server that is asked again and again answers some request in  *)
(* time.                                                                   *)
TelegramFairness ==
  /\ WF_gatewaysVars(Telegram(LocalStep))
  /\ SF_gatewaysVars(Telegram(ServerReceives))
  /\ SF_gatewaysVars(Telegram(ServerAnswers))
  /\ SF_gatewaysVars(Telegram(PollOK /\ answer # <<>>))

GatewaysSpec == GatewaysInit /\ [][GatewaysNext]_gatewaysVars /\ DiscordFairness /\ TelegramFairness
=============================================================================
