-------------------------------- MODULE App --------------------------------
(***************************************************************************)
(* AssistantGatewayApp (src/src/app.rs): the handlers of Gateway and the   *)
(* announcement of Ready in one process, which may die at any point and is *)
(* started again.  The channel a handler is registered on and the one the  *)
(* configuration names are Ready's; a request is delivered to a handler    *)
(* only once the subscription of its channel has synced.                   *)
(***************************************************************************)
EXTENDS Gateway, Ready

vars == <<gatewayVars, readyVars>>

Init == GatewayInit /\ ReadyInit

\* A request is posted on the served channel and delivered as a live event;
\* one posted before the channel has synced never is (app.rs:573-575).
Deliver(c) ==
  /\ phase # "down" /\ served \in synced
  /\ Arrive(c)
  /\ UNCHANGED readyVars

\* The runtime calls the app, while the handlers stand still or run on.
Turn ==
  /\ Setup \/ Syncs \/ SetupEnds \/ MainLoop \/ ChannelChanges \/ Stops
  /\ UNCHANGED gatewayVars

\* The process ends, and every handler with it.
ProcessDies == AppDies /\ Dies

Next ==
  \/ \E c \in Calls : Deliver(c)
  \/ \E c \in Calls : Call(c) /\ UNCHANGED readyVars
  \/ Turn
  \/ ProcessDies

Spec == Init /\ [][Next]_vars
FairSpec == Spec /\ GatewayFairness /\ ReadyFairness
=============================================================================
