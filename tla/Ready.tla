------------------------------- MODULE Ready -------------------------------
(***************************************************************************)
(* Announcing that requests can reach the handlers (src/src/app.rs):       *)
(* setup registers them on the configured channel and waits a while for    *)
(* the channel's subscription to sync; once it has, the marker ready_at is *)
(* written on the channel, by setup or by a later turn of the main loop.   *)
(* The configuration may change between two turns.                         *)
(*                                                                         *)
(* The doover runtime (external) runs setup and then the main loop and the *)
(* configuration updates one at a time (they take &mut self), syncs the    *)
(* subscription of a channel some time after it is made, and starts the    *)
(* app again when it dies.  A marker is known by the run of the app that   *)
(* wrote it: callers look for a ready_at newer than the start they wait    *)
(* for (app.rs:566-567).                                                   *)
(***************************************************************************)
EXTENDS Naturals

CONSTANTS
  Channels,   \* the values of rpc_channel
  First,      \* the one configured when the app is first started
  MaxRuns,    \* bound: how often the app is started
  MaxUpdates  \* bound: how often its rpc_channel is changed

ASSUME ReadyAssumption == First \in Channels /\ MaxRuns \in Nat /\ MaxUpdates \in Nat

VARIABLES
  run,      \* the runs of the app so far
  phase,    \* where this one stands
  channel,  \* the configured rpc_channel
  served,   \* the channel the handlers are registered on
  synced,   \* the channels whose subscription has synced
  ready,    \* whether the app takes the marker for written
  marker,   \* the run that last wrote a marker on each channel
  updates   \* the changes of rpc_channel so far

readyVars == <<run, phase, channel, served, synced, ready, marker, updates>>

ReadyStateOK ==
  /\ run \in 0..MaxRuns /\ updates \in 0..MaxUpdates
  /\ phase \in {"down", "setup", "loop"}
  /\ channel \in Channels /\ served \in Channels /\ synced \subseteq Channels
  /\ marker \in [Channels -> 0..MaxRuns]

ReadyTypeOK == ready \in BOOLEAN /\ ReadyStateOK

ReadyInit ==
  /\ run = 0 /\ phase = "down" /\ updates = 0
  /\ channel = First /\ served = First /\ synced = {}
  /\ ready = FALSE /\ marker = [ch \in Channels |-> 0]

-----------------------------------------------------------------------------
\* setup: a new app registers its handlers.
Setup ==
  /\ phase = "down" /\ run < MaxRuns
  /\ run' = run + 1 /\ phase' = "setup"
  /\ served' = channel /\ ready' = FALSE
  /\ UNCHANGED <<channel, synced, marker, updates>>

\* The subscription of the served channel has synced.
Syncs ==
  /\ phase # "down" /\ served \notin synced
  /\ synced' = synced \cup {served}
  /\ UNCHANGED <<run, phase, channel, served, ready, marker, updates>>

\* A mutant: the marker is written without waiting for the subscription.
WritesAtOnce ==
  marker' = [marker EXCEPT ![channel] = run] /\ ready' = TRUE

\* announce_ready: the configured channel has synced and its marker is written.
Writes ==
  /\ channel \in synced
  /\ marker' = [marker EXCEPT ![channel] = run] /\ ready' = TRUE

\* It has not synced in time, or the marker could not be written.
NotYet == UNCHANGED <<ready, marker>>

\* The rest of setup, which does not fail.
SetupEnds ==
  /\ phase = "setup"
  /\ Writes \/ NotYet
  /\ phase' = "loop"
  /\ UNCHANGED <<run, channel, served, synced, updates>>

\* A mutant: only setup announces.
IdleTurn ==
  /\ phase = "loop" /\ ~ready
  /\ NotYet
  /\ UNCHANGED <<run, phase, channel, served, synced, updates>>

\* A turn of the main loop that announces.
MainLoop ==
  /\ phase = "loop" /\ ~ready
  /\ Writes
  /\ UNCHANGED <<run, phase, channel, served, synced, updates>>

\* on_config_update with another rpc_channel: the handlers stay where they are.
ChannelChanges ==
  /\ phase = "loop" /\ updates < MaxUpdates
  /\ updates' = updates + 1
  /\ channel' \in Channels \ {channel}
  /\ UNCHANGED <<run, phase, served, synced, ready, marker>>

\* The app dies; its subscriptions end with it.
AppDies ==
  /\ phase # "down"
  /\ phase' = "down" /\ synced' = {}
  /\ UNCHANGED <<run, channel, served, ready, marker, updates>>

\* The last run of the bound is over.
Stops == phase = "down" /\ run = MaxRuns /\ UNCHANGED readyVars

ReadyNext == Setup \/ Syncs \/ SetupEnds \/ MainLoop \/ ChannelChanges \/ AppDies \/ Stops

ReadySpec == ReadyInit /\ [][ReadyNext]_readyVars

\* The runtime syncs the subscription and runs the app's turns; a turn whose
\* channel has synced writes the marker sooner or later.
ReadyFairness ==
  WF_readyVars(Syncs) /\ WF_readyVars(SetupEnds) /\ WF_readyVars(MainLoop)

ReadyFairSpec == ReadySpec /\ ReadyFairness

-----------------------------------------------------------------------------
(* Properties.                                                             *)

\* "Requests can reach the handlers" (app.rs:565): while the app that wrote a
\* marker runs, the marked channel is the one it serves and its requests are
\* delivered.
MarkerIsTrue ==
  \A ch \in Channels : phase # "down" /\ marker[ch] = run => ch = served /\ ch \in synced

\* The ready announcement is "retried from the main loop until it lands"
\* (app.rs:576): an app that has set up announces itself while its channel is
\* the configured one.
AnnouncesItself == phase = "loop" /\ channel = served ~> ready \/ phase = "down" \/ channel # served

\* The same of the channel that is served: "the handler stays on the channel
\* it was registered on", and callers wait for its marker (app.rs:565-567, 643).
ServedIsAnnounced == phase = "loop" ~> marker[served] = run \/ phase = "down"
=============================================================================
