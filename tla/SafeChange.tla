----------------------------- MODULE SafeChange -----------------------------
(***************************************************************************)
(* What net_apply promises (src/src/netapply.rs:1-13), without its flow,   *)
(* its tools and its clock: the configuration of a device may be tried     *)
(* freely while a guard holds the one before it; the guard is let go of    *)
(* only over a configuration that reaches the platform, and otherwise puts *)
(* back what it holds.                                                     *)
(***************************************************************************)
CONSTANT Configs

VARIABLES profile,  \* the configuration that is stored
          active,   \* the one the device runs on
          guard,    \* what will be put back: <<profile, active>>, or <<>>
          reaches   \* the configurations that reach the platform

vars == <<profile, active, guard, reaches>>

Init ==
  /\ reaches \subseteq Configs
  /\ active \in reaches /\ profile = active
  /\ guard = <<>>

Protect ==
  /\ guard = <<>>
  /\ guard' = <<profile, active>>
  /\ UNCHANGED <<profile, active, reaches>>

Try ==
  /\ guard # <<>>
  /\ profile' \in Configs /\ active' \in Configs
  /\ UNCHANGED <<guard, reaches>>

Keep ==
  /\ guard # <<>>
  /\ active \in reaches /\ profile = active
  /\ guard' = <<>>
  /\ UNCHANGED <<profile, active, reaches>>

Restore ==
  /\ guard # <<>>
  /\ profile' = guard[1] /\ active' = guard[2]
  /\ guard' = <<>>
  /\ UNCHANGED reaches

\* Unguarded, only what reaches the platform is ever put in place.
ChangeHarmlessly ==
  /\ guard = <<>>
  /\ profile' \in reaches /\ active' \in reaches
  /\ UNCHANGED <<guard, reaches>>

Next == Protect \/ Try \/ Keep \/ Restore \/ ChangeHarmlessly

Spec == Init /\ [][Next]_vars

\* No guard is held for ever.
GuardsEnd == (guard # <<>>) ~> (guard = <<>>)
=============================================================================
