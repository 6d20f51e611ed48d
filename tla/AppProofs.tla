----------------------------- MODULE AppProofs -----------------------------
(***************************************************************************)
(* What holds of the handlers and of the announcement for every set of     *)
(* calls, methods and channels.  Each part is proved of its own module,    *)
(* and the composition is shown to implement both.                         *)
(***************************************************************************)
EXTENDS App, TLAPS

-----------------------------------------------------------------------------
(* The handlers.                                                           *)

\* Who runs holds the locks of its method; an answer that says nothing of a
\* cancellation was given before one came, and none comes after; what is
\* remembered as sent is what the last update carried.
LocksAreHeld ==
  \A c \in Calls : pc[c] \in Running => \A l \in LocksOf(kind[c]) : lock[l] = c
AnswersStand ==
  \A c \in Calls : reply[c] = "result" => pc[c] \notin InProgress /\ pc[c] # "unsent" /\ ~cancelled[c]
SentIsShown == \A c \in Calls : sent[c] = shown[c]

GatewayInv == GatewayTypeOK /\ LocksAreHeld /\ AnswersStand /\ SentIsShown

\* The step after recording a tag is a step of a handler that runs.
LEMMA RecordStepsRun ==
  ASSUME NEW k, NEW s \in RecordSteps
  PROVE  AfterRecordStep(k, s) \in RecordSteps \cup {"end"} /\ FirstRecordStep(k) \in RecordSteps
BY DEF RecordSteps, AfterRecordStep, FirstRecordStep

\* The initial states satisfy the invariant.
LEMMA GatewayInitInv == GatewayInit => GatewayInv
BY CallsAssumption
DEF GatewayInit, GatewayInv, GatewayTypeOK, LocksAreHeld, AnswersStand, SentIsShown,
    Steps, InProgress, Running, Replies, RecordSteps

\* A handler in progress stays where its step takes it, in its type.
LEMMA GatewayTypeNext ==
  GatewayTypeOK /\ [GatewayNext]_gatewayVars => GatewayTypeOK'
<1> SUFFICES ASSUME GatewayTypeOK, [GatewayNext]_gatewayVars PROVE GatewayTypeOK'
  OBVIOUS
<1> USE CallsAssumption DEF GatewayTypeOK
<1>1. CASE UNCHANGED gatewayVars
  BY <1>1 DEF gatewayVars, progressVars, tagVars
<1>2. CASE Dies
  BY <1>2 DEF Dies, progressVars, tagVars, Steps
<1>3. ASSUME NEW c \in Calls, Arrive(c) PROVE GatewayTypeOK'
  BY <1>3 DEF Arrive, Go, progressVars, tagVars, Steps, InProgress
<1>4. ASSUME NEW c \in Calls, Handle(c) PROVE GatewayTypeOK'
  <2>1. CASE Refuse(c) \/ Busy(c)
    BY <2>1 DEF Refuse, Busy, Reply, Go, progressVars, tagVars, Steps, Replies
  <2>2. CASE Accept(c)
    BY <2>2 DEF Accept, Go, progressVars, tagVars, Steps, InProgress, Running
  <2>3. CASE Acknowledge(c) \/ UpdateEnds(c)
    BY <2>3 DEF Acknowledge, UpdateEnds, Go, progressVars, tagVars, Steps, InProgress, Running
  <2>4. CASE Record(c)
    <3>1. pc[c] \in RecordSteps
      BY <2>4 DEF Record, GetCount, SetCount, SetOthers, RecordFails, RecordSteps
    <3>2. AfterRecordStep(kind[c], pc[c]) \in Steps /\ "end" \in Steps
      BY <3>1, RecordStepsRun DEF Steps, InProgress, Running
    <3>3. CASE GetCount(c)
      BY <3>2, <3>3 DEF GetCount, Recorded, Go, progressVars
    <3>4. CASE SetCount(c)
      BY <3>2, <3>4 DEF SetCount, Recorded, Go, progressVars
    <3>5. CASE SetOthers(c) \/ RecordFails(c)
      BY <3>2, <3>5 DEF SetOthers, RecordFails, Recorded, Go, progressVars, tagVars
    <3> QED BY <2>4, <3>3, <3>4, <3>5 DEF Record
  <2>5. CASE Returns(c)
    BY <2>5 DEF Returns, Reply, Go, Unlock, progressVars, tagVars, Steps, Replies
  <2> QED BY <1>4, <2>1, <2>2, <2>3, <2>4, <2>5 DEF Handle
<1>5. ASSUME NEW c \in Calls, Ends(c) PROVE GatewayTypeOK'
  <2>1. FirstRecordStep(kind[c]) \in Steps
    BY DEF FirstRecordStep, Steps, InProgress, Running, RecordSteps
  <2> QED
    BY <1>5, <2>1 DEF Ends, BodyEnds, ExecFails, Reply, Go, progressVars, tagVars, Steps, Replies
<1>6. ASSUME NEW c \in Calls, Cancel(c) \/ SetStep(c) \/ Update(c) PROVE GatewayTypeOK'
  <2>1. CASE Cancel(c)
    BY <2>1 DEF Cancel, progressVars, tagVars
  <2>2. CASE SetStep(c)
    <3>1. step[c] + 1 \in 0..MaxSteps
      BY <2>2 DEF SetStep
    <3> QED BY <2>2, <3>1 DEF SetStep, tagVars
  <2>3. CASE Update(c)
    BY <2>3 DEF Update, tagVars
  <2> QED BY <1>6, <2>1, <2>2, <2>3
<1> QED BY <1>1, <1>2, <1>3, <1>4, <1>5, <1>6 DEF GatewayNext, Call

\* A lock changes hands only when nobody holds it, or when its holder returns.
LEMMA LocksNext ==
  GatewayTypeOK /\ LocksAreHeld /\ [GatewayNext]_gatewayVars => LocksAreHeld'
<1> SUFFICES ASSUME GatewayTypeOK, LocksAreHeld, [GatewayNext]_gatewayVars PROVE LocksAreHeld'
  OBVIOUS
<1> USE CallsAssumption DEF GatewayTypeOK, LocksAreHeld
<1>1. CASE UNCHANGED gatewayVars
  BY <1>1 DEF gatewayVars
<1>2. CASE Dies
  BY <1>2 DEF Dies, InProgress, Running, RecordSteps
<1>3. ASSUME NEW c \in Calls, Arrive(c) PROVE LocksAreHeld'
  BY <1>3 DEF Arrive, Go, Running, RecordSteps
<1>4. ASSUME NEW c \in Calls, Handle(c) PROVE LocksAreHeld'
  <2>1. CASE Refuse(c) \/ Busy(c)
    BY <2>1 DEF Refuse, Busy, Reply, Go, Running, RecordSteps
  <2>2. CASE Accept(c)
    BY <2>2 DEF Accept, Go, LocksOf, Locks
  <2>3. CASE Acknowledge(c) \/ UpdateEnds(c)
    BY <2>3 DEF Acknowledge, UpdateEnds, Go, Running
  <2>4. CASE Record(c)
    BY <2>4 DEF Record, GetCount, SetCount, SetOthers, RecordFails, Recorded, Go, Running, RecordSteps
  <2>5. CASE Returns(c)
    BY <2>5 DEF Returns, Reply, Go, Unlock, Running, RecordSteps, LocksOf, Locks
  <2> QED BY <1>4, <2>1, <2>2, <2>3, <2>4, <2>5 DEF Handle
<1>5. ASSUME NEW c \in Calls, Ends(c) PROVE LocksAreHeld'
  BY <1>5 DEF Ends, BodyEnds, ExecFails, Reply, Go, Running, RecordSteps
<1>6. ASSUME NEW c \in Calls, Cancel(c) \/ SetStep(c) \/ Update(c) PROVE LocksAreHeld'
  BY <1>6 DEF Cancel, SetStep, Update
<1> QED BY <1>1, <1>2, <1>3, <1>4, <1>5, <1>6 DEF GatewayNext, Call

\* A cancellation comes only before the answer, and the answer looks for it.
LEMMA AnswersNext ==
  GatewayTypeOK /\ AnswersStand /\ [GatewayNext]_gatewayVars => AnswersStand'
<1> SUFFICES ASSUME GatewayTypeOK, AnswersStand, [GatewayNext]_gatewayVars PROVE AnswersStand'
  OBVIOUS
<1> USE DEF GatewayTypeOK, AnswersStand, InProgress
<1>1. CASE UNCHANGED gatewayVars
  BY <1>1 DEF gatewayVars
<1>2. CASE Dies
  BY <1>2 DEF Dies, Running, RecordSteps
<1>3. ASSUME NEW c \in Calls, Arrive(c) PROVE AnswersStand'
  BY <1>3 DEF Arrive, Go
<1>4. ASSUME NEW c \in Calls, Handle(c) PROVE AnswersStand'
  <2>1. CASE Refuse(c) \/ Busy(c)
    BY <2>1 DEF Refuse, Busy, Reply, Go, Running, RecordSteps
  <2>2. CASE Accept(c)
    BY <2>2 DEF Accept, Go, Running
  <2>3. CASE Acknowledge(c) \/ UpdateEnds(c)
    BY <2>3 DEF Acknowledge, UpdateEnds, Go, Running
  <2>4. CASE Record(c)
    BY <2>4 DEF Record, GetCount, SetCount, SetOthers, RecordFails, Recorded, Go, Running, RecordSteps
  <2>5. CASE Returns(c)
    BY <2>5 DEF Returns, Reply, Go, Running, RecordSteps
  <2> QED BY <1>4, <2>1, <2>2, <2>3, <2>4, <2>5 DEF Handle
<1>5. ASSUME NEW c \in Calls, Ends(c) PROVE AnswersStand'
  BY <1>5 DEF Ends, BodyEnds, ExecFails, Reply, Go, Running, RecordSteps
<1>6. ASSUME NEW c \in Calls, Cancel(c) \/ SetStep(c) \/ Update(c) PROVE AnswersStand'
  BY <1>6 DEF Cancel, SetStep, Update
<1> QED BY <1>1, <1>2, <1>3, <1>4, <1>5, <1>6 DEF GatewayNext, Call

\* Only an update is remembered, and it carries what is remembered.
LEMMA SentNext ==
  GatewayTypeOK /\ SentIsShown /\ [GatewayNext]_gatewayVars => SentIsShown'
<1> SUFFICES ASSUME GatewayTypeOK, SentIsShown, [GatewayNext]_gatewayVars PROVE SentIsShown'
  OBVIOUS
<1> USE DEF SentIsShown
<1>1. CASE \E c \in Calls : Update(c)
  BY <1>1 DEF Update, GatewayTypeOK
<1>2. CASE UNCHANGED <<sent, shown>>
  BY <1>2
<1>3. (\E c \in Calls : Update(c)) \/ UNCHANGED <<sent, shown>>
  BY DEF GatewayNext, gatewayVars, Call, Handle, Ends, Record, Arrive, Dies, Refuse, Busy, Accept,
         Acknowledge, UpdateEnds, GetCount, SetCount, SetOthers, RecordFails, Returns,
         BodyEnds, ExecFails, Cancel, SetStep, progressVars
<1> QED BY <1>1, <1>2, <1>3

\* The invariant of the handlers holds in every state.
THEOREM GatewayInvariance == GatewaySpec => []GatewayInv
<1>1. GatewayInv /\ [GatewayNext]_gatewayVars => GatewayInv'
  BY GatewayTypeNext, LocksNext, AnswersNext, SentNext DEF GatewayInv
<1> QED BY <1>1, GatewayInitInv, PTL DEF GatewaySpec

\* Calls that run and share what a lock protects are one call.
LEMMA LocksExclude == GatewayInv => OneAtATime
<1> SUFFICES ASSUME GatewayInv PROVE OneAtATime
  OBVIOUS
<1>1. ASSUME NEW c \in RunningOf({"net"}) PROVE lock["net_lock"] = c
  BY <1>1 DEF GatewayInv, LocksAreHeld, RunningOf, LocksOf
<1>2. ASSUME NEW c \in RunningOf({"modbus", "scan"}) PROVE lock["modbus_lock"] = c
  BY <1>2 DEF GatewayInv, LocksAreHeld, RunningOf, LocksOf
<1> QED BY <1>1, <1>2 DEF OneAtATime, AtMostOne

-----------------------------------------------------------------------------
(* The announcement.                                                       *)

\* Only the served channel is ever synced, and only by a run that goes on;
\* no marker is of a run to come.
ReadyInv ==
  /\ ReadyStateOK
  /\ synced \subseteq {served}
  /\ phase = "down" => synced = {}
  /\ \A ch \in Channels : marker[ch] <= run
  /\ MarkerIsTrue

\* A marker that is written is of this run, on a channel that has synced.
LEMMA WritesInv ==
  ASSUME ReadyInv, phase # "down", Writes, phase' = "loop",
         UNCHANGED <<run, channel, served, synced, updates>>
  PROVE  ReadyInv'
<1> USE ReadyAssumption DEF ReadyInv, ReadyStateOK, Writes
<1>1. ReadyStateOK'
  OBVIOUS
<1>2. \A ch \in Channels : marker'[ch] = run \/ marker'[ch] = marker[ch]
  OBVIOUS
<1>3. MarkerIsTrue'
  BY DEF MarkerIsTrue
<1> QED BY <1>1, <1>2, <1>3

\* The invariant of the announcement is inductive.
LEMMA ReadyInvNext == ReadyInv /\ [ReadyNext]_readyVars => ReadyInv'
<1> SUFFICES ASSUME ReadyInv, [ReadyNext]_readyVars PROVE ReadyInv'
  OBVIOUS
<1> USE ReadyAssumption DEF ReadyInv, ReadyStateOK, MarkerIsTrue
<1>1. CASE Setup
  <2>1. run + 1 \in 0..MaxRuns
    BY <1>1 DEF Setup
  <2>2. \A ch \in Channels : marker'[ch] <= run /\ marker'[ch] # run'
    BY <1>1 DEF Setup
  <2> QED BY <1>1, <2>1, <2>2 DEF Setup
<1>2. CASE Syncs
  BY <1>2 DEF Syncs
<1>3. CASE SetupEnds
  <2>1. CASE Writes
    BY <1>3, <2>1, WritesInv DEF SetupEnds
  <2>2. CASE NotYet
    BY <1>3, <2>2 DEF SetupEnds, NotYet
  <2> QED BY <1>3, <2>1, <2>2 DEF SetupEnds
<1>4. CASE MainLoop
  BY <1>4, WritesInv DEF MainLoop
<1>5. CASE ChannelChanges
  BY <1>5 DEF ChannelChanges
<1>6. CASE AppDies
  BY <1>6 DEF AppDies
<1>7. CASE Stops \/ UNCHANGED readyVars
  BY <1>7 DEF Stops, readyVars
<1> QED BY <1>1, <1>2, <1>3, <1>4, <1>5, <1>6, <1>7 DEF ReadyNext

\* The invariant of the announcement holds in every state.
THEOREM ReadyInvariance == ReadySpec => []ReadyInv
<1>1. ReadyInit => ReadyInv
  BY ReadyAssumption DEF ReadyInit, ReadyInv, ReadyStateOK, MarkerIsTrue
<1> QED BY <1>1, ReadyInvNext, PTL DEF ReadySpec

-----------------------------------------------------------------------------
(* The composition.                                                        *)

\* To the handlers, the app is calls that arrive and go on, until it dies.
THEOREM AppHandles == Spec => GatewaySpec
<1>1. [Next]_vars => [GatewayNext]_gatewayVars
  BY DEF Next, vars, Deliver, Turn, ProcessDies, GatewayNext
<1>2. Init => GatewayInit
  BY DEF Init
<1> QED BY <1>1, <1>2, PTL DEF Spec, GatewaySpec

\* To the announcement, it is turns of the runtime.
THEOREM AppAnnounces == Spec => ReadySpec
<1>1. [Next]_vars => [ReadyNext]_readyVars
  BY DEF Next, vars, Deliver, Turn, ProcessDies, ReadyNext
<1>2. Init => ReadyInit
  BY DEF Init
<1> QED BY <1>1, <1>2, PTL DEF Spec, ReadySpec

\* One network change and one Modbus call at a time (app.rs:45-49, 353, 388).
THEOREM OneCallAtATime == Spec => []OneAtATime
BY AppHandles, GatewayInvariance, LocksExclude, PTL

\* A cancelled request is never answered as if it had not been (app.rs:456).
THEOREM CancellationsStand == Spec => []CancellationStands
<1>1. GatewayInv => CancellationStands
  BY DEF GatewayInv, AnswersStand, CancellationStands
<1> QED BY <1>1, AppHandles, GatewayInvariance, PTL

\* No step is taken for sent that no update has carried (app.rs:483-492).
THEOREM StepsAreCarried == Spec => []StepsAreSent
<1>1. GatewayInv => StepsAreSent
  BY DEF GatewayInv, SentIsShown, StepsAreSent
<1> QED BY <1>1, AppHandles, GatewayInvariance, PTL

\* A marker of the run is on the channel it serves (app.rs:565-567).
THEOREM MarkersAreTrue == Spec => []MarkerIsTrue
<1>1. ReadyInv => MarkerIsTrue
  BY DEF ReadyInv
<1> QED BY <1>1, AppAnnounces, ReadyInvariance, PTL
=============================================================================
