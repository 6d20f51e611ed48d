# assistant-gateway in TLA+

TLA+ models of the assistant gateway (`src/`): a Rust app that runs on a
device and serves, over an RPC channel, shell commands, network diagnostics,
guarded network changes and Modbus tools. The modules model the parts whose
correctness depends on the order of events: what interleaves, what is killed,
what fails half-way, what is lost. TLC checks each on a small instance; TLAPS
proves the main properties for every value of the constants.

Source references are `file.rs:line` in `src/src/`, or `README.md:line` of the
repository.

## 1. The system

### Components

| Component | Source | State | Operations | Model |
|---|---|---|---|---|
| Handlers (`Gateway`) | `app.rs` | config under an `RwLock`, `net_lock`, `modbus_lock` | one handler per method, any number at once: check parameters, `try_lock`, acknowledge, run the body beside its progress, record, leave a cancellation standing | `Gateway` |
| Progress | `app.rs:256-302, 460-499`, `diag.rs:63-82` | the step or the output with a version; the version last sent | tick, heartbeat, update | `Gateway` (steps), `Exec` (output) |
| Readiness, config updates | `app.rs:559-651` | `ready`, the configured and the served channel | `setup`, `main_loop`, `announce_ready`, `on_config_update` | `Ready` |
| Telemetry tags | `tags.rs`, `app.rs:501-536` | five tags | `record_method`, `record` | `Gateway` (`commands_run`) |
| Commands | `executor.rs`, `app.rs:219-302` | a process group, its pipes, `LiveOutput`, deadline | `run_command`, `capture`, `kill_group`, `stream` | `Exec` |
| `net_apply` | `netapply.rs` | the checkpoint, the deadlines; NetworkManager's configuration and timer outside | lookup, checkpoint, nmcli commands, verification, keep, rollback, await, status | `NetApply`, `SafeChange` |
| `scan_modbus` | `scan.rs` | a stop flag, one thread per port, a watcher, the bus | `scan_port`, `transact`, `classify`, join, watch | `ModbusScan` |
| `probe/read/write_modbus` | `modbus.rs` | none but the units' registers | one mbpoll per unit; write, then read back | `ModbusRpc` |
| `scan_network`, `net_wifi_scan` | `diag.rs` | a budget of 60 s | find the target, arp-scan beside nmap, then a port scan | `Diag`, `Parse` |
| `Runner`, `net_status` | `diag.rs` | `errors` | a bounded, cancellable tool call; tools that stand in for others | the call: every step of `NetApply`, `ModbusRpc`, `Diag`, and `Exec`; the status: `Diag` |
| Parsers, parameter checks | `parse.rs`, `modbus.rs`, `diag.rs` | none | pure functions | those that decide something: `Parse`, `Acceptable` of `ModbusRpc` and `Diag` |
| `main`, the doover runtime | `main.rs`, external | subscriptions, delivery, tags | | environment of `App` |

### Interactions

The runtime delivers a request on the served channel to a task of its own.
The handler may hold one of two locks for its whole life. Its body runs tools
through `Runner::run`, which is `run_command` with the request's cancellation;
`with_progress` polls the body *and* awaits the progress updates in one loop,
so the body stands still while an update is on its way. `exec` differs: its
command runs on a task of its own, and the stream only reads what the capture
tasks have put in `LiveOutput`. `scan_modbus` differs again: its threads run
outside the runtime, cannot be aborted, and see a cancellation only through a
flag a watcher task sets. `net_apply` shares the device's network configuration
with NetworkManager, whose rollback timer runs whatever becomes of the app.

### What is hard, and what correct means

- **Commands.** A timed-out or cancelled command leaves nothing of its process
  group alive; any other loses no output below the limit; nobody's open pipe
  holds a run for ever; every truncation is told.
- **net_apply.** Whatever is cancelled, lost, late or dead, a device that can't
  reach the platform has a pending checkpoint of a configuration that can.
  What a call reports (kept, rolled back, nothing changed) is so.
- **scan_modbus.** What is found is there; a scan that ends in silence had
  nobody to find; no thread is on a bus once the lock is free.
- **probe, read, write.** What a write or a probe reports is so, although the
  bus answers late or not at all, takes a write after it was given up, and has
  other masters; a write reaches one unit.
- **Diagnostics.** A tool may fail, be missing or be killed in the middle of a
  line: what is listed is there, what is missing is told in `errors`, and a
  scan ends near its budget and stays on the network it is for.
- **Handlers.** One network change and one Modbus call at a time, to the end of
  the recording; no success after a cancellation; every request answered.
- **Readiness.** A marker means requests are delivered; the served channel is
  announced in the end.

`PROJECT.json` lists the hazards line by line with the properties that would
catch each; those without a property say why.

## 2. Modules

| Module | Content |
|---|---|
| `SafeChange` | the abstract specification of a guarded change |
| `NetApply`, `MCNetApply`, `NetApplyProofs` | `net_apply` with NetworkManager; its proofs |
| `Exec`, `ExecProofs` | one command and its stream; its proofs |
| `ModbusScan`, `MCModbusScan`, `ModbusScanProofs` | one scan; its proofs |
| `ModbusRpc`, `MCModbusRpc`, `ModbusRpcProofs` | probes, reads and writes on a bus; their proofs |
| `Parse`, `Diag`, `MCDiag` | what is read out of tools' output; the three diagnostics |
| `DiagProofs`, `StatusProofs` | proofs of the types and of `scan_network`; of `net_status` and `net_wifi_scan` |
| `FoldLaws` | what a fold computes, for any operator and any sequence: lemmas, the induction the proofs use |
| `Gateway`, `Ready`, `App`, `AppProofs` | the handlers, the announcement, both in one process that dies and restarts; their proofs |

Operators named in a comment as "A mutant" are plausible wrong versions of the
definition after them; no specification uses them. Each is the definition that
a property of a run must refute, listed under `mutants` in `PROJECT.json`.

### NetApply

`pc` follows the awaits of `net_apply()`: `resolve` (the op's connection, for
the two-command ops), `create`, `command` (`cmd` 1 or 2), `rollback`, `check`
and `poll` (`verify`), `destroy`, `await`, `list` and `explicit`
(`await_rollback`), `status`, `record`. A tool step has a deadline `due`; the
environment may serve its request at any moment before (`CreateServed`,
`CommandServed`, ...), and the app learns of it from the tool's end
(`...Succeeds`, `...Fails`). So a request may be served and its tool still
fail: after a cancellation, or, with `LostReplies`, because the reply was lost.
`Tick` is one unit of time, never past `due`, never past the latest the timer
fires (`FireLag`). `Cancel` and `Crash` are possible at every point; the
checkpoint outlives both.

A configuration is named by the call that made it; `reaches` is the set of
those with which the platform answers, chosen in `Init`. `SafeChange` is what
the whole promises: try anything under a guard, drop the guard only over a
configuration that reaches the platform, otherwise put back what it holds.
`NetApply` implements it with `guard` = what a pending checkpoint saved.

Assumed: at most one checkpoint is pending (the README has NetworkManager
refuse a second, README.md:240); an "up" of an interface or connection reaches
the platform, as the code assumes when it lets it go ahead without a
checkpoint; an nmcli command takes effect as a whole or not at all, whatever it
exits with; NetworkManager does not restart. Taken to take no time: the app's own
computing, its progress updates (see *Not modelled*), the attempt of a tool
on the host when it is not installed there, and the second a killed tool's output
may take to drain (`executor.rs:290`, less than the clock's unit). A tool that ends by itself ends
before its timeout, and a killed one has no effect afterwards.

### Exec

`pc` follows `run_command`: `start`, `wait` (the child, the deadline, the
cancellation), `reap`, `drain` (the capture tasks, under the same deadline),
`grace` (one second after a kill), `ended`, `returned`. `alive` and `holds`
are the processes that live and that hold the output pipe: the command, a
child left in its group, and a stranger in a session of its own. `pipe` and
`written` count bytes; `live` is `LiveOutput`. The stream's tick, its
heartbeat (due at any tick) and the update it awaits are `Update` and `Sent`.
Left out: an error of waiting for the child (`executor.rs:268, 276`), stdin's writer, the spawn into namespaces, reuse of process ids; the
two streams are captured alike, so there is one.

### ModbusScan

Each thread (`th`) opens its port, configures a setting, asks a unit and
classifies what comes: silence, the unit's answer, another unit's, garbage, a
read error. A slow device's answer may arrive in a later exchange (`late`).
The call spawns, joins in any order and returns; the watcher polls the
cancellation. Port candidates are a chosen set of skipped ports; a frame with a
good CRC is one a device sent; `noise` is a flag; a failing join is left out
(`scan_port` has no path that panics).

### ModbusRpc

`pc` follows the awaits of the three methods: `next` and `probe` (the loop of
`probe_modbus`), `read`, `write`, `readback`, and `record` until
`Gateway::typed` returns. An mbpoll has not started (`Start`, `Unrun`: `?`
returns at once), waits for the bus, or has an answer on its way (`answer`);
`MayEnd` says which of the outcomes that the code tells apart (values, an
exception, "Connection failed", any other failure) it may then have. The bus
serves a request at any moment before the end (`Serve`), so an mbpoll that is
given up may have been served; one that was not may be still (`stray`, `Late`).
Others change registers at any time (`Meddle`), and a gateway may answer for a
unit it cannot reach. Payloads are kept apart from accepted requests:
`Acceptable` is the checks of the three `parse` functions, `Distinct` the
probe's list of units. The four kinds of register have one table, and a read's
first value stands for all. `took` is a history variable: what the written
register has held since the write was served.

### Parse, Diag

`Diag` is one call of `net_status`, `net_wifi_scan` or `scan_network`; a step
runs a tool from its start to its end. `now` is the time of the call: `Lasts`
lets a tool take up to its timeout and the executor's grace, at each place it
is tried. `scan_network` goes through `addr`, `route`, `route-get` (finding the
target), `discover` (two tools at once) and `ports`; `Runs` is how a tool may
end: not run, exit 0, or failed or killed with any part of its lines and
perhaps one that is cut (`Parts`). `net_status` goes through `StatusTools` in
their order; `Needed` has the conditions under which the later ones are run,
`Unnoted` the failures that are not put in `errors`. Its four checks run at
once in the code and share nothing: one after the other is one of their orders.

`Parse` has the pure functions as operators over what the texts hold: IPv4
networks (`Subnet`, `DefaultSubnet`), port ranges, the default route,
`NmcliWifiList`, `ResolvectlStatus` over the lines of a status, `HostsIn` and
`OpenIn` over lines of which the last may be cut. It uses folds, not RECURSIVE
operators, so that the proofs can extend it. `Printed` is what resolvectl prints
of the nameservers it knows (`DnsTables`), with the first of a section beside its
key or below it; a table of nmcli's (`WifiTables`) has any rows of `WifiRows`.

### Gateway, Ready, App

`Gateway` has one handler per call; `kind` says what it shares. Its body is a
step that changes and ends: NetApply, ModbusScan, ModbusRpc, Diag and Exec are
what it stands for. `SetStep` needs `~updating` except for a scan, whose threads set the step.
`commands_run` is read and set in two steps, as two statements on two threads
may interleave. `Ready` has the runs of the app, the configured, the served
and the synced channels and the markers; a marker is known by the run that
wrote it, which stands for "a `ready_at` newer than the deployment". `App`
puts both in one process: a request is delivered only once the served channel
has synced, and a death takes handlers and subscriptions together. The
runtime calls `setup`, `main_loop` and `on_config_update` one at a time: they
take `&mut self`.

## 3. Runs

| Run | Asks | Size |
|---|---|---|
| `net_apply_two_calls` | all safety of `net_apply` and the refinement of `SafeChange`, two calls one after the other with crashes and cancellations between | 1.6 M states |
| `net_apply_live` | one call with any D-Bus reply lost: every call returns, a stranded device recovers, every guard ends | 0.14 M |
| `exec_command` | everything about a command | 55 k |
| `modbus_scan` | a scan on two ports, one slow, with hints: its safety and its end | 0.86 M |
| `modbus_calls` | two probes, reads or writes in a row: their reports, one unit a write, their end | 0.17 M |
| `diagnostics` | scans, statuses and wifi scans with every failure of a tool | 0.17 M |
| `app` | locks, cancellation, progress, readiness, answers | 0.29 M |
| `rolled_back_lost_reply`, `cancelled_kept`, `scan_never_complete`, `uncounted_calls`, `served_not_announced` | one stated claim each, refuted: see *Findings* | |

### Bounds, and why they are enough

- `NetApply`: `MaxCalls` 2 lets a call meet whatever an earlier one left
  (a pending checkpoint, half a change, a rollback). The clock's unit is 5 s;
  the constants are the source's in that unit, rounded so that the relations the
  code relies on stay tight (`MIN_WAIT + NMCLI_GRACE + TOOL_TIMEOUT = MIN_ROLLBACK`, as
  10 + 10 + 10 = 30). The clock stands still when nothing is pending, so
  `MaxTime` is never reached. The final `net_status` takes one unit: nothing
  depends on its length but what may happen meanwhile. D-Bus replies are lost in
  the liveness run, in the run that refutes `RolledBackReportIsTrue`, and in the
  proofs, which do not fix `LostReplies`. `FireLag` exceeds
  `ROLLBACK_GRACE`, so that the timer may be later than the app waits.
- `Exec`: a limit and a pipe of two bytes, five bytes written: the limit is
  passed within a chunk and between chunks, the pipe fills and empties.
- `ModbusScan`: three units (`MAX_UNIT` is odd, like 247, so the middle one is
  reached from one end only), two settings, hints that repeat and reorder,
  devices at one setting or both, on none, one or both ports. One port is slow
  and the other is not, so a late answer and a hit on time can meet.
- `ModbusRpc`: unit ids 0 to 2 (broadcast, and two units of a probe), payloads
  at and past each limit (one that cannot be read, a unit too many, a repeated
  unit, a count past the last register, unit 0 on either transport), two values,
  buses with absent, answering and refusing units. Two calls: a write given up in the first may be
  taken during the second.
- `Diag`: addresses of three bits, prefixes at and past both limits; two
  interfaces, tables with none, one and two addresses, routes with equal and
  missing metrics; a budget that slow tools use up before the discovery; wifi
  tables with hidden networks, equal and missing signals; links with
  none, one and two DNS servers, beside their key or below it; networks with and without
  systemd-resolved, resolv.conf, modem, wifi and a default route.
- `App`: two calls, a method of its own task (`exec`) and one with a lock and
  threads (`scan`), one change of step (a second adds no order of events), two
  starts of the app and one change of channel. No two calls of this run share
  `net_lock`: that half of `OneAtATime` is left to `OneCallAtATime`, for all methods.

### Fairness, and why the code has it

- `NetApply`: weak fairness of the app's steps (every await is on a tool with a
  timeout, a sleep, or nothing), of time and of NetworkManager's timer. None of
  any tool being served, of the platform answering, of calls arriving.
- `Exec`: the select loops of `run_command` and `stream` are polled again and
  again (strong fairness: what they wait for comes and goes), the capture tasks
  run, an update in flight ends. None of the command, its children, the
  timeout or the cancellation.
- `ModbusScan`: the call, the watcher (a 100 ms loop) and each thread go on; an
  exchange ends by its timeout. None of devices answering.
- `ModbusRpc`: the call goes on: the runtime polls it, and each mbpoll ends by
  its timeout (`run_timeout`). None of a unit serving or answering.
- `Diag` states none: nothing it says is about the end of a call but
  `EndsNearBudget`, which bounds the time of every step.
- `App`: a handler goes on; its body, polled between two updates, ends (strong
  fairness; the other modules show that bodies end); the runtime syncs the
  served channel and runs the app's turns, and a turn whose channel has synced
  writes the marker in the end. None of requests, cancellations or deaths.

## 4. What is proved

The proofs hold for every value of the constants under the named assumptions
of each module. Each safety theorem follows from an inductive invariant.

**NetApplyProofs.** `NumbersAssumption` types the constants, `WindowAssumption`
relates them: a window has room for a slow reply to `CheckpointCreate` and one
whole nmcli command, and the margin for a check begun at its last instant.
`SourceNumbersFit` shows that the source's numbers satisfy it. The invariant
`IInv` has a part per stretch of the flow. The safety properties alone are not
inductive: that a check is made of the change depends on the timer not having
fired, hence on how long each step before it may have taken; `CreateInv`,
`CommandInv` and `VerifyInv` carry that arithmetic, `ConfigInv` says what a
checkpoint saved and what is stored when there is none, `EndInv` and
`ReportInv` say what each way out of the flow has established. Proved:
`TypeCorrect`, `Invariance`, `DeviceNeverStranded`, `ChecksSeeTheChange`,
`VerdictsAreNotEarly`, `KeptReportsAreTrue`, `ErrorsAreClean`,
`RolledBackReportsAreTrue` (when no reply is lost: the finding shows it false
otherwise) and `Refinement` of `SafeChange`.

**ExecProofs.** `ExecInv`: the output kept is what left the pipe, cut at the
limit; once the run is killed the group is empty; what is remembered as sent
was carried. Proved: `ExecInvariance`, `KilledCommandsAreDead`,
`OutputIsComplete`, `SentOutputIsCarried`.

**AppProofs.** Handlers and announcement are proved apart (`GatewayInv`: who
runs holds its locks, an answer is never given across a cancellation, what is
remembered as sent was shown; `ReadyInv`: only the served channel is synced,
no marker is of a run to come), and `AppHandles` and `AppAnnounces` show that
the composition implements both. From these: `OneCallAtATime`,
`CancellationsStand`, `StepsAreCarried`, `MarkersAreTrue`.

**ModbusScanProofs.** `BusInv`: a hit and a late answer are those of devices
(`LateIsThere` is what makes `OtherUnit` sound: a frame with a good CRC is of
someone on the bus), and the call has joined exactly the threads that are done
(`CallInv`). From it `FoundDevicesExist`, `OtherUnitsExist` and `NoThreadIsLeft`.
`SilentInv` adds how far each thread is: whoever has been `Tried` in vain on a
port without error or noise is not there, and a thread that ended without being
told to has tried all. From it `SilenceIsWhole`. That every order of units has
all of them, whatever is hinted, is `HintsOnlyReorder`, a theorem about the folds
of `unit_order` and `settings_order` (by `FoldOnce`).

**ModbusRpcProofs.** `WriteInv`: a write that is confirmed was served in this
call, and what its register holds since is in `took`, also when another master
or an older write changes it in between; so a read-back served after it returns
one of these. From it `WritesAreReported`. `WritesReachOneUnit` rests on
`Acceptable`: an accepted serial request has no unit 0, so no step is a
broadcast. `ProbeInv`: the units still to come and those that have an entry are
the list of the request, which names no unit twice (`DistinctUnits`, by
`FoldOnce`), and each entry is what the bus had for its unit when the exchange
ended (`IsThere`). From it `TypeCorrect` and `ProbesAreTrue`.

**DiagProofs.** `TimeInv` bounds the clock at each place (three tools of two
places before the discovery, then what is left of the budget, at least a
second); `ScanEndsNearBudget` follows. `TargetInv` carries where the target
comes from (`ScansTheOwnNetwork`; it needs that an address is in the network
cut from it: `GuessedNetwork`).
`HostInv` relates the hosts and the errors of a scan to who is up
(`ListedHostsAreReal`, `ScansWithoutErrorsAreWhole`). `TypeCorrect` needs these
three: that ports are of hosts, and a target is a network, is not by itself
inductive. Of powers of two the proofs take only that they are positive
(`ParseAssumption`), which TLC evaluates.

**StatusProofs.** `WifiInv` says where the networks of a wifi scan come from. The
rest is a theorem about `NmcliWifiList`: an induction along the rows
(`BetterKeepsBest`: what is kept is one row of each name heard so far, none
weaker than another of its name), and that sorting by place only reorders
(`PlacesAreTaken`: places are distinct numbers, so all are taken). From both
`WifiListsAreOfStrongest`. `StatusInv`: every tool of a status that is behind it
has been read, is in `errors`, or is not missed (`Unmissed`), and stays so as the
later tools are read. `StatusesAreWhole` adds that `ResolvectlStatus` gives back
what resolvectl knew from what it printed (`StatusRead`): an induction along the
servers of a section (`RestRead`) inside one along the links. It assumes, with
`DiagAssumption`, that resolvectl lists no server of a link twice.

**FoldLaws.** The prover can't instantiate a theorem about an operator, so it can't
cite the library's induction. It can instantiate a *module* about an operator, and
a theorem about a set: `FoldLaws` has the constant `Op`, states predicates as
sets, and gets `SetInduction` from the well-foundedness of `<`. Its lemmas say
that `FoldLeft` runs along its sequence (`FoldEnds`), keeps what each step keeps
(`FoldInvariant`), may be cut in two (`FoldConcat`), and what it computes of an
operator that appends only what is new (`FoldOnce`, `FoldOfNew`). A proof takes
them with `INSTANCE FoldLaws WITH Op <- ...`, once for each operator it folds.

**Only model-checked.** Liveness: fairness and ENABLED are out of the prover's
reach. So `EveryCallReturns`, `StrandedRecovers`, `GuardsEnd`, `ExpiryEndsIt`,
`NeverBlocked`, `TruncationIsTold`, `EveryScanEnds`, `EveryRequestIsAnswered` and
`AnnouncesItself` are shown on the instances of the runs. Every safety invariant
and action property of a passing run is a theorem.

## 5. Findings

1. `rolled_back_lost_reply` (`netapply.rs:995`): when `CheckpointDestroy` takes
   effect and its reply is lost, the change is kept, and the call reports it
   rolled back.
2. `cancelled_kept` (`netapply.rs:1027`): a cancellation that comes once the
   checkpoint is destroyed is answered with "any checkpoint rolls back at its
   deadline"; there is none any more, and the change stays.
3. `scan_never_complete` (`scan.rs:761`): a scan that ran to its end and found
   nothing says `"stopped": "cancelled"`; `"complete"` is never said.
4. `uncounted_calls` (`app.rs:506`): two calls recorded at once count once.
5. `served_not_announced` (`app.rs:578`): after a change of `rpc_channel`
   before the first announcement, the served channel is never announced.

Three smaller disagreements met while modelling have no run of their own; the
models have the code's side of each:

- `modbus.rs:746`: README.md:407-408 says of a failed read-back "the write itself
  succeeded". When mbpoll cannot be run for it (a cancellation, a process that
  cannot be started), the `?` makes the call `MODBUS_FAILED` instead.
  `WriteReportIsTrue` says that this is the only case.
- `diag.rs:696`: README.md:159 says "capped at 60 s". Each step has at least a
  second and a killed tool its grace; `EndsNearBudget` is the bound that holds.
- `diag.rs:249-250`: "whatever can't be read is an entry in `errors`". Not so for a
  bearer's APN (`diag.rs:529-535`) and, where resolv.conf stands in for
  resolvectl, for the servers of each interface; `StatusIsWhole` leaves these
  out.

A TCP gateway's "Gateway path unavailable" counts as an answer of the unit
(`modbus.rs:380`), though it is the gateway that says the unit is not there;
`ProbeIsTrue` allows for it.

## 6. Not modelled

- A progress update that takes long. `with_progress` awaits it in the loop that
  polls the body (`app.rs:495`), so it delays the kill of a tool and every step
  of `net_apply`. At the shortest window the source's numbers leave no room for
  such a delay (10 + 10 + 10 = 30): `NetApply` takes updates to return at once.
  A parameter for it would only restate that the shortest window has room for
  none; how long the platform takes for an update is not in this repository.
- The values of the tags other than `commands_run`; the limits of the
  configuration (they parameterise a request; that one request may read two
  configurations between its checks is left out, as nothing says which it
  should get).
- The text of arguments, outputs, reasons and progress lines, and the splitting
  of texts into fields (`split_terse`, the JSON of `ip` and `mmcli`,
  `interface` names): data that no property tells apart. The narrowing of a
  hinted baud rate (`scan.rs:554`) is in one of these.
- The fields of a status or of a host that are copied from a tool's output.
- Ownership of process ids after a reap (`kill_group` of a group whose members
  are gone); a scan thread that fails to join (`scan_port` has no path that
  panics, and the runtime is not shut down under a call).
- `main` and the doover runtime: glue and an external library, the environment
  of `App`.

## 7. What could be added

1. Reference definitions of the other pure functions (`DefaultRoute`,
   `ParsesAsPorts`), if their texts are to be modelled, and proofs against them.
2. The configuration as a value that handlers read where the code reads it, if
   the project decides what a request in flight is to get.
3. A delay of progress updates in `NetApply`, if the runtime bounds one.
