# Apollo 2 in TLA+

A verification project for the firmware of the Apollo 2, an ESP32 controller
for the La Marzocco Linea Micra with one or two Bluetooth scales. It models the
parts of the firmware in which several threads, or a long sequence of legal
calls, decide what happens: who may use the one BLE radio, who holds the
machine's paddle line closed, who switches the machine on and off, and what the
shot history keeps when the power is cut.

Contents: [Inventory](#inventory) · [Plan](#plan) · [Radio](#the-radio) ·
[Brew controller](#the-brew-controller) · [Machine](#who-switches-the-machine) ·
[Shot store](#the-shot-store) · [Runs](#runs-and-bounds) ·
[Fairness](#fairness) · [Proofs](#proofs) · [Findings](#findings) ·
[Corner cases](#corner-cases) · [Not modelled](#what-is-not-modelled)

Run a model with `tlc -workers 2 -config RadioSafety.cfg MCRadio.tla`, check the
proofs with `tlapm` on the seven modules whose name ends in `Proof` and on `RadioClock`. Paths below are relative to the
repository unless they start with `tla/`.

## Inventory

Threads: one FreeRTOS task per BLE link (the Micra, the espresso scale, the
bench scale), the device/UI loop (`src/device/main.cpp`: brew controller,
parking, schedule, UI), the SD card's writer task, and the NimBLE host task with
its callbacks.

| Component | State | Operations | Talks to | Hard part | Correct means |
|---|---|---|---|---|---|
| Radio arbiter (`core/radio_arbiter`) | per slot: target, wanted, connected, partner, parked, user scan, sighting, last served; the lease (holder, work, preempted, ticket); finder backoff; transport hold level | `set_*`, `request_user_scan`, `abort_slot`, `poll`, `release`, `was_preempted`, `finder_targets`, `report_sighting` | called by all threads; calls the transport's hold / cancel hooks | preemption racing a grant, cancels that reach nothing, starvation | one listener at a time, every lease returned, scans run, everyone is served |
| Link loops (`core/micra_link`, `core/scale_link`) | address, token, switches, redial request, `connected`, `scanning_`, backoff | `run`, `set_address`, `set_token`, `set_connect_enabled`, `set_partner_mode`, `request_scan` | arbiter, transport, UI | values copied at the head of a pass and used seconds later | a link leads to the saved peer; a lost link is redialled |
| Link sessions (the rest of those two files) | pending commands, polls, request timer, settings cache, tare resend, battery | commands, poll reads, `abort_stalled_request`, tare, settings writes | transport, UI | stalled requests, a token verified late, partner session racing the mode switch | a command is sent once or reported, a new token is tried |
| BLE transport (`platform_esp32/nimble_central`) | `hold_`, `cancelled_`, `connecting_` | connect, scan, cancel, hold | NimBLE | cancel before start | no attempt outlives its lease |
| Brew controller (`core/brew_controller`) | mode, phase, timer, drive line, flush, cleaning, breaker, sense filter | `poll` and the UI's setters | paddle, scale, machine standby, detector | four owners of one line; flags set in one path and cleared in five | the line opens when it must and closes only on purpose |
| Shot detector (`core/shot_detector`) | onset candidate, flow window | `poll`, `reset` | brew controller | blackout, runaway, drip | one started and one end per shot |
| Paddle (`platform_esp32/paddle`) | wiring, CTRL, DRIVE, sense pin | `sensed`, `drive`, `own`, `set_wiring` | brew controller | Link wiring takes the paddle from the machine | a tripped breaker leaves the machine usable |
| Dose tracker (`core/dose`) | bench weight filter, last dose | `poll` | bench scale, UI | cup on/off | the dose is the settled one |
| Schedule engine (`core/schedule`) | consumed slots, deferral, auto-standby count | `set_config`, `tick` | UI loop, clock, Micra link | clock steps, ON and standby in one tick, edits in an open window | each slot acts once, no standby in use |
| Shot store (`platform_esp32/shot_store`), history | index and samples files on the SD card, the list in RAM, the writer's queue | save, remove, mount, unmount, list | UI, writer task | a power cut or a pulled card between two file operations; a deletion beside a save | what was saved stays, what was deleted stays deleted, the list is the card's |
| Configuration, backup | NVS keys | load, save, restore | all | partial restore | old settings still load |
| Install mode, updates | pending version, boot partition, try counter | boot, install, confirm | network, flash | reboot between two writes | never a boot loop |
| Scale drivers, battery estimate, roles, provisioner | frame parsers, drain model, slot roles | notify, encode | scale link | split frames, swapped roles | – |
| Umbra partner | inbound session | callbacks | scale link | order of callbacks and mode switch | the slot is connected only with a session |
| Network, web UI, token setup, clock | WiFi state, portal | – | parks the radio | I/O | – |
| Display, touch, sound, battery, system, crash record | drivers | – | – | I/O | – |
| UI (`src/ui`) | pages | taps | everything | – | shows what is so |
| Simulator, host fakes, tools | – | – | – | – | – |

`tla/PROJECT.json` lists the hazards behind this table, each at its line.

## Plan

Done:

1. **Radio**: `RadioArbiter` → `RadioLinks` (links, transport, UI, parking) with the
   abstract `RadioChannel`; proofs in `RadioLinksProof` and `RadioChannelProof`;
   `RadioClock`, the arithmetic of its times, with its theorems.
2. **Brew controller**: `BrewController`; proofs in `BrewControllerProof`.
3. **Machine**: `WeekClock` (pure) → `ScheduleEngine`, and `MicraSession`, composed by
   `MachineControl`; proofs in `WeekClockProof` and `MachineControlProof`.
4. **Shot store**: `ShotStore` with power cuts and pulled cards; proofs in `ShotStoreProof` and `ShotStoreCardProof`.

Left, in this order:

5. A sighting that carries the address it was seen for, in `RadioArbiter`.
6. `ScaleSession`: the connected session of `ScaleLink` (tare sent twice,
   settings with debounce, retry and echo grace) and the inbound partner session
   of `umbra_partner`, whose callbacks race `set_partner_mode`.
7. `InstallMode` across reboots.
8. `ShotDetector`, `DoseTracker` as functions of a short weight trace.

Theorems left: those of the modules still to be written.

## The radio

`RadioArbiter` holds the arbiter's state and one operator per method. Every method
runs under one mutex for its whole body, the transport hook included
(`radio_arbiter.cpp:335`; the header's line 116 still says the hooks run outside
it), so each is one atomic step. Each operator determines all five of its
variables:

| Variable | Code |
|---|---|
| `slots` | `slots_`: `wanted`, `connected`, `partner`, `parked`, `user_scan`, `addr`; `sighted` = has a sighting younger than the window; `later` = the slots served strictly later, which orders slots exactly as comparing `last_served_ms` does |
| `lease` | `holder_`, `holder_work_`, `holder_preempted_` (the ticket is the lease itself: GrantIsLive shows that a stale one never occurs) |
| `chunk` | `next_chunk_ok_ms_` as "due", `chunk_gap_ms_` in seconds, `sighting_in_chunk_` |
| `hold` | `NimbleCentral::hold_` of the slot's transport |
| `air` | whether that transport is inside a cancellable call, and whether a cancel has reached it |

`RadioLinks` adds the link tasks. `task[s].pc` says between which two
critical sections the task is; everything a pass has copied lives in the record
(`up` = the local `connected`, `peer` = the copied address, `targets`, `seen`, `ok` = whether
the dial came up, and `cut` = the answer of `was_preempted`). A connected scale may also give up a live link
(no weight, or its driver finds it dead), which the arbiter sees as a loss. `cfg` holds what other threads write (address, whether the user wants a connection,
rejected token, partner mode, redial request), `raw` the BLE connection itself, `scanning`/`ui` the two halves of
`request_scan` on the UI thread. The user, the device loop (parking) and the
peers act at every point; `MaxOps` bounds how often and `Interferences` how.

`Top` merges the three setters a pass calls one after the other (`set_target`,
`set_wanted`, `set_partner_mode`); nothing reads the slot between them but the other
links' `poll`, which sees the old or the new values. The Micra and the scales
share their actions; they differ where `s \in Scales` is asked (when the address is
copied, partner mode, the verify reads).

`RadioChannel` is what the BLE host needs: one listening procedure at a time, none
for ever. `RadioLinks` implements it under the mapping `listening`.

`RadioClock` is pure: the arbiter's times as 32-bit stamps and their comparisons. No run needs it; its
theorems say when the flags `due`, `sighted` and `later` are what the code computes.

## The brew controller

Everything runs on one task, so atomicity is not the question; sequences
are. `poll()` is modelled as its stages (`stage`: cleaning, paddle, shot, settle and
review, flush), since the values it reads come from other tasks and change
between two reads of one poll. Setters run between polls.

| Variable | Code |
|---|---|
| `settings` | `mode_`, `wired_paddle_`, `flush_s_ > 0`, the wiring, `scale_known()` |
| `paddle` | sense filter (`sense_candidate_`, `sense_stable_`, `sensed_once_`), accepted level, breaker counters, `tripped_`, and the Link's CTRL (`owned`) |
| `driving` | `driving_`: the machine's line is held closed |
| `shot` | `phase_`, `timer_`, `baseline_set_`, `auto_stopped_`, `hint_fired_`, `stop_hint_`, `blind_since_ms_` |
| `flush`, `clean` | `flush_state_` and its reference level; `clean_`, `bf_on_`, `bf_cycle_`, `bf_done_` |
| `detector` | whether the detector is between started and ended |

Every read of the outside (scale connected, weight past the target, deadline
reached, machine in standby, raw paddle level) is any Boolean, chosen at each
read: the weaker environment covers every real one. Weights exist only as these
comparisons; the overshoot estimates' arithmetic is left out, but not *which* shot
teaches (`LessonIsThisShots`). The glitch filter, the breaker's two counters and their
window restarts are kept.

## Who switches the machine

The UI loop ticks the schedule engine twice a second with what the Micra link shows
and what the brew controller is doing, and posts the engine's answer into the link's
mailbox, where the power button posts too. The link task takes it out and writes it.
Between the decision and the write lie a stalled request, a re-dial, a new token, a
second command. `MachineControl` composes the two halves.

| Variable | Code |
|---|---|
| `cfg` | `ScheduleEngine::cfg_`: master switch, warm-up lead, auto-standby, a plan per weekday |
| `engine` | `on`, `off`: the slot a latch remembers as consumed; `defer`, `idle`: the standby held back and the minutes of its grace; `asb`, `seen`: the auto-standby count and `asb_shot_seen_` |
| `clock` | the minute of the week and whether the clock is trusted |
| `history` | no code: slots consumed while their window is open, minutes since use |
| `conf`, `flags` | `MicraLink`'s `token_`, `connect_enabled_`; `token_bad_`, `reconnect_requested_`, `recovering_` and whether `kRecoverMaskMs` has passed |
| `shown` | `link_`, `power_` as the UI reads them |
| `task` | where `run()` is, its `connected`, the token it copied, the command in its hands, the link it is handing to `set_link` |
| `watch` | where the device loop is in `abort_stalled_request`: past its look at the request's age, past raising the mask |
| `pending`, `owed` | `pending_power_`; no code: the last command posted, until it lands |
| `machine`, `ble` | the world: the machine's power, what it reports, whether it is in reach; the connection |
| `act` | what the brew controller reports: a shot or cleaning, a review, nothing |

`Tick` is one call of `tick()` with its early returns: the auto-standby count, the blind
part (switch off or clock not trusted), expired latches, the deferred standby, the loop
over the weekdays. The loop is stated as which slots are due and which of them its
order reaches; that each list has one member at most is not assumed but proved
(`OneOnSlot`, `OneOffSlot`). `TaskStep` is a pass of `run()`, cut where another thread
can come between. A call of `set_link` is steps of its own: the caller's stores before it
(`recovering_`, its `connected`), its look at the mask, which may swallow the link (`Swallow`) or
have it said (`Publish`), and, if it found the mask up but past its time or not meant for this
link, taking it down (`Unmask`). The watchdog is three: the stale look, the mask raised, the link
dropped. So it may raise the mask between a caller's `recovering_.store(false)` and `set_link`'s load of
it. The age of the request, the age of the mask and the link shown are read and written in the step they belong
to. The snapshot the tick is given and the post are one step, as they
run on one thread.

## The shot store

`ShotStore` has two threads: the UI, which edits the list in RAM under a lock and
queues jobs, and the writer task, which alone touches the card, one FatFs call at a
time. The world may cut the power or pull the card between any two of those calls.

| Variable | Code |
|---|---|
| `card` | `shots.csv` (`index`, `rows`), `shots.csv.tmp` (`tmp`, `tmpRows`), one samples file an id (`csv`), and whether the mounted card still answers |
| `store` | `available_`, `index_`, `next_id_`, `storage_info_.busy` |
| `queue` | the FreeRTOS queue of `kQueueDepth` jobs |
| `writer` | which call of which job the task is at; the id and record of a save, the copy of the index of a removal |
| `ui` | inside `remove()`, between taking the row out and sending the job |
| `history` | no code: rows saved and not deleted (`kept`), deletions agreed to (`doomed`), carried out (`gone`); rows a mount found no index for (`lost`), whether a deletion met a mount or a put-back came too late (`drift`); a row the writer has listed and not yet appended is not late |

A save is four steps (row into the list, row appended, samples opened, samples closed),
a removal six (samples unlinked, list copied, copy opened, closed, index unlinked, copy
renamed), a mount two or three. A file's content counts from its `fclose`, when FatFs
updates the directory entry; opened for writing before, it is there and empty. A pulled card
fails the next `fopen`, may let other calls pass unnoticed, and answers again only after a mount.

## Runs and bounds

| Run | Instance | Shows |
|---|---|---|
| `radio_safety` | two scales, one peer each, 3 interferences of every kind but a new token; 5.8 M states | the six invariants and two action properties below |
| `radio_service` | two scales, 2 interferences (scan, address, park, loss), fair | `ImplementsChannel`, `UserScanServed`, `LossIsNoticed` |
| `radio_contention` | the Micra and two scales, 1 interference (park, loss, token), fair | `MissingIsServed` |
| `radio_lost_scan` | as safety | violates `ScanFlagIsHonest` |
| `radio_stale_peer` | the Micra with two addresses | violates `LinkIsToSavedPeer` |
| `brew_wired` | a Link, breaker limits 2, 2 pulses, 2 user changes; 1.3 M states | line ownership and the breaker |
| `brew_service` | both wirings, 1 user change, fair | flags end with their shot; timed things end |
| `brew_flush` | a Cable rig | violates `FlushIntoQuietTray` |
| `brew_breaker` | Auto to Cable and back | violates `TrippedHandsBack` |
| `machine_control` | a week of two days, the plans of one legal day, lead 1 (so that the first ON wraps into the week before), grace and wait 1, 2 operations of use, edit, network, button; 1.8 M states | `SlotFiresOnce`, `StandbyIsPatient` |
| `machine_service` | a one-day week, two tokens of which one is accepted, 2 operations of button, token, switch, hand, stall, drop, fair; 431 208 states | `LastCommandIsKept`, `ConnectedIsHonest`, `ParkIsShown`, `CommandLands`, `MaskEnds` |
| `shot_store` | 3 shots, 3 ids, queue of 2, 2 disturbances (cut, pull, unmount, statistics reset), fair; 389 069 states | the five storage invariants, `DeletionsLand` |

*Why the bounds are enough.* Two scales are the smallest system with finder
chunks, sightings of another slot, and a scan preempting another slot; the third
slot matters only for fairness and has its own run. Three interferences allow a
request, a disturbance of it, and a disturbance of the recovery. The theorems below
remove the bound on slots, peers and operations for all eight properties of `radio_safety`, and the bounds on the rig for all of `brew_wired` and the two
invariants of `brew_service`. In the brew models, filter depth 2 (code: more) keeps rejected and accepted
pulses apart; trip limits 2 make one pulse not enough; 2 backflush pulses have a
first, a pause and a last. `HasPaddle = FALSE` is not run: a rig without paddle hardware has
only the detector path, which the other rigs take in Detect mode as well.

In `machine_control` two days are the least with two slots open at once and a slot that
wraps; window and grid are equal, the tightest `WeekAssumption` allows; grace and wait of one
minute already tell "started" from "over". `machine_service` shrinks the week
instead, since its properties are about the link; two operations give a stall on top of a
command, a second command during the first one's write, or a token set during a verify. In
`shot_store` three shots allow one kept, one being deleted and one being saved; a queue of two
fills; two disturbances allow a cut in a job and a second one in the recovery, or a pulled card
and a cut. The theorems remove these bounds for every
invariant and every action property of the three runs.

Properties of the radio: `RadioExclusive` (never two listeners), `GrantIsLive`
(who works under a grant still has it), `NoOrphanLease`, `HoldIsCurrent` (the
transport's refuse level equals "this lease was preempted"), `ConnectedIsBacked`,
`UserScanRunsOut`, `OnlyEmptyChunksBackOff`, `UserScanServed`, `MissingIsServed`,
`LossIsNoticed`. Of the brew controller: `LineOpenWhenTripped`, `LineHasOwner`,
`CleaningOwnsLine`, `DoneMeansComplete`, `NoSurpriseClose`, `StoppingIsNeverBlocked`,
`HintDiesWithShot`, `LessonIsThisShots`, `LineOpensAgain`, `FlushRunEnds`,
`CleaningEnds`, `SettlingEnds`. Of the machine and the store: those named in the table, with
`RowsSurvive`, `SamplesSurvive`, `RamMatchesCard`, `DeletedStaysDeleted`, `IdsUnique`. Each is preceded in its module by what it says about
the code, and `PROJECT.json` names for each a seeded fault that breaks it.

## Fairness

* `WF(TaskStep(s))`: a link task is a FreeRTOS task whose every blocking call has a
  timeout (connect, chunk, scan) and whose sleeps end.
* `WF(ScanRequested(s))`: the UI thread finishes the call it has begun.
* `WF(Time)`: sightings age and gaps end.
* `WF(Poll)`: the device loop polls for ever.
* `SF(Deadline)`: a deadline once reached stays reached, so every later poll takes it;
  as the model chooses "reached" at each poll, strong fairness over the deadline actions
  expresses that the clock runs. It is asked only of the transitions that depend on the clock
  alone. The flush's watch, the cup and the shot's end depend on the user and get none.
* `WF(LinkStep)`, `WF(WatchdogActs)`: the Micra's task and the device loop run on. That a mask grows old,
  `WF(MaskRunsOut)`, is the premise of `MaskEnds` only: `ParkIsShown` holds however young the mask is.
* `SF` of a dial that succeeds, asked only while the machine is in reach; `SF` of a verify that is
  answered; `SF` of an acknowledged write. The radio lets a machine in reach connect in the end, and
  it does not fail for ever. `CommandLands` excuses a machine out of reach, a parked link and a
  command the schedule replaced.
* `WF(WriterStep)`, `WF(UiReturns)`: the writer is a task whose card calls return, and `remove()` waits
  250 ms at most.
* The user, the peers, the card and parking owe nothing.

## Proofs

`RadioLinksProof` proves, for any finite set of slots, any subset of them scales, any addresses,
park sources and operation bound (the named assumptions of `RadioArbiter` and
`RadioLinks`):

* `Invariant`: `Spec => []IInv` with
  `IInv == TypeOK /\ LeaseInv /\ HoldIsCurrent` and
  `LeaseInv == GrantIsLive /\ NoOrphanLease /\ CheckHasScan`.
* hence `TypeCorrect`, `OneListener` (`RadioExclusive`), `GrantsAreLive`,
  `LeasesAreReturned` (`NoOrphanLease`), `HoldFollowsLease` (`HoldIsCurrent`).

Why this invariant: exclusivity itself is not inductive. That two tasks never listen
follows from both holding *the* lease (`GrantIsLive`). That in turn survives a grant only if no
holder has wandered back to its loop (`NoOrphanLease`), with the one exception the code
has: a user scan granted at the gate is run at the head of the next pass, which is
reached because the scan is still pending and only the scan's own release clears it
(`CheckHasScan`: a task at the scan check has a scan to find). `HoldIsCurrent` needs the
leases' exclusivity, for a preempt raises the level of the holder's transport only.
The proof has one lemma per action, using lemmas about what the arbiter's operators do to the lease
(grant, preempt, release), and combines them in one step of `Next`.

`RadioChannelProof` goes on from that invariant, under the same assumptions:

* `ConnectedLinksAreBacked` (`ConnectedIsBacked`). Inductive beside `TypeOK`: only a link that comes up, is
  marked down or fails its verify (`Relinks`) moves a task's `up` or raises a slot's `connected`, and none
  leaves the slot connected with its task down.
* `UserScansRunOut` (`UserScanRunsOut`): each step leaves the lease, grants a free one, preempts what may
  be preempted, or returns the task's own; a user scan is not among what may be. That a scan starts
  uncut is the auxiliary `ScanNotCut`.
* `EmptyChunksAloneBackOff` (`OnlyEmptyChunksBackOff`): every other step keeps the gap or resets it; the
  release that grows it is that of the task holding the chunk, by `GrantIsLive`.
* `LinksShareTheChannel` (`ListensInTurn`, the part of `ImplementsChannel` that is not liveness): the
  step simulation of `RadioChannel`. One step moves one task, so
  one link at most begins or ends listening; by `RadioExclusive` before and after it, a step in which a link
  begins finds the channel quiet, and every other step ends a procedure or stutters.

`RadioClock` is about the arithmetic of 32 bits, for any uptime. A stamp differs from its time by whole
turns of the clock, so differences of stamps have the remainder of the difference of the times, and its half tells
the sign of a difference that fits. Hence `ReachedIsAtOrAfter`, `ServiceOrder`, `GapEndsOnTime` and
`SightingAges`, for times less than 2^31 ms (24.8 days) apart, and `TouchedGapIsDueInFirstHalf`: the 0 that stands for "due
now" is due in the first half of each turn only. So `chunk.due` after a touch is the code's answer for uptimes
below 24.8 days (and in every other such span), and what the runs say of finder chunks holds for those.

`BrewControllerProof` proves, for any rig (paddle or none, any wirings), filter depth, breaker limits,
pulse count and operation bound (the named assumptions of `BrewController`):

* `LineInvariant`: `Spec => []IInv` with `IInv == TypeOK /\ OwnerInv /\ FlushYields`.
* hence `ControllerTypeCorrect`, `TrippedLineStaysOpen` (`LineOpenWhenTripped`),
  `NoOrphanLine` (`LineHasOwner`), `CleaningIsExclusive` (`CleaningOwnsLine`),
  `CompleteIsComplete` (`DoneMeansComplete`), and from the same invariant the action
  properties `StoppingNeverBlocked` and `NoSurpriseStart`.

Why this invariant: "every closed line has an owner" is not inductive without knowing who excludes whom.
A cleaning cycle must be alone between two polls and never tripped (`CleanAlone`), a
pulse must belong to a backflush that still counts (`PulsesCounted`), an accepted ON must be a
known level (`SeenFirst`), and a running flush must never meet a settling shot
(`FlushYields`), or arming the next flush would take the running one's line with it.
The last holds because a running flush keeps the paddle's edges to itself, so only the detector can start
a shot beside it, and the flush stage of the same poll gives way.
The proof states one lemma per shape of step (the line relayed, followed, kept, cancelled), and one
per stage of `poll()` that reduces its actions to them.

The same module proves `HintsDieWithTheirShot` (`HintDiesWithShot`) and `LessonsAreOfThisShot`
(`LessonIsThisShots`) with the invariant `ShotFlags`: the hint is up only while brewing *and* only
with the shot on the detector's side (not `Wired`), and a brewing shot's fired hint is the one that is up.
The second half of the first is what a reader of the code does not see: `BlindTooLong`, on the wired side,
does not look at the hint. Every setter that changes sides ends the shot first, except that a scale paired or
forgotten ends nothing. So both theorems assume `RigIsFixed`: no `known` among the knobs, or no
paddle line. Without it TLC finds both violated (see [Corner cases](#corner-cases)).

`WeekClockProof` is about the arithmetic alone, for any number of days, any grid that divides the day
and any lead below a day: `SanitizedIsLegal`, and that two open ON windows (or two OFF windows) share
their trigger. Triggers are multiples of the grid, all ON triggers shifted by the same lead, so two of
them differ by a multiple of the grid modulo the week, and a window is no longer than the grid.

`MachineControlProof` proves, for any such week, any legal plans, any grace and wait, any tokens
and any bound on operations:

* `ControlInvariant`: `Spec => []IInv` with `IInv == EngineInv /\ LinkInv /\ ops \in 0..MaxOps`.
* hence `ControlTypeCorrect`, `CommandKept`, `ConnectedHonest`, and the action properties
  `SlotsFireOnce`, `StandbyPatient`.

Why this invariant: that a slot is not consumed twice needs to know that whatever is in `fired` and
still open is what the latch holds (`FiredInv`), which in turn rests on the week's
arithmetic: were two different slots of a kind open together, one latch could not hold both. That standby comes
only after rest needs the two counts never to run ahead of the rest they measure (`IdleInv`, `CountInv`), through
edits, blips and ticks. The link's half adds that the command being written is a real one, and that a task
about to say Connected holds the link (`SaysWhatItHolds`).

`ShotStoreProof` proves, for any number of shots, ids, queued jobs and disturbances:

* `StoreInvariant`: `Spec => []Inv` with `Inv == TypeOK /\ Shape /\ IdInv /\ KeptInv`.
* hence `StoreTypeCorrect`, `RowsOutliveFailures` (`RowsSurvive`), `SamplesOutliveFailures`
  (`SamplesSurvive`) and `ListedIdsUnique` (`IdsUnique`).

The middle two speak of the kept rows without those a mount has found no index for (`history.lost`),
and until something drifts. They say nothing of the rows of a lost index, whose samples the code does
truncate (see [Corner cases](#corner-cases)), but cover again every shot saved after the loss.

Why this invariant: a row is safe only if nothing that is still to happen will hit it. So the invariant
speaks of every place with a plan in it: the copy of the index a removal has made must hold every kept row but
the one the UI has just taken out (`KeptWriter`); a queued removal, by its id alone, must name no kept
row (`KeptCalls`); the copied file must be complete before the index goes (`ShapeWriter`). Ids are what ties
these together: `IdInv` keeps them apart and below the next one, in the list, on the card, in the copy and in flight.
Fifteen actions change nothing of this (`Calm`) and share a lemma; the others have one each.

`ShotStoreCardProof` adds, for the same instances:

* `CardInvariant`: `Spec => [](Fresh /\ RamInv /\ GoneInv)` (on top of `Inv`).
* hence `RestingListIsOnCard` (`RamMatchesCard`) and `DeletedShotsStayAway` (`DeletedStaysDeleted`).

Why this invariant: that list and index agree *at rest* says nothing while work is under way, so
`RamInv` says by how much they may differ until then: a row is on the card only while its removal is in the
UI's hands, in the queue or with the writer, and in the list only while the writer is about to append it
(`RamCard`); the row about to be appended is listed, or already being removed again behind it (`RamWork`); the copy
of the index that a removal has made, which becomes the index, holds the list and the rows on their way out
(`RamSnap`). `GoneInv` says that a deleted row is in none of the five places from which the list or the index is ever
filled, and needs that the row being removed has left all but the index (`WidLeft`), or the end of the
removal would leave it in the copy. Both need `Fresh`: the queue is in order of shots and a queued save is of a later
shot than every row there is or was, or the save would make a deleted row once more.
`RamInv` and `GoneInv` except exactly what the properties except (`history.drift`). Steps that
list nothing, append nothing and end no removal (`Quiet`) share their lemmas.

Only model-checked: liveness, that is `UserScanServed`, `MissingIsServed`, `LossIsNoticed`, the five
timed ends of the brew controller and the link, `CommandLands`, `DeletionsLand`, and the
liveness half of `ImplementsChannel` (its safety half is proved). Fairness and ENABLED are
outside the prover's reach. Every invariant and every action property of a passing run has a theorem.
Nothing here needs induction over data.

## Findings

1. **A second Scan is lost** (`radio_lost_scan`): between `scanning_.store(false)` and
   the release of the lease. The release clears the new request.
2. **A link can stay on the old peer** (`radio_stale_peer`): the pass that consumes the
   redial request dials the address it had copied before the change.
3. **The flush may start on a closed line** (`brew_flush`) and then open it under the user.
4. **A wiring change takes the paddle back while the breaker is tripped** (`brew_breaker`).

`PROJECT.json` quotes the lines these disagree with.

## Corner cases

Seen while modelling, without a run of their own. Each is in the model or follows from it; the radio's, the brew controller's and the shot store's
first two are at odds with a comment, and the invariants except exactly them (the rows in `history.lost`, `history.drift`, no change of the known scales, and in
`RadioClock` no time but the touched gap's 0).

* Shot store
  - An index lost to a cut between unlink and rename is not recovered: the next mount takes the card
    for new, makes an empty index with next id 1 (`shot_store.cpp:461`), and the next save truncates
    `000001.csv`. `shots.csv.tmp` holds the whole index and is not looked at. The comment on the swap
    (`shot_store.cpp:835`) has the samples files untouched "either way". To see it: check `SamplesSurvive`
    without its `\ history.lost` in the instance of `shot_store` with one disturbance.
  - A put-back after a full queue may come after the writer has copied the list without the row, when
    the jobs in the queue are saves: the row stays listed, and is gone at the next mount. The comment on
    the put-back (`shot_store.cpp:820`) is that with it RAM and card cannot drift apart. To see it: check
    `RamMatchesCard` without its `~history.drift`. A removal under way across a mount brings a row back in the same way.
  - A card whose index lost its header line is refused as written by newer firmware (`shot_store.cpp:447`).
  - Ids are unique but not monotonic: delete the newest shot, remount, and its id is used again.
  - Jobs behind an unmount are dropped although `remove()` said yes: `DeletionsLand` excuses it.
* Radio
  - Between 24.8 and 49.7 days of uptime "due now" is not due: `touch_locked` stores 0 (`radio_arbiter.cpp:332`, "due
    now"), and `reached(now_ms, 0)` is false while the clock is at 2^31 or above. With two scales missing no finder chunk is
    granted until the clock wraps; the Micra, a single missing scale and the user's scan are not affected. Proved as
    `TouchedGapIsDueInFirstHalf`.
* Brew controller
  - A scale forgotten during a detected shot leaves the stop hint lit. `App::forget_scale` (`ui/app.cpp:5384`) is not
    refused during a shot; without a known scale Shot detect counts as Manual (`brew_controller.h:101`), so on a relayed
    line the running shot moves from `poll_unwired()` to `poll_wired()`, whose blind exit (`brew_controller.cpp:421`) goes
    idle without clearing `stop_hint_`, as every other end of a shot does (line 630: "the signal must not outlive it";
    `brew.h:134`: "Latches true until the shot ends"). Found when `ShotFlags` turned out not to be inductive. To
    see it: check `HintDiesWithShot` in the instance of `brew_flush` with `Knobs = {"known"}`, `MaxOps = 1`.
* Schedule and link
  - The user's Disconnect may be swallowed for one pass of the link task: `run()` clears `recovering_`
    (`micra_link.cpp:216`, "the user's Disconnect is real, mask or not"), and the watchdog, on a look at a request that has
    ended since, sets it again (`:110`) before `set_link` loads it (`:122`). The next pass, half a second later, clears it and
    says Disconnected; that it comes to that is `ParkIsShown`. In the model: `Park`, `RaiseMask`, `Swallow`.
  - A scheduled standby waits in the mailbox through a stall and a re-dial, and may land on the shot that has
    begun meanwhile (`ui/app.cpp:5770`): `StandbyIsPatient` is about the decision.
  - A tick that consumes an ON with the machine already on can return the auto-standby due at that moment
    (`schedule.h:42`).
  - A command whose write went unacknowledged is repeated and overrides a hand switch in between.
  - A token set while the old one is being verified is rejected with it, untried (`micra_link.cpp:295`).
  - A clock that steps back over the end of a window, or a reboot inside one, fires the slot again
    (`schedule.cpp:225`).

## What is not modelled

* The scales' connected sessions (settings, tare, battery) and inbound partner sessions: planned.
  Without partner sessions `partner_connected_` is never true, so the partner branch of the scale loop only drops the link.
* Time as numbers: deadlines are flags in every run. The radio's wrap-around is in `RadioClock` and only proved
  about.
* Address types, known-type relearning and the length of backoffs: they change how long an attempt
  lasts, not what it does. A connect's two attempts (public, random) are one call.
* A scale's `set_connected(false)` after a failed dial: the slot is not connected, so it changes nothing.
* Tokens other than "rejected or not"; a machine without a token is a machine without an address.
* Of the Micra's session, the mailboxes of the brew target and of the steam boiler, which work as the power's does;
  `set_token` is one step; a machine that accepts the token is taken not to answer garbage three times in a row.
* Of the schedule, the calendar (`weekday_iso0`; the date is taken to be valid), the NVS packing, the log of missed slots and the
  wording of notices. Time is in minutes, and a use outlasts the half second between two ticks.
* Of the shot store, the settings backups it also writes, the statistics' marker file, row formats and capacity figures.
* The bulk of the source by lines: images and fonts as headers (`src/include/ui/img_*.h`, over 30 000 lines), LVGL pages
  (`src/src/ui`), display, touch and codec drivers. They hold no state another part decides on; what the pages *call* is in
  the models as the user's actions.
* Network, configuration, drivers, simulator: I/O, or planned above.
