--------------------------- MODULE BrewController ---------------------------
(***************************************************************************)
(* core::BrewController (src/core/brew_controller.cpp): the state machine  *)
(* that owns the machine's paddle line.  It relays the user's paddle, cuts *)
(* a shot at the target weight, follows shots of unwired rigs by a weight  *)
(* detector, rinses after a shot, runs the cleaning cycles, and stops      *)
(* trusting a flickering paddle input (the breaker).                       *)
(*                                                                         *)
(* Everything runs on one task: poll() and the setters.  poll() is modelled *)
(* as its sequence of stages, because the values it reads (scale snapshot, *)
(* machine standby, raw paddle level) are fed by other tasks and may       *)
(* change between two reads of the same poll; setters run between polls.   *)
(*                                                                         *)
(* Abstractions: a value read from outside (is the scale connected, is the *)
(* target reached, is a deadline reached, is the machine in standby) is    *)
(* any BOOLEAN at every read; weights are kept only as those comparisons.  *)
(***************************************************************************)
EXTENDS Integers

CONSTANTS
  HasPaddle,    \* IPaddle::available()
  Wirings,      \* the paddle wirings the board offers
  StablePolls,  \* kSenseStablePolls
  RejectTrip,   \* kBreakerRejectTrip
  ShortTrip,    \* kBreakerShortTrip
  Cycles,       \* kBackflushCycles
  Knobs,        \* bound: what the user changes while the controller runs
  MaxOps        \* bound: how often

ASSUME PaddleAssumption == HasPaddle \in BOOLEAN /\ Wirings \subseteq {"Auto", "Link", "Cable"}
ASSUME StableAssumption == StablePolls \in Nat /\ StablePolls > 1
ASSUME LimitsAssumption ==
  RejectTrip \in Nat \ {0} /\ ShortTrip \in Nat \ {0} /\ Cycles \in Nat \ {0} /\ MaxOps \in Nat

VARIABLES
  stage,     \* how far poll() has come; "between": no poll is running
  settings,  \* mode_, wired_paddle_, flush_s_ > 0, the wiring, scale_known()
  paddle,    \* the sense filter, the accepted level and the breaker
  driving,   \* driving_: the machine's line is held closed
  shot,      \* phase_, timer_ and the flags of the current shot
  flush,     \* flush_state_, flush_paddle_ref_
  clean,     \* clean_, bf_on_, bf_cycle_, bf_done_
  detector,  \* detector_, as far as its events tell: active after kStarted
  ops        \* the changes the user has made

vars == <<stage, settings, paddle, driving, shot, flush, clean, detector, ops>>

Modes  == {"Manual", "Auto", "Detect"}
Phases == {"Idle", "Brewing", "Settling", "Review"}
Stages == {"between", "sense", "brew", "settle", "flush"}

Settings == [mode : Modes, wired : BOOLEAN, flush : BOOLEAN, wiring : Wirings,
             known : BOOLEAN]

Paddle == [on : BOOLEAN, seen : BOOLEAN, cand : BOOLEAN, stable : 0..StablePolls,
           edged : BOOLEAN, rejects : 0..RejectTrip, shorts : 0..ShortTrip,
           tripped : BOOLEAN, owned : BOOLEAN]

Shot == [phase : Phases, timer : {"reset", "running", "stopped"}, baseline : BOOLEAN,
         auto_stopped : BOOLEAN, hint_fired : BOOLEAN, stop_hint : BOOLEAN,
         blind : BOOLEAN]

Flush == [state : {"Off", "Armed", "Delay", "Running"}, ref : BOOLEAN]

Clean == [mode : {"Off", "Manual", "Backflush"}, on : BOOLEAN, cycle : 0..Cycles,
          done : BOOLEAN]

TypeOK ==
  /\ stage \in Stages
  /\ settings \in Settings
  /\ paddle \in Paddle
  /\ driving \in BOOLEAN
  /\ shot \in Shot
  /\ flush \in Flush
  /\ clean \in Clean
  /\ detector \in {"idle", "active"}
  /\ ops \in 0..MaxOps

(* Paddle::own and Paddle::begin: only a Link has the CTRL line that takes *)
(* the paddle away from the machine.                                       *)
HasCtrl(wiring) == wiring # "Cable"

(* Boot, after seed(): any persisted settings, the line open.              *)
Init ==
  /\ stage = "between"
  /\ settings \in Settings
  /\ paddle = [on |-> FALSE, seen |-> FALSE, cand |-> FALSE, stable |-> 0,
               edged |-> FALSE, rejects |-> 0, shorts |-> 0, tripped |-> FALSE,
               owned |-> HasCtrl(settings.wiring)]
  /\ driving = FALSE
  /\ shot = [phase |-> "Idle", timer |-> "reset", baseline |-> FALSE,
             auto_stopped |-> FALSE, hint_fired |-> FALSE, stop_hint |-> FALSE,
             blind |-> FALSE]
  /\ flush = [state |-> "Off", ref |-> FALSE]
  /\ clean = [mode |-> "Off", on |-> FALSE, cycle |-> 0, done |-> FALSE]
  /\ detector = "idle"
  /\ ops = 0

-----------------------------------------------------------------------------
(* What the settings amount to.                                            *)

Relay == HasPaddle /\ settings.wired

EffMode ==
  IF ~settings.known THEN "Manual"
  ELSE IF settings.mode = "Auto" /\ ~Relay THEN "Detect" ELSE settings.mode

Wired == Relay /\ EffMode # "Detect"

ShotInFlight == shot.phase \in {"Brewing", "Settling"}

-----------------------------------------------------------------------------
(* The drive line, and everything that lets go of it.                      *)

(* Seeded fault: the breaker is not asked.                                 *)
DriveAnyway(closed) == closed

(* set_drive: the breaker refuses every close.                             *)
Drive(closed) == IF closed /\ paddle.tripped THEN driving ELSE closed

(* Seeded fault: the pulse ends, the cycle does not.                       *)
CleanPulseOff == [clean EXCEPT !.on = FALSE]

CleanOff == [clean EXCEPT !.mode = "Off", !.on = FALSE]

FlushOff == [flush EXCEPT !.state = "Off"]

(* end_clean *)
EndClean == clean' = CleanOff /\ driving' = FALSE

(* Seeded fault: a flush is cancelled like one that never ran.             *)
CancelFlushLeavesLine == flush' = FlushOff /\ driving' = driving

(* cancel_flush: a running one opens the line, wherever the paddle is.     *)
CancelFlush == flush' = FlushOff /\ driving' = (driving /\ flush.state # "Running")

(* What cancel_shot leaves of a flush and of a shot.                       *)
Forgets ==
  /\ flush' = FlushOff
  /\ shot' = [shot EXCEPT !.phase = "Idle", !.timer = "reset",
                          !.stop_hint = FALSE, !.hint_fired = FALSE]
  /\ detector' = "idle"

(* cancel_shot: a cleaning cycle ends with them, and the line opens.       *)
CancelShot == Forgets /\ EndClean

CancelShotIf(condition) ==
  IF condition THEN CancelShot ELSE UNCHANGED <<driving, clean, flush, shot, detector>>

Stopped(timer) == IF timer = "running" THEN "stopped" ELSE timer   \* ShotTimer::stop

(* Seeded fault: a discarded run leaves its stop hint up.                  *)
EndShotKeepsHint(sh, long) ==
  IF long THEN [sh EXCEPT !.stop_hint = FALSE, !.phase = "Settling"]
          ELSE [sh EXCEPT !.phase = "Idle", !.timer = "reset"]

(* end_shot: a run under kMinShotMs is a rinse and is forgotten.           *)
EndShot(sh, long) ==
  IF long THEN [sh EXCEPT !.stop_hint = FALSE, !.phase = "Settling"]
          ELSE [sh EXCEPT !.stop_hint = FALSE, !.phase = "Idle", !.timer = "reset"]

-----------------------------------------------------------------------------
(* The paddle input (sense_paddle_edge) and its breaker.                   *)

Filtered(raw) ==
  IF raw # paddle.cand THEN [paddle EXCEPT !.cand = raw, !.stable = 1]
  ELSE [paddle EXCEPT !.stable = IF @ < StablePolls THEN @ + 1 ELSE @]

(* breaker_note: one more pulse, in this window or as the first of a new   *)
(* one.  Counting stops where the trip is due.                             *)
Noted(count, fresh, limit) ==
  IF fresh \/ count = 0 THEN 1 ELSE IF count < limit THEN count + 1 ELSE count

(* Seeded fault: the first stable level after boot counts as an edge.      *)
SensedAtBoot(raw, brief, fresh) ==
  LET f == Filtered(raw)
      flips == f.stable >= StablePolls /\ f.cand # paddle.on
  IN [next  |-> [f EXCEPT !.on = IF flips THEN f.cand ELSE @,
                          !.seen = @ \/ f.stable >= StablePolls,
                          !.edged = @ \/ flips],
      edge  |-> IF ~flips \/ paddle.tripped \/ flush.state = "Running" THEN "none"
                ELSE IF f.cand THEN "on" ELSE "off",
      trips |-> FALSE]

(* One call that is not throttled: a level is accepted once it has held    *)
(* StablePolls calls; the first one is adopted without an edge; a pulse    *)
(* that never held, and an ON given up too soon, go to the breaker; a      *)
(* tripped breaker and a running flush keep the edge to themselves.        *)
Sensed(raw, brief, fresh) ==
  LET f == Filtered(raw)
      accepted == f.stable >= StablePolls
      flips    == paddle.seen /\ accepted /\ f.cand # paddle.on
      rejected == paddle.seen /\ raw # paddle.cand /\ paddle.stable < StablePolls
      short    == flips /\ ~f.cand /\ paddle.edged /\ brief
      rejects  == IF rejected THEN Noted(paddle.rejects, fresh, RejectTrip) ELSE paddle.rejects
      shorts   == IF short THEN Noted(paddle.shorts, fresh, ShortTrip) ELSE paddle.shorts
      trips    == /\ ~paddle.tripped
                  /\ \/ rejected /\ rejects >= RejectTrip
                     \/ short /\ shorts >= ShortTrip
  IN [next  |-> [f EXCEPT !.on = IF accepted THEN f.cand ELSE @,
                          !.seen = @ \/ accepted, !.edged = @ \/ flips,
                          !.rejects = rejects, !.shorts = shorts,
                          !.tripped = @ \/ trips, !.owned = @ /\ ~trips],
      edge  |-> IF ~flips \/ paddle.tripped \/ trips \/ flush.state = "Running" THEN "none"
                ELSE IF f.cand THEN "on" ELSE "off",
      trips |-> trips]

(* A call that yields this edge.                                           *)
Edge(edge) ==
  \E raw, brief, fresh \in BOOLEAN :
    LET r == Sensed(raw, brief, fresh) IN
    ~r.trips /\ r.edge = edge /\ paddle' = r.next

(* A call throttled to kSensePeriodMs, or one that yields nothing.         *)
NoEdge == UNCHANGED paddle \/ Edge("none")

(* trip_breaker inside the call: the line opens, whatever held it.         *)
Trip ==
  /\ \E raw, brief, fresh \in BOOLEAN :
       LET r == Sensed(raw, brief, fresh) IN r.trips /\ paddle' = r.next
  /\ CancelShot

-----------------------------------------------------------------------------
(* poll, first: a cleaning cycle owns the line (poll_clean).               *)

AtClean == stage = "between" /\ clean.mode # "Off"

Pulsing(on) == AtClean /\ Relay /\ clean.mode = "Backflush" /\ clean.on = on /\ NoEdge

(* A poll that the cycle survives ends here; else the rest of poll follows *)
(* (the paddle is not asked again in this poll).                           *)
CleanPolled ==
  /\ stage' = IF clean'.mode = "Off" THEN "brew" ELSE stage
  /\ UNCHANGED <<settings, shot, flush, detector, ops>>

(* The "Wired paddle" setting went off under the cycle.                    *)
CleanLosesRelay ==
  /\ AtClean /\ ~Relay
  /\ EndClean
  /\ stage' = "sense"
  /\ UNCHANGED <<settings, paddle, shot, flush, detector, ops>>

(* A flip takes the machine back and is obeyed, but starts no shot.        *)
CleanTakeover(edge) ==
  /\ AtClean /\ Relay
  /\ Edge(edge)
  /\ clean' = CleanOff
  /\ driving' = (edge = "on")
  /\ CleanPolled

CleanTrips ==
  /\ AtClean /\ Relay
  /\ Trip
  /\ stage' = "brew"
  /\ UNCHANGED <<settings, ops>>

CleanWaits ==
  /\ AtClean /\ Relay
  /\ NoEdge
  /\ UNCHANGED <<driving, clean>>
  /\ CleanPolled

ManualFlushEnds ==
  /\ AtClean /\ Relay /\ clean.mode = "Manual"
  /\ NoEdge
  /\ EndClean
  /\ CleanPolled

(* Seeded fault: the last pulse is left out.                               *)
LastPulseEarly == clean.cycle + 1 >= Cycles

(* Seeded fault: one pulse too many.                                       *)
LastPulseLate == clean.cycle > Cycles

LastPulse == clean.cycle >= Cycles

PulseEnds ==
  /\ Pulsing(TRUE)
  /\ driving' = FALSE
  /\ clean' = IF LastPulse THEN [clean EXCEPT !.on = FALSE, !.mode = "Off", !.done = TRUE]
                           ELSE [clean EXCEPT !.on = FALSE]
  /\ CleanPolled

PulseBegins ==
  /\ Pulsing(FALSE)
  /\ driving' = Drive(TRUE)
  /\ clean' = [clean EXCEPT !.on = TRUE, !.cycle = @ + 1]
  /\ CleanPolled

-----------------------------------------------------------------------------
(* poll, second: the paddle (the heads of poll_wired and poll_unwired).    *)

AtSense == clean.mode = "Off" /\ stage \in {"between", "sense"}

WiredEdge(edge) == AtSense /\ Wired /\ Edge(edge)

PassEdge(edge) == AtSense /\ HasPaddle /\ ~Wired /\ Edge(edge)

(* What the edge does to the line and to the shot.                         *)
Relays(line, sh) ==
  /\ driving' = line
  /\ shot' = sh
  /\ stage' = "brew"
  /\ UNCHANGED <<settings, flush, clean, detector, ops>>

PaddleQuiet ==
  /\ AtSense
  /\ IF HasPaddle THEN NoEdge ELSE UNCHANGED paddle
  /\ Relays(driving, shot)

PaddleTrips ==
  /\ AtSense /\ HasPaddle
  /\ Trip
  /\ stage' = "brew"
  /\ UNCHANGED <<settings, ops>>

(* Wired: the user would expect an armed shot, so the review keeps the     *)
(* machine off.  Armed but without the scale, the same.                    *)
OnRefused ==
  /\ WiredEdge("on")
  /\ \/ shot.phase = "Review"
     \/ shot.phase = "Idle" /\ EffMode = "Auto"
  /\ Relays(driving, shot)

(* Wired, the machine in standby: the flip is its wake switch, not a shot. *)
OnWakes ==
  /\ WiredEdge("on")
  /\ shot.phase # "Review"
  /\ Relays(Drive(TRUE), shot)

(* Wired: the line closes and the timer runs.  Untracked: Manual mode, the *)
(* drips of the shot before still falling, or the scale gone dark between  *)
(* the two looks at it.                                                    *)
OnRuns ==
  /\ WiredEdge("on")
  /\ shot.phase # "Review"
  /\ Relays(Drive(TRUE), [shot EXCEPT !.timer = "running"])

(* Wired, Auto, the scale there: a shot.  The baseline is at hand if the   *)
(* scale reads about zero, else it is tared and awaited.                   *)
OnBrews ==
  /\ WiredEdge("on")
  /\ shot.phase = "Idle" /\ EffMode = "Auto"
  /\ \E tared \in BOOLEAN :
       Relays(Drive(TRUE),
              [shot EXCEPT !.timer = "running", !.phase = "Brewing", !.baseline = tared,
                           !.auto_stopped = FALSE, !.hint_fired = FALSE, !.blind = FALSE])

(* Seeded fault: only a tracked shot is opened by the paddle.              *)
OffCutsShotsOnly ==
  /\ WiredEdge("off")
  /\ \E long \in BOOLEAN :
       LET stopped == [shot EXCEPT !.timer = Stopped(@)] IN
       Relays(driving /\ shot.phase # "Brewing", IF shot.phase = "Brewing" THEN EndShot(stopped, long) ELSE stopped)

OffCuts ==
  /\ WiredEdge("off")
  /\ \E long \in BOOLEAN :
       LET stopped == [shot EXCEPT !.timer = Stopped(@)] IN
       Relays(FALSE, IF shot.phase = "Brewing" THEN EndShot(stopped, long) ELSE stopped)

(* Pass-through: refused only where a detected shot would go unseen.       *)
PassRefused ==
  /\ PassEdge("on")
  /\ EffMode = "Detect"
  /\ Relays(driving, shot)

PassOn ==
  /\ PassEdge("on")
  /\ Relays(Drive(TRUE), [shot EXCEPT !.phase = IF @ = "Review" THEN "Idle" ELSE @])

PassOff ==
  /\ PassEdge("off")
  /\ Relays(FALSE, shot)

-----------------------------------------------------------------------------
(* poll, third: an automated shot (the tail of poll_wired).                *)

(* What this stage does to the line and to the shot.                       *)
Follows(line, sh) ==
  /\ driving' = line
  /\ shot' = sh
  /\ stage' = "settle"
  /\ UNCHANGED <<settings, paddle, flush, clean, ops>>

BrewStep(line, sh) ==
  stage = "brew" /\ Wired /\ Follows(line, sh) /\ UNCHANGED detector

NothingBrews == shot.phase # "Brewing" /\ BrewStep(driving, shot)

(* The scale is dark: fly blind ...                                        *)
FliesBlind == shot.phase = "Brewing" /\ BrewStep(driving, [shot EXCEPT !.blind = TRUE])

(* ... for kBlindGraceMs; then the automation ends, the machine runs on.   *)
BlindTooLong ==
  /\ shot.phase = "Brewing" /\ shot.blind
  /\ BrewStep(driving, [shot EXCEPT !.phase = "Idle", !.timer = Stopped(@), !.blind = FALSE])

(* Waiting for the tare to land, then watching the weight grow.            *)
Pours ==
  /\ shot.phase = "Brewing"
  /\ \E confirmed \in BOOLEAN :
       BrewStep(driving, [shot EXCEPT !.blind = FALSE, !.baseline = @ \/ confirmed])

TargetReached ==
  /\ shot.phase = "Brewing" /\ shot.baseline
  /\ \E long \in BOOLEAN :
       BrewStep(FALSE, EndShot([shot EXCEPT !.blind = FALSE, !.timer = Stopped(@),
                                            !.auto_stopped = TRUE], long))

-----------------------------------------------------------------------------
(* poll, third: the weight detector (the tail of poll_unwired).            *)

AtDetect == stage = "brew" /\ ~Wired

Armed == shot.phase = "Idle" /\ EffMode = "Detect"

DetectorParked ==
  /\ AtDetect /\ ~Armed /\ shot.phase # "Brewing"
  /\ detector' = "idle"
  /\ Follows(driving, shot)

(* Nothing to see, or the end of something that is not a shot here.        *)
DetectorWatches ==
  /\ AtDetect /\ Armed
  /\ detector' \in {detector, "idle"}
  /\ Follows(driving, shot)

(* Seeded fault: the flag of the last relay stop is not cleared.           *)
StartedKeepsFlags ==
  [shot EXCEPT !.phase = "Brewing", !.timer = "running", !.baseline = TRUE,
               !.hint_fired = FALSE, !.stop_hint = FALSE, !.blind = FALSE]

(* A shot the detector saw begin: its baseline is at hand, its flags clear. *)
Started ==
  [shot EXCEPT !.phase = "Brewing", !.timer = "running", !.baseline = TRUE,
               !.auto_stopped = FALSE, !.hint_fired = FALSE, !.stop_hint = FALSE,
               !.blind = FALSE]

Detected ==
  /\ AtDetect /\ Armed /\ detector = "idle"
  /\ detector' = "active"
  /\ Follows(driving, Started)

(* The stop hint of this poll: two updates past the target latch it.       *)
Hinted(latch) ==
  [shot EXCEPT !.stop_hint = @ \/ latch, !.hint_fired = @ \/ (latch /\ ~shot.stop_hint)]

DetectedPours ==
  /\ AtDetect /\ shot.phase = "Brewing"
  /\ detector' \in {detector, "active"}
  /\ \E latch \in BOOLEAN : Follows(driving, Hinted(latch))

(* Flow ceased or the cup was pulled: a shot, a rinse, or just a splash.   *)
DetectedEnds ==
  /\ AtDetect /\ shot.phase = "Brewing" /\ detector = "active"
  /\ detector' = "idle"
  /\ \E latch, espresso, long \in BOOLEAN :
       Follows(driving,
               EndShot([Hinted(latch) EXCEPT !.timer = Stopped(@)], espresso /\ long))

(* Blackout or runaway: nothing honest to review.                          *)
DetectedAborts ==
  /\ AtDetect /\ shot.phase = "Brewing" /\ detector = "active"
  /\ detector' = "idle"
  /\ \E latch \in BOOLEAN :
       Follows(driving, [Hinted(latch) EXCEPT !.phase = "Idle", !.timer = "reset",
                                              !.stop_hint = FALSE])

-----------------------------------------------------------------------------
(* poll, fourth: the drip tail and the review.                             *)

Rests(phase) ==
  /\ stage = "settle"
  /\ shot' = [shot EXCEPT !.phase = phase]
  /\ stage' = "flush"
  /\ UNCHANGED <<settings, paddle, driving, clean, detector, ops>>

SettleWaits == Rests(shot.phase) /\ UNCHANGED flush

SettleGoesDark == shot.phase = "Settling" /\ Rests("Idle") /\ UNCHANGED flush

(* Seeded fault: the review waits for the paddle to be put back.           *)
SettledPaddleOff == shot.phase = "Settling" /\ ~paddle.on

Settled == shot.phase = "Settling"

(* The drips have stopped or kSettleMs is over: freeze, arm the flush.     *)
Settles ==
  /\ Settled
  /\ Rests("Review")
  /\ flush' = IF settings.flush /\ Relay THEN [state |-> "Armed", ref |-> paddle.on] ELSE flush

ReviewTimesOut == shot.phase = "Review" /\ Rests("Idle") /\ UNCHANGED flush

-----------------------------------------------------------------------------
(* poll, last: the post-shot flush (poll_flush).                           *)

(* The last stage of poll.                                                 *)
PollEnds ==
  /\ stage = "flush" /\ stage' = "between"
  /\ UNCHANGED <<settings, paddle, shot, clean, detector, ops>>

(* The user reaches for the machine: an OFF-to-ON flip before the run.     *)
ReachedForPaddle == paddle.on /\ ~flush.ref /\ flush.state # "Running"

(* A new shot, or the relay lost.                                          *)
GivesWay == ~Relay \/ ShotInFlight

(* One step of the sequence; the reference level follows the paddle.       *)
FlushStep(from, to, line) ==
  /\ PollEnds
  /\ flush.state = from /\ ~GivesWay /\ ~ReachedForPaddle
  /\ flush' = [state |-> to, ref |-> paddle.on]
  /\ driving' = line

FlushWaits ==
  \/ \E state \in {"Armed", "Delay", "Running"} : FlushStep(state, state, driving)
  \/ PollEnds /\ flush.state = "Off" /\ UNCHANGED <<flush, driving>>

FlushGivesWay == PollEnds /\ flush.state # "Off" /\ GivesWay /\ CancelFlush

FlushDeclined ==
  /\ PollEnds
  /\ flush.state # "Off" /\ ~GivesWay /\ ReachedForPaddle
  /\ flush' = [state |-> "Off", ref |-> paddle.on]
  /\ UNCHANGED driving

(* The watch is over, or the scale that would see the cup go is dark.      *)
FlushExpires == FlushStep("Armed", "Off", driving)

CupOff == FlushStep("Armed", "Delay", driving)

(* A machine in standby would take the closed line for its wake switch.    *)
FlushSkipped == FlushStep("Delay", "Off", driving)

FlushRuns == FlushStep("Delay", "Running", Drive(TRUE))

(* Seeded fault: the run ends only with the paddle off.                    *)
FlushEndsPaddleOff == ~paddle.on /\ FlushStep("Running", "Off", FALSE)

(* Seeded fault: the line is left closed.                                  *)
FlushEndsDriving == FlushStep("Running", "Off", driving)

FlushEnds == FlushStep("Running", "Off", FALSE)

-----------------------------------------------------------------------------
(* The UI's calls, between two polls.                                      *)

Changes(knob) ==
  /\ stage = "between" /\ UNCHANGED stage
  /\ knob \in Knobs
  /\ ops < MaxOps
  /\ ops' = ops + 1

(* can_clean, the machine awake.                                           *)
CanClean == Relay /\ ~paddle.tripped /\ ~ShotInFlight

(* A cleaning cycle starts from a clean slate: cancel_shot, then the line  *)
(* closes at once.                                                         *)
StartClean(cycle) ==
  /\ CanClean
  /\ Forgets
  /\ clean' = cycle
  /\ driving' = Drive(TRUE)

(* toggle_manual_flush: Stop, Stop the post-shot flush, or Start.          *)
ToggleManualFlush ==
  /\ Changes("clean")
  /\ \/ /\ clean.mode = "Manual"
        /\ EndClean
        /\ UNCHANGED <<shot, flush, detector>>
     \/ /\ clean.mode # "Manual" /\ flush.state = "Running"
        /\ CancelFlush
        /\ UNCHANGED <<shot, clean, detector>>
     \/ /\ clean.mode = "Off" /\ flush.state # "Running"
        /\ StartClean([clean EXCEPT !.mode = "Manual", !.on = FALSE])
  /\ UNCHANGED <<settings, paddle>>

StartBackflush ==
  /\ Changes("clean")
  /\ StartClean([mode |-> "Backflush", on |-> TRUE, cycle |-> 1, done |-> FALSE])
  /\ UNCHANGED <<settings, paddle>>

CancelBackflush ==
  /\ Changes("clean")
  /\ clean.mode = "Backflush"
  /\ clean' = [CleanOff EXCEPT !.done = FALSE]
  /\ driving' = FALSE
  /\ UNCHANGED <<settings, paddle, shot, flush, detector>>

SetShotMode(mode) ==
  /\ Changes("mode")
  /\ mode # settings.mode
  /\ settings' = [settings EXCEPT !.mode = mode]
  /\ CancelShotIf(shot.timer = "running" \/ shot.phase # "Idle" \/ driving)
  /\ UNCHANGED paddle

SetWiredPaddle(on) ==
  /\ Changes("wired")
  /\ on # settings.wired
  /\ settings' = [settings EXCEPT !.wired = on]
  /\ CancelShotIf(shot.phase # "Idle" \/ driving)
  /\ UNCHANGED paddle

SetFlushSeconds(on) ==
  /\ Changes("flush")
  /\ on # settings.flush
  /\ settings' = [settings EXCEPT !.flush = on]
  /\ IF on THEN UNCHANGED <<flush, driving>> ELSE CancelFlush
  /\ UNCHANGED <<paddle, shot, clean, detector>>

DismissReview ==
  /\ Changes("review")
  /\ shot.phase = "Review"
  /\ shot' = [shot EXCEPT !.phase = "Idle"]
  /\ UNCHANGED <<settings, paddle, driving, flush, clean, detector>>

ResetPaddleBreaker ==
  /\ Changes("breaker")
  /\ paddle.tripped
  /\ paddle' = [paddle EXCEPT !.tripped = FALSE, !.rejects = 0, !.shorts = 0,
                              !.edged = FALSE, !.owned = HasCtrl(settings.wiring)]
  /\ UNCHANGED <<settings, driving, shot, flush, clean, detector>>

(* Paddle::set_wiring ends in begin(), which raises CTRL.                  *)
SetPaddleWiring(wiring) ==
  /\ Changes("wiring")
  /\ wiring # settings.wiring
  /\ CancelShot
  /\ settings' = [settings EXCEPT !.wiring = wiring]
  /\ paddle' = [paddle EXCEPT !.owned = HasCtrl(wiring)]

(* scale_known(): a scale is paired, or the paired one is forgotten.       *)
ScaleKnown(known) ==
  /\ Changes("known")
  /\ known # settings.known
  /\ settings' = [settings EXCEPT !.known = known]
  /\ UNCHANGED <<paddle, driving, shot, flush, clean, detector>>

-----------------------------------------------------------------------------
PollClean ==
  \/ CleanLosesRelay \/ CleanTrips \/ CleanWaits
  \/ \E edge \in {"on", "off"} : CleanTakeover(edge)
  \/ ManualFlushEnds \/ PulseEnds \/ PulseBegins

PollPaddle ==
  \/ PaddleQuiet \/ PaddleTrips
  \/ OnRefused \/ OnWakes \/ OnRuns \/ OnBrews \/ OffCuts
  \/ PassRefused \/ PassOn \/ PassOff

PollShot ==
  \/ NothingBrews \/ FliesBlind \/ BlindTooLong \/ Pours \/ TargetReached
  \/ DetectorParked \/ DetectorWatches \/ Detected
  \/ DetectedPours \/ DetectedEnds \/ DetectedAborts

PollSettle == SettleWaits \/ SettleGoesDark \/ Settles \/ ReviewTimesOut

PollFlush ==
  \/ FlushWaits \/ FlushGivesWay \/ FlushDeclined \/ FlushExpires \/ CupOff \/ FlushSkipped
  \/ FlushRuns \/ FlushEnds

Poll == PollClean \/ PollPaddle \/ PollShot \/ PollSettle \/ PollFlush

UserCalls ==
  \/ ToggleManualFlush \/ StartBackflush \/ CancelBackflush \/ DismissReview
  \/ ResetPaddleBreaker
  \/ \E mode \in Modes : SetShotMode(mode)
  \/ \E on \in BOOLEAN : SetWiredPaddle(on) \/ SetFlushSeconds(on) \/ ScaleKnown(on)
  \/ \E wiring \in Wirings : SetPaddleWiring(wiring)

Next == Poll \/ UserCalls

Spec == Init /\ [][Next]_vars

(* The device loop polls for ever, and the clock runs: a poll that finds   *)
(* its deadline reached comes again and again until one acts on it.        *)
Deadline ==
  ManualFlushEnds \/ PulseEnds \/ PulseBegins \/ Settles \/ ReviewTimesOut \/ FlushEnds

FairSpec == Spec /\ WF_vars(Poll) /\ SF_vars(Deadline)
-----------------------------------------------------------------------------
(* What a poll and the calls between two polls may never leave behind.     *)

(* The breaker holds the line open: from the poll that trips it until the  *)
(* user's reset nothing closes it, whoever asks (set_drive, trip_breaker). *)
LineOpenWhenTripped == paddle.tripped => ~driving

(* No orphan: a closed line is the user's paddle, the flush or a cleaning  *)
(* pulse.  Every way out of each of these opens the line again.            *)
LineHasOwner ==
  driving => paddle.on \/ flush.state = "Running" \/ clean.mode = "Manual" \/ clean.on

(* While a cleaning cycle runs nobody else does: no shot, no flush, and    *)
(* the line is closed exactly in the cycle's pulses.                       *)
CleaningOwnsLine ==
  clean.mode # "Off" => /\ shot.phase = "Idle" /\ flush.state = "Off"
                        /\ driving <=> (clean.mode = "Manual" \/ clean.on)

(* No surprise start: water runs only at a fresh flip of a paddle whose    *)
(* level was known (never at boot), at the flush's own start, or in a      *)
(* cleaning cycle the user asked for.                                      *)
NoSurpriseClose ==
  [][~driving /\ driving' =>
       \/ paddle.seen /\ ~paddle.on /\ paddle'.on
       \/ flush.state = "Delay" /\ flush'.state = "Running"
       \/ clean'.mode # "Off"]_vars

(* Stopping is never blocked: in every mode and phase the poll that        *)
(* accepts the paddle's OFF leaves the line open; only a running flush     *)
(* keeps its line (poll_unwired's comment and sense_paddle_edge).          *)
StoppingIsNeverBlocked ==
  [][paddle.on /\ ~paddle'.on /\ flush.state # "Running" => ~driving']_vars

(* A backflush says "complete" only after the full count of pulses.        *)
DoneMeansComplete == clean.done => clean.cycle = Cycles

(* The "flip the paddle" signal never outlives its shot (end_shot), as     *)
(* long as no scale is paired or forgotten under way: BlindTooLong on the  *)
(* wired side does not look at a hint that the detector's side has raised. *)
HintDiesWithShot == shot.stop_hint => shot.phase = "Brewing"

(* What an overshoot estimate learns from is this shot's: a shot in the    *)
(* making carries no auto-stop, and a fired hint is its own.               *)
LessonIsThisShots ==
  shot.phase = "Brewing" => ~shot.auto_stopped /\ (shot.hint_fired <=> shot.stop_hint)

(* A line closed on nobody's paddle opens again: the deadlines of the      *)
(* flush and of the cleaning cycles are never lost.                        *)
LineOpensAgain == (driving /\ ~paddle.on) ~> (~driving \/ paddle.on)

(* A running flush ends, whatever the paddle does meanwhile.               *)
FlushRunEnds == flush.state = "Running" ~> flush.state # "Running"

(* A cleaning cycle ends and hands poll() back to the shots.               *)
CleaningEnds == clean.mode # "Off" ~> clean.mode = "Off"

(* The drip tail ends: automation that needs kIdle is armed again.         *)
SettlingEnds == shot.phase = "Settling" ~> shot.phase # "Settling"

-----------------------------------------------------------------------------
(* What the comments say and the code does not do.                         *)

(* poll_flush: "the flush only runs into a quiet, cup-less drip tray".     *)
FlushIntoQuietTray ==
  [][flush.state = "Delay" /\ flush'.state = "Running" => ~driving]_vars

(* paddle_tripped: "on an Apollo Link the paddle has been handed back to   *)
(* the machine".                                                           *)
TrippedHandsBack == paddle.tripped => ~paddle.owned
=============================================================================
