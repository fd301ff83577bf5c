--------------------------- MODULE ScheduleEngine ---------------------------
(***************************************************************************)
(* core::ScheduleEngine: weekly ON and OFF times, a standby held back by a *)
(* shot, and the auto-standby that counts from the end of the last shot.   *)
(* The caller ticks it with what it reads and carries out what it returns. *)
(***************************************************************************)
EXTENDS WeekClock

CONSTANTS
  Plans,  \* bound: the plans a day may have, as sanitize_day leaves them
  Leads,  \* bound: the warm-up leads
  Grace,  \* kStandbyGraceMs, in minutes
  Wait    \* auto_standby_min

ASSUME PlansAssumption ==
  /\ Plans \subseteq [takesPart : BOOLEAN, on : 0..MaxMin, off : 0..MaxMin]
  /\ \A d \in Plans : Sanitized(d.on, d.off) = [on |-> d.on, off |-> d.off]
ASSUME LeadsAssumption == Leads \subseteq 0..MaxLead
ASSUME WaitsAssumption == Grace \in Nat \ {0} /\ Wait \in Nat \ {0}

VARIABLES
  cfg,     \* cfg_
  engine,  \* latches, deferral and counts
  clock,   \* the minute of the week, whether it is trusted
  history  \* no part of the code: slots acted on, minutes of rest

engineVars == <<cfg, engine, clock, history>>

None == -1

Configs == [enabled : BOOLEAN, lead : Leads, auto : BOOLEAN, day : [Days -> Plans]]

(* `on`, `off`: the slots consumed in their window; `defer`, `idle`: a     *)
(* standby held back and the minutes of its grace; `asb`: the minutes of   *)
(* the auto-standby count; `seen`: asb_shot_seen_.                         *)
Engine == [on : {None} \cup 0..Week - 1, off : {None} \cup 0..Week - 1,
           defer : BOOLEAN, idle : {None} \cup 0..Grace,
           asb : {None} \cup 0..Wait, seen : BOOLEAN]

(* `fired`: the slots of open windows that a tick has consumed, or an edit *)
(* has moved onto the current minute; `unused`, `still`: the minutes since *)
(* the last use, and since the last use or review.                         *)
Slots   == {"on", "off"} \X (0..Week - 1)
History == [fired : SUBSET Slots, unused : 0..Wait, still : 0..Grace]

EngineTypeOK ==
  /\ cfg \in Configs
  /\ engine \in Engine
  /\ clock \in [now : 0..Week - 1, trusted : BOOLEAN]
  /\ history \in History

Fresh == [on |-> None, off |-> None, defer |-> FALSE, idle |-> None, asb |-> None,
          seen |-> FALSE]

(* The machine was last used before the boot.                              *)
EngineInit ==
  /\ cfg \in Configs /\ cfg.enabled
  /\ engine = Fresh
  /\ clock \in [now : 0..Week - 1, trusted : {TRUE}]
  /\ history = [fired |-> {}, unused |-> Wait, still |-> Grace]

OnOf(c, day)  == OnTrigger(day, c.day[day].on, c.lead)
OffOf(c, day) == OffTrigger(day, c.day[day].off)
On(day)  == OnOf(cfg, day)
Off(day) == OffOf(cfg, day)
Open(trigger) == InWindow(clock.now, trigger)

-----------------------------------------------------------------------------
(* One tick.  `in` is what the caller read: the link, the power, and `act` *)
(* (a shot, a cleaning or the line held; a review; or nothing).            *)

InUse(in)     == in.act = "use"
Connected(in) == in.link = "Connected"
IsOn(in)      == in.power = "on"
IsIdle(in)    == in.act = "none"

(* tick_auto_standby: the end of use starts the count, standby by any hand *)
(* ends it.                                                                *)
CountNow(in) == IF engine.seen /\ ~InUse(in) THEN 0 ELSE engine.asb
Counting(in) == cfg.auto /\ CountNow(in) # None /\ IsOn(in)
CountEnds(in) == Counting(in) /\ CountNow(in) >= Wait /\ IsIdle(in) /\ Connected(in)

Counted(in) ==
  [engine EXCEPT !.seen = InUse(in),
                 !.asb = IF Counting(in) /\ ~CountEnds(in) THEN CountNow(in) ELSE None]
AutoResult(in) == IF CountEnds(in) THEN "AutoStandby" ELSE "None"

(* Without the master switch or a trusted clock only that remains; the     *)
(* consumed slots stay consumed.                                           *)
Blind == ~cfg.enabled \/ ~clock.trusted
TickedBlindForgets(in) ==   \* mutant: a blip of the clock's trust clears the latches
  [Counted(in) EXCEPT !.defer = FALSE, !.idle = None, !.on = None, !.off = None]
TickedBlind(in) == [Counted(in) EXCEPT !.defer = FALSE, !.idle = None]

(* A slot is forgotten once its window has passed.                         *)
StillOpen(slot) == IF slot # None /\ Open(slot) THEN slot ELSE None
Remembered(in) == [Counted(in) EXCEPT !.on = StillOpen(@), !.off = StillOpen(@)]

(* The deferred standby: dropped when the link or the power went, its      *)
(* grace restarted by use or a review.                                     *)
GraceEnds(in) == engine.defer /\ Connected(in) /\ IsOn(in) /\ IsIdle(in)
                 /\ engine.idle # None /\ engine.idle >= Grace
DeferredUnmoved(in) ==   \* mutant: a new shot does not restart the grace
  IF ~engine.defer THEN Remembered(in)
  ELSE IF ~Connected(in) \/ ~IsOn(in)
    THEN [Remembered(in) EXCEPT !.defer = FALSE, !.idle = None]
  ELSE [Remembered(in) EXCEPT !.idle = IF @ = None /\ IsIdle(in) THEN 0 ELSE @]
Deferred(in) ==
  IF ~engine.defer THEN Remembered(in)
  ELSE IF ~Connected(in) \/ ~IsOn(in)
    THEN [Remembered(in) EXCEPT !.defer = FALSE, !.idle = None]
  ELSE IF ~IsIdle(in) THEN [Remembered(in) EXCEPT !.idle = None]
  ELSE [Remembered(in) EXCEPT !.idle = IF @ = None THEN 0 ELSE @]
TickedGrace(in) == [Remembered(in) EXCEPT !.defer = FALSE, !.idle = None]

(* The slots: both lists have at most one member (lemmas OneOnSlot and     *)
(* OneOffSlot of WeekClockProof).  A slot whose action is returned ends    *)
(* the loop over the weekdays, ON before OFF within a day; an open slot    *)
(* the loop has not reached stays open, as all do without a link.          *)
TakesPart == {d \in Days : cfg.day[d].takesPart}
OnDue(in)  == {d \in TakesPart :
                 Connected(in) /\ Open(On(d)) /\ Remembered(in).on # On(d)}
OffDue(in) == {d \in TakesPart :
                 Connected(in) /\ Open(Off(d)) /\ Remembered(in).off # Off(d)}
OnFirst(in) == \A d \in OnDue(in), e \in OffDue(in) : d <= e

TurnsOn(in)   == OnDue(in) # {} /\ ~IsOn(in)
StandsBy(in)  == OffDue(in) # {} /\ IsOn(in) /\ IsIdle(in)
TakesOn(in)   == OnDue(in) # {} /\ (StandsBy(in) => OnFirst(in))
TakesOff(in)  == OffDue(in) # {} /\ ~(TurnsOn(in) /\ OnFirst(in))
HoldsBack(in) == TakesOff(in) /\ IsOn(in) /\ ~IsIdle(in)

TickedSlots(in) ==
  LET e == Deferred(in) IN
  [e EXCEPT !.on    = IF TakesOn(in) THEN On(CHOOSE d \in OnDue(in) : TRUE) ELSE @,
            !.off   = IF TakesOff(in) THEN Off(CHOOSE d \in OffDue(in) : TRUE) ELSE @,
            !.defer = IF TakesOn(in) /\ HoldsBack(in) THEN OnFirst(in)
                      ELSE HoldsBack(in) \/ (@ /\ ~TakesOn(in)),
            !.idle  = IF TakesOn(in) \/ HoldsBack(in) THEN None ELSE @,
            !.asb   = IF TakesOn(in) THEN None ELSE @]

SlotResult(in) == IF TurnsOn(in) THEN "TurnOn"
                  ELSE IF StandsBy(in) THEN "Standby" ELSE AutoResult(in)

Ticked(in) == IF Blind THEN TickedBlind(in)
              ELSE IF GraceEnds(in) THEN TickedGrace(in) ELSE TickedSlots(in)
Result(in) == IF Blind THEN AutoResult(in)
              ELSE IF GraceEnds(in) THEN "Standby" ELSE SlotResult(in)

Consumed(in) ==
  IF Blind \/ GraceEnds(in) THEN {}
  ELSE {<<"on", On(d)>> : d \in {e \in OnDue(in) : TakesOn(in)}}
       \cup {<<"off", Off(d)>> : d \in {e \in OffDue(in) : TakesOff(in)}}

Tick(in) ==
  /\ engine' = Ticked(in)
  /\ history' = [history EXCEPT !.fired = @ \cup Consumed(in)]
  /\ UNCHANGED <<cfg, clock>>

-----------------------------------------------------------------------------
(* set_config: a rebuild of the UI brings the same configuration again and *)
(* changes nothing; an edit starts over, and marks every slot whose window *)
(* is open as consumed.  The date is taken to be valid.                    *)

OpenOn(c)  == {OnOf(c, d) : d \in {e \in Days : c.day[e].takesPart /\ Open(OnOf(c, e))}}
OpenOff(c) == {OffOf(c, d) : d \in {e \in Days : c.day[e].takesPart /\ Open(OffOf(c, e))}}
AnyOf(slots) == IF slots = {} THEN None ELSE CHOOSE s \in slots : TRUE

Edited(c) ==
  [engine EXCEPT !.on  = IF c.enabled THEN AnyOf(OpenOn(c)) ELSE None,
                 !.off = IF c.enabled THEN AnyOf(OpenOff(c)) ELSE None,
                 !.defer = FALSE, !.idle = None,
                 !.asb = IF c.auto THEN @ ELSE None]

SetConfig(c) ==
  /\ cfg' = c
  /\ engine' = IF c = cfg THEN engine ELSE Edited(c)
  /\ history' = IF c = cfg THEN history
                ELSE [history EXCEPT !.fired = ({"on"} \X OpenOn(c))
                                               \cup ({"off"} \X OpenOff(c))]
  /\ UNCHANGED clock

-----------------------------------------------------------------------------
(* Time: the differences to the 32-bit tick grow by a minute, and the wall *)
(* clock moves on.                                                         *)

More(n, most) == IF n = None THEN None ELSE IF n < most THEN n + 1 ELSE most
StillFired(now) == {s \in history.fired : InWindow(now, s[2])}

Minute(act) ==
  /\ clock' = [clock EXCEPT !.now = (@ + 1) % Week]
  /\ engine' = [engine EXCEPT !.idle = More(@, Grace), !.asb = More(@, Wait)]
  /\ history' = [fired  |-> StillFired((clock.now + 1) % Week),
                 unused |-> IF act = "use" THEN 0 ELSE More(history.unused, Wait),
                 still  |-> IF act = "none" THEN More(history.still, Grace) ELSE 0]
  /\ UNCHANGED cfg

(* The network goes, or comes back with an NTP answer that may set the     *)
(* clock anywhere.                                                         *)
TrustChanges ==
  /\ \E now \in 0..Week - 1 :
       /\ clock.trusted => now = clock.now
       /\ clock' = [now |-> now, trusted |-> ~clock.trusted]
       /\ history' = [history EXCEPT !.fired = StillFired(now)]
  /\ UNCHANGED <<cfg, engine>>

(* What the machine is used for begins.                                    *)
NoteUse(act) ==
  history' = [history EXCEPT !.unused = IF act = "use" THEN 0 ELSE @,
                             !.still = IF act = "none" THEN @ ELSE 0]
=============================================================================
