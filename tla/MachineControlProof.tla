------------------------ MODULE MachineControlProof ------------------------
(***************************************************************************)
(* Who switches the machine, for every week, plan, wait and set of tokens. *)
(* IInv has two halves that share no variable: EngineInv of the schedule   *)
(* engine, LinkInv of the Micra link; a step of the one leaves the other   *)
(* alone.                                                                  *)
(***************************************************************************)
EXTENDS MachineControl, WeekClockProof

-----------------------------------------------------------------------------
(* The configuration and its triggers.                                     *)

LEMMA Constants ==
  /\ Week \in Nat \ {0} /\ Days \subseteq Nat
  /\ Grace \in Nat \ {0} /\ Wait \in Nat \ {0} /\ None = -1
  /\ MaxOps \in Nat /\ Nothing \notin Powers
BY WeekPositive, WaitsAssumption, MaxOpsAssumption, TokensAssumption DEF None, Powers

LEMMA PlanIsLegal ==
  ASSUME NEW p \in Plans
  PROVE  /\ p.on \in Multiples \cap 0..MaxMin
         /\ p.off \in Multiples \cap 0..MaxMin
         /\ p.takesPart \in BOOLEAN
<1>1. /\ p.takesPart \in BOOLEAN /\ p.on \in 0..MaxMin /\ p.off \in 0..MaxMin
      /\ Sanitized(p.on, p.off) = [on |-> p.on, off |-> p.off]
  BY PlansAssumption
<1>2. p.on \in Int /\ p.off \in Int
  BY <1>1, GridTimes, SMT
<1> DEFINE d == Sanitized(p.on, p.off)
<1>3. d.on \in Multiples /\ d.off \in Multiples
  BY <1>2, SanitizedIsLegal
<1>4. d.on = p.on /\ d.off = p.off
  BY <1>1
<1> QED BY <1>1, <1>3, <1>4

LEMMA SlotsTyped ==
  ASSUME NEW c \in Configs, NEW day \in Days
  PROVE  /\ OnOf(c, day) \in 0..Week - 1 /\ OnOf(c, day) # None
         /\ OffOf(c, day) \in 0..Week - 1 /\ OffOf(c, day) # None
<1>1. c.day[day] \in Plans /\ c.lead \in 0..MaxLead
  BY LeadsAssumption DEF Configs
<1>2. c.day[day].on \in 0..MaxMin /\ c.day[day].off \in 0..MaxMin
  BY <1>1, PlanIsLegal
<1>3. OnOf(c, day) \in 0..Week - 1 /\ OffOf(c, day) \in 0..Week - 1
  BY <1>1, <1>2, TriggersTyped DEF OnOf, OffOf
<1> QED BY <1>3, Constants, SMT

LEMMA OneOpenOn ==
  ASSUME NEW c \in Configs, NEW d \in Days, NEW e \in Days, NEW now \in Int,
         InWindow(now, OnOf(c, d)), InWindow(now, OnOf(c, e))
  PROVE  OnOf(c, d) = OnOf(c, e)
<1>1. c.day[d] \in Plans /\ c.day[e] \in Plans /\ c.lead \in 0..MaxLead
  BY LeadsAssumption DEF Configs
<1>2. c.day[d].on \in Multiples \cap 0..MaxMin /\ c.day[e].on \in Multiples \cap 0..MaxMin
  BY <1>1, PlanIsLegal
<1> QED BY <1>1, <1>2, OneOnSlot DEF OnOf

LEMMA OneOpenOff ==
  ASSUME NEW c \in Configs, NEW d \in Days, NEW e \in Days, NEW now \in Int,
         InWindow(now, OffOf(c, d)), InWindow(now, OffOf(c, e))
  PROVE  OffOf(c, d) = OffOf(c, e)
<1>1. c.day[d] \in Plans /\ c.day[e] \in Plans
  BY DEF Configs
<1>2. c.day[d].off \in Multiples \cap 0..MaxMin /\ c.day[e].off \in Multiples \cap 0..MaxMin
  BY <1>1, PlanIsLegal
<1> QED BY <1>2, OneOffSlot DEF OffOf

-----------------------------------------------------------------------------
(* Types of the engine.                                                    *)

LatchType == {None} \cup 0..Week - 1
IdleType == {None} \cup 0..Grace
AsbType == {None} \cup 0..Wait

LEMMA EngineFields ==
  ASSUME NEW e \in Engine
  PROVE  /\ e.on \in LatchType /\ e.off \in LatchType /\ e.defer \in BOOLEAN
         /\ e.idle \in IdleType /\ e.asb \in AsbType /\ e.seen \in BOOLEAN
BY Zenon DEF Engine, LatchType, IdleType, AsbType

LEMMA EngineMade ==
  ASSUME NEW e \in Engine, NEW on \in LatchType, NEW off \in LatchType, NEW defer \in BOOLEAN,
         NEW idle \in IdleType, NEW asb \in AsbType, NEW seen \in BOOLEAN
  PROVE  [e EXCEPT !.on = on, !.off = off, !.defer = defer, !.idle = idle, !.asb = asb,
                   !.seen = seen] \in Engine
BY Zenon DEF Engine, LatchType, IdleType, AsbType

LEMMA CountedTyped ==
  ASSUME NEW in, engine \in Engine
  PROVE  /\ Counted(in) \in Engine
         /\ Counted(in).on = engine.on /\ Counted(in).off = engine.off
         /\ Counted(in).defer = engine.defer /\ Counted(in).idle = engine.idle
         /\ Counted(in).seen = InUse(in)
         /\ Counted(in).asb = IF Counting(in) /\ ~CountEnds(in) THEN CountNow(in) ELSE None
<1> DEFINE a == IF Counting(in) /\ ~CountEnds(in) THEN CountNow(in) ELSE None
           s == InUse(in)
<1>1. s \in BOOLEAN BY DEF InUse
<1>2. a \in AsbType
  <2>1. 0 \in AsbType /\ None \in AsbType
    BY Constants, SMT DEF AsbType
  <2>2. CountNow(in) \in AsbType
    BY <2>1, EngineFields DEF CountNow
  <2> QED BY <2>1, <2>2
<1>3. Counted(in) = [engine EXCEPT !.seen = s, !.asb = a]
  BY DEF Counted
<1> HIDE DEF a, s
<1>4. [engine EXCEPT !.seen = s, !.asb = a] \in Engine
  BY <1>1, <1>2, Zenon DEF Engine, AsbType
<1>5. /\ Counted(in).on = engine.on /\ Counted(in).off = engine.off
      /\ Counted(in).defer = engine.defer /\ Counted(in).idle = engine.idle
      /\ Counted(in).seen = s /\ Counted(in).asb = a
  BY <1>3, Zenon DEF Engine
<1> QED BY <1>3, <1>4, <1>5 DEF a, s

LEMMA RememberedTyped ==
  ASSUME NEW in, engine \in Engine
  PROVE  /\ Remembered(in) \in Engine
         /\ Remembered(in).on = StillOpen(engine.on) /\ Remembered(in).off = StillOpen(engine.off)
         /\ Remembered(in).defer = engine.defer /\ Remembered(in).idle = engine.idle
         /\ Remembered(in).seen = InUse(in)
         /\ Remembered(in).asb = Counted(in).asb
<1> DEFINE n == StillOpen(engine.on)
           f == StillOpen(engine.off)
           e == Counted(in)
<1>1. n \in LatchType /\ f \in LatchType
  BY EngineFields DEF StillOpen, LatchType
<1>2. /\ e \in Engine /\ e.on = engine.on /\ e.off = engine.off
      /\ e.defer = engine.defer /\ e.idle = engine.idle /\ e.seen = InUse(in)
  BY CountedTyped
<1>3. Remembered(in) = [e EXCEPT !.on = StillOpen(e.on), !.off = StillOpen(e.off)]
  BY DEF Remembered
<1>4. Remembered(in) = [e EXCEPT !.on = n, !.off = f]
  BY <1>2, <1>3
<1> HIDE DEF n, f, e
<1>5. [e EXCEPT !.on = n, !.off = f] \in Engine
  BY <1>1, <1>2, Zenon DEF Engine, LatchType
<1>6. /\ Remembered(in).on = n /\ Remembered(in).off = f
      /\ Remembered(in).defer = e.defer /\ Remembered(in).idle = e.idle
      /\ Remembered(in).seen = e.seen /\ Remembered(in).asb = e.asb
  BY <1>2, <1>4, Zenon DEF Engine
<1> QED BY <1>2, <1>4, <1>5, <1>6 DEF n, f, e

Graced(in) == IF ~engine.defer THEN engine.idle
              ELSE IF ~Connected(in) \/ ~IsOn(in) \/ ~IsIdle(in) THEN None
              ELSE IF engine.idle = None THEN 0 ELSE engine.idle

LEMMA DeferredTyped ==
  ASSUME NEW in, engine \in Engine
  PROVE  /\ Deferred(in) \in Engine
         /\ Deferred(in).on = StillOpen(engine.on) /\ Deferred(in).off = StillOpen(engine.off)
         /\ Deferred(in).defer = (engine.defer /\ Connected(in) /\ IsOn(in))
         /\ Deferred(in).idle = Graced(in)
         /\ Deferred(in).seen = InUse(in)
         /\ Deferred(in).asb = Counted(in).asb
<1> DEFINE e == Remembered(in)
           z == IF e.idle = None THEN 0 ELSE e.idle
<1>1. /\ e \in Engine
      /\ e.on = StillOpen(engine.on) /\ e.off = StillOpen(engine.off)
      /\ e.defer = engine.defer /\ e.idle = engine.idle
      /\ e.seen = InUse(in) /\ e.asb = Counted(in).asb
  BY RememberedTyped
<1>2. /\ engine.defer \in BOOLEAN /\ Connected(in) \in BOOLEAN /\ IsOn(in) \in BOOLEAN
      /\ IsIdle(in) \in BOOLEAN
  BY EngineFields DEF Connected, IsOn, IsIdle
<1>3. z \in IdleType /\ None \in IdleType
  BY <1>1, EngineFields, Constants, SMT DEF IdleType
<1>4. CASE ~engine.defer
  <2>1. Deferred(in) = e BY <1>4 DEF Deferred
  <2> QED BY <1>1, <1>2, <1>4, <2>1, Zenon DEF Graced
<1>5. CASE engine.defer /\ (~Connected(in) \/ ~IsOn(in))
  <2>1. Deferred(in) = [e EXCEPT !.defer = FALSE, !.idle = None] BY <1>5 DEF Deferred
  <2> HIDE DEF e
  <2>2. [e EXCEPT !.defer = FALSE, !.idle = None] \in Engine
    BY <1>1, <1>3, Zenon DEF Engine, IdleType
  <2>3. /\ Deferred(in).on = e.on /\ Deferred(in).off = e.off
        /\ Deferred(in).defer = FALSE /\ Deferred(in).idle = None
        /\ Deferred(in).seen = e.seen /\ Deferred(in).asb = e.asb
    BY <1>1, <2>1, Zenon DEF Engine
  <2>4. Graced(in) = None BY <1>5 DEF Graced
  <2>5. (engine.defer /\ Connected(in) /\ IsOn(in)) = FALSE BY <1>2, <1>5
  <2> QED BY <1>1, <2>1, <2>2, <2>3, <2>4, <2>5
<1>6. CASE engine.defer /\ Connected(in) /\ IsOn(in)
  <2> DEFINE i == IF ~IsIdle(in) THEN None ELSE z
  <2>1. Deferred(in) = [e EXCEPT !.idle = i]
    BY <1>6 DEF Deferred
  <2>2. i \in IdleType BY <1>3
  <2>3. i = Graced(in)
    BY <1>1, <1>6 DEF Graced
  <2> HIDE DEF e, i
  <2>4. [e EXCEPT !.idle = i] \in Engine
    BY <1>1, <2>2, Zenon DEF Engine, IdleType
  <2>5. /\ Deferred(in).on = e.on /\ Deferred(in).off = e.off
        /\ Deferred(in).defer = e.defer /\ Deferred(in).idle = i
        /\ Deferred(in).seen = e.seen /\ Deferred(in).asb = e.asb
    BY <1>1, <2>1, Zenon DEF Engine
  <2>6. (engine.defer /\ Connected(in) /\ IsOn(in)) = engine.defer BY <1>2, <1>6
  <2> QED BY <1>1, <2>1, <2>3, <2>4, <2>5, <2>6
<1> QED BY <1>2, <1>4, <1>5, <1>6

(* A tick that looks at no slot.                                           *)
LEMMA QuietTyped ==
  ASSUME NEW in, engine \in Engine
  PROVE  /\ TickedBlind(in) \in Engine /\ TickedGrace(in) \in Engine
         /\ TickedBlind(in).on = engine.on /\ TickedBlind(in).off = engine.off
         /\ TickedGrace(in).on = StillOpen(engine.on)
         /\ TickedGrace(in).off = StillOpen(engine.off)
         /\ TickedBlind(in).idle = None /\ TickedGrace(in).idle = None
         /\ TickedBlind(in).defer = FALSE /\ TickedGrace(in).defer = FALSE
         /\ TickedBlind(in).seen = InUse(in) /\ TickedGrace(in).seen = InUse(in)
         /\ TickedBlind(in).asb = Counted(in).asb /\ TickedGrace(in).asb = Counted(in).asb
<1> DEFINE b == Counted(in)
           e == Remembered(in)
<1>1. /\ e \in Engine
      /\ e.on = StillOpen(engine.on) /\ e.off = StillOpen(engine.off)
      /\ e.seen = InUse(in) /\ e.asb = Counted(in).asb
  BY RememberedTyped
<1>2. /\ b \in Engine /\ b.on = engine.on /\ b.off = engine.off
      /\ b.seen = InUse(in) /\ b.asb = Counted(in).asb
  BY CountedTyped
<1>3. TickedBlind(in) = [b EXCEPT !.defer = FALSE, !.idle = None]
  BY DEF TickedBlind
<1>4. TickedGrace(in) = [e EXCEPT !.defer = FALSE, !.idle = None]
  BY DEF TickedGrace
<1>5. None \in IdleType BY DEF IdleType
<1> HIDE DEF b, e
<1>6. TickedBlind(in) \in Engine /\ TickedGrace(in) \in Engine
  BY <1>1, <1>2, <1>3, <1>4, <1>5, Zenon DEF Engine, IdleType
<1>7. /\ TickedBlind(in).on = b.on /\ TickedBlind(in).off = b.off
      /\ TickedBlind(in).defer = FALSE /\ TickedBlind(in).idle = None
      /\ TickedBlind(in).seen = b.seen /\ TickedBlind(in).asb = b.asb
  BY <1>2, <1>3, Zenon DEF Engine
<1>8. /\ TickedGrace(in).on = e.on /\ TickedGrace(in).off = e.off
      /\ TickedGrace(in).defer = FALSE /\ TickedGrace(in).idle = None
      /\ TickedGrace(in).seen = e.seen /\ TickedGrace(in).asb = e.asb
  BY <1>1, <1>4, Zenon DEF Engine
<1> QED BY <1>1, <1>2, <1>6, <1>7, <1>8

NextOn(in)  == On(CHOOSE d \in OnDue(in) : TRUE)
NextOff(in) == Off(CHOOSE d \in OffDue(in) : TRUE)

LEMMA DueTyped ==
  ASSUME NEW in, cfg \in Configs
  PROVE  /\ OnDue(in) \subseteq Days /\ OffDue(in) \subseteq Days
         /\ TakesOn(in) => NextOn(in) \in 0..Week - 1
                           /\ \E d \in OnDue(in) : NextOn(in) = On(d)
         /\ TakesOff(in) => NextOff(in) \in 0..Week - 1
                            /\ \E d \in OffDue(in) : NextOff(in) = Off(d)
<1>1. OnDue(in) \subseteq Days /\ OffDue(in) \subseteq Days
  BY DEF OnDue, OffDue, TakesPart
<1>2. ASSUME TakesOn(in)
      PROVE NextOn(in) \in 0..Week - 1 /\ \E d \in OnDue(in) : NextOn(in) = On(d)
  <2>1. OnDue(in) # {} BY <1>2 DEF TakesOn
  <2>2. (CHOOSE d \in OnDue(in) : TRUE) \in OnDue(in) BY <2>1
  <2> QED BY <1>1, <2>2, SlotsTyped DEF NextOn, On
<1>3. ASSUME TakesOff(in)
      PROVE NextOff(in) \in 0..Week - 1 /\ \E d \in OffDue(in) : NextOff(in) = Off(d)
  <2>1. OffDue(in) # {} BY <1>3 DEF TakesOff
  <2>2. (CHOOSE d \in OffDue(in) : TRUE) \in OffDue(in) BY <2>1
  <2> QED BY <1>1, <2>2, SlotsTyped DEF NextOff, Off
<1> QED BY <1>1, <1>2, <1>3

LEMMA SlotsTickTyped ==
  ASSUME NEW in, engine \in Engine, cfg \in Configs
  PROVE  /\ TickedSlots(in) \in Engine
         /\ TickedSlots(in).on = IF TakesOn(in) THEN NextOn(in) ELSE StillOpen(engine.on)
         /\ TickedSlots(in).off = IF TakesOff(in) THEN NextOff(in) ELSE StillOpen(engine.off)
         /\ TickedSlots(in).idle = IF TakesOn(in) \/ HoldsBack(in) THEN None ELSE Graced(in)
         /\ TickedSlots(in).defer =
              IF TakesOn(in) /\ HoldsBack(in) THEN OnFirst(in)
              ELSE HoldsBack(in)
                   \/ (engine.defer /\ Connected(in) /\ IsOn(in) /\ ~TakesOn(in))
         /\ TickedSlots(in).seen = InUse(in)
         /\ TickedSlots(in).asb = IF TakesOn(in) THEN None ELSE Counted(in).asb
<1> DEFINE e == Deferred(in)
           n == IF TakesOn(in) THEN NextOn(in) ELSE e.on
           f == IF TakesOff(in) THEN NextOff(in) ELSE e.off
           d == IF TakesOn(in) /\ HoldsBack(in) THEN OnFirst(in)
                ELSE HoldsBack(in) \/ (e.defer /\ ~TakesOn(in))
           i == IF TakesOn(in) \/ HoldsBack(in) THEN None ELSE e.idle
           a == IF TakesOn(in) THEN None ELSE e.asb
<1>1. /\ e \in Engine
      /\ e.on = StillOpen(engine.on) /\ e.off = StillOpen(engine.off)
      /\ e.defer = (engine.defer /\ Connected(in) /\ IsOn(in)) /\ e.idle = Graced(in)
      /\ e.seen = InUse(in) /\ e.asb = Counted(in).asb
  BY DeferredTyped
<1>2. TickedSlots(in) = [e EXCEPT !.on = n, !.off = f, !.defer = d, !.idle = i, !.asb = a]
  BY DEF TickedSlots, NextOn, NextOff
<1>3. n \in LatchType /\ f \in LatchType
  BY <1>1, DueTyped, EngineFields DEF LatchType
<1>4. d \in BOOLEAN BY DEF OnFirst, HoldsBack
<1>5. i \in IdleType /\ a \in AsbType
  BY <1>1, EngineFields DEF IdleType, AsbType
<1>6. /\ n = IF TakesOn(in) THEN NextOn(in) ELSE StillOpen(engine.on)
      /\ f = IF TakesOff(in) THEN NextOff(in) ELSE StillOpen(engine.off)
      /\ i = IF TakesOn(in) \/ HoldsBack(in) THEN None ELSE Graced(in)
      /\ a = IF TakesOn(in) THEN None ELSE Counted(in).asb
  BY <1>1
<1>7. d = IF TakesOn(in) /\ HoldsBack(in) THEN OnFirst(in)
          ELSE HoldsBack(in)
               \/ (engine.defer /\ Connected(in) /\ IsOn(in) /\ ~TakesOn(in))
  BY <1>1
<1> HIDE DEF e, n, f, d, i, a
<1>8. TickedSlots(in) \in Engine
  BY <1>1, <1>2, <1>3, <1>4, <1>5, Zenon DEF Engine, LatchType, IdleType, AsbType
<1>9. /\ TickedSlots(in).on = n /\ TickedSlots(in).off = f
      /\ TickedSlots(in).defer = d /\ TickedSlots(in).idle = i
      /\ TickedSlots(in).seen = e.seen /\ TickedSlots(in).asb = a
  BY <1>1, <1>2, Zenon DEF Engine
<1> QED BY <1>1, <1>6, <1>7, <1>8, <1>9

-----------------------------------------------------------------------------
(* The invariant of the engine and what is known about use.                *)

FiredInv ==
  /\ \A s \in 0..Week - 1 : <<"on", s>> \in history.fired =>
       Open(s) /\ (\E d \in Days : s = On(d)) /\ (cfg.enabled => engine.on = s)
  /\ \A s \in 0..Week - 1 : <<"off", s>> \in history.fired =>
       Open(s) /\ (\E d \in Days : s = Off(d)) /\ (cfg.enabled => engine.off = s)

IdleInv == engine.idle # None =>
  /\ engine.defer /\ ~engine.seen /\ act # "review"
  /\ act = "none" => history.still >= engine.idle

CountInv ==
  engine.asb # None /\ ~engine.seen /\ act # "use" => history.unused >= engine.asb

EngineInv == EngineTypeOK /\ act \in Acts /\ FiredInv /\ IdleInv /\ CountInv

LEMMA EngineTypes ==
  ASSUME EngineTypeOK
  PROVE  /\ cfg \in Configs /\ engine \in Engine
         /\ clock.now \in 0..Week - 1 /\ clock.trusted \in BOOLEAN
         /\ history.fired \subseteq Slots /\ history.unused \in 0..Wait
         /\ history.still \in 0..Grace /\ history \in History
BY Zenon DEF EngineTypeOK, History

LEMMA TickTyped ==
  ASSUME NEW in, EngineTypeOK, Tick(in)
  PROVE  EngineTypeOK'
<1>1. /\ cfg \in Configs /\ engine \in Engine /\ history \in History
      /\ history.fired \subseteq Slots
  BY EngineTypes
<1>2. Ticked(in) \in Engine
  BY <1>1, QuietTyped, SlotsTickTyped DEF Ticked
<1>3. Consumed(in) \subseteq Slots
  BY <1>1, DueTyped, SlotsTyped DEF Consumed, Slots, On, Off
<1> DEFINE f == history.fired \cup Consumed(in)
<1>4. f \in SUBSET Slots BY <1>1, <1>3
<1>5. history' = [history EXCEPT !.fired = f] BY DEF Tick
<1> HIDE DEF f
<1>6. history' \in History BY <1>1, <1>4, <1>5, Zenon DEF History
<1> QED BY <1>2, <1>6 DEF Tick, EngineTypeOK

LEMMA TickHistory ==
  ASSUME NEW in, EngineTypeOK, Tick(in)
  PROVE  /\ history'.fired = history.fired \cup Consumed(in)
         /\ history'.unused = history.unused /\ history'.still = history.still
         /\ engine' = Ticked(in) /\ cfg' = cfg /\ clock' = clock
<1>1. history \in History BY EngineTypes
<1>2. history' = [history EXCEPT !.fired = history.fired \cup Consumed(in)] BY DEF Tick
<1>3. /\ history'.fired = history.fired \cup Consumed(in)
      /\ history'.unused = history.unused /\ history'.still = history.still
  BY <1>1, <1>2, Zenon DEF History
<1> QED BY <1>3 DEF Tick

(* A tick takes a slot only when no slot of that kind was taken before.    *)
LEMMA TakesFresh ==
  ASSUME NEW in, EngineTypeOK, FiredInv, ~Blind
  PROVE  /\ \A d \in OnDue(in), s \in 0..Week - 1 : <<"on", s>> \notin history.fired
         /\ \A d \in OffDue(in), s \in 0..Week - 1 : <<"off", s>> \notin history.fired
         /\ \A d, e \in OnDue(in) : On(d) = On(e)
         /\ \A d, e \in OffDue(in) : Off(d) = Off(e)
<1>1. cfg \in Configs /\ engine \in Engine /\ cfg.enabled /\ clock.now \in Int
  BY EngineTypes, Constants, SMT DEF Blind
<1>2. /\ Remembered(in).on = StillOpen(engine.on)
      /\ Remembered(in).off = StillOpen(engine.off)
  BY <1>1, RememberedTyped
<1>3. /\ \A d, e \in Days : Open(On(d)) /\ Open(On(e)) => On(d) = On(e)
      /\ \A d, e \in Days : Open(Off(d)) /\ Open(Off(e)) => Off(d) = Off(e)
  BY <1>1, OneOpenOn, OneOpenOff DEF Open, On, Off
<1>4. ASSUME NEW d \in OnDue(in), NEW s \in 0..Week - 1, <<"on", s>> \in history.fired
      PROVE FALSE
  <2>1. d \in Days /\ Open(On(d)) /\ Remembered(in).on # On(d)
    BY DEF OnDue, TakesPart
  <2>2. Open(s) /\ engine.on = s /\ \E e \in Days : s = On(e)
    BY <1>1, <1>4 DEF FiredInv
  <2>3. s = On(d) BY <1>3, <2>1, <2>2
  <2>4. s # None BY Constants, SMT
  <2>5. StillOpen(s) = s BY <2>2, <2>4 DEF StillOpen
  <2> QED BY <1>2, <2>1, <2>2, <2>3, <2>5
<1>5. ASSUME NEW d \in OffDue(in), NEW s \in 0..Week - 1, <<"off", s>> \in history.fired
      PROVE FALSE
  <2>1. d \in Days /\ Open(Off(d)) /\ Remembered(in).off # Off(d)
    BY DEF OffDue, TakesPart
  <2>2. Open(s) /\ engine.off = s /\ \E e \in Days : s = Off(e)
    BY <1>1, <1>5 DEF FiredInv
  <2>3. s = Off(d) BY <1>3, <2>1, <2>2
  <2>4. s # None BY Constants, SMT
  <2>5. StillOpen(s) = s BY <2>2, <2>4 DEF StillOpen
  <2> QED BY <1>2, <2>1, <2>2, <2>3, <2>5
<1>6. /\ \A d \in OnDue(in) : d \in Days /\ Open(On(d))
      /\ \A d \in OffDue(in) : d \in Days /\ Open(Off(d))
  BY DEF OnDue, OffDue, TakesPart
<1>7. /\ \A d, e \in OnDue(in) : On(d) = On(e)
      /\ \A d, e \in OffDue(in) : Off(d) = Off(e)
  BY <1>3, <1>6
<1> QED BY <1>4, <1>5, <1>7

LEMMA TickFired ==
  ASSUME NEW in, EngineTypeOK, FiredInv, Tick(in)
  PROVE  FiredInv'
<1>1. /\ cfg \in Configs /\ engine \in Engine
      /\ history'.fired = history.fired \cup Consumed(in)
      /\ engine' = Ticked(in) /\ cfg' = cfg /\ clock' = clock
  BY EngineTypes, TickHistory
<1>2. /\ \A s : Open(s)' = Open(s)
      /\ \A d : On(d)' = On(d) /\ Off(d)' = Off(d)
  BY <1>1 DEF Open, On, Off
<1>3. CASE Blind
  <2>1. Consumed(in) = {} BY <1>3 DEF Consumed
  <2>2. engine'.on = engine.on /\ engine'.off = engine.off
    BY <1>1, <1>3, QuietTyped DEF Ticked
  <2>3. history'.fired = history.fired BY <1>1, <2>1
  <2> QED BY <1>1, <1>2, <2>2, <2>3 DEF FiredInv
<1>4. ASSUME ~Blind, GraceEnds(in) PROVE FiredInv'
  <2>1. Consumed(in) = {} BY <1>4 DEF Consumed
  <2>2. engine'.on = StillOpen(engine.on) /\ engine'.off = StillOpen(engine.off)
    BY <1>1, <1>4, QuietTyped DEF Ticked
  <2>3. \A s \in 0..Week - 1 : Open(s) => StillOpen(s) = s
    BY Constants, SMT DEF StillOpen
  <2>4. history'.fired = history.fired BY <1>1, <2>1
  <2> QED BY <1>1, <1>2, <2>2, <2>3, <2>4 DEF FiredInv
<1>5. ASSUME ~Blind, ~GraceEnds(in) PROVE FiredInv'
  <2>1. /\ engine'.on = IF TakesOn(in) THEN NextOn(in) ELSE StillOpen(engine.on)
        /\ engine'.off = IF TakesOff(in) THEN NextOff(in) ELSE StillOpen(engine.off)
    BY <1>1, <1>5, SlotsTickTyped DEF Ticked
  <2>2. \A s \in 0..Week - 1 : Open(s) => StillOpen(s) = s
    BY Constants, SMT DEF StillOpen
  <2>3. /\ \A d \in OnDue(in), s \in 0..Week - 1 : <<"on", s>> \notin history.fired
        /\ \A d \in OffDue(in), s \in 0..Week - 1 : <<"off", s>> \notin history.fired
        /\ \A d, e \in OnDue(in) : On(d) = On(e)
        /\ \A d, e \in OffDue(in) : Off(d) = Off(e)
    BY <1>5, TakesFresh
  <2>4. /\ \A d \in OnDue(in) : d \in Days /\ Open(On(d))
        /\ \A d \in OffDue(in) : d \in Days /\ Open(Off(d))
    BY DEF OnDue, OffDue, TakesPart
  <2>5. ASSUME NEW s \in 0..Week - 1, <<"on", s>> \in history'.fired
        PROVE Open(s) /\ (\E d \in Days : s = On(d)) /\ (cfg.enabled => engine'.on = s)
    <3>1. CASE <<"on", s>> \in history.fired
      <4>1. OnDue(in) = {} BY <2>3, <3>1
      <4>2. ~TakesOn(in) BY <4>1 DEF TakesOn
      <4> QED BY <2>1, <2>2, <3>1, <4>2 DEF FiredInv
    <3>2. CASE <<"on", s>> \in Consumed(in)
      <4>1. PICK d \in OnDue(in) : TakesOn(in) /\ s = On(d)
        BY <3>2 DEF Consumed
      <4>2. \E e \in OnDue(in) : NextOn(in) = On(e)
        BY <1>1, <4>1, DueTyped
      <4> QED BY <2>1, <2>3, <2>4, <4>1, <4>2
    <3> QED BY <1>1, <2>5, <3>1, <3>2
  <2>6. ASSUME NEW s \in 0..Week - 1, <<"off", s>> \in history'.fired
        PROVE Open(s) /\ (\E d \in Days : s = Off(d)) /\ (cfg.enabled => engine'.off = s)
    <3>1. CASE <<"off", s>> \in history.fired
      <4>1. OffDue(in) = {} BY <2>3, <3>1
      <4>2. ~TakesOff(in) BY <4>1 DEF TakesOff
      <4> QED BY <2>1, <2>2, <3>1, <4>2 DEF FiredInv
    <3>2. CASE <<"off", s>> \in Consumed(in)
      <4>1. PICK d \in OffDue(in) : TakesOff(in) /\ s = Off(d)
        BY <3>2 DEF Consumed
      <4>2. \E e \in OffDue(in) : NextOff(in) = Off(e)
        BY <1>1, <4>1, DueTyped
      <4> QED BY <2>1, <2>3, <2>4, <4>1, <4>2
    <3> QED BY <1>1, <2>6, <3>1, <3>2
  <2> QED BY <1>1, <1>2, <2>5, <2>6 DEF FiredInv
<1> QED BY <1>3, <1>4, <1>5

LEMMA TickIdle ==
  ASSUME NEW in, EngineTypeOK, IdleInv, Tick(in), in.act = act, act' = act, act \in Acts
  PROVE  IdleInv'
<1>1. /\ cfg \in Configs /\ engine \in Engine /\ history.still \in 0..Grace
      /\ history'.still = history.still /\ engine' = Ticked(in)
  BY EngineTypes, TickHistory
<1>2. CASE Blind \/ GraceEnds(in)
  <2>1. engine'.idle = None BY <1>1, <1>2, QuietTyped DEF Ticked
  <2> QED BY <2>1 DEF IdleInv
<1>3. ASSUME ~Blind, ~GraceEnds(in), engine'.idle # None PROVE IdleInv'
  <2>1. /\ engine'.idle = IF TakesOn(in) \/ HoldsBack(in) THEN None ELSE Graced(in)
        /\ engine'.defer =
              IF TakesOn(in) /\ HoldsBack(in) THEN OnFirst(in)
              ELSE HoldsBack(in)
                   \/ (engine.defer /\ Connected(in) /\ IsOn(in) /\ ~TakesOn(in))
        /\ engine'.seen = InUse(in)
    BY <1>1, <1>3, SlotsTickTyped DEF Ticked
  <2>2. ~TakesOn(in) /\ ~HoldsBack(in) /\ engine'.idle = Graced(in)
    BY <1>3, <2>1
  <2>3. engine.defer /\ Connected(in) /\ IsOn(in) /\ IsIdle(in)
    BY <1>3, <2>2 DEF Graced, IdleInv
  <2>4. act = "none" BY <2>3 DEF IsIdle
  <2>5. ~InUse(in) BY <2>4 DEF InUse
  <2>6. engine'.idle = IF engine.idle = None THEN 0 ELSE engine.idle
    BY <2>2, <2>3 DEF Graced
  <2>7. history.still >= engine'.idle
    BY <1>1, <2>4, <2>6, Constants, SMT DEF IdleInv
  <2>8. engine'.defer /\ ~engine'.seen
    BY <2>1, <2>2, <2>3, <2>5
  <2> QED BY <1>1, <2>4, <2>7, <2>8 DEF IdleInv
<1> QED BY <1>2, <1>3 DEF IdleInv

LEMMA TickCount ==
  ASSUME NEW in, EngineTypeOK, CountInv, Tick(in), in.act = act, act' = act, act \in Acts
  PROVE  CountInv'
<1>1. /\ cfg \in Configs /\ engine \in Engine /\ history.unused \in 0..Wait
      /\ history'.unused = history.unused /\ engine' = Ticked(in)
  BY EngineTypes, TickHistory
<1>2. engine'.asb \in {None, Counted(in).asb}
  BY <1>1, QuietTyped, SlotsTickTyped DEF Ticked
<1>3. Counted(in).asb \in {None, CountNow(in)}
  BY <1>1, CountedTyped
<1>4. ASSUME engine'.asb # None, act # "use" PROVE history.unused >= engine'.asb
  <2>1. engine'.asb = CountNow(in) BY <1>2, <1>3, <1>4
  <2>2. CASE engine.seen
    <3>1. engine'.asb = 0 BY <1>4, <2>1, <2>2 DEF CountNow, InUse
    <3> QED BY <1>1, <3>1, Constants, SMT
  <2>3. CASE ~engine.seen
    <3>1. engine'.asb = engine.asb BY <2>1, <2>3 DEF CountNow
    <3> QED BY <1>4, <2>3, <3>1 DEF CountInv
  <2> QED BY <2>2, <2>3
<1> QED BY <1>1, <1>4 DEF CountInv

LEMMA TickInv ==
  ASSUME NEW in, EngineInv, Tick(in), in.act = act, act' = act
  PROVE  EngineInv'
BY TickTyped, TickFired, TickIdle, TickCount DEF EngineInv

-----------------------------------------------------------------------------
(* An edit of the schedule, the minutes, the clock's trust, and use.       *)

LEMMA AnyOfTyped ==
  ASSUME NEW S \in SUBSET (0..Week - 1)
  PROVE  AnyOf(S) \in LatchType /\ (S # {} => AnyOf(S) \in S)
BY DEF AnyOf, LatchType

LEMMA OpenTyped ==
  ASSUME NEW c \in Configs, clock.now \in 0..Week - 1
  PROVE  /\ OpenOn(c) \in SUBSET (0..Week - 1) /\ OpenOff(c) \in SUBSET (0..Week - 1)
         /\ \A s \in OpenOn(c) : Open(s) /\ (\E d \in Days : s = OnOf(c, d))
                                 /\ AnyOf(OpenOn(c)) = s
         /\ \A s \in OpenOff(c) : Open(s) /\ (\E d \in Days : s = OffOf(c, d))
                                  /\ AnyOf(OpenOff(c)) = s
<1>0. clock.now \in Int BY Constants, SMT
<1>1. OpenOn(c) \in SUBSET (0..Week - 1) /\ OpenOff(c) \in SUBSET (0..Week - 1)
  BY SlotsTyped DEF OpenOn, OpenOff
<1>2. /\ \A s \in OpenOn(c) : Open(s) /\ (\E d \in Days : s = OnOf(c, d))
      /\ \A s \in OpenOff(c) : Open(s) /\ (\E d \in Days : s = OffOf(c, d))
  BY DEF OpenOn, OpenOff
<1>3. \A s, t \in OpenOn(c) : s = t
  BY <1>0, <1>2, OneOpenOn DEF Open
<1>4. \A s, t \in OpenOff(c) : s = t
  BY <1>0, <1>2, OneOpenOff DEF Open
<1>5. /\ OpenOn(c) # {} => AnyOf(OpenOn(c)) \in OpenOn(c)
      /\ OpenOff(c) # {} => AnyOf(OpenOff(c)) \in OpenOff(c)
  BY <1>1, AnyOfTyped
<1> QED BY <1>1, <1>2, <1>3, <1>4, <1>5

LEMMA EditedTyped ==
  ASSUME NEW c \in Configs, engine \in Engine, clock.now \in 0..Week - 1
  PROVE  /\ Edited(c) \in Engine
         /\ c.enabled => /\ Edited(c).on = AnyOf(OpenOn(c))
                         /\ Edited(c).off = AnyOf(OpenOff(c))
         /\ Edited(c).idle = None /\ Edited(c).seen = engine.seen
         /\ Edited(c).asb \in {None, engine.asb}
<1> DEFINE n == IF c.enabled THEN AnyOf(OpenOn(c)) ELSE None
           f == IF c.enabled THEN AnyOf(OpenOff(c)) ELSE None
           a == IF c.auto THEN engine.asb ELSE None
<1>1. n \in LatchType /\ f \in LatchType
  BY OpenTyped, AnyOfTyped DEF LatchType
<1>2. a \in AsbType /\ None \in IdleType
  BY EngineFields DEF AsbType, IdleType
<1>3. Edited(c) = [engine EXCEPT !.on = n, !.off = f, !.defer = FALSE, !.idle = None,
                                 !.asb = a]
  BY DEF Edited
<1>4. a \in {None, engine.asb} /\ (c.enabled => n = AnyOf(OpenOn(c)) /\ f = AnyOf(OpenOff(c)))
  OBVIOUS
<1> HIDE DEF n, f, a
<1>5. Edited(c) \in Engine
  BY <1>1, <1>2, <1>3, Zenon DEF Engine, LatchType, IdleType, AsbType
<1>6. /\ Edited(c).on = n /\ Edited(c).off = f /\ Edited(c).idle = None
      /\ Edited(c).seen = engine.seen /\ Edited(c).asb = a
  BY <1>3, Zenon DEF Engine
<1> QED BY <1>4, <1>5, <1>6

LEMMA EditInv ==
  ASSUME EngineInv, NEW c \in Configs, SetConfig(c), act' = act
  PROVE  EngineInv'
<1>1. /\ cfg \in Configs /\ engine \in Engine /\ history \in History
      /\ clock.now \in 0..Week - 1 /\ history.unused \in 0..Wait /\ history.still \in 0..Grace
      /\ cfg' = c /\ clock' = clock
  BY EngineTypes DEF EngineInv, SetConfig
<1>2. CASE c = cfg
  <2>1. engine' = engine /\ history' = history /\ cfg' = cfg
    BY <1>1, <1>2 DEF SetConfig
  <2> QED BY <1>1, <2>1 DEF EngineInv, EngineTypeOK, FiredInv, IdleInv, CountInv, On, Off, Open
<1>3. CASE c # cfg
  <2> DEFINE f == ({"on"} \X OpenOn(c)) \cup ({"off"} \X OpenOff(c))
  <2>1. engine' = Edited(c) /\ history' = [history EXCEPT !.fired = f]
    BY <1>3 DEF SetConfig
  <2>2. f \in SUBSET Slots
    BY <1>1, OpenTyped DEF Slots
  <2>3. /\ \A s : <<"on", s>> \in f => s \in OpenOn(c)
        /\ \A s : <<"off", s>> \in f => s \in OpenOff(c)
    OBVIOUS
  <2> HIDE DEF f
  <2>4. /\ history' \in History /\ history'.fired = f
        /\ history'.unused = history.unused /\ history'.still = history.still
    BY <1>1, <2>1, <2>2, Zenon DEF History
  <2>5. EngineTypeOK'
    BY <1>1, <2>1, <2>4, EditedTyped DEF EngineTypeOK, EngineInv
  <2>6. FiredInv'
    <3>1. /\ \A s : Open(s)' = Open(s)
          /\ \A d : On(d)' = OnOf(c, d) /\ Off(d)' = OffOf(c, d)
      BY <1>1 DEF Open, On, Off
    <3>2. cfg'.enabled => /\ engine'.on = AnyOf(OpenOn(c))
                          /\ engine'.off = AnyOf(OpenOff(c))
      BY <1>1, <2>1, EditedTyped
    <3> QED BY <1>1, <2>3, <2>4, <3>1, <3>2, OpenTyped DEF FiredInv
  <2>7. engine'.idle = None /\ engine'.seen = engine.seen /\ engine'.asb \in {None, engine.asb}
    BY <1>1, <2>1, EditedTyped
  <2> QED BY <2>4, <2>5, <2>6, <2>7 DEF EngineInv, IdleInv, CountInv
<1> QED BY <1>2, <1>3

LEMMA MoreTyped ==
  ASSUME NEW most \in Nat \ {0}, NEW n \in {None} \cup 0..most
  PROVE  /\ More(n, most) \in {None} \cup 0..most
         /\ n \in 0..most => More(n, most) \in 0..most /\ More(n, most) >= n
         /\ More(n, most) = None <=> n = None
BY Constants, SMT DEF More

LEMMA MoreTogether ==
  ASSUME NEW most \in Nat \ {0}, NEW m \in 0..most, NEW n \in 0..most, m >= n
  PROVE  More(m, most) >= More(n, most)
BY Constants, SMT DEF More

LEMMA MinuteInv ==
  ASSUME EngineInv, Minute(act), act' = act
  PROVE  EngineInv'
<1>1. /\ cfg \in Configs /\ engine \in Engine /\ history \in History
      /\ clock \in [now : 0..Week - 1, trusted : BOOLEAN]
      /\ clock.now \in 0..Week - 1 /\ history.unused \in 0..Wait /\ history.still \in 0..Grace
      /\ history.fired \subseteq Slots
      /\ cfg' = cfg
  BY EngineTypes DEF EngineInv, Minute, EngineTypeOK
<1> DEFINE n == (clock.now + 1) % Week
           i == More(engine.idle, Grace)
           a == More(engine.asb, Wait)
           f == StillFired(n)
           u == IF act = "use" THEN 0 ELSE More(history.unused, Wait)
           q == IF act = "none" THEN More(history.still, Grace) ELSE 0
<1>2. n \in 0..Week - 1
  <2>1. clock.now + 1 \in Int BY <1>1, Constants, SMT
  <2> QED BY <2>1, ModRange
<1>3. engine.idle \in {None} \cup 0..Grace /\ engine.asb \in {None} \cup 0..Wait
  BY <1>1, EngineFields DEF IdleType, AsbType
<1>4. i \in IdleType /\ a \in AsbType
  BY <1>3, MoreTyped, Constants DEF IdleType, AsbType
<1>5. u \in 0..Wait /\ q \in 0..Grace
  <2>1. 0 \in 0..Wait /\ 0 \in 0..Grace BY Constants, SMT
  <2> QED BY <1>1, <2>1, MoreTyped, Constants
<1>6. f \in SUBSET history.fired /\ \A s : s \in f => InWindow(n, s[2])
  BY DEF StillFired
<1>7. /\ clock' = [clock EXCEPT !.now = n]
      /\ engine' = [engine EXCEPT !.idle = i, !.asb = a]
      /\ history' = [fired |-> f, unused |-> u, still |-> q]
  BY DEF Minute
<1>8. /\ engine.idle # None => i # None /\ (\A h \in 0..Grace : h >= engine.idle => More(h, Grace) >= i)
      /\ i # None => engine.idle # None
      /\ engine.asb # None => (\A h \in 0..Wait : h >= engine.asb => More(h, Wait) >= a)
      /\ a # None => engine.asb # None
  BY <1>3, MoreTyped, MoreTogether, Constants
<1>9. /\ act = "none" => q = More(history.still, Grace)
      /\ act # "use" => u = More(history.unused, Wait)
  OBVIOUS
<1> HIDE DEF n, i, a, f, u, q
<1>10. /\ clock' \in [now : 0..Week - 1, trusted : BOOLEAN] /\ clock'.now = n
  BY <1>1, <1>2, <1>7, Zenon
<1>11. /\ engine' \in Engine /\ engine'.on = engine.on /\ engine'.off = engine.off
       /\ engine'.defer = engine.defer /\ engine'.seen = engine.seen
       /\ engine'.idle = i /\ engine'.asb = a
  BY <1>1, <1>4, <1>7, Zenon DEF Engine, IdleType, AsbType
<1>12. /\ history' \in History /\ history'.fired = f /\ history'.unused = u /\ history'.still = q
  BY <1>1, <1>5, <1>6, <1>7, Zenon DEF History
<1>13. EngineTypeOK'
  BY <1>1, <1>10, <1>11, <1>12 DEF EngineTypeOK
<1>14. FiredInv'
  <2>1. \A d : On(d)' = On(d) /\ Off(d)' = Off(d)
    BY <1>1 DEF On, Off
  <2>2. \A s : Open(s)' = InWindow(n, s)
    BY <1>10 DEF Open
  <2>3. /\ \A s : <<"on", s>> \in f => InWindow(n, s)
        /\ \A s : <<"off", s>> \in f => InWindow(n, s)
    BY <1>6
  <2> QED BY <1>1, <1>6, <1>11, <1>12, <2>1, <2>2, <2>3 DEF FiredInv, EngineInv
<1>15. IdleInv'
  BY <1>1, <1>8, <1>9, <1>11, <1>12 DEF IdleInv, EngineInv
<1>16. CountInv'
  BY <1>1, <1>8, <1>9, <1>11, <1>12 DEF CountInv, EngineInv
<1> QED BY <1>13, <1>14, <1>15, <1>16 DEF EngineInv

LEMMA TrustInv ==
  ASSUME EngineInv, TrustChanges, act' = act
  PROVE  EngineInv'
<1>1. /\ history \in History /\ history.fired \subseteq Slots /\ clock.trusted \in BOOLEAN
      /\ history.unused \in 0..Wait /\ history.still \in 0..Grace
      /\ cfg' = cfg /\ engine' = engine
  BY EngineTypes DEF EngineInv, TrustChanges
<1>2. PICK now \in 0..Week - 1 :
        /\ clock' = [now |-> now, trusted |-> ~clock.trusted]
        /\ history' = [history EXCEPT !.fired = StillFired(now)]
  BY DEF TrustChanges
<1> DEFINE f == StillFired(now)
<1>3. f \in SUBSET history.fired /\ \A s : s \in f => InWindow(now, s[2])
  BY DEF StillFired
<1>4. history' = [history EXCEPT !.fired = f] BY <1>2
<1> HIDE DEF f
<1>5. /\ history' \in History /\ history'.fired = f
      /\ history'.unused = history.unused /\ history'.still = history.still
  BY <1>1, <1>3, <1>4, Zenon DEF History
<1>6. clock' \in [now : 0..Week - 1, trusted : BOOLEAN] /\ clock'.now = now
  BY <1>1, <1>2
<1>7. EngineTypeOK'
  BY <1>1, <1>5, <1>6 DEF EngineTypeOK, EngineInv
<1>8. FiredInv'
  <2>1. \A d : On(d)' = On(d) /\ Off(d)' = Off(d)
    BY <1>1 DEF On, Off
  <2>2. \A s : Open(s)' = InWindow(now, s)
    BY <1>6 DEF Open
  <2>3. /\ \A s : <<"on", s>> \in f => InWindow(now, s)
        /\ \A s : <<"off", s>> \in f => InWindow(now, s)
    BY <1>3
  <2> QED BY <1>1, <1>3, <1>5, <2>1, <2>2, <2>3 DEF FiredInv, EngineInv
<1> QED BY <1>1, <1>5, <1>7, <1>8 DEF EngineInv, IdleInv, CountInv

(* Use begins from rest or review, ends once a tick has seen it, and a     *)
(* review ends in rest.                                                    *)
LEMMA ActInv ==
  ASSUME EngineInv, NEW a \in Acts, ActChanges(a),
         \/ a = "use"
         \/ act = "use" /\ engine.seen
         \/ act = "review" /\ a = "none"
  PROVE  EngineInv'
<1>1. /\ history \in History /\ history.fired \subseteq Slots
      /\ history.unused \in 0..Wait /\ history.still \in 0..Grace
      /\ cfg' = cfg /\ engine' = engine /\ clock' = clock /\ act' = a
  BY EngineTypes DEF EngineInv, ActChanges
<1> DEFINE u == IF a = "use" THEN 0 ELSE history.unused
           q == IF a = "none" THEN history.still ELSE 0
<1>2. u \in 0..Wait /\ q \in 0..Grace
  BY <1>1, Constants, SMT
<1>3. history' = [history EXCEPT !.unused = u, !.still = q]
  BY DEF ActChanges, NoteUse
<1>4. (a # "use" => u = history.unused) /\ (a = "none" => q = history.still)
  OBVIOUS
<1> HIDE DEF u, q
<1>5. /\ history' \in History /\ history'.fired = history.fired
      /\ history'.unused = u /\ history'.still = q
  BY <1>1, <1>2, <1>3, Zenon DEF History
<1>6. EngineTypeOK'
  BY <1>1, <1>5 DEF EngineTypeOK, EngineInv
<1>7. FiredInv'
  BY <1>1, <1>5 DEF FiredInv, EngineInv, On, Off, Open
<1>8. IdleInv'
  BY <1>1, <1>4, <1>5 DEF IdleInv, EngineInv, Acts
<1>9. CountInv'
  BY <1>1, <1>4, <1>5 DEF CountInv, EngineInv, Acts
<1> QED BY <1>1, <1>6, <1>7, <1>8, <1>9 DEF EngineInv

LEMMA EngineStutters ==
  ASSUME EngineInv, UNCHANGED engineVars, act' = act
  PROVE  EngineInv'
BY DEF engineVars, EngineInv, EngineTypeOK, FiredInv, IdleInv, CountInv, On, Off, Open

-----------------------------------------------------------------------------
(* The link: types, the command that is kept, the Connected that is true.  *)

Conf    == [token : Tokens, enabled : BOOLEAN]
Flags   == [tokenBad : BOOLEAN, redial : BOOLEAN, recovering : BOOLEAN, maskOld : BOOLEAN]
Shown   == [link : Links, power : Powers]
Task    == [pc : Pcs, up : BOOLEAN, token : Tokens, cmd : Commands, say : Links]
Owed    == [cmd : Commands, by : {"user", "schedule"}]
Machine == [power : Powers, reported : Powers, reach : BOOLEAN]

(* What the task says, once it may be said after the mask, is what it      *)
(* takes the link for.                                                     *)
SaysWhatItHolds == task.pc \in {"say", "unmask"} /\ task.say = "Connected" => task.up

LinkInv == MicraTypeOK /\ LastCommandIsKept /\ ConnectedIsHonest /\ SaysWhatItHolds
           /\ (task.pc = "writing" => task.cmd \in Powers)

LEMMA MicraTypes ==
  ASSUME MicraTypeOK
  PROVE  /\ conf \in Conf /\ flags \in Flags /\ shown \in Shown /\ task \in Task
         /\ ble \in BOOLEAN /\ watch \in Watching /\ pending \in Commands
         /\ owed \in Owed /\ machine \in Machine
BY DEF MicraTypeOK, Conf, Flags, Shown, Task, Owed, Machine

LEMMA TaskMoves ==
  ASSUME NEW t \in Task, NEW pc \in Pcs
  PROVE  /\ [t EXCEPT !.pc = pc] \in Task
         /\ [t EXCEPT !.pc = pc].pc = pc /\ [t EXCEPT !.pc = pc].up = t.up
         /\ [t EXCEPT !.pc = pc].cmd = t.cmd /\ [t EXCEPT !.pc = pc].say = t.say
BY Zenon DEF Task

(* A step that touches neither mailbox nor the command in hand.            *)
LEMMA KeepsCommand ==
  ASSUME LastCommandIsKept, UNCHANGED <<pending, owed>>,
         task.pc = "writing" => task'.pc = "writing" /\ task'.cmd = task.cmd
  PROVE  LastCommandIsKept'
BY DEF LastCommandIsKept

LEMMA FlagSteps ==
  ASSUME NEW f \in Flags
  PROVE  /\ [f EXCEPT !.redial = FALSE] \in Flags
         /\ [f EXCEPT !.redial = FALSE].recovering = f.recovering
         /\ [f EXCEPT !.recovering = FALSE] \in Flags
         /\ [f EXCEPT !.recovering = FALSE].recovering = FALSE
         /\ [f EXCEPT !.tokenBad = TRUE] \in Flags
         /\ [f EXCEPT !.tokenBad = FALSE, !.redial = TRUE] \in Flags
         /\ [f EXCEPT !.tokenBad = FALSE, !.redial = TRUE].recovering = f.recovering
         /\ [f EXCEPT !.redial = TRUE] \in Flags
         /\ [f EXCEPT !.redial = TRUE].recovering = f.recovering
         /\ [f EXCEPT !.recovering = TRUE, !.maskOld = FALSE] \in Flags
         /\ [f EXCEPT !.recovering = TRUE, !.maskOld = FALSE].recovering = TRUE
         /\ [f EXCEPT !.maskOld = TRUE] \in Flags
         /\ [f EXCEPT !.maskOld = TRUE].recovering = f.recovering
BY Zenon DEF Flags

LEMMA LinkNames ==
  /\ {"NeedsToken", "Disconnected", "Connecting", "Connected"} \subseteq Links
  /\ {"top", "gate", "dial", "verify", "linked", "writing", "poll", "say", "unmask"}
       \subseteq Pcs
  /\ {"idle", "seen", "raised"} \subseteq Watching
  /\ "on" \in Powers /\ "standby" \in Powers /\ Powers \subseteq Commands
  /\ Nothing \in Commands /\ \A c \in Commands : c # Nothing => c \in Powers
BY DEF Links, Pcs, Watching, Powers, Commands

(* What is to be shown of a step of the task outside its writes.           *)
LEMMA MovesInv ==
  ASSUME LinkInv, UNCHANGED <<conf, watch, pending, owed, machine>>,
         task' \in Task, task.pc # "writing", task'.pc # "writing",
         shown' \in Shown, flags' \in Flags, ble' \in BOOLEAN,
         ConnectedIsHonest', SaysWhatItHolds'
  PROVE  LinkInv'
<1>1. LastCommandIsKept' BY KeepsCommand DEF LinkInv
<1> QED BY <1>1 DEF LinkInv, MicraTypeOK, Conf, Flags, Shown, Task, Owed, Machine

(* Every call of set_link, with what the caller stores before it.          *)
LEMMA SaysInv ==
  ASSUME LinkInv, UNCHANGED <<conf, watch, pending, owed, machine>>,
         NEW l \in Links, NEW up \in BOOLEAN, Say(l, up), l = "Connected" => up,
         task.pc # "writing", shown' \in Shown, flags' \in Flags, ble' \in BOOLEAN
  PROVE  LinkInv'
<1>1. task \in Task BY MicraTypes DEF LinkInv
<1>2. task' = [task EXCEPT !.pc = "say", !.up = up, !.say = l] BY DEF Say
<1>3. task' \in Task /\ task'.pc = "say" /\ task'.up = up /\ task'.say = l
  BY <1>1, <1>2, LinkNames, Zenon DEF Task
<1>4. ConnectedIsHonest' /\ SaysWhatItHolds'
  BY <1>3 DEF ConnectedIsHonest, SaysWhatItHolds
<1> QED BY <1>3, <1>4, MovesInv

LEMMA TopInv == ASSUME LinkInv, Top PROVE LinkInv'
<1>1. /\ conf \in Conf /\ task \in Task /\ shown \in Shown /\ flags \in Flags
      /\ ble \in BOOLEAN
  BY MicraTypes DEF LinkInv
<1>2. conf.token \in Tokens BY <1>1 DEF Conf
<1> DEFINE k == conf.token
<1>3. task' = [task EXCEPT !.pc = "gate", !.token = k] BY DEF Top
<1> HIDE DEF k
<1>4. task' \in Task /\ task'.pc = "gate" /\ task'.up = task.up
  BY <1>1, <1>2, <1>3, LinkNames, Zenon DEF Task, k
<1>5. ConnectedIsHonest' /\ SaysWhatItHolds'
  BY <1>4 DEF Top, LinkInv, ConnectedIsHonest, SaysWhatItHolds
<1> QED BY <1>1, <1>4, <1>5, MovesInv DEF Top

LEMMA SaidGoesOn == ASSUME task \in Task PROVE Said \in {"top", "dial", "linked"}
BY DEF Said

(* set_link itself: the mask it finds is the mask of that moment.          *)
LEMMA SetLinkInv ==
  ASSUME LinkInv, Swallow \/ Publish \/ Unmask
  PROVE  LinkInv'
<1>1. flags \in Flags /\ shown \in Shown /\ task \in Task /\ ble \in BOOLEAN
  BY MicraTypes DEF LinkInv
<1> DEFINE n == Said
<1>2. n \in Pcs /\ n \notin {"writing", "say", "unmask"} BY <1>1, SaidGoesOn, LinkNames
<1>3. task.say \in Links BY <1>1 DEF Task
<1>4. CASE Swallow
  <2>1. task' = [task EXCEPT !.pc = n] BY <1>4 DEF Swallow, Goto
  <2> HIDE DEF n
  <2>2. task' \in Task /\ task'.pc = n BY <1>1, <1>2, <2>1, TaskMoves
  <2>3. flags'.recovering BY <1>4 DEF Swallow, Masked
  <2>4. ConnectedIsHonest' /\ SaysWhatItHolds'
    BY <1>2, <2>2, <2>3 DEF ConnectedIsHonest, SaysWhatItHolds
  <2> QED BY <1>1, <1>2, <1>4, <2>2, <2>4, MovesInv DEF Swallow
<1>5. ASSUME Published, task.pc \in {"say", "unmask"}, flags' \in Flags,
             UNCHANGED <<conf, ble, watch, pending, owed, machine>>
      PROVE  LinkInv'
  <2> DEFINE l == task.say
  <2>1. task' = [task EXCEPT !.pc = n] /\ shown' = [shown EXCEPT !.link = l]
    BY <1>5 DEF Published, Goto
  <2>2. l = "Connected" => task.up BY <1>5 DEF LinkInv, SaysWhatItHolds
  <2> HIDE DEF n, l
  <2>3. task' \in Task /\ task'.pc = n /\ task'.up = task.up
    BY <1>1, <1>2, <2>1, TaskMoves
  <2>4. l \in Links BY <1>3 DEF l
  <2>5. shown' \in Shown /\ shown'.link = l
    BY <1>1, <2>1, <2>4, Zenon DEF Shown
  <2>6. ConnectedIsHonest' /\ SaysWhatItHolds'
    BY <1>2, <2>2, <2>3, <2>5 DEF ConnectedIsHonest, SaysWhatItHolds
  <2> QED BY <1>1, <1>2, <1>5, <2>3, <2>5, <2>6, MovesInv
<1>6. CASE Publish
  <2>1. CASE flags.recovering
    <3>1. task' = [task EXCEPT !.pc = "unmask"] /\ UNCHANGED shown
      BY <1>6, <2>1 DEF Publish, Goto
    <3>2. task' \in Task /\ task'.pc = "unmask" /\ task'.up = task.up /\ task'.say = task.say
      BY <1>1, <3>1, TaskMoves, LinkNames
    <3>3. ConnectedIsHonest' /\ SaysWhatItHolds'
      BY <1>6, <3>2 DEF Publish, LinkInv, ConnectedIsHonest, SaysWhatItHolds
    <3> QED BY <1>1, <1>6, <3>1, <3>2, <3>3, MovesInv DEF Publish
  <2>2. CASE ~flags.recovering
    BY <1>1, <1>5, <1>6, <2>2 DEF Publish
  <2> QED BY <2>1, <2>2
<1>7. CASE Unmask
  <2>1. flags' \in Flags BY <1>1, <1>7, FlagSteps DEF Unmask
  <2> QED BY <1>5, <1>7, <2>1 DEF Unmask
<1> QED BY <1>4, <1>6, <1>7

LEMMA GateInv == ASSUME LinkInv, Park \/ Proceed PROVE LinkInv'
<1>1. flags \in Flags /\ shown \in Shown /\ task \in Task /\ ble \in BOOLEAN
  BY MicraTypes DEF LinkInv
<1>2. CASE Park
  <2> DEFINE l == ParkedLink
  <2>1. l \in Links /\ l # "Connected" BY LinkNames DEF ParkedLink
  <2>2. Say(l, FALSE) BY <1>2 DEF Park
  <2> HIDE DEF l
  <2>3. flags' \in Flags BY <1>1, <1>2, FlagSteps DEF Park, Unmasked
  <2>4. ble' \in BOOLEAN BY <1>2 DEF Park
  <2> QED BY <1>1, <1>2, <2>1, <2>2, <2>3, <2>4, SaysInv DEF Park
<1>3. CASE Proceed
  <2>1. flags' \in Flags /\ flags'.recovering = flags.recovering
    BY <1>1, <1>3, FlagSteps DEF Proceed
  <2>2. CASE Goto("linked") /\ UNCHANGED ble
    <3>1. task' \in Task /\ task'.pc = "linked" /\ task'.up = task.up
      BY <1>1, <2>2, TaskMoves, LinkNames DEF Goto
    <3>2. ConnectedIsHonest' /\ SaysWhatItHolds'
      BY <1>3, <2>1, <3>1 DEF Proceed, LinkInv, ConnectedIsHonest, SaysWhatItHolds
    <3> QED BY <1>1, <1>3, <2>1, <2>2, <3>1, <3>2, MovesInv DEF Proceed
  <2>3. CASE Say("Connecting", FALSE) /\ ble' \in BOOLEAN
    BY <1>1, <1>3, <2>1, <2>3, SaysInv, LinkNames DEF Proceed
  <2> QED BY <1>1, <1>3, <2>2, <2>3 DEF Proceed
<1> QED BY <1>2, <1>3

LEMMA DialInv == ASSUME LinkInv, DialWaits \/ DialOk \/ DialFails PROVE LinkInv'
<1>1. flags \in Flags /\ shown \in Shown /\ task \in Task /\ ble \in BOOLEAN
  BY MicraTypes DEF LinkInv
<1>2. ASSUME NEW pc \in {"top", "verify"}, Goto(pc), task.pc = "dial", ble' \in BOOLEAN,
             UNCHANGED <<conf, flags, shown, watch, pending, owed, machine>>
      PROVE  LinkInv'
  <2>1. pc \in Pcs BY <1>2, LinkNames
  <2>2. task' \in Task /\ task'.pc = pc /\ task'.up = task.up
    BY <1>1, <1>2, <2>1, TaskMoves DEF Goto
  <2>3. ConnectedIsHonest' /\ SaysWhatItHolds'
    BY <1>2, <2>2 DEF LinkInv, ConnectedIsHonest, SaysWhatItHolds
  <2> QED BY <1>1, <1>2, <2>2, <2>3, MovesInv
<1>3. CASE DialWaits BY <1>1, <1>2, <1>3 DEF DialWaits
<1>4. CASE DialOk BY <1>1, <1>2, <1>4 DEF DialOk
<1>5. CASE DialFails
  <2>1. flags' \in Flags BY <1>1, <1>5, FlagSteps DEF DialFails, Unmasked
  <2> QED BY <1>1, <1>5, <2>1, SaysInv, LinkNames DEF DialFails
<1> QED BY <1>3, <1>4, <1>5

LEMMA VerifyInv ==
  ASSUME LinkInv, VerifyOk \/ VerifyFails \/ VerifyRejected \/ NoticeDrop
  PROVE  LinkInv'
<1>1. flags \in Flags /\ shown \in Shown /\ machine \in Machine /\ ble \in BOOLEAN
  BY MicraTypes DEF LinkInv
<1>2. CASE VerifyOk
  <2> DEFINE r == machine.reported
  <2>1. r \in Powers BY <1>1 DEF Machine
  <2>2. shown' = [shown EXCEPT !.power = r] BY <1>2 DEF VerifyOk
  <2> HIDE DEF r
  <2>3. shown' \in Shown BY <1>1, <2>1, <2>2, Zenon DEF Shown
  <2> QED BY <1>1, <1>2, <2>3, SaysInv, LinkNames DEF VerifyOk
<1>3. CASE VerifyFails
  BY <1>1, <1>3, SaysInv, LinkNames DEF VerifyFails
<1>4. CASE VerifyRejected
  <2>1. flags' \in Flags BY <1>1, <1>4, FlagSteps DEF VerifyRejected
  <2> QED BY <1>1, <1>4, <2>1, SaysInv, LinkNames DEF VerifyRejected
<1>5. CASE NoticeDrop
  BY <1>1, <1>5, SaysInv, LinkNames DEF NoticeDrop
<1> QED BY <1>2, <1>3, <1>4, <1>5

LEMMA TakeInv == ASSUME LinkInv, TakeCommand PROVE LinkInv'
<1>1. task \in Task /\ pending \in Commands
  BY MicraTypes DEF LinkInv
<1> DEFINE p == IF pending = Nothing THEN "poll" ELSE "writing"
           c == pending
<1>2. p \in Pcs BY LinkNames
<1>3. task' = [task EXCEPT !.pc = p, !.cmd = c] BY DEF TakeCommand
<1>4. task.pc = "linked" /\ pending' = Nothing /\ owed' = owed BY DEF TakeCommand
<1> HIDE DEF p, c
<1>5. task' \in Task /\ task'.pc = p /\ task'.cmd = c /\ task'.up = task.up
  <2>1. c \in Commands BY <1>1 DEF c
  <2> QED BY <1>1, <1>2, <1>3, <2>1, Zenon DEF Task
<1>6. CASE pending = Nothing
  <2>1. owed.cmd = Nothing BY <1>4, <1>6 DEF LinkInv, LastCommandIsKept
  <2>2. task'.pc = "poll" BY <1>5, <1>6 DEF p
  <2> QED BY <1>4, <1>5, <2>1, <2>2, LinkNames
          DEF LinkInv, TakeCommand, MicraTypeOK, Task, ConnectedIsHonest, SaysWhatItHolds,
              LastCommandIsKept
<1>7. CASE pending # Nothing
  <2>1. owed.cmd # Nothing => pending = owed.cmd BY <1>7 DEF LinkInv, LastCommandIsKept
  <2>2. task'.pc = "writing" /\ task'.cmd = pending /\ pending \in Powers
    BY <1>1, <1>5, <1>7, LinkNames DEF p, c
  <2>3. LastCommandIsKept' BY <1>4, <2>1, <2>2 DEF LastCommandIsKept
  <2> QED BY <1>4, <1>5, <2>2, <2>3, LinkNames
          DEF LinkInv, TakeCommand, MicraTypeOK, Task, ConnectedIsHonest, SaysWhatItHolds
<1> QED BY <1>6, <1>7

LEMMA DoneMoves ==
  ASSUME LinkInv, CommandDone
  PROVE  task' \in Task /\ task'.pc = "poll" /\ task'.up = task.up
<1>1. task \in Task BY MicraTypes DEF LinkInv
<1> QED BY <1>1, LinkNames, Zenon DEF CommandDone, Task

LEMMA AckedInv == ASSUME LinkInv, Acked PROVE LinkInv'
<1>1. task.cmd \in Powers /\ machine \in Machine /\ owed \in Owed /\ task.pc = "writing"
  BY MicraTypes DEF LinkInv, Acked
<1>2. task' \in Task /\ task'.pc = "poll" /\ task'.up = task.up
  BY DoneMoves DEF Acked
<1>3. machine' \in Machine
  BY <1>1, Zenon DEF Acked, Machine
<1>4. NothingOwed \in Owed /\ NothingOwed.cmd = Nothing
  BY LinkNames DEF NothingOwed, Owed
<1>5. owed' \in Owed BY <1>1, <1>4 DEF Acked
<1>6. LastCommandIsKept'
  BY <1>4 DEF LinkInv, Acked, LastCommandIsKept
<1> QED BY <1>2, <1>3, <1>5, <1>6
        DEF LinkInv, Acked, MicraTypeOK, Task, Owed, Machine, ConnectedIsHonest, SaysWhatItHolds

LEMMA UnackedInv == ASSUME LinkInv, Unacked PROVE LinkInv'
<1>1. task.cmd \in Powers /\ machine \in Machine /\ task.pc = "writing" /\ pending \in Commands
  BY MicraTypes DEF LinkInv, Unacked
<1>2. task' \in Task /\ task'.pc = "poll" /\ task'.up = task.up
  BY DoneMoves DEF Unacked
<1>3. machine' \in Machine
  BY <1>1, Zenon DEF Unacked, Machine
<1>4. pending' = IF pending = Nothing THEN task.cmd ELSE pending
  BY DEF Unacked, PutBack
<1>5. pending' \in Commands BY <1>1, <1>4, LinkNames
<1>6. owed' = owed BY DEF Unacked
<1>7. LastCommandIsKept'
  BY <1>1, <1>4, <1>6 DEF LinkInv, LastCommandIsKept
<1> QED BY <1>2, <1>3, <1>5, <1>7
        DEF LinkInv, Unacked, MicraTypeOK, Task, Machine, ConnectedIsHonest, SaysWhatItHolds

LEMMA PollInv == ASSUME LinkInv, Poll PROVE LinkInv'
<1>1. task \in Task /\ shown \in Shown /\ machine \in Machine
  BY MicraTypes DEF LinkInv
<1>2. task' \in Task /\ task'.pc = "top" /\ task'.up = task.up
  BY <1>1, TaskMoves, LinkNames DEF Poll, Goto
<1>3. shown' \in Shown /\ shown'.link = shown.link
  <2>1. machine.reported \in Powers BY <1>1 DEF Machine
  <2> DEFINE r == machine.reported
  <2>2. shown' = shown \/ shown' = [shown EXCEPT !.power = r] BY DEF Poll
  <2> HIDE DEF r
  <2>3. r \in Powers BY <2>1 DEF r
  <2> QED BY <1>1, <2>2, <2>3, Zenon DEF Shown
<1>4. LastCommandIsKept' BY <1>2, KeepsCommand DEF Poll, LinkInv
<1> QED BY <1>2, <1>3, <1>4
        DEF LinkInv, Poll, MicraTypeOK, Task, Shown, ConnectedIsHonest, SaysWhatItHolds

LEMMA TaskStepInv == ASSUME LinkInv, TaskStep PROVE LinkInv'
BY TopInv, SetLinkInv, GateInv, DialInv, VerifyInv, TakeInv, AckedInv, UnackedInv, PollInv
   DEF TaskStep

-----------------------------------------------------------------------------
(* The other threads and the machine.                                      *)

LEMMA PostInv ==
  ASSUME LinkInv, NEW c \in Powers, NEW b \in {"user", "schedule"}, Post(c, b)
  PROVE  LinkInv'
<1>1. pending' = c /\ owed' = [cmd |-> c, by |-> b]
      /\ UNCHANGED <<conf, flags, shown, task, ble, watch, machine>>
  BY DEF Post
<1>2. c \in Commands /\ c # Nothing BY LinkNames, Constants
<1>3. owed' \in Owed /\ owed'.cmd = c BY <1>1, <1>2 DEF Owed
<1> QED BY <1>1, <1>2, <1>3
        DEF LinkInv, MicraTypeOK, Owed, LastCommandIsKept, ConnectedIsHonest, SaysWhatItHolds

(* The flags, the configuration, the machine's side of the link.           *)
LEMMA QuietInv ==
  ASSUME LinkInv, UNCHANGED <<shown, task, pending, owed>>,
         conf' \in Conf, flags' \in Flags, ble' \in BOOLEAN, watch' \in Watching,
         machine' \in Machine, flags.recovering => flags'.recovering
  PROVE  LinkInv'
BY DEF LinkInv, MicraTypeOK, Conf, Flags, Machine, LastCommandIsKept, ConnectedIsHonest,
       SaysWhatItHolds

LEMMA WorldInv ==
  ASSUME LinkInv,
         \/ SeeStall \/ RaiseMask \/ AbortLink \/ MaskAges \/ SetToken \/ SetConnectEnabled
         \/ MachineReports \/ SwitchedByHand \/ LinkDrops \/ MachineReturns
  PROVE  LinkInv'
<1>1. /\ conf \in Conf /\ flags \in Flags /\ machine \in Machine
      /\ ble \in BOOLEAN /\ watch \in Watching
  BY MicraTypes DEF LinkInv
<1>2. CASE SeeStall BY <1>1, <1>2, QuietInv, LinkNames DEF SeeStall
<1>3. CASE RaiseMask
  <2>1. flags' \in Flags /\ flags'.recovering BY <1>1, <1>3, FlagSteps DEF RaiseMask
  <2> QED BY <1>1, <1>3, <2>1, QuietInv, LinkNames DEF RaiseMask
<1>11. CASE AbortLink BY <1>1, <1>11, QuietInv, LinkNames DEF AbortLink
<1>4. CASE MaskAges
  <2>1. flags' \in Flags /\ flags'.recovering = flags.recovering
    BY <1>1, <1>4, FlagSteps DEF MaskAges
  <2> QED BY <1>1, <1>4, <2>1, QuietInv DEF MaskAges
<1>5. CASE SetToken
  <2>1. flags' \in Flags /\ flags'.recovering = flags.recovering
    BY <1>1, <1>5, FlagSteps DEF SetToken
  <2>2. conf' \in Conf BY <1>1, <1>5, Zenon DEF SetToken, Conf
  <2> QED BY <1>1, <1>5, <2>1, <2>2, QuietInv DEF SetToken
<1>6. CASE SetConnectEnabled
  <2>1. flags' \in Flags /\ flags'.recovering = flags.recovering
    BY <1>1, <1>6, FlagSteps DEF SetConnectEnabled
  <2> DEFINE e == ~conf.enabled
  <2>2. e \in BOOLEAN /\ conf' = [conf EXCEPT !.enabled = e]
    BY <1>6 DEF SetConnectEnabled
  <2> HIDE DEF e
  <2>3. conf' \in Conf BY <1>1, <2>2, Zenon DEF Conf
  <2> QED BY <1>1, <1>6, <2>1, <2>3, QuietInv DEF SetConnectEnabled
<1>7. CASE MachineReports
  <2> DEFINE p == machine.power
  <2>1. p \in Powers /\ machine' = [machine EXCEPT !.reported = p]
    BY <1>1, <1>7 DEF MachineReports, Machine
  <2> HIDE DEF p
  <2>2. machine' \in Machine BY <1>1, <2>1, Zenon DEF Machine
  <2> QED BY <1>1, <1>7, <2>2, QuietInv DEF MachineReports
<1>8. CASE SwitchedByHand
  <2>1. PICK p \in Powers : machine' = [machine EXCEPT !.power = p]
    BY <1>8 DEF SwitchedByHand
  <2>2. machine' \in Machine BY <1>1, <2>1, Zenon DEF Machine
  <2> QED BY <1>1, <1>8, <2>2, QuietInv DEF SwitchedByHand
<1>9. CASE LinkDrops
  <2>1. PICK r \in BOOLEAN : machine' = [machine EXCEPT !.reach = r]
    BY <1>9 DEF LinkDrops
  <2>2. machine' \in Machine BY <1>1, <2>1, Zenon DEF Machine
  <2> QED BY <1>1, <1>9, <2>2, QuietInv DEF LinkDrops
<1>10. CASE MachineReturns
  <2>1. machine' \in Machine BY <1>1, <1>10, Zenon DEF MachineReturns, Machine
  <2> QED BY <1>1, <1>10, <2>1, QuietInv DEF MachineReturns
<1> QED BY <1>2, <1>3, <1>4, <1>5, <1>6, <1>7, <1>8, <1>9, <1>10, <1>11

LEMMA LinkStutters == ASSUME LinkInv, UNCHANGED micraVars PROVE LinkInv'
BY DEF LinkInv, micraVars, MicraTypeOK, LastCommandIsKept, ConnectedIsHonest, SaysWhatItHolds

-----------------------------------------------------------------------------
(* All of it together.                                                     *)

IInv == EngineInv /\ LinkInv /\ ops \in 0..MaxOps

LEMMA InitInv == Init => IInv
<1> SUFFICES ASSUME Init PROVE IInv
  OBVIOUS
<1>1. EngineTypeOK
  <2>1. engine \in Engine
    <3>1. /\ None \in LatchType /\ None \in IdleType /\ None \in AsbType
      BY DEF LatchType, IdleType, AsbType
    <3>2. Fresh \in Engine
      BY <3>1 DEF Fresh, Engine, LatchType, IdleType, AsbType
    <3> QED BY <3>2 DEF Init, EngineInit
  <2>2. history \in History
    <3>1. Wait \in 0..Wait /\ Grace \in 0..Grace BY Constants, SMT
    <3> QED BY <3>1 DEF Init, EngineInit, History, Slots
  <2>3. clock \in [now : 0..Week - 1, trusted : BOOLEAN]
    BY Zenon DEF Init, EngineInit
  <2> QED BY <2>1, <2>2, <2>3 DEF Init, EngineInit, EngineTypeOK
<1>2. history.fired = {} /\ engine.idle = None /\ engine.asb = None
  BY DEF Init, EngineInit, Fresh
<1>3. EngineInv
  BY <1>1, <1>2 DEF Init, Acts, EngineInv, FiredInv, IdleInv, CountInv
<1>4. MicraTypeOK
  <2>1. conf \in Conf BY DEF Init, MicraInit, Conf
  <2>2. conf.token \in Tokens BY <2>1 DEF Conf
  <2>3. flags \in Flags BY DEF Init, MicraInit, Flags
  <2>4. shown \in Shown BY LinkNames DEF Init, MicraInit, Shown
  <2>5. task \in Task BY <2>2, LinkNames DEF Init, MicraInit, Task
  <2>6. owed \in Owed BY LinkNames DEF Init, MicraInit, NothingOwed, Owed
  <2>7. machine \in Machine BY LinkNames DEF Init, MicraInit, Machine
  <2>8. ble \in BOOLEAN /\ watch \in Watching /\ pending \in Commands
    BY LinkNames DEF Init, MicraInit
  <2> QED BY <2>1, <2>3, <2>4, <2>5, <2>6, <2>7, <2>8
          DEF MicraTypeOK, Conf, Flags, Shown, Task, Owed, Machine
<1>5. owed.cmd = Nothing /\ shown.link = "Disconnected" /\ task.pc = "top"
  BY DEF Init, MicraInit, NothingOwed
<1>6. LinkInv
  BY <1>4, <1>5 DEF LinkInv, LastCommandIsKept, ConnectedIsHonest, SaysWhatItHolds
<1>7. ops \in 0..MaxOps BY Constants, SMT DEF Init
<1> QED BY <1>3, <1>6, <1>7 DEF IInv

LEMMA HappensTyped ==
  ASSUME ops \in 0..MaxOps, NEW what, Happens(what)
  PROVE  ops' \in 0..MaxOps
BY Constants, SMT DEF Happens

LEMMA ObeyInv ==
  ASSUME LinkInv, NEW r, Obey(r)
  PROVE  LinkInv'
<1>1. CASE r = "TurnOn"
  BY <1>1, PostInv, LinkNames DEF Obey
<1>2. CASE r \in {"Standby", "AutoStandby"}
  <2>1. Post("standby", "schedule") BY <1>2 DEF Obey
  <2> QED BY <2>1, PostInv, LinkNames
<1>3. CASE r \notin {"TurnOn", "Standby", "AutoStandby"}
  <2>1. UNCHANGED micraVars BY <1>3 DEF Obey
  <2> QED BY <2>1, LinkStutters
<1> QED BY <1>1, <1>2, <1>3

LEMMA DisturbedInv == ASSUME IInv, LinkDisturbed PROVE IInv'
<1>1. EngineInv'
  BY EngineStutters DEF IInv, LinkDisturbed
<1>2. ops' \in 0..MaxOps
  BY HappensTyped DEF IInv, LinkDisturbed
<1>3. LinkInv'
  <2>1. CASE TogglePower
    <3> DEFINE c == IF shown.power = "on" THEN "standby" ELSE "on"
    <3>1. c \in Powers BY LinkNames
    <3>2. Post(c, "user") BY <2>1 DEF TogglePower
    <3> HIDE DEF c
    <3> QED BY <3>1, <3>2, PostInv DEF IInv
  <2> QED BY <2>1, WorldInv DEF IInv, LinkDisturbed
<1> QED BY <1>1, <1>2, <1>3 DEF IInv

LEMMA NextInv == IInv /\ [Next]_vars => IInv'
<1> SUFFICES ASSUME IInv, [Next]_vars PROVE IInv'
  OBVIOUS
<1>0. EngineInv /\ LinkInv /\ ops \in 0..MaxOps
  BY DEF IInv
<1>1. CASE ScheduleTick
  <2>1. Tick(Inputs) /\ Obey(Result(Inputs)) /\ act' = act /\ ops' = ops
    BY <1>1 DEF ScheduleTick
  <2>2. Inputs.act = act BY DEF Inputs
  <2> QED BY <1>0, <2>1, <2>2, TickInv, ObeyInv DEF IInv
<1>2. CASE ScheduleCommit
  <2>1. PICK c \in Configs : SetConfig(c) /\ (c # cfg => Happens("edit"))
    BY <1>2 DEF ScheduleCommit
  <2>2. UNCHANGED micraVars /\ act' = act /\ (cfg' = cfg => ops' = ops)
    BY <1>2 DEF ScheduleCommit
  <2>3. ops' \in 0..MaxOps
    <3>1. cfg' = c BY <2>1 DEF SetConfig
    <3> QED BY <1>0, <2>1, <2>2, <3>1, HappensTyped
  <2> QED BY <1>0, <2>1, <2>2, <2>3, EditInv, LinkStutters DEF IInv
<1>3. CASE UseBegins \/ UseEnds \/ ReviewEnds
  <2>1. ops' \in 0..MaxOps
    BY <1>0, <1>3, HappensTyped DEF UseBegins, UseEnds, ReviewEnds
  <2>2. PICK a \in Acts : /\ ActChanges(a)
                          /\ \/ a = "use"
                             \/ act = "use" /\ engine.seen
                             \/ act = "review" /\ a = "none"
    BY <1>3 DEF UseBegins, UseEnds, ReviewEnds, Acts
  <2>3. EngineInv' BY <1>0, <2>2, ActInv
  <2>4. UNCHANGED micraVars BY <2>2 DEF ActChanges
  <2> QED BY <1>0, <2>1, <2>3, <2>4, LinkStutters DEF IInv
<1>4. CASE TimePasses
  BY <1>0, <1>4, MinuteInv, LinkStutters DEF TimePasses, IInv
<1>5. CASE ClockTrustChanges
  <2>1. ops' \in 0..MaxOps BY <1>0, <1>5, HappensTyped DEF ClockTrustChanges
  <2> QED BY <1>0, <1>5, <2>1, TrustInv, LinkStutters DEF ClockTrustChanges, IInv
<1>6. CASE LinkStep
  BY <1>0, <1>6, EngineStutters, TaskStepInv DEF LinkStep, IInv
<1>7. CASE WatchdogActs \/ MaskRunsOut \/ ReportArrives
  BY <1>0, <1>7, EngineStutters, WorldInv DEF WatchdogActs, MaskRunsOut, ReportArrives, IInv
<1>8. CASE LinkDisturbed
  BY <1>8, DisturbedInv
<1>9. CASE UNCHANGED vars
  BY <1>0, <1>9, EngineStutters, LinkStutters DEF vars, IInv
<1> QED BY <1>1, <1>2, <1>3, <1>4, <1>5, <1>6, <1>7, <1>8, <1>9 DEF Next

(* The latches stand for slots in open windows that were consumed, the two *)
(* counts never run ahead of the rest they measure, and the command the    *)
(* link task works on is the newest unless a newer one waits in the        *)
(* mailbox.                                                                *)
THEOREM ControlInvariant == Spec => []IInv
<1> QED BY InitInv, NextInv, PTL DEF Spec

(* Latches stay slots of the week, the counts stay within the grace and    *)
(* the wait, mailbox and task hold commands there are.                     *)
THEOREM ControlTypeCorrect == Spec => []TypeOK
<1>1. IInv => TypeOK
  BY DEF IInv, EngineInv, LinkInv, TypeOK
<1> QED BY <1>1, ControlInvariant, PTL

(* No failed write, re-dial, stalled request or later command loses the    *)
(* last command posted to the mailbox (micra_link.cpp:313).                *)
THEOREM CommandKept == Spec => []LastCommandIsKept
<1>1. IInv => LastCommandIsKept BY DEF IInv, LinkInv
<1> QED BY <1>1, ControlInvariant, PTL

(* No interleaving of the task, the watchdog and the UI leaves Connected   *)
(* shown over a link the task does not hold, is not about to say the truth *)
(* of, and is not recovering.                                              *)
THEOREM ConnectedHonest == Spec => []ConnectedIsHonest
<1>1. IInv => ConnectedIsHonest BY DEF IInv, LinkInv
<1> QED BY <1>1, ControlInvariant, PTL

-----------------------------------------------------------------------------
(* What a step may not do.                                                 *)

(* Which steps move a latch, and which ask for standby.                    *)
LEMMA OnlyTicks ==
  ASSUME IInv, [Next]_vars, ~ScheduleTick
  PROVE  /\ cfg' = cfg => engine'.on = engine.on /\ engine'.off = engine.off
         /\ owed' # owed => owed' # [cmd |-> "standby", by |-> "schedule"]
<1>0. engine \in Engine BY EngineTypes DEF IInv, EngineInv
<1>1. CASE ScheduleCommit
  <2>1. PICK c \in Configs : SetConfig(c) BY <1>1 DEF ScheduleCommit
  <2>2. UNCHANGED owed BY <1>1 DEF ScheduleCommit, micraVars
  <2> QED BY <2>1, <2>2 DEF SetConfig
<1>2. CASE TimePasses
  <2> DEFINE i == More(engine.idle, Grace)
             a == More(engine.asb, Wait)
  <2>1. engine' = [engine EXCEPT !.idle = i, !.asb = a]
    BY <1>2 DEF TimePasses, Minute
  <2> HIDE DEF i, a
  <2>2. engine'.on = engine.on /\ engine'.off = engine.off
    BY <1>0, <2>1, Zenon DEF Engine
  <2> QED BY <1>2, <2>2 DEF TimePasses, micraVars
<1>3. CASE UseBegins \/ UseEnds \/ ReviewEnds
  BY <1>3 DEF UseBegins, UseEnds, ReviewEnds, ActChanges, micraVars
<1>4. CASE ClockTrustChanges
  BY <1>4 DEF ClockTrustChanges, TrustChanges, micraVars
<1>5. CASE LinkStep
  <2>1. UNCHANGED owed \/ owed' = NothingOwed
    BY <1>5 DEF LinkStep, TaskStep, Top, Swallow, Publish, Unmask, Park, Proceed, DialWaits,
       DialOk, DialFails, VerifyOk, VerifyFails, VerifyRejected, NoticeDrop, TakeCommand,
       Acked, Unacked, Poll
  <2>2. NothingOwed # [cmd |-> "standby", by |-> "schedule"]
    <3>1. NothingOwed.by = "user" BY DEF NothingOwed
    <3> QED BY <3>1
  <2> QED BY <1>5, <2>1, <2>2 DEF LinkStep, engineVars
<1>6. CASE WatchdogActs \/ MaskRunsOut \/ ReportArrives
  BY <1>6 DEF WatchdogActs, RaiseMask, AbortLink, MaskRunsOut, MaskAges, ReportArrives, MachineReports,
     engineVars
<1>7. CASE LinkDisturbed
  <2>1. UNCHANGED owed \/ \E c \in Powers : owed' = [cmd |-> c, by |-> "user"]
    BY <1>7, LinkNames
       DEF LinkDisturbed, TogglePower, Post, SetToken, SetConnectEnabled, SwitchedByHand,
           SeeStall, LinkDrops, MachineReturns
  <2>2. \A c \in Powers : [cmd |-> c, by |-> "user"] # [cmd |-> "standby", by |-> "schedule"]
    <3>1. \A c \in Powers : [cmd |-> c, by |-> "user"].by = "user"
      OBVIOUS
    <3>2. [cmd |-> "standby", by |-> "schedule"].by = "schedule"
      OBVIOUS
    <3>3. "user" # "schedule"
      OBVIOUS
    <3> QED BY <3>1, <3>2, <3>3, Zenon
  <2> QED BY <1>7, <2>1, <2>2 DEF LinkDisturbed, engineVars
<1>8. CASE UNCHANGED vars
  BY <1>8 DEF vars, engineVars, micraVars
<1> QED BY <1>1, <1>2, <1>3, <1>4, <1>5, <1>6, <1>7, <1>8 DEF Next

LEMMA TickFires ==
  ASSUME NEW in, EngineInv, Tick(in)
  PROVE  /\ engine'.on \notin {None, engine.on} => <<"on", engine'.on>> \notin history.fired
         /\ engine'.off \notin {None, engine.off} => <<"off", engine'.off>> \notin history.fired
<1>1. cfg \in Configs /\ engine \in Engine /\ engine' = Ticked(in) /\ EngineTypeOK /\ FiredInv
  BY EngineTypes, TickHistory DEF EngineInv
<1>2. CASE Blind
  BY <1>1, <1>2, QuietTyped DEF Ticked
<1>3. \A s : StillOpen(s) \in {None, s} BY DEF StillOpen
<1>4. ASSUME ~Blind, GraceEnds(in)
      PROVE  engine'.on \in {None, engine.on} /\ engine'.off \in {None, engine.off}
  BY <1>1, <1>3, <1>4, QuietTyped DEF Ticked
<1>5. ASSUME ~Blind, ~GraceEnds(in)
      PROVE  /\ engine'.on \notin {None, engine.on} => <<"on", engine'.on>> \notin history.fired
             /\ engine'.off \notin {None, engine.off} => <<"off", engine'.off>> \notin history.fired
  <2>1. /\ engine'.on = IF TakesOn(in) THEN NextOn(in) ELSE StillOpen(engine.on)
        /\ engine'.off = IF TakesOff(in) THEN NextOff(in) ELSE StillOpen(engine.off)
    BY <1>1, <1>5, SlotsTickTyped DEF Ticked
  <2>2. /\ TakesOn(in) => OnDue(in) # {} /\ NextOn(in) \in 0..Week - 1
        /\ TakesOff(in) => OffDue(in) # {} /\ NextOff(in) \in 0..Week - 1
    BY <1>1, DueTyped
  <2>3. /\ \A d \in OnDue(in), s \in 0..Week - 1 : <<"on", s>> \notin history.fired
        /\ \A d \in OffDue(in), s \in 0..Week - 1 : <<"off", s>> \notin history.fired
    BY <1>1, <1>5, TakesFresh
  <2> QED BY <1>3, <2>1, <2>2, <2>3
<1> QED BY <1>2, <1>4, <1>5

(* No sequence of ticks, dropped links, clock blips and edits consumes a   *)
(* slot a second time in the same window.                                  *)
THEOREM SlotsFireOnce == Spec => SlotFiresOnce
<1> DEFINE Once ==
      cfg' = cfg =>
        /\ engine'.on \notin {None, engine.on} => <<"on", engine'.on>> \notin history.fired
        /\ engine'.off \notin {None, engine.off} => <<"off", engine'.off>> \notin history.fired
<1>1. IInv /\ [Next]_vars => [Once]_vars
  <2> SUFFICES ASSUME IInv, [Next]_vars, cfg' = cfg PROVE Once
    OBVIOUS
  <2>1. CASE ScheduleTick
    BY <2>1, TickFires DEF ScheduleTick, IInv
  <2>2. CASE ~ScheduleTick
    BY <2>2, OnlyTicks
  <2> QED BY <2>1, <2>2
<1> QED BY <1>1, ControlInvariant, PTL DEF Spec, SlotFiresOnce

LEMMA TickPatient ==
  ASSUME NEW in, EngineInv, Tick(in), in.act = act, Result(in) \in {"Standby", "AutoStandby"}
  PROVE  /\ act = "none"
         /\ \/ engine'.off # engine.off
            \/ engine.defer /\ history.still >= Grace
            \/ history.unused >= Wait
<1>1. /\ cfg \in Configs /\ engine \in Engine /\ engine' = Ticked(in)
      /\ EngineTypeOK /\ FiredInv /\ IdleInv /\ CountInv
      /\ history.unused \in 0..Wait /\ history.still \in 0..Grace
  BY EngineTypes, TickHistory DEF EngineInv
<1>2. ASSUME CountEnds(in) PROVE act = "none" /\ history.unused >= Wait
  <2>1. /\ act = "none" /\ CountNow(in) # None /\ CountNow(in) >= Wait
    BY <1>2 DEF CountEnds, Counting, IsIdle
  <2>2. ~engine.seen /\ CountNow(in) = engine.asb
    BY <2>1, Constants, SMT DEF CountNow, InUse
  <2>3. engine.asb \in AsbType /\ engine.asb # None /\ engine.asb >= Wait
    BY <1>1, <2>1, <2>2, EngineFields
  <2>4. history.unused >= engine.asb
    BY <1>1, <2>1, <2>2, <2>3 DEF CountInv
  <2> QED BY <1>1, <2>1, <2>3, <2>4, Constants, SMT DEF AsbType
<1>3. ASSUME GraceEnds(in) PROVE act = "none" /\ engine.defer /\ history.still >= Grace
  <2>1. act = "none" /\ engine.defer /\ engine.idle # None /\ engine.idle >= Grace
    BY <1>3 DEF GraceEnds, IsIdle
  <2>2. history.still >= engine.idle /\ engine.idle \in IdleType
    BY <1>1, <2>1, EngineFields DEF IdleInv
  <2> QED BY <1>1, <2>1, <2>2, Constants, SMT DEF IdleType
<1>4. ASSUME ~Blind, ~GraceEnds(in), StandsBy(in)
      PROVE  act = "none" /\ engine'.off # engine.off
  <2>1. IsOn(in) /\ act = "none" /\ TakesOff(in)
    BY <1>4 DEF StandsBy, IsIdle, TakesOff, TurnsOn
  <2>2. engine'.off = NextOff(in)
    BY <1>1, <1>4, <2>1, SlotsTickTyped DEF Ticked
  <2>3. PICK d \in OffDue(in) : NextOff(in) = Off(d) /\ NextOff(in) \in 0..Week - 1
    BY <1>1, <2>1, DueTyped
  <2>4. Open(Off(d)) /\ Remembered(in).off # Off(d)
    BY DEF OffDue
  <2>5. Remembered(in).off = StillOpen(engine.off)
    BY <1>1, RememberedTyped
  <2>6. Off(d) # None BY <2>3, Constants, SMT
  <2>7. ASSUME engine.off = Off(d) PROVE FALSE
    <3>1. StillOpen(engine.off) = Off(d) BY <2>4, <2>6, <2>7 DEF StillOpen
    <3> QED BY <2>4, <2>5, <3>1
  <2> QED BY <2>1, <2>2, <2>3, <2>7
<1>5. AutoResult(in) \in {"Standby", "AutoStandby"} => CountEnds(in)
  BY DEF AutoResult
<1>6. CASE Blind
  BY <1>2, <1>5, <1>6 DEF Result
<1>7. CASE ~Blind /\ ~GraceEnds(in)
  BY <1>2, <1>4, <1>5, <1>7 DEF Result, SlotResult
<1>8. CASE ~Blind /\ GraceEnds(in)
  BY <1>3, <1>8
<1> QED BY <1>6, <1>7, <1>8

(* Standby is asked for only at rest, and then at an OFF time or after the *)
(* full grace or wait: the counts never measure more rest than there was.  *)
THEOREM StandbyPatient == Spec => StandbyIsPatient
<1> DEFINE Patient ==
      owed' # owed /\ owed' = [cmd |-> "standby", by |-> "schedule"] =>
        /\ act = "none"
        /\ \/ engine'.off # engine.off
           \/ engine.defer /\ history.still >= Grace
           \/ history.unused >= Wait
<1>1. IInv /\ [Next]_vars => [Patient]_vars
  <2> SUFFICES ASSUME IInv, [Next]_vars, owed' # owed,
                      owed' = [cmd |-> "standby", by |-> "schedule"]
               PROVE  /\ act = "none"
                      /\ \/ engine'.off # engine.off
                         \/ engine.defer /\ history.still >= Grace
                         \/ history.unused >= Wait
    OBVIOUS
  <2>1. ScheduleTick BY OnlyTicks
  <2>2. Tick(Inputs) /\ Obey(Result(Inputs)) /\ Inputs.act = act
    BY <2>1 DEF ScheduleTick, Inputs
  <2>3. Result(Inputs) \in {"Standby", "AutoStandby"}
    <3>1. CASE Result(Inputs) = "TurnOn"
      <4>1. owed' = [cmd |-> "on", by |-> "schedule"]
        BY <2>2, <3>1 DEF Obey, Post
      <4>2. owed'.cmd = "on" BY <4>1
      <4>3. owed'.cmd = "standby" OBVIOUS
      <4> QED BY <4>2, <4>3
    <3>2. CASE Result(Inputs) \notin {"TurnOn", "Standby", "AutoStandby"}
      BY <2>2, <3>2 DEF Obey, micraVars
    <3> QED BY <3>1, <3>2
  <2> QED BY <2>2, <2>3, TickPatient DEF IInv
<1> QED BY <1>1, ControlInvariant, PTL DEF Spec, StandbyIsPatient

=============================================================================
