------------------------ MODULE BrewControllerProof ------------------------
(***************************************************************************)
(* Proofs about BrewController: who holds the machine's line closed, for   *)
(* any rig, any breaker limits, any filter depth and any number of pulses. *)
(***************************************************************************)
EXTENDS BrewController, TLAPS

USE PaddleAssumption, StableAssumption, LimitsAssumption
USE DEF Modes, Phases, Stages

(* A level is adopted before it is believed: an ON is never a first value. *)
SeenFirst == paddle.on => paddle.seen

(* Nothing but poll_clean runs while a cycle does, and none runs tripped.  *)
CleanAlone == clean.mode # "Off" => stage = "between" /\ ~paddle.tripped

(* A pulse belongs to a backflush, which still counts.                     *)
PulsesCounted ==
  /\ clean.on => clean.mode = "Backflush"
  /\ clean.mode = "Backflush" => ~clean.done /\ (clean.on \/ clean.cycle < Cycles)

(* A flush gives way to a shot at the end of the poll that began it; while *)
(* one runs its shot cannot already be over.                               *)
FlushYields ==
  /\ flush.state # "Off" /\ stage \in {"between", "sense"} => ~ShotInFlight
  /\ flush.state = "Running" => /\ stage = "brew" => ~ShotInFlight
                                /\ stage = "settle" => shot.phase # "Settling"

OwnerInv ==
  /\ LineOpenWhenTripped /\ LineHasOwner /\ CleaningOwnsLine /\ DoneMeansComplete
  /\ SeenFirst /\ CleanAlone /\ PulsesCounted

IInv == TypeOK /\ OwnerInv /\ FlushYields

-----------------------------------------------------------------------------
(* The sense filter.                                                       *)

LEMMA NotedType ==
  ASSUME NEW limit \in Nat \ {0}, NEW count \in 0..limit, NEW fresh \in BOOLEAN
  PROVE  Noted(count, fresh, limit) \in 0..limit
BY DEF Noted

LEMMA FilteredType ==
  ASSUME paddle \in Paddle, NEW raw \in BOOLEAN
  PROVE  /\ Filtered(raw) \in Paddle
         /\ Filtered(raw).on = paddle.on /\ Filtered(raw).seen = paddle.seen
         /\ Filtered(raw).tripped = paddle.tripped
<1>1. CASE raw # paddle.cand
  <2>1. Filtered(raw) = [paddle EXCEPT !.cand = raw, !.stable = 1] /\ 1 \in 0..StablePolls
    BY <1>1 DEF Filtered
  <2>2. QED
    BY <2>1, Zenon DEF Paddle
<1>2. CASE raw = paddle.cand
  <2> DEFINE depth == IF paddle.stable < StablePolls THEN paddle.stable + 1 ELSE paddle.stable
  <2>1. Filtered(raw) = [paddle EXCEPT !.stable = depth]
    BY <1>2 DEF Filtered
  <2>2. depth \in 0..StablePolls
    BY DEF Paddle
  <2> HIDE DEF depth
  <2>3. QED
    BY <2>1, <2>2, Zenon DEF Paddle
<1>3. QED
  BY <1>1, <1>2

(* What a call of sense_paddle_edge can answer, and what it leaves behind. *)
LEMMA SensedFacts ==
  ASSUME paddle \in Paddle, SeenFirst,
         NEW raw \in BOOLEAN, NEW brief \in BOOLEAN, NEW fresh \in BOOLEAN,
         NEW r, r = Sensed(raw, brief, fresh)
  PROVE  /\ r.next \in Paddle /\ (r.next.on => r.next.seen)
         /\ r.edge \in {"none", "on", "off"}
         /\ ~r.trips => r.next.tripped = paddle.tripped
         /\ r.edge # "none" => flush.state # "Running"
         /\ r.edge = "on" => ~paddle.tripped /\ paddle.seen /\ ~paddle.on /\ r.next.on
         /\ r.edge = "off" => ~paddle.tripped /\ paddle.on /\ ~r.next.on
         /\ r.edge = "none" /\ ~r.trips /\ ~paddle.tripped /\ flush.state # "Running"
              => (paddle.on => r.next.on)
<1> DEFINE f == Filtered(raw)
           accepted == f.stable >= StablePolls
           flips    == paddle.seen /\ accepted /\ f.cand # paddle.on
           rejected == paddle.seen /\ raw # paddle.cand /\ paddle.stable < StablePolls
           short    == flips /\ ~f.cand /\ paddle.edged /\ brief
           rejects  == IF rejected THEN Noted(paddle.rejects, fresh, RejectTrip)
                                   ELSE paddle.rejects
           shorts   == IF short THEN Noted(paddle.shorts, fresh, ShortTrip)
                                ELSE paddle.shorts
           trips    == /\ ~paddle.tripped
                       /\ \/ rejected /\ rejects >= RejectTrip
                          \/ short /\ shorts >= ShortTrip
           next     == [f EXCEPT !.on = IF accepted THEN f.cand ELSE @,
                          !.seen = @ \/ accepted, !.edged = @ \/ flips,
                          !.rejects = rejects, !.shorts = shorts,
                          !.tripped = @ \/ trips, !.owned = @ /\ ~trips]
           edge     == IF ~flips \/ paddle.tripped \/ trips \/ flush.state = "Running"
                       THEN "none" ELSE IF f.cand THEN "on" ELSE "off"
<1>1. r = [next |-> next, edge |-> edge, trips |-> trips]
  BY DEF Sensed
<1>2. f \in Paddle /\ f.on = paddle.on /\ f.seen = paddle.seen /\ f.tripped = paddle.tripped
  BY FilteredType
<1>3. rejects \in 0..RejectTrip /\ shorts \in 0..ShortTrip
  BY NotedType DEF Paddle
<1> HIDE DEF f, rejects, shorts
<1>4. next \in Paddle
  <2>1. /\ f.cand \in BOOLEAN /\ f.stable \in 0..StablePolls /\ f.edged \in BOOLEAN
        /\ f.owned \in BOOLEAN /\ f.on \in BOOLEAN /\ f.seen \in BOOLEAN
        /\ f.tripped \in BOOLEAN
    BY <1>2 DEF Paddle
  <2> DEFINE o == IF accepted THEN f.cand ELSE f.on
             s == f.seen \/ accepted
             e == f.edged \/ flips
             t == f.tripped \/ trips
             w == f.owned /\ ~trips
             g == [f EXCEPT !.on = o, !.seen = s, !.edged = e, !.rejects = rejects,
                            !.shorts = shorts, !.tripped = t, !.owned = w]
  <2>2. o \in BOOLEAN /\ s \in BOOLEAN /\ e \in BOOLEAN /\ t \in BOOLEAN /\ w \in BOOLEAN
    BY <2>1
  <2>3. next = g
    OBVIOUS
  <2> HIDE DEF next, o, s, e, t, w
  <2>4. ASSUME NEW a \in Paddle, NEW j \in 0..RejectTrip, NEW h \in 0..ShortTrip
        PROVE  [a EXCEPT !.on = o, !.seen = s, !.edged = e, !.rejects = j,
                         !.shorts = h, !.tripped = t, !.owned = w] \in Paddle
    BY <2>2, Zenon DEF Paddle
  <2>5. g \in Paddle
    BY <1>2, <1>3, <2>4, Zenon
  <2> HIDE DEF g
  <2>6. QED
    BY <2>3, <2>5
<1>5. /\ next.on = (IF accepted THEN f.cand ELSE paddle.on)
      /\ next.seen = (paddle.seen \/ accepted)
      /\ next.tripped = (paddle.tripped \/ trips)
  BY <1>2 DEF Paddle
<1>6. next.on => next.seen
  BY <1>5 DEF SeenFirst
<1>7. /\ edge = "on" => ~paddle.tripped /\ paddle.seen /\ ~paddle.on /\ next.on
      /\ edge = "off" => ~paddle.tripped /\ paddle.on /\ ~next.on
      /\ edge # "none" => flush.state # "Running"
  BY <1>2, <1>5 DEF Paddle
<1>8. edge = "none" /\ ~trips /\ ~paddle.tripped /\ flush.state # "Running"
        => (paddle.on => next.on)
  BY <1>2, <1>5 DEF SeenFirst, Paddle
<1>10. ~trips => next.tripped = paddle.tripped
  BY <1>5 DEF Paddle
<1> HIDE DEF next, trips, accepted, flips
<1>9. edge \in {"none", "on", "off"}
  OBVIOUS
<1> HIDE DEF edge
<1>11. r.next = next /\ r.edge = edge /\ r.trips = trips
  BY <1>1
<1>12. QED
  BY <1>4, <1>6, <1>7, <1>8, <1>9, <1>10, <1>11

LEMMA EdgeFacts ==
  ASSUME paddle \in Paddle, SeenFirst, NEW edge, Edge(edge)
  PROVE  /\ paddle' \in Paddle /\ SeenFirst' /\ paddle'.tripped = paddle.tripped
         /\ edge # "none" => flush.state # "Running"
         /\ edge = "on" => ~paddle.tripped /\ paddle.seen /\ ~paddle.on /\ paddle'.on
         /\ edge = "off" => ~paddle.tripped /\ paddle.on /\ ~paddle'.on
         /\ edge = "none" /\ ~paddle.tripped /\ flush.state # "Running"
              => (paddle.on => paddle'.on)
<1>1. PICK raw \in BOOLEAN, brief \in BOOLEAN, fresh \in BOOLEAN :
         LET r == Sensed(raw, brief, fresh) IN
         ~r.trips /\ r.edge = edge /\ paddle' = r.next
  BY DEF Edge
<1> DEFINE r == Sensed(raw, brief, fresh)
<1>2. ~r.trips /\ r.edge = edge /\ paddle' = r.next
  BY <1>1
<1>3. /\ r.next \in Paddle /\ (r.next.on => r.next.seen)
      /\ ~r.trips => r.next.tripped = paddle.tripped
      /\ r.edge # "none" => flush.state # "Running"
      /\ r.edge = "on" => ~paddle.tripped /\ paddle.seen /\ ~paddle.on /\ r.next.on
      /\ r.edge = "off" => ~paddle.tripped /\ paddle.on /\ ~r.next.on
      /\ r.edge = "none" /\ ~r.trips /\ ~paddle.tripped /\ flush.state # "Running"
           => (paddle.on => r.next.on)
  BY SensedFacts
<1> HIDE DEF r
<1>4. QED
  BY <1>2, <1>3 DEF SeenFirst

LEMMA NoEdgeFacts ==
  ASSUME paddle \in Paddle, SeenFirst, NoEdge
  PROVE  /\ paddle' \in Paddle /\ SeenFirst' /\ paddle'.tripped = paddle.tripped
         /\ ~paddle.tripped /\ flush.state # "Running" => (paddle.on => paddle'.on)
BY EdgeFacts DEF NoEdge, SeenFirst

LEMMA TripFacts ==
  ASSUME paddle \in Paddle, SeenFirst, Trip
  PROVE  paddle' \in Paddle /\ SeenFirst' /\ CancelShot
<1>1. PICK raw \in BOOLEAN, brief \in BOOLEAN, fresh \in BOOLEAN :
         paddle' = Sensed(raw, brief, fresh).next
  BY DEF Trip
<1>2. Sensed(raw, brief, fresh).next \in Paddle
      /\ (Sensed(raw, brief, fresh).next.on => Sensed(raw, brief, fresh).next.seen)
  BY SensedFacts
<1>3. QED
  BY <1>1, <1>2 DEF Trip, SeenFirst

-----------------------------------------------------------------------------
(* What the helpers do to the records.                                     *)

LEMMA EndShotType ==
  ASSUME NEW sh \in Shot, NEW long \in BOOLEAN
  PROVE  EndShot(sh, long) \in Shot
<1>1. [sh EXCEPT !.stop_hint = FALSE, !.phase = "Settling"] \in Shot
  BY Zenon DEF Shot
<1>2. [sh EXCEPT !.stop_hint = FALSE, !.phase = "Idle", !.timer = "reset"] \in Shot
  BY Zenon DEF Shot
<1>3. QED
  BY <1>1, <1>2, Zenon DEF EndShot

LEMMA StoppedType ==
  ASSUME NEW sh \in Shot
  PROVE  Stopped(sh.timer) \in {"reset", "running", "stopped"}
BY DEF Shot, Stopped

LEMMA HintedType ==
  ASSUME shot \in Shot, NEW latch \in BOOLEAN
  PROVE  Hinted(latch) \in Shot
<1> DEFINE hint  == shot.stop_hint \/ latch
           fired == shot.hint_fired \/ (latch /\ ~shot.stop_hint)
<1>1. hint \in BOOLEAN /\ fired \in BOOLEAN
  BY DEF Shot
<1>2. Hinted(latch) = [shot EXCEPT !.stop_hint = hint, !.hint_fired = fired]
  BY DEF Hinted
<1> HIDE DEF hint, fired
<1>3. [shot EXCEPT !.stop_hint = hint, !.hint_fired = fired] \in Shot
  BY <1>1, Zenon DEF Shot
<1> DEFINE new == [shot EXCEPT !.stop_hint = hint, !.hint_fired = fired]
<1>4. new \in Shot /\ Hinted(latch) = new
  BY <1>2, <1>3
<1> HIDE DEF new
<1>5. QED
  BY <1>4

LEMMA CleanOffFacts ==
  ASSUME clean \in Clean
  PROVE  /\ CleanOff \in Clean
         /\ CleanOff.mode = "Off" /\ CleanOff.on = FALSE
         /\ CleanOff.cycle = clean.cycle /\ CleanOff.done = clean.done
<1>1. CleanOff \in Clean
  BY Zenon DEF CleanOff, Clean
<1>2. QED
  BY <1>1 DEF CleanOff, Clean

LEMMA FlushOffFacts ==
  ASSUME flush \in Flush
  PROVE  FlushOff \in Flush /\ FlushOff.state = "Off"
BY DEF FlushOff, Flush

LEMMA ForgetsFacts ==
  ASSUME TypeOK, Forgets
  PROVE  /\ shot' \in Shot /\ shot'.phase = "Idle"
         /\ flush' \in Flush /\ flush'.state = "Off"
         /\ detector' = "idle"
<1>1. [shot EXCEPT !.phase = "Idle", !.timer = "reset", !.stop_hint = FALSE,
                   !.hint_fired = FALSE] \in Shot
  BY Zenon DEF TypeOK, Shot
<1>2. [shot EXCEPT !.phase = "Idle", !.timer = "reset", !.stop_hint = FALSE,
                   !.hint_fired = FALSE].phase = "Idle"
  BY DEF TypeOK, Shot
<1>3. QED
  BY <1>1, <1>2, FlushOffFacts DEF Forgets, TypeOK

LEMMA CancelFlushFacts ==
  ASSUME TypeOK, CancelFlush
  PROVE  /\ flush' \in Flush /\ flush'.state = "Off"
         /\ driving' \in BOOLEAN
         /\ driving' => driving /\ flush.state # "Running"
BY FlushOffFacts DEF CancelFlush, TypeOK

-----------------------------------------------------------------------------
(* The shapes a step has.                                                  *)

(* Everything ends and the line opens, whoever asked for it.               *)
LEMMA CancelStep ==
  ASSUME IInv, CancelShot, paddle' \in Paddle, SeenFirst', settings' \in Settings,
         stage' \in Stages, ops' \in 0..MaxOps
  PROVE  IInv'
<1>1. /\ shot' \in Shot /\ flush' \in Flush /\ flush'.state = "Off" /\ detector' = "idle"
  BY ForgetsFacts DEF CancelShot, IInv
<1>2. /\ clean' = CleanOff /\ driving' = FALSE
  BY DEF CancelShot, EndClean
<1>3. /\ clean' \in Clean /\ clean'.mode = "Off" /\ clean'.on = FALSE
      /\ clean'.cycle = clean.cycle /\ clean'.done = clean.done
  BY <1>2, CleanOffFacts DEF IInv, TypeOK
<1>4. TypeOK'
  BY <1>1, <1>2, <1>3 DEF TypeOK
<1>5. OwnerInv'
  BY <1>2, <1>3 DEF IInv, OwnerInv, LineOpenWhenTripped, LineHasOwner, CleaningOwnsLine,
                    DoneMeansComplete, SeenFirst, CleanAlone, PulsesCounted
<1>6. FlushYields'
  BY <1>1 DEF FlushYields
<1>7. QED
  BY <1>4, <1>5, <1>6 DEF IInv

(* The paddle stage: an edge, or none, obeyed or refused.                  *)
LEMMA RelaysStep ==
  ASSUME IInv, AtSense, NEW line \in BOOLEAN, NEW sh \in Shot, Relays(line, sh),
         flush.state = "Running" => sh = shot,
         paddle' \in Paddle, SeenFirst', paddle'.tripped = paddle.tripped,
         line => ~paddle.tripped /\ (paddle'.on \/ flush.state = "Running")
  PROVE  IInv'
<1>1. TypeOK'
  BY DEF IInv, TypeOK, Relays
<1>2. clean.mode = "Off" /\ clean' = clean /\ stage \in {"between", "sense"}
  BY DEF AtSense, Relays
<1>3. OwnerInv'
  BY <1>2 DEF Relays, IInv, OwnerInv, LineOpenWhenTripped, LineHasOwner, CleaningOwnsLine,
              DoneMeansComplete, SeenFirst, CleanAlone, PulsesCounted
<1>4. FlushYields'
  BY <1>2 DEF Relays, IInv, FlushYields, ShotInFlight
<1>5. QED
  BY <1>1, <1>3, <1>4 DEF IInv

(* The shot stage may open the line, never close it.                       *)
LEMMA FollowsStep ==
  ASSUME IInv, stage = "brew", NEW line \in BOOLEAN, NEW sh \in Shot, Follows(line, sh),
         line => driving, detector' \in {"idle", "active"},
         shot.phase = "Brewing" \/ sh = shot \/ sh.phase = "Brewing"
  PROVE  IInv'
<1>1. clean.mode = "Off"
  BY DEF IInv, OwnerInv, CleanAlone
<1>2. TypeOK'
  BY DEF IInv, TypeOK, Follows
<1>3. OwnerInv'
  BY <1>1 DEF Follows, IInv, OwnerInv, LineOpenWhenTripped, LineHasOwner, CleaningOwnsLine,
              DoneMeansComplete, SeenFirst, CleanAlone, PulsesCounted
<1>4. FlushYields'
  <2>1. stage' = "settle" /\ shot' = sh /\ flush' = flush
    BY DEF Follows
  <2>2. flush.state = "Running" => sh.phase # "Settling"
    BY DEF IInv, FlushYields, ShotInFlight
  <2>3. QED
    BY <2>1, <2>2 DEF FlushYields
<1>5. QED
  BY <1>2, <1>3, <1>4 DEF IInv

(* The settle stage keeps the line, and does not end a running flush.      *)
LEMMA RestsStep ==
  ASSUME IInv, NEW phase \in Phases, Rests(phase), flush' \in Flush,
         flush.state = "Running" => flush'.state = "Running"
  PROVE  IInv'
<1>1. clean.mode = "Off" /\ shot' = [shot EXCEPT !.phase = phase]
  BY DEF IInv, OwnerInv, CleanAlone, Rests
<1>2. [shot EXCEPT !.phase = phase] \in Shot
  BY Zenon DEF IInv, TypeOK, Shot
<1>3. TypeOK'
  BY <1>1, <1>2 DEF IInv, TypeOK, Rests
<1>4. OwnerInv'
  BY <1>1 DEF Rests, IInv, OwnerInv, LineOpenWhenTripped, LineHasOwner, CleaningOwnsLine,
              DoneMeansComplete, SeenFirst, CleanAlone, PulsesCounted
<1>5. FlushYields'
  BY DEF Rests, FlushYields
<1>6. QED
  BY <1>3, <1>4, <1>5 DEF IInv

(* The last stage: a closed line is the user's or the running flush's.     *)
LEMMA PollEndsStep ==
  ASSUME IInv, PollEnds, flush' \in Flush, driving' \in BOOLEAN,
         flush'.state # "Off" => ~ShotInFlight,
         driving' => ~paddle.tripped /\ (paddle.on \/ flush'.state = "Running")
  PROVE  IInv'
<1>1. clean.mode = "Off"
  BY DEF IInv, OwnerInv, CleanAlone, PollEnds
<1>2. TypeOK'
  BY DEF IInv, TypeOK, PollEnds
<1>3. OwnerInv'
  BY <1>1 DEF PollEnds, IInv, OwnerInv, LineOpenWhenTripped, LineHasOwner, CleaningOwnsLine,
              DoneMeansComplete, SeenFirst, CleanAlone, PulsesCounted
<1>4. FlushYields'
  BY DEF PollEnds, FlushYields, ShotInFlight
<1>5. QED
  BY <1>2, <1>3, <1>4 DEF IInv

-----------------------------------------------------------------------------
(* The stages of a poll.                                                   *)

LEMMA HeldLine ==
  ASSUME IInv, clean.mode = "Off", driving
  PROVE  ~paddle.tripped /\ (paddle.on \/ flush.state = "Running")
BY DEF IInv, OwnerInv, LineOpenWhenTripped, LineHasOwner, PulsesCounted

(* Not refused, an ON closes the line: no edge comes out of a tripped      *)
(* breaker.                                                                *)
LEMMA DriveOn ==
  ASSUME ~paddle.tripped
  PROVE  Drive(TRUE) = TRUE
BY DEF Drive

LEMMA PaddleInv == IInv /\ PollPaddle => IInv'
<1> SUFFICES ASSUME IInv, PollPaddle PROVE IInv'
  OBVIOUS
<1>1. paddle \in Paddle /\ SeenFirst /\ shot \in Shot /\ driving \in BOOLEAN
  BY DEF IInv, TypeOK, OwnerInv
<1>2. [shot EXCEPT !.timer = "running"] \in Shot
  BY <1>1, Zenon DEF Shot
<1>3. CASE PaddleQuiet
  <2>1. paddle' \in Paddle /\ SeenFirst' /\ paddle'.tripped = paddle.tripped
        /\ (~paddle.tripped /\ flush.state # "Running" => (paddle.on => paddle'.on))
    BY <1>1, <1>3, NoEdgeFacts DEF PaddleQuiet, SeenFirst
  <2>2. AtSense /\ clean.mode = "Off" /\ Relays(driving, shot)
    BY <1>3 DEF PaddleQuiet, AtSense
  <2>3. QED
    BY <1>1, <2>1, <2>2, HeldLine, RelaysStep
<1>4. CASE PaddleTrips
  <2>1. paddle' \in Paddle /\ SeenFirst' /\ CancelShot
    BY <1>1, <1>4, TripFacts DEF PaddleTrips
  <2>2. settings' \in Settings /\ stage' \in Stages /\ ops' \in 0..MaxOps
    BY <1>4 DEF PaddleTrips, IInv, TypeOK
  <2>3. QED
    BY <2>1, <2>2, CancelStep
<1>5. ASSUME NEW line \in BOOLEAN, NEW sh \in Shot, Relays(line, sh), AtSense,
             Edge("on"), line => line = driving \/ line = Drive(TRUE)
      PROVE  IInv'
  <2>1. /\ paddle' \in Paddle /\ SeenFirst' /\ paddle'.tripped = paddle.tripped
        /\ ~paddle.tripped /\ paddle'.on /\ flush.state # "Running"
    BY <1>1, <1>5, EdgeFacts
  <2>2. QED
    BY <1>5, <2>1, RelaysStep
<1>6. ASSUME NEW sh \in Shot, Relays(FALSE, sh), AtSense, Edge("off")
      PROVE  IInv'
  <2>1. /\ paddle' \in Paddle /\ SeenFirst' /\ paddle'.tripped = paddle.tripped
        /\ flush.state # "Running"
    BY <1>1, <1>6, EdgeFacts
  <2>2. QED
    BY <1>6, <2>1, RelaysStep
<1>7. CASE OnRefused \/ PassRefused
  <2>1. Relays(driving, shot) /\ AtSense /\ Edge("on")
    BY <1>7 DEF OnRefused, PassRefused, WiredEdge, PassEdge
  <2>2. QED
    BY <1>1, <1>5, <2>1
<1>8. ASSUME NEW sh \in Shot, Relays(Drive(TRUE), sh), AtSense, Edge("on")
      PROVE  IInv'
  <2>1. ~paddle.tripped
    BY <1>1, <1>8, EdgeFacts
  <2>2. Relays(TRUE, sh)
    BY <1>8, <2>1, DriveOn
  <2>3. QED
    BY <1>5, <1>8, <2>1, <2>2, DriveOn
<1>9. CASE OnWakes
  BY <1>1, <1>8, <1>9 DEF OnWakes, WiredEdge
<1>10. CASE OnRuns
  BY <1>2, <1>8, <1>10 DEF OnRuns, WiredEdge
<1>11. CASE OnBrews
  <2>1. PICK tared \in BOOLEAN :
          Relays(Drive(TRUE),
                 [shot EXCEPT !.timer = "running", !.phase = "Brewing", !.baseline = tared,
                              !.auto_stopped = FALSE, !.hint_fired = FALSE, !.blind = FALSE])
    BY <1>11 DEF OnBrews
  <2>2. [shot EXCEPT !.timer = "running", !.phase = "Brewing", !.baseline = tared,
                     !.auto_stopped = FALSE, !.hint_fired = FALSE, !.blind = FALSE] \in Shot
    BY <1>1, Zenon DEF Shot
  <2>3. QED
    BY <1>8, <1>11, <2>1, <2>2 DEF OnBrews, WiredEdge
<1>12. CASE OffCuts
  <2> DEFINE stopped == [shot EXCEPT !.timer = Stopped(@)]
  <2>1. stopped \in Shot
    BY <1>1, StoppedType, Zenon DEF Shot
  <2>2. PICK long \in BOOLEAN :
          Relays(FALSE, IF shot.phase = "Brewing" THEN EndShot(stopped, long) ELSE stopped)
    BY <1>12 DEF OffCuts
  <2> DEFINE sh == IF shot.phase = "Brewing" THEN EndShot(stopped, long) ELSE stopped
  <2> HIDE DEF stopped
  <2>3. sh \in Shot
    BY <2>1, EndShotType
  <2>4. Relays(FALSE, sh) /\ AtSense /\ Edge("off")
    BY <1>12, <2>2 DEF OffCuts, WiredEdge
  <2> HIDE DEF sh
  <2>5. QED
    BY <1>6, <2>3, <2>4
<1>13. CASE PassOn
  <2> DEFINE phase == IF shot.phase = "Review" THEN "Idle" ELSE shot.phase
             sh    == [shot EXCEPT !.phase = phase]
  <2>1. phase \in Phases
    BY <1>1 DEF Shot
  <2>2. Relays(Drive(TRUE), sh) /\ AtSense /\ Edge("on")
    BY <1>13 DEF PassOn, PassEdge
  <2> HIDE DEF phase
  <2>3. sh \in Shot
    BY <1>1, <2>1, Zenon DEF Shot
  <2> HIDE DEF sh
  <2>4. QED
    BY <1>8, <2>2, <2>3
<1>14. CASE PassOff
  BY <1>1, <1>6, <1>14 DEF PassOff, PassEdge
<1>15. QED
  BY <1>3, <1>4, <1>7, <1>9, <1>10, <1>11, <1>12, <1>13, <1>14 DEF PollPaddle

LEMMA ShotInv == IInv /\ PollShot => IInv'
<1> SUFFICES ASSUME IInv, PollShot PROVE IInv'
  OBVIOUS
<1>1. shot \in Shot /\ driving \in BOOLEAN /\ detector \in {"idle", "active"}
  BY DEF IInv, TypeOK
<1>2. ASSUME NEW line \in BOOLEAN, NEW sh \in Shot, BrewStep(line, sh), line => driving,
             shot.phase = "Brewing" \/ sh = shot \/ sh.phase = "Brewing"
      PROVE  IInv'
  BY <1>1, <1>2, FollowsStep DEF BrewStep
<1>3. ASSUME NEW sh \in Shot, AtDetect, Follows(driving, sh), detector' \in {detector, "idle", "active"},
             shot.phase = "Brewing" \/ sh = shot \/ sh.phase = "Brewing"
      PROVE  IInv'
  BY <1>1, <1>3, FollowsStep DEF AtDetect
<1>4. CASE NothingBrews
  BY <1>1, <1>2, <1>4 DEF NothingBrews
<1>5. CASE FliesBlind
  <2>1. [shot EXCEPT !.blind = TRUE] \in Shot
    BY <1>1, Zenon DEF Shot
  <2>2. QED
    BY <1>1, <1>2, <1>5, <2>1 DEF FliesBlind
<1>6. CASE BlindTooLong
  <2>1. [shot EXCEPT !.phase = "Idle", !.timer = Stopped(@), !.blind = FALSE] \in Shot
    BY <1>1, StoppedType, Zenon DEF Shot
  <2>2. QED
    BY <1>1, <1>2, <1>6, <2>1 DEF BlindTooLong
<1>7. CASE Pours
  <2>1. PICK confirmed \in BOOLEAN :
          BrewStep(driving, [shot EXCEPT !.blind = FALSE, !.baseline = @ \/ confirmed])
    BY <1>7 DEF Pours
  <2> DEFINE baseline == shot.baseline \/ confirmed
             sh == [shot EXCEPT !.blind = FALSE, !.baseline = baseline]
  <2>2. baseline \in BOOLEAN
    BY <1>1 DEF Shot
  <2>3. BrewStep(driving, sh) /\ shot.phase = "Brewing"
    BY <1>7, <2>1 DEF Pours
  <2> HIDE DEF baseline
  <2>4. sh \in Shot
    BY <1>1, <2>2, Zenon DEF Shot
  <2> HIDE DEF sh
  <2>5. QED
    BY <1>1, <1>2, <2>3, <2>4
<1>8. CASE TargetReached
  <2> DEFINE sh == [shot EXCEPT !.blind = FALSE, !.timer = Stopped(@), !.auto_stopped = TRUE]
  <2>1. PICK long \in BOOLEAN : BrewStep(FALSE, EndShot(sh, long))
    BY <1>8 DEF TargetReached
  <2>2. sh \in Shot
    BY <1>1, StoppedType, Zenon DEF Shot
  <2> HIDE DEF sh
  <2>3. shot.phase = "Brewing"
    BY <1>8 DEF TargetReached
  <2>4. QED
    BY <1>2, <2>1, <2>2, <2>3, EndShotType
<1>9. CASE DetectorParked
  BY <1>1, <1>3, <1>9 DEF DetectorParked
<1>10. CASE DetectorWatches
  BY <1>1, <1>3, <1>10 DEF DetectorWatches
<1>11. CASE Detected
  <2>1. Started \in Shot
    BY <1>1, Zenon DEF Started, Shot
  <2>2. Started.phase = "Brewing"
    BY <1>1 DEF Started, Shot
  <2>3. QED
    BY <1>3, <1>11, <2>1, <2>2 DEF Detected
<1>12. CASE DetectedPours
  BY <1>1, <1>3, <1>12, HintedType DEF DetectedPours
<1>13. CASE DetectedEnds
  <2>1. PICK latch \in BOOLEAN, espresso \in BOOLEAN, long \in BOOLEAN :
          Follows(driving, EndShot([Hinted(latch) EXCEPT !.timer = Stopped(@)],
                                   espresso /\ long))
    BY <1>13 DEF DetectedEnds
  <2> DEFINE sh    == [Hinted(latch) EXCEPT !.timer = Stopped(@)]
             whole == espresso /\ long
  <2>2. sh \in Shot
    <3>1. ASSUME NEW hinted \in Shot
          PROVE  [hinted EXCEPT !.timer = Stopped(@)] \in Shot
      BY StoppedType, Zenon DEF Shot
    <3>2. QED
      BY <1>1, <3>1, HintedType, Zenon
  <2>3. Follows(driving, EndShot(sh, whole)) /\ whole \in BOOLEAN
    BY <2>1
  <2> HIDE DEF sh, whole
  <2>4. QED
    BY <1>3, <1>13, <2>2, <2>3, EndShotType DEF DetectedEnds
<1>14. CASE DetectedAborts
  <2>1. PICK latch \in BOOLEAN :
          Follows(driving, [Hinted(latch) EXCEPT !.phase = "Idle", !.timer = "reset",
                                                 !.stop_hint = FALSE])
    BY <1>14 DEF DetectedAborts
  <2> DEFINE sh == [Hinted(latch) EXCEPT !.phase = "Idle", !.timer = "reset",
                                         !.stop_hint = FALSE]
  <2>2. sh \in Shot
    <3>1. ASSUME NEW hinted \in Shot
          PROVE  [hinted EXCEPT !.phase = "Idle", !.timer = "reset",
                                !.stop_hint = FALSE] \in Shot
      BY Zenon DEF Shot
    <3>2. QED
      BY <1>1, <3>1, HintedType, Zenon
  <2>3. Follows(driving, sh)
    BY <2>1
  <2> HIDE DEF sh
  <2>4. QED
    BY <1>3, <1>14, <2>2, <2>3 DEF DetectedAborts
<1>15. QED
  BY <1>4, <1>5, <1>6, <1>7, <1>8, <1>9, <1>10, <1>11, <1>12, <1>13, <1>14 DEF PollShot

LEMMA SettleInv == IInv /\ PollSettle => IInv'
<1> SUFFICES ASSUME IInv, PollSettle PROVE IInv'
  OBVIOUS
<1>1. flush \in Flush /\ shot.phase \in Phases /\ paddle.on \in BOOLEAN
  BY DEF IInv, TypeOK, Shot, Paddle
<1>2. CASE SettleWaits
  BY <1>1, <1>2, RestsStep DEF SettleWaits
<1>3. CASE SettleGoesDark
  BY <1>1, <1>3, RestsStep DEF SettleGoesDark
<1>4. CASE Settles
  <2>1. CASE flush' = flush
    BY <1>1, <1>4, <2>1, RestsStep DEF Settles
  <2>2. CASE flush' = [state |-> "Armed", ref |-> paddle.on]
    <3>1. stage = "settle" /\ clean.mode = "Off"
      BY <1>4 DEF Settles, Rests, IInv, OwnerInv, CleanAlone
    <3>2. flush' \in Flush
      BY <1>1, <2>2 DEF Flush
    <3>3. CASE flush.state # "Running"
      BY <1>4, <3>2, <3>3, RestsStep DEF Settles
    <3>4. CASE flush.state = "Running"
      BY <1>4, <3>1, <3>4 DEF Settles, Settled, IInv, FlushYields
    <3>5. QED
      BY <3>3, <3>4
  <2>3. QED
    BY <1>4, <2>1, <2>2 DEF Settles
<1>5. CASE ReviewTimesOut
  BY <1>1, <1>5, RestsStep DEF ReviewTimesOut
<1>6. QED
  BY <1>2, <1>3, <1>4, <1>5 DEF PollSettle

LEMMA FlushInv == IInv /\ PollFlush => IInv'
<1> SUFFICES ASSUME IInv, PollFlush PROVE IInv'
  OBVIOUS
<1>1. stage = "flush" /\ PollEnds
  BY DEF PollFlush, FlushWaits, FlushGivesWay, FlushDeclined, FlushExpires, CupOff,
         FlushSkipped, FlushRuns, FlushEnds, FlushStep, PollEnds
<1>2. clean.mode = "Off" /\ flush \in Flush /\ paddle.on \in BOOLEAN /\ driving \in BOOLEAN
      /\ TypeOK
  BY <1>1 DEF IInv, TypeOK, Paddle, OwnerInv, CleanAlone
<1>3. driving => ~paddle.tripped /\ (paddle.on \/ flush.state = "Running")
  BY <1>2, HeldLine
<1>4. ASSUME NEW from, NEW to \in {"Off", "Armed", "Delay", "Running"}, NEW line \in BOOLEAN,
             FlushStep(from, to, line),
             line => ~paddle.tripped /\ (paddle.on \/ to = "Running")
      PROVE  IInv'
  <2>1. /\ flush' = [state |-> to, ref |-> paddle.on] /\ driving' = line /\ ~ShotInFlight
    BY <1>4 DEF FlushStep, GivesWay
  <2>2. flush' \in Flush /\ flush'.state = to
    BY <1>2, <2>1 DEF Flush
  <2>3. QED
    BY <1>1, <1>4, <2>1, <2>2, PollEndsStep
<1>5. CASE FlushWaits
  <2>1. CASE \E state \in {"Armed", "Delay", "Running"} : FlushStep(state, state, driving)
    <3>1. PICK state \in {"Armed", "Delay", "Running"} : FlushStep(state, state, driving)
      BY <2>1
    <3>2. flush.state = state
      BY <3>1 DEF FlushStep
    <3>3. QED
      BY <1>2, <1>3, <1>4, <3>1, <3>2
  <2>2. CASE flush.state = "Off" /\ UNCHANGED <<flush, driving>>
    BY <1>1, <1>2, <1>3, <2>2, PollEndsStep
  <2>3. QED
    BY <1>5, <2>1, <2>2 DEF FlushWaits
<1>6. CASE FlushGivesWay
  <2>1. CancelFlush
    BY <1>6 DEF FlushGivesWay
  <2>2. /\ flush' \in Flush /\ flush'.state = "Off" /\ driving' \in BOOLEAN
        /\ driving' => driving /\ flush.state # "Running"
    BY <1>2, <2>1, CancelFlushFacts
  <2>3. QED
    BY <1>1, <1>3, <2>2, PollEndsStep
<1>7. CASE FlushDeclined
  <2>1. flush' = [state |-> "Off", ref |-> paddle.on] /\ driving' = driving
        /\ flush.state # "Running"
    BY <1>7 DEF FlushDeclined, ReachedForPaddle
  <2>2. flush' \in Flush /\ flush'.state = "Off"
    BY <1>2, <2>1 DEF Flush
  <2>3. QED
    BY <1>1, <1>2, <1>3, <2>1, <2>2, PollEndsStep
<1>8. CASE FlushExpires \/ CupOff \/ FlushSkipped
  <2>1. PICK from \in {"Armed", "Delay"}, to \in {"Off", "Delay"} : FlushStep(from, to, driving)
    BY <1>8 DEF FlushExpires, CupOff, FlushSkipped
  <2>2. flush.state # "Running"
    BY <2>1 DEF FlushStep
  <2>3. QED
    BY <1>2, <1>3, <1>4, <2>1, <2>2
<1>9. CASE FlushRuns
  <2>1. FlushStep("Delay", "Running", Drive(TRUE))
    BY <1>9 DEF FlushRuns
  <2>2. Drive(TRUE) \in BOOLEAN /\ (Drive(TRUE) => ~paddle.tripped)
    BY <1>2, <1>3 DEF Drive
  <2>3. QED
    BY <1>4, <2>1, <2>2
<1>10. CASE FlushEnds
  BY <1>4, <1>10 DEF FlushEnds
<1>11. QED
  BY <1>5, <1>6, <1>7, <1>8, <1>9, <1>10 DEF PollFlush

(* A poll of a cleaning cycle: it goes on with its line, or ends with the  *)
(* line open or on the paddle that took over.                              *)
LEMMA CleanStep ==
  ASSUME IInv, AtClean, CleanPolled, clean' \in Clean, driving' \in BOOLEAN,
         paddle' \in Paddle, SeenFirst', paddle'.tripped = paddle.tripped,
         clean'.mode = "Off" => ~clean'.on /\ (driving' => paddle'.on),
         clean'.mode # "Off" => (driving' <=> (clean'.mode = "Manual" \/ clean'.on)),
         clean'.done => clean'.cycle = Cycles,
         PulsesCounted'
  PROVE  IInv'
<1>1. /\ stage = "between" /\ ~paddle.tripped /\ shot.phase = "Idle" /\ flush.state = "Off"
  BY DEF AtClean, IInv, OwnerInv, CleanAlone, CleaningOwnsLine
<1>2. /\ stage' = (IF clean'.mode = "Off" THEN "brew" ELSE "between")
      /\ settings' = settings /\ shot' = shot /\ flush' = flush /\ detector' = detector
      /\ ops' = ops
  BY <1>1 DEF CleanPolled
<1>3. TypeOK'
  BY <1>2 DEF IInv, TypeOK
<1>4. OwnerInv'
  BY <1>1, <1>2 DEF OwnerInv, LineOpenWhenTripped, LineHasOwner, CleaningOwnsLine,
                    DoneMeansComplete, CleanAlone
<1>5. FlushYields'
  BY <1>1, <1>2 DEF FlushYields
<1>6. QED
  BY <1>3, <1>4, <1>5 DEF IInv

LEMMA CleanInv == IInv /\ PollClean => IInv'
<1> SUFFICES ASSUME IInv, PollClean PROVE IInv'
  OBVIOUS
<1>1. /\ paddle \in Paddle /\ SeenFirst /\ clean \in Clean /\ driving \in BOOLEAN
      /\ PulsesCounted /\ DoneMeansComplete
  BY DEF IInv, TypeOK, OwnerInv
<1>2. /\ clean.mode \in {"Manual", "Backflush"} /\ stage = "between" /\ AtClean
      /\ ~paddle.tripped /\ flush.state = "Off"
      /\ driving <=> (clean.mode = "Manual" \/ clean.on)
  <2>1. AtClean
    BY DEF PollClean, CleanLosesRelay, CleanTrips, CleanWaits, CleanTakeover, ManualFlushEnds,
           PulseEnds, PulseBegins, Pulsing
  <2>2. QED
    BY <2>1, <1>1 DEF AtClean, Clean, IInv, OwnerInv, CleanAlone, CleaningOwnsLine
<1>3. /\ CleanOff \in Clean /\ CleanOff.mode = "Off" /\ CleanOff.on = FALSE
      /\ CleanOff.cycle = clean.cycle /\ CleanOff.done = clean.done
  BY <1>1, CleanOffFacts
<1>4. ASSUME clean' = CleanOff, CleanPolled, driving' \in BOOLEAN, paddle' \in Paddle,
             SeenFirst', paddle'.tripped = paddle.tripped, driving' => paddle'.on
      PROVE  IInv'
  <2>1. PulsesCounted'
    BY <1>3, <1>4 DEF PulsesCounted
  <2>2. clean' \in Clean /\ clean'.mode = "Off" /\ ~clean'.on
        /\ (clean'.done => clean'.cycle = Cycles)
    BY <1>1, <1>3, <1>4 DEF DoneMeansComplete
  <2>3. QED
    BY <1>2, <1>4, <2>1, <2>2, CleanStep
<1>5. ASSUME NoEdge
      PROVE  paddle' \in Paddle /\ SeenFirst' /\ paddle'.tripped = paddle.tripped
  BY <1>1, <1>5, NoEdgeFacts
<1>6. CASE CleanLosesRelay
  <2>1. /\ clean' = CleanOff /\ driving' = FALSE /\ stage' = "sense"
        /\ UNCHANGED <<settings, paddle, shot, flush, detector, ops>>
    BY <1>6 DEF CleanLosesRelay, EndClean
  <2>2. TypeOK'
    BY <1>3, <2>1 DEF IInv, TypeOK
  <2>3. OwnerInv'
    BY <1>1, <1>3, <2>1 DEF OwnerInv, LineOpenWhenTripped, LineHasOwner, CleaningOwnsLine,
                            DoneMeansComplete, CleanAlone, PulsesCounted, SeenFirst
  <2>4. FlushYields'
    BY <1>2, <2>1 DEF FlushYields
  <2>5. QED
    BY <2>2, <2>3, <2>4 DEF IInv
<1>7. CASE CleanTrips
  <2>1. paddle' \in Paddle /\ SeenFirst' /\ CancelShot
    BY <1>1, <1>7, TripFacts DEF CleanTrips
  <2>2. settings' \in Settings /\ stage' \in Stages /\ ops' \in 0..MaxOps
    BY <1>7 DEF CleanTrips, IInv, TypeOK
  <2>3. QED
    BY <2>1, <2>2, CancelStep
<1>8. CASE CleanWaits
  <2>1. clean' = clean /\ driving' = driving /\ CleanPolled /\ NoEdge
    BY <1>8 DEF CleanWaits
  <2>2. PulsesCounted'
    BY <1>1, <2>1 DEF PulsesCounted
  <2>3. QED
    BY <1>1, <1>2, <1>5, <2>1, <2>2, CleanStep DEF DoneMeansComplete
<1>9. ASSUME NEW edge \in {"on", "off"}, CleanTakeover(edge)
      PROVE  IInv'
  <2>1. clean' = CleanOff /\ CleanPolled /\ Edge(edge) /\ driving' = (edge = "on")
    BY <1>9 DEF CleanTakeover
  <2>2. /\ paddle' \in Paddle /\ SeenFirst' /\ paddle'.tripped = paddle.tripped
        /\ edge = "on" => paddle'.on
    BY <1>1, <2>1, EdgeFacts
  <2>3. QED
    BY <1>4, <2>1, <2>2
<1>10. CASE ManualFlushEnds
  BY <1>4, <1>5, <1>10 DEF ManualFlushEnds, EndClean
<1>11. CASE PulseEnds
  <2>1. /\ clean.mode = "Backflush" /\ clean.on /\ NoEdge /\ CleanPolled /\ driving' = FALSE
    BY <1>11 DEF PulseEnds, Pulsing
  <2>2. CASE LastPulse
    <3>1. clean' = [clean EXCEPT !.on = FALSE, !.mode = "Off", !.done = TRUE]
      BY <1>11, <2>2 DEF PulseEnds
    <3>2. [clean EXCEPT !.on = FALSE, !.mode = "Off", !.done = TRUE] \in Clean
      BY <1>1, Zenon DEF Clean
    <3>3. clean'.mode = "Off" /\ clean'.on = FALSE /\ clean'.cycle = Cycles
      BY <1>1, <2>2, <3>1 DEF Clean, LastPulse
    <3>4. PulsesCounted'
      BY <3>3 DEF PulsesCounted
    <3>5. clean' \in Clean
      BY <3>1, <3>2
    <3>6. QED
      BY <1>2, <1>5, <2>1, <3>3, <3>4, <3>5, CleanStep
  <2>3. CASE ~LastPulse
    <3>1. clean' = [clean EXCEPT !.on = FALSE]
      BY <1>11, <2>3 DEF PulseEnds
    <3>2. [clean EXCEPT !.on = FALSE] \in Clean
      BY <1>1, Zenon DEF Clean
    <3>3. /\ clean'.mode = "Backflush" /\ clean'.on = FALSE /\ clean'.cycle < Cycles
          /\ clean'.done = clean.done
      BY <1>1, <2>1, <2>3, <3>1 DEF Clean, LastPulse
    <3>4. PulsesCounted' /\ ~clean'.done
      BY <1>1, <2>1, <3>3 DEF PulsesCounted
    <3>5. clean' \in Clean
      BY <3>1, <3>2
    <3>6. QED
      BY <1>2, <1>5, <2>1, <3>3, <3>4, <3>5, CleanStep
  <2>4. QED
    BY <2>2, <2>3
<1>12. CASE PulseBegins
  <2>1. /\ clean.mode = "Backflush" /\ clean.on = FALSE /\ NoEdge /\ CleanPolled
        /\ driving' = Drive(TRUE) /\ clean' = [clean EXCEPT !.on = TRUE, !.cycle = @ + 1]
    BY <1>12 DEF PulseBegins, Pulsing
  <2> DEFINE cycle == clean.cycle + 1
             new   == [clean EXCEPT !.on = TRUE, !.cycle = cycle]
  <2>2. cycle \in 0..Cycles /\ ~clean.done
    BY <1>1, <2>1 DEF PulsesCounted, Clean
  <2>3. clean' = new
    BY <2>1
  <2> HIDE DEF cycle
  <2>4. new \in Clean
    BY <1>1, <2>2, Zenon DEF Clean
  <2>5. new.mode = "Backflush" /\ new.on = TRUE /\ new.done = clean.done
    BY <1>1, <2>1 DEF Clean
  <2> HIDE DEF new
  <2>6. PulsesCounted'
    BY <2>2, <2>3, <2>5 DEF PulsesCounted
  <2>7. driving' = TRUE
    BY <1>2, <2>1, DriveOn
  <2>8. QED
    BY <1>2, <1>5, <2>1, <2>2, <2>3, <2>4, <2>5, <2>6, <2>7, CleanStep
<1>13. QED
  BY <1>6, <1>7, <1>8, <1>9, <1>10, <1>11, <1>12 DEF PollClean

-----------------------------------------------------------------------------
(* The user's calls.                                                       *)

LEMMA ChangesFacts ==
  ASSUME IInv, NEW knob, Changes(knob)
  PROVE  stage = "between" /\ stage' = stage /\ stage' \in Stages /\ ops' \in 0..MaxOps
BY DEF Changes, IInv, TypeOK

(* A call that leaves the line and its owners alone.                       *)
LEMMA SettingsStep ==
  ASSUME IInv, settings' \in Settings, ops' \in 0..MaxOps,
         UNCHANGED <<stage, paddle, driving, shot, flush, clean, detector>>
  PROVE  IInv'
<1>1. TypeOK'
  BY DEF IInv, TypeOK
<1>2. OwnerInv'
  BY DEF IInv, OwnerInv, LineOpenWhenTripped, LineHasOwner, CleaningOwnsLine,
         DoneMeansComplete, SeenFirst, CleanAlone, PulsesCounted
<1>3. FlushYields'
  BY DEF IInv, FlushYields, ShotInFlight
<1>4. QED
  BY <1>1, <1>2, <1>3 DEF IInv

LEMMA CancelFlushStep ==
  ASSUME IInv, CancelFlush, settings' \in Settings, ops' \in 0..MaxOps,
         UNCHANGED <<stage, paddle, shot, clean, detector>>
  PROVE  IInv'
<1>1. /\ flush' \in Flush /\ flush'.state = "Off" /\ driving' \in BOOLEAN
      /\ driving' => driving /\ flush.state # "Running"
  BY CancelFlushFacts DEF IInv
<1>2. flush.state # "Running" => driving' = driving
  BY DEF CancelFlush, IInv, TypeOK
<1>3. TypeOK'
  BY <1>1 DEF IInv, TypeOK
<1>4. OwnerInv'
  BY <1>1, <1>2 DEF IInv, OwnerInv, LineOpenWhenTripped, LineHasOwner, CleaningOwnsLine,
                    DoneMeansComplete, SeenFirst, CleanAlone, PulsesCounted
<1>5. FlushYields'
  BY <1>1 DEF FlushYields
<1>6. QED
  BY <1>3, <1>4, <1>5 DEF IInv

LEMMA EndCleanStep ==
  ASSUME IInv, clean' \in Clean, clean'.mode = "Off", clean'.on = FALSE,
         clean'.done => clean'.cycle = Cycles, driving' = FALSE, ops' \in 0..MaxOps,
         UNCHANGED <<stage, settings, paddle, shot, flush, detector>>
  PROVE  IInv'
<1>1. TypeOK'
  BY DEF IInv, TypeOK
<1>2. OwnerInv'
  BY DEF IInv, OwnerInv, LineOpenWhenTripped, LineHasOwner, CleaningOwnsLine,
         DoneMeansComplete, SeenFirst, CleanAlone, PulsesCounted
<1>3. FlushYields'
  BY DEF IInv, FlushYields, ShotInFlight
<1>4. QED
  BY <1>1, <1>2, <1>3 DEF IInv

LEMMA StartCleanStep ==
  ASSUME IInv, NEW cycle \in Clean, StartClean(cycle), cycle.mode # "Off",
         cycle.mode = "Manual" => cycle.on = FALSE,
         cycle.mode = "Backflush" => cycle.on = TRUE /\ ~cycle.done,
         cycle.done => cycle.cycle = Cycles,
         stage = "between", ops' \in 0..MaxOps, UNCHANGED <<stage, settings, paddle>>
  PROVE  IInv'
<1>1. /\ shot' \in Shot /\ shot'.phase = "Idle" /\ flush' \in Flush /\ flush'.state = "Off"
      /\ detector' = "idle"
  BY ForgetsFacts DEF StartClean, IInv
<1>2. ~paddle.tripped /\ clean' = cycle /\ driving' = TRUE
  BY DriveOn DEF StartClean, CanClean
<1>3. cycle.mode \in {"Manual", "Backflush"}
  BY DEF Clean
<1>4. TypeOK'
  BY <1>1, <1>2 DEF IInv, TypeOK
<1>5. OwnerInv'
  BY <1>1, <1>2, <1>3 DEF IInv, OwnerInv, LineOpenWhenTripped, LineHasOwner,
                          CleaningOwnsLine, DoneMeansComplete, SeenFirst, CleanAlone,
                          PulsesCounted
<1>6. FlushYields'
  BY <1>1 DEF FlushYields
<1>7. QED
  BY <1>4, <1>5, <1>6 DEF IInv

LEMMA CleanCallsInv == IInv /\ (ToggleManualFlush \/ StartBackflush \/ CancelBackflush) => IInv'
<1> SUFFICES ASSUME IInv, ToggleManualFlush \/ StartBackflush \/ CancelBackflush PROVE IInv'
  OBVIOUS
<1>1. /\ Changes("clean") /\ UNCHANGED <<settings, paddle>>
  BY DEF ToggleManualFlush, StartBackflush, CancelBackflush
<1>2. /\ stage = "between" /\ stage' = stage /\ ops' \in 0..MaxOps
  BY <1>1, ChangesFacts
<1>3. clean \in Clean /\ DoneMeansComplete /\ settings' \in Settings
  BY <1>1 DEF IInv, TypeOK, OwnerInv
<1>4. /\ CleanOff \in Clean /\ CleanOff.mode = "Off" /\ CleanOff.on = FALSE
      /\ CleanOff.cycle = clean.cycle /\ CleanOff.done = clean.done
  BY <1>3, CleanOffFacts
<1>5. CASE EndClean /\ UNCHANGED <<shot, flush, detector>>
  BY <1>1, <1>2, <1>3, <1>4, <1>5, EndCleanStep DEF EndClean, DoneMeansComplete
<1>6. CASE CancelFlush /\ UNCHANGED <<shot, clean, detector>>
  BY <1>1, <1>2, <1>3, <1>6, CancelFlushStep
<1>7. CASE StartClean([clean EXCEPT !.mode = "Manual", !.on = FALSE])
  <2> DEFINE cycle == [clean EXCEPT !.mode = "Manual", !.on = FALSE]
  <2>1. cycle \in Clean
    BY <1>3, Zenon DEF Clean
  <2>2. /\ cycle.mode = "Manual" /\ cycle.on = FALSE /\ cycle.done = clean.done
        /\ cycle.cycle = clean.cycle
    BY <1>3 DEF Clean
  <2>3. StartClean(cycle)
    BY <1>7
  <2> HIDE DEF cycle
  <2>4. QED
    BY <1>1, <1>2, <1>3, <2>1, <2>2, <2>3, StartCleanStep DEF DoneMeansComplete
<1>8. CASE StartBackflush
  <2> DEFINE cycle == [mode |-> "Backflush", on |-> TRUE, cycle |-> 1, done |-> FALSE]
  <2>1. /\ cycle \in Clean /\ cycle.mode = "Backflush" /\ cycle.on = TRUE
        /\ cycle.done = FALSE
    BY DEF Clean
  <2>2. StartClean(cycle)
    BY <1>8 DEF StartBackflush
  <2> HIDE DEF cycle
  <2>3. QED
    BY <1>1, <1>2, <2>1, <2>2, StartCleanStep
<1>9. CASE CancelBackflush
  <2> DEFINE new == [CleanOff EXCEPT !.done = FALSE]
  <2>1. new \in Clean
    BY <1>4, Zenon DEF Clean
  <2>2. new.mode = "Off" /\ new.on = FALSE /\ new.done = FALSE
    BY <1>4 DEF Clean
  <2>3. clean' = new /\ driving' = FALSE /\ UNCHANGED <<shot, flush, detector>>
    BY <1>9 DEF CancelBackflush
  <2> HIDE DEF new
  <2>4. QED
    BY <1>1, <1>2, <2>1, <2>2, <2>3, EndCleanStep
<1>10. QED
  BY <1>5, <1>6, <1>7, <1>8, <1>9 DEF ToggleManualFlush

LEMMA SettingCallsInv ==
  ASSUME IInv,
         \/ \E mode \in Modes : SetShotMode(mode)
         \/ \E on \in BOOLEAN : SetWiredPaddle(on) \/ SetFlushSeconds(on) \/ ScaleKnown(on)
         \/ \E wiring \in Wirings : SetPaddleWiring(wiring)
  PROVE  IInv'
<1>1. settings \in Settings /\ paddle \in Paddle /\ SeenFirst
  BY DEF IInv, TypeOK, OwnerInv
<1>2. ASSUME NEW knob, Changes(knob), settings' \in Settings, UNCHANGED paddle,
             NEW condition, CancelShotIf(condition)
      PROVE  IInv'
  <2>1. stage' = stage /\ stage' \in Stages /\ ops' \in 0..MaxOps
    BY <1>2, ChangesFacts
  <2>2. paddle' \in Paddle /\ SeenFirst'
    BY <1>1, <1>2 DEF SeenFirst
  <2>3. CASE condition
    BY <1>2, <2>1, <2>2, <2>3, CancelStep DEF CancelShotIf
  <2>4. CASE ~condition
    BY <1>2, <2>1, <2>4, SettingsStep DEF CancelShotIf
  <2>5. QED
    BY <2>3, <2>4
<1>3. ASSUME NEW mode \in Modes, SetShotMode(mode) PROVE IInv'
  <2>1. settings' \in Settings
    <3>1. settings' = [settings EXCEPT !.mode = mode]
      BY <1>3 DEF SetShotMode
    <3>2. QED
      BY <1>1, <3>1, Zenon DEF Settings
  <2>2. QED
    BY <1>2, <1>3, <2>1 DEF SetShotMode
<1>4. ASSUME NEW on \in BOOLEAN, SetWiredPaddle(on) PROVE IInv'
  <2>1. settings' \in Settings
    <3>1. settings' = [settings EXCEPT !.wired = on]
      BY <1>4 DEF SetWiredPaddle
    <3>2. QED
      BY <1>1, <3>1, Zenon DEF Settings
  <2>2. QED
    BY <1>2, <1>4, <2>1 DEF SetWiredPaddle
<1>5. ASSUME NEW on \in BOOLEAN, SetFlushSeconds(on) PROVE IInv'
  <2>1. settings' \in Settings
    <3>1. settings' = [settings EXCEPT !.flush = on]
      BY <1>5 DEF SetFlushSeconds
    <3>2. QED
      BY <1>1, <3>1, Zenon DEF Settings
  <2>2. stage' = stage /\ ops' \in 0..MaxOps
    BY <1>5, ChangesFacts DEF SetFlushSeconds
  <2>3. CASE on
    BY <1>5, <2>1, <2>2, <2>3, SettingsStep DEF SetFlushSeconds
  <2>4. CASE ~on
    BY <1>5, <2>1, <2>2, <2>4, CancelFlushStep DEF SetFlushSeconds
  <2>5. QED
    BY <2>3, <2>4
<1>6. ASSUME NEW on \in BOOLEAN, ScaleKnown(on) PROVE IInv'
  <2>1. settings' \in Settings
    <3>1. settings' = [settings EXCEPT !.known = on]
      BY <1>6 DEF ScaleKnown
    <3>2. QED
      BY <1>1, <3>1, Zenon DEF Settings
  <2>2. stage' = stage /\ ops' \in 0..MaxOps
    BY <1>6, ChangesFacts DEF ScaleKnown
  <2>3. QED
    BY <1>6, <2>1, <2>2, SettingsStep DEF ScaleKnown
<1>7. ASSUME NEW wiring \in Wirings, SetPaddleWiring(wiring) PROVE IInv'
  <2>1. settings' \in Settings
    <3>1. settings' = [settings EXCEPT !.wiring = wiring]
      BY <1>7 DEF SetPaddleWiring
    <3>2. QED
      BY <1>1, <3>1, Zenon DEF Settings
  <2>2. stage' \in Stages /\ ops' \in 0..MaxOps
    BY <1>7, ChangesFacts DEF SetPaddleWiring
  <2>3. HasCtrl(wiring) \in BOOLEAN
    BY DEF HasCtrl
  <2>4. [paddle EXCEPT !.owned = HasCtrl(wiring)] \in Paddle
    BY <1>1, <2>3, Zenon DEF Paddle
  <2>5. paddle' \in Paddle /\ paddle'.on = paddle.on /\ paddle'.seen = paddle.seen
    BY <1>1, <1>7, <2>4 DEF SetPaddleWiring, Paddle
  <2>6. SeenFirst'
    BY <1>1, <2>5 DEF SeenFirst
  <2>7. QED
    BY <1>7, <2>1, <2>2, <2>5, <2>6, CancelStep DEF SetPaddleWiring
<1>8. QED
  BY <1>3, <1>4, <1>5, <1>6, <1>7

LEMMA OtherCallsInv == IInv /\ (DismissReview \/ ResetPaddleBreaker) => IInv'
<1> SUFFICES ASSUME IInv, DismissReview \/ ResetPaddleBreaker PROVE IInv'
  OBVIOUS
<1>1. stage = "between" /\ stage' = stage /\ ops' \in 0..MaxOps
  BY ChangesFacts DEF DismissReview, ResetPaddleBreaker
<1>2. CASE DismissReview
  <2>1. shot' = [shot EXCEPT !.phase = "Idle"]
        /\ UNCHANGED <<settings, paddle, driving, flush, clean, detector>>
    BY <1>2 DEF DismissReview
  <2>2. [shot EXCEPT !.phase = "Idle"] \in Shot
    BY Zenon DEF IInv, TypeOK, Shot
  <2>3. shot' \in Shot /\ shot'.phase = "Idle"
    BY <2>1, <2>2 DEF IInv, TypeOK, Shot
  <2>4. TypeOK'
    BY <1>1, <2>1, <2>3 DEF IInv, TypeOK
  <2>5. OwnerInv'
    BY <1>1, <2>1, <2>3 DEF IInv, OwnerInv, LineOpenWhenTripped, LineHasOwner,
                            CleaningOwnsLine, DoneMeansComplete, SeenFirst, CleanAlone,
                            PulsesCounted
  <2>6. FlushYields'
    BY <1>1, <2>1, <2>3 DEF FlushYields, ShotInFlight
  <2>7. QED
    BY <2>4, <2>5, <2>6 DEF IInv
<1>3. CASE ResetPaddleBreaker
  <2> DEFINE owned == HasCtrl(settings.wiring)
             new   == [paddle EXCEPT !.tripped = FALSE, !.rejects = 0, !.shorts = 0,
                                     !.edged = FALSE, !.owned = owned]
  <2>1. owned \in BOOLEAN /\ 0 \in 0..RejectTrip /\ 0 \in 0..ShortTrip
    BY DEF HasCtrl
  <2>2. paddle' = new /\ UNCHANGED <<settings, driving, shot, flush, clean, detector>>
    BY <1>3 DEF ResetPaddleBreaker
  <2> HIDE DEF owned
  <2>3. new \in Paddle
    BY <2>1, Zenon DEF IInv, TypeOK, Paddle
  <2>4. new.tripped = FALSE /\ new.on = paddle.on /\ new.seen = paddle.seen
    BY DEF IInv, TypeOK, Paddle
  <2> HIDE DEF new
  <2>5. TypeOK'
    BY <1>1, <2>2, <2>3 DEF IInv, TypeOK
  <2>6. OwnerInv'
    BY <1>1, <2>2, <2>4 DEF IInv, OwnerInv, LineOpenWhenTripped, LineHasOwner,
                            CleaningOwnsLine, DoneMeansComplete, SeenFirst, CleanAlone,
                            PulsesCounted
  <2>7. FlushYields'
    BY <1>1, <2>2 DEF IInv, FlushYields, ShotInFlight
  <2>8. QED
    BY <2>5, <2>6, <2>7 DEF IInv
<1>4. QED
  BY <1>2, <1>3

-----------------------------------------------------------------------------
LEMMA InitInv == Init => IInv
<1> SUFFICES ASSUME Init PROVE IInv
  OBVIOUS
<1>1. paddle \in Paddle
  <2>1. HasCtrl(settings.wiring) \in BOOLEAN /\ 0 \in 0..StablePolls /\ 0 \in 0..RejectTrip
        /\ 0 \in 0..ShortTrip
    BY DEF HasCtrl
  <2>2. QED
    BY <2>1 DEF Init, Paddle
<1>2. shot \in Shot /\ flush \in Flush
  BY DEF Init, Shot, Flush
<1>3. clean \in Clean
  BY DEF Init, Clean
<1>4. TypeOK
  <2>1. /\ stage \in Stages /\ settings \in Settings /\ driving \in BOOLEAN
        /\ detector \in {"idle", "active"} /\ ops = 0
    BY Zenon DEF Init
  <2>2. QED
    BY <1>1, <1>2, <1>3, <2>1 DEF TypeOK
<1>5. OwnerInv
  BY DEF Init, OwnerInv, LineOpenWhenTripped, LineHasOwner, CleaningOwnsLine,
         DoneMeansComplete, SeenFirst, CleanAlone, PulsesCounted
<1>6. FlushYields
  BY DEF Init, FlushYields
<1>7. QED
  BY <1>4, <1>5, <1>6 DEF IInv

LEMMA NextInv == IInv /\ [Next]_vars => IInv'
<1>1. IInv /\ UNCHANGED vars => IInv'
  BY SettingsStep DEF vars, IInv, TypeOK
<1>2. IInv /\ Next => IInv'
  BY CleanInv, PaddleInv, ShotInv, SettleInv, FlushInv, CleanCallsInv, SettingCallsInv,
     OtherCallsInv DEF Next, Poll, UserCalls
<1>3. QED
  BY <1>1, <1>2

(* The inductive invariant holds in every reachable state, for any rig,    *)
(* breaker limits, filter depth and number of pulses: it says who holds    *)
(* the line closed (set_drive's callers) and what each of them excludes.   *)
THEOREM LineInvariant == Spec => []IInv
  BY InitInv, NextInv, PTL DEF Spec

(* Every variable of the controller keeps its type.                        *)
THEOREM ControllerTypeCorrect == Spec => []TypeOK
  BY LineInvariant, PTL DEF IInv

(* trip_breaker and set_drive: a tripped breaker holds the line open until *)
(* the user's reset, whoever asks for it.                                  *)
THEOREM TrippedLineStaysOpen == Spec => []LineOpenWhenTripped
  BY LineInvariant, PTL DEF IInv, OwnerInv

(* No closed line without its paddle, its flush or its cleaning pulse.     *)
THEOREM NoOrphanLine == Spec => []LineHasOwner
  BY LineInvariant, PTL DEF IInv, OwnerInv

(* A cleaning cycle runs alone, and the line follows its pulses.           *)
THEOREM CleaningIsExclusive == Spec => []CleaningOwnsLine
  BY LineInvariant, PTL DEF IInv, OwnerInv

(* "complete" is said after the full count of pulses.                      *)
THEOREM CompleteIsComplete == Spec => []DoneMeansComplete
  BY LineInvariant, PTL DEF IInv, OwnerInv

-----------------------------------------------------------------------------
(* What a step may do to the line.                                         *)

(* The stages behind the paddle's leave the paddle alone.                  *)
LEMMA PaddleStill ==
  ASSUME PollShot \/ PollSettle \/ PollFlush
  PROVE  paddle' = paddle
<1>1. ASSUME PollShot PROVE paddle' = paddle
  BY <1>1 DEF PollShot, NothingBrews, FliesBlind, BlindTooLong, Pours, TargetReached,
              DetectorParked, DetectorWatches, Detected, DetectedPours, DetectedEnds,
              DetectedAborts, BrewStep, Follows
<1>2. ASSUME PollSettle PROVE paddle' = paddle
  BY <1>2 DEF PollSettle, SettleWaits, SettleGoesDark, Settles, ReviewTimesOut, Rests
<1>3. ASSUME PollFlush PROVE paddle' = paddle
  BY <1>3 DEF PollFlush, FlushWaits, FlushGivesWay, FlushDeclined, FlushExpires, CupOff,
              FlushSkipped, FlushRuns, FlushEnds, FlushStep, PollEnds
<1>4. QED
  BY <1>1, <1>2, <1>3

(* No call moves the accepted level.                                       *)
LEMMA CallsKeepLevel ==
  ASSUME paddle \in Paddle, UserCalls
  PROVE  paddle'.on = paddle.on
<1>1. CASE ResetPaddleBreaker
  BY <1>1 DEF ResetPaddleBreaker, Paddle
<1>2. ASSUME NEW wiring \in Wirings, SetPaddleWiring(wiring)
      PROVE  paddle'.on = paddle.on
  BY <1>2 DEF SetPaddleWiring, Paddle
<1>3. CASE ToggleManualFlush \/ StartBackflush \/ CancelBackflush \/ DismissReview
  BY <1>3 DEF ToggleManualFlush, StartBackflush, CancelBackflush, DismissReview
<1>4. ASSUME NEW mode \in Modes, SetShotMode(mode) PROVE paddle'.on = paddle.on
  BY <1>4 DEF SetShotMode
<1>5. ASSUME NEW on \in BOOLEAN, SetWiredPaddle(on) \/ SetFlushSeconds(on) \/ ScaleKnown(on)
      PROVE  paddle'.on = paddle.on
  BY <1>5 DEF SetWiredPaddle, SetFlushSeconds, ScaleKnown
<1>6. QED
  BY <1>1, <1>2, <1>3, <1>4, <1>5 DEF UserCalls

(* The shapes of the paddle stage: quiet, tripped, an ON, or an OFF.       *)
LEMMA PaddleShapes ==
  ASSUME PollPaddle
  PROVE  /\ clean.mode = "Off"
         /\ \/ driving' = driving /\ (NoEdge \/ paddle' = paddle)
            \/ Trip
            \/ Edge("on")
            \/ Edge("off") /\ driving' = FALSE
BY DEF PollPaddle, PaddleQuiet, PaddleTrips, OnRefused, OnWakes, OnRuns, OnBrews, OffCuts,
       PassRefused, PassOn, PassOff, WiredEdge, PassEdge, AtSense, Relays

(* The shapes of a cleaning poll: it ends its line or keeps it, loses it   *)
(* to the breaker or to a flip, or begins a pulse.                         *)
LEMMA CleanShapes ==
  ASSUME PollClean
  PROVE  /\ clean.mode # "Off"
         /\ \/ driving' = FALSE /\ (NoEdge \/ paddle' = paddle)
            \/ driving' = driving /\ NoEdge
            \/ Trip
            \/ \E edge \in {"on", "off"} : Edge(edge) /\ driving' = (edge = "on")
            \/ NoEdge /\ clean'.mode = clean.mode
<1>1. CASE PulseBegins
  <2>1. NoEdge /\ AtClean /\ clean' = [clean EXCEPT !.on = TRUE, !.cycle = @ + 1]
    BY <1>1 DEF PulseBegins, Pulsing
  <2>2. QED
    BY <2>1 DEF AtClean
<1>2. QED
  BY <1>1 DEF PollClean, CleanLosesRelay, CleanTrips, CleanWaits, CleanTakeover,
              ManualFlushEnds, PulseEnds, Pulsing, AtClean, EndClean

LEMMA TripOpens == Trip => driving' = FALSE
  BY DEF Trip, CancelShot, EndClean

(* The step behind StoppingIsNeverBlocked.                                 *)
LEMMA StopStep ==
  ASSUME IInv, [Next]_vars, paddle.on, ~paddle'.on, flush.state # "Running"
  PROVE  ~driving'
<1>1. paddle \in Paddle /\ SeenFirst
  BY DEF IInv, TypeOK, OwnerInv
<1>2. CASE NoEdge \/ paddle' = paddle
  <2>1. paddle.tripped /\ driving = FALSE
    BY <1>1, <1>2, NoEdgeFacts DEF IInv, TypeOK, OwnerInv, LineOpenWhenTripped
  <2>2. clean.mode = "Off"
    BY <2>1 DEF IInv, OwnerInv, CleanAlone
  <2>3. CASE PollPaddle
    <3>1. ~Edge("on") /\ ~Edge("off")
      BY <1>1, <2>1, EdgeFacts
    <3>2. QED
      BY <2>1, <2>3, <3>1, PaddleShapes, TripOpens
  <2>4. ~PollClean
    BY <2>2, CleanShapes
  <2>5. paddle' # paddle
    OBVIOUS
  <2>6. QED
    BY <1>1, <2>3, <2>4, <2>5, PaddleStill, CallsKeepLevel DEF Next, Poll, vars
<1>3. CASE PollPaddle
  <2>1. ~Edge("on")
    BY <1>1, EdgeFacts
  <2>2. QED
    BY <1>2, <1>3, <2>1, PaddleShapes, TripOpens
<1>4. CASE PollClean
  <2>1. ASSUME NEW edge \in {"on", "off"}, Edge(edge), driving' = (edge = "on")
        PROVE  ~driving'
    <3>1. edge # "on"
      BY <1>1, <2>1, EdgeFacts
    <3>2. QED
      BY <2>1, <3>1
  <2>2. QED
    BY <1>2, <1>4, <2>1, CleanShapes, TripOpens
<1>5. paddle' # paddle
  OBVIOUS
<1>6. QED
  BY <1>1, <1>3, <1>4, <1>5, PaddleStill, CallsKeepLevel DEF Next, Poll, vars

(* In every mode and phase the poll that accepts the paddle's OFF leaves   *)
(* the line open, for any rig: no refusal, review, cleaning cycle or       *)
(* tripped breaker stands in the way.                                      *)
THEOREM StoppingNeverBlocked == Spec => StoppingIsNeverBlocked
<1>1. IInv /\ [Next]_vars =>
        [paddle.on /\ ~paddle'.on /\ flush.state # "Running" => ~driving']_vars
  BY StopStep
<1>2. QED
  BY <1>1, LineInvariant, PTL DEF Spec, StoppingIsNeverBlocked

(* Only a flush that starts, a pulse or an ON closes an open line.         *)
LEMMA CloseStep ==
  ASSUME IInv, [Next]_vars, ~driving, driving'
  PROVE  \/ paddle.seen /\ ~paddle.on /\ paddle'.on
         \/ flush.state = "Delay" /\ flush'.state = "Running"
         \/ clean'.mode # "Off"
<1>1. paddle \in Paddle /\ SeenFirst /\ shot \in Shot /\ flush \in Flush
  BY DEF IInv, TypeOK, OwnerInv
<1>2. CASE PollPaddle
  BY <1>1, <1>2, PaddleShapes, EdgeFacts, TripOpens
<1>3. CASE PollClean
  <2>1. ASSUME NEW edge \in {"on", "off"}, Edge(edge), driving' = (edge = "on")
        PROVE  paddle.seen /\ ~paddle.on /\ paddle'.on
    BY <1>1, <2>1, EdgeFacts
  <2>2. QED
    BY <1>3, <2>1, CleanShapes, TripOpens
<1>4. CASE PollShot
  BY <1>4 DEF PollShot, NothingBrews, FliesBlind, BlindTooLong, Pours, TargetReached,
              DetectorParked, DetectorWatches, Detected, DetectedPours, DetectedEnds,
              DetectedAborts, BrewStep, Follows
<1>5. CASE PollSettle
  BY <1>5 DEF PollSettle, SettleWaits, SettleGoesDark, Settles, ReviewTimesOut, Rests
<1>6. CASE PollFlush
  <2>1. CASE FlushRuns
    BY <2>1 DEF FlushRuns, FlushStep
  <2>2. CASE FlushGivesWay
    BY <2>2 DEF FlushGivesWay, CancelFlush
  <2>3. QED
    BY <1>6, <2>1, <2>2 DEF PollFlush, FlushWaits, FlushDeclined, FlushExpires, CupOff,
                            FlushSkipped, FlushEnds, FlushStep
<1>7. CASE UserCalls
  <2>1. CASE ToggleManualFlush \/ StartBackflush \/ CancelBackflush
    <3> DEFINE manual == [clean EXCEPT !.mode = "Manual", !.on = FALSE]
               pulses == [mode |-> "Backflush", on |-> TRUE, cycle |-> 1, done |-> FALSE]
    <3>1. driving' = FALSE \/ CancelFlush \/ StartClean(manual) \/ StartClean(pulses)
      BY <2>1 DEF ToggleManualFlush, StartBackflush, CancelBackflush, EndClean
    <3>2. manual.mode = "Manual" /\ pulses.mode = "Backflush"
      BY DEF IInv, TypeOK, Clean
    <3> HIDE DEF manual, pulses
    <3>3. QED
      BY <3>1, <3>2 DEF StartClean, CancelFlush
  <2>2. CASE DismissReview \/ ResetPaddleBreaker
    BY <2>2 DEF DismissReview, ResetPaddleBreaker
  <2>3. ASSUME NEW mode \in Modes, SetShotMode(mode) PROVE FALSE
    BY <2>3 DEF SetShotMode, CancelShotIf, CancelShot, EndClean
  <2>4. ASSUME NEW on \in BOOLEAN, SetWiredPaddle(on) \/ SetFlushSeconds(on) \/ ScaleKnown(on)
        PROVE  FALSE
    BY <2>4 DEF SetWiredPaddle, SetFlushSeconds, ScaleKnown, CancelShotIf, CancelShot,
                EndClean, CancelFlush
  <2>5. ASSUME NEW wiring \in Wirings, SetPaddleWiring(wiring) PROVE FALSE
    BY <2>5 DEF SetPaddleWiring, CancelShot, EndClean
  <2>6. QED
    BY <1>7, <2>1, <2>2, <2>3, <2>4, <2>5 DEF UserCalls
<1>8. QED
  BY <1>2, <1>3, <1>4, <1>5, <1>6, <1>7 DEF Next, Poll, vars

(* Water runs only at a fresh flip of a known paddle, at the flush's own   *)
(* start or in a cleaning cycle the user asked for; never at boot.         *)
THEOREM NoSurpriseStart == Spec => NoSurpriseClose
<1>1. IInv /\ [Next]_vars =>
        [~driving /\ driving' =>
           \/ paddle.seen /\ ~paddle.on /\ paddle'.on
           \/ flush.state = "Delay" /\ flush'.state = "Running"
           \/ clean'.mode # "Off"]_vars
  BY CloseStep
<1>2. QED
  BY <1>1, LineInvariant, PTL DEF Spec, NoSurpriseClose

-----------------------------------------------------------------------------
(* The flags of a shot: the signal to the user and what the overshoot      *)
(* estimate learns from.                                                   *)

(* A hint belongs to a shot in the making that the relay cannot stop; that *)
(* shot's flags are its own.  BlindTooLong ends a shot without looking at  *)
(* the hint: that it is never up on a wired rig is what the two properties *)
(* do not say.                                                             *)
FlagsOk(sh, wired) ==
  /\ sh.stop_hint => sh.phase = "Brewing" /\ ~wired
  /\ sh.phase = "Brewing" => ~sh.auto_stopped /\ (sh.hint_fired <=> sh.stop_hint)

ShotFlags == FlagsOk(shot, Wired)

(* What the two properties need: pairing or forgetting a scale is the one  *)
(* call that moves a shot from the detector to the relay without ending    *)
(* it.  A rig without a paddle line has no relay to move it to.            *)
RigIsFixed == "known" \notin Knobs \/ ~HasPaddle

(* The shot and the rig are as they were.                                  *)
LEMMA FlagsKept ==
  ASSUME ShotFlags, shot' = shot, settings' = settings
  PROVE  ShotFlags'
BY DEF ShotFlags, Wired, Relay, EffMode

(* A step within a poll: the rig is the same, the shot's record is new.    *)
LEMMA FlagsNew ==
  ASSUME NEW sh, FlagsOk(sh, Wired), shot' = sh, settings' = settings
  PROVE  ShotFlags'
BY DEF ShotFlags, FlagsOk, Wired, Relay, EffMode

(* However a shot ends, its hint goes.                                     *)
LEMMA EndShotFlags ==
  ASSUME NEW sh \in Shot, NEW long \in BOOLEAN, NEW wired
  PROVE  FlagsOk(EndShot(sh, long), wired)
<1>1. CASE long
  <2>1. EndShot(sh, long) = [sh EXCEPT !.stop_hint = FALSE, !.phase = "Settling"]
    BY <1>1 DEF EndShot
  <2>2. QED
    BY <2>1 DEF FlagsOk, Shot
<1>2. CASE ~long
  <2>1. EndShot(sh, long) = [sh EXCEPT !.stop_hint = FALSE, !.phase = "Idle",
                                       !.timer = "reset"]
    BY <1>2 DEF EndShot
  <2>2. QED
    BY <2>1 DEF FlagsOk, Shot
<1>3. QED
  BY <1>1, <1>2

LEMMA ForgetsFlags ==
  ASSUME TypeOK, Forgets
  PROVE  ShotFlags'
<1>1. shot \in Shot
  BY DEF TypeOK
<1>2. shot' = [shot EXCEPT !.phase = "Idle", !.timer = "reset", !.stop_hint = FALSE,
                           !.hint_fired = FALSE]
  BY DEF Forgets
<1>3. ~shot'.stop_hint /\ shot'.phase = "Idle"
  BY <1>1, <1>2 DEF Shot
<1>4. QED
  BY <1>3 DEF ShotFlags, FlagsOk

LEMMA PaddleFlags ==
  ASSUME TypeOK, ShotFlags, PollPaddle
  PROVE  ShotFlags'
<1>1. shot \in Shot
  BY DEF TypeOK
<1>2. ASSUME NEW line, NEW sh, Relays(line, sh), FlagsOk(sh, Wired)
      PROVE  ShotFlags'
  BY <1>2, FlagsNew DEF Relays
<1>3. CASE PaddleQuiet \/ OnRefused \/ OnWakes \/ PassRefused \/ PassOff
  BY <1>3, FlagsKept DEF PaddleQuiet, OnRefused, OnWakes, PassRefused, PassOff, Relays
<1>4. CASE PaddleTrips
  BY <1>4, ForgetsFlags DEF PaddleTrips, Trip, CancelShot
<1>5. CASE OnRuns
  <2> DEFINE sh == [shot EXCEPT !.timer = "running"]
  <2>1. FlagsOk(sh, Wired)
    BY <1>1 DEF ShotFlags, FlagsOk, Shot
  <2>2. QED
    BY <1>2, <1>5, <2>1 DEF OnRuns
<1>6. CASE OnBrews
  <2>1. PICK tared \in BOOLEAN :
          Relays(Drive(TRUE),
                 [shot EXCEPT !.timer = "running", !.phase = "Brewing", !.baseline = tared,
                              !.auto_stopped = FALSE, !.hint_fired = FALSE, !.blind = FALSE])
    BY <1>6 DEF OnBrews
  <2> DEFINE sh == [shot EXCEPT !.timer = "running", !.phase = "Brewing", !.baseline = tared,
                              !.auto_stopped = FALSE, !.hint_fired = FALSE, !.blind = FALSE]
  <2>2. ~shot.stop_hint
    BY <1>6 DEF OnBrews, ShotFlags, FlagsOk
  <2>3. sh.stop_hint = shot.stop_hint /\ ~sh.auto_stopped /\ ~sh.hint_fired
    BY <1>1 DEF Shot
  <2>4. FlagsOk(sh, Wired)
    BY <2>2, <2>3 DEF FlagsOk
  <2>5. QED
    BY <1>2, <2>1, <2>4
<1>7. CASE OffCuts
  <2> DEFINE stopped == [shot EXCEPT !.timer = Stopped(@)]
  <2>1. PICK long \in BOOLEAN :
          Relays(FALSE, IF shot.phase = "Brewing" THEN EndShot(stopped, long) ELSE stopped)
    BY <1>7 DEF OffCuts
  <2>2. stopped \in Shot
    BY <1>1, StoppedType, Zenon DEF Shot
  <2>3. FlagsOk(stopped, Wired)
    BY <1>1 DEF ShotFlags, FlagsOk, Shot
  <2> HIDE DEF stopped
  <2>4. QED
    BY <1>2, <2>1, <2>2, <2>3, EndShotFlags
<1>8. CASE PassOn
  <2> DEFINE phase == IF shot.phase = "Review" THEN "Idle" ELSE shot.phase
             sh    == [shot EXCEPT !.phase = phase]
  <2>1. /\ sh.phase = phase /\ sh.stop_hint = shot.stop_hint
        /\ sh.auto_stopped = shot.auto_stopped /\ sh.hint_fired = shot.hint_fired
    BY <1>1 DEF Shot
  <2>2. Relays(Drive(TRUE), sh)
    BY <1>8 DEF PassOn
  <2> HIDE DEF sh
  <2>3. FlagsOk(sh, Wired)
    BY <2>1 DEF ShotFlags, FlagsOk
  <2>4. QED
    BY <1>2, <2>2, <2>3
<1>9. QED
  BY <1>3, <1>4, <1>5, <1>6, <1>7, <1>8 DEF PollPaddle

LEMMA ShotStageFlags ==
  ASSUME TypeOK, ShotFlags, PollShot
  PROVE  ShotFlags'
<1>1. shot \in Shot
  BY DEF TypeOK
<1>2. ASSUME NEW line, NEW sh, Follows(line, sh), FlagsOk(sh, Wired)
      PROVE  ShotFlags'
  BY <1>2, FlagsNew DEF Follows
<1>3. CASE NothingBrews \/ DetectorParked \/ DetectorWatches
  BY <1>3, FlagsKept DEF NothingBrews, DetectorParked, DetectorWatches, BrewStep, Follows
<1>4. CASE FliesBlind
  <2> DEFINE sh == [shot EXCEPT !.blind = TRUE]
  <2>1. FlagsOk(sh, Wired)
    BY <1>1 DEF ShotFlags, FlagsOk, Shot
  <2>2. QED
    BY <1>2, <1>4, <2>1 DEF FliesBlind, BrewStep
<1>5. CASE BlindTooLong
  <2> DEFINE sh == [shot EXCEPT !.phase = "Idle", !.timer = Stopped(@), !.blind = FALSE]
  <2>1. Wired /\ Follows(driving, sh)
    BY <1>5 DEF BlindTooLong, BrewStep
  <2>2. sh.phase = "Idle" /\ sh.stop_hint = shot.stop_hint
    BY <1>1 DEF Shot
  <2>3. FlagsOk(sh, Wired)
    BY <2>1, <2>2 DEF ShotFlags, FlagsOk
  <2>4. QED
    BY <1>2, <2>1, <2>3
<1>6. CASE Pours
  <2>1. PICK confirmed \in BOOLEAN :
          BrewStep(driving, [shot EXCEPT !.blind = FALSE, !.baseline = @ \/ confirmed])
    BY <1>6 DEF Pours
  <2> DEFINE sh == [shot EXCEPT !.blind = FALSE, !.baseline = @ \/ confirmed]
  <2>2. FlagsOk(sh, Wired)
    BY <1>1 DEF ShotFlags, FlagsOk, Shot
  <2>3. QED
    BY <1>2, <2>1, <2>2 DEF BrewStep
<1>7. CASE TargetReached
  <2> DEFINE sh == [shot EXCEPT !.blind = FALSE, !.timer = Stopped(@), !.auto_stopped = TRUE]
  <2>1. PICK long \in BOOLEAN : BrewStep(FALSE, EndShot(sh, long))
    BY <1>7 DEF TargetReached
  <2>2. sh \in Shot
    BY <1>1, StoppedType, Zenon DEF Shot
  <2> HIDE DEF sh
  <2>3. QED
    BY <1>2, <2>1, <2>2, EndShotFlags DEF BrewStep
<1>8. CASE Detected
  <2>1. Started.phase = "Brewing" /\ ~Started.stop_hint /\ ~Started.auto_stopped
        /\ ~Started.hint_fired
    BY <1>1 DEF Started, Shot
  <2>2. FlagsOk(Started, Wired)
    BY <2>1 DEF FlagsOk
  <2>3. QED
    BY <1>2, <1>8, <2>2 DEF Detected
<1>9. ASSUME NEW latch \in BOOLEAN
      PROVE  /\ Hinted(latch).phase = shot.phase
             /\ Hinted(latch).auto_stopped = shot.auto_stopped
             /\ Hinted(latch).stop_hint = (shot.stop_hint \/ latch)
             /\ Hinted(latch).hint_fired = (shot.hint_fired \/ (latch /\ ~shot.stop_hint))
  BY <1>1 DEF Hinted, Shot
<1>10. CASE DetectedPours
  <2>1. PICK latch \in BOOLEAN : Follows(driving, Hinted(latch))
    BY <1>10 DEF DetectedPours
  <2>2. shot.phase = "Brewing" /\ ~Wired
    BY <1>10 DEF DetectedPours, AtDetect
  <2>3. FlagsOk(Hinted(latch), Wired)
    BY <1>9, <2>2 DEF ShotFlags, FlagsOk
  <2>4. QED
    BY <1>2, <2>1, <2>3
<1>11. CASE DetectedEnds
  <2>1. PICK latch \in BOOLEAN, espresso \in BOOLEAN, long \in BOOLEAN :
          Follows(driving, EndShot([Hinted(latch) EXCEPT !.timer = Stopped(@)],
                                   espresso /\ long))
    BY <1>11 DEF DetectedEnds
  <2> DEFINE sh    == [Hinted(latch) EXCEPT !.timer = Stopped(@)]
             whole == espresso /\ long
  <2>2. sh \in Shot
    <3>1. ASSUME NEW hinted \in Shot
          PROVE  [hinted EXCEPT !.timer = Stopped(@)] \in Shot
      BY StoppedType, Zenon DEF Shot
    <3>2. QED
      BY <1>1, <3>1, HintedType, Zenon
  <2>3. Follows(driving, EndShot(sh, whole)) /\ whole \in BOOLEAN
    BY <2>1
  <2> HIDE DEF sh, whole
  <2>4. QED
    BY <1>2, <2>2, <2>3, EndShotFlags
<1>12. CASE DetectedAborts
  <2>1. PICK latch \in BOOLEAN :
          Follows(driving, [Hinted(latch) EXCEPT !.phase = "Idle", !.timer = "reset",
                                                 !.stop_hint = FALSE])
    BY <1>12 DEF DetectedAborts
  <2> DEFINE sh == [Hinted(latch) EXCEPT !.phase = "Idle", !.timer = "reset",
                                         !.stop_hint = FALSE]
  <2>2. sh.phase = "Idle" /\ ~sh.stop_hint
    BY <1>1, HintedType DEF Shot
  <2>3. FlagsOk(sh, Wired)
    BY <2>2 DEF FlagsOk
  <2>4. QED
    BY <1>2, <2>1, <2>3
<1>13. QED
  BY <1>3, <1>4, <1>5, <1>6, <1>7, <1>8, <1>10, <1>11, <1>12 DEF PollShot

(* The drip tail and the review move phases that have no hint.             *)
LEMMA RestFlags ==
  ASSUME TypeOK, ShotFlags, NEW phase \in Phases \ {"Brewing"},
         shot.phase # "Brewing", shot' = [shot EXCEPT !.phase = phase], settings' = settings
  PROVE  ShotFlags'
<1>1. shot'.phase = phase /\ shot'.stop_hint = shot.stop_hint
  BY DEF TypeOK, Shot
<1>2. QED
  BY <1>1 DEF ShotFlags, FlagsOk

LEMMA TailFlags ==
  ASSUME TypeOK, ShotFlags, PollSettle \/ PollFlush
  PROVE  ShotFlags'
<1>1. CASE SettleWaits
  <2>1. shot' = shot /\ settings' = settings
    BY <1>1 DEF SettleWaits, Rests, TypeOK, Shot
  <2>2. QED
    BY <2>1, FlagsKept
<1>2. CASE SettleGoesDark \/ Settles \/ ReviewTimesOut
  BY <1>2, RestFlags DEF SettleGoesDark, Settles, Settled, ReviewTimesOut, Rests
<1>3. CASE PollFlush
  BY <1>3, FlagsKept DEF PollFlush, FlushWaits, FlushGivesWay, FlushDeclined, FlushExpires,
     CupOff, FlushSkipped, FlushRuns, FlushEnds, FlushStep, PollEnds
<1>4. QED
  BY <1>1, <1>2, <1>3 DEF PollSettle

LEMMA CleanFlags ==
  ASSUME TypeOK, ShotFlags, PollClean
  PROVE  ShotFlags'
<1>1. CASE CleanTrips
  BY <1>1, ForgetsFlags DEF CleanTrips, Trip, CancelShot
<1>2. CASE ~CleanTrips
  BY <1>2, FlagsKept DEF PollClean, CleanLosesRelay, CleanWaits, CleanTakeover,
     ManualFlushEnds, PulseEnds, PulseBegins, Pulsing, CleanPolled
<1>3. QED
  BY <1>1, <1>2

(* What a changed setting leaves: no shot, or the same idle one.           *)
LEMMA SettingFlags ==
  ASSUME TypeOK, ShotFlags, Forgets \/ (shot.phase = "Idle" /\ shot' = shot)
  PROVE  ShotFlags'
<1>1. CASE Forgets
  BY <1>1, ForgetsFlags
<1>2. CASE shot.phase = "Idle" /\ shot' = shot
  BY <1>2 DEF ShotFlags, FlagsOk
<1>3. QED
  BY <1>1, <1>2

LEMMA CallFlags ==
  ASSUME TypeOK, ShotFlags, UserCalls, RigIsFixed
  PROVE  ShotFlags'
<1>1. CASE ToggleManualFlush \/ StartBackflush \/ CancelBackflush
  <2>1. Forgets \/ (shot' = shot /\ settings' = settings)
    BY <1>1 DEF ToggleManualFlush, StartBackflush, CancelBackflush, StartClean
  <2>2. QED
    BY <2>1, ForgetsFlags, FlagsKept
<1>2. CASE DismissReview
  BY <1>2, RestFlags DEF DismissReview
<1>3. CASE ResetPaddleBreaker
  BY <1>3, FlagsKept DEF ResetPaddleBreaker
<1>4. ASSUME NEW mode \in Modes, SetShotMode(mode)
      PROVE  ShotFlags'
  BY <1>4, SettingFlags DEF SetShotMode, CancelShotIf, CancelShot
<1>5. ASSUME NEW on \in BOOLEAN, SetWiredPaddle(on)
      PROVE  ShotFlags'
  BY <1>5, SettingFlags DEF SetWiredPaddle, CancelShotIf, CancelShot
<1>6. ASSUME NEW on \in BOOLEAN, SetFlushSeconds(on)
      PROVE  ShotFlags'
  <2>1. /\ shot' = shot /\ settings'.mode = settings.mode
        /\ settings'.wired = settings.wired /\ settings'.known = settings.known
    BY <1>6 DEF SetFlushSeconds, TypeOK, Settings
  <2>2. QED
    BY <2>1 DEF ShotFlags, Wired, Relay, EffMode
<1>7. ASSUME NEW on \in BOOLEAN, ScaleKnown(on)
      PROVE  ShotFlags'
  BY <1>7 DEF ScaleKnown, Changes, RigIsFixed, ShotFlags, FlagsOk, Wired, Relay
<1>8. ASSUME NEW wiring \in Wirings, SetPaddleWiring(wiring)
      PROVE  ShotFlags'
  BY <1>8, ForgetsFlags DEF SetPaddleWiring, CancelShot
<1>9. QED
  BY <1>1, <1>2, <1>3, <1>4, <1>5, <1>6, <1>7, <1>8 DEF UserCalls

LEMMA FlagsInvariant ==
  ASSUME RigIsFixed
  PROVE  Spec => []ShotFlags
<1>1. Init => ShotFlags
  BY DEF Init, ShotFlags, FlagsOk
<1>2. TypeOK /\ ShotFlags /\ [Next]_vars => ShotFlags'
  BY PaddleFlags, ShotStageFlags, TailFlags, CleanFlags, CallFlags, FlagsKept
     DEF Next, Poll, vars
<1>3. QED
  BY <1>1, <1>2, ControllerTypeCorrect, PTL DEF Spec

(* As long as no scale is paired or forgotten under way, and on a rig      *)
(* without a paddle line even then, the "flip the paddle" signal never     *)
(* outlives its shot, however that ends: by the detector, a rinse, the     *)
(* breaker, a changed mode, rig or wiring, or a blackout of the scale.     *)
THEOREM HintsDieWithTheirShot ==
  ASSUME RigIsFixed
  PROVE  Spec => []HintDiesWithShot
<1>1. ShotFlags => HintDiesWithShot
  BY DEF ShotFlags, FlagsOk, HintDiesWithShot
<1>2. QED
  BY <1>1, FlagsInvariant, PTL

(* Under the same condition, what finish_learning reads belongs to the     *)
(* shot it learns from: none carries an auto-stop from the shot before,    *)
(* and a fired hint is its own.                                            *)
THEOREM LessonsAreOfThisShot ==
  ASSUME RigIsFixed
  PROVE  Spec => []LessonIsThisShots
<1>1. ShotFlags => LessonIsThisShots
  BY DEF ShotFlags, FlagsOk, LessonIsThisShots
<1>2. QED
  BY <1>1, FlagsInvariant, PTL
=============================================================================
