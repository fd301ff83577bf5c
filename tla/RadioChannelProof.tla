------------------------- MODULE RadioChannelProof --------------------------
(***************************************************************************)
(* Proofs about RadioLinks, continued: what a step may do to the lease, to *)
(* the finder's backoff and to the connected flags, and that the links     *)
(* implement the exclusive channel of RadioChannel.                        *)
(***************************************************************************)
EXTENDS RadioLinksProof

USE DEF ScanPcs, DialPcs, ChunkPcs, LeasedPcs, FreePcs, Works, Gaps

(* Which slot a step is about.                                             *)
OthersStand(s) == \A i \in Slots \ {s} : task'[i] = task[i]

UpsKept == \A i \in Slots : task'[i].up = task[i].up

LinksKept == \A i \in Slots : slots'[i].connected = slots[i].connected

LEMMA OneTask ==
  ASSUME TypeOK, NEW s \in Slots, NEW new, task' = [task EXCEPT ![s] = new]
  PROVE  OthersStand(s) /\ task'[s] = new /\ (new.up = task[s].up => UpsKept)
  BY DEF TypeOK, OthersStand, UpsKept

LEMMA GotoStands ==
  ASSUME TypeOK, NEW s \in Slots, NEW pc, Goto(s, pc)
  PROVE  OthersStand(s) /\ UpsKept
<1>1. task[s] \in Task /\ task' = [task EXCEPT ![s] = [task[s] EXCEPT !.pc = pc]]
  BY DEF Goto, TypeOK
<1>2. [task[s] EXCEPT !.pc = pc].up = task[s].up
  BY <1>1 DEF Task
<1>3. QED
  BY <1>1, <1>2, OneTask

LEMMA MarkDownStands ==
  ASSUME TypeOK, NEW s \in Slots, NEW pc, MarkDown(s, pc)
  PROVE  OthersStand(s)
<1>1. task' = [task EXCEPT ![s] = [task[s] EXCEPT !.pc = pc, !.up = FALSE]]
  BY DEF MarkDown, TypeOK
<1>2. QED
  BY <1>1, OneTask

(* The steps that take a link up or down.                                  *)
Relinks(s) ==
  \/ \E pc \in {"top", "gate"} : MarkDown(s, pc)
  \/ LinkUp(s)
  \/ \E rejected \in BOOLEAN : VerifyFails(s, rejected)

(* Every other step of a task leaves its own belief about the link alone.  *)
LEMMA TaskStands ==
  ASSUME TypeOK, NEW s \in Slots, TaskStep(s)
  PROVE  OthersStand(s) /\ (UpsKept \/ Relinks(s))
<1>1. task[s] \in Task
  BY DEF TypeOK
<1>2. CASE \/ CheckGranted(s) \/ CheckIdle(s) \/ ScanEnds(s) \/ ScanReleased(s)
           \/ GatePoll(s) \/ DialHoldCheck(s) \/ DialStarts(s)
           \/ BackoffEnds(s) \/ ChunkStarts(s)
  <2>1. \E pc : Goto(s, pc)
    BY <1>2 DEF CheckGranted, CheckIdle, ScanEnds, ScanReleased, GatePoll, DialHoldCheck,
       DialStarts, BackoffEnds, ChunkStarts
  <2>2. QED
    BY <2>1, GotoStands
<1>3. CASE GateIdle(s) \/ GateRedial(s) \/ GateServe(s)
  <2>1. (\E pc \in {"top", "gate"} : MarkDown(s, pc)) \/ Goto(s, "top")
    BY <1>3 DEF GateIdle, GateRedial, GateServe
  <2>2. QED
    BY <2>1, MarkDownStands, GotoStands DEF Relinks
<1>4. ASSUME NEW rejected \in BOOLEAN, VerifyFails(s, rejected)
      PROVE  OthersStand(s) /\ Relinks(s)
  <2>1. \E pc : Goto(s, pc)
    BY <1>4 DEF VerifyFails
  <2>2. QED
    BY <1>4, <2>1, GotoStands DEF Relinks
<1>5. CASE LinkUp(s)
  <2>1. task' = [task EXCEPT ![s] = [task[s] EXCEPT !.pc = "top", !.up = TRUE]]
    BY <1>5 DEF LinkUp, TypeOK
  <2>2. QED
    BY <1>5, <2>1, OneTask DEF Relinks
<1>6. CASE \/ Top(s) \/ CopyAddress(s) \/ WasPreempted(s) \/ DialReleased(s)
           \/ ChunkTargets(s) \/ ChunkSighting(s) \/ ChunkReleased(s)
           \/ \E ok \in BOOLEAN : DialEnds(s, ok)
           \/ \E seen \in Slots \cup {NoSlot} : ChunkEnds(s, seen)
  <2>1. PICK new : task' = [task EXCEPT ![s] = new] /\ new.up = task[s].up
    <3>1. CASE Top(s)
      <4> DEFINE new == [task[s] EXCEPT !.peer = cfg[s].addr,
                           !.pc = IF slots[s].user_scan THEN "check" ELSE AfterHead(s)]
      <4>1. task' = [task EXCEPT ![s] = new] /\ new.up = task[s].up
        BY <1>1, <3>1 DEF Top, TypeOK, Task
      <4>2. QED
        BY <4>1
    <3>2. CASE CopyAddress(s)
      <4> DEFINE new == [task[s] EXCEPT !.peer = cfg[s].addr, !.pc = "gate"]
      <4>1. task' = [task EXCEPT ![s] = new] /\ new.up = task[s].up
        BY <1>1, <3>2 DEF CopyAddress, TypeOK, Task
      <4>2. QED
        BY <4>1
    <3>3. CASE WasPreempted(s)
      <4> DEFINE new == [task[s] EXCEPT !.cut = lease.preempted,
                           !.pc = IF task[s].pc = "dialed" THEN "tried" ELSE "heard"]
      <4>1. task' = [task EXCEPT ![s] = new] /\ new.up = task[s].up
        BY <1>1, <3>3 DEF WasPreempted, TypeOK, Task
      <4>2. QED
        BY <4>1
    <3>4. CASE DialReleased(s)
      <4> DEFINE new == [task[s] EXCEPT !.ok = FALSE, !.cut = FALSE,
                           !.pc = IF task[s].ok THEN "linked"
                                  ELSE IF task[s].cut THEN "top" ELSE "backoff"]
      <4>1. task' = [task EXCEPT ![s] = new] /\ new.up = task[s].up
        BY <1>1, <3>4 DEF DialReleased, TypeOK, Task
      <4>2. QED
        BY <4>1
    <3>5. CASE ChunkTargets(s)
      <4> DEFINE new == [task[s] EXCEPT !.targets = MissingScales,
                           !.pc = IF MissingScales = {} THEN "found" ELSE "tuned"]
      <4>1. task' = [task EXCEPT ![s] = new] /\ new.up = task[s].up
        BY <1>1, <3>5 DEF ChunkTargets, TypeOK, Task
      <4>2. QED
        BY <4>1
    <3>6. CASE ChunkSighting(s)
      <4> DEFINE new == [task[s] EXCEPT !.pc = "found", !.seen = NoSlot]
      <4>1. task' = [task EXCEPT ![s] = new] /\ new.up = task[s].up
        BY <1>1, <3>6 DEF ChunkSighting, TypeOK, Task
      <4>2. QED
        BY <4>1
    <3>7. CASE ChunkReleased(s)
      <4> DEFINE new == [task[s] EXCEPT !.pc = "top", !.cut = FALSE]
      <4>1. task' = [task EXCEPT ![s] = new] /\ new.up = task[s].up
        BY <1>1, <3>7 DEF ChunkReleased, TypeOK, Task
      <4>2. QED
        BY <4>1
    <3>8. ASSUME NEW seen \in Slots \cup {NoSlot}, ChunkEnds(s, seen)
          PROVE  \E new : task' = [task EXCEPT ![s] = new] /\ new.up = task[s].up
      <4> DEFINE new == [task[s] EXCEPT !.seen = seen, !.targets = {},
                           !.pc = IF seen = NoSlot THEN "found" ELSE "sighted"]
      <4>1. task' = [task EXCEPT ![s] = new] /\ new.up = task[s].up
        BY <1>1, <3>8 DEF ChunkEnds, TypeOK, Task
      <4>2. QED
        BY <4>1
    <3>9. ASSUME NEW ok \in BOOLEAN, DialEnds(s, ok)
          PROVE  \E new : task' = [task EXCEPT ![s] = new] /\ new.up = task[s].up
      <4> DEFINE new == [task[s] EXCEPT !.pc = "dialed", !.ok = ok]
      <4>1. task' = [task EXCEPT ![s] = new] /\ new.up = task[s].up
        BY <1>1, <3>9 DEF DialEnds, TypeOK, Task
      <4>2. QED
        BY <4>1
    <3>10. QED
      BY <1>6, <3>1, <3>2, <3>3, <3>4, <3>5, <3>6, <3>7, <3>8, <3>9
  <2>2. QED
    BY <2>1, OneTask
<1>7. QED
  BY <1>2, <1>3, <1>4, <1>5, <1>6 DEF TaskStep

(* No other thread moves a task.                                           *)
LEMMA OthersMoveNoTask ==
  ASSUME \/ \E s \in Slots : Interference(s) \/ ScanRequested(s) \/ LinkLost(s)
         \/ Time
         \/ UNCHANGED vars
  PROVE  UNCHANGED task
  BY DEF Interference, ScanTapped, SetToken, SetAddress, SetConnectEnabled, SetPartnerMode,
     Park, ScanRequested, LinkLost, Time, vars, linkVars

-----------------------------------------------------------------------------
(* The connected flags.                                                    *)

(* A slot record replaced by one with the same flag.                       *)
LEMMA OneSlot ==
  ASSUME ArbiterTypeOK, NEW s \in Slots, NEW new, slots' = [slots EXCEPT ![s] = new],
         new.connected = slots[s].connected
  PROVE  LinksKept
  BY DEF ArbiterTypeOK, LinksKept

LEMMA SyncKeepsLinks ==
  ASSUME ArbiterTypeOK, NEW s \in Slots, NEW addr, NEW wanted, NEW partner,
         Sync(s, addr, wanted, partner)
  PROVE  LinksKept
<1> DEFINE new == [slots[s] EXCEPT !.addr = addr, !.wanted = wanted, !.partner = partner,
                     !.sighted = IF addr = slots[s].addr THEN @ ELSE FALSE]
<1>1. slots[s] \in Slot
  BY DEF ArbiterTypeOK
<1>2. new.connected = slots[s].connected
  BY <1>1 DEF Slot
<1>3. slots' = [slots EXCEPT ![s] = new]
  BY DEF Sync
<1>4. QED
  BY <1>2, <1>3, OneSlot

LEMMA GrantKeepsLinks ==
  ASSUME ArbiterTypeOK, NEW s \in Slots, Grant(s)
  PROVE  LinksKept
<1>1. ASSUME NEW i \in Slots
      PROVE  slots'[i].connected = slots[i].connected
  <2>1. slots[i] \in Slot
    BY DEF ArbiterTypeOK
  <2>2. slots'[i] = [slots[i] EXCEPT
                       !.later = AfterServing(ServedBy(s, WorkFor(s)), i),
                       !.sighted = IF i = s /\ WorkFor(s) = "direct_connect"
                                     THEN FALSE ELSE @]
    BY DEF Grant
  <2>3. QED
    BY <2>1, <2>2 DEF Slot
<1>2. QED
  BY <1>1 DEF LinksKept

LEMMA FlagKeepsLinks ==
  ASSUME ArbiterTypeOK, NEW s \in Slots, NEW b,
         \/ slots' = [slots EXCEPT ![s].user_scan = b]
         \/ slots' = [slots EXCEPT ![s].sighted = b]
         \/ slots' = [slots EXCEPT ![s].parked = b]
  PROVE  LinksKept
<1>1. slots[s] \in Slot
  BY DEF ArbiterTypeOK
<1>2. /\ [slots[s] EXCEPT !.user_scan = b].connected = slots[s].connected
      /\ [slots[s] EXCEPT !.sighted = b].connected = slots[s].connected
      /\ [slots[s] EXCEPT !.parked = b].connected = slots[s].connected
  BY <1>1 DEF Slot
<1>3. \/ slots' = [slots EXCEPT ![s] = [slots[s] EXCEPT !.user_scan = b]]
      \/ slots' = [slots EXCEPT ![s] = [slots[s] EXCEPT !.sighted = b]]
      \/ slots' = [slots EXCEPT ![s] = [slots[s] EXCEPT !.parked = b]]
  OBVIOUS
<1>4. QED
  BY <1>2, <1>3, OneSlot

LEMMA ReleaseKeepsLinks ==
  ASSUME ArbiterTypeOK, NEW s \in Slots, NEW cut, Release(s, cut)
  PROVE  LinksKept
<1>1. slots' = slots \/ slots' = [slots EXCEPT ![s].user_scan = FALSE]
  BY DEF Release
<1>2. QED
  BY <1>1, FlagKeepsLinks DEF LinksKept

LEMMA SightingKeepsLinks ==
  ASSUME ArbiterTypeOK, NEW seen \in Slots \cup {NoSlot}, ReportSighting(seen)
  PROVE  LinksKept
<1>1. CASE seen \in Slots
  BY <1>1, FlagKeepsLinks DEF ReportSighting
<1>2. CASE seen \notin Slots
  BY <1>2 DEF ReportSighting, ArbiterTypeOK, LinksKept
<1>3. QED
  BY <1>1, <1>2

(* Every other step of a task leaves the arbiter's flags alone, too.       *)
LEMMA TaskKeepsLinks ==
  ASSUME IInv, NEW s \in Slots, TaskStep(s)
  PROVE  LinksKept \/ Relinks(s)
<1>1. TypeOK /\ ArbiterTypeOK
  BY DEF IInv, TypeOK
<1>2. CASE UNCHANGED slots
  BY <1>2 DEF LinksKept
<1>3. CASE \/ ScanEnds(s) \/ CopyAddress(s) \/ DialHoldCheck(s) \/ DialStarts(s)
           \/ WasPreempted(s) \/ (\E ok \in BOOLEAN : DialEnds(s, ok)) \/ BackoffEnds(s)
           \/ ChunkTargets(s) \/ ChunkStarts(s) \/ CheckIdle(s)
           \/ \E seen \in Slots \cup {NoSlot} : ChunkEnds(s, seen)
  <2>1. UNCHANGED slots
    BY <1>3 DEF ScanEnds, CopyAddress, DialHoldCheck, DialStarts, WasPreempted, DialEnds,
       BackoffEnds, ChunkTargets, ChunkStarts, CheckIdle, PollIdle, ChunkEnds, arbiterVars
  <2>2. QED
    BY <1>2, <2>1
<1>4. CASE GateIdle(s) \/ GateRedial(s) \/ GateServe(s)
  <2>1. (\E pc \in {"top", "gate"} : MarkDown(s, pc)) \/ UNCHANGED slots
    BY <1>4 DEF GateIdle, GateRedial, GateServe, arbiterVars
  <2>2. QED
    BY <1>2, <2>1 DEF Relinks
<1>5. CASE Top(s)
  BY <1>1, <1>5, SyncKeepsLinks DEF Top
<1>6. CASE CheckGranted(s) \/ GatePoll(s)
  <2>1. Grant(s) \/ UNCHANGED slots
    BY <1>6 DEF CheckGranted, GatePoll, PollIdle, arbiterVars
  <2>2. QED
    BY <1>1, <1>2, <2>1, GrantKeepsLinks
<1>7. CASE ScanReleased(s) \/ DialReleased(s) \/ ChunkReleased(s)
  BY <1>1, <1>7, ReleaseKeepsLinks DEF ScanReleased, DialReleased, ChunkReleased
<1>8. CASE ChunkSighting(s)
  <2>1. task[s].seen \in Slots \cup {NoSlot}
    BY <1>1 DEF TypeOK, Task
  <2>2. QED
    BY <1>1, <1>8, <2>1, SightingKeepsLinks DEF ChunkSighting
<1>9. QED
  BY <1>3, <1>4, <1>5, <1>6, <1>7, <1>8 DEF TaskStep, Relinks

(* No other thread but set_partner_mode touches a flag, and it clears it.  *)
LEMMA OthersKeepLinks ==
  ASSUME IInv,
         \/ \E s \in Slots : Interference(s) \/ ScanRequested(s) \/ LinkLost(s)
         \/ Time
         \/ UNCHANGED vars
  PROVE  LinksKept \/ \E s \in Slots : SetConnected(s, FALSE)
<1>1. TypeOK /\ ArbiterTypeOK
  BY DEF IInv, TypeOK
<1>2. UNCHANGED slots => LinksKept
  BY DEF LinksKept
<1>3. ASSUME NEW s \in Slots, Interference(s)
      PROVE  LinksKept \/ SetConnected(s, FALSE)
  <2>1. ASSUME NEW src \in ParkSources, NEW on \in BOOLEAN, Park(s, src, on)
        PROVE  LinksKept
    BY <1>1, <2>1, FlagKeepsLinks DEF Park, SetParked
  <2>2. UNCHANGED slots \/ SetConnected(s, FALSE)
          \/ \E src \in ParkSources, on \in BOOLEAN : Park(s, src, on)
    BY <1>3 DEF Interference, ScanTapped, SetToken, SetAddress, SetConnectEnabled,
       SetPartnerMode, AbortSlot, arbiterVars
  <2>3. QED
    BY <1>2, <2>1, <2>2
<1>4. ASSUME NEW s \in Slots, ScanRequested(s)
      PROVE  LinksKept
  BY <1>1, <1>4, FlagKeepsLinks DEF ScanRequested, RequestUserScan
<1>5. ASSUME NEW s \in Slots, LinkLost(s)
      PROVE  LinksKept
  BY <1>2, <1>5 DEF LinkLost, arbiterVars
<1>6. CASE Time
  BY <1>1, <1>2, <1>6, FlagKeepsLinks DEF Time, SightingGoesStale, ChunkGapEnds
<1>7. CASE UNCHANGED vars
  BY <1>2, <1>7 DEF vars, arbiterVars
<1>8. QED
  BY <1>3, <1>4, <1>5, <1>6, <1>7

(* set_connected writes the flag of its own slot.                          *)
LEMMA SetConnectedFlags ==
  ASSUME ArbiterTypeOK, NEW s \in Slots, NEW up \in BOOLEAN, SetConnected(s, up)
  PROVE  /\ slots'[s].connected = up
         /\ \A i \in Slots \ {s} : slots'[i].connected = slots[i].connected
<1> DEFINE new == [slots[s] EXCEPT !.connected = up,
                     !.sighted = IF up /\ ~slots[s].connected THEN FALSE ELSE @]
<1>1. slots[s] \in Slot
  BY DEF ArbiterTypeOK
<1>2. new.connected = up
  BY <1>1 DEF Slot
<1>3. slots' = [slots EXCEPT ![s] = new]
  BY <1>1 DEF SetConnected, ArbiterTypeOK, Slot
<1> HIDE DEF new
<1>4. QED
  BY <1>2, <1>3 DEF ArbiterTypeOK

(* A link taken up or down is taken so on both sides at once; a reading    *)
(* that fails leaves the task's own belief, which was "down" already, and  *)
(* clears the flag.                                                        *)
LEMMA RelinksTogether ==
  ASSUME IInv, NEW s \in Slots, Relinks(s), ConnectedIsBacked
  PROVE  ConnectedIsBacked'
<1>1. TypeOK /\ ArbiterTypeOK /\ task[s] \in Task
  BY DEF IInv, TypeOK
<1>2. CASE SetConnected(s, FALSE) /\ \A i \in Slots \ {s} : task'[i].up = task[i].up
  BY <1>1, <1>2, SetConnectedFlags DEF ConnectedIsBacked
<1>3. ASSUME NEW pc \in {"top", "gate"}, MarkDown(s, pc)
      PROVE  ConnectedIsBacked'
  BY <1>1, <1>2, <1>3, MarkDownStands DEF MarkDown, OthersStand
<1>4. ASSUME NEW rejected \in BOOLEAN, VerifyFails(s, rejected)
      PROVE  ConnectedIsBacked'
  <2>1. \E pc : Goto(s, pc)
    BY <1>4 DEF VerifyFails
  <2>2. OthersStand(s)
    BY <1>1, <2>1, GotoStands
  <2>3. QED
    BY <1>2, <1>4, <2>2 DEF VerifyFails, OthersStand
<1>5. CASE LinkUp(s)
  <2>1. task' = [task EXCEPT ![s] = [task[s] EXCEPT !.pc = "top", !.up = TRUE]]
    BY <1>5 DEF LinkUp, TypeOK
  <2>2. [task[s] EXCEPT !.pc = "top", !.up = TRUE].up = TRUE
    BY <1>1 DEF Task
  <2>3. OthersStand(s) /\ task'[s].up = TRUE
    BY <1>1, <2>1, <2>2, OneTask
  <2>4. \A i \in Slots \ {s} : slots'[i].connected = slots[i].connected
    BY <1>1, <1>5, SetConnectedFlags DEF LinkUp
  <2>5. QED
    BY <2>3, <2>4 DEF ConnectedIsBacked, OthersStand
<1>6. QED
  BY <1>3, <1>4, <1>5 DEF Relinks

(* A slot the arbiter takes for connected has a link task that believes it *)
(* too, whatever set_partner_mode, a lost link or a rejected token do to   *)
(* the two sides: a slot wrongly "connected" would never be dialled again. *)
THEOREM ConnectedLinksAreBacked == Spec => []ConnectedIsBacked
<1>1. Init => ConnectedIsBacked
  BY DEF Init, ArbiterInit, ConnectedIsBacked
<1>2. IInv /\ ConnectedIsBacked /\ [Next]_vars => ConnectedIsBacked'
  <2> SUFFICES ASSUME IInv, ConnectedIsBacked, [Next]_vars
               PROVE  ConnectedIsBacked'
    OBVIOUS
  <2>1. TypeOK /\ ArbiterTypeOK
    BY DEF IInv, TypeOK
  <2>2. CASE UpsKept /\ LinksKept
    BY <2>2 DEF UpsKept, LinksKept, ConnectedIsBacked
  <2>3. ASSUME NEW s \in Slots, TaskStep(s)
        PROVE  ConnectedIsBacked'
    BY <2>1, <2>2, <2>3, TaskStands, TaskKeepsLinks, RelinksTogether
  <2>4. CASE \/ \E s \in Slots : Interference(s) \/ ScanRequested(s) \/ LinkLost(s)
             \/ Time
             \/ UNCHANGED vars
    <3>1. UNCHANGED task
      BY <2>4, OthersMoveNoTask
    <3>2. LinksKept \/ \E s \in Slots : SetConnected(s, FALSE)
      BY <2>4, OthersKeepLinks
    <3>3. ASSUME NEW s \in Slots, SetConnected(s, FALSE)
          PROVE  ConnectedIsBacked'
      BY <2>1, <3>1, <3>3, SetConnectedFlags DEF ConnectedIsBacked
    <3>4. QED
      BY <2>2, <3>1, <3>2, <3>3 DEF UpsKept
  <2>5. QED
    BY <2>3, <2>4 DEF Next
<1>3. QED
  BY <1>1, <1>2, Invariant, PTL DEF Spec

-----------------------------------------------------------------------------
(* What a step may do to the lease.                                        *)

LeaseSteps ==
  \/ lease' = lease
  \/ Preemptible /\ lease' = [lease EXCEPT !.preempted = TRUE]
  \/ /\ lease.holder = NoSlot
     /\ \E s \in Slots, work \in Works :
          lease' = [holder |-> s, work |-> work, preempted |-> FALSE]
  \/ lease' = NoLease

LEMMA PreemptSteps ==
  ASSUME NEW c, PreemptIf(c), c => Preemptible
  PROVE  LeaseSteps
  BY DEF PreemptIf, Preempt, LeaseSteps

LEMMA GrantSteps ==
  ASSUME NEW s \in Slots, Grant(s)
  PROVE  LeaseSteps
<1>1. WorkFor(s) \in Works
  BY WorkForType DEF Grant, MayTake, Ready
<1>2. QED
  BY <1>1 DEF Grant, MayTake, LeaseSteps

LEMMA HeldIsPreemptible ==
  ASSUME NEW s \in Slots, HoldsPreemptible(s)
  PROVE  Preemptible
  BY SlotsAssumption DEF HoldsPreemptible, Preemptible

LEMMA TaskLeaseSteps ==
  ASSUME NEW s \in Slots, TaskStep(s)
  PROVE  LeaseSteps
<1>1. CASE Top(s)
  <2> DEFINE drop == slots[s].wanted /\ ~Wanted(s) /\ HoldsPreemptible(s)
  <2>1. PreemptIf(drop)
    BY <1>1 DEF Top, Sync
  <2>2. drop => Preemptible
    BY HeldIsPreemptible
  <2> HIDE DEF drop
  <2>3. QED
    BY <2>1, <2>2, PreemptSteps
<1>2. CASE CheckGranted(s)
  BY <1>2, GrantSteps DEF CheckGranted, arbiterVars, LeaseSteps
<1>3. CASE CheckIdle(s)
  BY <1>3, PreemptSteps DEF CheckIdle, PollIdle
<1>4. CASE GatePoll(s)
  BY <1>4, GrantSteps, PreemptSteps DEF GatePoll, PollIdle
<1>5. CASE ScanReleased(s) \/ DialReleased(s) \/ ChunkReleased(s)
  BY <1>5 DEF ScanReleased, DialReleased, ChunkReleased, Release, LeaseSteps
<1>6. CASE GateIdle(s) \/ GateRedial(s) \/ GateServe(s) \/ LinkUp(s)
           \/ \E rejected \in BOOLEAN : VerifyFails(s, rejected)
  BY <1>6 DEF GateIdle, GateRedial, GateServe, LinkUp, VerifyFails, MarkDown, SetConnected,
     arbiterVars, LeaseSteps
<1>7. CASE \/ ScanEnds(s) \/ CopyAddress(s) \/ DialHoldCheck(s) \/ DialStarts(s)
           \/ WasPreempted(s) \/ (\E ok \in BOOLEAN : DialEnds(s, ok)) \/ BackoffEnds(s)
           \/ ChunkTargets(s) \/ ChunkStarts(s) \/ ChunkSighting(s)
           \/ \E seen \in Slots \cup {NoSlot} : ChunkEnds(s, seen)
  BY <1>7 DEF ScanEnds, CopyAddress, DialHoldCheck, DialStarts, WasPreempted, DialEnds,
     BackoffEnds, ChunkTargets, ChunkStarts, ChunkSighting, ReportSighting, ChunkEnds,
     arbiterVars, LeaseSteps
<1>8. QED
  BY <1>1, <1>2, <1>3, <1>4, <1>5, <1>6, <1>7 DEF TaskStep

LEMMA NextLeaseSteps ==
  ASSUME [Next]_vars
  PROVE  LeaseSteps
<1>1. ASSUME NEW s \in Slots, Interference(s)
      PROVE  LeaseSteps
  <2>1. ASSUME NEW src \in ParkSources, NEW on \in BOOLEAN, Park(s, src, on)
        PROVE  LeaseSteps
    <3> DEFINE yield ==
                 /\ (IF on THEN slots[s].parked \cup {src} ELSE slots[s].parked \ {src}) # {}
                 /\ HoldsPreemptible(s)
    <3>1. PreemptIf(yield)
      BY <2>1 DEF Park, SetParked
    <3>2. yield => Preemptible
      BY HeldIsPreemptible
    <3> HIDE DEF yield
    <3>3. QED
      BY <3>1, <3>2, PreemptSteps
  <2>2. AbortSlot(s) => LeaseSteps
    BY PreemptSteps, HeldIsPreemptible DEF AbortSlot
  <2>3. QED
    BY <1>1, <2>1, <2>2 DEF Interference, ScanTapped, SetToken, SetAddress, SetConnectEnabled,
       SetPartnerMode, SetConnected, arbiterVars, LeaseSteps
<1>2. ASSUME NEW s \in Slots, ScanRequested(s) \/ LinkLost(s)
      PROVE  LeaseSteps
  BY <1>2, PreemptSteps DEF ScanRequested, RequestUserScan, LinkLost, arbiterVars, LeaseSteps
<1>3. CASE Time \/ UNCHANGED vars
  BY <1>3 DEF Time, SightingGoesStale, ChunkGapEnds, vars, arbiterVars, LeaseSteps
<1>4. QED
  BY <1>1, <1>2, <1>3, TaskLeaseSteps DEF Next

(* What UserScanRunsOut rests on: the preempted flag of an earlier lease   *)
(* does not survive into a user scan's.                                    *)
ScanNotCut == lease.work = "user_scan" /\ lease.holder # NoSlot => ~lease.preempted

(* A tapped Scan that has the radio keeps it until its own task releases   *)
(* it: no other link, park, Forget or switched-off slot cuts it short, and *)
(* the radio does not pass to another slot in the same step.               *)
THEOREM UserScansRunOut == Spec => UserScanRunsOut
<1>1. Init => ScanNotCut
  BY DEF Init, ArbiterInit, NoLease, ScanNotCut
<1>2. IInv /\ ScanNotCut /\ [Next]_vars =>
        /\ ScanNotCut'
        /\ lease.work = "user_scan" /\ lease.holder # NoSlot =>
             ~lease'.preempted /\ lease'.holder \in {lease.holder, NoSlot}
  <2> SUFFICES ASSUME IInv, ScanNotCut, [Next]_vars
               PROVE  /\ ScanNotCut'
                      /\ lease.work = "user_scan" /\ lease.holder # NoSlot =>
                           ~lease'.preempted /\ lease'.holder \in {lease.holder, NoSlot}
    OBVIOUS
  <2>1. lease \in [holder : Slots \cup {NoSlot}, work : Works \cup {"idle"},
                   preempted : BOOLEAN]
    BY DEF IInv, TypeOK, ArbiterTypeOK
  <2>2. LeaseSteps
    BY NextLeaseSteps
  <2>3. CASE lease' = lease
    BY <2>3 DEF ScanNotCut
  <2>4. CASE Preemptible /\ lease' = [lease EXCEPT !.preempted = TRUE]
    BY <2>1, <2>4 DEF ScanNotCut, Preemptible
  <2>5. CASE /\ lease.holder = NoSlot
             /\ \E s \in Slots, work \in Works :
                  lease' = [holder |-> s, work |-> work, preempted |-> FALSE]
    BY <2>5 DEF ScanNotCut
  <2>6. CASE lease' = NoLease
    BY <2>6 DEF ScanNotCut, NoLease
  <2>7. QED
    BY <2>2, <2>3, <2>4, <2>5, <2>6 DEF LeaseSteps
<1>3. QED
  BY <1>1, <1>2, Invariant, PTL DEF Spec, UserScanRunsOut

-----------------------------------------------------------------------------
(* The finder's backoff.                                                   *)

GapKept == chunk'.gap \in {chunk.gap, 1}

LEMMA TouchKeepsGap ==
  ASSUME ArbiterTypeOK, NEW c, chunk' = TouchedIf(c) \/ chunk' = Touched
  PROVE  GapKept
  BY DEF ArbiterTypeOK, TouchedIf, Touched, GapKept

LEMMA GrantKeepsGap ==
  ASSUME ArbiterTypeOK, NEW s \in Slots, Grant(s)
  PROVE  GapKept
  BY DEF ArbiterTypeOK, Grant, GapKept

(* Only the end of a chunk lengthens the gap.                              *)
LEMMA TaskKeepsGap ==
  ASSUME IInv, NEW s \in Slots, TaskStep(s)
  PROVE  GapKept \/ ChunkReleased(s)
<1>1. TypeOK /\ ArbiterTypeOK
  BY DEF IInv, TypeOK
<1>2. CASE Top(s)
  BY <1>1, <1>2, TouchKeepsGap DEF Top, Sync
<1>3. CASE CheckGranted(s) \/ CheckIdle(s) \/ GatePoll(s)
  <2>1. Grant(s) \/ UNCHANGED chunk
    BY <1>3 DEF CheckGranted, CheckIdle, GatePoll, PollIdle, arbiterVars
  <2>2. QED
    BY <1>1, <2>1, GrantKeepsGap DEF GapKept
<1>4. CASE ScanReleased(s) \/ DialReleased(s)
  <2>1. lease.work # "finder_chunk"
    BY <1>4 DEF IInv, LeaseInv, GrantIsLive, WorkMatches, ScanReleased, DialReleased, At
  <2>2. QED
    BY <1>4, <2>1 DEF ScanReleased, DialReleased, Release, GapKept
<1>5. CASE GateIdle(s) \/ GateRedial(s) \/ GateServe(s) \/ LinkUp(s)
           \/ \E rejected \in BOOLEAN : VerifyFails(s, rejected)
  <2>1. UNCHANGED chunk \/ \E c : chunk' = TouchedIf(c)
    BY <1>5 DEF GateIdle, GateRedial, GateServe, LinkUp, VerifyFails, MarkDown, SetConnected,
       arbiterVars
  <2>2. QED
    BY <1>1, <2>1, TouchKeepsGap DEF GapKept
<1>6. CASE \/ ScanEnds(s) \/ CopyAddress(s) \/ DialHoldCheck(s) \/ DialStarts(s)
           \/ WasPreempted(s) \/ (\E ok \in BOOLEAN : DialEnds(s, ok)) \/ BackoffEnds(s)
           \/ ChunkTargets(s) \/ ChunkStarts(s)
           \/ \E seen \in Slots \cup {NoSlot} : ChunkEnds(s, seen)
  BY <1>6 DEF ScanEnds, CopyAddress, DialHoldCheck, DialStarts, WasPreempted, DialEnds,
     BackoffEnds, ChunkTargets, ChunkStarts, ChunkEnds, arbiterVars, GapKept
<1>7. CASE ChunkSighting(s)
  BY <1>1, <1>7 DEF ChunkSighting, ReportSighting, ArbiterTypeOK, GapKept
<1>8. QED
  BY <1>2, <1>3, <1>4, <1>5, <1>6, <1>7 DEF TaskStep

LEMMA OthersKeepGap ==
  ASSUME ArbiterTypeOK,
         \/ \E s \in Slots : Interference(s) \/ ScanRequested(s) \/ LinkLost(s)
         \/ Time
         \/ UNCHANGED vars
  PROVE  GapKept
<1>1. \/ UNCHANGED chunk
      \/ \E c : chunk' = TouchedIf(c)
      \/ chunk' = Touched
      \/ chunk' = [chunk EXCEPT !.due = TRUE]
  <2>1. ASSUME NEW s \in Slots, Interference(s)
        PROVE  UNCHANGED chunk \/ (\E c : chunk' = TouchedIf(c)) \/ chunk' = Touched
    BY <2>1 DEF Interference, ScanTapped, SetToken, SetAddress, SetConnectEnabled,
       SetPartnerMode, Park, AbortSlot, SetConnected, SetParked, arbiterVars
  <2>2. ASSUME NEW s \in Slots, ScanRequested(s) \/ LinkLost(s)
        PROVE  UNCHANGED chunk \/ chunk' = Touched
    BY <2>2 DEF ScanRequested, RequestUserScan, LinkLost, arbiterVars
  <2>3. CASE Time \/ UNCHANGED vars
    BY <2>3 DEF Time, SightingGoesStale, ChunkGapEnds, vars, arbiterVars
  <2>4. QED
    BY <2>1, <2>2, <2>3
<1>2. QED
  BY <1>1, TouchKeepsGap DEF ArbiterTypeOK, GapKept

(* The finder listens less often only after a chunk that ran its full time *)
(* and heard nothing: one cut short by a park, a Forget or a user scan, or *)
(* one whose sighting came with its end, never delays the next.            *)
THEOREM EmptyChunksAloneBackOff == Spec => OnlyEmptyChunksBackOff
<1>1. IInv /\ [Next]_vars =>
        [chunk'.gap > chunk.gap =>
           /\ lease.work = "finder_chunk" /\ ~chunk.sighted
           /\ ~task[lease.holder].cut]_vars
  <2> SUFFICES ASSUME IInv, [Next]_vars, chunk'.gap > chunk.gap
               PROVE  /\ lease.work = "finder_chunk" /\ ~chunk.sighted
                      /\ ~task[lease.holder].cut
    OBVIOUS
  <2>1. TypeOK /\ ArbiterTypeOK /\ chunk \in [due : BOOLEAN, gap : Gaps, sighted : BOOLEAN]
    BY DEF IInv, TypeOK, ArbiterTypeOK
  <2>2. ~GapKept
    BY <2>1 DEF GapKept
  <2>3. PICK s \in Slots : ChunkReleased(s)
    BY <2>1, <2>2, TaskKeepsGap, OthersKeepGap DEF Next
  <2>4. lease.work = "finder_chunk" /\ lease.holder = s /\ Release(s, task[s].cut)
    BY <2>3 DEF IInv, LeaseInv, GrantIsLive, WorkMatches, ChunkReleased, Release, At
  <2>5. ~Productive(task[s].cut)
    BY <2>1, <2>2, <2>4 DEF Release, GapKept
  <2>6. QED
    BY <2>4, <2>5 DEF Productive
<1>2. QED
  BY <1>1, Invariant, PTL DEF Spec, OnlyEmptyChunksBackOff

-----------------------------------------------------------------------------
(* The links implement the exclusive channel.                              *)

LEMMA ListeningIs ==
  ASSUME RadioExclusive
  PROVE  /\ \A s \in Slots : OnAir(s) => listening = s
         /\ (\A s \in Slots : ~OnAir(s)) => listening = NoSlot
  BY DEF RadioExclusive, listening

LEMMA ListeningIsNext ==
  ASSUME RadioExclusive'
  PROVE  /\ \A s \in Slots : OnAir(s)' => listening' = s
         /\ (\A s \in Slots : ~OnAir(s)') => listening' = NoSlot
  BY DEF RadioExclusive, listening

(* A step puts at most one slot on the air or takes it off, so the channel *)
(* cannot pass from one link to another within it.                         *)
LEMMA OneSlotMoves ==
  ASSUME TypeOK, [Next]_vars
  PROVE  UNCHANGED task \/ \E s \in Slots : OthersStand(s)
<1>1. ASSUME NEW s \in Slots, TaskStep(s)
      PROVE  OthersStand(s)
  BY <1>1, TaskStands
<1>2. QED
  BY <1>1, OthersMoveNoTask DEF Next

LEMMA ChannelStep ==
  ASSUME TypeOK, RadioExclusive, RadioExclusive', [Next]_vars
  PROVE  [Channel!ChannelNext]_listening
<1>1. CASE UNCHANGED task
  BY <1>1 DEF listening, OnAir
<1>2. ASSUME NEW s \in Slots, OthersStand(s)
      PROVE  [Channel!ChannelNext]_listening
  <2>1. \A i \in Slots \ {s} : OnAir(i)' <=> OnAir(i)
    BY <1>2 DEF OthersStand, OnAir
  <2>2. CASE OnAir(s) <=> OnAir(s)'
    <3>1. \A i \in Slots : OnAir(i)' <=> OnAir(i)
      BY <2>1, <2>2
    <3>2. listening' = listening
      BY <3>1, ListeningIs, ListeningIsNext
    <3>3. QED
      BY <3>2
  <2>3. CASE OnAir(s) /\ ~OnAir(s)'
    <3>1. \A i \in Slots : ~OnAir(i)'
      BY <2>1, <2>3 DEF RadioExclusive
    <3>2. listening = s /\ listening' = NoSlot
      BY <2>3, <3>1, ListeningIs, ListeningIsNext
    <3>3. Channel!End
      BY <3>2, SlotsAssumption DEF Channel!End
    <3>4. QED
      BY <3>3 DEF Channel!ChannelNext
  <2>4. CASE ~OnAir(s) /\ OnAir(s)'
    <3>1. \A i \in Slots : ~OnAir(i)
      BY <2>1, <2>4 DEF RadioExclusive
    <3>2. listening = NoSlot /\ listening' = s
      BY <2>4, <3>1, ListeningIs, ListeningIsNext
    <3>3. Channel!Begin(s)
      BY <3>2 DEF Channel!Begin
    <3>4. QED
      BY <3>3 DEF Channel!ChannelNext
  <2>5. QED
    BY <2>2, <2>3, <2>4
<1>3. QED
  BY <1>1, <1>2, OneSlotMoves

(* The promise in the comment over class RadioArbiter, for any number of   *)
(* links: a listening procedure begins only when the host runs none, and   *)
(* the host falls quiet before the next link's begins.                     *)
THEOREM LinksShareTheChannel == Spec => ListensInTurn
<1>1. Init => Channel!ChannelInit
  BY DEF Init, listening, OnAir, Channel!ChannelInit
<1>2. TypeOK /\ RadioExclusive /\ RadioExclusive' /\ [Next]_vars =>
        [Channel!ChannelNext]_listening
  BY ChannelStep
<1>3. QED
  BY <1>1, <1>2, TypeCorrect, OneListener, PTL DEF Spec, ListensInTurn, Channel!ChannelSafety
=============================================================================
