-------------------------- MODULE RadioLinksProof --------------------------
(***************************************************************************)
(* Proofs about RadioLinks, for any number of slots, any addresses, any    *)
(* number of interferences.                                                *)
(***************************************************************************)
EXTENDS RadioLinks, TLAPS

USE DEF ScanPcs, DialPcs, ChunkPcs, LeasedPcs, FreePcs, Works, Gaps

(* The arbiter's operators, for the steps that call one.                   *)
LEMMA WorkForType ==
  ASSUME NEW s \in Slots
  PROVE  /\ WorkFor(s) \in Works \cup {"idle"}
         /\ WorkFor(s) = "user_scan" => slots[s].user_scan
         /\ slots[s].user_scan => WorkFor(s) = "user_scan"
  BY DEF WorkFor, UserScanners

LEMMA GrantType ==
  ASSUME ArbiterTypeOK, NEW s \in Slots, Grant(s)
  PROVE  /\ ArbiterTypeOK'
         /\ \A i \in Slots : slots'[i].user_scan = slots[i].user_scan
<1>1. WorkFor(s) \in Works
  BY WorkForType DEF Grant, MayTake, Ready
<1>2. ServedBy(s, WorkFor(s)) \subseteq Slots
  BY ScalesAssumption DEF ServedBy, MissingScales
<1>3. ASSUME NEW i \in Slots
      PROVE  slots'[i] \in Slot /\ slots'[i].user_scan = slots[i].user_scan
  <2>1. slots'[i] = [slots[i] EXCEPT
                       !.later = AfterServing(ServedBy(s, WorkFor(s)), i),
                       !.sighted = IF i = s /\ WorkFor(s) = "direct_connect"
                                     THEN FALSE ELSE @]
    BY DEF Grant
  <2>2. slots[i] \in Slot
    BY DEF ArbiterTypeOK
  <2>3. AfterServing(ServedBy(s, WorkFor(s)), i) \in SUBSET Slots
    BY <1>2, <2>2 DEF AfterServing, Slot
  <2>4. QED
    BY <2>1, <2>2, <2>3 DEF Slot
<1>4. slots' \in [Slots -> Slot]
  BY <1>3 DEF Grant
<1>5. lease' \in [holder : Slots \cup {NoSlot}, work : Works \cup {"idle"},
                 preempted : BOOLEAN]
  BY <1>1 DEF Grant
<1>6. chunk' \in [due : BOOLEAN, gap : Gaps, sighted : BOOLEAN]
  BY DEF Grant, ArbiterTypeOK
<1>7. QED
  BY <1>3, <1>4, <1>5, <1>6 DEF Grant, ArbiterTypeOK, HoldAfterGrant

LEMMA PreemptType ==
  ASSUME ArbiterTypeOK, NEW c \in BOOLEAN, PreemptIf(c), c => Preemptible
  PROVE  /\ lease' \in [holder : Slots \cup {NoSlot}, work : Works \cup {"idle"},
                        preempted : BOOLEAN]
         /\ hold' \in [Slots -> BOOLEAN]
         /\ air' \in [Slots -> {"idle", "busy", "stopping"}]
         /\ lease'.holder = lease.holder /\ lease'.work = lease.work
<1>1. CASE ~c
  BY <1>1 DEF PreemptIf, ArbiterTypeOK
<1>2. CASE c
  <2>1. Preempt /\ lease.holder \in Slots
    BY <1>2 DEF PreemptIf, Preemptible, ArbiterTypeOK
  <2>2. lease' = [lease EXCEPT !.preempted = TRUE]
    BY <2>1 DEF Preempt
  <2>3. /\ lease' \in [holder : Slots \cup {NoSlot}, work : Works \cup {"idle"},
                        preempted : BOOLEAN]
        /\ lease'.holder = lease.holder /\ lease'.work = lease.work
    BY <2>2 DEF ArbiterTypeOK
  <2>4. hold' \in [Slots -> BOOLEAN]
    BY <2>1 DEF Preempt, ArbiterTypeOK
  <2>5. air' \in [Slots -> {"idle", "busy", "stopping"}]
    BY <2>1 DEF Preempt, ArbiterTypeOK
  <2>6. QED
    BY <2>3, <2>4, <2>5
<1>3. QED
  BY <1>1, <1>2

(* The other methods keep the arbiter's types; none of them moves the      *)
(* lease to another slot or to other work.                                 *)
SameLease == lease'.holder = lease.holder /\ lease'.work = lease.work

LEMMA SyncType ==
  ASSUME ArbiterTypeOK, NEW s \in Slots, NEW addr \in Addrs \cup {NoAddr},
         NEW wanted \in BOOLEAN, NEW partner \in BOOLEAN, Sync(s, addr, wanted, partner)
  PROVE  /\ ArbiterTypeOK' /\ SameLease
         /\ \A i \in Slots : slots'[i].user_scan = slots[i].user_scan
<1> DEFINE drop == slots[s].wanted /\ ~wanted /\ HoldsPreemptible(s)
          new == [slots[s] EXCEPT !.addr = addr, !.wanted = wanted, !.partner = partner,
                    !.sighted = IF addr = slots[s].addr THEN @ ELSE FALSE]
<1>1. slots[s] \in Slot
  BY DEF ArbiterTypeOK
<1>2. new \in Slot /\ new.user_scan = slots[s].user_scan
  BY <1>1 DEF Slot
<1>3. slots' = [slots EXCEPT ![s] = new]
  BY DEF Sync
<1>4. slots' \in [Slots -> Slot] /\ \A i \in Slots : slots'[i].user_scan = slots[i].user_scan
  BY <1>2, <1>3 DEF ArbiterTypeOK
<1>5. chunk' \in [due : BOOLEAN, gap : Gaps, sighted : BOOLEAN]
  BY DEF Sync, TouchedIf, Touched, ArbiterTypeOK
<1>6. drop => Preemptible
  BY SlotsAssumption DEF HoldsPreemptible, Preemptible
<1>7. PreemptIf(drop) /\ drop \in BOOLEAN
  BY <1>1 DEF Sync, Slot, HoldsPreemptible
<1> HIDE DEF drop, new
<1>8. QED
  BY <1>4, <1>5, <1>6, <1>7, PreemptType DEF ArbiterTypeOK, SameLease

LEMMA SetConnectedType ==
  ASSUME ArbiterTypeOK, NEW s \in Slots, NEW up \in BOOLEAN, SetConnected(s, up)
  PROVE  /\ ArbiterTypeOK' /\ UNCHANGED <<lease, hold, air>>
         /\ \A i \in Slots : slots'[i].user_scan = slots[i].user_scan
<1>1. slots[s] \in Slot
  BY DEF ArbiterTypeOK
<1>2. slots' = [slots EXCEPT ![s] = [slots[s] EXCEPT !.connected = up,
                  !.sighted = IF up /\ ~slots[s].connected THEN FALSE ELSE @]]
  BY <1>1 DEF SetConnected, ArbiterTypeOK, Slot
<1>3. slots' \in [Slots -> Slot] /\ \A i \in Slots : slots'[i].user_scan = slots[i].user_scan
  BY <1>1, <1>2 DEF ArbiterTypeOK, Slot
<1>4. QED
  BY <1>3 DEF SetConnected, ArbiterTypeOK, TouchedIf, Touched

LEMMA SetParkedType ==
  ASSUME ArbiterTypeOK, NEW s \in Slots, NEW src \in ParkSources, NEW on \in BOOLEAN,
         SetParked(s, src, on)
  PROVE  /\ ArbiterTypeOK' /\ SameLease
         /\ \A i \in Slots : slots'[i].user_scan = slots[i].user_scan
<1> DEFINE parked == IF on THEN slots[s].parked \cup {src} ELSE slots[s].parked \ {src}
          yield == parked # {} /\ HoldsPreemptible(s)
<1>1. slots[s] \in Slot /\ parked \in SUBSET ParkSources
  BY DEF ArbiterTypeOK, Slot
<1>2. slots' = [slots EXCEPT ![s].parked = parked]
  BY DEF SetParked
<1>3. slots' \in [Slots -> Slot] /\ \A i \in Slots : slots'[i].user_scan = slots[i].user_scan
  BY <1>1, <1>2 DEF ArbiterTypeOK, Slot
<1>4. chunk' \in [due : BOOLEAN, gap : Gaps, sighted : BOOLEAN]
  BY DEF SetParked, Touched, ArbiterTypeOK
<1>5. PreemptIf(yield) /\ yield \in BOOLEAN /\ (yield => Preemptible)
  BY SlotsAssumption DEF SetParked, HoldsPreemptible, Preemptible
<1> HIDE DEF parked, yield
<1>6. QED
  BY <1>3, <1>4, <1>5, PreemptType DEF ArbiterTypeOK, SameLease

(* A slot record replaced by another, the rest as it was.                  *)
LEMMA SlotUpdate ==
  ASSUME ArbiterTypeOK, NEW s \in Slots, NEW new \in Slot,
         slots' = [slots EXCEPT ![s] = new]
  PROVE  /\ slots' \in [Slots -> Slot] /\ slots'[s] = new
         /\ \A i \in Slots \ {s} : slots'[i] = slots[i]
  BY DEF ArbiterTypeOK

(* Setting the flags user_scan and sighted of a slot.                      *)
LEMMA FlagUpdate ==
  ASSUME ArbiterTypeOK, NEW s \in Slots, NEW b \in BOOLEAN
  PROVE  /\ [slots[s] EXCEPT !.user_scan = b] \in Slot
         /\ [slots[s] EXCEPT !.user_scan = b].user_scan = b
         /\ [slots[s] EXCEPT !.sighted = b] \in Slot
         /\ [slots[s] EXCEPT !.sighted = b].user_scan = slots[s].user_scan
<1>1. slots[s] \in Slot
  BY DEF ArbiterTypeOK
<1>2. QED
  BY <1>1 DEF Slot

LEMMA RequestUserScanType ==
  ASSUME ArbiterTypeOK, NEW s \in Slots, RequestUserScan(s)
  PROVE  /\ ArbiterTypeOK' /\ SameLease
         /\ \A i \in Slots : slots[i].user_scan => slots'[i].user_scan
<1>1. slots' \in [Slots -> Slot] /\ \A i \in Slots : slots[i].user_scan => slots'[i].user_scan
  <2>1. slots' = [slots EXCEPT ![s] = [slots[s] EXCEPT !.user_scan = TRUE]]
    BY DEF RequestUserScan
  <2>2. QED
    BY <2>1, FlagUpdate, SlotUpdate
<1>2. chunk' \in [due : BOOLEAN, gap : Gaps, sighted : BOOLEAN]
  BY DEF RequestUserScan, Touched, ArbiterTypeOK
<1>3. PreemptIf(Preemptible) /\ Preemptible \in BOOLEAN
  BY DEF RequestUserScan, Preemptible
<1>4. QED
  BY <1>1, <1>2, <1>3, PreemptType DEF ArbiterTypeOK, SameLease

LEMMA AbortSlotType ==
  ASSUME ArbiterTypeOK, NEW s \in Slots, AbortSlot(s)
  PROVE  ArbiterTypeOK' /\ SameLease /\ UNCHANGED slots
<1>1. /\ PreemptIf(HoldsPreemptible(s)) /\ HoldsPreemptible(s) \in BOOLEAN
      /\ HoldsPreemptible(s) => Preemptible
  BY SlotsAssumption DEF AbortSlot, HoldsPreemptible, Preemptible
<1>2. QED
  BY <1>1, PreemptType DEF AbortSlot, ArbiterTypeOK, SameLease

LEMMA PollIdleType ==
  ASSUME ArbiterTypeOK, NEW s \in Slots, PollIdle(s)
  PROVE  ArbiterTypeOK' /\ SameLease /\ UNCHANGED slots
<1>1. slots[s].user_scan \in BOOLEAN
  BY DEF ArbiterTypeOK, Slot
<1>2. /\ PreemptIf(slots[s].user_scan /\ Preemptible)
      /\ (slots[s].user_scan /\ Preemptible) \in BOOLEAN
  BY <1>1 DEF PollIdle, Preemptible
<1>3. QED
  BY <1>2, PreemptType DEF PollIdle, ArbiterTypeOK, SameLease

LEMMA ReleaseType ==
  ASSUME ArbiterTypeOK, NEW s \in Slots, NEW preempted \in BOOLEAN, Release(s, preempted)
  PROVE  /\ slots' \in [Slots -> Slot]
         /\ lease' = NoLease /\ lease.holder = s
         /\ lease' \in [holder : Slots \cup {NoSlot}, work : Works \cup {"idle"},
                        preempted : BOOLEAN]
         /\ chunk' \in [due : BOOLEAN, gap : Gaps, sighted : BOOLEAN]
         /\ UNCHANGED <<hold, air>>
         /\ \A i \in Slots \ {s} : slots'[i].user_scan = slots[i].user_scan
<1>1. /\ slots' \in [Slots -> Slot]
      /\ \A i \in Slots \ {s} : slots'[i].user_scan = slots[i].user_scan
  <2>1. CASE lease.work = "user_scan"
    <3>1. slots' = [slots EXCEPT ![s] = [slots[s] EXCEPT !.user_scan = FALSE]]
      BY <2>1 DEF Release
    <3>2. QED
      BY <3>1, FlagUpdate, SlotUpdate
  <2>2. CASE lease.work # "user_scan"
    BY <2>2 DEF Release, ArbiterTypeOK
  <2>3. QED
    BY <2>1, <2>2
<1>2. chunk' \in [due : BOOLEAN, gap : Gaps, sighted : BOOLEAN]
  BY DEF Release, ArbiterTypeOK, NextGap
<1>3. QED
  BY <1>1, <1>2 DEF Release, NoLease

LEMMA ReportSightingType ==
  ASSUME ArbiterTypeOK, NEW seen \in Slots, ReportSighting(seen)
  PROVE  /\ ArbiterTypeOK' /\ UNCHANGED <<lease, hold, air>>
         /\ \A i \in Slots : slots'[i].user_scan = slots[i].user_scan
<1>1. slots' \in [Slots -> Slot] /\ \A i \in Slots : slots'[i].user_scan = slots[i].user_scan
  <2>1. slots' = [slots EXCEPT ![seen] = [slots[seen] EXCEPT !.sighted = TRUE]]
    BY DEF ReportSighting
  <2>2. QED
    BY <2>1, FlagUpdate, SlotUpdate
<1>2. QED
  BY <1>1 DEF ReportSighting, ArbiterTypeOK

LEMMA TimeType ==
  ASSUME ArbiterTypeOK, Time
  PROVE  /\ ArbiterTypeOK' /\ UNCHANGED <<lease, hold, air, linkVars>>
         /\ \A i \in Slots : slots'[i].user_scan = slots[i].user_scan
<1>1. ASSUME NEW s \in Slots, SightingGoesStale(s)
      PROVE  /\ slots' \in [Slots -> Slot]
             /\ \A i \in Slots : slots'[i].user_scan = slots[i].user_scan
  <2>1. slots' = [slots EXCEPT ![s] = [slots[s] EXCEPT !.sighted = FALSE]]
    BY <1>1 DEF SightingGoesStale
  <2>2. QED
    BY <2>1, FlagUpdate, SlotUpdate
<1>2. QED
  BY <1>1 DEF Time, SightingGoesStale, ChunkGapEnds, ArbiterTypeOK

-----------------------------------------------------------------------------
(* The inductive invariant: types, the two directions of "who works holds  *)
(* the lease", the pending scan a task at "check" came for, and the hold   *)
(* level.                                                                  *)

CheckHasScan == \A s \in Slots : At(s, "check") => slots[s].user_scan

LeaseInv == GrantIsLive /\ NoOrphanLease /\ CheckHasScan

IInv == TypeOK /\ LeaseInv /\ HoldIsCurrent

LEMMA InitIInv == Init => IInv
<1> SUFFICES ASSUME Init PROVE IInv
  OBVIOUS
<1>1. ArbiterTypeOK
  BY DEF Init, ArbiterInit, ArbiterTypeOK, Slot, NoLease
<1>2. TypeOK
  <2>1. task \in [Slots -> Task]
    BY DEF Init, Task
  <2>2. cfg \in [Slots -> Config]
    BY DEF Init, Config
  <2>3. ops \in 0..MaxOps
    BY MaxOpsAssumption DEF Init
  <2>4. QED
    BY <1>1, <2>1, <2>2, <2>3 DEF Init, TypeOK
<1>3. LeaseInv /\ HoldIsCurrent
  BY SlotsAssumption DEF Init, ArbiterInit, NoLease, LeaseInv, GrantIsLive, NoOrphanLease,
     CheckHasScan, HoldIsCurrent, At
<1>4. QED
  BY <1>2, <1>3 DEF IInv

(* What a step means to the invariant: where the tasks stand afterwards,   *)
(* and what became of the lease.                                           *)
Moves(s, pc) == \A i \in Slots : task'[i].pc = IF i = s THEN pc ELSE task[i].pc

SameScans == \A i \in Slots : slots'[i].user_scan = slots[i].user_scan

LEMMA TaskMoves ==
  ASSUME TypeOK, NEW s \in Slots, NEW new \in Task, task' = [task EXCEPT ![s] = new]
  PROVE  task' \in [Slots -> Task] /\ Moves(s, new.pc)
  BY DEF TypeOK, Moves

LEMMA GotoMoves ==
  ASSUME TypeOK, NEW s \in Slots, NEW pc \in LeasedPcs \cup FreePcs, Goto(s, pc)
  PROVE  task' \in [Slots -> Task] /\ Moves(s, pc)
<1>1. task' = [task EXCEPT ![s] = [task[s] EXCEPT !.pc = pc]] /\ task[s] \in Task
  BY DEF Goto, TypeOK
<1>2. [task[s] EXCEPT !.pc = pc] \in Task /\ [task[s] EXCEPT !.pc = pc].pc = pc
  BY <1>1 DEF Task
<1>3. QED
  BY <1>1, <1>2 DEF TypeOK, Moves

(* A free lease goes to s, whose task goes on with the work granted, or    *)
(* back to the head of the loop for a scan that is still pending.          *)
LEMMA Granted ==
  ASSUME IInv, NEW s \in Slots, NEW work \in Works, NEW pc \in LeasedPcs \cup {"top"},
         lease.holder = NoSlot,
         lease' = [holder |-> s, work |-> work, preempted |-> FALSE],
         hold' = [hold EXCEPT ![s] = FALSE],
         Moves(s, pc), SameScans,
         \/ work = "user_scan" /\ pc \in ScanPcs \cup {"top"} /\ slots[s].user_scan
         \/ work = "direct_connect" /\ pc \in DialPcs
         \/ work = "finder_chunk" /\ pc \in ChunkPcs
  PROVE  LeaseInv' /\ HoldIsCurrent'
<1>1. /\ lease'.holder = s /\ lease'.work = work /\ ~lease'.preempted
      /\ hold'[s] = FALSE
  BY DEF IInv, TypeOK, ArbiterTypeOK
<1>2. \A i \in Slots : task[i].pc \notin LeasedPcs
  BY SlotsAssumption DEF IInv, LeaseInv, GrantIsLive
<1>3. task'[s].pc = pc /\ \A i \in Slots : i # s => task'[i].pc = task[i].pc
  BY DEF Moves
<1>4. GrantIsLive'
  BY <1>1, <1>2, <1>3 DEF GrantIsLive, WorkMatches
<1>5. NoOrphanLease'
  BY <1>1, <1>3 DEF NoOrphanLease, SameScans
<1>6. CheckHasScan'
  BY <1>3 DEF IInv, LeaseInv, CheckHasScan, At, SameScans
<1>7. HoldIsCurrent'
  BY <1>1 DEF HoldIsCurrent
<1>8. QED
  BY <1>4, <1>5, <1>6, <1>7 DEF LeaseInv

(* The holder's lease ends and its task leaves the work.                   *)
LEMMA Ended ==
  ASSUME IInv, NEW s \in Slots, NEW pc \in FreePcs \ {"check"},
         lease.holder = s, lease' = NoLease, Moves(s, pc),
         \A i \in Slots \ {s} : slots'[i].user_scan = slots[i].user_scan
  PROVE  LeaseInv' /\ HoldIsCurrent'
<1>1. lease'.holder = NoSlot /\ lease'.work = "idle"
  BY DEF NoLease
<1>2. task'[s].pc = pc /\ \A i \in Slots : i # s => task'[i].pc = task[i].pc
  BY DEF Moves
<1>3. \A i \in Slots : i # s => task[i].pc \notin LeasedPcs
  BY DEF IInv, LeaseInv, GrantIsLive
<1>4. GrantIsLive'
  BY <1>2, <1>3 DEF GrantIsLive
<1>5. NoOrphanLease'
  BY <1>1, SlotsAssumption DEF NoOrphanLease
<1>6. CheckHasScan'
  BY <1>2 DEF IInv, LeaseInv, CheckHasScan, At
<1>7. HoldIsCurrent'
  BY <1>1 DEF HoldIsCurrent
<1>8. QED
  BY <1>4, <1>5, <1>6, <1>7 DEF LeaseInv

(* The lease stays where it is, no scan request is lost, and s moves on    *)
(* within its work, or outside any.                                        *)
LEMMA Kept ==
  ASSUME IInv, NEW s \in Slots, NEW pc \in LeasedPcs \cup FreePcs,
         SameLease, Moves(s, pc),
         \A i \in Slots : slots[i].user_scan => slots'[i].user_scan,
         \/ task[s].pc \in ScanPcs /\ pc \in ScanPcs
         \/ task[s].pc \in DialPcs /\ pc \in DialPcs
         \/ task[s].pc \in ChunkPcs /\ pc \in ChunkPcs
         \/ lease.holder # s /\ task[s].pc \in FreePcs /\ pc \in FreePcs \ {"check"}
         \/ task[s].pc = "top" /\ pc = "check" /\ slots[s].user_scan
         \/ task[s].pc = pc
  PROVE  LeaseInv'
<1>1. task'[s].pc = pc /\ \A i \in Slots : i # s => task'[i].pc = task[i].pc
  BY DEF Moves
<1>2. GrantIsLive'
  BY <1>1 DEF IInv, LeaseInv, GrantIsLive, WorkMatches, SameLease
<1>3. NoOrphanLease'
  BY <1>1 DEF IInv, LeaseInv, NoOrphanLease, SameLease
<1>4. CheckHasScan'
  BY <1>1 DEF IInv, LeaseInv, CheckHasScan, At
<1>5. QED
  BY <1>2, <1>3, <1>4 DEF LeaseInv

(* A preemption raises the hold level of the connect it cancels.           *)
LEMMA PreemptHolds ==
  ASSUME IInv, NEW c \in BOOLEAN, PreemptIf(c), c => Preemptible
  PROVE  HoldIsCurrent'
<1>1. lease \in [holder : Slots \cup {NoSlot}, work : Works \cup {"idle"}, preempted : BOOLEAN]
      /\ hold \in [Slots -> BOOLEAN]
  BY DEF IInv, TypeOK, ArbiterTypeOK
<1>2. CASE ~c
  BY <1>2 DEF PreemptIf, IInv, HoldIsCurrent
<1>3. CASE c
  <2>1. lease' = [lease EXCEPT !.preempted = TRUE]
        /\ (lease.work = "direct_connect" => hold' = [hold EXCEPT ![lease.holder] = TRUE])
    BY <1>3 DEF PreemptIf, Preempt
  <2>2. lease'.preempted = TRUE /\ lease'.holder = lease.holder /\ lease'.work = lease.work
    BY <1>1, <2>1
  <2>3. QED
    BY <1>1, <2>1, <2>2 DEF HoldIsCurrent
<1>4. QED
  BY <1>2, <1>3

-----------------------------------------------------------------------------
(* The steps of a link task.                                               *)

LEMMA TopInv ==
  ASSUME IInv, NEW s \in Slots, Top(s)
  PROVE  IInv'
<1> DEFINE pc == IF slots[s].user_scan THEN "check" ELSE AfterHead(s)
          new == [task[s] EXCEPT !.peer = cfg[s].addr, !.pc = pc]
<1>1. TypeOK /\ pc \in FreePcs /\ task[s].pc = "top" /\ task[s] \in Task
  BY DEF IInv, Top, At, TypeOK, AfterHead
<1>2. /\ cfg[s].addr \in Addrs \cup {NoAddr} /\ Wanted(s) \in BOOLEAN
      /\ (s \in Scales /\ cfg[s].partner) \in BOOLEAN /\ ArbiterTypeOK
  BY <1>1 DEF TypeOK, Config, Wanted
<1>3. ArbiterTypeOK' /\ SameLease /\ SameScans
  BY <1>2, SyncType DEF Top, SameScans
<1>4. task' \in [Slots -> Task] /\ Moves(s, pc)
  <2>1. new \in Task /\ new.pc = pc
    BY <1>1, <1>2 DEF Task
  <2>2. task' = [task EXCEPT ![s] = new]
    BY <1>1 DEF Top, TypeOK
  <2>3. QED
    BY <1>1, <2>1, <2>2, TaskMoves
<1>5. TypeOK'
  BY <1>1, <1>3, <1>4 DEF Top, TypeOK
<1>6. ~HoldsPreemptible(s) /\ (lease.holder = s => slots[s].user_scan)
  BY <1>1 DEF IInv, LeaseInv, NoOrphanLease, HoldsPreemptible
<1>7. UNCHANGED <<lease, hold>>
  BY <1>6 DEF Top, Sync, PreemptIf
<1>8. HoldIsCurrent'
  BY <1>7 DEF IInv, HoldIsCurrent
<1>9. LeaseInv'
  <2>1. \/ task[s].pc = "top" /\ pc = "check" /\ slots[s].user_scan
        \/ lease.holder # s /\ task[s].pc \in FreePcs /\ pc \in FreePcs \ {"check"}
    BY <1>1, <1>6 DEF AfterHead
  <2> HIDE DEF pc
  <2>2. QED
    BY <1>1, <1>3, <1>4, <2>1, Kept DEF SameScans
<1>10. QED
  BY <1>5, <1>8, <1>9 DEF IInv

LEMMA CheckGrantedInv ==
  ASSUME IInv, NEW s \in Slots, CheckGranted(s)
  PROVE  IInv'
<1>1. TypeOK /\ ArbiterTypeOK /\ slots[s].user_scan /\ task[s].pc = "check"
  BY DEF IInv, TypeOK, LeaseInv, CheckHasScan, CheckGranted, At
<1>2. task' \in [Slots -> Task] /\ Moves(s, "scanning")
  BY <1>1, GotoMoves DEF CheckGranted
<1>3. CASE Grant(s)
  <2>1. ArbiterTypeOK' /\ SameScans
    BY <1>1, <1>3, GrantType DEF SameScans
  <2>2. /\ lease' = [holder |-> s, work |-> "user_scan", preempted |-> FALSE]
        /\ lease.holder = NoSlot /\ hold' = [hold EXCEPT ![s] = FALSE]
    BY <1>1, <1>3, WorkForType DEF Grant, MayTake, HoldAfterGrant
  <2>3. TypeOK'
    BY <1>1, <1>2, <2>1 DEF CheckGranted, TypeOK
  <2>4. LeaseInv' /\ HoldIsCurrent'
    BY <1>1, <1>2, <2>1, <2>2, Granted
  <2>5. QED
    BY <2>3, <2>4 DEF IInv
<1>4. CASE lease.holder = s /\ UNCHANGED arbiterVars
  <2>1. UNCHANGED <<slots, lease, chunk, hold, air>>
    BY <1>4 DEF arbiterVars
  <2>2. TypeOK'
    BY <1>1, <1>2, <2>1 DEF CheckGranted, TypeOK, ArbiterTypeOK
  <2>3. task'[s].pc = "scanning" /\ \A i \in Slots : i # s => task'[i].pc = task[i].pc
    BY <1>2 DEF Moves
  <2>4. lease.work = "user_scan"
    BY <1>1, <1>4 DEF IInv, LeaseInv, NoOrphanLease
  <2>5. GrantIsLive' /\ NoOrphanLease'
    BY <1>4, <2>1, <2>3, <2>4 DEF IInv, LeaseInv, GrantIsLive, WorkMatches, NoOrphanLease
  <2>6. CheckHasScan' /\ HoldIsCurrent'
    BY <2>1, <2>3 DEF IInv, LeaseInv, CheckHasScan, At, HoldIsCurrent
  <2>7. QED
    BY <2>2, <2>5, <2>6 DEF IInv, LeaseInv
<1>5. QED
  BY <1>3, <1>4 DEF CheckGranted

(* poll without a grant, at the head of the loop and at the gate.          *)
LEMMA Refused ==
  ASSUME IInv, NEW s \in Slots, PollIdle(s), Goto(s, "top"),
         task[s].pc \in {"check", "gate"}
  PROVE  /\ ArbiterTypeOK' /\ task' \in [Slots -> Task]
         /\ LeaseInv' /\ HoldIsCurrent'
<1>1. TypeOK /\ ArbiterTypeOK
  BY DEF IInv, TypeOK
<1>2. task' \in [Slots -> Task] /\ Moves(s, "top")
  BY <1>1, GotoMoves
<1>3. ArbiterTypeOK' /\ SameLease /\ UNCHANGED slots /\ lease.holder # s
  BY <1>1, PollIdleType DEF PollIdle
<1>4. LeaseInv'
  BY <1>2, <1>3, Kept
<1>5. slots[s].user_scan \in BOOLEAN
  BY <1>1 DEF ArbiterTypeOK, Slot
<1>6. (slots[s].user_scan /\ Preemptible) \in BOOLEAN
  BY <1>5 DEF Preemptible
<1>7. HoldIsCurrent'
  BY <1>6, PreemptHolds DEF PollIdle
<1>8. QED
  BY <1>2, <1>3, <1>4, <1>7

LEMMA CheckIdleInv ==
  ASSUME IInv, NEW s \in Slots, CheckIdle(s)
  PROVE  IInv'
<1>1. PollIdle(s) /\ Goto(s, "top") /\ task[s].pc = "check"
  BY DEF CheckIdle, At
<1>2. QED
  BY <1>1, Refused DEF CheckIdle, IInv, TypeOK

LEMMA GatePollInv ==
  ASSUME IInv, NEW s \in Slots, GatePoll(s)
  PROVE  IInv'
<1>1. TypeOK /\ ArbiterTypeOK /\ task[s].pc = "gate"
  BY DEF IInv, TypeOK, GatePoll, At
<1>2. cfg' \in [Slots -> Config]
  BY <1>1 DEF GatePoll, TypeOK, Config
<1>3. CASE Grant(s) /\ Goto(s, AfterGrant(WorkFor(s)))
  <2> DEFINE work == WorkFor(s)
             pc == AfterGrant(WorkFor(s))
  <2>1. ArbiterTypeOK' /\ SameScans
    BY <1>1, <1>3, GrantType DEF SameScans
  <2>2. work \in Works /\ (work = "user_scan" => slots[s].user_scan)
    BY <1>3, WorkForType DEF Grant, MayTake, Ready
  <2>3. /\ lease' = [holder |-> s, work |-> work, preempted |-> FALSE]
        /\ lease.holder = NoSlot /\ hold' = [hold EXCEPT ![s] = FALSE]
    BY <1>3 DEF Grant, MayTake, HoldAfterGrant
  <2>4. \/ work = "user_scan" /\ pc = "top"
        \/ work = "direct_connect" /\ pc = "dial"
        \/ work = "finder_chunk" /\ pc = "chunk"
    BY <2>2 DEF AfterGrant
  <2> HIDE DEF work, pc
  <2>5. pc \in LeasedPcs \cup {"top"} /\ Goto(s, pc)
    BY <1>3, <2>4 DEF pc
  <2>6. task' \in [Slots -> Task] /\ Moves(s, pc)
    BY <1>1, <2>5, GotoMoves
  <2>7. TypeOK'
    BY <1>1, <1>2, <2>1, <2>6 DEF GatePoll, TypeOK
  <2>8. \/ work = "user_scan" /\ pc \in ScanPcs \cup {"top"} /\ slots[s].user_scan
        \/ work = "direct_connect" /\ pc \in DialPcs
        \/ work = "finder_chunk" /\ pc \in ChunkPcs
    BY <2>2, <2>4
  <2>9. LeaseInv' /\ HoldIsCurrent'
    BY <2>1, <2>2, <2>3, <2>5, <2>6, <2>8, Granted
  <2>10. QED
    BY <2>7, <2>9 DEF IInv
<1>4. CASE PollIdle(s) /\ Goto(s, "top")
  BY <1>1, <1>2, <1>4, Refused DEF GatePoll, IInv, TypeOK
<1>5. QED
  BY <1>3, <1>4 DEF GatePoll

(* The steps that end a lease.                                             *)
LEMMA ReleaseInv ==
  ASSUME IInv, NEW s \in Slots,
         ScanReleased(s) \/ DialReleased(s) \/ ChunkReleased(s)
  PROVE  IInv'
<1>1. TypeOK /\ ArbiterTypeOK /\ task[s] \in Task
  BY DEF IInv, TypeOK
<1>2. \E b \in BOOLEAN : Release(s, b)
  BY <1>1 DEF ScanReleased, DialReleased, ChunkReleased, Task
<1>3. \E new \in Task : new.pc \in FreePcs \ {"check"} /\ task' = [task EXCEPT ![s] = new]
  <2>1. CASE ScanReleased(s)
    <3> DEFINE new == [task[s] EXCEPT !.pc = AfterHead(s)]
    <3>1. new \in Task /\ new.pc \in FreePcs \ {"check"}
      BY <1>1 DEF Task, AfterHead
    <3>2. task' = [task EXCEPT ![s] = new]
      BY <1>1, <2>1 DEF ScanReleased, Goto, TypeOK
    <3>3. QED
      BY <3>1, <3>2
  <2>2. CASE DialReleased(s)
    <3> DEFINE pc  == IF task[s].ok THEN "linked"
                      ELSE IF task[s].cut THEN "top" ELSE "backoff"
               new == [task[s] EXCEPT !.ok = FALSE, !.cut = FALSE, !.pc = pc]
    <3>1. new \in Task /\ new.pc \in FreePcs \ {"check"}
      BY <1>1 DEF Task
    <3>2. task' = [task EXCEPT ![s] = new]
      BY <1>1, <2>2 DEF DialReleased, TypeOK
    <3>3. QED
      BY <3>1, <3>2
  <2>3. CASE ChunkReleased(s)
    <3> DEFINE new == [task[s] EXCEPT !.pc = "top", !.cut = FALSE]
    <3>1. new \in Task /\ new.pc \in FreePcs \ {"check"}
      BY <1>1 DEF Task
    <3>2. task' = [task EXCEPT ![s] = new]
      BY <1>1, <2>3 DEF ChunkReleased, TypeOK
    <3>3. QED
      BY <3>1, <3>2
  <2>4. QED
    BY <2>1, <2>2, <2>3
<1>4. UNCHANGED <<cfg, raw, scanning, ui, ops>>
  BY DEF ScanReleased, DialReleased, ChunkReleased
<1>5. PICK b \in BOOLEAN : Release(s, b)
  BY <1>2
<1>6. PICK new \in Task : new.pc \in FreePcs \ {"check"} /\ task' = [task EXCEPT ![s] = new]
  BY <1>3
<1>7. /\ ArbiterTypeOK' /\ lease' = NoLease /\ lease.holder = s
      /\ \A i \in Slots \ {s} : slots'[i].user_scan = slots[i].user_scan
  BY <1>1, <1>5, ReleaseType DEF ArbiterTypeOK
<1>8. task' \in [Slots -> Task] /\ Moves(s, new.pc)
  BY <1>1, <1>6, TaskMoves
<1>9. TypeOK'
  BY <1>1, <1>4, <1>7, <1>8 DEF TypeOK
<1>10. LeaseInv' /\ HoldIsCurrent'
  BY <1>6, <1>7, <1>8, Ended
<1>11. QED
  BY <1>9, <1>10 DEF IInv

(* The steps that leave the lease, the hold levels and the scans alone.    *)
LEMMA Quiet ==
  ASSUME IInv, NEW s \in Slots, NEW pc \in LeasedPcs \cup FreePcs,
         UNCHANGED <<lease, hold>>, SameScans, Moves(s, pc),
         \/ task[s].pc \in ScanPcs /\ pc \in ScanPcs
         \/ task[s].pc \in DialPcs /\ pc \in DialPcs
         \/ task[s].pc \in ChunkPcs /\ pc \in ChunkPcs
         \/ task[s].pc \in {"copy", "gate", "linked", "backoff"} /\ pc \in FreePcs \ {"check"}
         \/ task[s].pc = pc
  PROVE  LeaseInv' /\ HoldIsCurrent'
<1>1. HoldIsCurrent'
  BY DEF IInv, HoldIsCurrent
<1>2. task[s].pc \in {"copy", "gate", "linked", "backoff"} => lease.holder # s
  BY DEF IInv, LeaseInv, NoOrphanLease
<1>3. LeaseInv'
  BY <1>2, Kept DEF SameLease, SameScans
<1>4. QED
  BY <1>1, <1>3

LEMMA LocalInv ==
  ASSUME IInv, NEW s \in Slots,
         \/ ScanEnds(s) \/ DialHoldCheck(s) \/ DialStarts(s)
         \/ \E ok \in BOOLEAN : DialEnds(s, ok)
         \/ BackoffEnds(s) \/ ChunkStarts(s)
  PROVE  IInv'
<1>1. TypeOK /\ ArbiterTypeOK
  BY DEF IInv, TypeOK
<1>2. /\ UNCHANGED <<slots, lease, chunk, hold, cfg, ui, ops>>
      /\ air' \in [Slots -> {"idle", "busy", "stopping"}]
      /\ raw' \in [Slots -> Addrs \cup {NoAddr}] /\ scanning' \in [Slots -> BOOLEAN]
  <2>1. UNCHANGED <<slots, lease, chunk, hold, cfg, ui, ops>>
    BY DEF ScanEnds, DialHoldCheck, DialStarts, DialEnds, BackoffEnds, ChunkStarts, arbiterVars
  <2>2. air' \in [Slots -> {"idle", "busy", "stopping"}]
    BY <1>1 DEF ScanEnds, DialHoldCheck, DialStarts, DialEnds, BackoffEnds, ChunkStarts,
       arbiterVars, ArbiterTypeOK
  <2>3. raw' \in [Slots -> Addrs \cup {NoAddr}]
    BY <1>1 DEF ScanEnds, DialHoldCheck, DialStarts, DialEnds, BackoffEnds, ChunkStarts, TypeOK,
       Task
  <2>4. scanning' \in [Slots -> BOOLEAN]
    BY <1>1 DEF ScanEnds, DialHoldCheck, DialStarts, DialEnds, BackoffEnds, ChunkStarts, TypeOK
  <2>5. QED
    BY <2>1, <2>2, <2>3, <2>4
<1>3. PICK pc \in LeasedPcs \cup FreePcs :
        /\ Goto(s, pc) \/ \E ok \in BOOLEAN : DialEnds(s, ok) /\ pc = "dialed"
        /\ \/ task[s].pc \in ScanPcs /\ pc \in ScanPcs
           \/ task[s].pc \in DialPcs /\ pc \in DialPcs
           \/ task[s].pc \in ChunkPcs /\ pc \in ChunkPcs
           \/ task[s].pc \in {"copy", "gate", "linked", "backoff"} /\ pc \in FreePcs \ {"check"}
  <2>1. CASE \E ok \in BOOLEAN : DialEnds(s, ok)
    <3>1. task[s].pc \in DialPcs /\ "dialed" \in DialPcs BY <2>1 DEF DialEnds, At, DialPcs
    <3>2. "dialed" \in LeasedPcs \cup FreePcs BY DEF LeasedPcs, DialPcs
    <3> QED BY <2>1, <3>1, <3>2
  <2>2. CASE ~\E ok \in BOOLEAN : DialEnds(s, ok)
    BY <2>2 DEF ScanEnds, DialHoldCheck, DialStarts, BackoffEnds, ChunkStarts, At
  <2> QED BY <2>1, <2>2
<1>4. task' \in [Slots -> Task] /\ Moves(s, pc)
  <2>1. CASE Goto(s, pc)
    BY <1>1, <1>3, <2>1, GotoMoves
  <2>2. ASSUME NEW ok \in BOOLEAN, DialEnds(s, ok), pc = "dialed"
        PROVE  task' \in [Slots -> Task] /\ Moves(s, pc)
    <3> DEFINE new == [task[s] EXCEPT !.pc = "dialed", !.ok = ok]
    <3>1. new \in Task /\ new.pc = pc
      BY <1>1, <1>3, <2>2 DEF TypeOK, Task
    <3>2. task' = [task EXCEPT ![s] = new]
      BY <1>1, <2>2 DEF DialEnds, TypeOK
    <3> QED BY <1>1, <3>1, <3>2, TaskMoves
  <2> QED BY <1>3, <2>1, <2>2
<1>5. TypeOK'
  BY <1>1, <1>2, <1>4 DEF TypeOK, ArbiterTypeOK
<1>6. LeaseInv' /\ HoldIsCurrent'
  BY <1>2, <1>3, <1>4, Quiet DEF SameScans
<1>7. QED
  BY <1>5, <1>6 DEF IInv

LEMMA WasPreemptedInv ==
  ASSUME IInv, NEW s \in Slots, WasPreempted(s)
  PROVE  IInv'
<1> DEFINE pc  == IF task[s].pc = "dialed" THEN "tried" ELSE "heard"
           new == [task[s] EXCEPT !.cut = lease.preempted, !.pc = pc]
<1>1. TypeOK /\ ArbiterTypeOK /\ task[s] \in Task /\ task[s].pc \in {"dialed", "found"}
  BY DEF IInv, TypeOK, WasPreempted
<1>2. new \in Task /\ new.pc = pc
  BY <1>1 DEF Task, ArbiterTypeOK
<1>3. task' = [task EXCEPT ![s] = new]
  BY <1>1 DEF WasPreempted, TypeOK
<1>4. task' \in [Slots -> Task] /\ Moves(s, pc)
  BY <1>1, <1>2, <1>3, TaskMoves
<1>5. TypeOK'
  BY <1>1, <1>4 DEF TypeOK, WasPreempted, arbiterVars, ArbiterTypeOK
<1>6. /\ pc \in LeasedPcs \cup FreePcs
      /\ \/ task[s].pc \in DialPcs /\ pc \in DialPcs
         \/ task[s].pc \in ChunkPcs /\ pc \in ChunkPcs
  BY <1>1
<1>7. LeaseInv' /\ HoldIsCurrent'
  <2>1. UNCHANGED <<lease, hold>> /\ SameScans
    BY DEF WasPreempted, arbiterVars, SameScans
  <2> HIDE DEF pc
  <2>2. QED
    BY <1>4, <1>6, <2>1, Quiet
<1>8. QED
  BY <1>5, <1>7 DEF IInv

LEMMA ChunkInv ==
  ASSUME IInv, NEW s \in Slots,
         \/ ChunkTargets(s)
         \/ \E seen \in Slots \cup {NoSlot} : ChunkEnds(s, seen)
  PROVE  IInv'
<1>1. TypeOK /\ ArbiterTypeOK
  BY DEF IInv, TypeOK
<1>2. /\ UNCHANGED <<slots, lease, chunk, hold, cfg, raw, scanning, ui, ops>>
      /\ air' \in [Slots -> {"idle", "busy", "stopping"}]
  BY <1>1 DEF ChunkTargets, ChunkEnds, arbiterVars, ArbiterTypeOK
<1>3. task[s] \in Task /\ task[s].pc \in ChunkPcs
  BY <1>1 DEF ChunkTargets, ChunkEnds, At, TypeOK
<1>4. PICK new \in Task : new.pc \in ChunkPcs /\ task' = [task EXCEPT ![s] = new]
  <2>1. CASE ChunkTargets(s)
    <3> DEFINE new == [task[s] EXCEPT !.targets = MissingScales,
                         !.pc = IF MissingScales = {} THEN "found" ELSE "tuned"]
    <3>1. MissingScales \subseteq Slots
      BY ScalesAssumption DEF MissingScales
    <3>2. new \in Task /\ new.pc \in ChunkPcs
      BY <1>3, <3>1 DEF Task
    <3>3. task' = [task EXCEPT ![s] = new]
      BY <1>1, <2>1 DEF ChunkTargets, TypeOK
    <3>4. QED
      BY <3>2, <3>3
  <2>2. ASSUME NEW seen \in Slots \cup {NoSlot}, ChunkEnds(s, seen)
        PROVE  \E new \in Task : new.pc \in ChunkPcs /\ task' = [task EXCEPT ![s] = new]
    <3> DEFINE new == [task[s] EXCEPT !.seen = seen, !.targets = {},
                         !.pc = IF seen = NoSlot THEN "found" ELSE "sighted"]
    <3>1. new \in Task /\ new.pc \in ChunkPcs
      BY <1>3 DEF Task
    <3>2. task' = [task EXCEPT ![s] = new]
      BY <1>1, <2>2 DEF ChunkEnds, TypeOK
    <3>3. QED
      BY <3>1, <3>2
  <2>3. QED
    BY <2>1, <2>2
<1>5. task' \in [Slots -> Task] /\ Moves(s, new.pc)
  BY <1>1, <1>4, TaskMoves
<1>6. TypeOK'
  BY <1>1, <1>2, <1>5 DEF TypeOK, ArbiterTypeOK
<1>7. LeaseInv' /\ HoldIsCurrent'
  BY <1>2, <1>3, <1>4, <1>5, Quiet DEF SameScans
<1>8. QED
  BY <1>6, <1>7 DEF IInv

LEMMA ChunkSightingInv ==
  ASSUME IInv, NEW s \in Slots, ChunkSighting(s)
  PROVE  IInv'
<1>1. TypeOK /\ ArbiterTypeOK /\ task[s].pc = "sighted" /\ task[s].seen \in Slots \cup {NoSlot}
  BY DEF IInv, TypeOK, ChunkSighting, At, Task
<1>2. ArbiterTypeOK' /\ UNCHANGED <<lease, hold, air>> /\ SameScans
  <2>1. CASE task[s].seen \in Slots
    BY <1>1, <2>1, ReportSightingType DEF ChunkSighting, SameScans
  <2>2. CASE task[s].seen = NoSlot
    <3>1. slots' = slots /\ chunk' = [chunk EXCEPT !.sighted = TRUE]
      BY <1>1, <2>2, SlotsAssumption DEF ChunkSighting, ReportSighting, ArbiterTypeOK
    <3>2. QED
      BY <1>1, <3>1 DEF ChunkSighting, ReportSighting, ArbiterTypeOK, SameScans
  <2>3. QED
    BY <1>1, <2>1, <2>2
<1>3. task' \in [Slots -> Task] /\ Moves(s, "found")
  <2> DEFINE new == [task[s] EXCEPT !.pc = "found", !.seen = NoSlot]
  <2>1. new \in Task /\ new.pc = "found"
    BY <1>1 DEF TypeOK, Task
  <2>2. task' = [task EXCEPT ![s] = new]
    BY <1>1 DEF ChunkSighting, TypeOK
  <2>3. QED
    BY <1>1, <2>1, <2>2, TaskMoves
<1>4. TypeOK'
  BY <1>1, <1>2, <1>3 DEF ChunkSighting, TypeOK
<1>5. LeaseInv' /\ HoldIsCurrent'
  BY <1>1, <1>2, <1>3, Quiet
<1>6. QED
  BY <1>4, <1>5 DEF IInv

(* The steps that tell the arbiter the slot is up or down.                 *)
LEMMA MarkDownMoves ==
  ASSUME TypeOK, NEW s \in Slots, NEW pc \in FreePcs, MarkDown(s, pc)
  PROVE  /\ ArbiterTypeOK' /\ UNCHANGED <<lease, hold, air>> /\ SameScans
         /\ task' \in [Slots -> Task] /\ Moves(s, pc)
<1>1. ArbiterTypeOK' /\ UNCHANGED <<lease, hold, air>> /\ SameScans
  BY SetConnectedType DEF MarkDown, TypeOK, SameScans
<1>2. task' \in [Slots -> Task] /\ Moves(s, pc)
  <2> DEFINE new == [task[s] EXCEPT !.pc = pc, !.up = FALSE]
  <2>1. new \in Task /\ new.pc = pc
    <3>1. task[s] \in Task
      BY DEF TypeOK
    <3>2. QED
      BY <3>1 DEF Task
  <2>2. task' = [task EXCEPT ![s] = new]
    BY DEF MarkDown, TypeOK
  <2>3. QED
    BY <2>1, <2>2, TaskMoves
<1>3. QED
  BY <1>1, <1>2

LEMMA GateInv ==
  ASSUME IInv, NEW s \in Slots, GateIdle(s) \/ GateRedial(s) \/ GateServe(s)
  PROVE  IInv'
<1>1. TypeOK /\ ArbiterTypeOK /\ task[s].pc = "gate"
  BY DEF IInv, TypeOK, GateIdle, GateRedial, GateServe, At
<1>2. /\ raw' \in [Slots -> Addrs \cup {NoAddr}] /\ UNCHANGED <<scanning, ui, ops>>
      /\ cfg' \in [Slots -> Config]
  <2>1. cfg' = cfg \/ cfg' = [cfg EXCEPT ![s] = [cfg[s] EXCEPT !.redial = FALSE]]
    BY <1>1 DEF GateIdle, GateRedial, GateServe, TypeOK
  <2>2. cfg[s] \in Config /\ [cfg[s] EXCEPT !.redial = FALSE] \in Config
    BY <1>1 DEF TypeOK, Config
  <2>3. cfg' \in [Slots -> Config]
    BY <1>1, <2>1, <2>2 DEF TypeOK
  <2>4. raw' = raw \/ raw' = [raw EXCEPT ![s] = NoAddr]
    BY DEF GateIdle, GateRedial, GateServe
  <2>5. raw' \in [Slots -> Addrs \cup {NoAddr}]
    BY <1>1, <2>4 DEF TypeOK
  <2>6. UNCHANGED <<scanning, ui, ops>>
    BY DEF GateIdle, GateRedial, GateServe
  <2>7. QED
    BY <2>3, <2>5, <2>6
<1>3. \E pc \in {"top", "gate"} :
        \/ MarkDown(s, pc)
        \/ Goto(s, pc) /\ UNCHANGED arbiterVars
  BY DEF GateIdle, GateRedial, GateServe
<1>4. PICK pc \in {"top", "gate"} :
        \/ MarkDown(s, pc)
        \/ Goto(s, pc) /\ UNCHANGED arbiterVars
  BY <1>3
<1>5. /\ ArbiterTypeOK' /\ UNCHANGED <<lease, hold>> /\ SameScans
      /\ task' \in [Slots -> Task] /\ Moves(s, pc)
  <2>1. CASE MarkDown(s, pc)
    BY <1>1, <2>1, MarkDownMoves
  <2>2. CASE Goto(s, pc) /\ UNCHANGED arbiterVars
    BY <1>1, <2>2, GotoMoves DEF arbiterVars, ArbiterTypeOK, SameScans
  <2>3. QED
    BY <1>4, <2>1, <2>2
<1>6. TypeOK'
  BY <1>1, <1>2, <1>5 DEF TypeOK
<1>7. LeaseInv' /\ HoldIsCurrent'
  BY <1>1, <1>5, Quiet
<1>8. QED
  BY <1>6, <1>7 DEF IInv

LEMMA CopyAddressInv ==
  ASSUME IInv, NEW s \in Slots, CopyAddress(s)
  PROVE  IInv'
<1> DEFINE new == [task[s] EXCEPT !.peer = cfg[s].addr, !.pc = "gate"]
<1>1. TypeOK /\ task[s].pc = "copy" /\ UNCHANGED <<arbiterVars, cfg, raw, scanning, ui, ops>>
  BY DEF IInv, CopyAddress, At
<1>2. task' \in [Slots -> Task] /\ Moves(s, "gate")
  <2>1. new \in Task /\ new.pc = "gate"
    BY <1>1 DEF TypeOK, Task, Config
  <2>2. task' = [task EXCEPT ![s] = new]
    BY <1>1 DEF CopyAddress, TypeOK
  <2>3. QED
    BY <1>1, <2>1, <2>2, TaskMoves
<1>3. TypeOK'
  BY <1>1, <1>2 DEF TypeOK, ArbiterTypeOK, arbiterVars
<1>4. LeaseInv' /\ HoldIsCurrent'
  BY <1>1, <1>2, Quiet DEF SameScans, arbiterVars
<1>5. QED
  BY <1>3, <1>4 DEF IInv

LEMMA VerifiedInv ==
  ASSUME IInv, NEW s \in Slots,
         LinkUp(s) \/ \E rejected \in BOOLEAN : VerifyFails(s, rejected)
  PROVE  IInv'
<1>1. TypeOK /\ ArbiterTypeOK /\ task[s].pc = "linked"
  BY DEF IInv, TypeOK, LinkUp, VerifyFails, At
<1>2. \E up \in BOOLEAN : SetConnected(s, up)
  BY DEF LinkUp, VerifyFails
<1>3. ArbiterTypeOK' /\ UNCHANGED <<lease, hold, air>> /\ SameScans
  BY <1>1, <1>2, SetConnectedType DEF SameScans
<1>4. /\ raw' \in [Slots -> Addrs \cup {NoAddr}] /\ UNCHANGED <<scanning, ui, ops>>
      /\ cfg' \in [Slots -> Config]
  <2>1. CASE LinkUp(s)
    BY <1>1, <2>1 DEF LinkUp, TypeOK
  <2>2. ASSUME NEW rejected \in BOOLEAN, VerifyFails(s, rejected)
        PROVE  /\ raw' \in [Slots -> Addrs \cup {NoAddr}] /\ UNCHANGED <<scanning, ui, ops>>
               /\ cfg' \in [Slots -> Config]
    <3>1. cfg[s] \in Config
      BY <1>1 DEF TypeOK
    <3>2. PICK b \in BOOLEAN : cfg' = [cfg EXCEPT ![s] = [cfg[s] EXCEPT !.rejected = b]]
      BY <2>2, <3>1 DEF VerifyFails, Config
    <3>3. QED
      BY <1>1, <2>2, <3>1, <3>2 DEF VerifyFails, TypeOK, Config
  <2>3. QED
    BY <2>1, <2>2
<1>5. task' \in [Slots -> Task] /\ \E pc \in {"top", "backoff"} : Moves(s, pc)
  <2>1. CASE LinkUp(s)
    <3> DEFINE new == [task[s] EXCEPT !.pc = "top", !.up = TRUE]
    <3>1. new \in Task /\ new.pc = "top"
      BY <1>1 DEF TypeOK, Task
    <3>2. task' = [task EXCEPT ![s] = new]
      BY <1>1, <2>1 DEF LinkUp, TypeOK
    <3>3. QED
      BY <1>1, <3>1, <3>2, TaskMoves
  <2>2. ASSUME NEW rejected \in BOOLEAN, VerifyFails(s, rejected)
        PROVE  task' \in [Slots -> Task] /\ \E pc \in {"top", "backoff"} : Moves(s, pc)
    <3>1. \E pc \in {"top", "backoff"} : Goto(s, pc)
      BY <2>2 DEF VerifyFails
    <3>2. QED
      BY <1>1, <3>1, GotoMoves
  <2>3. QED
    BY <2>1, <2>2
<1>6. TypeOK'
  BY <1>1, <1>3, <1>4, <1>5 DEF TypeOK
<1>7. LeaseInv' /\ HoldIsCurrent'
  BY <1>1, <1>3, <1>5, Quiet
<1>8. QED
  BY <1>6, <1>7 DEF IInv

LEMMA TaskStepInv ==
  ASSUME IInv, NEW s \in Slots, TaskStep(s)
  PROVE  IInv'
  BY TopInv, CheckGrantedInv, CheckIdleInv, GatePollInv, ReleaseInv, LocalInv,
     WasPreemptedInv, ChunkInv,
     ChunkSightingInv, CopyAddressInv, GateInv, VerifiedInv DEF TaskStep

-----------------------------------------------------------------------------
(* The other threads: no task moves.                                       *)

(* A step that neither moves a task nor loses a scan request, and at most  *)
(* preempts.                                                               *)
LEMMA Steered ==
  ASSUME IInv, SameLease, UNCHANGED task, NEW c \in BOOLEAN, PreemptIf(c), c => Preemptible,
         \A i \in Slots : slots[i].user_scan => slots'[i].user_scan
  PROVE  LeaseInv' /\ HoldIsCurrent'
<1>1. GrantIsLive'
  BY DEF IInv, LeaseInv, GrantIsLive, WorkMatches, SameLease
<1>2. NoOrphanLease'
  BY DEF IInv, LeaseInv, NoOrphanLease, SameLease
<1>3. CheckHasScan'
  BY DEF IInv, LeaseInv, CheckHasScan, At
<1>4. HoldIsCurrent'
  BY PreemptHolds
<1>5. QED
  BY <1>1, <1>2, <1>3, <1>4 DEF LeaseInv

LEMMA Undisturbed ==
  ASSUME IInv, UNCHANGED <<task, lease, hold>>, SameScans
  PROVE  LeaseInv' /\ HoldIsCurrent'
  BY DEF IInv, LeaseInv, GrantIsLive, WorkMatches, NoOrphanLease, CheckHasScan, At,
     HoldIsCurrent, SameScans

LEMMA CountsUp ==
  ASSUME TypeOK, NEW kind, Interferes(kind)
  PROVE  ops' \in 0..MaxOps
  BY MaxOpsAssumption DEF TypeOK, Interferes

(* A change of one slot's configuration.                                   *)
LEMMA ConfigUpdate ==
  ASSUME TypeOK, NEW s \in Slots, NEW new \in Config, cfg' = [cfg EXCEPT ![s] = new]
  PROVE  cfg' \in [Slots -> Config]
  BY DEF TypeOK

LEMMA ScanInv ==
  ASSUME IInv, NEW s \in Slots, ScanTapped(s) \/ ScanRequested(s)
  PROVE  IInv'
<1>1. TypeOK /\ ArbiterTypeOK
  BY DEF IInv, TypeOK
<1>2. CASE ScanTapped(s)
  <2>1. UNCHANGED <<slots, lease, chunk, hold, air, task, cfg, raw>>
    BY <1>2 DEF ScanTapped, arbiterVars
  <2>2. ops' \in 0..MaxOps
    BY <1>1, <1>2, CountsUp DEF ScanTapped
  <2>3. TypeOK'
    BY <1>1, <1>2, <2>1, <2>2 DEF ScanTapped, TypeOK, ArbiterTypeOK
  <2>4. LeaseInv' /\ HoldIsCurrent'
    BY <2>1, Undisturbed DEF SameScans
  <2>5. QED
    BY <2>3, <2>4 DEF IInv
<1>3. CASE ScanRequested(s)
  <2>1. /\ ArbiterTypeOK' /\ SameLease
        /\ \A i \in Slots : slots[i].user_scan => slots'[i].user_scan
    BY <1>1, <1>3, RequestUserScanType DEF ScanRequested
  <2>2. PreemptIf(Preemptible) /\ Preemptible \in BOOLEAN
    BY <1>3 DEF ScanRequested, RequestUserScan, Preemptible
  <2>3. TypeOK'
    BY <1>1, <1>3, <2>1 DEF ScanRequested, TypeOK
  <2>4. LeaseInv' /\ HoldIsCurrent'
    BY <1>3, <2>1, <2>2, Steered DEF ScanRequested
  <2>5. QED
    BY <2>3, <2>4 DEF IInv
<1>4. QED
  BY <1>2, <1>3

(* abort_slot, as the setters call it.                                     *)
LEMMA AbortInv ==
  ASSUME IInv, NEW s \in Slots, AbortSlot(s) \/ UNCHANGED arbiterVars, UNCHANGED task
  PROVE  ArbiterTypeOK' /\ LeaseInv' /\ HoldIsCurrent'
<1>1. ArbiterTypeOK
  BY DEF IInv, TypeOK
<1>2. CASE AbortSlot(s)
  <2>1. ArbiterTypeOK' /\ SameLease /\ UNCHANGED slots
    BY <1>1, <1>2, AbortSlotType
  <2>2. /\ PreemptIf(HoldsPreemptible(s)) /\ HoldsPreemptible(s) \in BOOLEAN
        /\ HoldsPreemptible(s) => Preemptible
    BY <1>2, SlotsAssumption DEF AbortSlot, HoldsPreemptible, Preemptible
  <2>3. LeaseInv' /\ HoldIsCurrent'
    BY <2>1, <2>2, Steered
  <2>4. QED
    BY <2>1, <2>3
<1>3. CASE UNCHANGED arbiterVars
  BY <1>1, <1>3, Undisturbed DEF arbiterVars, ArbiterTypeOK, SameScans
<1>4. QED
  BY <1>2, <1>3

LEMMA SetAddressInv ==
  ASSUME IInv, NEW s \in Slots, NEW addr \in Addrs \cup {NoAddr}, SetAddress(s, addr)
  PROVE  IInv'
<1>1. TypeOK /\ cfg[s] \in Config
  BY DEF IInv, TypeOK
<1>2. [cfg[s] EXCEPT !.addr = addr, !.rejected = FALSE, !.redial = TRUE] \in Config
  BY <1>1 DEF Config
<1>3. cfg' \in [Slots -> Config] /\ ops' \in 0..MaxOps
  <2>1. cfg' = [cfg EXCEPT ![s] =
                  [cfg[s] EXCEPT !.addr = addr, !.rejected = FALSE, !.redial = TRUE]]
    BY <1>1 DEF SetAddress, TypeOK
  <2>2. QED
    BY <1>1, <1>2, <2>1, ConfigUpdate, CountsUp DEF SetAddress
<1>4. ArbiterTypeOK' /\ LeaseInv' /\ HoldIsCurrent'
  BY AbortInv DEF SetAddress
<1>5. QED
  BY <1>1, <1>3, <1>4 DEF SetAddress, TypeOK, IInv

LEMMA SetTokenInv ==
  ASSUME IInv, NEW s \in Slots, SetToken(s)
  PROVE  IInv'
<1>1. TypeOK /\ cfg[s] \in Config
  BY DEF IInv, TypeOK
<1>2. [cfg[s] EXCEPT !.rejected = FALSE, !.redial = TRUE] \in Config
  BY <1>1 DEF Config
<1>3. cfg' \in [Slots -> Config] /\ ops' \in 0..MaxOps
  <2>1. cfg' = [cfg EXCEPT ![s] = [cfg[s] EXCEPT !.rejected = FALSE, !.redial = TRUE]]
    BY <1>1 DEF SetToken, TypeOK
  <2>2. QED
    BY <1>1, <1>2, <2>1, ConfigUpdate, CountsUp DEF SetToken
<1>4. ArbiterTypeOK' /\ LeaseInv' /\ HoldIsCurrent'
  BY <1>1, Undisturbed DEF SetToken, arbiterVars, IInv, TypeOK, ArbiterTypeOK, SameScans
<1>5. QED
  BY <1>1, <1>3, <1>4 DEF SetToken, TypeOK, IInv

LEMMA SetConnectEnabledInv ==
  ASSUME IInv, NEW s \in Slots, NEW on \in BOOLEAN, SetConnectEnabled(s, on)
  PROVE  IInv'
<1>1. TypeOK /\ cfg[s] \in Config
  BY DEF IInv, TypeOK
<1>2. [cfg[s] EXCEPT !.willing = on, !.redial = TRUE] \in Config
  BY <1>1 DEF Config
<1>3. cfg' \in [Slots -> Config] /\ ops' \in 0..MaxOps
  <2>1. cfg' = [cfg EXCEPT ![s] = [cfg[s] EXCEPT !.willing = on, !.redial = TRUE]]
    BY <1>1 DEF SetConnectEnabled, TypeOK
  <2>2. QED
    BY <1>1, <1>2, <2>1, ConfigUpdate, CountsUp DEF SetConnectEnabled
<1>4. ArbiterTypeOK' /\ LeaseInv' /\ HoldIsCurrent'
  BY AbortInv DEF SetConnectEnabled
<1>5. QED
  BY <1>1, <1>3, <1>4 DEF SetConnectEnabled, TypeOK, IInv

LEMMA SetPartnerModeInv ==
  ASSUME IInv, NEW s \in Slots, NEW on \in BOOLEAN, SetPartnerMode(s, on)
  PROVE  IInv'
<1>1. TypeOK /\ ArbiterTypeOK /\ cfg[s] \in Config
  BY DEF IInv, TypeOK
<1>2. [cfg[s] EXCEPT !.partner = on, !.redial = TRUE] \in Config
  BY <1>1 DEF Config
<1>3. cfg' \in [Slots -> Config] /\ ops' \in 0..MaxOps
  <2>1. cfg' = [cfg EXCEPT ![s] = [cfg[s] EXCEPT !.partner = on, !.redial = TRUE]]
    BY <1>1 DEF SetPartnerMode, TypeOK
  <2>2. QED
    BY <1>1, <1>2, <2>1, ConfigUpdate, CountsUp DEF SetPartnerMode
<1>4. ArbiterTypeOK' /\ UNCHANGED <<lease, hold, air>> /\ SameScans
  BY <1>1, SetConnectedType DEF SetPartnerMode, SameScans
<1>5. LeaseInv' /\ HoldIsCurrent'
  BY <1>4, Undisturbed DEF SetPartnerMode
<1>6. QED
  BY <1>1, <1>3, <1>4, <1>5 DEF SetPartnerMode, TypeOK, IInv

LEMMA ParkInv ==
  ASSUME IInv, NEW s \in Slots, NEW src \in ParkSources, NEW on \in BOOLEAN, Park(s, src, on)
  PROVE  IInv'
<1> DEFINE parked == IF on THEN slots[s].parked \cup {src} ELSE slots[s].parked \ {src}
          yield == parked # {} /\ HoldsPreemptible(s)
<1>1. TypeOK /\ ArbiterTypeOK
  BY DEF IInv, TypeOK
<1>2. ArbiterTypeOK' /\ SameLease /\ SameScans
  BY <1>1, SetParkedType DEF Park, SameScans
<1>3. PreemptIf(yield) /\ yield \in BOOLEAN /\ (yield => Preemptible)
  BY SlotsAssumption DEF Park, SetParked, HoldsPreemptible, Preemptible
<1> HIDE DEF parked, yield
<1>4. LeaseInv' /\ HoldIsCurrent'
  BY <1>2, <1>3, Steered DEF Park, SameScans
<1>5. ops' \in 0..MaxOps
  BY <1>1, CountsUp DEF Park
<1>6. QED
  BY <1>1, <1>2, <1>4, <1>5 DEF Park, TypeOK, IInv

LEMMA LinkLostInv ==
  ASSUME IInv, NEW s \in Slots, LinkLost(s)
  PROVE  IInv'
<1>1. TypeOK /\ UNCHANGED <<slots, lease, chunk, hold, air>>
  BY DEF IInv, LinkLost, arbiterVars
<1>2. ops' \in 0..MaxOps
  BY <1>1, CountsUp DEF LinkLost
<1>3. TypeOK'
  BY <1>1, <1>2 DEF LinkLost, TypeOK, ArbiterTypeOK
<1>4. LeaseInv' /\ HoldIsCurrent'
  BY <1>1, Undisturbed DEF LinkLost, SameScans
<1>5. QED
  BY <1>3, <1>4 DEF IInv

LEMMA TimeInv ==
  ASSUME IInv, Time
  PROVE  IInv'
<1>1. TypeOK /\ ArbiterTypeOK
  BY DEF IInv, TypeOK
<1>2. ArbiterTypeOK' /\ UNCHANGED <<lease, hold, air, linkVars>> /\ SameScans
  BY <1>1, TimeType DEF SameScans
<1>3. UNCHANGED <<task, cfg, raw, scanning, ui, ops>>
  BY <1>2 DEF linkVars
<1>4. TypeOK'
  BY <1>1, <1>2, <1>3 DEF TypeOK
<1>5. LeaseInv' /\ HoldIsCurrent'
  BY <1>2, <1>3, Undisturbed
<1>6. QED
  BY <1>4, <1>5 DEF IInv

LEMMA StutterInv ==
  ASSUME IInv, UNCHANGED vars
  PROVE  IInv'
<1>1. UNCHANGED <<slots, lease, chunk, hold, air, task, cfg, raw, scanning, ui, ops>>
  BY DEF vars, arbiterVars, linkVars
<1>2. TypeOK'
  BY <1>1 DEF IInv, TypeOK, ArbiterTypeOK
<1>3. LeaseInv' /\ HoldIsCurrent'
  BY <1>1, Undisturbed DEF SameScans
<1>4. QED
  BY <1>2, <1>3 DEF IInv

LEMMA NextInv ==
  ASSUME IInv, [Next]_vars
  PROVE  IInv'
<1>1. ASSUME NEW s \in Slots, Interference(s)
      PROVE  IInv'
  BY <1>1, ScanInv, SetAddressInv, SetTokenInv, SetConnectEnabledInv, SetPartnerModeInv, ParkInv
     DEF Interference
<1>2. ASSUME NEW s \in Slots, TaskStep(s) \/ ScanRequested(s) \/ LinkLost(s)
      PROVE  IInv'
  BY <1>2, TaskStepInv, ScanInv, LinkLostInv
<1>3. QED
  BY <1>1, <1>2, TimeInv, StutterInv DEF Next

(* The strengthened invariant holds throughout: RadioExclusive alone is    *)
(* not inductive, it needs to know whose lease a working task holds, and   *)
(* that a lease no task works under waits for a scan at the loop's head.   *)
THEOREM Invariant == Spec => []IInv
<1>1. Init => IInv
  BY InitIInv
<1>2. IInv /\ [Next]_vars => IInv'
  BY NextInv
<1>3. QED
  BY <1>1, <1>2, PTL DEF Spec

(* Every variable of the arbiter, the transports and the link tasks keeps  *)
(* its type, for any number of slots, addresses and interferences.         *)
THEOREM TypeCorrect == Spec => []TypeOK
<1>1. IInv => TypeOK
  BY DEF IInv
<1>2. QED
  BY <1>1, Invariant, PTL

(* A link task that dials, scans or runs a chunk holds that very lease: no *)
(* release, sighting or connect result is ever dropped as stale.           *)
THEOREM GrantsAreLive == Spec => []GrantIsLive
<1>1. IInv => GrantIsLive
  BY DEF IInv, LeaseInv
<1>2. QED
  BY <1>1, Invariant, PTL

(* However many links share the radio, the host never runs two listening   *)
(* procedures at once.                                                     *)
THEOREM OneListener == Spec => []RadioExclusive
<1>1. GrantIsLive => RadioExclusive
  BY DEF GrantIsLive, RadioExclusive, OnAir
<1>2. QED
  BY <1>1, GrantsAreLive, PTL

(* No path of a link task forgets a lease it was granted.                  *)
THEOREM LeasesAreReturned == Spec => []NoOrphanLease
<1>1. IInv => NoOrphanLease
  BY DEF IInv, LeaseInv
<1>2. QED
  BY <1>1, Invariant, PTL

(* The transport's hold level always belongs to the dialling lease: it is  *)
(* up exactly when that lease was preempted.                               *)
THEOREM HoldFollowsLease == Spec => []HoldIsCurrent
<1>1. IInv => HoldIsCurrent
  BY DEF IInv
<1>2. QED
  BY <1>1, Invariant, PTL
=============================================================================
