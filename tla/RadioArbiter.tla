---------------------------- MODULE RadioArbiter ----------------------------
(***************************************************************************)
(* core::RadioArbiter (src/core/radio_arbiter.cpp): the one place that     *)
(* decides which BLE link may listen (connect by address, run a finder     *)
(* chunk, run the user's Settings scan).  Every method holds the           *)
(* arbiter's mutex for its whole body, the transport hook included, so     *)
(* each method is one atomic operator here.  Each operator says what its   *)
(* method does to ALL FIVE variables of this module; the link tasks and    *)
(* the other threads that call them are in RadioLinks.                     *)
(*                                                                         *)
(* Time is abstract: a deadline is a flag that some action of the          *)
(* environment flips (a sighting turns stale, a chunk gap ends); the       *)
(* 32-bit arithmetic behind those deadlines is left out.                   *)
(***************************************************************************)
EXTENDS Integers, FiniteSets

CONSTANTS
  Slots,        \* the RadioSlots: integers, in the order of the enum
  Scales,       \* the scale slots (is_scale); the others are the Micra
  Addrs,        \* peer addresses a slot can be configured with
  NoAddr,       \* the empty address
  ParkSources,  \* kSaver, kPortal, kShot
  NoSlot        \* holder_ = -1

ASSUME SlotsAssumption  == Slots \subseteq Int /\ IsFiniteSet(Slots) /\ NoSlot \notin Slots
ASSUME ScalesAssumption == Scales \subseteq Slots
ASSUME AddrsAssumption  == NoAddr \notin Addrs

VARIABLES
  slots,  \* slots_: what each link wants, where it stands, when it was served
  lease,  \* holder_, holder_work_, holder_preempted_
  chunk,  \* the finder backoff: is the next chunk due, the gap, chunk sighted
  hold,   \* per slot: NimbleCentral::hold_, the transport's "refuse" level
  air     \* per slot: the cancellable call (connect, chunk) in its transport

arbiterVars == <<slots, lease, chunk, hold, air>>

Works == {"user_scan", "direct_connect", "finder_chunk"}
Gaps  == {1, 5, 20}                    \* chunk_gap_ms_, in seconds

NoLease == [holder |-> NoSlot, work |-> "idle", preempted |-> FALSE]

(* A slot's bookkeeping.  `sighted`: has_sighting, and still within the    *)
(* sighting window (a stale one is never looked at again); `later` stands  *)
(* for last_served_ms: the slots that were served strictly later.          *)
Slot == [addr : Addrs \cup {NoAddr}, wanted : BOOLEAN, connected : BOOLEAN,
         partner : BOOLEAN, parked : SUBSET ParkSources, user_scan : BOOLEAN,
         sighted : BOOLEAN, later : SUBSET Slots]

ArbiterInit ==
  /\ slots = [s \in Slots |->
                [addr |-> NoAddr, wanted |-> FALSE, connected |-> FALSE,
                 partner |-> FALSE, parked |-> {}, user_scan |-> FALSE,
                 sighted |-> FALSE, later |-> {}]]
  /\ lease = NoLease
  /\ chunk = [due |-> TRUE, gap |-> 1, sighted |-> FALSE]
  /\ hold = [s \in Slots |-> FALSE]
  /\ air = [s \in Slots |-> "idle"]

ArbiterTypeOK ==
  /\ slots \in [Slots -> Slot]
  /\ lease \in [holder : Slots \cup {NoSlot}, work : Works \cup {"idle"},
                preempted : BOOLEAN]
  /\ chunk \in [due : BOOLEAN, gap : Gaps, sighted : BOOLEAN]
  /\ hold \in [Slots -> BOOLEAN]
  /\ air \in [Slots -> {"idle", "busy", "stopping"}]

-----------------------------------------------------------------------------
(* Who is ready, and for what.                                             *)

Missing(s) ==
  /\ slots[s].wanted /\ ~slots[s].connected /\ ~slots[s].partner
  /\ slots[s].parked = {} /\ slots[s].addr # NoAddr

MissingScales == {s \in Scales : Missing(s)}

FreshlySighted == {s \in MissingScales : slots[s].sighted}

UserScanners == {s \in Slots : slots[s].user_scan}

(* Seeded fault: a user scan waits until nothing else wants the radio.     *)
WorkForScanLast(s) ==
  IF Missing(s) THEN "direct_connect"
  ELSE IF s \in UserScanners /\ \A i \in Slots : ~Missing(i) THEN "user_scan" ELSE "idle"

(* ready_locked: a pending user scan beats everything, a fresh sighting    *)
(* beats the ordinary reconnects, two missing scales share finder chunks.  *)
WorkFor(s) ==
  IF UserScanners # {}   THEN IF s \in UserScanners THEN "user_scan" ELSE "idle"
  ELSE IF FreshlySighted # {}
       THEN IF s \in FreshlySighted THEN "direct_connect" ELSE "idle"
  ELSE IF ~Missing(s)    THEN "idle"
  ELSE IF s \notin Scales \/ MissingScales = {s} THEN "direct_connect"
  ELSE IF chunk.due      THEN "finder_chunk" ELSE "idle"

Ready(s) == WorkFor(s) # "idle"

(* Seeded fault: the enum order decides, not who was served last.          *)
GoesBeforeByIndex(i, s) == i < s

(* i was served before s; at the same millisecond the lower index goes.    *)
GoesBefore(i, s) ==
  \/ s \in slots[i].later
  \/ s \notin slots[i].later /\ i \notin slots[s].later /\ i < s

(* Seeded fault: a user scan takes the lease over from a holder it has     *)
(* preempted instead of waiting for its release.                           *)
MayTakeOver(s) ==
  /\ lease.holder # s
  /\ \/ lease.holder = NoSlot
     \/ slots[s].user_scan /\ lease.preempted /\ lease.work # "user_scan"
  /\ Ready(s)
  /\ \A i \in Slots \ {s} : ~(Ready(i) /\ GoesBefore(i, s))

(* poll: the lease is free and nobody who is ready goes first.             *)
MayTake(s) ==
  /\ lease.holder = NoSlot
  /\ Ready(s)
  /\ \A i \in Slots \ {s} : ~(Ready(i) /\ GoesBefore(i, s))

-----------------------------------------------------------------------------
(* The internals every method shares.                                      *)

Touched == [chunk EXCEPT !.due = TRUE, !.gap = 1]      \* touch_locked

TouchedIf(changed) == IF changed THEN Touched ELSE chunk

(* Seeded fault: preempting frees the lease at once.                       *)
PreemptFrees ==
  /\ lease' = NoLease
  /\ hold' = IF lease.work = "direct_connect"
               THEN [hold EXCEPT ![lease.holder] = TRUE] ELSE hold
  /\ air' = [air EXCEPT ![lease.holder] = IF @ = "idle" THEN @ ELSE "stopping"]

(* preempt_holder_locked + run_hook_locked: a connect is refused from now  *)
(* on and the attempt under way is cancelled, a scan is stopped.  A cancel *)
(* reaches only what is in flight at that moment.                          *)
Preempt ==
  /\ lease' = [lease EXCEPT !.preempted = TRUE]
  /\ hold' = IF lease.work = "direct_connect"
               THEN [hold EXCEPT ![lease.holder] = TRUE] ELSE hold
  /\ air' = [air EXCEPT ![lease.holder] = IF @ = "idle" THEN @ ELSE "stopping"]

PreemptIf(condition) ==
  IF condition THEN Preempt ELSE UNCHANGED <<lease, hold, air>>

(* Everything but a user scan may be preempted.                            *)
Preemptible == lease.holder # NoSlot /\ lease.work # "user_scan"

(* Seeded fault: a slot's own user scan is cancelled like a reconnect.     *)
HoldsAnything(s) == lease.holder = s

HoldsPreemptible(s) == lease.holder = s /\ lease.work # "user_scan"

-----------------------------------------------------------------------------
(* State fed by the links and by the device loop.                          *)

(* set_target + set_wanted + set_partner_mode, as a link's loop pass calls *)
(* them one after the other.                                               *)
Sync(s, addr, wanted, partner) ==
  LET new == [slots[s] EXCEPT
                !.addr = addr, !.wanted = wanted, !.partner = partner,
                !.sighted = IF addr = slots[s].addr THEN @ ELSE FALSE]
  IN /\ slots' = [slots EXCEPT ![s] = new]
     /\ chunk' = TouchedIf(new # slots[s])
     /\ PreemptIf(slots[s].wanted /\ ~wanted /\ HoldsPreemptible(s))

SetConnected(s, up) ==
  /\ slots' = [slots EXCEPT ![s].connected = up,
                            ![s].sighted = IF up /\ ~slots[s].connected THEN FALSE ELSE @]
  /\ chunk' = TouchedIf(up # slots[s].connected)
  /\ UNCHANGED <<lease, hold, air>>

SetParked(s, src, on) ==
  LET parked == IF on THEN slots[s].parked \cup {src} ELSE slots[s].parked \ {src}
  IN /\ parked # slots[s].parked
     /\ slots' = [slots EXCEPT ![s].parked = parked]
     /\ chunk' = Touched
     /\ PreemptIf(parked # {} /\ HoldsPreemptible(s))

RequestUserScan(s) ==
  /\ slots' = [slots EXCEPT ![s].user_scan = TRUE]
  /\ chunk' = Touched
  /\ PreemptIf(Preemptible)

AbortSlot(s) ==
  /\ PreemptIf(HoldsPreemptible(s))
  /\ UNCHANGED <<slots, chunk>>

-----------------------------------------------------------------------------
(* The link-task protocol.                                                 *)

(* The slots a grant counts as served: a chunk listens for every missing   *)
(* scale.                                                                  *)
ServedBy(s, work) == {s} \cup (IF work = "finder_chunk" THEN MissingScales ELSE {})

AfterServing(served, i) ==
  IF i \in served THEN {} ELSE slots[i].later \cup served

(* Seeded fault: the hold level of an earlier preemption stays up.         *)
HoldKept(s) == hold

(* The grant's hold(false), under the same lock as every preempt.          *)
HoldAfterGrant(s) == [hold EXCEPT ![s] = FALSE]

(* poll, the lease is free and s is next: the grant.  A fresh sighting is  *)
(* consumed, a stale hold level is cleared.                                *)
Grant(s) ==
  LET work == WorkFor(s) IN
  /\ MayTake(s)
  /\ lease' = [holder |-> s, work |-> work, preempted |-> FALSE]
  /\ slots' = [i \in Slots |->
                 [slots[i] EXCEPT
                    !.later = AfterServing(ServedBy(s, work), i),
                    !.sighted = IF i = s /\ work = "direct_connect" THEN FALSE ELSE @]]
  /\ chunk' = IF work = "finder_chunk" THEN [chunk EXCEPT !.sighted = FALSE] ELSE chunk
  /\ hold' = HoldAfterGrant(s)
  /\ air' = air

(* poll, no grant: another slot holds the radio, or goes first.  A pending *)
(* user scan preempts the other holder again on EVERY poll.                *)
PollIdle(s) ==
  /\ lease.holder # s
  /\ ~MayTake(s)
  /\ PreemptIf(slots[s].user_scan /\ Preemptible)
  /\ UNCHANGED <<slots, chunk>>

(* poll by the holder answers the same grant again and changes nothing.    *)

(* Seeded fault: the growth is not capped.                                 *)
NextGapUncapped(gap) == 5 * gap

NextGap(gap) == IF gap = 1 THEN 5 ELSE 20           \* x5, capped at 20 s

(* Seeded fault: a chunk cut short counts as an empty one.                 *)
ProductiveIfHeard(preempted) == chunk.sighted

Productive(preempted) == chunk.sighted \/ preempted

(* release: the lease ends.  An empty chunk grows the NEXT gap; a sighting *)
(* or a preemption brings it back to the minimum.                          *)
Release(s, preempted) ==
  /\ lease.holder = s
  /\ lease' = NoLease
  /\ slots' = IF lease.work = "user_scan"
                THEN [slots EXCEPT ![s].user_scan = FALSE] ELSE slots
  /\ chunk' = IF lease.work = "finder_chunk"
                THEN [chunk EXCEPT !.due = FALSE,
                                   !.gap = IF Productive(preempted) THEN 1 ELSE NextGap(@)]
                ELSE chunk
  /\ UNCHANGED <<hold, air>>

ReportSighting(seen) ==
  /\ slots' = [slots EXCEPT ![seen].sighted = TRUE]
  /\ chunk' = [chunk EXCEPT !.sighted = TRUE]
  /\ UNCHANGED <<lease, hold, air>>

-----------------------------------------------------------------------------
(* Time.                                                                   *)

SightingGoesStale(s) ==
  /\ slots[s].sighted
  /\ slots' = [slots EXCEPT ![s].sighted = FALSE]
  /\ UNCHANGED <<lease, chunk, hold, air>>

ChunkGapEnds ==
  /\ ~chunk.due
  /\ chunk' = [chunk EXCEPT !.due = TRUE]
  /\ UNCHANGED <<slots, lease, hold, air>>
=============================================================================
