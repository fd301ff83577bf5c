----------------------------- MODULE RadioLinks -----------------------------
(***************************************************************************)
(* The three link tasks (MicraLink::run, ScaleLink::run, two instances)    *)
(* sharing one radio through RadioArbiter, the BLE transport they dial and *)
(* scan with (NimbleCentral), and the threads that interfere: the UI       *)
(* (Scan, Disconnect, Forget, partner mode) and the device loop (parking). *)
(*                                                                         *)
(* One action is one critical section of the arbiter, or one step of the   *)
(* transport between two of them, so every interleaving of the four        *)
(* threads at those boundaries is explored.                                *)
(***************************************************************************)
EXTENDS RadioArbiter

CONSTANTS
  MaxOps,        \* bound: how often the user, the device loop and the peers interfere
  Interferences  \* bound: in which ways

ASSUME MaxOpsAssumption == MaxOps \in Nat

VARIABLES
  task,      \* per slot: where the link task is, and its local state
  cfg,       \* per slot: what the user configured (the links' atomics)
  raw,       \* per slot: the BLE link itself: to which peer, or none
  scanning,  \* per slot: scanning_, what the UI shows
  ui,        \* the slot whose request_scan the UI thread is half through
  ops        \* interferences so far

linkVars == <<task, cfg, raw, scanning, ui, ops>>
vars == <<arbiterVars, linkVars>>

ScanPcs   == {"scanning", "scanned"}
DialPcs   == {"dial", "armed", "dialing", "dialed", "tried"}
ChunkPcs  == {"chunk", "tuned", "finding", "sighted", "found", "heard"}
LeasedPcs == ScanPcs \cup DialPcs \cup ChunkPcs
FreePcs   == {"top", "check", "copy", "gate", "linked", "backoff"}

(* `peer`: the address the pass has copied, which it will dial; `ok`: what *)
(* the dial returned; `cut`: what was_preempted told it.                   *)
Task == [pc : LeasedPcs \cup FreePcs, up : BOOLEAN, peer : Addrs \cup {NoAddr},
         ok : BOOLEAN, cut : BOOLEAN, targets : SUBSET Slots, seen : Slots \cup {NoSlot}]
Config == [addr : Addrs \cup {NoAddr}, willing : BOOLEAN, rejected : BOOLEAN,
           partner : BOOLEAN, redial : BOOLEAN]

TypeOK ==
  /\ ArbiterTypeOK
  /\ task \in [Slots -> Task]
  /\ cfg \in [Slots -> Config]
  /\ raw \in [Slots -> Addrs \cup {NoAddr}]
  /\ scanning \in [Slots -> BOOLEAN]
  /\ ui \in Slots \cup {NoSlot}
  /\ ops \in 0..MaxOps

(* Boot: every slot has a saved peer, or none.                             *)
Init ==
  /\ ArbiterInit
  /\ task = [s \in Slots |-> [pc |-> "top", up |-> FALSE, peer |-> NoAddr,
                             ok |-> FALSE, cut |-> FALSE, targets |-> {}, seen |-> NoSlot]]
  /\ cfg \in [Slots -> [addr : Addrs \cup {NoAddr}, willing : {TRUE},
                        rejected : {FALSE}, partner : {FALSE}, redial : {FALSE}]]
  /\ raw = [s \in Slots |-> NoAddr]
  /\ scanning = [s \in Slots |-> FALSE]
  /\ ui = NoSlot
  /\ ops = 0

At(s, pc)   == task[s].pc = pc
Goto(s, pc) == task' = [task EXCEPT ![s].pc = pc]

-----------------------------------------------------------------------------
(* The head of the loop: feed the arbiter, look for a user scan.           *)

(* A link wants its peer when one is saved, the user has not switched it   *)
(* off (`willing`) and the Micra has not rejected the token.               *)
Wanted(s) == cfg[s].addr # NoAddr /\ cfg[s].willing /\ ~cfg[s].rejected

(* What the Micra's loop dials it copies here, a scale's after its scan.   *)
AfterHead(s) == IF s \in Scales THEN "copy" ELSE "gate"

Top(s) ==
  /\ At(s, "top")
  /\ Sync(s, cfg[s].addr, Wanted(s), s \in Scales /\ cfg[s].partner)
  /\ task' = [task EXCEPT ![s].peer = cfg[s].addr,
                          ![s].pc = IF slots[s].user_scan THEN "check" ELSE AfterHead(s)]
  /\ UNCHANGED <<cfg, raw, scanning, ui, ops>>

(* A scan is pending: poll until the lease is ours.  The lease may be ours *)
(* already, taken at the gate of the pass before.                          *)
CheckGranted(s) ==
  /\ At(s, "check")
  /\ \/ Grant(s)
     \/ lease.holder = s /\ UNCHANGED arbiterVars
  /\ Goto(s, "scanning")
  /\ UNCHANGED <<cfg, raw, scanning, ui, ops>>

CheckIdle(s) ==
  /\ At(s, "check")
  /\ PollIdle(s)
  /\ Goto(s, "top")
  /\ UNCHANGED <<cfg, raw, scanning, ui, ops>>

(* do_scan returns and drops the flag the UI shows ...                     *)
ScanEnds(s) ==
  /\ At(s, "scanning")
  /\ scanning' = [scanning EXCEPT ![s] = FALSE]
  /\ Goto(s, "scanned")
  /\ UNCHANGED <<arbiterVars, cfg, raw, ui, ops>>

(* ... and only then is the lease released; the pass goes on.              *)
ScanReleased(s) ==
  /\ At(s, "scanned")
  /\ Release(s, FALSE)
  /\ Goto(s, AfterHead(s))
  /\ UNCHANGED <<cfg, raw, scanning, ui, ops>>

CopyAddress(s) ==
  /\ At(s, "copy")
  /\ task' = [task EXCEPT ![s].peer = cfg[s].addr, ![s].pc = "gate"]
  /\ UNCHANGED <<arbiterVars, cfg, raw, scanning, ui, ops>>

-----------------------------------------------------------------------------
(* The gates: idle, drop the link, or ask for the radio.                   *)

Idles(s) ==
  \/ task[s].peer = NoAddr \/ ~cfg[s].willing \/ cfg[s].rejected
  \/ s \in Scales /\ cfg[s].partner

(* Seeded fault: the drop is not reported to the arbiter.                  *)
MarkDownLocally(s, pc) ==
  /\ task' = [task EXCEPT ![s].pc = pc, ![s].up = FALSE]
  /\ UNCHANGED arbiterVars

(* A local `connected` that ends goes to the arbiter in the same breath.   *)
MarkDown(s, pc) ==
  /\ task' = [task EXCEPT ![s].pc = pc, ![s].up = FALSE]
  /\ SetConnected(s, FALSE)

(* Not configured, switched off or in partner mode: drop any link, idle.   *)
GateIdle(s) ==
  /\ At(s, "gate") /\ Idles(s)
  /\ IF task[s].up
       THEN MarkDown(s, "top") /\ raw' = [raw EXCEPT ![s] = NoAddr]
       ELSE Goto(s, "top") /\ UNCHANGED <<arbiterVars, raw>>
  /\ UNCHANGED <<cfg, scanning, ui, ops>>

(* reconnect_requested_: drop the link and dial again in this very pass.   *)
GateRedial(s) ==
  /\ At(s, "gate") /\ ~Idles(s) /\ task[s].up /\ cfg[s].redial
  /\ MarkDown(s, "gate")
  /\ raw' = [raw EXCEPT ![s] = NoAddr]
  /\ cfg' = [cfg EXCEPT ![s].redial = FALSE]
  /\ UNCHANGED <<scanning, ui, ops>>

(* Seeded fault: a connected link never looks at its transport.            *)
GateServeBlindly(s) ==
  /\ At(s, "gate") /\ ~Idles(s) /\ task[s].up /\ ~cfg[s].redial
  /\ Goto(s, "top")
  /\ UNCHANGED <<arbiterVars, cfg, raw, scanning, ui, ops>>

(* Connected: serve the peer, or notice that it is gone, or give up a      *)
(* scale that sends no weight or whose driver finds the link dead.         *)
GateServe(s) ==
  /\ At(s, "gate") /\ ~Idles(s) /\ task[s].up /\ ~cfg[s].redial
  /\ \/ raw[s] # NoAddr /\ Goto(s, "top") /\ UNCHANGED <<arbiterVars, raw>>
     \/ /\ s \in Scales \/ raw[s] = NoAddr
        /\ MarkDown(s, "top") /\ raw' = [raw EXCEPT ![s] = NoAddr]
  /\ UNCHANGED <<cfg, scanning, ui, ops>>

AfterGrant(work) ==
  CASE work = "direct_connect" -> "dial"
    [] work = "finder_chunk"   -> "chunk"
    [] OTHER                   -> "top"   \* a user scan: run at the head of the loop

GatePoll(s) ==
  /\ At(s, "gate") /\ ~Idles(s) /\ ~task[s].up
  /\ cfg' = [cfg EXCEPT ![s].redial = FALSE]
  /\ \/ Grant(s) /\ Goto(s, AfterGrant(WorkFor(s)))
     \/ PollIdle(s) /\ Goto(s, "top")
  /\ UNCHANGED <<raw, scanning, ui, ops>>

-----------------------------------------------------------------------------
(* A direct connect (NimbleCentral::connect).                              *)

(* Seeded fault: a refused connect returns to the loop with its lease.     *)
DialRefusedLeaks(s) ==
  /\ At(s, "dial")
  /\ Goto(s, IF hold[s] THEN "top" ELSE "armed")
  /\ UNCHANGED <<arbiterVars, cfg, raw, scanning, ui, ops>>

(* The hold level is looked at once, before the call is announced ...      *)
DialHoldCheck(s) ==
  /\ At(s, "dial")
  /\ Goto(s, IF hold[s] THEN "dialed" ELSE "armed")
  /\ UNCHANGED <<arbiterVars, cfg, raw, scanning, ui, ops>>

(* ... from connecting_ = true on a cancel finds something to cancel.      *)
DialStarts(s) ==
  /\ At(s, "armed")
  /\ air' = [air EXCEPT ![s] = "busy"]
  /\ Goto(s, "dialing")
  /\ UNCHANGED <<slots, lease, chunk, hold, cfg, raw, scanning, ui, ops>>

(* Seeded fault: a cancelled connect never returns.                        *)
DialEndsUnlessStopped(s, ok) ==
  /\ At(s, "dialing") /\ air[s] = "busy"
  /\ air' = [air EXCEPT ![s] = "idle"]
  /\ raw' = [raw EXCEPT ![s] = IF ok THEN task[s].peer ELSE NoAddr]
  /\ task' = [task EXCEPT ![s].pc = "dialed", ![s].ok = ok]
  /\ UNCHANGED <<slots, lease, chunk, hold, cfg, scanning, ui, ops>>

(* The peer answers, the timeout runs out or the cancel lands; the peer    *)
(* may still win against a cancel.                                         *)
DialEnds(s, ok) ==
  /\ At(s, "dialing")
  /\ air' = [air EXCEPT ![s] = "idle"]
  /\ raw' = [raw EXCEPT ![s] = IF ok THEN task[s].peer ELSE NoAddr]
  /\ task' = [task EXCEPT ![s].pc = "dialed", ![s].ok = ok]
  /\ UNCHANGED <<slots, lease, chunk, hold, cfg, scanning, ui, ops>>

(* was_preempted, after a connect or a chunk; a preemption may still land  *)
(* between this look and the release.                                      *)
WasPreempted(s) ==
  /\ task[s].pc \in {"dialed", "found"}
  /\ task' = [task EXCEPT ![s].cut = lease.preempted,
                          ![s].pc = IF @ = "dialed" THEN "tried" ELSE "heard"]
  /\ UNCHANGED <<arbiterVars, cfg, raw, scanning, ui, ops>>

(* release: a yielded try is not a failed one, and a dial that went well   *)
(* is one although its link may be gone again.                             *)
DialReleased(s) ==
  /\ At(s, "tried")
  /\ Release(s, task[s].cut)
  /\ task' = [task EXCEPT ![s].ok = FALSE, ![s].cut = FALSE,
                          ![s].pc = IF task[s].ok THEN "linked"
                                    ELSE IF task[s].cut THEN "top" ELSE "backoff"]
  /\ UNCHANGED <<cfg, raw, scanning, ui, ops>>

(* set_connected(true): for the Micra only after its reads have verified   *)
(* the token, long after the lease is gone.                                *)
LinkUp(s) ==
  /\ At(s, "linked")
  /\ task' = [task EXCEPT ![s].pc = "top", ![s].up = TRUE]
  /\ SetConnected(s, TRUE)
  /\ UNCHANGED <<cfg, raw, scanning, ui, ops>>

(* The Micra's verify reads fail (the link) or are answered with garbage   *)
(* (the token).                                                            *)
VerifyFails(s, rejected) ==
  /\ s \notin Scales
  /\ At(s, "linked")
  /\ raw' = [raw EXCEPT ![s] = NoAddr]
  /\ cfg' = [cfg EXCEPT ![s].rejected = @ \/ rejected]
  /\ Goto(s, IF rejected THEN "top" ELSE "backoff")
  /\ SetConnected(s, FALSE)
  /\ UNCHANGED <<scanning, ui, ops>>

(* Sliced sleeps, cut short by a pending user scan.                        *)
BackoffEnds(s) ==
  /\ At(s, "backoff")
  /\ Goto(s, "top")
  /\ UNCHANGED <<arbiterVars, cfg, raw, scanning, ui, ops>>

-----------------------------------------------------------------------------
(* A finder chunk (NimbleCentral::scan_for).                               *)

ChunkTargets(s) ==
  /\ At(s, "chunk")
  /\ task' = [task EXCEPT ![s].targets = MissingScales,
                          ![s].pc = IF MissingScales = {} THEN "found" ELSE "tuned"]
  /\ UNCHANGED <<arbiterVars, cfg, raw, scanning, ui, ops>>

ChunkStarts(s) ==
  /\ At(s, "tuned")
  /\ air' = [air EXCEPT ![s] = "busy"]
  /\ Goto(s, "finding")
  /\ UNCHANGED <<slots, lease, chunk, hold, cfg, raw, scanning, ui, ops>>

(* A target advertises, the chunk runs out or is stopped.                  *)
ChunkEnds(s, seen) ==
  /\ At(s, "finding")
  /\ seen \in task[s].targets \cup {NoSlot}
  /\ air' = [air EXCEPT ![s] = "idle"]
  /\ task' = [task EXCEPT ![s].seen = seen, ![s].targets = {},
                          ![s].pc = IF seen = NoSlot THEN "found" ELSE "sighted"]
  /\ UNCHANGED <<slots, lease, chunk, hold, cfg, raw, scanning, ui, ops>>

ChunkSighting(s) ==
  /\ At(s, "sighted")
  /\ ReportSighting(task[s].seen)
  /\ task' = [task EXCEPT ![s].pc = "found", ![s].seen = NoSlot]
  /\ UNCHANGED <<cfg, raw, scanning, ui, ops>>

ChunkReleased(s) ==
  /\ At(s, "heard")
  /\ Release(s, task[s].cut)
  /\ task' = [task EXCEPT ![s].pc = "top", ![s].cut = FALSE]
  /\ UNCHANGED <<cfg, raw, scanning, ui, ops>>

-----------------------------------------------------------------------------
(* The other threads.                                                      *)

Interferes(kind) ==
  /\ kind \in Interferences
  /\ ops < MaxOps
  /\ ops' = ops + 1

(* request_scan, UI thread: the flag, then the arbiter.                    *)
ScanTapped(s) ==
  /\ Interferes("scan")
  /\ ui = NoSlot
  /\ ui' = s
  /\ scanning' = [scanning EXCEPT ![s] = TRUE]
  /\ UNCHANGED <<arbiterVars, task, cfg, raw>>

ScanRequested(s) ==
  /\ ui = s
  /\ RequestUserScan(s)
  /\ ui' = NoSlot
  /\ UNCHANGED <<task, cfg, raw, scanning, ops>>

(* set_address: another peer, or none (Forget).  A new machine gives its   *)
(* token a fresh chance.                                                   *)
SetAddress(s, addr) ==
  /\ Interferes("address")
  /\ cfg' = [cfg EXCEPT ![s].addr = addr, ![s].rejected = FALSE, ![s].redial = TRUE]
  /\ AbortSlot(s)
  /\ UNCHANGED <<task, raw, scanning, ui>>

SetToken(s) ==
  /\ s \notin Scales
  /\ Interferes("token")
  /\ cfg' = [cfg EXCEPT ![s].rejected = FALSE, ![s].redial = TRUE]
  /\ UNCHANGED <<arbiterVars, task, raw, scanning, ui>>

(* set_connect_enabled: the user's Connect and Disconnect.                 *)
SetConnectEnabled(s, on) ==
  /\ Interferes("switch")
  /\ cfg' = [cfg EXCEPT ![s].willing = on, ![s].redial = TRUE]
  /\ IF on THEN UNCHANGED arbiterVars ELSE AbortSlot(s)
  /\ UNCHANGED <<task, raw, scanning, ui>>

(* set_partner_mode reports the slot down from the caller's thread.        *)
SetPartnerMode(s, on) ==
  /\ s \in Scales
  /\ Interferes("partner")
  /\ cfg' = [cfg EXCEPT ![s].partner = on, ![s].redial = TRUE]
  /\ SetConnected(s, FALSE)
  /\ UNCHANGED <<task, raw, scanning, ui>>

Park(s, src, on) ==
  /\ Interferes("park")
  /\ SetParked(s, src, on)
  /\ UNCHANGED <<task, cfg, raw, scanning, ui>>

(* The peer goes away, or out of range.                                    *)
LinkLost(s) ==
  /\ Interferes("loss")
  /\ raw[s] # NoAddr
  /\ raw' = [raw EXCEPT ![s] = NoAddr]
  /\ UNCHANGED <<arbiterVars, task, cfg, scanning, ui>>

Time ==
  /\ \/ \E s \in Slots : SightingGoesStale(s)
     \/ ChunkGapEnds
  /\ UNCHANGED linkVars

-----------------------------------------------------------------------------
TaskStep(s) ==
  \/ Top(s) \/ CheckGranted(s) \/ CheckIdle(s) \/ ScanEnds(s) \/ ScanReleased(s)
  \/ CopyAddress(s)
  \/ GateIdle(s) \/ GateRedial(s) \/ GateServe(s) \/ GatePoll(s)
  \/ DialHoldCheck(s) \/ DialStarts(s) \/ WasPreempted(s) \/ DialReleased(s)
  \/ \E ok \in BOOLEAN : DialEnds(s, ok)
  \/ LinkUp(s) \/ BackoffEnds(s)
  \/ \E rejected \in BOOLEAN : VerifyFails(s, rejected)
  \/ ChunkTargets(s) \/ ChunkStarts(s) \/ ChunkSighting(s) \/ ChunkReleased(s)
  \/ \E seen \in Slots \cup {NoSlot} : ChunkEnds(s, seen)

Interference(s) ==
  \/ ScanTapped(s) \/ SetToken(s)
  \/ \E addr \in Addrs \cup {NoAddr} : SetAddress(s, addr)
  \/ \E on \in BOOLEAN : SetConnectEnabled(s, on) \/ SetPartnerMode(s, on)
  \/ \E src \in ParkSources, on \in BOOLEAN : Park(s, src, on)

Next ==
  \/ \E s \in Slots : \/ TaskStep(s) \/ Interference(s)
                      \/ ScanRequested(s) \/ LinkLost(s)
  \/ Time

Spec == Init /\ [][Next]_vars

(* Each link task is a FreeRTOS task that never blocks for good: every     *)
(* call it makes ends by a timeout, and its sleeps end.  The UI thread     *)
(* finishes the request it began, and time passes.  The user, the peers    *)
(* and the device loop owe nothing.                                        *)
Fairness ==
  /\ \A s \in Slots : WF_vars(TaskStep(s)) /\ WF_vars(ScanRequested(s))
  /\ WF_vars(Time)

FairSpec == Spec /\ Fairness

-----------------------------------------------------------------------------
(* Properties.                                                             *)

(* The host runs one of these calls for the link right now.                *)
OnAir(s) == task[s].pc \in {"scanning", "dialing", "finding"}

(* Two links never listen at once: the NimBLE host refuses or silently     *)
(* kills the second procedure (the log line "arbiter bug?").               *)
RadioExclusive == \A i, j \in Slots : OnAir(i) /\ OnAir(j) => i = j

(* A task that works under a grant still holds that very lease: the stale  *)
(* branch of release is never taken, so no lease is ever ended for another *)
(* slot and none of the results a task reports is dropped.                 *)
WorkMatches(s) ==
  /\ task[s].pc \in ScanPcs  => lease.work = "user_scan"
  /\ task[s].pc \in DialPcs  => lease.work = "direct_connect"
  /\ task[s].pc \in ChunkPcs => lease.work = "finder_chunk"

GrantIsLive ==
  \A s \in Slots :
    task[s].pc \in LeasedPcs => lease.holder = s /\ WorkMatches(s)

(* A lease whose holder has gone back to its loop is found again there:    *)
(* only a user scan granted at the gate is, and that scan is still pending *)
(* so that the head of the loop polls it back.  Any other lease left       *)
(* behind would silence all three links for good.                          *)
NoOrphanLease ==
  \A s \in Slots :
    lease.holder = s =>
      \/ task[s].pc \in LeasedPcs
      \/ /\ task[s].pc \in {"top", "check"}
         /\ lease.work = "user_scan" /\ slots[s].user_scan

(* A hold level left over from an earlier preemption never refuses a new   *)
(* attempt, and one raised against this attempt is never undone by its own *)
(* grant: the level says exactly whether the dialling lease was preempted. *)
HoldIsCurrent ==
  lease.holder \in Slots /\ lease.work = "direct_connect" =>
    hold[lease.holder] = lease.preempted

(* A slot the arbiter counts as connected has a link task that believes it *)
(* too: a slot wrongly "connected" is never missing, so never dialled.     *)
ConnectedIsBacked == \A s \in Slots : slots[s].connected => task[s].up

(* The user's scan is never cut short by another link, a park or a Forget. *)
UserScanRunsOut ==
  [][lease.work = "user_scan" /\ lease.holder # NoSlot =>
       ~lease'.preempted /\ lease'.holder \in {lease.holder, NoSlot}]_vars

(* The backoff of the finder grows only when a chunk ran out having heard  *)
(* nothing; being cut short, or a sighting that came with the end, never   *)
(* grows it.                                                               *)
OnlyEmptyChunksBackOff ==
  [][chunk'.gap > chunk.gap =>
       /\ lease.work = "finder_chunk" /\ ~chunk.sighted
       /\ ~task[lease.holder].cut]_vars

(* The links implement the exclusive channel.                              *)
listening == IF \E s \in Slots : OnAir(s)
               THEN CHOOSE s \in Slots : OnAir(s) ELSE NoSlot

Channel == INSTANCE RadioChannel WITH Users <- Slots, Nobody <- NoSlot,
                                      listener <- listening

ImplementsChannel == Channel!ChannelSpec

(* Its safety alone: a procedure begins only on a quiet channel, and the   *)
(* channel never passes from one link to the next without falling quiet.   *)
ListensInTurn == Channel!ChannelSafety

(* A scan the user asked for runs, whatever the other links are doing.     *)
UserScanServed ==
  \A s \in Slots : slots[s].user_scan ~> (slots[s].user_scan => At(s, "scanning"))

(* A link that wants the radio and keeps wanting it gets to listen, by its *)
(* own connect or by a chunk that listens for every missing scale.         *)
MissingIsServed ==
  \A s \in Slots :
    Missing(s) ~> \/ ~Missing(s)
                  \/ lease.holder = s
                  \/ lease.work = "finder_chunk" /\ s \in Scales

(* A lost link is given up and the slot becomes missing again.             *)
LossIsNoticed == \A s \in Slots : (task[s].up /\ raw[s] = NoAddr) ~> ~slots[s].connected

(* radio_arbiter.h: a tapped Scan "preempts any holder and is granted      *)
(* next".  While the page says it is scanning, a request is under way.     *)
ScanFlagIsHonest ==
  \A s \in Slots : scanning[s] => slots[s].user_scan \/ ui = s

(* micra_link.cpp: "user saved a new MAC: drop the old connection".  A     *)
(* link that is up leads to the saved peer, or a redial is still asked for *)
(* (the pass that dials may look at an address it copied before the change *)
(* and take the request for a redial with it).                             *)
LinkIsToSavedPeer ==
  \A s \in Slots :
    task[s].up /\ raw[s] # NoAddr => raw[s] = cfg[s].addr \/ cfg[s].redial
=============================================================================
