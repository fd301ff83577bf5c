--------------------------- MODULE MachineControl ---------------------------
(***************************************************************************)
(* Who switches the machine: the UI loop ticks the schedule engine with    *)
(* what the Micra link shows and what the brew controller is doing, and    *)
(* posts the command the engine answers with into the link's mailbox, as   *)
(* the power button does.                                                  *)
(***************************************************************************)
EXTENDS ScheduleEngine, MicraSession

CONSTANTS
  MaxOps,      \* bound: how much the user and the world do
  Happenings   \* bound: of what kinds

ASSUME MaxOpsAssumption == MaxOps \in Nat
ASSUME HappeningsAssumption ==
  Happenings \subseteq {"use", "edit", "network", "button", "token", "switch", "hand",
                       "stall", "drop"}

VARIABLES
  act,  \* what the brew controller reports: in use, in review, or nothing
  ops   \* how much has been done

vars == <<engineVars, micraVars, act, ops>>

Acts == {"use", "review", "none"}

TypeOK == EngineTypeOK /\ MicraTypeOK /\ act \in Acts /\ ops \in 0..MaxOps

Init == EngineInit /\ MicraInit /\ act = "none" /\ ops = 0

Happens(what) == what \in Happenings /\ ops < MaxOps /\ ops' = ops + 1

(* schedule_tick: a command for what the engine answers.  The snapshot it  *)
(* is given and the post are steps of the one loop.                        *)
Inputs == [link |-> shown.link, power |-> shown.power, act |-> act]

Obey(result) ==
  CASE result = "TurnOn" -> Post("on", "schedule")
    [] result \in {"Standby", "AutoStandby"} -> Post("standby", "schedule")
    [] OTHER -> UNCHANGED micraVars

ScheduleTick == Tick(Inputs) /\ Obey(Result(Inputs)) /\ UNCHANGED <<act, ops>>

(* The UI rebuilds its pages as often as it likes; an edit is an operation.*)
ScheduleCommit ==
  /\ \E c \in Configs : SetConfig(c) /\ (c # cfg => Happens("edit"))
  /\ UNCHANGED <<micraVars, act>> /\ (cfg' = cfg => UNCHANGED ops)

(* A use lasts longer than the half second between two ticks; a review     *)
(* follows a shot.                                                         *)
ActChanges(a) ==
  /\ act' = a /\ NoteUse(a)
  /\ UNCHANGED <<cfg, engine, clock, micraVars>>
UseBegins == act # "use" /\ Happens("use") /\ ActChanges("use")
UseEnds == act = "use" /\ engine.seen /\ UNCHANGED ops
           /\ \E a \in {"review", "none"} : ActChanges(a)
ReviewEnds == act = "review" /\ UNCHANGED ops /\ ActChanges("none")

TimePasses == Minute(act) /\ UNCHANGED <<micraVars, act, ops>>
ClockTrustChanges ==
  /\ TrustChanges /\ UNCHANGED <<micraVars, act>>
  /\ IF clock.trusted THEN Happens("network") ELSE UNCHANGED ops

LinkStep      == TaskStep /\ UNCHANGED <<engineVars, act, ops>>
WatchdogActs  == (RaiseMask \/ AbortLink) /\ UNCHANGED <<engineVars, act, ops>>
MaskRunsOut   == MaskAges /\ UNCHANGED <<engineVars, act, ops>>
ReportArrives == MachineReports /\ UNCHANGED <<engineVars, act, ops>>
LinkDisturbed ==
  /\ UNCHANGED <<engineVars, act>>
  /\ \/ Happens("button") /\ TogglePower
     \/ Happens("token")  /\ SetToken
     \/ Happens("switch") /\ SetConnectEnabled
     \/ Happens("hand")   /\ SwitchedByHand
     \/ Happens("stall")  /\ SeeStall
     \/ Happens("drop")   /\ (LinkDrops \/ MachineReturns)

Next ==
  \/ ScheduleTick \/ ScheduleCommit
  \/ UseBegins \/ UseEnds \/ ReviewEnds
  \/ TimePasses \/ ClockTrustChanges
  \/ LinkStep \/ WatchdogActs \/ MaskRunsOut \/ ReportArrives
  \/ LinkDisturbed

Spec == Init /\ [][Next]_vars

Keep(A) == A /\ UNCHANGED <<engineVars, act, ops>>

(* The link task and the device loop run on; a machine in reach is dialled *)
(* in the end, and answers.                                                *)
FairSpec ==
  /\ Spec
  /\ WF_vars(LinkStep) /\ WF_vars(WatchdogActs)
  /\ SF_vars(Keep(DialOk)) /\ SF_vars(Keep(VerifyOk \/ VerifyRejected))
  /\ SF_vars(Keep(Acked))

-----------------------------------------------------------------------------
(* The last command posted is not lost before it lands, however often its  *)
(* write fails or a newer one comes in the middle (micra_link.cpp:313): it *)
(* is in the mailbox, or in the task's hands with nothing newer behind it. *)
LastCommandIsKept ==
  owed.cmd # Nothing =>
    IF pending # Nothing THEN pending = owed.cmd
    ELSE task.pc = "writing" /\ task.cmd = owed.cmd

(* The link is shown Connected only while the task takes it for connected, *)
(* is about to say what it takes it for, or a stalled request is being     *)
(* recovered from (micra_link.cpp:118).                                    *)
ConnectedIsHonest ==
  shown.link = "Connected" => task.up \/ task.pc \in {"say", "unmask"} \/ flags.recovering

(* A slot is consumed once while its window is open: a link that drops, a  *)
(* clock that loses its trust, a rebuild of the UI do not bring it back,   *)
(* and neither does an edit that moves a time onto the current minute      *)
(* (schedule.cpp:137, 141 and 203).                                        *)
SlotFiresOnce ==
  [][cfg' = cfg =>
       /\ engine'.on \notin {None, engine.on} => <<"on", engine'.on>> \notin history.fired
       /\ engine'.off \notin {None, engine.off} => <<"off", engine'.off>> \notin history.fired]_vars

(* The engine asks for standby only with nothing going on, and then at an  *)
(* OFF time, or after the whole grace without use or review, or after the  *)
(* whole wait without use (schedule.h:26 and 38).                          *)
StandbyIsPatient ==
  [][owed' # owed /\ owed' = [cmd |-> "standby", by |-> "schedule"] =>
       /\ act = "none"
       /\ \/ engine'.off # engine.off
          \/ engine.defer /\ history.still >= Grace
          \/ history.unused >= Wait]_vars

(* What the user asked for lands (ui/app.cpp:2230), unless the schedule    *)
(* replaces it or the link is parked or out of reach.                      *)
CommandLands ==
  owed.cmd # Nothing /\ owed.by = "user"
    ~> \/ owed.cmd = Nothing \/ owed.by = "schedule"
       \/ ~conf.enabled \/ flags.tokenBad \/ ~machine.reach

(* A parked link, for a rejected token or the user's Disconnect, is shown  *)
(* as one however young the mask is (micra_link.cpp:216): a watchdog that  *)
(* raises the mask in the middle of the call hides one pass, not the next. *)
ParkIsShown ==
  ~conf.enabled \/ flags.tokenBad
    ~> shown.link # "Connected" \/ (conf.enabled /\ ~flags.tokenBad)

(* A connection that is gone is not shown as Connected for ever, although  *)
(* the re-dial is hidden: masks age (micra_link.cpp:123).                  *)
MaskEnds ==
  WF_vars(MaskRunsOut) => (shown.link = "Connected" /\ ~ble ~> ble \/ shown.link # "Connected")
=============================================================================
