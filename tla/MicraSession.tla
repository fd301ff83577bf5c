---------------------------- MODULE MicraSession ----------------------------
(***************************************************************************)
(* The connected half of core::MicraLink: a token verified by reads, the   *)
(* power command in its mailbox, the watchdog that drops a link whose      *)
(* request is stuck, and the mask that hides the re-dial.  Three threads:  *)
(* the link task, the UI, the device loop with the watchdog.  The radio is *)
(* RadioArbiter's; here a dial is granted or is not.                       *)
(*                                                                         *)
(* The mailboxes of the brew target, the steam target and the steam switch *)
(* work as the power's does, and are left out.                             *)
(***************************************************************************)
CONSTANTS
  Tokens,    \* the tokens a user may enter
  Accepted,  \* those the machine accepts
  Nothing    \* no command

ASSUME TokensAssumption == Accepted \subseteq Tokens /\ Nothing \notin {"on", "standby"}

VARIABLES
  conf,     \* token_, connect_enabled_
  flags,    \* token_bad_, reconnect_requested_, recovering_, and whether
            \* kRecoverMaskMs has passed since recovering_since_ms_
  shown,    \* link_, power_: what everybody else sees
  task,     \* where the link task is, its `connected`, token and command, and
            \* the argument of its call of set_link
  ble,      \* the BLE connection
  watch,    \* where abort_stalled_request is
  pending,  \* pending_power_
  owed,     \* no part of the code: the last command posted, until it lands
  machine   \* its power, the power it reports, and whether a dial can reach it:
            \* it is near, and the radio is not withheld

micraVars == <<conf, flags, shown, task, ble, watch, pending, owed, machine>>

Powers   == {"on", "standby"}
Commands == Powers \cup {Nothing}
Links    == {"NeedsToken", "Disconnected", "Connecting", "Connected"}
Pcs      == {"top", "gate", "dial", "verify", "linked", "writing", "poll", "say", "unmask"}
Requests == {"verify", "writing", "poll"}   \* a request may be under way
Watching == {"idle", "seen", "raised"}

MicraTypeOK ==
  /\ conf \in [token : Tokens, enabled : BOOLEAN]
  /\ flags \in [tokenBad : BOOLEAN, redial : BOOLEAN, recovering : BOOLEAN, maskOld : BOOLEAN]
  /\ shown \in [link : Links, power : Powers]
  /\ task \in [pc : Pcs, up : BOOLEAN, token : Tokens, cmd : Commands, say : Links]
  /\ ble \in BOOLEAN /\ watch \in Watching
  /\ pending \in Commands
  /\ owed \in [cmd : Commands, by : {"user", "schedule"}]
  /\ machine \in [power : Powers, reported : Powers, reach : BOOLEAN]

NothingOwed == [cmd |-> Nothing, by |-> "user"]

(* Configured, and off until somebody switches it on.                      *)
MicraInit ==
  /\ conf \in [token : Tokens, enabled : {TRUE}]
  /\ flags = [tokenBad |-> FALSE, redial |-> FALSE, recovering |-> FALSE, maskOld |-> FALSE]
  /\ shown = [link |-> "Disconnected", power |-> "standby"]
  /\ task = [pc |-> "top", up |-> FALSE, token |-> conf.token, cmd |-> Nothing,
             say |-> "Disconnected"]
  /\ ble = FALSE /\ watch = "idle"
  /\ pending = Nothing /\ owed = NothingOwed
  /\ machine = [power |-> "standby", reported |-> "standby", reach |-> TRUE]

Goto(pc) == task' = [task EXCEPT !.pc = pc]

(* set_link(link), of a link that is up or is not: a call, for it reads    *)
(* recovering_, and writes it, beside the watchdog.                        *)
Say(link, up) == task' = [task EXCEPT !.pc = "say", !.up = up, !.say = link]

(* Where the call returns to.                                              *)
Said == CASE task.say = "Connected" -> "linked"
          [] task.say = "Connecting" -> "dial"
          [] OTHER -> "top"

(* recovering_.store(false), before the link is said.                      *)
UnmaskNever == flags   \* mutant: the mask outlives the user's Disconnect
Unmasked == [flags EXCEPT !.recovering = FALSE]

(* Within kRecoverMaskMs, the re-dial is not said.                         *)
MaskedForEver ==   \* mutant: the mask has no time limit
  flags.recovering /\ task.say \in {"Disconnected", "Connecting"}
MaskedUnasked ==   \* mutant: it hides every drop
  ~flags.maskOld /\ task.say \in {"Disconnected", "Connecting"}
Masked == flags.recovering /\ ~flags.maskOld /\ task.say \in {"Disconnected", "Connecting"}

Published == shown' = [shown EXCEPT !.link = task.say] /\ Goto(Said)

-----------------------------------------------------------------------------
(* One pass of run().                                                      *)

Top ==
  /\ task.pc = "top"
  /\ task' = [task EXCEPT !.pc = "gate", !.token = conf.token]
  /\ UNCHANGED <<conf, flags, shown, ble, watch, pending, owed, machine>>

(* The call of set_link: it looks at the mask, swallows the link, says it  *)
(* or, a step later, takes the mask down and says it.                      *)
Swallow ==
  /\ task.pc = "say" /\ Masked /\ Goto(Said)
  /\ UNCHANGED <<conf, flags, shown, ble, watch, pending, owed, machine>>

Publish ==
  /\ task.pc = "say" /\ ~Masked
  /\ IF flags.recovering THEN Goto("unmask") /\ UNCHANGED shown ELSE Published
  /\ UNCHANGED <<conf, flags, ble, watch, pending, owed, machine>>

Unmask ==
  /\ task.pc = "unmask" /\ Published
  /\ flags' = [flags EXCEPT !.recovering = FALSE]
  /\ UNCHANGED <<conf, ble, watch, pending, owed, machine>>

(* A rejected token, or the user's Disconnect: idle in the state that says *)
(* so.                                                                     *)
Parks == flags.tokenBad \/ ~conf.enabled
ParkedLink == IF flags.tokenBad THEN "NeedsToken" ELSE "Disconnected"
Park ==
  /\ task.pc = "gate" /\ Parks
  /\ ble' = (ble /\ ~task.up)
  /\ flags' = Unmasked
  /\ Say(ParkedLink, FALSE)
  /\ UNCHANGED <<conf, shown, watch, pending, owed, machine>>

(* A re-dial request drops the link.                                       *)
Proceed ==
  /\ task.pc = "gate" /\ ~Parks
  /\ flags' = [flags EXCEPT !.redial = FALSE]
  /\ \/ task.up /\ ~flags.redial /\ Goto("linked") /\ UNCHANGED ble
     \/ ~task.up /\ Say("Connecting", FALSE) /\ UNCHANGED ble
     \/ task.up /\ flags.redial /\ Say("Connecting", FALSE) /\ ble' = FALSE
  /\ UNCHANGED <<conf, shown, watch, pending, owed, machine>>

DialWaits ==
  /\ task.pc = "dial" /\ Goto("top")
  /\ UNCHANGED <<conf, flags, shown, ble, watch, pending, owed, machine>>

DialOk ==
  /\ task.pc = "dial" /\ machine.reach /\ ble' = TRUE /\ Goto("verify")
  /\ UNCHANGED <<conf, flags, shown, watch, pending, owed, machine>>

DialFails ==
  /\ task.pc = "dial" /\ ble' = FALSE
  /\ flags' = Unmasked
  /\ Say("Disconnected", FALSE)
  /\ UNCHANGED <<conf, shown, watch, pending, owed, machine>>

(* A refresh takes over the power the machine reports.  One that accepts   *)
(* the token is taken not to answer garbage three times in a row.          *)
VerifyOk ==
  /\ task.pc = "verify" /\ ble /\ task.token \in Accepted
  /\ shown' = [shown EXCEPT !.power = machine.reported]
  /\ Say("Connected", TRUE)
  /\ UNCHANGED <<conf, flags, ble, watch, pending, owed, machine>>

(* Reads that end in no answer are the link's fault.                       *)
VerifyFails ==
  /\ task.pc = "verify" /\ ble' = FALSE
  /\ Say("Disconnected", FALSE)
  /\ UNCHANGED <<conf, flags, shown, watch, pending, owed, machine>>

VerifyRejected ==
  /\ task.pc = "verify" /\ ble /\ task.token \notin Accepted
  /\ ble' = FALSE
  /\ flags' = [flags EXCEPT !.tokenBad = TRUE]
  /\ Say("NeedsToken", FALSE)
  /\ UNCHANGED <<conf, shown, watch, pending, owed, machine>>

NoticeDrop ==
  /\ task.pc = "linked" /\ ~ble
  /\ Say("Disconnected", FALSE)
  /\ UNCHANGED <<conf, flags, shown, ble, watch, pending, owed, machine>>

(* The command leaves its mailbox for the write.                           *)
TakeCommand ==
  /\ task.pc = "linked" /\ ble
  /\ task' = [task EXCEPT !.pc = IF pending = Nothing THEN "poll" ELSE "writing",
                          !.cmd = pending]
  /\ pending' = Nothing
  /\ UNCHANGED <<conf, flags, shown, ble, watch, owed, machine>>

CommandDone == task' = [task EXCEPT !.pc = "poll", !.cmd = Nothing]

Acked ==
  /\ task.pc = "writing" /\ ble
  /\ machine' = [machine EXCEPT !.power = task.cmd]
  /\ owed' = IF pending = Nothing THEN NothingOwed ELSE owed
  /\ CommandDone
  /\ UNCHANGED <<conf, flags, shown, ble, watch, pending>>

(* A write that failed, whether or not the machine got it, puts its        *)
(* command back unless a newer one is waiting.                             *)
PutBackNever(box) == FALSE   \* mutant: a failed write is forgotten
PutBackAlways(box) == TRUE   \* mutant: restage by a plain store
PutBack(box) == box = Nothing
Unacked ==
  /\ task.pc = "writing"
  /\ \/ UNCHANGED machine
     \/ ble /\ machine' = [machine EXCEPT !.power = task.cmd]
  /\ pending' = IF PutBack(pending) THEN task.cmd ELSE pending
  /\ CommandDone
  /\ UNCHANGED <<conf, flags, shown, ble, watch, owed>>

(* The regular refresh, when it is due and answered.                       *)
Poll ==
  /\ task.pc = "poll" /\ Goto("top")
  /\ \/ UNCHANGED shown
     \/ ble /\ shown' = [shown EXCEPT !.power = machine.reported]
  /\ UNCHANGED <<conf, flags, ble, watch, pending, owed, machine>>

TaskStep ==
  \/ Top \/ Park \/ Proceed
  \/ Swallow \/ Publish \/ Unmask
  \/ DialWaits \/ DialOk \/ DialFails
  \/ VerifyOk \/ VerifyFails \/ VerifyRejected
  \/ NoticeDrop \/ TakeCommand \/ Acked \/ Unacked \/ Poll

-----------------------------------------------------------------------------
(* The device loop's watchdog.  It looks at the time the request began,    *)
(* raises the mask and then drops the link; the request may have ended in  *)
(* between, and the task may be anywhere.                                  *)

SeeStall ==
  /\ task.pc \in Requests /\ watch = "idle" /\ watch' = "seen"
  /\ UNCHANGED <<conf, flags, shown, task, ble, pending, owed, machine>>

RaiseMask ==
  /\ watch = "seen" /\ watch' = "raised"
  /\ flags' = [flags EXCEPT !.recovering = TRUE, !.maskOld = FALSE]
  /\ UNCHANGED <<conf, shown, task, ble, pending, owed, machine>>

AbortLink ==
  /\ watch = "raised" /\ watch' = "idle" /\ ble' = FALSE
  /\ UNCHANGED <<conf, flags, shown, task, pending, owed, machine>>

MaskAges ==
  /\ flags.recovering /\ ~flags.maskOld
  /\ flags' = [flags EXCEPT !.maskOld = TRUE]
  /\ UNCHANGED <<conf, shown, task, ble, watch, pending, owed, machine>>

-----------------------------------------------------------------------------
(* What the user and the schedule ask for.  The stores of set_token are    *)
(* one step: the later ones only undo what comes between.                  *)

Post(cmd, by) ==
  /\ pending' = cmd /\ owed' = [cmd |-> cmd, by |-> by]
  /\ UNCHANGED <<conf, flags, shown, task, ble, watch, machine>>

TogglePower ==
  /\ shown.link = "Connected"
  /\ Post(IF shown.power = "on" THEN "standby" ELSE "on", "user")

SetToken ==
  /\ \E t \in Tokens : conf' = [conf EXCEPT !.token = t]
  /\ flags' = [flags EXCEPT !.tokenBad = FALSE, !.redial = TRUE]
  /\ UNCHANGED <<shown, task, ble, watch, pending, owed, machine>>

SetConnectEnabled ==
  /\ conf' = [conf EXCEPT !.enabled = ~@]
  /\ flags' = [flags EXCEPT !.redial = TRUE]
  /\ UNCHANGED <<shown, task, ble, watch, pending, owed, machine>>

-----------------------------------------------------------------------------
(* The machine: its report lags behind its power, it can be switched by    *)
(* hand, and the link to it drops.                                         *)

MachineReports ==
  /\ machine.reported # machine.power
  /\ machine' = [machine EXCEPT !.reported = machine.power]
  /\ UNCHANGED <<conf, flags, shown, task, ble, watch, pending, owed>>

SwitchedByHand ==
  /\ \E p \in Powers \ {machine.power} : machine' = [machine EXCEPT !.power = p]
  /\ UNCHANGED <<conf, flags, shown, task, ble, watch, pending, owed>>

(* The link drops, with the machine out of reach from then on or not.      *)
LinkDrops ==
  /\ ble /\ ble' = FALSE
  /\ \E r \in BOOLEAN : machine' = [machine EXCEPT !.reach = r]
  /\ UNCHANGED <<conf, flags, shown, task, watch, pending, owed>>

MachineReturns ==
  /\ ~machine.reach
  /\ machine' = [machine EXCEPT !.reach = TRUE]
  /\ UNCHANGED <<conf, flags, shown, task, ble, watch, pending, owed>>
=============================================================================
