------------------------------ MODULE ShotStore ------------------------------
(***************************************************************************)
(* The shot history on the SD card: ShotStore of platform_esp32.  The UI   *)
(* thread edits an index in RAM and queues jobs; a writer task owns the    *)
(* card and carries them out, one file operation at a time.  The power may *)
(* be cut, or the card pulled, between any two of those.                   *)
(*                                                                         *)
(* A file's content counts from its fclose on: FatFs updates the size in   *)
(* the directory entry then.  Opened "w" before, it is there and empty.    *)
(***************************************************************************)
EXTENDS Naturals, Sequences

CONSTANTS
  MaxShots, \* bound: the records the machine makes
  MaxId,    \* bound: the last of the 32-bit ids
  Depth,    \* kQueueDepth
  MaxOps    \* bound: how often the card is pulled or unmounted, the power cut, the
            \* statistics reset

ASSUME MaxIdAssumption == MaxId \in Nat \ {0}
ASSUME DepthAssumption == Depth \in Nat \ {0}
ASSUME MaxOpsAssumption == MaxOps \in Nat
ASSUME MaxShotsAssumption == MaxShots \in Nat

VARIABLES
  card,     \* the files
  store,    \* available_, index_, next_id_, storage_info_.busy
  queue,    \* queue_
  writer,   \* where the writer task is, and its locals
  ui,       \* the UI thread's call of remove()
  history,  \* what the user was told (kept, doomed, gone), and known losses
  ops       \* disturbances so far

vars == <<card, store, queue, writer, ui, history, ops>>

Ids    == 1..MaxId
Shots  == 1..MaxShots   \* a record is known by the order it was made in
NoShot == 0
Rows == [id : Ids, shot : Shots]
RowOf(i, s) == [id |-> i, shot |-> s]

(* An id's samples file: absent, opened and not yet closed, or complete.   *)
Absent == "absent"
Torn   == "torn"
Samples == [kind : {Absent, Torn, "whole"}, shot : Shots \cup {NoShot}]
NoFile    == [kind |-> Absent, shot |-> NoShot]
Truncated == [kind |-> Torn, shot |-> NoShot]
WholeFile(s) == [kind |-> "whole", shot |-> s]

(* `index`: shots.csv, "bare" when its header line was never written;      *)
(* `tmp`: shots.csv.tmp; `answers`: the card is in the slot, as mounted.   *)
Card == [index : {Absent, "bare", "whole"}, rows : SUBSET Rows,
         tmp : {Absent, Torn, "whole"}, tmpRows : SUBSET Rows,
         csv : [Ids -> Samples], answers : BOOLEAN]
Store == [available : BOOLEAN, index : SUBSET Rows, nextId : 1..MaxId + 1,
          busy : BOOLEAN]
Kinds == {"save", "remove", "marker", "mount", "unmount"}
Job == [kind : Kinds, id : Ids \cup {0}, shot : Shots \cup {NoShot}]
SavePcs   == {"inserted", "appended", "opened"}
SwapPcs   == {"snapped", "copying", "copied", "unlinked"}
Writer == [pc : {"idle", "mounting", "creating", "removing"} \cup SavePcs \cup SwapPcs,
           id : Ids \cup {0}, shot : Shots \cup {NoShot}, snap : SUBSET Rows]
Ui == [pc : {"off", "idle", "sending"}, id : Ids \cup {0}, shot : Shots \cup {NoShot}]
History == [made : 0..MaxShots, kept : SUBSET Rows, doomed : SUBSET Rows,
            gone : SUBSET Rows, lost : SUBSET Rows, drift : BOOLEAN]

TypeOK ==
  /\ card \in Card
  /\ store \in Store
  /\ queue \in Seq(Job) /\ Len(queue) <= Depth
  /\ writer \in Writer
  /\ ui \in Ui
  /\ history \in History
  /\ ops \in 0..MaxOps

Unmounted == [available |-> FALSE, index |-> {}, nextId |-> 1, busy |-> FALSE]
Boot      == [pc |-> "mounting", id |-> 0, shot |-> NoShot, snap |-> {}]
UiOff     == [pc |-> "off", id |-> 0, shot |-> NoShot]

(* Power comes up with an empty card, or one that was never used.          *)
Init ==
  /\ card \in [index : {Absent, "whole"}, rows : {{}}, tmp : {Absent}, tmpRows : {{}},
               csv : {[i \in Ids |-> NoFile]}, answers : {TRUE}]
  /\ store = Unmounted
  /\ queue = <<>>
  /\ writer = Boot
  /\ ui = UiOff
  /\ history = [made |-> 0, kept |-> {}, doomed |-> {}, gone |-> {},
                lost |-> {}, drift |-> FALSE]
  /\ ops = 0

Goto(pc) == writer' = [writer EXCEPT !.pc = pc]
Rests    == writer' = [Boot EXCEPT !.pc = "idle"]
UiIdle   == ui.pc = "idle"
UiRests  == ui' = [UiOff EXCEPT !.pc = "idle"]
Disturbs == ops < MaxOps /\ ops' = ops + 1
FitsOneMore == Len(queue) <= Depth   \* mutant: one job too many
Fits     == Len(queue) < Depth
JobFor(k, i, s) == [kind |-> k, id |-> i, shot |-> s]
Send(k, i, s) == queue' = Append(queue, JobFor(k, i, s))

-----------------------------------------------------------------------------
(* The UI thread.                                                          *)

(* A full queue drops the shot.                                            *)
Save ==
  /\ UiIdle /\ store.available /\ history.made < MaxShots
  /\ history' = [history EXCEPT !.made = @ + 1]
  /\ IF Fits THEN Send("save", 0, history.made + 1) ELSE UNCHANGED queue
  /\ UNCHANGED <<card, store, writer, ui, ops>>

(* Resetting the statistics: a job with no record; nobody looks whether a  *)
(* card is mounted.                                                        *)
SetStatsSince ==
  /\ Disturbs
  /\ UiIdle /\ Fits
  /\ Send("marker", 0, NoShot)
  /\ UNCHANGED <<card, store, writer, ui, history>>

(* The Storage page's one button, grey while a request is under way.       *)
RequestMount ==
  /\ UiIdle /\ ~store.busy /\ ~store.available /\ Fits
  /\ Send("mount", 0, NoShot)
  /\ store' = [store EXCEPT !.busy = TRUE]
  /\ UNCHANGED <<card, writer, ui, history, ops>>

RequestUnmount ==
  /\ Disturbs
  /\ UiIdle /\ ~store.busy /\ store.available /\ Fits
  /\ Send("unmount", 0, NoShot)
  /\ store' = [store EXCEPT !.busy = TRUE]
  /\ UNCHANGED <<card, writer, ui, history>>

(* Mutant: the row stays listed until the writer has done its work.        *)
RemoveLater(r) ==
  /\ UiIdle /\ store.available /\ r \in store.index
  /\ ui' = [pc |-> "sending", id |-> r.id, shot |-> r.shot]
  /\ UNCHANGED <<card, store, queue, writer, history, ops>>

(* remove(): the row leaves the RAM index first ...                        *)
Remove(r) ==
  /\ UiIdle /\ store.available /\ r \in store.index
  /\ store' = [store EXCEPT !.index = @ \ {r}]
  /\ ui' = [pc |-> "sending", id |-> r.id, shot |-> r.shot]
  /\ UNCHANGED <<card, queue, writer, history, ops>>

InHand == RowOf(ui.id, ui.shot)           \* the row remove() is called for
InWork == RowOf(writer.id, writer.shot)   \* the row the writer is saving

(* Mutant: a full queue is taken for success.                              *)
RemoveHopes ==
  /\ ui.pc = "sending"
  /\ IF Fits THEN Send("remove", ui.id, NoShot) ELSE UNCHANGED queue
  /\ UiRests
  /\ history' = [history EXCEPT !.kept = @ \ {InHand}, !.doomed = @ \cup {InHand}]
  /\ UNCHANGED <<card, store, writer, ops>>

(* ... then the job is sent, waiting 250 ms for room ...                   *)
RemoveSent ==
  /\ ui.pc = "sending" /\ Fits
  /\ Send("remove", ui.id, NoShot)
  /\ UiRests
  /\ history' = [history EXCEPT !.kept = @ \ {InHand}, !.doomed = @ \cup {InHand}]
  /\ UNCHANGED <<card, store, writer, ops>>

RemoveGivesUp ==   \* mutant: the row is not put back
  /\ ui.pc = "sending" /\ ~Fits
  /\ UiRests
  /\ UNCHANGED <<card, store, queue, writer, history, ops>>

(* ... or the row is put back.  The writer may have rewritten the index    *)
(* without it by then, or be about to (`drift`); a row it has yet to       *)
(* append will come.                                                       *)
Swapping  == writer.pc \in SwapPcs
ToCome(r) == writer.pc = "inserted" /\ r = InWork
PutBackIsLate(r) ==
  \/ r \notin card.rows /\ ~ToCome(r)
  \/ Swapping /\ r \notin writer.snap

RemoveTimesOut ==
  /\ ui.pc = "sending" /\ ~Fits
  /\ store' = [store EXCEPT !.index = @ \cup {InHand}]
  /\ history' = [history EXCEPT !.drift = @ \/ PutBackIsLate(InHand)]
  /\ UiRests
  /\ UNCHANGED <<card, queue, writer, ops>>

-----------------------------------------------------------------------------
(* The writer task.  Any I/O error it sees unmounts the card.              *)

(* Whatever was doomed and not yet carried out is dropped with the mount.  *)
Unmount ==
  /\ store' = [store EXCEPT !.available = FALSE, !.busy = FALSE]
  /\ Rests

WriterIdle == writer.pc = "idle"
Takes(k) == WriterIdle /\ queue # <<>> /\ Head(queue).kind = k /\ queue' = Tail(queue)
TakesMounted(k) == Takes(k) /\ store.available

(* Without a card everything but a mount request is dropped.               *)
DropJob(k) ==
  /\ k \in {"save", "remove", "marker"}
  /\ Takes(k) /\ ~store.available
  /\ UNCHANGED <<card, store, writer, ui, history, ops>>

(* The fclose of a file whose card has gone reports nothing anybody reads; *)
(* an fopen fails, unless FAT's sector cache answers it.                   *)
OpenFails == ~card.answers

(* save: a full card drops it (either way the capacity is read afresh,     *)
(* which clears `busy`); else an id is taken and the row enters the RAM    *)
(* index ...                                                               *)
CardFull ==
  /\ TakesMounted("save")
  /\ store' = [store EXCEPT !.busy = FALSE]
  /\ UNCHANGED <<card, writer, ui, history, ops>>

ShotInsertedSameId ==   \* mutant: the id is not used up
  /\ TakesMounted("save") /\ store.nextId \in Ids
  /\ LET s == Head(queue).shot  i == store.nextId IN
       /\ store' = [store EXCEPT !.index = @ \cup {RowOf(i, s)}, !.busy = FALSE]
       /\ writer' = [writer EXCEPT !.pc = "inserted", !.id = i, !.shot = s]
  /\ UNCHANGED <<card, ui, history, ops>>

ShotInserted ==
  /\ TakesMounted("save") /\ store.nextId \in Ids
  /\ LET s == Head(queue).shot  i == store.nextId IN
       /\ store' = [store EXCEPT !.index = @ \cup {RowOf(i, s)}, !.nextId = i + 1,
                                 !.busy = FALSE]
       /\ writer' = [writer EXCEPT !.pc = "inserted", !.id = i, !.shot = s]
  /\ UNCHANGED <<card, ui, history, ops>>

(* ... its row is appended to the index file ...                           *)
RowAppended ==
  /\ writer.pc = "inserted"
  /\ card' = IF card.answers
             THEN [card EXCEPT !.rows = @ \cup {InWork},
                               !.index = IF @ = Absent THEN "bare" ELSE @]
             ELSE card
  /\ Goto("appended")
  /\ UNCHANGED <<store, queue, ui, history, ops>>

(* ... its samples file is opened, which empties a file of that name ...   *)
SamplesOpened ==
  /\ writer.pc = "appended"
  /\ card' = IF card.answers THEN [card EXCEPT !.csv[writer.id] = Truncated] ELSE card
  /\ Goto("opened")
  /\ UNCHANGED <<store, queue, ui, history, ops>>

(* ... written and closed.                                                 *)
SamplesClosed ==
  /\ writer.pc = "opened"
  /\ IF card.answers
       THEN /\ card' = [card EXCEPT !.csv[writer.id] = WholeFile(writer.shot)]
            /\ history' = [history EXCEPT !.kept = @ \cup ({InWork} \cap store.index)]
       ELSE UNCHANGED <<card, history>>
  /\ Rests
  /\ UNCHANGED <<store, queue, ui, ops>>

SaveFails ==
  /\ writer.pc \in {"inserted", "appended"} /\ OpenFails
  /\ Unmount
  /\ UNCHANGED <<card, queue, ui, history, ops>>

(* remove: the samples file is unlinked ...                                *)
RemoveBegins ==
  /\ TakesMounted("remove")
  /\ LET i == Head(queue).id IN
       /\ card' = IF card.answers THEN [card EXCEPT !.csv[i] = NoFile] ELSE card
       /\ writer' = [writer EXCEPT !.pc = "removing", !.id = i]
  /\ UNCHANGED <<store, ui, history, ops>>

(* ... the RAM index copied ...                                            *)
IndexCopied ==
  /\ writer.pc = "removing"
  /\ writer' = [writer EXCEPT !.pc = "snapped", !.snap = store.index]
  /\ UNCHANGED <<card, store, queue, ui, history, ops>>

(* ... written to shots.csv.tmp ...                                        *)
UnlinkFirst ==   \* mutant: the index goes before its copy is written
  /\ writer.pc = "snapped" /\ card.answers
  /\ card' = [card EXCEPT !.tmp = Torn, !.tmpRows = {}, !.index = Absent, !.rows = {}]
  /\ Goto("copying")
  /\ UNCHANGED <<store, queue, ui, history, ops>>

TmpOpened ==
  /\ writer.pc = "snapped" /\ card.answers
  /\ card' = [card EXCEPT !.tmp = Torn, !.tmpRows = {}]
  /\ Goto("copying")
  /\ UNCHANGED <<store, queue, ui, history, ops>>

TmpClosed ==
  /\ writer.pc = "copying" /\ card.answers
  /\ card' = [card EXCEPT !.tmp = "whole", !.tmpRows = writer.snap]
  /\ Goto("copied")
  /\ UNCHANGED <<store, queue, ui, history, ops>>

(* ... the index unlinked, as a FAT rename does not overwrite ...          *)
IndexUnlinked ==
  /\ writer.pc = "copied"
  /\ card' = IF card.answers THEN [card EXCEPT !.index = Absent, !.rows = {}] ELSE card
  /\ Goto("unlinked")
  /\ UNCHANGED <<store, queue, ui, history, ops>>

(* ... and the copy renamed.                                               *)
Done(i) == {r \in history.doomed : r.id = i}

TmpRenamed ==
  /\ writer.pc = "unlinked" /\ card.answers /\ card.index = Absent
  /\ card' = [card EXCEPT !.index = "whole", !.rows = card.tmpRows,
                          !.tmp = Absent, !.tmpRows = {}]
  /\ history' = [history EXCEPT !.gone = @ \cup Done(writer.id),
                                !.doomed = @ \ Done(writer.id)]
  /\ Rests
  /\ UNCHANGED <<store, queue, ui, ops>>

SwapFails ==
  /\ \/ writer.pc \in {"snapped", "copying"} /\ OpenFails
     \/ writer.pc = "unlinked"
  /\ Unmount
  /\ UNCHANGED <<card, queue, ui, history, ops>>

(* The statistics' marker has a file of its own, not modelled.             *)
MarkerWritten ==
  /\ TakesMounted("marker")
  /\ UNCHANGED <<card, store, writer, ui, history, ops>>

MarkerFails ==
  /\ TakesMounted("marker") /\ OpenFails
  /\ Unmount
  /\ UNCHANGED <<card, ui, history, ops>>

(* A requested unmount, and the ping that misses a pulled card.            *)
UnmountRequested ==
  /\ Takes("unmount")
  /\ Unmount
  /\ UNCHANGED <<card, ui, history, ops>>

Probe ==
  /\ WriterIdle /\ queue = <<>> /\ store.available
  /\ IF card.answers
       THEN store' = [store EXCEPT !.busy = FALSE] /\ UNCHANGED writer
       ELSE Unmount
  /\ UNCHANGED <<card, queue, ui, history, ops>>

(* mount: skipped when one is mounted ...                                  *)
MountBegins ==
  /\ Takes("mount")
  /\ IF store.available
       THEN store' = [store EXCEPT !.busy = FALSE] /\ UNCHANGED writer
       ELSE Goto("mounting") /\ UNCHANGED store
  /\ UNCHANGED <<card, ui, history, ops>>

(* The thread that asked for a mount goes on; at boot, the UI starts.      *)
UiOn == IF ui.pc = "off" THEN UiRests ELSE UNCHANGED ui

(* No card, no FAT, or an index that does not begin with the header.       *)
MountFails ==
  /\ writer.pc = "mounting"
  /\ store' = [store EXCEPT !.busy = FALSE]
  /\ Rests
  /\ UiOn
  /\ UNCHANGED <<card, queue, history, ops>>

LastId(rows) ==   \* mutant: off by one
  CHOOSE n \in Ids : /\ \A r \in rows : r.id <= n
                     /\ n = 1 \/ \E r \in rows : r.id = n

(* The id after the last one in use.                                       *)
NextAfter(rows) ==
  CHOOSE n \in 1..MaxId + 1 : /\ \A r \in rows : r.id < n
                              /\ n = 1 \/ \E r \in rows : r.id = n - 1

(* A mount ends the deletions that were not carried out; one still on its  *)
(* way meets a list it was not taken from.                                 *)
RemovalUnderWay ==
  ui.pc = "sending" \/ \E n \in DOMAIN queue : queue[n].kind = "remove"

Loads(rows) ==
  /\ history' = [history EXCEPT !.doomed = {}, !.drift = @ \/ RemovalUnderWay]
  /\ store' = [available |-> TRUE, index |-> rows, nextId |-> NextAfter(rows),
               busy |-> FALSE]
  /\ Rests
  /\ UiOn

(* An index without rows may also be without a header: an empty file reads *)
(* as one with no lines.                                                   *)
IndexLoaded ==
  /\ writer.pc = "mounting"
  /\ card.index = "whole" \/ (card.index = "bare" /\ card.rows = {})
  /\ card' = [card EXCEPT !.answers = TRUE]
  /\ Loads(card.rows)
  /\ UNCHANGED <<queue, ops>>

(* No index: the card is taken for a new one and gets an empty index; a    *)
(* shots.csv.tmp is not looked at.                                         *)
IndexMissing ==
  /\ writer.pc = "mounting" /\ card.index = Absent
  /\ card' = [card EXCEPT !.index = "bare", !.answers = TRUE]
  /\ Goto("creating")
  /\ history' = [history EXCEPT !.lost = @ \cup history.kept]
  /\ UNCHANGED <<store, queue, ui, ops>>

IndexCreated ==
  /\ writer.pc = "creating"
  /\ card' = [card EXCEPT !.index = IF card.answers THEN "whole" ELSE @]
  /\ Loads({})
  /\ UNCHANGED <<queue, ops>>

-----------------------------------------------------------------------------
(* The world.                                                              *)

(* The card is pulled.  It answers again only after a mount.               *)
CardPulled ==
  /\ Disturbs
  /\ card.answers
  /\ card' = [card EXCEPT !.answers = FALSE]
  /\ UNCHANGED <<store, queue, writer, ui, history>>

(* The power goes and comes back: RAM and queue are empty, and the boot    *)
(* mounts before the UI runs.  A removal not yet sent may or may not have  *)
(* happened.                                                               *)
PowerCut ==
  /\ Disturbs
  /\ history' = [history EXCEPT !.kept = IF ui.pc = "sending" THEN @ \ {InHand} ELSE @]
  /\ store' = Unmounted
  /\ queue' = <<>>
  /\ writer' = Boot
  /\ ui' = UiOff
  /\ UNCHANGED card

UiStarts == \/ \E r \in Rows : Remove(r)
            \/ Save \/ SetStatsSince \/ RequestMount \/ RequestUnmount
UiReturns == RemoveSent \/ RemoveTimesOut
SaveStep  == CardFull \/ ShotInserted \/ RowAppended \/ SamplesOpened \/ SamplesClosed
             \/ SaveFails
SwapStep  == RemoveBegins \/ IndexCopied \/ TmpOpened \/ TmpClosed \/ IndexUnlinked
             \/ TmpRenamed \/ SwapFails
MountStep == UnmountRequested \/ Probe \/ MountBegins \/ MountFails \/ IndexLoaded
             \/ IndexMissing \/ IndexCreated
WriterStep == \/ \E k \in Kinds : DropJob(k)
              \/ SaveStep \/ SwapStep \/ MarkerWritten \/ MarkerFails \/ MountStep

Next == UiStarts \/ UiReturns \/ WriterStep \/ CardPulled \/ PowerCut

Spec == Init /\ [][Next]_vars

(* The writer is a task whose card operations return, and remove() waits   *)
(* 250 ms at most.                                                         *)
FairSpec == Spec /\ WF_vars(WriterStep) /\ WF_vars(UiReturns)

-----------------------------------------------------------------------------
(* Properties.                                                             *)

Removing(r) == ui.pc = "sending" /\ r = InHand

(* A row the store has finished saving, and not agreed to delete, is in    *)
(* the index file at every instant, or in a complete copy of it: whatever  *)
(* operation a power cut or a pulled card interrupts.  Excepted are the    *)
(* rows a mount found no index for (`lost`: the copy is never read), and   *)
(* everything once a put-back or a removal met what it did not expect.     *)
RowsSurvive ==
  ~history.drift =>
    \A r \in history.kept \ history.lost :
      \/ Removing(r)
      \/ card.index # Absent /\ r \in card.rows
      \/ card.index = Absent /\ card.tmp = "whole" /\ r \in card.tmpRows

(* As long as its row is not lost with the index its samples are not cut   *)
(* short or given to another shot either: no later shot takes its id,      *)
(* whatever was deleted, remounted or interrupted, and whatever indexes    *)
(* were lost before it was saved.  Of a lost row's samples nothing is      *)
(* said: ids start again at 1, and the next save may overwrite them.       *)
SamplesSurvive ==
  ~history.drift =>
    \A r \in history.kept \ history.lost : card.csv[r.id] = WholeFile(r.shot)

(* With nothing under way the list the UI shows is the one on the card, so *)
(* a reboot changes nothing.                                               *)
AtRest == store.available /\ WriterIdle /\ queue = <<>> /\ UiIdle /\ card.answers

RamMatchesCard == AtRest /\ ~history.drift => store.index = card.rows

(* A shot the writer has deleted never comes back, on the card or in the   *)
(* list, whatever index was copied while its row was in flight.            *)
DeletedStaysDeleted ==
  ~history.drift => history.gone \cap (store.index \cup card.rows) = {}

(* No two rows of the list share an id, and with it a samples file.        *)
IdsUnique ==
  ~history.drift => \A q, r \in store.index : q.id = r.id => q = r

(* The deletions the UI was told of are carried out, unless the mount ends. *)
DeletionsLand ==
  history.doomed # {} ~> (history.doomed = {} \/ ~store.available)
=============================================================================
