------------------------- MODULE ShotStoreCardProof -------------------------
(***************************************************************************)
(* That the list in RAM and the index on the card agree, and that a        *)
(* deleted shot stays deleted, for any number of shots, ids, queued jobs   *)
(* and disturbances.                                                       *)
(*                                                                         *)
(* Both lean on Inv of ShotStoreProof.  RamInv says why a row may be in    *)
(* one of the two places only: its save or its removal is under way.       *)
(* GoneInv says that no place the list or the index is filled from holds a *)
(* deleted row, and Fresh that no queued save will make that row again.    *)
(* Most actions are Quiet; the others have a lemma each.                   *)
(***************************************************************************)
EXTENDS ShotStoreProof

Made   == history.made
Doomed == history.doomed
Gone   == history.gone

(* A row that the UI, or a job in the queue, is about to delete.           *)
Removes(i) == \E j \in Jobs : j.kind = "remove" /\ j.id = i
Leaving(r) == (Sends /\ Uid = r.id) \/ Removes(r.id)
RemovingPcs == SwapPcs \cup {"removing"}

(* The list and the index differ by the save and the removals under way.   *)
RamWork == Pc = "inserted" => InWork \in Listed \/ Leaving(InWork)
RamCard ==
  /\ \A r \in Listed : r \in OnCard \/ (Pc = "inserted" /\ r = InWork)
  /\ \A r \in OnCard : r \in Listed \/ Leaving(r) \/ (Pc \in RemovingPcs /\ r.id = Wid)
RamSnap == Listed \subseteq Snap /\ \A r \in Snap : r \in Listed \/ Leaving(r)
RamInv == ~Drift /\ Avail /\ Answers =>
            /\ RamWork
            /\ Pc # "unlinked" => RamCard
            /\ Pc \in SwapPcs => RamSnap

(* Where the list and the index take their rows from.                      *)
Alive(r) == \/ r \in Listed \/ r \in OnCard
            \/ Sends /\ r = InHand
            \/ Pc = "inserted" /\ r = InWork
            \/ Pc \in SwapPcs /\ r \in Snap

(* The row the writer is removing has left all of them but the index.      *)
WidLeft ==
  /\ Pc \in RemovingPcs => (\A r \in Listed : r.id # Wid) /\ (Sends => Uid # Wid)
  /\ Pc \in SwapPcs => \A r \in Snap : r.id # Wid
GoneInv == ~Drift => WidLeft /\ \A r \in Gone : ~Alive(r)

(* A queued save is of a later shot than every row there is or was.        *)
Used(r) == \/ r \in Listed \/ r \in OnCard \/ r \in Gone \/ r \in Doomed
           \/ Sends /\ r = InHand
           \/ Pc \in SavePcs /\ r = InWork
           \/ Pc \in SwapPcs /\ r \in Snap
Ordered(q) ==
  \A m, n \in 1..Len(q) :
    m < n /\ q[m].kind = "save" /\ q[n].kind = "save" => q[m].shot < q[n].shot
LaterThan(s, jobs) == \A j \in jobs : j.kind = "save" => s < j.shot
Fresh ==
  /\ Ordered(queue)
  /\ \A j \in Jobs : j.kind = "save" => j.shot <= Made
  /\ \A r \in Rows : Used(r) => r.shot <= Made /\ LaterThan(r.shot, Jobs)

-----------------------------------------------------------------------------
(* The order of the queue.                                                 *)

LEMMA TailOrdered ==
  ASSUME NEW q \in Seq(Job), q # <<>>
  PROVE  /\ Elems(q) = {Head(q)} \cup Elems(Tail(q))
         /\ Ordered(q) => /\ Ordered(Tail(q))
                          /\ Head(q).kind = "save" => LaterThan(Head(q).shot, Elems(Tail(q)))
<1>1. /\ Len(q) \in Nat /\ Len(q) >= 1 /\ Head(q) = q[1]
      /\ Tail(q) \in Seq(Job) /\ Len(Tail(q)) = Len(q) - 1
  BY SMT
<1>2. \A n \in 1..Len(Tail(q)) : Tail(q)[n] = q[n + 1] /\ n + 1 \in 1..Len(q) /\ 1 < n + 1
  BY <1>1, SMT
<1>3. 1 \in 1..Len(q) BY <1>1, SMT
<1>4. Elems(q) = {Head(q)} \cup Elems(Tail(q))
  <2>1. \A n \in 1..Len(q) : n = 1 \/ (n - 1 \in 1..Len(Tail(q)) /\ (n - 1) + 1 = n)
    BY <1>1, SMT
  <2>2. \A n \in 1..Len(q) : n = 1 \/ \E m \in 1..Len(Tail(q)) : Tail(q)[m] = q[n]
    BY <1>2, <2>1
  <2> QED BY <1>1, <1>2, <1>3, <2>2 DEF Elems
<1>5. ASSUME Ordered(q)
      PROVE  /\ Ordered(Tail(q))
             /\ Head(q).kind = "save" => LaterThan(Head(q).shot, Elems(Tail(q)))
  <2>1. \A m, n \in 1..Len(Tail(q)) : m < n => m + 1 < n + 1 BY SMT
  <2>2. Ordered(Tail(q)) BY <1>2, <1>5, <2>1 DEF Ordered
  <2>3. \A n \in 1..Len(Tail(q)) :
          Head(q).kind = "save" /\ Tail(q)[n].kind = "save" => Head(q).shot < Tail(q)[n].shot
    BY <1>1, <1>2, <1>3, <1>5 DEF Ordered
  <2> QED BY <2>2, <2>3 DEF LaterThan, Elems
<1> QED BY <1>4, <1>5

LEMMA AppendOrdered ==
  ASSUME NEW q \in Seq(Job), NEW j \in Job, Ordered(q),
         j.kind = "save" => \A i \in Elems(q) : i.kind = "save" => i.shot < j.shot
  PROVE  Ordered(Append(q, j))
<1>1. /\ Len(q) \in Nat /\ Len(Append(q, j)) = Len(q) + 1
      /\ \A n \in 1..Len(q) : Append(q, j)[n] = q[n]
      /\ Append(q, j)[Len(q) + 1] = j
  BY SMT
<1>2. SUFFICES ASSUME NEW m \in 1..Len(q) + 1, NEW n \in 1..Len(q) + 1, m < n,
                      Append(q, j)[m].kind = "save", Append(q, j)[n].kind = "save"
               PROVE  Append(q, j)[m].shot < Append(q, j)[n].shot
  BY <1>1 DEF Ordered
<1>3. m \in 1..Len(q) /\ (n \in 1..Len(q) \/ n = Len(q) + 1)
  BY <1>1, <1>2, SMT
<1>4. q[m] \in Elems(q) BY <1>3 DEF Elems
<1>5. CASE n \in 1..Len(q) BY <1>1, <1>2, <1>3, <1>5 DEF Ordered
<1>6. CASE n = Len(q) + 1 BY <1>1, <1>2, <1>3, <1>4, <1>6
<1> QED BY <1>3, <1>5, <1>6

(* What a step may do to the queue without saving a shot.                  *)
QueueStep ==
  \/ UNCHANGED queue
  \/ queue # <<>> /\ queue' = Tail(queue)
  \/ queue' = <<>>
  \/ \E j \in Job : j.kind # "save" /\ queue' = Append(queue, j)

LEMMA QueueStepOrdered ==
  ASSUME TypeOK, QueueStep
  PROVE  /\ Ordered(queue) => Ordered(queue')
         /\ \A j \in Jobs' : j.kind = "save" => j \in Jobs
<1>1. queue \in Seq(Job) BY Types
<1>2. CASE UNCHANGED queue BY <1>2 DEF Ordered, Jobs, Elems
<1>3. CASE queue # <<>> /\ queue' = Tail(queue)
  BY <1>1, <1>3, TailOrdered, ElemsFacts DEF Jobs
<1>4. CASE queue' = <<>>
  <2>1. Jobs' = {} /\ Len(queue') = 0 BY <1>4, EmptyQueue DEF Jobs
  <2>2. 1..0 = {} BY SMT
  <2> QED BY <2>1, <2>2 DEF Ordered
<1>5. ASSUME NEW j \in Job, j.kind # "save", queue' = Append(queue, j)
      PROVE  /\ Ordered(queue) => Ordered(queue')
             /\ \A k \in Jobs' : k.kind = "save" => k \in Jobs
  BY <1>1, <1>5, AppendOrdered, ElemsFacts DEF Jobs
<1> QED BY <1>2, <1>3, <1>4, <1>5 DEF QueueStep

LEMMA QueueTakes ==
  ASSUME TypeOK, NEW k, Takes(k)
  PROVE  /\ QueueStep /\ Pc = "idle"
         /\ Head(queue) \in Jobs /\ Head(queue).kind = k
         /\ \A j \in Jobs : j = Head(queue) \/ j \in Jobs'
<1>1. queue # <<>> /\ queue' = Tail(queue) /\ Head(queue).kind = k /\ Pc = "idle"
  BY DEF Takes, WriterIdle, Pc
<1>2. queue \in Seq(Job) BY Types
<1> QED BY <1>1, <1>2, TailOrdered, ElemsFacts DEF QueueStep, Jobs

LEMMA QueueSends ==
  ASSUME TypeOK, Fits, NEW k \in Kinds, NEW i \in Ids \cup {0}, NEW s \in Shots \cup {NoShot},
         Send(k, i, s)
  PROVE  /\ k # "save" => QueueStep
         /\ \A j \in Jobs : j \in Jobs'
         /\ JobFor(k, i, s) \in Jobs' /\ JobFor(k, i, s).kind = k /\ JobFor(k, i, s).id = i
<1>1. /\ queue' \in Seq(Job) /\ Len(queue') <= Depth
      /\ Elems(queue') = Elems(queue) \cup {JobFor(k, i, s)}
      /\ JobFor(k, i, s).kind = k /\ JobFor(k, i, s).id = i /\ JobFor(k, i, s).shot = s
  BY Types, SendFacts
<1>2. JobFor(k, i, s) \in Job BY DEF JobFor, Job
<1>3. queue' = Append(queue, JobFor(k, i, s)) BY DEF Send
<1> QED BY <1>1, <1>2, <1>3 DEF QueueStep, Jobs

-----------------------------------------------------------------------------
(* A step that lists no row, brings none to the card and ends no removal.  *)
QuietStore == Listed' \subseteq Listed /\ (Avail' => Avail /\ Listed' = Listed)
QuietCard ==
  /\ OnCard' \subseteq OnCard /\ (Pc' # "unlinked" => OnCard' = OnCard)
  /\ Avail' /\ Answers' => Answers
QuietPast == Gone' = Gone /\ Doomed' = Doomed /\ Drift' = Drift
QuietUi ==
  /\ Sends' => Sends /\ Uid' = Uid /\ InHand' = InHand
  /\ Avail' /\ Sends => Sends'
QuietJobs == Avail' => \A j \in Jobs : j.kind = "remove" => j \in Jobs'
SamePlace(pcs) ==
  /\ Pc \in pcs /\ Pc' \in pcs /\ (Pc = "unlinked" => Pc' = "unlinked")
  /\ Wid' = Wid /\ InWork' = InWork /\ Snap' = Snap
QuietWriter ==
  \/ UNCHANGED writer
  \/ SamePlace({"appended", "opened"})
  \/ SamePlace(SwapPcs)
  \/ /\ Pc' \in {"idle", "mounting", "creating"}
     /\ Avail' => Pc \notin RemovingPcs \cup {"inserted"}
Quiet == QuietStore /\ QuietCard /\ QuietPast /\ QuietUi /\ QuietJobs /\ QuietWriter

LEMMA QuietLeaving ==
  ASSUME Quiet, Avail', NEW r, Leaving(r)
  PROVE  Leaving(r)'
<1>1. CASE Sends /\ Uid = r.id BY <1>1 DEF Quiet, QuietUi, Leaving
<1>2. CASE Removes(r.id) BY <1>2 DEF Quiet, QuietJobs, Leaving, Removes
<1> QED BY <1>1, <1>2 DEF Leaving

LEMMA QuietRam == ASSUME RamInv, Quiet PROVE RamInv'
<1> SUFFICES ASSUME ~Drift', Avail', Answers'
             PROVE  /\ RamWork'
                    /\ Pc' # "unlinked" => RamCard'
                    /\ Pc' \in SwapPcs => RamSnap'
  BY DEF RamInv
<1>1. ~Drift /\ Avail /\ Answers /\ Listed' = Listed
  BY DEF Quiet, QuietPast, QuietStore, QuietCard
<1>2. /\ RamWork
      /\ Pc # "unlinked" => RamCard
      /\ Pc \in SwapPcs => RamSnap
  BY <1>1 DEF RamInv
<1>3. \A r : Leaving(r) => Leaving(r)' BY QuietLeaving
<1>4. Pc' # "unlinked" => OnCard' = OnCard BY DEF Quiet, QuietCard
<1>5. CASE UNCHANGED writer
  <2>1. Pc' = Pc /\ Wid' = Wid /\ Snap' = Snap /\ InWork' = InWork
    BY <1>5, WriterSame, RowsInHand
  <2> QED BY <1>1, <1>2, <1>3, <1>4, <2>1 DEF RamWork, RamCard, RamSnap
<1>6. CASE SamePlace({"appended", "opened"})
  <2>1. /\ Pc \in {"appended", "opened"} /\ Pc' \in {"appended", "opened"}
    BY <1>6 DEF SamePlace
  <2> QED BY <1>1, <1>2, <1>3, <1>4, <2>1 DEF RamWork, RamCard, RemovingPcs, SwapPcs
<1>7. CASE SamePlace(SwapPcs)
  <2>1. /\ Pc \in SwapPcs /\ Pc' \in SwapPcs /\ Pc' # "inserted" /\ Pc # "inserted"
        /\ Wid' = Wid /\ Snap' = Snap /\ (Pc = "unlinked" => Pc' = "unlinked")
    BY <1>7 DEF SamePlace, SwapPcs
  <2> QED BY <1>1, <1>2, <1>3, <1>4, <2>1 DEF RamWork, RamCard, RamSnap, RemovingPcs
<1>8. CASE /\ Pc' \in {"idle", "mounting", "creating"}
           /\ Avail' => Pc \notin RemovingPcs \cup {"inserted"}
  BY <1>1, <1>2, <1>3, <1>4, <1>8 DEF RamWork, RamCard, RemovingPcs, SwapPcs
<1> QED BY <1>5, <1>6, <1>7, <1>8 DEF Quiet, QuietWriter

LEMMA QuietAlive == ASSUME Quiet, NEW r, Alive(r)' PROVE Alive(r)
<1>1. /\ Listed' \subseteq Listed /\ OnCard' \subseteq OnCard
      /\ Sends' => Sends /\ InHand' = InHand
  BY DEF Quiet, QuietStore, QuietCard, QuietUi
<1>2. /\ Pc' = "inserted" => Pc = "inserted" /\ InWork' = InWork
      /\ Pc' \in SwapPcs => Pc \in SwapPcs /\ Snap' = Snap
  BY WriterSame, RowsInHand DEF Quiet, QuietWriter, SamePlace, SwapPcs
<1> QED BY <1>1, <1>2 DEF Alive

LEMMA QuietGone == ASSUME GoneInv, Quiet PROVE GoneInv'
<1> SUFFICES ASSUME ~Drift' PROVE WidLeft' /\ \A r \in Gone' : ~Alive(r)'
  BY DEF GoneInv
<1>1. /\ ~Drift /\ Gone' = Gone /\ Listed' \subseteq Listed
      /\ Sends' => Sends /\ Uid' = Uid
  BY DEF Quiet, QuietPast, QuietStore, QuietUi
<1>2. WidLeft /\ \A r \in Gone : ~Alive(r) BY <1>1 DEF GoneInv
<1>3. /\ Pc' \in RemovingPcs => Pc \in RemovingPcs /\ Wid' = Wid
      /\ Pc' \in SwapPcs => Pc \in SwapPcs /\ Snap' = Snap
  BY WriterSame DEF Quiet, QuietWriter, SamePlace, RemovingPcs, SwapPcs
<1>4. WidLeft' BY <1>1, <1>2, <1>3 DEF WidLeft, RemovingPcs
<1> QED BY <1>1, <1>2, <1>4, QuietAlive

LEMMA QuietUsed == ASSUME Quiet, NEW r, Used(r)' PROVE Used(r)
<1>1. /\ Listed' \subseteq Listed /\ OnCard' \subseteq OnCard
      /\ Gone' = Gone /\ Doomed' = Doomed
      /\ Sends' => Sends /\ InHand' = InHand
  BY DEF Quiet, QuietStore, QuietCard, QuietPast, QuietUi
<1>2. /\ Pc' \in SavePcs => Pc \in SavePcs /\ InWork' = InWork
      /\ Pc' \in SwapPcs => Pc \in SwapPcs /\ Snap' = Snap
  BY WriterSame, RowsInHand DEF Quiet, QuietWriter, SamePlace, SavePcs, SwapPcs
<1> QED BY <1>1, <1>2 DEF Used

(* A step that saves no shot and makes no row keeps Fresh.                 *)
LEMMA FreshStep ==
  ASSUME TypeOK, Fresh, QueueStep, Made' = Made, \A r \in Rows : Used(r)' => Used(r)
  PROVE  Fresh'
BY QueueStepOrdered DEF Fresh, LaterThan

-----------------------------------------------------------------------------
(* The quiet actions.                                                      *)

(* What the three invariants need of a quiet step.                         *)
Settled == Quiet /\ QueueStep /\ Made' = Made

LEMMA QuietSame ==
  /\ UNCHANGED store => QuietStore
  /\ UNCHANGED card => QuietCard
  /\ UNCHANGED history => QuietPast /\ Made' = Made
  /\ UNCHANGED ui => QuietUi
  /\ UNCHANGED writer => QuietWriter
  /\ UNCHANGED queue => QuietJobs /\ QueueStep
<1>1. UNCHANGED store => QuietStore BY StoreSame DEF QuietStore
<1>2. UNCHANGED card => QuietCard BY CardSame DEF QuietCard
<1>3. UNCHANGED history => QuietPast /\ Made' = Made
  BY HistorySame DEF QuietPast, Gone, Doomed, Made
<1>4. UNCHANGED ui => QuietUi BY UiSame, RowsInHand DEF QuietUi
<1>5. UNCHANGED writer => QuietWriter BY DEF QuietWriter
<1>6. UNCHANGED queue => QuietJobs /\ QueueStep BY QueueSame DEF QuietJobs, QueueStep
<1> QED BY <1>1, <1>2, <1>3, <1>4, <1>5, <1>6

LEMMA QuietTakes ==
  ASSUME TypeOK, NEW k, Takes(k), k # "remove" \/ ~Avail'
  PROVE  QuietJobs /\ QueueStep /\ Pc = "idle"
<1>1. /\ QueueStep /\ Pc = "idle" /\ Head(queue).kind = k
      /\ \A j \in Jobs : j = Head(queue) \/ j \in Jobs'
  BY QueueTakes
<1> QED BY <1>1 DEF QuietJobs

LEMMA QuietSends ==
  ASSUME TypeOK, Fits, NEW k \in Kinds, NEW i \in Ids \cup {0}, NEW s \in Shots \cup {NoShot},
         Send(k, i, s)
  PROVE  QuietJobs /\ (k # "save" => QueueStep)
BY QueueSends DEF QuietJobs

LEMMA QuietBusy ==
  ASSUME TypeOK, NEW b \in BOOLEAN, store' = [store EXCEPT !.busy = b]
  PROVE  QuietStore
BY CalmBusy DEF QuietStore, CalmStore

LEMMA QuietUnmount ==
  ASSUME TypeOK, Unmount
  PROVE  QuietStore /\ QuietWriter /\ ~Avail'
<1>1. /\ store'.index = store.index /\ store'.available = FALSE /\ writer'.pc = "idle"
  BY Types, UnmountFacts
<1> QED BY <1>1 DEF QuietStore, QuietWriter, Avail, Listed, Pc

LEMMA RequestsQuiet ==
  ASSUME TypeOK, SetStatsSince \/ RequestMount \/ RequestUnmount
  PROVE  Settled
<1>1. /\ Fits
      /\ \/ Send("marker", 0, NoShot) \/ Send("mount", 0, NoShot)
         \/ Send("unmount", 0, NoShot)
      /\ UNCHANGED store \/ store' = [store EXCEPT !.busy = TRUE]
      /\ UNCHANGED card /\ UNCHANGED writer /\ UNCHANGED ui /\ UNCHANGED history
  BY DEF SetStatsSince, RequestMount, RequestUnmount
<1>2. QuietJobs /\ QueueStep
  <2>1. "marker" \in Kinds /\ "mount" \in Kinds /\ "unmount" \in Kinds BY DEF Kinds
  <2>2. 0 \in Ids \cup {0} /\ NoShot \in Shots \cup {NoShot} OBVIOUS
  <2>3. CASE Send("marker", 0, NoShot) BY <1>1, <2>1, <2>2, <2>3, QuietSends
  <2>4. CASE Send("mount", 0, NoShot) BY <1>1, <2>1, <2>2, <2>4, QuietSends
  <2>5. CASE Send("unmount", 0, NoShot) BY <1>1, <2>1, <2>2, <2>5, QuietSends
  <2> QED BY <1>1, <2>3, <2>4, <2>5
<1>3. QuietStore BY <1>1, QuietBusy, QuietSame
<1> QED BY <1>1, <1>2, <1>3, QuietSame DEF Settled, Quiet

(* The jobs that leave the rows alone, and the mount's steps up to the     *)
(* index.                                                                  *)
LEMMA JobsQuiet ==
  ASSUME TypeOK,
         CardFull \/ MarkerWritten \/ MountBegins \/ (\E k \in Kinds : DropJob(k))
  PROVE  Settled
<1>1. UNCHANGED card /\ UNCHANGED ui /\ UNCHANGED history
  BY DEF CardFull, MarkerWritten, MountBegins, DropJob
<1>2. QuietStore /\ QuietWriter
  <2>1. CASE CardFull
    <3>1. store' = [store EXCEPT !.busy = FALSE] /\ UNCHANGED writer
      BY <2>1 DEF CardFull
    <3> QED BY <3>1, QuietBusy, QuietSame
  <2>2. CASE MarkerWritten \/ (\E k \in Kinds : DropJob(k))
    <3>1. UNCHANGED store /\ UNCHANGED writer BY <2>2 DEF MarkerWritten, DropJob
    <3> QED BY <3>1, QuietSame
  <2>3. CASE MountBegins
    <3>1. CASE store.available
      <4>1. store' = [store EXCEPT !.busy = FALSE] /\ UNCHANGED writer
        BY <2>3, <3>1 DEF MountBegins
      <4> QED BY <4>1, QuietBusy, QuietSame
    <3>2. CASE ~store.available
      <4>1. Goto("mounting") /\ UNCHANGED store BY <2>3, <3>2 DEF MountBegins
      <4>2. Pc' = "mounting" BY <4>1, Moves DEF Pcs
      <4>3. ~Avail' BY <3>2, <4>1 DEF Avail
      <4> QED BY <4>1, <4>2, <4>3, QuietSame DEF QuietWriter
    <3> QED BY <3>1, <3>2
  <2> QED BY <2>1, <2>2, <2>3
<1>3. QuietJobs /\ QueueStep
  <2>1. CASE CardFull BY <2>1, QuietTakes DEF CardFull, TakesMounted
  <2>2. CASE MarkerWritten BY <2>2, QuietTakes DEF MarkerWritten, TakesMounted
  <2>3. CASE MountBegins BY <2>3, QuietTakes DEF MountBegins
  <2>4. ASSUME NEW k \in Kinds, DropJob(k) PROVE QuietJobs /\ QueueStep
    <3>1. Takes(k) /\ ~Avail' BY <2>4 DEF DropJob, Avail
    <3> QED BY <3>1, QuietTakes
  <2> QED BY <2>1, <2>2, <2>3, <2>4
<1> QED BY <1>1, <1>2, <1>3, QuietSame DEF Settled, Quiet

LEMMA UnmountsQuiet ==
  ASSUME TypeOK,
         SaveFails \/ SwapFails \/ MarkerFails \/ UnmountRequested \/ Probe
  PROVE  Settled
<1>1. UNCHANGED card /\ UNCHANGED ui /\ UNCHANGED history
  BY DEF SaveFails, SwapFails, MarkerFails, UnmountRequested, Probe
<1>2. CASE Probe /\ card.answers
  <2>1. store' = [store EXCEPT !.busy = FALSE] /\ UNCHANGED writer /\ UNCHANGED queue
    BY <1>2 DEF Probe
  <2> QED BY <1>1, <2>1, QuietBusy, QuietSame DEF Settled, Quiet
<1>3. CASE Unmount
  <2>1. QuietStore /\ QuietWriter /\ ~Avail' BY <1>3, QuietUnmount
  <2>2. UNCHANGED queue \/ Takes("marker") \/ Takes("unmount")
    BY DEF SaveFails, SwapFails, MarkerFails, UnmountRequested, Probe, TakesMounted
  <2>3. QuietJobs /\ QueueStep
    <3>1. CASE UNCHANGED queue BY <3>1, QuietSame
    <3>2. CASE Takes("marker") BY <2>1, <3>2, QuietTakes
    <3>3. CASE Takes("unmount") BY <2>1, <3>3, QuietTakes
    <3> QED BY <2>2, <3>1, <3>2, <3>3
  <2> QED BY <1>1, <2>1, <2>3, QuietSame DEF Settled, Quiet
<1> QED BY <1>2, <1>3 DEF SaveFails, SwapFails, MarkerFails, UnmountRequested, Probe

LEMMA MountFailsQuiet == ASSUME Inv, MountFails PROVE Settled
<1>1. /\ TypeOK /\ Pc = "mounting" /\ store' = [store EXCEPT !.busy = FALSE]
      /\ Rests /\ UiOn
      /\ UNCHANGED card /\ UNCHANGED queue /\ UNCHANGED history
  BY Before DEF MountFails, Pc
<1>2. QuietStore BY <1>1, QuietBusy
<1>3. Pc' = "idle" BY <1>1, WriterRests DEF Pc
<1>4. QuietWriter BY <1>1, <1>3 DEF QuietWriter, RemovingPcs, SwapPcs
<1>5. QuietUi
  <2>1. CalmUi /\ (Sends' => Sends /\ UNCHANGED ui) BY <1>1, UiOnFacts
  <2> QED BY <2>1, UiSame, RowsInHand DEF QuietUi, CalmUi
<1> QED BY <1>1, <1>2, <1>4, <1>5, QuietSame DEF Settled, Quiet

-----------------------------------------------------------------------------
(* The quiet steps of the card and of the UI.                              *)

LEMMA CardSteps ==
  ASSUME card \in Card, NEW x, NEW y
  PROVE  /\ card' = [card EXCEPT !.answers = FALSE] => OnCard' = OnCard /\ ~Answers'
         /\ card' = [card EXCEPT !.csv = x] => OnCard' = OnCard /\ Answers' = Answers
         /\ card' = [card EXCEPT !.tmp = x, !.tmpRows = y] =>
              OnCard' = OnCard /\ Answers' = Answers
         /\ card' = [card EXCEPT !.index = Absent, !.rows = {}] =>
              OnCard' = {} /\ Answers' = Answers
         /\ card' = [card EXCEPT !.index = x, !.answers = TRUE] => OnCard' = OnCard
         /\ card' = [card EXCEPT !.answers = TRUE] => OnCard' = OnCard
         /\ card' = [card EXCEPT !.index = x] => OnCard' = OnCard
         /\ card' = [card EXCEPT !.rows = x, !.index = y] =>
              OnCard' = x /\ Answers' = Answers
         /\ card' = [card EXCEPT !.index = "whole", !.rows = card.tmpRows,
                                 !.tmp = Absent, !.tmpRows = {}] =>
              OnCard' = TmpRows /\ Answers' = Answers
BY Zenon DEF Card, OnCard, Answers, TmpRows

LEMMA HistorySteps ==
  ASSUME history \in History, NEW x, NEW y
  PROVE  /\ history' = [history EXCEPT !.made = x] => QuietPast /\ Made' = x
         /\ history' = [history EXCEPT !.kept = x] => QuietPast /\ Made' = Made
         /\ history' = [history EXCEPT !.lost = x] => QuietPast /\ Made' = Made
         /\ history' = [history EXCEPT !.kept = x, !.doomed = y] =>
              Gone' = Gone /\ Doomed' = y /\ Drift' = Drift /\ Made' = Made
         /\ history' = [history EXCEPT !.gone = x, !.doomed = y] =>
              Gone' = x /\ Doomed' = y /\ Drift' = Drift /\ Made' = Made
         /\ history' = [history EXCEPT !.drift = x] =>
              Gone' = Gone /\ Doomed' = Doomed /\ Drift' = x /\ Made' = Made
         /\ history' = [history EXCEPT !.doomed = {}, !.drift = x] =>
              Gone' = Gone /\ Doomed' = {} /\ Drift' = x /\ Made' = Made
BY Zenon DEF History, QuietPast, Gone, Doomed, Drift, Made

LEMMA CardPulledQuiet == ASSUME TypeOK, CardPulled PROVE Settled
<1>1. /\ card' = [card EXCEPT !.answers = FALSE]
      /\ UNCHANGED store /\ UNCHANGED queue /\ UNCHANGED writer /\ UNCHANGED ui
      /\ UNCHANGED history
  BY DEF CardPulled
<1>2. QuietCard BY <1>1, Types, CardSteps DEF QuietCard
<1> QED BY <1>1, <1>2, QuietSame DEF Settled, Quiet

LEMMA SamplesQuiet == ASSUME TypeOK, SamplesOpened \/ SamplesClosed PROVE Settled
<1>1. /\ UNCHANGED store /\ UNCHANGED queue /\ UNCHANGED ui
      /\ card.answers => \E x : card' = [card EXCEPT !.csv = x]
      /\ ~card.answers => UNCHANGED card
      /\ UNCHANGED history \/ \E x : history' = [history EXCEPT !.kept = x]
  BY DEF SamplesOpened, SamplesClosed
<1>2. QuietCard
  <2>1. CASE card.answers
    <3>1. OnCard' = OnCard /\ Answers' = Answers BY <1>1, <2>1, Types, CardSteps
    <3> QED BY <3>1 DEF QuietCard
  <2>2. CASE ~card.answers BY <1>1, <2>2, QuietSame
  <2> QED BY <2>1, <2>2
<1>3. QuietPast /\ Made' = Made BY <1>1, Types, HistorySteps, QuietSame
<1>4. QuietWriter
  <2>1. CASE SamplesOpened
    <3>1. Pc = "appended" /\ Goto("opened") BY <2>1 DEF SamplesOpened, Pc
    <3>2. Pc' = "opened" /\ Wid' = Wid /\ Snap' = Snap /\ InWork' = InWork
      BY <3>1, Moves DEF Pcs, SavePcs
    <3> QED BY <3>1, <3>2 DEF QuietWriter, SamePlace
  <2>2. CASE SamplesClosed
    <3>1. Pc = "opened" /\ Rests BY <2>2 DEF SamplesClosed, Pc
    <3>2. Pc' = "idle" BY <3>1, WriterRests DEF Pc
    <3> QED BY <3>1, <3>2 DEF QuietWriter, RemovingPcs, SwapPcs
  <2> QED BY <2>1, <2>2
<1> QED BY <1>1, <1>2, <1>3, <1>4, QuietSame DEF Settled, Quiet

LEMMA SwapQuiet ==
  ASSUME TypeOK, TmpOpened \/ TmpClosed \/ IndexUnlinked
  PROVE  Settled
<1>1. UNCHANGED store /\ UNCHANGED queue /\ UNCHANGED ui /\ UNCHANGED history
  BY DEF TmpOpened, TmpClosed, IndexUnlinked
<1>2. /\ Pc \in SwapPcs /\ Pc # "unlinked"
      /\ \E pc \in SwapPcs : Goto(pc) /\ (IndexUnlinked => pc = "unlinked")
  BY DEF TmpOpened, TmpClosed, IndexUnlinked, Pc, SwapPcs
<1>3. PICK pc \in SwapPcs : Goto(pc) /\ (IndexUnlinked => pc = "unlinked") BY <1>2
<1>4. Pc' = pc /\ Wid' = Wid /\ Snap' = Snap /\ InWork' = InWork
  BY <1>3, Moves DEF Pcs
<1>5. QuietWriter BY <1>2, <1>3, <1>4 DEF QuietWriter, SamePlace
<1>6. QuietCard
  <2>1. CASE TmpOpened \/ TmpClosed
    <3>1. \E x, y : card' = [card EXCEPT !.tmp = x, !.tmpRows = y]
      BY <2>1 DEF TmpOpened, TmpClosed
    <3>2. OnCard' = OnCard /\ Answers' = Answers BY <3>1, Types, CardSteps
    <3> QED BY <3>2 DEF QuietCard
  <2>2. CASE IndexUnlinked
    <3>1. Pc' = "unlinked" BY <1>3, <1>4, <2>2
    <3>2. CASE card.answers
      <4>1. card' = [card EXCEPT !.index = Absent, !.rows = {}]
        BY <2>2, <3>2 DEF IndexUnlinked
      <4>2. OnCard' = {} /\ Answers' = Answers BY <4>1, Types, CardSteps
      <4> QED BY <3>1, <4>2 DEF QuietCard
    <3>3. CASE ~card.answers
      <4>1. UNCHANGED card BY <2>2, <3>3 DEF IndexUnlinked
      <4> QED BY <4>1, QuietSame
    <3> QED BY <3>2, <3>3
  <2> QED BY <2>1, <2>2
<1> QED BY <1>1, <1>5, <1>6, QuietSame DEF Settled, Quiet

LEMMA IndexMissingQuiet == ASSUME Inv, IndexMissing PROVE Settled
<1>1. /\ TypeOK /\ Pc = "mounting" /\ Goto("creating")
      /\ card' = [card EXCEPT !.index = "bare", !.answers = TRUE]
      /\ \E x : history' = [history EXCEPT !.lost = x]
      /\ UNCHANGED store /\ UNCHANGED queue /\ UNCHANGED ui
  BY Before DEF IndexMissing, Pc
<1>2. ~Avail /\ ~Avail' BY <1>1, StoreSame, Before DEF ShapeWriter
<1>3. OnCard' = OnCard BY <1>1, Types, CardSteps
<1>4. QuietCard BY <1>2, <1>3 DEF QuietCard
<1>5. QuietPast /\ Made' = Made BY <1>1, Types, HistorySteps
<1>6. Pc' = "creating" BY <1>1, Moves DEF Pcs
<1>7. QuietWriter BY <1>2, <1>6 DEF QuietWriter
<1> QED BY <1>1, <1>4, <1>5, <1>7, QuietSame DEF Settled, Quiet

LEMMA PowerCutQuiet == ASSUME TypeOK, PowerCut PROVE Settled
<1>1. /\ \E x : history' = [history EXCEPT !.kept = x]
      /\ store' = Unmounted /\ queue' = <<>> /\ writer' = Boot /\ ui' = UiOff
      /\ UNCHANGED card
  BY DEF PowerCut
<1>2. ~Avail' /\ Listed' = {} BY <1>1 DEF Unmounted, Avail, Listed
<1>3. Pc' = "mounting" BY <1>1, BootFacts DEF Pc
<1>4. ~Sends' BY <1>1, UiFacts DEF Sends
<1>5. QuietPast /\ Made' = Made BY <1>1, Types, HistorySteps
<1>6. QuietStore /\ QuietUi /\ QuietJobs /\ QuietWriter
  BY <1>2, <1>3, <1>4 DEF QuietStore, QuietUi, QuietJobs, QuietWriter
<1>7. QueueStep BY <1>1 DEF QueueStep
<1> QED BY <1>1, <1>5, <1>6, <1>7, QuietSame DEF Settled, Quiet

LEMMA StutterQuiet == ASSUME UNCHANGED vars PROVE Settled
<1>1. /\ UNCHANGED card /\ UNCHANGED store /\ UNCHANGED queue /\ UNCHANGED writer
      /\ UNCHANGED ui /\ UNCHANGED history
  BY DEF vars
<1> QED BY <1>1, QuietSame DEF Settled, Quiet

LEMMA SettledKeeps ==
  ASSUME TypeOK, RamInv, GoneInv, Fresh, Settled
  PROVE  RamInv' /\ GoneInv' /\ Fresh'
BY QuietRam, QuietGone, QuietUsed, FreshStep DEF Settled

(* A save is quiet too, and of the latest shot.                            *)
LEMMA SaveIsFresh ==
  ASSUME Inv, RamInv, GoneInv, Fresh, Save
  PROVE  RamInv' /\ GoneInv' /\ Fresh'
<1> DEFINE m == history.made + 1
<1>1. /\ TypeOK /\ history.made < MaxShots
      /\ history' = [history EXCEPT !.made = m]
      /\ IF Fits THEN Send("save", 0, m) ELSE UNCHANGED queue
      /\ UNCHANGED card /\ UNCHANGED store /\ UNCHANGED writer /\ UNCHANGED ui
  BY Before DEF Save
<1>2. /\ m \in Shots /\ Made \in Nat /\ Made <= m /\ m <= m /\ m = Made + 1
      /\ \A n \in Nat : n <= Made => n < m /\ n <= m
  BY <1>1, Types, HistoryFields, Bounds, SMT DEF Shots, Made
<1> HIDE DEF m
<1>3. QuietPast /\ Made' = m BY <1>1, Types, HistorySteps
<1>4. /\ QuietJobs
      /\ \A j \in Jobs' : j \in Jobs \/ j.shot = m
      /\ Ordered(queue')
  <2>1. CASE Fits
    <3> DEFINE job == JobFor("save", 0, m)
    <3>1. Send("save", 0, m) BY <1>1, <2>1
    <3>2. QuietJobs BY <1>1, <1>2, <2>1, <3>1, QuietSends DEF Kinds
    <3>3. job \in Job /\ job.shot = m /\ job.kind = "save"
      BY <1>2 DEF JobFor, Job, Kinds
    <3>4. queue \in Seq(Job) /\ queue' = Append(queue, job) BY <1>1, <3>1, Types DEF Send
    <3> HIDE DEF job
    <3>5. \A j \in Jobs' : j \in Jobs \/ j = job BY <3>3, <3>4, ElemsFacts DEF Jobs
    <3>6. \A j \in Jobs : j.kind = "save" => j.shot < m
      <4>1. \A j \in Jobs : j.kind = "save" => j.shot \in Nat /\ j.shot <= Made
        BY Before, SMT DEF ShapeCalls, Fresh, Shots
      <4> QED BY <1>2, <4>1
    <3>7. Ordered(queue') BY <3>3, <3>4, <3>6, AppendOrdered DEF Fresh, Jobs
    <3> QED BY <3>2, <3>3, <3>5, <3>7
  <2>2. CASE ~Fits
    <3>1. UNCHANGED queue BY <1>1, <2>2
    <3> QED BY <3>1, QuietSame, QueueSame DEF Fresh, Ordered
  <2> QED BY <2>1, <2>2
<1>5. Quiet BY <1>1, <1>3, <1>4, QuietSame DEF Quiet
<1>6. \A j \in Jobs' : j.kind = "save" => j.shot <= m
  <2>1. \A j \in Jobs : j.kind = "save" => j.shot \in Nat /\ j.shot <= Made
    BY Before, SMT DEF ShapeCalls, Fresh, Shots
  <2> QED BY <1>2, <1>4, <2>1
<1>7. ASSUME NEW r \in Rows, Used(r)' PROVE r.shot <= m /\ LaterThan(r.shot, Jobs')
  <2>1. r.shot <= Made /\ LaterThan(r.shot, Jobs) BY <1>5, <1>7, QuietUsed DEF Fresh
  <2>2. r.shot \in Nat BY RowsTyped, SMT DEF Shots
  <2> QED BY <1>2, <1>4, <2>1, <2>2 DEF LaterThan
<1> QED BY <1>3, <1>4, <1>5, <1>6, <1>7, QuietRam, QuietGone DEF Fresh

-----------------------------------------------------------------------------
(* The UI's removal.                                                       *)

LEMMA StoreChanges ==
  ASSUME store \in Store, NEW x, NEW n
  PROVE  /\ store' = [store EXCEPT !.index = x] => Listed' = x /\ Avail' = Avail
         /\ store' = [store EXCEPT !.index = x, !.nextId = n, !.busy = FALSE] =>
              Listed' = x /\ Avail' = Avail
BY Zenon DEF Store, Listed, Avail

LEMMA WriterChanges ==
  ASSUME writer \in Writer, NEW pc, NEW i, NEW s, NEW x
  PROVE  /\ writer' = [writer EXCEPT !.pc = pc, !.id = i, !.shot = s] =>
              Pc' = pc /\ Wid' = i /\ Wshot' = s
         /\ writer' = [writer EXCEPT !.pc = pc, !.id = i] => Pc' = pc /\ Wid' = i
         /\ writer' = [writer EXCEPT !.pc = pc, !.snap = x] =>
              Pc' = pc /\ Wid' = Wid /\ Snap' = x
BY Zenon DEF Writer, Pc, Wid, Wshot, Snap

(* What a step that adds nothing to the places of rows has to show.        *)
LEMMA GoneStep ==
  ASSUME GoneInv, ~Drift' => ~Drift, Gone' = Gone,
         ~Drift' /\ WidLeft => WidLeft',
         \A r : Alive(r)' => Alive(r)
  PROVE  GoneInv'
BY DEF GoneInv

LEMMA RemoveAgrees ==
  ASSUME Inv, RamInv, GoneInv, Fresh, NEW r \in Rows, Remove(r)
  PROVE  RamInv' /\ GoneInv' /\ Fresh'
<1> DEFINE x == store.index \ {r}
<1>1. /\ TypeOK /\ ~Sends /\ r \in Listed
      /\ store' = [store EXCEPT !.index = x]
      /\ ui' = [pc |-> "sending", id |-> r.id, shot |-> r.shot]
      /\ UNCHANGED card /\ UNCHANGED queue /\ UNCHANGED writer /\ UNCHANGED history
  BY Before DEF Remove, UiIdle, Sends, Avail, Listed
<1>2. Listed' = Listed \ {r} /\ Avail' = Avail
  <2>1. x = Listed \ {r} BY DEF Listed
  <2> HIDE DEF x
  <2> QED BY <1>1, <2>1, Types, StoreChanges
<1>3. Sends' /\ Uid' = r.id /\ InHand' = r
  BY <1>1, RowsTyped DEF Sends, Uid, InHand
<1>4. /\ OnCard' = OnCard /\ Answers' = Answers /\ Drift' = Drift /\ Jobs' = Jobs
      /\ Gone' = Gone /\ Doomed' = Doomed /\ Made' = Made
      /\ Pc' = Pc /\ Wid' = Wid /\ Snap' = Snap /\ InWork' = InWork
  BY <1>1, CardSame, HistorySame, WriterSame, RowsInHand, QueueSame, QuietSame
     DEF QuietPast
<1>5. RamInv'
  <2> SUFFICES ASSUME ~Drift, Avail, Answers
               PROVE  /\ RamWork'
                      /\ Pc # "unlinked" => RamCard'
                      /\ Pc \in SwapPcs => RamSnap'
    BY <1>2, <1>4 DEF RamInv
  <2>1. /\ \A q : Leaving(q) => Leaving(q)'
        /\ \A q : q \in Listed => q \in Listed' \/ Leaving(q)'
    BY <1>1, <1>2, <1>3, <1>4 DEF Leaving, Removes
  <2> QED BY <1>2, <1>4, <2>1 DEF RamInv, RamWork, RamCard, RamSnap
<1>6. \A q : Alive(q)' => Alive(q) BY <1>1, <1>2, <1>3, <1>4 DEF Alive
<1>7. WidLeft => WidLeft' BY <1>1, <1>2, <1>3, <1>4 DEF WidLeft
<1>8. GoneInv' BY <1>4, <1>6, <1>7, GoneStep
<1>9. \A q \in Rows : Used(q)' => Used(q) BY <1>1, <1>2, <1>3, <1>4 DEF Used
<1>10. Fresh' BY <1>1, <1>4, <1>9, QuietSame, FreshStep
<1> QED BY <1>5, <1>8, <1>10

LEMMA RemoveSentAgrees ==
  ASSUME Inv, RamInv, GoneInv, Fresh, RemoveSent
  PROVE  RamInv' /\ GoneInv' /\ Fresh'
<1> DEFINE k == history.kept \ {InHand}  d == history.doomed \cup {InHand}
<1>1. /\ TypeOK /\ Sends /\ Fits /\ Send("remove", Uid, NoShot) /\ UiRests
      /\ history' = [history EXCEPT !.kept = k, !.doomed = d]
      /\ UNCHANGED card /\ UNCHANGED store /\ UNCHANGED writer
  BY Before DEF RemoveSent, Sends, Uid
<1>2. Gone' = Gone /\ Doomed' = Doomed \cup {InHand} /\ Drift' = Drift /\ Made' = Made
  <2>1. d = Doomed \cup {InHand} BY DEF Doomed
  <2> HIDE DEF k, d
  <2> QED BY <1>1, <2>1, Types, HistorySteps
<1>3. ~Sends' BY <1>1, UiRestsFacts
<1>4. QueueStep /\ \A r : Leaving(r) => Leaving(r)'
  <2>1. "remove" \in Kinds /\ Uid \in Ids \cup {0} BY <1>1, Names DEF Kinds
  <2>2. NoShot \in Shots \cup {NoShot} OBVIOUS
  <2>3. /\ QueueStep /\ \A j \in Jobs : j \in Jobs'
        /\ JobFor("remove", Uid, NoShot) \in Jobs'
        /\ JobFor("remove", Uid, NoShot).kind = "remove"
        /\ JobFor("remove", Uid, NoShot).id = Uid
    BY <1>1, <2>1, <2>2, QueueSends
  <2>4. \E j \in Jobs' : j.kind = "remove" /\ j.id = Uid BY <2>3
  <2>5. ASSUME NEW r, Leaving(r) PROVE Removes(r.id)'
    BY <2>3, <2>4, <2>5 DEF Removes, Leaving
  <2> QED BY <2>3, <2>5 DEF Leaving
<1>5. /\ Listed' = Listed /\ Avail' = Avail
      /\ OnCard' = OnCard /\ Answers' = Answers
      /\ Pc' = Pc /\ Wid' = Wid /\ Snap' = Snap /\ InWork' = InWork
  BY <1>1, CardSame, StoreSame, WriterSame, RowsInHand
<1>6. RamInv'
  BY <1>2, <1>4, <1>5 DEF RamInv, RamWork, RamCard, RamSnap
<1>7. \A q : Alive(q)' => Alive(q) BY <1>3, <1>5 DEF Alive
<1>8. WidLeft => WidLeft' BY <1>3, <1>5 DEF WidLeft
<1>9. GoneInv' BY <1>2, <1>7, <1>8, GoneStep
<1>10. \A q \in Rows : Used(q)' => Used(q) BY <1>1, <1>2, <1>3, <1>5 DEF Used
<1>11. Fresh' BY <1>1, <1>2, <1>4, <1>10, FreshStep
<1> QED BY <1>6, <1>9, <1>11

(* A row put back in time is on the card still, and in the copy, or is the *)
(* one the writer is about to append.                                      *)
LEMMA RemoveTimesOutAgrees ==
  ASSUME Inv, RamInv, GoneInv, Fresh, RemoveTimesOut
  PROVE  RamInv' /\ GoneInv' /\ Fresh'
<1> DEFINE x == store.index \cup {InHand}  d == history.drift \/ PutBackIsLate(InHand)
<1>1. /\ TypeOK /\ Sends /\ UiRests
      /\ store' = [store EXCEPT !.index = x]
      /\ history' = [history EXCEPT !.drift = d]
      /\ UNCHANGED card /\ UNCHANGED queue /\ UNCHANGED writer
  BY Before DEF RemoveTimesOut, Sends
<1>2. InHand \in Rows /\ InHand.id = Uid
  <2>1. InHand \in Rows BY <1>1, Before DEF ShapeCalls
  <2> QED BY <2>1 DEF InHand, RowOf, Uid
<1>3. Listed' = Listed \cup {InHand} /\ Avail' = Avail
  <2>1. x = Listed \cup {InHand} BY DEF Listed
  <2> HIDE DEF x
  <2> QED BY <1>1, <2>1, Types, StoreChanges
<1>4. /\ Gone' = Gone /\ Doomed' = Doomed /\ Made' = Made
      /\ ~Drift' => /\ ~Drift /\ (Pc \in SwapPcs => InHand \in Snap)
                    /\ InHand \in OnCard \/ (Pc = "inserted" /\ InHand = InWork)
  <2>1. ~d => /\ ~Drift /\ (Pc \in SwapPcs => InHand \in Snap)
              /\ InHand \in OnCard \/ (Pc = "inserted" /\ InHand = InWork)
    BY DEF Drift, PutBackIsLate, ToCome, InWork, Swapping, OnCard, Pc, Snap
  <2> HIDE DEF d
  <2>2. history \in History BY <1>1, Types
  <2>3. Gone' = Gone /\ Doomed' = Doomed /\ Drift' = d /\ Made' = Made
    BY <1>1, <2>2, HistorySteps, Zenon
  <2> QED BY <2>1, <2>3, Zenon
<1>5. ~Sends' BY <1>1, UiRestsFacts
<1>6. /\ OnCard' = OnCard /\ Answers' = Answers /\ Jobs' = Jobs
      /\ Pc' = Pc /\ Wid' = Wid /\ Snap' = Snap /\ InWork' = InWork
  BY <1>1, CardSame, WriterSame, RowsInHand, QueueSame
<1>7. RamInv'
  <2> SUFFICES ASSUME ~Drift', Avail, Answers
               PROVE  /\ RamWork'
                      /\ Pc # "unlinked" => RamCard'
                      /\ Pc \in SwapPcs => RamSnap'
    BY <1>3, <1>6 DEF RamInv
  <2>1. /\ RamWork
        /\ Pc # "unlinked" => RamCard
        /\ Pc \in SwapPcs => RamSnap
    BY <1>4 DEF RamInv
  <2>2. /\ IdRows /\ IdWriter BY <1>4, Before
  <2>3. ASSUME NEW q, Leaving(q)
        PROVE  q.id = InHand.id \/ Leaving(q)'
    BY <1>2, <1>6, <2>3 DEF Leaving, Removes
  <2>4. ASSUME NEW q, q \in OnCard \/ (Pc \in SwapPcs /\ q \in Snap), q.id = InHand.id
        PROVE  q \in Listed'
    <3>1. CASE InHand \in OnCard
      <4>1. q = InHand BY <1>4, <2>2, <2>4, <3>1 DEF IdRows, Unique
      <4> QED BY <1>3, <4>1
    <3>2. CASE Pc = "inserted" /\ InHand = InWork
      <4>1. InHand.id = Wid /\ Pc \notin SwapPcs
        BY <3>2, InWorkTyped DEF SavePcs, SwapPcs
      <4> QED BY <2>2, <2>4, <3>2, <4>1 DEF IdWriter
    <3> QED BY <1>4, <3>1, <3>2
  <2>5. RamWork'
    <3> SUFFICES ASSUME Pc = "inserted" PROVE InWork \in Listed' \/ Leaving(InWork)'
      BY <1>6 DEF RamWork
    <3>1. InHand.id # InWork.id \/ InHand = InWork
      <4>1. InWork.id = Wid BY InWorkTyped DEF SavePcs
      <4> QED BY <1>4, <2>2, <4>1 DEF IdWriter
    <3>2. InWork \in Listed \/ Leaving(InWork) BY <2>1 DEF RamWork
    <3> QED BY <1>3, <1>6, <2>3, <3>1, <3>2
  <2>6. Pc # "unlinked" => RamCard'
    BY <1>3, <1>4, <1>6, <2>1, <2>3, <2>4 DEF RamCard
  <2>7. Pc \in SwapPcs => RamSnap'
    BY <1>3, <1>4, <1>6, <2>1, <2>3, <2>4 DEF RamSnap
  <2> QED BY <2>5, <2>6, <2>7
<1>8. \A q : Alive(q)' => Alive(q) BY <1>1, <1>3, <1>5, <1>6 DEF Alive
<1>9. WidLeft => WidLeft' BY <1>1, <1>2, <1>3, <1>5, <1>6 DEF WidLeft
<1>10. GoneInv' BY <1>4, <1>8, <1>9, GoneStep
<1>11. \A q \in Rows : Used(q)' => Used(q) BY <1>1, <1>3, <1>4, <1>5, <1>6 DEF Used
<1>12. Fresh' BY <1>1, <1>4, <1>11, QuietSame, FreshStep
<1> QED BY <1>7, <1>10, <1>12

-----------------------------------------------------------------------------
(* The writer's steps on the list, the index and its copy.                 *)

(* The new row is of a shot no deleted row can be of.                      *)
LEMMA ShotInsertedAgrees ==
  ASSUME Inv, RamInv, GoneInv, Fresh, ShotInserted
  PROVE  RamInv' /\ GoneInv' /\ Fresh'
<1> DEFINE s == Head(queue).shot  i == store.nextId  row == RowOf(i, s)
           x == store.index \cup {row}  n == i + 1
<1>1. /\ TypeOK /\ Takes("save") /\ i \in Ids
      /\ store' = [store EXCEPT !.index = x, !.nextId = n, !.busy = FALSE]
      /\ writer' = [writer EXCEPT !.pc = "inserted", !.id = i, !.shot = s]
      /\ UNCHANGED card /\ UNCHANGED ui /\ UNCHANGED history
  BY Before DEF ShotInserted, TakesMounted
<1>2. /\ QueueStep /\ Pc = "idle"
      /\ Head(queue) \in Jobs /\ Head(queue).kind = "save"
      /\ \A j \in Jobs : j = Head(queue) \/ j \in Jobs'
      /\ queue # <<>> /\ queue' = Tail(queue)
  BY <1>1, QueueTakes DEF Takes
<1>3. row \in Rows /\ row.shot = s
  <2>1. s \in Shots BY <1>2, Before DEF ShapeCalls
  <2> QED BY <1>1, <2>1, RowsTyped
<1>4. Listed' = Listed \cup {row} /\ Avail' = Avail
  <2>1. x = Listed \cup {row} BY DEF Listed
  <2> HIDE DEF x, n
  <2> QED BY <1>1, <2>1, Types, StoreChanges
<1>5. Pc' = "inserted" /\ InWork' = row
  <2>1. Pc' = "inserted" /\ Wid' = i /\ Wshot' = s
    <3> HIDE DEF i, s
    <3> QED BY <1>1, Types, WriterChanges
  <2> QED BY <2>1 DEF InWork, Wid, Wshot
<1>6. s <= Made /\ LaterThan(s, Jobs')
  <2>1. queue \in Seq(Job) BY <1>1, Types
  <2> QED BY <1>2, <2>1, TailOrdered DEF Fresh, Jobs
<1>7. \A r \in Gone : r # row
  <2>1. ASSUME NEW r \in Gone PROVE r.shot < s /\ r.shot \in Nat
    <3>1. r \in Rows BY <1>1, Types, HistoryFields DEF Gone
    <3>2. Used(r) BY DEF Used
    <3> QED BY <1>2, <3>1, <3>2, RowsTyped, SMT DEF Fresh, LaterThan, Shots
  <2>2. \A k \in Nat : ~(k < k) BY SMT
  <2> QED BY <1>3, <2>1, <2>2
<1> HIDE DEF s, i, row, x, n
<1>8. /\ OnCard' = OnCard /\ Answers' = Answers /\ Drift' = Drift
      /\ Gone' = Gone /\ Doomed' = Doomed /\ Made' = Made
      /\ Sends' = Sends /\ Uid' = Uid /\ InHand' = InHand
  BY <1>1, CardSame, HistorySame, UiSame, RowsInHand, QuietSame DEF QuietPast
<1>9. RamInv'
  <2> SUFFICES ASSUME ~Drift, Avail, Answers PROVE RamWork' /\ RamCard' /\ Pc' \notin SwapPcs
    BY <1>4, <1>8 DEF RamInv
  <2>1. RamCard /\ Pc \notin RemovingPcs /\ Pc # "inserted"
    BY <1>2 DEF RamInv, RemovingPcs, SwapPcs
  <2>2. \A q : Leaving(q) => Leaving(q)' BY <1>2, <1>8 DEF Leaving, Removes
  <2>3. RamWork' BY <1>4, <1>5 DEF RamWork
  <2>4. RamCard' BY <1>4, <1>5, <1>8, <2>1, <2>2 DEF RamCard
  <2> QED BY <1>5, <2>3, <2>4 DEF SwapPcs
<1>10. GoneInv'
  <2>1. \A q : Alive(q)' => Alive(q) \/ q = row BY <1>4, <1>5, <1>8 DEF Alive, SwapPcs
  <2>2. WidLeft' BY <1>5 DEF WidLeft, RemovingPcs, SwapPcs
  <2> QED BY <1>7, <1>8, <2>1, <2>2 DEF GoneInv
<1>11. Fresh'
  <2>1. Ordered(queue') /\ \A j \in Jobs' : j.kind = "save" => j \in Jobs
    BY <1>1, <1>2, QueueStepOrdered DEF Fresh
  <2>2. \A q \in Rows : Used(q)' => Used(q) \/ q = row
    BY <1>4, <1>5, <1>8 DEF Used, SwapPcs
  <2>3. ASSUME NEW q \in Rows, Used(q)' PROVE q.shot <= Made /\ LaterThan(q.shot, Jobs')
    BY <1>3, <1>6, <2>1, <2>2, <2>3 DEF Fresh, LaterThan
  <2> QED BY <1>8, <2>1, <2>3 DEF Fresh
<1> QED BY <1>9, <1>10, <1>11

LEMMA RowAppendedAgrees ==
  ASSUME Inv, RamInv, GoneInv, Fresh, RowAppended
  PROVE  RamInv' /\ GoneInv' /\ Fresh'
<1> DEFINE x == card.rows \cup {InWork}
           y == IF card.index = Absent THEN "bare" ELSE card.index
<1>1. /\ TypeOK /\ Pc = "inserted" /\ Goto("appended")
      /\ card.answers => card' = [card EXCEPT !.rows = x, !.index = y]
      /\ ~card.answers => UNCHANGED card
      /\ UNCHANGED store /\ UNCHANGED queue /\ UNCHANGED ui /\ UNCHANGED history
  BY Before DEF RowAppended, Pc
<1>2. Pc' = "appended" /\ Wid' = Wid /\ Snap' = Snap /\ InWork' = InWork
  BY <1>1, Moves DEF Pcs, SavePcs
<1>3. Answers' = Answers /\ OnCard' = IF Answers THEN OnCard \cup {InWork} ELSE OnCard
  <2>1. x = OnCard \cup {InWork} BY DEF OnCard
  <2> HIDE DEF x, y
  <2>2. CASE card.answers
    <3>1. OnCard' = x /\ Answers' = Answers BY <1>1, <2>2, Types, CardSteps
    <3> QED BY <2>1, <2>2, <3>1 DEF Answers
  <2>3. CASE ~card.answers BY <1>1, <2>3, CardSame DEF Answers
  <2> QED BY <2>2, <2>3
<1>4. /\ Listed' = Listed /\ Avail' = Avail /\ Drift' = Drift /\ Jobs' = Jobs
      /\ Gone' = Gone /\ Doomed' = Doomed /\ Made' = Made
      /\ Sends' = Sends /\ Uid' = Uid /\ InHand' = InHand
  BY <1>1, StoreSame, HistorySame, UiSame, RowsInHand, QueueSame, QuietSame DEF QuietPast
<1>5. RamInv'
  <2> SUFFICES ASSUME ~Drift, Avail, Answers PROVE RamWork' /\ RamCard' /\ Pc' \notin SwapPcs
    BY <1>3, <1>4 DEF RamInv
  <2>1. RamCard /\ (InWork \in Listed \/ Leaving(InWork)) /\ Pc \notin RemovingPcs
    BY <1>1 DEF RamInv, RamWork, RemovingPcs, SwapPcs
  <2>2. \A q : Leaving(q) => Leaving(q)' BY <1>4 DEF Leaving, Removes
  <2>3. RamCard' BY <1>1, <1>2, <1>3, <1>4, <2>1, <2>2 DEF RamCard
  <2> QED BY <1>2, <2>3 DEF RamWork, SwapPcs
<1>6. \A q : Alive(q)' => Alive(q) BY <1>1, <1>2, <1>3, <1>4 DEF Alive, SwapPcs
<1>7. WidLeft' BY <1>2 DEF WidLeft, RemovingPcs, SwapPcs
<1>8. GoneInv' BY <1>4, <1>6, <1>7, GoneStep
<1>9. \A q \in Rows : Used(q)' => Used(q)
  BY <1>1, <1>2, <1>3, <1>4 DEF Used, SavePcs, SwapPcs
<1>10. Fresh' BY <1>1, <1>4, <1>9, QuietSame, FreshStep
<1> QED BY <1>5, <1>8, <1>10

(* The writer takes over the removal the job stood for.                    *)
LEMMA RemoveBeginsAgrees ==
  ASSUME Inv, RamInv, GoneInv, Fresh, RemoveBegins
  PROVE  RamInv' /\ GoneInv' /\ Fresh'
<1> DEFINE i == Head(queue).id
<1>1. /\ TypeOK /\ Takes("remove")
      /\ writer' = [writer EXCEPT !.pc = "removing", !.id = i]
      /\ card.answers => \E x : card' = [card EXCEPT !.csv = x]
      /\ ~card.answers => UNCHANGED card
      /\ UNCHANGED store /\ UNCHANGED ui /\ UNCHANGED history
  BY Before DEF RemoveBegins, TakesMounted
<1>2. /\ QueueStep /\ Pc = "idle"
      /\ Head(queue) \in Jobs /\ Head(queue).kind = "remove"
      /\ \A j \in Jobs : j = Head(queue) \/ j \in Jobs'
  BY <1>1, QueueTakes
<1>3. Pc' = "removing" /\ Wid' = i
  <2> HIDE DEF i
  <2> QED BY <1>1, Types, WriterChanges
<1>4. OnCard' = OnCard /\ Answers' = Answers
  <2>1. CASE card.answers BY <1>1, <2>1, Types, CardSteps
  <2>2. CASE ~card.answers BY <1>1, <2>2, CardSame
  <2> QED BY <2>1, <2>2
<1>5. /\ Listed' = Listed /\ Avail' = Avail /\ Drift' = Drift
      /\ Gone' = Gone /\ Doomed' = Doomed /\ Made' = Made
      /\ Sends' = Sends /\ Uid' = Uid /\ InHand' = InHand
  BY <1>1, StoreSame, HistorySame, UiSame, RowsInHand, QuietSame DEF QuietPast
<1>6. RamInv'
  <2> SUFFICES ASSUME ~Drift, Avail, Answers PROVE RamCard'
    BY <1>3, <1>4, <1>5 DEF RamInv, RamWork, SwapPcs
  <2>1. RamCard /\ Pc \notin RemovingPcs BY <1>2 DEF RamInv, RemovingPcs, SwapPcs
  <2>2. ASSUME NEW q, Leaving(q) PROVE Leaving(q)' \/ q.id = Wid'
    BY <1>2, <1>3, <1>5, <2>2 DEF Leaving, Removes
  <2> QED BY <1>2, <1>3, <1>4, <1>5, <2>1, <2>2 DEF RamCard, RemovingPcs
<1>7. \A q : Alive(q)' => Alive(q) BY <1>3, <1>4, <1>5 DEF Alive, SwapPcs
<1>8. ASSUME ~Drift' PROVE WidLeft'
  <2>1. IdCalls BY <1>5, <1>8, Before
  <2>2. (\A r \in Listed : r.id # i) /\ (Sends => Uid # i) BY <1>2, <2>1 DEF IdCalls
  <2> QED BY <1>3, <1>5, <2>2 DEF WidLeft, SwapPcs
<1>9. GoneInv' BY <1>5, <1>7, <1>8, GoneStep
<1>10. \A q \in Rows : Used(q)' => Used(q)
  BY <1>3, <1>4, <1>5 DEF Used, SavePcs, SwapPcs
<1>11. Fresh' BY <1>1, <1>2, <1>5, <1>10, FreshStep
<1> QED BY <1>6, <1>9, <1>11

LEMMA IndexCopiedAgrees ==
  ASSUME Inv, RamInv, GoneInv, Fresh, IndexCopied
  PROVE  RamInv' /\ GoneInv' /\ Fresh'
<1>1. /\ TypeOK /\ Pc = "removing"
      /\ writer' = [writer EXCEPT !.pc = "snapped", !.snap = Listed]
      /\ UNCHANGED card /\ UNCHANGED store /\ UNCHANGED queue /\ UNCHANGED ui
      /\ UNCHANGED history
  BY Before DEF IndexCopied, Pc, Listed
<1>2. Pc' = "snapped" /\ Wid' = Wid /\ Snap' = Listed
  <2> DEFINE x == Listed
  <2>1. writer' = [writer EXCEPT !.pc = "snapped", !.snap = x] BY <1>1
  <2> HIDE DEF x
  <2>2. Pc' = "snapped" /\ Wid' = Wid /\ Snap' = x BY <1>1, <2>1, Types, WriterChanges
  <2> QED BY <2>2 DEF x
<1>3. /\ Listed' = Listed /\ Avail' = Avail /\ Drift' = Drift /\ Jobs' = Jobs
      /\ OnCard' = OnCard /\ Answers' = Answers
      /\ Gone' = Gone /\ Doomed' = Doomed /\ Made' = Made
      /\ Sends' = Sends /\ Uid' = Uid /\ InHand' = InHand
  BY <1>1, StoreSame, CardSame, HistorySame, UiSame, RowsInHand, QueueSame, QuietSame
     DEF QuietPast
<1>4. RamInv'
  <2> SUFFICES ASSUME ~Drift, Avail, Answers PROVE RamWork' /\ RamCard' /\ RamSnap'
    BY <1>3 DEF RamInv
  <2>1. RamCard BY <1>1 DEF RamInv
  <2>2. \A q : Leaving(q) => Leaving(q)' BY <1>3 DEF Leaving, Removes
  <2>3. RamCard' BY <1>1, <1>2, <1>3, <2>1, <2>2 DEF RamCard, RemovingPcs, SwapPcs
  <2> QED BY <1>2, <1>3, <2>3 DEF RamWork, RamSnap
<1>5. \A q : Alive(q)' => Alive(q) BY <1>2, <1>3 DEF Alive, SwapPcs
<1>6. WidLeft => WidLeft' BY <1>1, <1>2, <1>3 DEF WidLeft, RemovingPcs
<1>7. GoneInv' BY <1>3, <1>5, <1>6, GoneStep
<1>8. \A q \in Rows : Used(q)' => Used(q) BY <1>2, <1>3 DEF Used, SavePcs
<1>9. Fresh' BY <1>1, <1>3, <1>8, QuietSame, FreshStep
<1> QED BY <1>4, <1>7, <1>9

(* The copy becomes the index, and the removal is done.                    *)
LEMMA TmpRenamedAgrees ==
  ASSUME Inv, RamInv, GoneInv, Fresh, TmpRenamed
  PROVE  RamInv' /\ GoneInv' /\ Fresh'
<1> DEFINE g == history.gone \cup Done(writer.id)  d == history.doomed \ Done(writer.id)
<1>1. /\ TypeOK /\ Pc = "unlinked" /\ Rests
      /\ card' = [card EXCEPT !.index = "whole", !.rows = card.tmpRows,
                              !.tmp = Absent, !.tmpRows = {}]
      /\ history' = [history EXCEPT !.gone = g, !.doomed = d]
      /\ UNCHANGED store /\ UNCHANGED queue /\ UNCHANGED ui
  BY Before DEF TmpRenamed, Pc
<1>2. Pc' = "idle" BY <1>1, WriterRests DEF Pc
<1>3. OnCard' = Snap /\ Answers' = Answers
  <2>1. TmpRows = Snap BY <1>1, Before DEF ShapeWriter
  <2> QED BY <1>1, <2>1, Types, CardSteps
<1>4. /\ Drift' = Drift /\ Made' = Made
      /\ \A r \in Gone' : r \in Gone \/ (r \in Doomed /\ r.id = Wid)
      /\ Doomed' \subseteq Doomed
  <2>1. /\ \A r \in g : r \in Gone \/ (r \in Doomed /\ r.id = Wid)
        /\ d \subseteq Doomed
    BY DEF Done, Gone, Doomed, Wid
  <2> HIDE DEF g, d
  <2>2. history \in History BY <1>1, Types
  <2>3. Gone' = g /\ Doomed' = d /\ Drift' = Drift /\ Made' = Made
    BY <1>1, <2>2, HistorySteps, Zenon
  <2> QED BY <2>1, <2>3, Zenon
<1>5. /\ Listed' = Listed /\ Avail' = Avail /\ Jobs' = Jobs
      /\ Sends' = Sends /\ Uid' = Uid /\ InHand' = InHand
  BY <1>1, StoreSame, UiSame, RowsInHand, QueueSame
<1>6. RamInv'
  <2> SUFFICES ASSUME ~Drift, Avail, Answers PROVE RamCard'
    BY <1>2, <1>3, <1>4, <1>5 DEF RamInv, RamWork, SwapPcs
  <2>1. RamSnap BY <1>1 DEF RamInv, SwapPcs
  <2>2. \A q : Leaving(q) => Leaving(q)' BY <1>5 DEF Leaving, Removes
  <2> QED BY <1>3, <1>5, <2>1, <2>2 DEF RamSnap, RamCard
<1>7. ASSUME NEW q, Alive(q)'
      PROVE  Alive(q) /\ (q \in Listed \/ q \in Snap \/ (Sends /\ q = InHand))
  BY <1>1, <1>2, <1>3, <1>5, <1>7 DEF Alive, SwapPcs
<1>8. GoneInv'
  <2> SUFFICES ASSUME ~Drift, NEW r \in Gone', Alive(r)' PROVE FALSE
    BY <1>2, <1>4 DEF GoneInv, WidLeft, RemovingPcs, SwapPcs
  <2>1. WidLeft /\ \A q \in Gone : ~Alive(q) BY DEF GoneInv
  <2>2. r.id = Wid BY <1>4, <1>7, <2>1
  <2>3. InHand.id = Uid BY DEF InHand, RowOf, Uid
  <2> QED BY <1>1, <1>7, <2>1, <2>2, <2>3 DEF WidLeft, RemovingPcs, SwapPcs
<1>9. \A q \in Rows : Used(q)' => Used(q)
  BY <1>1, <1>2, <1>3, <1>4, <1>5 DEF Used, SavePcs, SwapPcs
<1>10. Fresh' BY <1>1, <1>4, <1>9, QuietSame, FreshStep
<1> QED BY <1>6, <1>8, <1>10

-----------------------------------------------------------------------------
(* The mount.                                                              *)

LEMMA LoadsAgrees ==
  ASSUME Inv, RamInv, GoneInv, Fresh, Loads(OnCard), UNCHANGED queue, OnCard' = OnCard
  PROVE  RamInv' /\ GoneInv' /\ Fresh'
<1> DEFINE d == history.drift \/ RemovalUnderWay
<1>1. /\ TypeOK /\ Rests /\ UiOn
      /\ history' = [history EXCEPT !.doomed = {}, !.drift = d]
      /\ store'.index = OnCard
  BY Before DEF Loads
<1>2. Pc' = "idle" BY <1>1, WriterRests DEF Pc
<1>3. Listed' = OnCard BY <1>1 DEF Listed
<1>4. Gone' = Gone /\ Doomed' = {} /\ Made' = Made /\ (~Drift' => ~Drift)
  <2>1. ~d => ~Drift BY DEF Drift
  <2> HIDE DEF d
  <2>2. history \in History BY <1>1, Types
  <2>3. Gone' = Gone /\ Doomed' = {} /\ Drift' = d /\ Made' = Made
    BY <1>1, <2>2, HistorySteps, Zenon
  <2> QED BY <2>1, <2>3, Zenon
<1>5. Sends' => Sends /\ Uid' = Uid /\ InHand' = InHand
  BY <1>1, UiOnFacts, UiSame, RowsInHand
<1>6. RamInv' BY <1>2, <1>3 DEF RamInv, RamWork, RamCard, SwapPcs
<1>7. \A q : Alive(q)' => Alive(q) BY <1>2, <1>3, <1>5 DEF Alive, SwapPcs
<1>8. WidLeft' BY <1>2 DEF WidLeft, RemovingPcs, SwapPcs
<1>9. GoneInv' BY <1>4, <1>7, <1>8, GoneStep
<1>10. \A q \in Rows : Used(q)' => Used(q)
  BY <1>2, <1>3, <1>4, <1>5 DEF Used, SavePcs, SwapPcs
<1>11. Fresh' BY <1>1, <1>4, <1>10, QuietSame, FreshStep
<1> QED BY <1>6, <1>9, <1>11

LEMMA MountAgrees ==
  ASSUME Inv, RamInv, GoneInv, Fresh, IndexLoaded \/ IndexCreated
  PROVE  RamInv' /\ GoneInv' /\ Fresh'
<1>1. TypeOK BY Before
<1>2. CASE IndexLoaded
  <2>1. card' = [card EXCEPT !.answers = TRUE] /\ Loads(OnCard) /\ UNCHANGED queue
    BY <1>2 DEF IndexLoaded, OnCard
  <2>2. OnCard' = OnCard BY <1>1, <2>1, Types, CardSteps
  <2> QED BY <2>1, <2>2, LoadsAgrees
<1>3. CASE IndexCreated
  <2> DEFINE x == IF card.answers THEN "whole" ELSE card.index
  <2>1. Pc = "creating" /\ card' = [card EXCEPT !.index = x] /\ Loads({}) /\ UNCHANGED queue
    BY <1>3 DEF IndexCreated, Pc
  <2>2. OnCard = {} BY <2>1, Before DEF ShapeCard
  <2>3. OnCard' = OnCard
    <3> HIDE DEF x
    <3> QED BY <1>1, <2>1, Types, CardSteps
  <2>4. Loads(OnCard) BY <2>1, <2>2
  <2> QED BY <2>1, <2>3, <2>4, LoadsAgrees
<1> QED BY <1>2, <1>3

-----------------------------------------------------------------------------
(* The theorems.                                                           *)

LEMMA InitAgrees == ASSUME Init PROVE RamInv /\ GoneInv /\ Fresh
<1>1. /\ ~Avail /\ Listed = {} /\ Pc = "mounting" /\ ~Sends
      /\ Gone = {} /\ Doomed = {}
  <2>1. store = Unmounted /\ writer = Boot /\ ui = UiOff
    BY DEF Init
  <2>2. history.gone = {} /\ history.doomed = {} BY DEF Init
  <2> QED BY <2>1, <2>2, BootFacts, UiFacts
          DEF Unmounted, Avail, Listed, Pc, Sends, Gone, Doomed
<1>2. OnCard = {}
  <2>1. card.rows \in {{}} BY Zenon DEF Init
  <2> QED BY <2>1 DEF OnCard
<1>3. Jobs = {} /\ Ordered(queue)
  <2>1. queue = <<>> BY DEF Init
  <2>2. Jobs = {} /\ Len(queue) = 0 BY <2>1, EmptyQueue DEF Jobs
  <2>3. 1..0 = {} BY SMT
  <2> QED BY <2>2, <2>3 DEF Ordered
<1>4. RamInv BY <1>1 DEF RamInv
<1>5. GoneInv BY <1>1 DEF GoneInv, WidLeft, RemovingPcs, SwapPcs
<1>6. Fresh BY <1>1, <1>2, <1>3 DEF Fresh, Used, SavePcs, SwapPcs
<1> QED BY <1>4, <1>5, <1>6

LEMMA StepAgrees ==
  ASSUME Inv, RamInv, GoneInv, Fresh, [Next]_vars
  PROVE  RamInv' /\ GoneInv' /\ Fresh'
<1>1. TypeOK BY Before
<1>2. CASE UiStarts
  BY <1>1, <1>2, RemoveAgrees, SaveIsFresh, RequestsQuiet, SettledKeeps DEF UiStarts
<1>3. CASE UiReturns
  BY <1>3, RemoveSentAgrees, RemoveTimesOutAgrees DEF UiReturns
<1>4. CASE WriterStep
  <2>1. CASE MarkerWritten \/ MarkerFails \/ \E k \in Kinds : DropJob(k)
    BY <1>1, <2>1, JobsQuiet, UnmountsQuiet, SettledKeeps
  <2>2. CASE SaveStep
    BY <1>1, <2>2, JobsQuiet, ShotInsertedAgrees, RowAppendedAgrees, SamplesQuiet,
       UnmountsQuiet, SettledKeeps DEF SaveStep
  <2>3. CASE SwapStep
    BY <1>1, <2>3, RemoveBeginsAgrees, IndexCopiedAgrees, SwapQuiet, TmpRenamedAgrees,
       UnmountsQuiet, SettledKeeps DEF SwapStep
  <2>4. CASE MountStep
    BY <1>1, <2>4, UnmountsQuiet, JobsQuiet, MountFailsQuiet, MountAgrees,
       IndexMissingQuiet, SettledKeeps DEF MountStep
  <2> QED BY <1>4, <2>1, <2>2, <2>3, <2>4 DEF WriterStep
<1>5. CASE CardPulled BY <1>1, <1>5, CardPulledQuiet, SettledKeeps
<1>6. CASE PowerCut BY <1>1, <1>6, PowerCutQuiet, SettledKeeps
<1>7. CASE UNCHANGED vars BY <1>1, <1>7, StutterQuiet, SettledKeeps
<1> QED BY <1>2, <1>3, <1>4, <1>5, <1>6, <1>7 DEF Next

(* What the list in RAM, the index, its copy and the queue hold of a row   *)
(* agrees at every step of the UI thread and the writer task, and the next *)
(* shot to be saved is later than every row there ever was.                *)
THEOREM CardInvariant == Spec => [](RamInv /\ GoneInv /\ Fresh)
<1>1. Init => RamInv /\ GoneInv /\ Fresh BY InitAgrees
<1>2. Inv /\ (RamInv /\ GoneInv /\ Fresh) /\ [Next]_vars => (RamInv /\ GoneInv /\ Fresh)'
  BY StepAgrees
<1> QED BY <1>1, <1>2, StoreInvariant, PTL DEF Spec

(* With the queue drained and nothing in hand, the list the UI shows is    *)
(* what a reboot would read from shots.csv: write_job, remove and          *)
(* remove_files (shot_store.cpp) leave no row in one of the two only,      *)
(* unless an I/O error unmounted the card, or a put-back came too late.    *)
THEOREM RestingListIsOnCard == Spec => []RamMatchesCard
<1>1. ASSUME Inv, RamInv PROVE RamMatchesCard
  <2> SUFFICES ASSUME AtRest, ~Drift PROVE Listed = OnCard
    BY DEF RamMatchesCard, Drift, Listed, OnCard
  <2>1. Avail /\ Answers /\ Pc = "idle" /\ ~Sends /\ queue = <<>>
    BY DEF AtRest, WriterIdle, UiIdle, Avail, Answers, Pc, Sends
  <2>2. \A r : ~Leaving(r) BY <2>1, EmptyQueue DEF Leaving, Removes, Jobs
  <2>3. RamCard BY <1>1, <2>1 DEF RamInv
  <2> QED BY <2>1, <2>2, <2>3 DEF RamCard, RemovingPcs, SwapPcs
<1>2. Inv /\ (RamInv /\ GoneInv /\ Fresh) => RamMatchesCard BY <1>1
<1> QED BY <1>2, StoreInvariant, CardInvariant, PTL

(* A deleted shot is in no list and on no card again: the index that       *)
(* remove_files copied before a later removal, a put-back in time, a       *)
(* remount and a new shot that is given its id all leave it out.           *)
THEOREM DeletedShotsStayAway == Spec => []DeletedStaysDeleted
<1>1. ASSUME GoneInv PROVE DeletedStaysDeleted
  BY <1>1 DEF GoneInv, Alive, DeletedStaysDeleted, Drift, Gone, Listed, OnCard
<1>2. RamInv /\ GoneInv /\ Fresh => DeletedStaysDeleted BY <1>1
<1> QED BY <1>2, CardInvariant, PTL
=============================================================================
