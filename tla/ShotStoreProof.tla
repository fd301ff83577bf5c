--------------------------- MODULE ShotStoreProof ---------------------------
(***************************************************************************)
(* What the SD card's shot history promises, for any number of shots, ids, *)
(* queued jobs and disturbances: the rows and samples the user was shown   *)
(* as saved survive every power cut and pulled card.                       *)
(*                                                                         *)
(* Inv says of every place a row can be (the list in RAM, the index file,  *)
(* its copy, a job in the queue, a call under way) which rows it may hold: *)
(* the five theorems at the end are its consequences.  Most actions are    *)
(* Calm; each of the others has a lemma <Action>Keeps.                     *)
(***************************************************************************)
EXTENDS ShotStore, TLAPS, WellFoundedInduction

(* What the assumptions on the bounds give.                                *)

LEMMA Bounds == /\ MaxId \in Nat \ {0} /\ Depth \in Nat \ {0}
                /\ MaxOps \in Nat /\ MaxShots \in Nat
                /\ 0 \notin Ids /\ 0 \notin Shots /\ NoShot = 0 /\ Ids \subseteq Nat
BY MaxIdAssumption, DepthAssumption, MaxOpsAssumption, MaxShotsAssumption, SMT
   DEF Ids, Shots, NoShot

LEMMA RowsTyped ==
  /\ \A r \in Rows : r.id \in Ids /\ r.shot \in Shots /\ r = RowOf(r.id, r.shot)
  /\ \A i \in Ids, s \in Shots : /\ RowOf(i, s) \in Rows
                                 /\ RowOf(i, s).id = i /\ RowOf(i, s).shot = s
BY DEF Rows, RowOf

LEMMA SmallestNat ==
  ASSUME NEW S \in SUBSET Nat, S # {}
  PROVE  \E m \in S : \A k \in S : m <= k
<1>1. PICK m \in S : \A k \in S : <<k, m>> \notin OpToRel(<, Nat)
  BY WFMin, NatLessThanWellFounded, Zenon
<1>2. \A k \in S : ~(k < m)
  BY <1>1, Zenon DEF OpToRel
<1> QED BY <1>2, SMT

LEMMA NextAfterTyped ==
  ASSUME NEW rows \in SUBSET Rows
  PROVE  NextAfter(rows) \in 1..MaxId + 1 /\ \A r \in rows : r.id < NextAfter(rows)
<1> DEFINE S == {n \in 1..MaxId + 1 : \A r \in rows : r.id < n}
<1>1. \A r \in rows : r.id \in 1..MaxId
  BY RowsTyped DEF Ids
<1>2. MaxId + 1 \in S
  BY <1>1, Bounds, SMT
<1>3. S \in SUBSET Nat
  BY SMT
<1>4. PICK m \in S : \A k \in S : m <= k
  <2> HIDE DEF S
  <2> QED BY <1>2, <1>3, SmallestNat
<1>5. ASSUME m # 1, \A r \in rows : r.id # m - 1
      PROVE  FALSE
  <2>1. m - 1 \in 1..MaxId + 1 /\ ~(m <= m - 1)
    BY <1>5, Bounds, SMT
  <2>2. \A r \in rows : r.id < m - 1
    BY <1>1, <1>5, Bounds, SMT
  <2> QED BY <1>4, <2>1, <2>2
<1>6. \E n \in 1..MaxId + 1 : /\ \A r \in rows : r.id < n
                              /\ n = 1 \/ \E r \in rows : r.id = n - 1
  BY <1>4, <1>5
<1> QED BY <1>6 DEF NextAfter

-----------------------------------------------------------------------------
(* The queue, as the set of its jobs.                                      *)

Elems(q) == {q[n] : n \in 1..Len(q)}

LEMMA ElemsFacts ==
  ASSUME NEW q \in Seq(Job)
  PROVE  /\ Elems(q) \subseteq Job
         /\ DOMAIN q = 1..Len(q) /\ Len(q) \in Nat
         /\ q # <<>> => /\ Head(q) \in Elems(q) /\ Tail(q) \in Seq(Job)
                        /\ Elems(Tail(q)) \subseteq Elems(q)
                        /\ Len(Tail(q)) <= Len(q)
         /\ \A j \in Job : /\ Append(q, j) \in Seq(Job)
                           /\ Len(Append(q, j)) = Len(q) + 1
                           /\ Elems(Append(q, j)) = Elems(q) \cup {j}
<1>1. Elems(q) \subseteq Job /\ DOMAIN q = 1..Len(q) /\ Len(q) \in Nat
  BY SMT DEF Elems
<1>2. ASSUME q # <<>>
      PROVE  /\ Head(q) \in Elems(q) /\ Tail(q) \in Seq(Job)
             /\ Elems(Tail(q)) \subseteq Elems(q) /\ Len(Tail(q)) <= Len(q)
  <2>1. Len(q) >= 1 /\ Head(q) = q[1] BY <1>2, SMT
  <2>2. Head(q) \in Elems(q) BY <1>1, <2>1, SMT DEF Elems
  <2>3. Tail(q) \in Seq(Job) /\ Len(Tail(q)) = Len(q) - 1 BY <1>2, SMT
  <2>4. \A n \in 1..Len(Tail(q)) : Tail(q)[n] = q[n + 1] /\ n + 1 \in 1..Len(q)
    BY <1>1, <1>2, <2>3, SMT
  <2>5. Elems(Tail(q)) \subseteq Elems(q) BY <2>4 DEF Elems
  <2> QED BY <1>1, <2>2, <2>3, <2>5, SMT
<1>3. ASSUME NEW j \in Job
      PROVE  /\ Append(q, j) \in Seq(Job) /\ Len(Append(q, j)) = Len(q) + 1
             /\ Elems(Append(q, j)) = Elems(q) \cup {j}
  <2>1. /\ Append(q, j) \in Seq(Job) /\ Len(Append(q, j)) = Len(q) + 1
        /\ \A n \in 1..Len(q) : Append(q, j)[n] = q[n] /\ n \in 1..Len(q) + 1
        /\ Append(q, j)[Len(q) + 1] = j
    BY <1>1, SMT
  <2>2. \A n \in 1..Len(q) + 1 : n \in 1..Len(q) \/ n = Len(q) + 1
    BY <1>1, SMT
  <2>3. Len(q) + 1 \in 1..Len(q) + 1 BY <1>1, SMT
  <2> QED BY <2>1, <2>2, <2>3 DEF Elems
<1> QED BY <1>1, <1>2, <1>3

LEMMA EmptyQueue == <<>> \in Seq(Job) /\ Elems(<<>>) = {} /\ Len(<<>>) = 0
BY SMT DEF Elems

LEMMA SendFacts ==
  ASSUME queue \in Seq(Job), Len(queue) <= Depth, Fits,
         NEW k \in Kinds, NEW i \in Ids \cup {0}, NEW s \in Shots \cup {NoShot}, Send(k, i, s)
  PROVE  /\ queue' \in Seq(Job) /\ Len(queue') <= Depth
         /\ Elems(queue') = Elems(queue) \cup {JobFor(k, i, s)}
         /\ JobFor(k, i, s).kind = k /\ JobFor(k, i, s).id = i /\ JobFor(k, i, s).shot = s
<1>1. /\ JobFor(k, i, s) \in Job
      /\ JobFor(k, i, s).kind = k /\ JobFor(k, i, s).id = i /\ JobFor(k, i, s).shot = s
  BY DEF JobFor, Job
<1> DEFINE j == JobFor(k, i, s)
<1>2. queue' = Append(queue, j) BY DEF Send
<1>3. j \in Job BY <1>1
<1> HIDE DEF j
<1>4. queue' \in Seq(Job) /\ Len(queue') = Len(queue) + 1 /\ Elems(queue') = Elems(queue) \cup {j}
  BY <1>2, <1>3, ElemsFacts
<1>5. Len(queue') <= Depth BY <1>4, ElemsFacts, Bounds, SMT DEF Fits
<1> QED BY <1>1, <1>4, <1>5 DEF j

LEMMA TakesFacts ==
  ASSUME queue \in Seq(Job), Len(queue) <= Depth, NEW k, Takes(k)
  PROVE  /\ queue' \in Seq(Job) /\ Len(queue') <= Depth
         /\ Elems(queue') \subseteq Elems(queue)
         /\ Head(queue) \in Elems(queue) /\ Head(queue) \in Job /\ Head(queue).kind = k
         /\ writer.pc = "idle"
<1>1. queue # <<>> /\ queue' = Tail(queue) /\ Head(queue).kind = k /\ writer.pc = "idle"
  BY DEF Takes, WriterIdle
<1>2. /\ Head(queue) \in Elems(queue) /\ Tail(queue) \in Seq(Job)
      /\ Elems(Tail(queue)) \subseteq Elems(queue) /\ Elems(queue) \subseteq Job
      /\ Len(Tail(queue)) <= Len(queue) /\ Len(queue) \in Nat /\ Len(Tail(queue)) \in Nat
  BY <1>1, ElemsFacts
<1>3. Len(queue') <= Depth BY <1>1, <1>2, Bounds, SMT
<1> QED BY <1>1, <1>2, <1>3

-----------------------------------------------------------------------------
(* What the parts of the state hold.                                       *)

Indexes == {Absent, "bare", "whole"}
Tmps    == {Absent, Torn, "whole"}
Pcs     == {"idle", "mounting", "creating", "removing"} \cup SavePcs \cup SwapPcs

LEMMA CardFields ==
  ASSUME card \in Card
  PROVE  /\ card.index \in Indexes /\ card.rows \in SUBSET Rows /\ card.tmp \in Tmps
         /\ card.tmpRows \in SUBSET Rows /\ card.csv \in [Ids -> Samples]
         /\ card.answers \in BOOLEAN
BY Zenon DEF Card, Indexes, Tmps

LEMMA StoreFields ==
  ASSUME store \in Store
  PROVE  /\ store.available \in BOOLEAN /\ store.index \in SUBSET Rows
         /\ store.nextId \in 1..MaxId + 1 /\ store.busy \in BOOLEAN
BY Zenon DEF Store

LEMMA WriterFields ==
  ASSUME writer \in Writer
  PROVE  /\ writer.pc \in Pcs /\ writer.id \in Ids \cup {0}
         /\ writer.shot \in Shots \cup {NoShot} /\ writer.snap \in SUBSET Rows
BY Zenon DEF Writer, Pcs

LEMMA UiFields ==
  ASSUME ui \in Ui
  PROVE  /\ ui.pc \in {"off", "idle", "sending"} /\ ui.id \in Ids \cup {0}
         /\ ui.shot \in Shots \cup {NoShot}
BY Zenon DEF Ui

LEMMA HistoryFields ==
  ASSUME history \in History
  PROVE  /\ history.made \in 0..MaxShots /\ history.kept \in SUBSET Rows
         /\ history.doomed \in SUBSET Rows /\ history.gone \in SUBSET Rows
         /\ history.lost \in SUBSET Rows /\ history.drift \in BOOLEAN
BY Zenon DEF History

LEMMA JobFields ==
  ASSUME NEW j \in Job
  PROVE  j.kind \in Kinds /\ j.id \in Ids \cup {0} /\ j.shot \in Shots \cup {NoShot}
BY Zenon DEF Job

LEMMA Types ==
  ASSUME TypeOK
  PROVE  /\ card \in Card /\ store \in Store /\ queue \in Seq(Job) /\ Len(queue) <= Depth
         /\ writer \in Writer /\ ui \in Ui /\ history \in History /\ ops \in 0..MaxOps
BY DEF TypeOK

(* The steps of the parts.                                                 *)
LEMMA StoreSteps ==
  ASSUME NEW s \in Store, NEW b \in BOOLEAN, NEW x \in SUBSET Rows, NEW n \in 1..MaxId + 1
  PROVE  /\ [s EXCEPT !.busy = b] \in Store
         /\ [s EXCEPT !.busy = b].index = s.index /\ [s EXCEPT !.busy = b].nextId = s.nextId
         /\ [s EXCEPT !.busy = b].available = s.available
         /\ [s EXCEPT !.available = FALSE, !.busy = b] \in Store
         /\ [s EXCEPT !.available = FALSE, !.busy = b].index = s.index
         /\ [s EXCEPT !.available = FALSE, !.busy = b].nextId = s.nextId
         /\ [s EXCEPT !.available = FALSE, !.busy = b].available = FALSE
         /\ [s EXCEPT !.index = x] \in Store
         /\ [s EXCEPT !.index = x].index = x /\ [s EXCEPT !.index = x].nextId = s.nextId
         /\ [s EXCEPT !.index = x].available = s.available
         /\ [s EXCEPT !.index = x, !.nextId = n, !.busy = b] \in Store
         /\ [s EXCEPT !.index = x, !.nextId = n, !.busy = b].index = x
         /\ [s EXCEPT !.index = x, !.nextId = n, !.busy = b].nextId = n
         /\ [s EXCEPT !.index = x, !.nextId = n, !.busy = b].available = s.available
BY Zenon DEF Store

LEMMA WriterMoves ==
  ASSUME writer \in Writer, NEW pc \in Pcs, Goto(pc)
  PROVE  /\ writer' \in Writer /\ writer'.pc = pc /\ writer'.id = writer.id
         /\ writer'.shot = writer.shot /\ writer'.snap = writer.snap
BY Zenon DEF Writer, Pcs, Goto

LEMMA WriterRests ==
  ASSUME Rests
  PROVE  writer' \in Writer /\ writer'.pc = "idle"
<1>1. Boot \in Writer BY Bounds DEF Boot, Writer
<1>2. writer' = [Boot EXCEPT !.pc = "idle"] BY DEF Rests
<1> QED BY <1>1, <1>2, Zenon DEF Writer

LEMMA BootFacts == Boot \in Writer /\ Boot.pc = "mounting"
BY Bounds DEF Boot, Writer

LEMMA UiFacts ==
  /\ UiOff \in Ui /\ UiOff.pc = "off"
  /\ UiRests => ui' \in Ui /\ ui'.pc = "idle"
<1>1. UiOff \in Ui /\ UiOff.pc = "off" BY Bounds DEF UiOff, Ui
<1>2. ASSUME UiRests PROVE ui' \in Ui /\ ui'.pc = "idle"
  <2>1. ui' = [UiOff EXCEPT !.pc = "idle"] BY <1>2 DEF UiRests
  <2> QED BY <1>1, <2>1, Zenon DEF Ui
<1> QED BY <1>1, <1>2

LEMMA UnmountFacts ==
  ASSUME store \in Store, Unmount
  PROVE  /\ store' \in Store /\ store'.index = store.index /\ store'.nextId = store.nextId
         /\ store'.available = FALSE /\ writer' \in Writer /\ writer'.pc = "idle"
<1>1. store' = [store EXCEPT !.available = FALSE, !.busy = FALSE] /\ Rests BY DEF Unmount
<1>2. writer' \in Writer /\ writer'.pc = "idle" BY <1>1, WriterRests
<1> QED BY <1>1, <1>2, Zenon DEF Store

-----------------------------------------------------------------------------
(* The state, one name a part.                                             *)
Avail  == store.available
Listed == store.index
NextId == store.nextId
Pc     == writer.pc
Wid    == writer.id
Wshot  == writer.shot
Snap   == writer.snap
Sends  == ui.pc = "sending"
Uid    == ui.id
Ushot  == ui.shot
Index  == card.index
OnCard == card.rows
Csv    == card.csv
Tmp     == card.tmp
TmpRows == card.tmpRows
Answers == card.answers
Jobs   == Elems(queue)
Lost   == history.lost
Kept   == history.kept \ Lost
Drift  == history.drift

Unique(rows) == \A q, r \in rows : q.id = r.id => q = r
Below(rows, n) == \A r \in rows : r.id < n

(* What each of the writer's steps has behind it, and what it works on.    *)
ShapeWriter ==
  /\ Pc \in {"mounting", "creating"} => ~Avail
  /\ Pc \in SavePcs \cup SwapPcs \cup {"removing"} => Avail
  /\ Pc \in SavePcs => Wid \in Ids /\ Wshot \in Shots
  /\ Pc \in {"copied", "unlinked"} => Tmp = "whole" /\ TmpRows = Snap
  /\ Pc \in {"appended", "opened"} /\ Answers => InWork \in OnCard
ShapeCard ==
  /\ Index = Absent => OnCard = {}
  /\ Avail /\ Pc # "unlinked" => Index # Absent
  /\ Pc = "creating" => Index = "bare" /\ OnCard = {}
ShapeCalls ==
  /\ Sends => InHand \in Rows
  /\ \A j \in Jobs : /\ j.kind = "save" => j.shot \in Shots
                     /\ j.kind = "remove" => j.id \in Ids
Shape == ShapeWriter /\ ShapeCard /\ ShapeCalls

(* An id belongs to one row, wherever that row is listed, copied or in     *)
(* flight, and the next id is above them all.                              *)
IdRows ==
  /\ Unique(Listed) /\ Below(Listed, NextId)
  /\ Unique(OnCard)
  /\ Avail => Below(OnCard, NextId)
  /\ Pc \in SwapPcs => Unique(Snap) /\ Below(Snap, NextId)
IdWriter ==
  /\ Pc \in SavePcs => Wid < NextId
  /\ Pc = "inserted" => \A r \in OnCard : r.id # Wid
IdCalls ==
  /\ Sends => Uid < NextId /\ \A r \in Listed : r.id # Uid
  /\ \A j \in Jobs : j.kind = "remove" =>
       /\ j.id < NextId
       /\ \A r \in Listed : r.id # j.id
       /\ Sends => Uid # j.id
IdInv == ~Drift => IdRows /\ IdWriter /\ IdCalls

(* A kept row is whole, and none of the writer's or the UI's pending work  *)
(* touches it.                                                             *)
KeptOnCard(r) ==
  /\ Csv[r.id] = WholeFile(r.shot)
  /\ \/ Removing(r)
     \/ Index # Absent /\ r \in OnCard
     \/ Index = Absent /\ Tmp = "whole" /\ r \in TmpRows
KeptListed(r) == Avail => Removing(r) \/ r \in Listed
KeptWriter(r) ==
  /\ Pc \in SavePcs => r.id # Wid
  /\ Pc \in SwapPcs => Removing(r) \/ r \in Snap
  /\ Pc # "creating"
KeptCalls(r) ==
  /\ Sends /\ r.id = Uid => r = InHand
  /\ \A j \in Jobs : j.kind = "remove" => r.id # j.id
KeptApart(r) == KeptListed(r) /\ KeptWriter(r) /\ KeptCalls(r)
KeptInv == ~Drift => \A r \in Kept : KeptOnCard(r) /\ KeptApart(r)

Inv == TypeOK /\ Shape /\ IdInv /\ KeptInv

LEMMA CardSame ==
  ASSUME UNCHANGED card
  PROVE  /\ Index' = Index /\ OnCard' = OnCard /\ Tmp' = Tmp /\ TmpRows' = TmpRows
         /\ Csv' = Csv /\ Answers' = Answers
BY DEF Index, OnCard, Tmp, TmpRows, Csv, Answers

LEMMA StoreSame ==
  ASSUME UNCHANGED store
  PROVE  Avail' = Avail /\ Listed' = Listed /\ NextId' = NextId
BY DEF Avail, Listed, NextId

LEMMA WriterSame ==
  ASSUME UNCHANGED writer
  PROVE  Pc' = Pc /\ Wid' = Wid /\ Wshot' = Wshot /\ Snap' = Snap
BY DEF Pc, Wid, Wshot, Snap

LEMMA UiSame ==
  ASSUME UNCHANGED ui
  PROVE  Sends' = Sends /\ Uid' = Uid /\ Ushot' = Ushot
BY DEF Sends, Uid, Ushot

LEMMA HistorySame ==
  ASSUME UNCHANGED history
  PROVE  Kept' = Kept /\ Lost' = Lost /\ Drift' = Drift
BY DEF Kept, Lost, Drift

LEMMA QueueSame ==
  ASSUME UNCHANGED queue
  PROVE  Jobs' = Jobs
BY DEF Jobs, Elems

(* The names' types.                                                       *)
LEMMA Names ==
  ASSUME TypeOK
  PROVE  /\ Avail \in BOOLEAN /\ Listed \in SUBSET Rows /\ NextId \in 1..MaxId + 1
         /\ Pc \in Pcs /\ Wid \in Ids \cup {0} /\ Wshot \in Shots \cup {NoShot}
         /\ Snap \in SUBSET Rows
         /\ Sends \in BOOLEAN /\ Uid \in Ids \cup {0} /\ Ushot \in Shots \cup {NoShot}
         /\ Index \in Indexes /\ OnCard \in SUBSET Rows /\ Tmp \in Tmps
         /\ TmpRows \in SUBSET Rows /\ Csv \in [Ids -> Samples] /\ Answers \in BOOLEAN
         /\ Jobs \subseteq Job
         /\ Kept \in SUBSET Rows /\ Lost \in SUBSET Rows /\ Drift \in BOOLEAN
<1>1. /\ card \in Card /\ store \in Store /\ queue \in Seq(Job)
      /\ writer \in Writer /\ ui \in Ui /\ history \in History
  BY Types
<1>2. Jobs \subseteq Job BY <1>1, ElemsFacts DEF Jobs
<1> QED BY <1>1, <1>2, CardFields, StoreFields, WriterFields, UiFields, HistoryFields, Zenon
     DEF Avail, Listed, NextId, Pc, Wid, Wshot, Snap, Sends, Uid, Ushot, Index, OnCard,
         Tmp, TmpRows, Csv, Answers, Kept, Lost, Drift

LEMMA RowNames == InHand = RowOf(Uid, Ushot) /\ InWork = RowOf(Wid, Wshot)
BY DEF InHand, InWork, Uid, Ushot, Wid, Wshot

-----------------------------------------------------------------------------
(* A step that leaves the rows alone, in the list, on the card and in      *)
(* flight, and at most ends the writer's work, keeps the invariant.        *)
CalmCard ==
  /\ Index' = Index /\ OnCard' = OnCard /\ Tmp' = Tmp /\ TmpRows' = TmpRows
  /\ Csv' = Csv /\ (Answers' => Answers)
  /\ Kept' = Kept /\ Lost' = Lost /\ Drift' = Drift
CalmStore == Listed' = Listed /\ NextId' = NextId /\ (Avail' => Avail)
CalmWriter ==
  \/ UNCHANGED writer /\ Avail' = Avail
  \/ /\ Pc' \in {"idle", "mounting"}
     /\ Pc' = "mounting" => ~Avail'
     /\ Avail' => Pc # "unlinked"
CalmUi == UNCHANGED ui \/ (~Sends /\ ~Sends')
CalmQueue ==
  \A j \in Jobs' : \/ j \in Jobs
                   \/ j.kind # "remove" /\ (j.kind = "save" => j.shot \in Shots)
Calm == CalmCard /\ CalmStore /\ CalmWriter /\ CalmUi /\ CalmQueue

LEMMA CalmShape ==
  ASSUME Shape, Calm PROVE Shape'
<1>1. /\ Index' = Index /\ OnCard' = OnCard /\ Tmp' = Tmp /\ TmpRows' = TmpRows
      /\ (Answers' => Answers) /\ (Avail' => Avail)
  BY DEF Calm, CalmCard, CalmStore
<1>2. ShapeWriter' /\ ShapeCard'
  <2>1. CASE UNCHANGED writer /\ Avail' = Avail
    <3>1. Pc' = Pc /\ Wid' = Wid /\ Wshot' = Wshot /\ Snap' = Snap /\ InWork' = InWork
      BY <2>1, WriterSame DEF InWork
    <3> QED BY <1>1, <2>1, <3>1 DEF Shape, ShapeWriter, ShapeCard
  <2>2. CASE /\ Pc' \in {"idle", "mounting"}
             /\ Pc' = "mounting" => ~Avail'
             /\ Avail' => Pc # "unlinked"
    BY <1>1, <2>2 DEF Shape, ShapeWriter, ShapeCard, SavePcs, SwapPcs
  <2> QED BY <2>1, <2>2 DEF Calm, CalmWriter
<1>3. ShapeCalls'
  <2>1. Sends' => InHand' \in Rows
    <3>1. CASE UNCHANGED ui BY <3>1, UiSame DEF Shape, ShapeCalls, InHand
    <3> QED BY <3>1 DEF Calm, CalmUi
  <2> QED BY <2>1 DEF Shape, ShapeCalls, Calm, CalmQueue
<1> QED BY <1>2, <1>3 DEF Shape

LEMMA CalmId ==
  ASSUME IdInv, Calm PROVE IdInv'
<1>1. /\ OnCard' = OnCard /\ Drift' = Drift /\ Listed' = Listed /\ NextId' = NextId
      /\ (Avail' => Avail)
  BY DEF Calm, CalmCard, CalmStore
<1> SUFFICES ASSUME ~Drift PROVE IdRows' /\ IdWriter' /\ IdCalls'
  BY <1>1 DEF IdInv
<1>2. IdRows /\ IdWriter /\ IdCalls BY DEF IdInv
<1>3. IdRows' /\ IdWriter'
  <2>1. CASE UNCHANGED writer
    <3>1. Pc' = Pc /\ Wid' = Wid /\ Snap' = Snap BY <2>1, WriterSame
    <3> QED BY <1>1, <1>2, <3>1 DEF IdRows, IdWriter, Unique, Below
  <2>2. CASE Pc' \in {"idle", "mounting"}
    BY <1>1, <1>2, <2>2 DEF IdRows, IdWriter, Unique, Below, SavePcs, SwapPcs
  <2> QED BY <2>1, <2>2 DEF Calm, CalmWriter
<1>4. Sends' => Sends /\ Uid' = Uid BY UiSame DEF Calm, CalmUi
<1>5. \A j \in Jobs' : j.kind = "remove" => j \in Jobs BY DEF Calm, CalmQueue
<1>6. IdCalls' BY <1>1, <1>2, <1>4, <1>5 DEF IdCalls
<1> QED BY <1>3, <1>6

LEMMA CalmKept ==
  ASSUME KeptInv, Calm PROVE KeptInv'
<1>1. /\ Index' = Index /\ OnCard' = OnCard /\ Tmp' = Tmp /\ TmpRows' = TmpRows
      /\ Csv' = Csv /\ Kept' = Kept /\ Lost' = Lost /\ Drift' = Drift /\ Listed' = Listed
      /\ (Avail' => Avail)
  BY DEF Calm, CalmCard, CalmStore
<1> SUFFICES ASSUME ~Drift, NEW r \in Kept
             PROVE  KeptOnCard(r)' /\ KeptApart(r)'
  BY <1>1 DEF KeptInv
<1>2. KeptOnCard(r) /\ KeptApart(r) BY DEF KeptInv
<1>3. /\ Removing(r)' = Removing(r)
      /\ Sends' /\ r.id = Uid' => r = InHand'
  <2>1. CASE UNCHANGED ui
    <3>1. Sends' = Sends /\ Uid' = Uid /\ InHand' = InHand BY <2>1, UiSame DEF InHand
    <3>2. Removing(r)' = Removing(r) BY <2>1 DEF Removing, InHand
    <3> QED BY <1>2, <3>1, <3>2 DEF KeptApart, KeptListed, KeptWriter, KeptCalls
  <2>2. CASE ~Sends /\ ~Sends' BY <2>2 DEF Removing, Sends
  <2> QED BY <2>1, <2>2 DEF Calm, CalmUi
<1>4. KeptOnCard(r)' BY <1>1, <1>2, <1>3 DEF KeptOnCard
<1>5. /\ Pc' \in SavePcs => r.id # Wid'
      /\ Pc' \in SwapPcs => Removing(r)' \/ r \in Snap'
      /\ Pc' # "creating"
  <2>1. CASE UNCHANGED writer BY <1>2, <1>3, <2>1, WriterSame
    DEF KeptApart, KeptListed, KeptWriter, KeptCalls
  <2>2. CASE Pc' \in {"idle", "mounting"} BY <2>2 DEF SavePcs, SwapPcs
  <2> QED BY <2>1, <2>2 DEF Calm, CalmWriter
<1>6. \A j \in Jobs' : j.kind = "remove" => j \in Jobs BY DEF Calm, CalmQueue
<1>7. KeptApart(r)' BY <1>1, <1>2, <1>3, <1>5, <1>6 DEF KeptApart, KeptListed, KeptWriter, KeptCalls
<1> QED BY <1>4, <1>7

LEMMA CalmStep ==
  ASSUME Inv, TypeOK', Calm PROVE Inv'
BY CalmShape, CalmId, CalmKept DEF Inv

-----------------------------------------------------------------------------
(* The calm actions.                                                       *)

LEMMA CalmSame ==
  /\ UNCHANGED <<card, history>> => CalmCard
  /\ UNCHANGED store => CalmStore
  /\ UNCHANGED <<store, writer>> => CalmWriter
  /\ UNCHANGED ui => CalmUi
  /\ UNCHANGED queue => CalmQueue
<1>1. UNCHANGED <<card, history>> => CalmCard BY CardSame, HistorySame DEF CalmCard
<1>2. UNCHANGED store => CalmStore BY StoreSame DEF CalmStore
<1>3. UNCHANGED <<store, writer>> => CalmWriter BY StoreSame DEF CalmWriter
<1>4. UNCHANGED queue => CalmQueue BY QueueSame DEF CalmQueue
<1> QED BY <1>1, <1>2, <1>3, <1>4 DEF CalmUi

LEMMA CalmTakes ==
  ASSUME TypeOK, NEW k, Takes(k)
  PROVE  queue' \in Seq(Job) /\ Len(queue') <= Depth /\ CalmQueue /\ Pc = "idle"
<1>1. /\ queue' \in Seq(Job) /\ Len(queue') <= Depth
      /\ Elems(queue') \subseteq Elems(queue) /\ writer.pc = "idle"
  BY Types, TakesFacts
<1> QED BY <1>1 DEF CalmQueue, Jobs, Pc

LEMMA CalmSend ==
  ASSUME TypeOK, Fits, NEW k \in Kinds, NEW i \in Ids \cup {0}, NEW s \in Shots \cup {NoShot},
         Send(k, i, s), k # "remove", k = "save" => s \in Shots
  PROVE  queue' \in Seq(Job) /\ Len(queue') <= Depth /\ CalmQueue
<1>1. /\ queue' \in Seq(Job) /\ Len(queue') <= Depth
      /\ Elems(queue') = Elems(queue) \cup {JobFor(k, i, s)}
      /\ JobFor(k, i, s).kind = k /\ JobFor(k, i, s).shot = s
  BY Types, SendFacts
<1> QED BY <1>1 DEF CalmQueue, Jobs

LEMMA CalmBusy ==
  ASSUME TypeOK, NEW b \in BOOLEAN, store' = [store EXCEPT !.busy = b]
  PROVE  store' \in Store /\ CalmStore /\ Avail' = Avail
<1>1. /\ store' \in Store /\ store'.index = store.index /\ store'.nextId = store.nextId
      /\ store'.available = store.available
  BY Types, StoreFields, Zenon DEF Store
<1> QED BY <1>1 DEF CalmStore, Avail, Listed, NextId

LEMMA CalmUnmount ==
  ASSUME TypeOK, Unmount
  PROVE  store' \in Store /\ writer' \in Writer /\ CalmStore /\ CalmWriter
<1>1. /\ store' \in Store /\ store'.index = store.index /\ store'.nextId = store.nextId
      /\ store'.available = FALSE /\ writer' \in Writer /\ writer'.pc = "idle"
  BY Types, UnmountFacts
<1> QED BY <1>1 DEF CalmStore, CalmWriter, Avail, Listed, NextId, Pc

LEMMA Disturbed ==
  ASSUME TypeOK, Disturbs PROVE ops' \in 0..MaxOps
BY Types, Bounds, SMT DEF Disturbs

LEMMA SaveKeeps == ASSUME Inv, Save PROVE Inv'
<1>1. TypeOK BY DEF Inv
<1>2. /\ store.available /\ history.made < MaxShots
      /\ history' = [history EXCEPT !.made = @ + 1]
      /\ IF Fits THEN Send("save", 0, history.made + 1) ELSE UNCHANGED queue
      /\ UNCHANGED <<card, store, writer, ui, ops>>
  BY DEF Save
<1>3. history.made + 1 \in 0..MaxShots /\ history.made + 1 \in Shots
  BY <1>1, <1>2, Types, HistoryFields, Bounds, SMT DEF Shots
<1>4. /\ history' \in History /\ history'.kept = history.kept
      /\ history'.lost = history.lost /\ history'.drift = history.drift
  <2> DEFINE m == history.made + 1
  <2>1. m \in 0..MaxShots BY <1>3
  <2>2. history' = [history EXCEPT !.made = m] BY <1>2
  <2> HIDE DEF m
  <2> QED BY <1>1, <2>1, <2>2, Types, Zenon DEF History
<1>5. queue' \in Seq(Job) /\ Len(queue') <= Depth /\ CalmQueue
  <2>1. CASE Fits
    BY <1>1, <1>2, <1>3, <2>1, CalmSend, Bounds DEF Kinds
  <2>2. CASE ~Fits BY <1>1, <1>2, <2>2, CalmSame, Types
  <2> QED BY <2>1, <2>2
<1>6. TypeOK' BY <1>1, <1>2, <1>4, <1>5, Types DEF TypeOK
<1>7. CalmCard BY <1>2, <1>4, CardSame DEF CalmCard, Kept, Lost, Drift
<1> QED BY <1>2, <1>5, <1>6, <1>7, CalmSame, CalmStep DEF Calm

LEMMA SetStatsSinceKeeps == ASSUME Inv, SetStatsSince PROVE Inv'
<1>1. TypeOK BY DEF Inv
<1>2. /\ Disturbs /\ Fits /\ Send("marker", 0, NoShot)
      /\ UNCHANGED <<card, store, writer, ui, history>>
  BY DEF SetStatsSince
<1>3. queue' \in Seq(Job) /\ Len(queue') <= Depth /\ CalmQueue
  BY <1>1, <1>2, CalmSend DEF Kinds
<1>4. TypeOK' BY <1>1, <1>2, <1>3, Types, Disturbed DEF TypeOK
<1> QED BY <1>2, <1>3, <1>4, CalmSame, CalmStep DEF Calm

LEMMA RequestsKeep == ASSUME Inv, RequestMount \/ RequestUnmount PROVE Inv'
<1>1. TypeOK BY DEF Inv
<1>2. /\ Fits
      /\ Send("mount", 0, NoShot) \/ Send("unmount", 0, NoShot)
      /\ store' = [store EXCEPT !.busy = TRUE]
      /\ UNCHANGED ops \/ Disturbs
      /\ UNCHANGED <<card, writer, ui, history>>
  BY DEF RequestMount, RequestUnmount
<1>3. queue' \in Seq(Job) /\ Len(queue') <= Depth /\ CalmQueue
  <2>1. CASE Send("mount", 0, NoShot) BY <1>1, <1>2, <2>1, CalmSend DEF Kinds
  <2>2. CASE Send("unmount", 0, NoShot) BY <1>1, <1>2, <2>2, CalmSend DEF Kinds
  <2> QED BY <1>2, <2>1, <2>2
<1>4. store' \in Store /\ CalmStore /\ Avail' = Avail BY <1>1, <1>2, CalmBusy
<1>5. TypeOK' BY <1>1, <1>2, <1>3, <1>4, Types, Disturbed DEF TypeOK
<1> QED BY <1>2, <1>3, <1>4, <1>5, CalmSame, CalmStep DEF Calm, CalmWriter

LEMMA DropJobKeeps == ASSUME Inv, NEW k \in Kinds, DropJob(k) PROVE Inv'
<1>1. TypeOK BY DEF Inv
<1>2. Takes(k) /\ UNCHANGED <<card, store, writer, ui, history, ops>> BY DEF DropJob
<1>3. queue' \in Seq(Job) /\ Len(queue') <= Depth /\ CalmQueue BY <1>1, <1>2, CalmTakes
<1>4. TypeOK' BY <1>1, <1>2, <1>3, Types DEF TypeOK
<1> QED BY <1>2, <1>3, <1>4, CalmSame, CalmStep DEF Calm

LEMMA CardFullKeeps == ASSUME Inv, CardFull PROVE Inv'
<1>1. TypeOK BY DEF Inv
<1>2. /\ Takes("save") /\ store' = [store EXCEPT !.busy = FALSE]
      /\ UNCHANGED <<card, writer, ui, history, ops>>
  BY DEF CardFull, TakesMounted
<1>3. queue' \in Seq(Job) /\ Len(queue') <= Depth /\ CalmQueue BY <1>1, <1>2, CalmTakes
<1>4. store' \in Store /\ CalmStore /\ Avail' = Avail BY <1>1, <1>2, CalmBusy
<1>5. TypeOK' BY <1>1, <1>2, <1>3, <1>4, Types DEF TypeOK
<1> QED BY <1>2, <1>3, <1>4, <1>5, CalmSame, CalmStep DEF Calm, CalmWriter

LEMMA UnmountsKeep ==
  ASSUME Inv, Unmount, UNCHANGED queue \/ (\E k \in Kinds : Takes(k)),
         UNCHANGED <<card, ui, history, ops>>
  PROVE  Inv'
<1>1. TypeOK BY DEF Inv
<1>2. store' \in Store /\ writer' \in Writer /\ CalmStore /\ CalmWriter
  BY <1>1, CalmUnmount
<1>3. queue' \in Seq(Job) /\ Len(queue') <= Depth /\ CalmQueue
  BY <1>1, CalmTakes, CalmSame, Types
<1>4. TypeOK' BY <1>1, <1>2, <1>3, Types DEF TypeOK
<1> QED BY <1>2, <1>3, <1>4, CalmSame, CalmStep DEF Calm

LEMMA FailuresKeep ==
  ASSUME Inv, SaveFails \/ SwapFails \/ MarkerFails \/ UnmountRequested
  PROVE  Inv'
BY UnmountsKeep DEF SaveFails, SwapFails, MarkerFails, UnmountRequested, TakesMounted, Kinds

LEMMA MarkerWrittenKeeps == ASSUME Inv, MarkerWritten PROVE Inv'
<1>1. TypeOK BY DEF Inv
<1>2. Takes("marker") /\ UNCHANGED <<card, store, writer, ui, history, ops>>
  BY DEF MarkerWritten, TakesMounted
<1>3. queue' \in Seq(Job) /\ Len(queue') <= Depth /\ CalmQueue BY <1>1, <1>2, CalmTakes
<1>4. TypeOK' BY <1>1, <1>2, <1>3, Types DEF TypeOK
<1> QED BY <1>2, <1>3, <1>4, CalmSame, CalmStep DEF Calm

LEMMA ProbeKeeps == ASSUME Inv, Probe PROVE Inv'
<1>1. TypeOK BY DEF Inv
<1>2. CASE ~card.answers BY <1>2, UnmountsKeep DEF Probe
<1>3. CASE card.answers
  <2>1. /\ store' = [store EXCEPT !.busy = FALSE]
        /\ UNCHANGED <<card, queue, writer, ui, history, ops>>
    BY <1>3 DEF Probe
  <2>2. store' \in Store /\ CalmStore /\ Avail' = Avail BY <1>1, <2>1, CalmBusy
  <2>3. TypeOK' BY <1>1, <2>1, <2>2, Types DEF TypeOK
  <2> QED BY <2>1, <2>2, <2>3, CalmSame, CalmStep DEF Calm, CalmWriter
<1> QED BY <1>2, <1>3

LEMMA MountBeginsKeeps == ASSUME Inv, MountBegins PROVE Inv'
<1>1. TypeOK BY DEF Inv
<1>2. Takes("mount") /\ UNCHANGED <<card, ui, history, ops>> BY DEF MountBegins
<1>3. /\ queue' \in Seq(Job) /\ Len(queue') <= Depth /\ CalmQueue /\ Pc = "idle"
  BY <1>1, <1>2, CalmTakes
<1>4. store' \in Store /\ writer' \in Writer /\ CalmStore /\ CalmWriter
  <2>1. CASE store.available
    <3>1. store' = [store EXCEPT !.busy = FALSE] /\ UNCHANGED writer
      BY <2>1 DEF MountBegins
    <3> QED BY <1>1, <3>1, CalmBusy, Types DEF CalmWriter
  <2>2. CASE ~store.available
    <3>1. Goto("mounting") /\ UNCHANGED store BY <2>2 DEF MountBegins
    <3>2. writer' \in Writer /\ writer'.pc = "mounting"
      BY <1>1, <3>1, Types, WriterMoves DEF Pcs
    <3> QED BY <1>1, <1>3, <2>2, <3>1, <3>2, CalmSame, Types DEF CalmWriter, Pc, Avail
  <2> QED BY <2>1, <2>2
<1>5. TypeOK' BY <1>1, <1>2, <1>3, <1>4, Types DEF TypeOK
<1> QED BY <1>2, <1>3, <1>4, <1>5, CalmSame, CalmStep DEF Calm

LEMMA UiOnFacts ==
  ASSUME TypeOK, UiOn
  PROVE  ui' \in Ui /\ CalmUi /\ (Sends' => Sends /\ UNCHANGED ui)
<1>1. CASE ui.pc = "off"
  <2>1. ui' \in Ui /\ ui'.pc = "idle" BY <1>1, UiFacts DEF UiOn
  <2> QED BY <1>1, <2>1 DEF CalmUi, Sends
<1>2. CASE ui.pc # "off"
  <2>1. UNCHANGED ui BY <1>2 DEF UiOn
  <2> QED BY <2>1, Types, UiSame DEF CalmUi
<1> QED BY <1>1, <1>2

LEMMA MountFailsKeeps == ASSUME Inv, MountFails PROVE Inv'
<1>1. TypeOK BY DEF Inv
<1>2. /\ Pc = "mounting" /\ store' = [store EXCEPT !.busy = FALSE] /\ Rests /\ UiOn
      /\ UNCHANGED <<card, queue, history, ops>>
  BY DEF MountFails, Pc
<1>3. store' \in Store /\ CalmStore /\ Avail' = Avail BY <1>1, <1>2, CalmBusy
<1>4. writer' \in Writer /\ writer'.pc = "idle" BY <1>2, WriterRests
<1>5. ui' \in Ui /\ CalmUi BY <1>1, <1>2, UiOnFacts
<1>6. TypeOK' BY <1>1, <1>2, <1>3, <1>4, <1>5, Types DEF TypeOK
<1>7. CalmWriter BY <1>2, <1>4 DEF CalmWriter, Pc
<1> QED BY <1>2, <1>3, <1>5, <1>6, <1>7, CalmSame, CalmStep DEF Calm

LEMMA CardPulledKeeps == ASSUME Inv, CardPulled PROVE Inv'
<1>1. TypeOK BY DEF Inv
<1>2. /\ Disturbs /\ card' = [card EXCEPT !.answers = FALSE]
      /\ UNCHANGED <<store, queue, writer, ui, history>>
  BY DEF CardPulled
<1>3. /\ card' \in Card /\ card'.index = card.index /\ card'.rows = card.rows
      /\ card'.tmp = card.tmp /\ card'.tmpRows = card.tmpRows /\ card'.csv = card.csv
      /\ card'.answers = FALSE
  BY <1>1, <1>2, Types, Zenon DEF Card
<1>4. TypeOK' BY <1>1, <1>2, <1>3, Types, Disturbed DEF TypeOK
<1>5. CalmCard
  BY <1>2, <1>3, HistorySame DEF CalmCard, Index, OnCard, Tmp, TmpRows, Csv, Answers
<1> QED BY <1>2, <1>4, <1>5, CalmSame, CalmStep DEF Calm

-----------------------------------------------------------------------------
(* The writer's steps on the card, and on its own locals.                  *)

LEMMA RowsInHand ==
  /\ UNCHANGED ui => InHand' = InHand /\ \A r : Removing(r)' = Removing(r)
  /\ UNCHANGED writer => InWork' = InWork
BY DEF InHand, Removing, InWork

LEMMA CallsSame ==
  ASSUME UNCHANGED <<queue, ui>>
  PROVE  /\ Jobs' = Jobs /\ Sends' = Sends /\ Uid' = Uid
         /\ InHand' = InHand /\ \A r : Removing(r)' = Removing(r)
         /\ ShapeCalls => ShapeCalls'
         /\ IdCalls /\ Listed' = Listed /\ NextId' = NextId => IdCalls'
         /\ \A r : KeptCalls(r) => KeptCalls(r)'
<1>1. Jobs' = Jobs BY QueueSame
<1>2. Sends' = Sends /\ Uid' = Uid BY UiSame
<1>3. InHand' = InHand /\ \A r : Removing(r)' = Removing(r) BY RowsInHand
<1>4. ShapeCalls => ShapeCalls' BY <1>1, <1>2, <1>3 DEF ShapeCalls
<1>5. IdCalls /\ Listed' = Listed /\ NextId' = NextId => IdCalls' BY <1>1, <1>2 DEF IdCalls
<1>6. \A r : KeptCalls(r) => KeptCalls(r)' BY <1>1, <1>2, <1>3 DEF KeptCalls
<1> QED BY <1>1, <1>2, <1>3, <1>4, <1>5, <1>6

LEMMA WriterOnly ==
  ASSUME Inv, TypeOK', UNCHANGED <<store, queue, ui, history>>,
         ShapeWriter', ShapeCard',
         ~Drift => IdRows' /\ IdWriter',
         ~Drift => \A r \in Kept : KeptOnCard(r)' /\ KeptWriter(r)'
  PROVE  Inv'
<1>1. /\ Avail' = Avail /\ Listed' = Listed /\ NextId' = NextId
      /\ Kept' = Kept /\ Lost' = Lost /\ Drift' = Drift
  BY StoreSame, HistorySame
<1>2. /\ \A r : Removing(r)' = Removing(r)
      /\ ShapeCalls => ShapeCalls'
      /\ IdCalls => IdCalls'
      /\ \A r : KeptCalls(r) => KeptCalls(r)'
  BY <1>1, CallsSame
<1>3. Shape' BY <1>2 DEF Inv, Shape
<1>4. IdInv' BY <1>1, <1>2 DEF Inv, IdInv
<1>5. ASSUME ~Drift, NEW r \in Kept PROVE KeptListed(r)' /\ KeptCalls(r)'
  <2>1. KeptListed(r) /\ KeptCalls(r) BY <1>5 DEF Inv, KeptInv, KeptApart
  <2> QED BY <1>1, <1>2, <2>1 DEF KeptListed
<1>6. KeptInv' BY <1>1, <1>5 DEF KeptInv, KeptApart
<1> QED BY <1>3, <1>4, <1>6 DEF Inv

(* What holds before a step, and of each kept row.                         *)
LEMMA Before ==
  ASSUME Inv
  PROVE  /\ TypeOK /\ ShapeWriter /\ ShapeCard /\ ShapeCalls
         /\ ~Drift => IdRows /\ IdWriter /\ IdCalls
         /\ ~Drift => \A r \in Kept : /\ KeptOnCard(r) /\ KeptListed(r)
                                               /\ KeptWriter(r) /\ KeptCalls(r)
BY DEF Inv, Shape, IdInv, KeptInv, KeptApart

(* The program counter moves, the other locals stay.                       *)
LEMMA Moves ==
  ASSUME TypeOK, NEW pc \in Pcs, Goto(pc)
  PROVE  writer' \in Writer /\ Pc' = pc /\ Wid' = Wid /\ Wshot' = Wshot /\ Snap' = Snap
         /\ InWork' = InWork
<1>1. /\ writer' \in Writer /\ writer'.pc = pc /\ writer'.id = writer.id
      /\ writer'.shot = writer.shot /\ writer'.snap = writer.snap
  BY Types, WriterMoves
<1> QED BY <1>1 DEF Pc, Wid, Wshot, Snap, InWork

LEMMA InWorkTyped ==
  ASSUME Inv, Pc \in SavePcs
  PROVE  /\ InWork \in Rows /\ InWork.id = Wid /\ InWork.shot = Wshot
         /\ Wid \in Ids /\ Wshot \in Shots
<1>1. Wid \in Ids /\ Wshot \in Shots BY Before DEF ShapeWriter
<1> QED BY <1>1, RowsTyped, RowNames

LEMMA RowAppendedKeeps == ASSUME Inv, RowAppended PROVE Inv'
<1>1. /\ TypeOK /\ Pc = "inserted" /\ Goto("appended")
      /\ UNCHANGED <<store, queue, ui, history, ops>>
      /\ card' = IF card.answers
                 THEN [card EXCEPT !.rows = @ \cup {InWork},
                                   !.index = IF @ = Absent THEN "bare" ELSE @]
                 ELSE card
  BY Before DEF RowAppended, Pc
<1>2. /\ writer' \in Writer /\ Pc' = "appended" /\ Wid' = Wid /\ Wshot' = Wshot
      /\ Snap' = Snap /\ InWork' = InWork
  BY <1>1, Moves DEF Pcs, SavePcs
<1>3. /\ InWork \in Rows /\ InWork.id = Wid /\ InWork.shot = Wshot
      /\ Wid \in Ids /\ Wshot \in Shots
  BY <1>1, InWorkTyped DEF SavePcs
<1>4. Avail /\ Index # Absent BY <1>1, Before DEF ShapeWriter, ShapeCard, SavePcs
<1>5. /\ card' \in Card /\ Index' = Index /\ Tmp' = Tmp /\ TmpRows' = TmpRows /\ Csv' = Csv
      /\ Answers' = Answers /\ OnCard' = IF Answers THEN OnCard \cup {InWork} ELSE OnCard
  <2>1. CASE card.answers
    <3> DEFINE rows == card.rows \cup {InWork}
    <3>1. card' = [card EXCEPT !.rows = rows, !.index = card.index]
      BY <1>1, <1>4, <2>1 DEF Index
    <3>2. rows \in SUBSET Rows /\ card \in Card /\ card.index \in Indexes
      BY <1>1, <1>3, Types, CardFields
    <3>3. /\ card' \in Card /\ card'.index = card.index /\ card'.rows = rows
          /\ card'.tmp = card.tmp /\ card'.tmpRows = card.tmpRows /\ card'.csv = card.csv
          /\ card'.answers = card.answers
      <4> HIDE DEF rows
      <4> QED BY <3>1, <3>2, Zenon DEF Card, Indexes
    <3> QED BY <2>1, <3>3 DEF Index, OnCard, Tmp, TmpRows, Csv, Answers
  <2>2. CASE ~card.answers
    <3>1. UNCHANGED card BY <1>1, <2>2
    <3> QED BY <1>1, <2>2, <3>1, CardSame, Types DEF Answers
  <2> QED BY <2>1, <2>2
<1>6. TypeOK' BY <1>1, <1>2, <1>5, Types DEF TypeOK
<1>7. Avail' = Avail /\ Listed' = Listed /\ NextId' = NextId BY <1>1, StoreSame
<1>8. ShapeWriter' /\ ShapeCard'
  BY <1>2, <1>3, <1>4, <1>5, <1>7, Before DEF ShapeWriter, ShapeCard, SavePcs, SwapPcs
<1>9. ASSUME ~Drift PROVE IdRows' /\ IdWriter'
  <2>1. IdRows /\ Wid < NextId /\ \A r \in OnCard : r.id # Wid
    BY <1>1, <1>9, Before DEF IdWriter, SavePcs
  <2>2. Unique(OnCard)' /\ Below(OnCard, NextId)'
    BY <1>3, <1>4, <1>5, <1>7, <2>1 DEF IdRows, Unique, Below
  <2> QED BY <1>2, <1>7, <2>1, <2>2 DEF IdRows, IdWriter, Unique, Below, SavePcs, SwapPcs
<1>10. ASSUME ~Drift, NEW r \in Kept PROVE KeptOnCard(r)' /\ KeptWriter(r)'
  <2>1. KeptOnCard(r) /\ KeptWriter(r) BY <1>10, Before
  <2>2. Removing(r)' = Removing(r) BY <1>1, RowsInHand
  <2>3. KeptOnCard(r)' BY <1>5, <2>1, <2>2 DEF KeptOnCard
  <2> QED BY <1>1, <1>2, <2>1, <2>3 DEF KeptWriter, SavePcs, SwapPcs
<1> QED BY <1>1, <1>6, <1>8, <1>9, <1>10, WriterOnly

LEMMA SamplesOpenedKeeps == ASSUME Inv, SamplesOpened PROVE Inv'
<1>1. /\ TypeOK /\ Pc = "appended" /\ Goto("opened")
      /\ UNCHANGED <<store, queue, ui, history, ops>>
      /\ card' = IF card.answers THEN [card EXCEPT !.csv[writer.id] = Truncated] ELSE card
  BY Before DEF SamplesOpened, Pc
<1>2. /\ writer' \in Writer /\ Pc' = "opened" /\ Wid' = Wid /\ Wshot' = Wshot
      /\ Snap' = Snap /\ InWork' = InWork
  BY <1>1, Moves DEF Pcs, SavePcs
<1>3. Wid \in Ids /\ Wshot \in Shots /\ Avail
  BY <1>1, InWorkTyped, Before DEF SavePcs, ShapeWriter
<1>4. /\ card' \in Card /\ Index' = Index /\ Tmp' = Tmp /\ TmpRows' = TmpRows
      /\ OnCard' = OnCard /\ Answers' = Answers
      /\ \A i \in Ids : i # Wid => Csv'[i] = Csv[i]
  <2>1. CASE card.answers
    <3> DEFINE csv == [card.csv EXCEPT ![writer.id] = Truncated]
    <3>1. card' = [card EXCEPT !.csv = csv] BY <1>1, <2>1
    <3>2. Truncated \in Samples BY DEF Truncated, Samples
    <3>3. csv \in [Ids -> Samples] /\ \A i \in Ids : i # Wid => csv[i] = card.csv[i]
      BY <1>1, <1>3, <3>2, Types, CardFields DEF Wid
    <3>4. /\ card' \in Card /\ card'.index = card.index /\ card'.rows = card.rows
          /\ card'.tmp = card.tmp /\ card'.tmpRows = card.tmpRows /\ card'.csv = csv
          /\ card'.answers = card.answers
      <4>1. card \in Card BY <1>1, Types
      <4> HIDE DEF csv
      <4> QED BY <3>1, <3>3, <4>1, Zenon DEF Card
    <3> HIDE DEF csv
    <3> QED BY <3>3, <3>4 DEF Index, OnCard, Tmp, TmpRows, Csv, Answers
  <2>2. CASE ~card.answers
    <3>1. UNCHANGED card BY <1>1, <2>2
    <3> QED BY <1>1, <3>1, CardSame, Types
  <2> QED BY <2>1, <2>2
<1>5. TypeOK' BY <1>1, <1>2, <1>4, Types DEF TypeOK
<1>6. Avail' = Avail /\ Listed' = Listed /\ NextId' = NextId BY <1>1, StoreSame
<1>7. ShapeWriter' /\ ShapeCard'
  BY <1>1, <1>2, <1>3, <1>4, <1>6, Before DEF ShapeWriter, ShapeCard, SavePcs, SwapPcs
<1>8. ASSUME ~Drift PROVE IdRows' /\ IdWriter'
  BY <1>1, <1>2, <1>4, <1>6, <1>8, Before
     DEF IdRows, IdWriter, Unique, Below, SavePcs, SwapPcs
<1>9. ASSUME ~Drift, NEW r \in Kept PROVE KeptOnCard(r)' /\ KeptWriter(r)'
  <2>1. KeptOnCard(r) /\ KeptWriter(r) BY <1>9, Before
  <2>2. Removing(r)' = Removing(r) BY <1>1, RowsInHand
  <2>3. r.id # Wid BY <1>1, <2>1 DEF KeptWriter, SavePcs
  <2>4. r.id \in Ids BY <1>1, Names, RowsTyped
  <2>5. KeptOnCard(r)' BY <1>4, <2>1, <2>2, <2>3, <2>4 DEF KeptOnCard
  <2> QED BY <1>1, <1>2, <2>1, <2>5 DEF KeptWriter, SavePcs, SwapPcs
<1> QED BY <1>1, <1>5, <1>7, <1>8, <1>9, WriterOnly

LEMMA IndexCopiedKeeps == ASSUME Inv, IndexCopied PROVE Inv'
<1>1. /\ TypeOK /\ Pc = "removing"
      /\ writer' = [writer EXCEPT !.pc = "snapped", !.snap = store.index]
      /\ UNCHANGED <<card, store, queue, ui, history, ops>>
  BY Before DEF IndexCopied, Pc
<1>2. writer' \in Writer /\ Pc' = "snapped" /\ Wid' = Wid /\ Snap' = Listed
  <2>1. "snapped" \in Pcs BY DEF Pcs, SwapPcs
  <2>2. writer \in Writer /\ store.index \in SUBSET Rows BY <1>1, Types, StoreFields
  <2>3. /\ writer' \in Writer /\ writer'.pc = "snapped" /\ writer'.id = writer.id
        /\ writer'.snap = store.index
    BY <1>1, <2>1, <2>2, Zenon DEF Writer, Pcs
  <2> QED BY <2>3 DEF Pc, Wid, Snap, Listed
<1>3. TypeOK' BY <1>1, <1>2, Types DEF TypeOK
<1>4. /\ Avail' = Avail /\ Listed' = Listed /\ NextId' = NextId
      /\ Index' = Index /\ OnCard' = OnCard /\ Tmp' = Tmp /\ TmpRows' = TmpRows
      /\ Csv' = Csv
  BY <1>1, StoreSame, CardSame
<1>5. Avail BY <1>1, Before DEF ShapeWriter
<1>6. ShapeWriter' /\ ShapeCard'
  BY <1>1, <1>2, <1>4, <1>5, Before DEF ShapeWriter, ShapeCard, SavePcs, SwapPcs
<1>7. ASSUME ~Drift PROVE IdRows' /\ IdWriter'
  BY <1>1, <1>2, <1>4, <1>7, Before
     DEF IdRows, IdWriter, Unique, Below, SavePcs, SwapPcs
<1>8. ASSUME ~Drift, NEW r \in Kept PROVE KeptOnCard(r)' /\ KeptWriter(r)'
  <2>1. KeptOnCard(r) /\ KeptListed(r) BY <1>8, Before
  <2>2. Removing(r)' = Removing(r) BY <1>1, RowsInHand
  <2>3. KeptOnCard(r)' BY <1>4, <2>1, <2>2 DEF KeptOnCard
  <2> QED BY <1>2, <1>5, <2>1, <2>2, <2>3 DEF KeptListed, KeptWriter, SavePcs, SwapPcs
<1> QED BY <1>1, <1>3, <1>6, <1>7, <1>8, WriterOnly

(* A step of the swap that leaves the index file.                          *)
LEMMA SwapMoves ==
  ASSUME Inv, NEW pc \in SwapPcs, pc # "unlinked", Pc \in SwapPcs, Pc # "unlinked",
         Goto(pc), card' \in Card, UNCHANGED <<store, queue, ui, history, ops>>,
         Index' = Index, OnCard' = OnCard, Csv' = Csv,
         pc = "copied" => Tmp' = "whole" /\ TmpRows' = Snap
  PROVE  Inv'
<1>1. writer' \in Writer /\ Pc' = pc /\ Wid' = Wid /\ Snap' = Snap
  BY Before, Moves DEF Pcs
<1>2. TypeOK' BY <1>1, Before, Types DEF TypeOK
<1>3. Avail' = Avail /\ Listed' = Listed /\ NextId' = NextId BY StoreSame
<1>4. Avail /\ Index # Absent BY Before DEF ShapeWriter, ShapeCard
<1>5. ShapeWriter' /\ ShapeCard'
  BY <1>1, <1>3, <1>4, Before DEF ShapeWriter, ShapeCard, SavePcs, SwapPcs
<1>6. ASSUME ~Drift PROVE IdRows' /\ IdWriter'
  BY <1>1, <1>3, <1>6, Before DEF IdRows, IdWriter, Unique, Below, SavePcs, SwapPcs
<1>7. ASSUME ~Drift, NEW r \in Kept PROVE KeptOnCard(r)' /\ KeptWriter(r)'
  <2>1. KeptOnCard(r) /\ KeptWriter(r) BY <1>7, Before
  <2>2. Removing(r)' = Removing(r) BY RowsInHand
  <2>3. KeptOnCard(r)' BY <1>4, <2>1, <2>2 DEF KeptOnCard
  <2> QED BY <1>1, <2>1, <2>2, <2>3 DEF KeptWriter, SavePcs, SwapPcs
<1> QED BY <1>2, <1>5, <1>6, <1>7, WriterOnly

LEMMA TmpOpenedKeeps == ASSUME Inv, TmpOpened PROVE Inv'
<1>1. /\ Pc = "snapped" /\ Goto("copying")
      /\ card' = [card EXCEPT !.tmp = Torn, !.tmpRows = {}]
      /\ UNCHANGED <<store, queue, ui, history, ops>>
  BY DEF TmpOpened, Pc
<1>2. /\ card' \in Card /\ card'.index = card.index /\ card'.rows = card.rows
      /\ card'.csv = card.csv
  <2>1. card \in Card BY Before, Types
  <2> QED BY <1>1, <2>1, Zenon DEF Card
<1> QED BY <1>1, <1>2, SwapMoves DEF SwapPcs, Index, OnCard, Csv

LEMMA TmpClosedKeeps == ASSUME Inv, TmpClosed PROVE Inv'
<1>1. /\ Pc = "copying" /\ Goto("copied")
      /\ card' = [card EXCEPT !.tmp = "whole", !.tmpRows = writer.snap]
      /\ UNCHANGED <<store, queue, ui, history, ops>>
  BY DEF TmpClosed, Pc
<1>2. /\ card' \in Card /\ card'.index = card.index /\ card'.rows = card.rows
      /\ card'.csv = card.csv /\ card'.tmp = "whole" /\ card'.tmpRows = writer.snap
  <2>1. card \in Card /\ writer.snap \in SUBSET Rows BY Before, Types, WriterFields
  <2> QED BY <1>1, <2>1, Zenon DEF Card
<1> QED BY <1>1, <1>2, SwapMoves DEF SwapPcs, Index, OnCard, Csv, Tmp, TmpRows, Snap

LEMMA IndexUnlinkedKeeps == ASSUME Inv, IndexUnlinked PROVE Inv'
<1>1. /\ TypeOK /\ Pc = "copied" /\ Goto("unlinked")
      /\ card' = IF card.answers THEN [card EXCEPT !.index = Absent, !.rows = {}] ELSE card
      /\ UNCHANGED <<store, queue, ui, history, ops>>
  BY Before DEF IndexUnlinked, Pc
<1>2. writer' \in Writer /\ Pc' = "unlinked" /\ Wid' = Wid /\ Snap' = Snap
  BY <1>1, Moves DEF Pcs, SwapPcs
<1>3. /\ card' \in Card /\ Tmp' = Tmp /\ TmpRows' = TmpRows /\ Csv' = Csv
      /\ \/ Index' = Index /\ OnCard' = OnCard
         \/ Index' = Absent /\ OnCard' = {}
  <2>1. card \in Card BY <1>1, Types
  <2>2. CASE card.answers
    <3>1. /\ card' \in Card /\ card'.index = Absent /\ card'.rows = {}
          /\ card'.tmp = card.tmp /\ card'.tmpRows = card.tmpRows /\ card'.csv = card.csv
      <4>1. card' = [card EXCEPT !.index = Absent, !.rows = {}] BY <1>1, <2>2
      <4> QED BY <2>1, <4>1, Zenon DEF Card
    <3> QED BY <3>1 DEF Index, OnCard, Tmp, TmpRows, Csv
  <2>3. CASE ~card.answers
    <3>1. UNCHANGED card BY <1>1, <2>3
    <3> QED BY <2>1, <3>1, CardSame
  <2> QED BY <2>2, <2>3
<1>4. TypeOK' BY <1>1, <1>2, <1>3, Types DEF TypeOK
<1>5. Avail' = Avail /\ Listed' = Listed /\ NextId' = NextId BY <1>1, StoreSame
<1>6. Avail /\ Index # Absent /\ Tmp = "whole" /\ TmpRows = Snap
  BY <1>1, Before DEF ShapeWriter, ShapeCard, SwapPcs
<1>7. ShapeWriter' /\ ShapeCard'
  BY <1>2, <1>3, <1>5, <1>6 DEF ShapeWriter, ShapeCard, SavePcs, SwapPcs
<1>8. ASSUME ~Drift PROVE IdRows' /\ IdWriter'
  BY <1>1, <1>2, <1>3, <1>5, <1>6, <1>8, Before
     DEF IdRows, IdWriter, Unique, Below, SavePcs, SwapPcs
<1>9. ASSUME ~Drift, NEW r \in Kept PROVE KeptOnCard(r)' /\ KeptWriter(r)'
  <2>1. KeptOnCard(r) /\ KeptWriter(r) BY <1>9, Before
  <2>2. Removing(r)' = Removing(r) BY <1>1, RowsInHand
  <2>3. Removing(r) \/ r \in Snap BY <1>1, <2>1 DEF KeptWriter, SwapPcs
  <2>4. KeptOnCard(r)' BY <1>3, <1>6, <2>1, <2>2, <2>3 DEF KeptOnCard
  <2> QED BY <1>2, <2>2, <2>3, <2>4 DEF KeptWriter, SavePcs, SwapPcs
<1> QED BY <1>1, <1>4, <1>7, <1>8, <1>9, WriterOnly

-----------------------------------------------------------------------------
(* The UI's removal.                                                       *)

LEMMA RemoveKeeps == ASSUME Inv, NEW r \in Rows, Remove(r) PROVE Inv'
<1>1. /\ TypeOK /\ ~Sends /\ Avail /\ r \in Listed
      /\ store' = [store EXCEPT !.index = @ \ {r}]
      /\ ui' = [pc |-> "sending", id |-> r.id, shot |-> r.shot]
      /\ UNCHANGED <<card, queue, writer, history, ops>>
  BY Before DEF Remove, UiIdle, Sends, Avail, Listed
<1>2. store' \in Store /\ Avail' = Avail /\ NextId' = NextId /\ Listed' = Listed \ {r}
  <2> DEFINE x == store.index \ {r}
  <2>1. store \in Store /\ x \in SUBSET Rows BY <1>1, Types, StoreFields
  <2>2. store' = [store EXCEPT !.index = x] BY <1>1
  <2>3. /\ store' \in Store /\ store'.available = store.available
        /\ store'.nextId = store.nextId /\ store'.index = x
    <3> HIDE DEF x
    <3> QED BY <2>1, <2>2, Zenon DEF Store
  <2> QED BY <2>3 DEF Avail, NextId, Listed
<1>3. ui' \in Ui /\ Sends' /\ Uid' = r.id /\ InHand' = r
  BY <1>1, RowsTyped DEF Ui, Sends, Uid, InHand
<1>4. TypeOK' BY <1>1, <1>2, <1>3, Types DEF TypeOK
<1>5. /\ Index' = Index /\ OnCard' = OnCard /\ Tmp' = Tmp /\ TmpRows' = TmpRows
      /\ Csv' = Csv /\ Answers' = Answers /\ Kept' = Kept /\ Lost' = Lost /\ Drift' = Drift
      /\ Pc' = Pc /\ Wid' = Wid /\ Wshot' = Wshot /\ Snap' = Snap /\ InWork' = InWork
      /\ Jobs' = Jobs
  BY <1>1, CardSame, HistorySame, WriterSame, RowsInHand, QueueSame
<1>6. Shape'
  <2>1. ShapeWriter' /\ ShapeCard'
    BY <1>2, <1>5, Before DEF ShapeWriter, ShapeCard
  <2>2. ShapeCalls' BY <1>3, <1>5, Before DEF ShapeCalls
  <2> QED BY <2>1, <2>2 DEF Shape
<1>7. ASSUME ~Drift PROVE IdRows' /\ IdWriter' /\ IdCalls'
  <2>1. IdRows /\ IdWriter /\ IdCalls BY <1>7, Before
  <2>2. IdRows' /\ IdWriter'
    BY <1>2, <1>5, <2>1 DEF IdRows, IdWriter, Unique, Below
  <2>3. IdCalls' BY <1>1, <1>2, <1>3, <1>5, <2>1 DEF IdRows, IdCalls, Unique, Below
  <2> QED BY <2>2, <2>3
<1>8. ASSUME ~Drift, NEW q \in Kept PROVE KeptOnCard(q)' /\ KeptApart(q)'
  <2>1. KeptOnCard(q) /\ KeptListed(q) /\ KeptWriter(q) /\ KeptCalls(q) BY <1>8, Before
  <2>2. ~Removing(q) /\ q \in Listed BY <1>1, <2>1 DEF Removing, Sends, KeptListed
  <2>3. Removing(q)' <=> q = r BY <1>3 DEF Removing, Sends
  <2>4. KeptOnCard(q)' BY <1>5, <2>1, <2>2 DEF KeptOnCard
  <2>5. KeptListed(q)' BY <1>2, <2>2, <2>3 DEF KeptListed
  <2>6. KeptWriter(q)' BY <1>5, <2>1, <2>2 DEF KeptWriter
  <2>7. q.id = r.id => q = r BY <1>1, <1>8, <2>2, Before DEF IdRows, Unique
  <2>8. KeptCalls(q)' BY <1>3, <1>5, <2>1, <2>7 DEF KeptCalls
  <2> QED BY <2>4, <2>5, <2>6, <2>8 DEF KeptApart
<1> QED BY <1>4, <1>5, <1>6, <1>7, <1>8 DEF Inv, IdInv, KeptInv

LEMMA UiRestsFacts == ASSUME UiRests PROVE ui' \in Ui /\ ~Sends' /\ \A r : ~Removing(r)'
BY UiFacts DEF Sends, Removing

LEMMA RemoveSentKeeps == ASSUME Inv, RemoveSent PROVE Inv'
<1>1. /\ TypeOK /\ Sends /\ Fits /\ Send("remove", Uid, NoShot) /\ UiRests
      /\ history' = [history EXCEPT !.kept = @ \ {InHand}, !.doomed = @ \cup {InHand}]
      /\ UNCHANGED <<card, store, writer, ops>>
  BY Before DEF RemoveSent, Sends, Uid
<1>2. InHand \in Rows /\ InHand.id = Uid /\ Uid \in Ids
  <2>1. InHand \in Rows BY <1>1, Before DEF ShapeCalls
  <2>2. InHand.id = Uid BY DEF InHand, RowOf, Uid
  <2> QED BY <2>1, <2>2, RowsTyped
<1>3. /\ queue' \in Seq(Job) /\ Len(queue') <= Depth
      /\ \A j \in Jobs' : j \in Jobs \/ (j.kind = "remove" /\ j.id = Uid)
  <2>1. /\ queue' \in Seq(Job) /\ Len(queue') <= Depth
        /\ Elems(queue') = Elems(queue) \cup {JobFor("remove", Uid, NoShot)}
        /\ JobFor("remove", Uid, NoShot).kind = "remove"
        /\ JobFor("remove", Uid, NoShot).id = Uid
    BY <1>1, <1>2, Types, SendFacts DEF Kinds
  <2> QED BY <2>1 DEF Jobs
<1>4. /\ history' \in History /\ Kept' = Kept \ {InHand} /\ Lost' = Lost /\ Drift' = Drift
  <2> DEFINE k == history.kept \ {InHand}  d == history.doomed \cup {InHand}
  <2>1. history \in History /\ k \in SUBSET Rows /\ d \in SUBSET Rows
    BY <1>1, <1>2, Types, HistoryFields
  <2>2. history' = [history EXCEPT !.kept = k, !.doomed = d] BY <1>1
  <2>3. /\ history' \in History /\ history'.kept = k
        /\ history'.lost = history.lost /\ history'.drift = history.drift
    <3> HIDE DEF k, d
    <3> QED BY <2>1, <2>2, Zenon DEF History
  <2> QED BY <2>3 DEF Kept, Lost, Drift
<1>5. ui' \in Ui /\ ~Sends' BY <1>1, UiRestsFacts
<1>6. TypeOK' BY <1>1, <1>3, <1>4, <1>5, Types DEF TypeOK
<1>7. /\ Index' = Index /\ OnCard' = OnCard /\ Tmp' = Tmp /\ TmpRows' = TmpRows
      /\ Csv' = Csv /\ Answers' = Answers
      /\ Avail' = Avail /\ Listed' = Listed /\ NextId' = NextId
      /\ Pc' = Pc /\ Wid' = Wid /\ Wshot' = Wshot /\ Snap' = Snap /\ InWork' = InWork
  BY <1>1, CardSame, StoreSame, WriterSame, RowsInHand
<1>8. Shape'
  <2>1. ShapeWriter' /\ ShapeCard' BY <1>7, Before DEF ShapeWriter, ShapeCard
  <2>2. ShapeCalls' BY <1>2, <1>3, <1>5, Before DEF ShapeCalls
  <2> QED BY <2>1, <2>2 DEF Shape
<1>9. ASSUME ~Drift PROVE IdRows' /\ IdWriter' /\ IdCalls'
  <2>1. IdRows /\ IdWriter /\ IdCalls BY <1>9, Before
  <2>2. IdRows' /\ IdWriter' BY <1>7, <2>1 DEF IdRows, IdWriter, Unique, Below
  <2>3. IdCalls' BY <1>1, <1>3, <1>5, <1>7, <2>1 DEF IdCalls
  <2> QED BY <2>2, <2>3
<1>10. ASSUME ~Drift, NEW q \in Kept' PROVE KeptOnCard(q)' /\ KeptApart(q)'
  <2>1. q \in Kept /\ q # InHand BY <1>4, <1>10
  <2>2. KeptOnCard(q) /\ KeptListed(q) /\ KeptWriter(q) /\ KeptCalls(q)
    BY <1>10, <2>1, Before
  <2>3. ~Removing(q) BY <2>1 DEF Removing
  <2>4. q.id # Uid BY <1>1, <2>1, <2>2 DEF KeptCalls
  <2>5. KeptOnCard(q)' BY <1>7, <2>2, <2>3 DEF KeptOnCard
  <2>6. KeptListed(q)' /\ KeptWriter(q)' BY <1>7, <2>2, <2>3 DEF KeptListed, KeptWriter
  <2>7. KeptCalls(q)' BY <1>3, <1>5, <2>2, <2>4 DEF KeptCalls
  <2> QED BY <2>5, <2>6, <2>7 DEF KeptApart
<1> QED BY <1>4, <1>6, <1>8, <1>9, <1>10 DEF Inv, IdInv, KeptInv

LEMMA RemoveTimesOutKeeps == ASSUME Inv, RemoveTimesOut PROVE Inv'
<1>1. /\ TypeOK /\ Sends /\ UiRests
      /\ store' = [store EXCEPT !.index = @ \cup {InHand}]
      /\ history' = [history EXCEPT !.drift = @ \/ PutBackIsLate(InHand)]
      /\ UNCHANGED <<card, queue, writer, ops>>
  BY Before DEF RemoveTimesOut, Sends
<1>2. InHand \in Rows /\ InHand.id = Uid
  <2>1. InHand \in Rows BY <1>1, Before DEF ShapeCalls
  <2> QED BY <2>1 DEF InHand, RowOf, Uid
<1>3. store' \in Store /\ Avail' = Avail /\ NextId' = NextId /\ Listed' = Listed \cup {InHand}
  <2> DEFINE x == store.index \cup {InHand}
  <2>1. store \in Store /\ x \in SUBSET Rows BY <1>1, <1>2, Types, StoreFields
  <2>2. store' = [store EXCEPT !.index = x] BY <1>1
  <2>3. /\ store' \in Store /\ store'.available = store.available
        /\ store'.nextId = store.nextId /\ store'.index = x
    <3> HIDE DEF x
    <3> QED BY <2>1, <2>2, Zenon DEF Store
  <2> QED BY <2>3 DEF Avail, NextId, Listed
<1>4. /\ history' \in History /\ Kept' = Kept /\ Lost' = Lost
      /\ ~Drift' => ~Drift /\ ~PutBackIsLate(InHand)
  <2> DEFINE d == history.drift \/ PutBackIsLate(InHand)
  <2>1. history \in History /\ d \in BOOLEAN BY <1>1, Types
  <2>2. history' = [history EXCEPT !.drift = d] BY <1>1
  <2>3. /\ history' \in History /\ history'.kept = history.kept
        /\ history'.lost = history.lost /\ history'.drift = d
    <3> HIDE DEF d
    <3> QED BY <2>1, <2>2, Zenon DEF History
  <2> QED BY <2>3 DEF Kept, Lost, Drift
<1>5. ui' \in Ui /\ ~Sends' BY <1>1, UiRestsFacts
<1>6. TypeOK' BY <1>1, <1>3, <1>4, <1>5, Types DEF TypeOK
<1>7. /\ Index' = Index /\ OnCard' = OnCard /\ Tmp' = Tmp /\ TmpRows' = TmpRows
      /\ Csv' = Csv /\ Answers' = Answers /\ Jobs' = Jobs
      /\ Pc' = Pc /\ Wid' = Wid /\ Wshot' = Wshot /\ Snap' = Snap /\ InWork' = InWork
  BY <1>1, CardSame, WriterSame, RowsInHand, QueueSame
<1>8. Shape'
  <2>1. ShapeWriter' /\ ShapeCard' BY <1>3, <1>7, Before DEF ShapeWriter, ShapeCard
  <2>2. ShapeCalls' BY <1>5, <1>7, Before DEF ShapeCalls
  <2> QED BY <2>1, <2>2 DEF Shape
<1>9. ASSUME ~Drift PROVE IdRows' /\ IdWriter' /\ IdCalls'
  <2>1. IdRows /\ IdWriter /\ IdCalls BY <1>9, Before
  <2>2. Uid < NextId /\ \A r \in Listed : r.id # Uid BY <1>1, <2>1 DEF IdCalls
  <2>3. IdRows' BY <1>2, <1>3, <1>7, <2>1, <2>2 DEF IdRows, Unique, Below
  <2>4. IdWriter' BY <1>3, <1>7, <2>1 DEF IdWriter
  <2>5. IdCalls' BY <1>1, <1>2, <1>3, <1>5, <1>7, <2>1 DEF IdCalls
  <2> QED BY <2>3, <2>4, <2>5
<1>10. ASSUME ~Drift', NEW q \in Kept PROVE KeptOnCard(q)' /\ KeptApart(q)'
  <2>1. KeptOnCard(q) /\ KeptListed(q) /\ KeptWriter(q) /\ KeptCalls(q)
    BY <1>4, <1>10, Before
  <2>2. Removing(q) => /\ q = InHand /\ q \in OnCard
                       /\ Pc \in SwapPcs => q \in Snap
    <3>1. ToCome(q) => Pc \in SavePcs /\ q.id = Wid
      BY DEF ToCome, InWork, RowOf, SavePcs, Pc, Wid
    <3>2. ~ToCome(q) BY <2>1, <3>1 DEF KeptWriter
    <3> QED BY <1>4, <1>10, <3>2 DEF Removing, PutBackIsLate, Swapping, OnCard, Pc, Snap
  <2>3. Removing(q) => Index # Absent BY <2>2, Before DEF ShapeCard
  <2>4. KeptOnCard(q)' BY <1>7, <2>1, <2>2, <2>3 DEF KeptOnCard
  <2>5. KeptListed(q)' BY <1>3, <2>1, <2>2 DEF KeptListed
  <2>6. KeptWriter(q)' BY <1>7, <2>1, <2>2 DEF KeptWriter
  <2>7. KeptCalls(q)' BY <1>5, <1>7, <2>1 DEF KeptCalls
  <2> QED BY <2>4, <2>5, <2>6, <2>7 DEF KeptApart
<1> QED BY <1>4, <1>6, <1>8, <1>9, <1>10 DEF Inv, IdInv, KeptInv

-----------------------------------------------------------------------------
(* The writer's steps that change the list, or what was kept.              *)

LEMMA TakesJob ==
  ASSUME Inv, NEW k, Takes(k)
  PROVE  /\ queue' \in Seq(Job) /\ Len(queue') <= Depth /\ Jobs' \subseteq Jobs
         /\ Head(queue) \in Jobs /\ Head(queue) \in Job /\ Head(queue).kind = k
         /\ Pc = "idle"
BY Before, Types, TakesFacts DEF Jobs, Pc

LEMMA ShotInsertedKeeps == ASSUME Inv, ShotInserted PROVE Inv'
<1> DEFINE s == Head(queue).shot  i == store.nextId  row == RowOf(i, s)
<1>1. /\ TypeOK /\ Takes("save") /\ Avail /\ NextId \in Ids
      /\ store' = [store EXCEPT !.index = @ \cup {row}, !.nextId = i + 1, !.busy = FALSE]
      /\ writer' = [writer EXCEPT !.pc = "inserted", !.id = i, !.shot = s]
      /\ UNCHANGED <<card, ui, history, ops>>
  BY Before DEF ShotInserted, TakesMounted, Avail, NextId
<1>2. /\ queue' \in Seq(Job) /\ Len(queue') <= Depth /\ Jobs' \subseteq Jobs
      /\ Head(queue) \in Jobs /\ Head(queue) \in Job /\ Head(queue).kind = "save"
      /\ Pc = "idle"
  BY <1>1, TakesJob
<1>3. s \in Shots /\ i = NextId /\ row \in Rows /\ row.id = NextId
  <2>1. s \in Shots BY <1>2, Before DEF ShapeCalls
  <2> QED BY <1>1, <2>1, RowsTyped DEF NextId
<1>4. i + 1 \in 1..MaxId + 1 /\ NextId \in Nat
  BY <1>1, Bounds, SMT DEF Ids, NextId
<1>5. /\ store' \in Store /\ Avail' /\ Listed' = Listed \cup {row} /\ NextId' = NextId + 1
  <2> DEFINE x == store.index \cup {row}  n == i + 1
  <2>1. store \in Store /\ x \in SUBSET Rows /\ n \in 1..MaxId + 1
    BY <1>1, <1>3, <1>4, Types, StoreFields
  <2>2. store' = [store EXCEPT !.index = x, !.nextId = n, !.busy = FALSE] BY <1>1
  <2>3. /\ store' \in Store /\ store'.available = store.available
        /\ store'.nextId = n /\ store'.index = x
    <3> HIDE DEF x, n
    <3> QED BY <2>1, <2>2, Zenon DEF Store
  <2> QED BY <1>1, <2>3 DEF Avail, NextId, Listed
<1>6. /\ writer' \in Writer /\ Pc' = "inserted" /\ Wid' = NextId /\ Wshot' = s
  <2>1. "inserted" \in Pcs BY DEF Pcs, SavePcs
  <2>2. writer \in Writer /\ i \in Ids \cup {0} /\ s \in Shots \cup {NoShot}
    BY <1>1, <1>3, Types
  <2>3. /\ writer' \in Writer /\ writer'.pc = "inserted" /\ writer'.id = i
        /\ writer'.shot = s
    <3> HIDE DEF i, s
    <3> QED BY <1>1, <2>1, <2>2, Zenon DEF Writer, Pcs
  <2> QED BY <1>3, <2>3 DEF Pc, Wid, Wshot
<1>7. TypeOK' BY <1>1, <1>2, <1>5, <1>6, Types DEF TypeOK
<1> HIDE DEF s, i, row
<1>8. /\ Index' = Index /\ OnCard' = OnCard /\ Tmp' = Tmp /\ TmpRows' = TmpRows
      /\ Csv' = Csv /\ Answers' = Answers /\ Kept' = Kept /\ Lost' = Lost /\ Drift' = Drift
      /\ Sends' = Sends /\ Uid' = Uid /\ InHand' = InHand /\ \A r : Removing(r)' = Removing(r)
  BY <1>1, CardSame, HistorySame, UiSame, RowsInHand
<1>9. Shape'
  <2>1. ShapeWriter'
    BY <1>1, <1>3, <1>5, <1>6 DEF ShapeWriter, SavePcs, SwapPcs
  <2>2. ShapeCard' BY <1>1, <1>2, <1>5, <1>6, <1>8, Before DEF ShapeCard
  <2>3. ShapeCalls' BY <1>2, <1>8, Before DEF ShapeCalls
  <2> QED BY <2>1, <2>2, <2>3 DEF Shape
<1>10. ASSUME ~Drift PROVE IdRows' /\ IdWriter' /\ IdCalls'
  <2>1. IdRows /\ IdCalls BY <1>10, Before
  <2>2. /\ \A r \in Rows : r.id \in Nat
        /\ Listed \in SUBSET Rows /\ OnCard \in SUBSET Rows /\ Jobs \subseteq Job
        /\ Uid \in Nat /\ \A j \in Job : j.id \in Nat
    BY <1>1, Names, RowsTyped, Bounds, JobFields, SMT
  <2>3. /\ \A r \in Listed : r.id < NextId /\ r.id < NextId + 1 /\ r.id # NextId
        /\ \A r \in OnCard : r.id < NextId /\ r.id < NextId + 1 /\ r.id # NextId
    <3>1. \A r \in Listed \cup OnCard : r.id \in Nat /\ r.id < NextId
      BY <1>1, <2>1, <2>2 DEF IdRows, Below
    <3>2. \A n \in Nat : n < NextId => n < NextId + 1 /\ n # NextId BY <1>4, SMT
    <3> QED BY <3>1, <3>2
  <2>4. NextId < NextId + 1 BY <1>4, SMT
  <2>5. IdRows'
    BY <1>3, <1>5, <1>6, <1>8, <2>1, <2>3, <2>4
       DEF IdRows, Unique, Below, SavePcs, SwapPcs
  <2>6. IdWriter' BY <1>5, <1>6, <1>8, <2>3, <2>4 DEF IdWriter
  <2>7. \A n \in Nat : n < NextId => n < NextId + 1 /\ n # NextId BY <1>4, SMT
  <2>8. IdCalls'
    <3>1. Sends => /\ Uid < NextId /\ Uid < NextId + 1 /\ Uid # NextId
                   /\ \A r \in Listed : r.id # Uid
      BY <2>1, <2>2, <2>7 DEF IdCalls
    <3>2. \A j \in Jobs : j.kind = "remove" =>
            /\ j.id < NextId + 1 /\ j.id # NextId
            /\ \A r \in Listed : r.id # j.id
            /\ Sends => Uid # j.id
      BY <2>1, <2>2, <2>7 DEF IdCalls
    <3> QED BY <1>2, <1>3, <1>5, <1>8, <3>1, <3>2 DEF IdCalls
  <2> QED BY <2>5, <2>6, <2>8
<1>11. ASSUME ~Drift, NEW r \in Kept PROVE KeptOnCard(r)' /\ KeptApart(r)'
  <2>1. KeptOnCard(r) /\ KeptListed(r) /\ KeptWriter(r) /\ KeptCalls(r) BY <1>11, Before
  <2>2. KeptOnCard(r)' BY <1>8, <2>1 DEF KeptOnCard
  <2>3. KeptListed(r)' BY <1>1, <1>5, <1>8, <2>1 DEF KeptListed
  <2>4. r.id # NextId
    <3>1. r.id < NextId
      <4>1. CASE r \in Listed BY <1>11, <4>1, Before DEF IdRows, Below
      <4>2. CASE Removing(r)
        <5>1. Sends /\ r.id = Uid BY <4>2 DEF Removing, Sends, InHand, RowOf, Uid
        <5> QED BY <1>11, <5>1, Before DEF IdCalls
      <4> QED BY <1>1, <2>1, <4>1, <4>2 DEF KeptListed
    <3>2. r.id \in Nat BY <1>1, Names, RowsTyped, Bounds
    <3> QED BY <1>4, <3>1, <3>2, SMT
  <2>5. KeptWriter(r)' BY <1>6, <2>4 DEF KeptWriter, SavePcs, SwapPcs
  <2>6. KeptCalls(r)' BY <1>2, <1>8, <2>1 DEF KeptCalls
  <2> QED BY <2>2, <2>3, <2>5, <2>6 DEF KeptApart
<1> QED BY <1>7, <1>8, <1>9, <1>10, <1>11 DEF Inv, IdInv, KeptInv

LEMMA SamplesClosedKeeps == ASSUME Inv, SamplesClosed PROVE Inv'
<1>1. /\ TypeOK /\ Pc = "opened" /\ Rests /\ UNCHANGED <<store, queue, ui, ops>>
      /\ Answers => /\ card' = [card EXCEPT !.csv[writer.id] = WholeFile(writer.shot)]
                    /\ history' = [history EXCEPT !.kept = @ \cup ({InWork} \cap store.index)]
      /\ ~Answers => UNCHANGED <<card, history>>
  BY Before DEF SamplesClosed, Pc, Answers
<1>2. /\ InWork \in Rows /\ InWork.id = Wid /\ InWork.shot = Wshot
      /\ Wid \in Ids /\ Wshot \in Shots /\ Avail
  BY <1>1, InWorkTyped, Before DEF SavePcs, ShapeWriter
<1>3. writer' \in Writer /\ Pc' = "idle" BY <1>1, WriterRests DEF Pc
<1>4. /\ card' \in Card /\ Index' = Index /\ Tmp' = Tmp /\ TmpRows' = TmpRows
      /\ OnCard' = OnCard /\ Answers' = Answers
      /\ \A i \in Ids : i # Wid => Csv'[i] = Csv[i]
      /\ Answers => Csv'[Wid] = WholeFile(Wshot)
  <2>1. CASE Answers
    <3> DEFINE csv == [card.csv EXCEPT ![writer.id] = WholeFile(writer.shot)]
    <3>1. card' = [card EXCEPT !.csv = csv] BY <1>1, <2>1
    <3>2. WholeFile(Wshot) \in Samples BY <1>2 DEF WholeFile, Samples
    <3>3. /\ csv \in [Ids -> Samples] /\ \A i \in Ids : i # Wid => csv[i] = card.csv[i]
          /\ csv[Wid] = WholeFile(Wshot)
      BY <1>1, <1>2, <3>2, Types, CardFields DEF Wid, Wshot
    <3>4. /\ card' \in Card /\ card'.index = card.index /\ card'.rows = card.rows
          /\ card'.tmp = card.tmp /\ card'.tmpRows = card.tmpRows /\ card'.csv = csv
          /\ card'.answers = card.answers
      <4>1. card \in Card BY <1>1, Types
      <4> HIDE DEF csv
      <4> QED BY <3>1, <3>3, <4>1, Zenon DEF Card
    <3> HIDE DEF csv
    <3> QED BY <3>3, <3>4 DEF Index, OnCard, Tmp, TmpRows, Csv, Answers
  <2>2. CASE ~Answers
    <3>1. UNCHANGED card BY <1>1, <2>2
    <3> QED BY <1>1, <2>2, <3>1, CardSame, Types
  <2> QED BY <2>1, <2>2
<1>5. /\ history' \in History /\ Lost' = Lost /\ Drift' = Drift
      /\ \A r \in Kept' : r \in Kept \/ (Answers /\ r = InWork /\ r \in Listed)
  <2>1. CASE Answers
    <3> DEFINE k == history.kept \cup ({InWork} \cap store.index)
    <3>1. history \in History /\ k \in SUBSET Rows
      BY <1>1, <1>2, Types, HistoryFields
    <3>2. history' = [history EXCEPT !.kept = k] BY <1>1, <2>1
    <3>3. /\ history' \in History /\ history'.kept = k
          /\ history'.lost = history.lost /\ history'.drift = history.drift
      <4> HIDE DEF k
      <4> QED BY <3>1, <3>2, Zenon DEF History
    <3> QED BY <2>1, <3>3 DEF Kept, Lost, Drift, Listed
  <2>2. CASE ~Answers
    <3>1. UNCHANGED history BY <1>1, <2>2
    <3> QED BY <1>1, <3>1, HistorySame, Types
  <2> QED BY <2>1, <2>2
<1>6. TypeOK' BY <1>1, <1>3, <1>4, <1>5, Types DEF TypeOK
<1>7. /\ Avail' = Avail /\ Listed' = Listed /\ NextId' = NextId
      /\ Sends' = Sends /\ Uid' = Uid /\ InHand' = InHand /\ \A r : Removing(r)' = Removing(r)
      /\ ShapeCalls' /\ (IdCalls => IdCalls') /\ \A r : KeptCalls(r) => KeptCalls(r)'
      /\ Jobs' = Jobs
  BY <1>1, StoreSame, CallsSame, Before
<1>8. Shape'
  BY <1>1, <1>3, <1>4, <1>7, Before DEF Shape, ShapeWriter, ShapeCard, SavePcs, SwapPcs
<1>9. ASSUME ~Drift PROVE IdRows' /\ IdWriter' /\ IdCalls'
  BY <1>3, <1>4, <1>7, <1>9, Before DEF IdRows, IdWriter, Unique, Below, SavePcs, SwapPcs
<1>10. ASSUME ~Drift, NEW r \in Kept' PROVE KeptOnCard(r)' /\ KeptApart(r)'
  <2>1. KeptWriter(r)' BY <1>3 DEF KeptWriter, SavePcs, SwapPcs
  <2>2. CASE r \in Kept
    <3>1. KeptOnCard(r) /\ KeptListed(r) /\ KeptWriter(r) /\ KeptCalls(r)
      BY <1>10, <2>2, Before
    <3>2. r.id # Wid /\ r.id \in Ids
      BY <1>1, <2>2, <3>1, Names, RowsTyped DEF KeptWriter, SavePcs
    <3>3. KeptOnCard(r)' BY <1>4, <1>7, <3>1, <3>2 DEF KeptOnCard
    <3> QED BY <1>7, <2>1, <3>1, <3>3 DEF KeptApart, KeptListed
  <2>3. CASE Answers /\ r = InWork /\ r \in Listed
    <3>1. InWork \in OnCard BY <1>1, <2>3, Before DEF ShapeWriter
    <3>2. Index # Absent BY <3>1, Before DEF ShapeCard
    <3>3. KeptOnCard(r)' BY <1>2, <1>4, <2>3, <3>1, <3>2 DEF KeptOnCard
    <3>4. KeptCalls(r)' BY <1>7, <1>10, <2>3, Before DEF IdCalls, KeptCalls
    <3> QED BY <1>7, <2>1, <2>3, <3>3, <3>4 DEF KeptApart, KeptListed
  <2> QED BY <1>5, <1>10, <2>2, <2>3
<1> QED BY <1>5, <1>6, <1>8, <1>9, <1>10 DEF Inv, IdInv, KeptInv

LEMMA RemoveBeginsKeeps == ASSUME Inv, RemoveBegins PROVE Inv'
<1> DEFINE i == Head(queue).id
<1>1. /\ TypeOK /\ Takes("remove") /\ Avail
      /\ card' = IF card.answers THEN [card EXCEPT !.csv[i] = NoFile] ELSE card
      /\ writer' = [writer EXCEPT !.pc = "removing", !.id = i]
      /\ UNCHANGED <<store, ui, history, ops>>
  BY Before DEF RemoveBegins, TakesMounted, Avail
<1>2. /\ queue' \in Seq(Job) /\ Len(queue') <= Depth /\ Jobs' \subseteq Jobs
      /\ Head(queue) \in Jobs /\ Head(queue).kind = "remove" /\ Pc = "idle"
  BY <1>1, TakesJob
<1>3. i \in Ids BY <1>2, Before DEF ShapeCalls
<1>4. writer' \in Writer /\ Pc' = "removing"
  <2>1. "removing" \in Pcs /\ i \in Ids \cup {0} /\ writer \in Writer
    BY <1>1, <1>3, Types DEF Pcs
  <2>2. writer' \in Writer /\ writer'.pc = "removing"
    <3> HIDE DEF i
    <3> QED BY <1>1, <2>1, Zenon DEF Writer, Pcs
  <2> QED BY <2>2 DEF Pc
<1>5. /\ card' \in Card /\ Index' = Index /\ Tmp' = Tmp /\ TmpRows' = TmpRows
      /\ OnCard' = OnCard /\ Answers' = Answers
      /\ \A n \in Ids : n # i => Csv'[n] = Csv[n]
  <2>1. CASE card.answers
    <3> DEFINE csv == [card.csv EXCEPT ![i] = NoFile]
    <3>1. card' = [card EXCEPT !.csv = csv] BY <1>1, <2>1
    <3>2. NoFile \in Samples BY DEF NoFile, Samples
    <3>3. csv \in [Ids -> Samples] /\ \A n \in Ids : n # i => csv[n] = card.csv[n]
      BY <1>1, <1>3, <3>2, Types, CardFields
    <3>4. /\ card' \in Card /\ card'.index = card.index /\ card'.rows = card.rows
          /\ card'.tmp = card.tmp /\ card'.tmpRows = card.tmpRows /\ card'.csv = csv
          /\ card'.answers = card.answers
      <4>1. card \in Card BY <1>1, Types
      <4> HIDE DEF csv
      <4> QED BY <3>1, <3>3, <4>1, Zenon DEF Card
    <3> HIDE DEF csv
    <3> QED BY <3>3, <3>4 DEF Index, OnCard, Tmp, TmpRows, Csv, Answers
  <2>2. CASE ~card.answers
    <3>1. UNCHANGED card BY <1>1, <2>2
    <3> QED BY <1>1, <3>1, CardSame, Types
  <2> QED BY <2>1, <2>2
<1>6. TypeOK' BY <1>1, <1>2, <1>4, <1>5, Types DEF TypeOK
<1>7. /\ Avail' = Avail /\ Listed' = Listed /\ NextId' = NextId
      /\ Kept' = Kept /\ Lost' = Lost /\ Drift' = Drift
      /\ Sends' = Sends /\ Uid' = Uid /\ InHand' = InHand /\ \A r : Removing(r)' = Removing(r)
  BY <1>1, StoreSame, HistorySame, UiSame, RowsInHand
<1>8. Shape'
  <2>1. ShapeWriter' /\ ShapeCard'
    BY <1>1, <1>2, <1>4, <1>5, <1>7, Before DEF ShapeWriter, ShapeCard, SavePcs, SwapPcs
  <2>2. ShapeCalls' BY <1>2, <1>7, Before DEF ShapeCalls
  <2> QED BY <2>1, <2>2 DEF Shape
<1>9. ASSUME ~Drift PROVE IdRows' /\ IdWriter' /\ IdCalls'
  <2>1. IdRows /\ IdCalls BY <1>9, Before
  <2>2. IdRows' /\ IdWriter'
    BY <1>4, <1>5, <1>7, <2>1 DEF IdRows, IdWriter, Unique, Below, SavePcs, SwapPcs
  <2>3. IdCalls' BY <1>2, <1>7, <2>1 DEF IdCalls
  <2> QED BY <2>2, <2>3
<1>10. ASSUME ~Drift, NEW r \in Kept PROVE KeptOnCard(r)' /\ KeptApart(r)'
  <2>1. KeptOnCard(r) /\ KeptListed(r) /\ KeptWriter(r) /\ KeptCalls(r) BY <1>10, Before
  <2>2. r.id # i /\ r.id \in Ids BY <1>1, <1>2, <2>1, Names, RowsTyped DEF KeptCalls
  <2>3. KeptOnCard(r)' BY <1>5, <1>7, <2>1, <2>2 DEF KeptOnCard
  <2>4. KeptWriter(r)' BY <1>4 DEF KeptWriter, SavePcs, SwapPcs
  <2>5. KeptListed(r)' /\ KeptCalls(r)' BY <1>2, <1>7, <2>1 DEF KeptListed, KeptCalls
  <2> QED BY <2>3, <2>4, <2>5 DEF KeptApart
<1> QED BY <1>6, <1>7, <1>8, <1>9, <1>10 DEF Inv, IdInv, KeptInv

LEMMA TmpRenamedKeeps == ASSUME Inv, TmpRenamed PROVE Inv'
<1>1. /\ TypeOK /\ Pc = "unlinked" /\ Index = Absent /\ Rests
      /\ card' = [card EXCEPT !.index = "whole", !.rows = card.tmpRows,
                              !.tmp = Absent, !.tmpRows = {}]
      /\ history' = [history EXCEPT !.gone = @ \cup Done(writer.id),
                                    !.doomed = @ \ Done(writer.id)]
      /\ UNCHANGED <<store, queue, ui, ops>>
  BY Before DEF TmpRenamed, Pc, Index
<1>2. writer' \in Writer /\ Pc' = "idle" BY <1>1, WriterRests DEF Pc
<1>3. Avail /\ TmpRows = Snap BY <1>1, Before DEF ShapeWriter, SwapPcs
<1>4. /\ card' \in Card /\ Index' = "whole" /\ OnCard' = TmpRows /\ Csv' = Csv
      /\ Answers' = Answers
  <2>1. card \in Card /\ card.tmpRows \in SUBSET Rows BY <1>1, Types, CardFields
  <2>2. /\ card' \in Card /\ card'.index = "whole" /\ card'.rows = card.tmpRows
        /\ card'.csv = card.csv /\ card'.answers = card.answers
    BY <1>1, <2>1, Zenon DEF Card
  <2> QED BY <2>2 DEF Index, OnCard, TmpRows, Csv, Answers
<1>5. history' \in History /\ Kept' = Kept /\ Lost' = Lost /\ Drift' = Drift
  <2> DEFINE g == history.gone \cup Done(writer.id)  d == history.doomed \ Done(writer.id)
  <2>1. history \in History /\ g \in SUBSET Rows /\ d \in SUBSET Rows
    BY <1>1, Types, HistoryFields DEF Done
  <2>2. history' = [history EXCEPT !.gone = g, !.doomed = d] BY <1>1
  <2>3. /\ history' \in History /\ history'.kept = history.kept
        /\ history'.lost = history.lost /\ history'.drift = history.drift
    <3> HIDE DEF g, d
    <3> QED BY <2>1, <2>2, Zenon DEF History
  <2> QED BY <2>3 DEF Kept, Lost, Drift
<1>6. TypeOK' BY <1>1, <1>2, <1>4, <1>5, Types DEF TypeOK
<1>7. /\ Avail' = Avail /\ Listed' = Listed /\ NextId' = NextId
      /\ Sends' = Sends /\ Uid' = Uid /\ InHand' = InHand /\ \A r : Removing(r)' = Removing(r)
      /\ ShapeCalls' /\ (IdCalls => IdCalls') /\ \A r : KeptCalls(r) => KeptCalls(r)'
  BY <1>1, StoreSame, CallsSame, Before
<1>8. Shape'
  <2>1. ShapeWriter' BY <1>2 DEF ShapeWriter, SavePcs, SwapPcs
  <2>2. ShapeCard' BY <1>2, <1>4 DEF ShapeCard, Absent
  <2> QED BY <1>7, <2>1, <2>2 DEF Shape
<1>9. ASSUME ~Drift PROVE IdRows' /\ IdWriter' /\ IdCalls'
  <2>1. IdRows /\ IdCalls /\ Unique(Snap) /\ Below(Snap, NextId)
    BY <1>1, <1>9, Before DEF IdRows, SwapPcs
  <2> QED BY <1>2, <1>3, <1>4, <1>7, <2>1
          DEF IdRows, IdWriter, Unique, Below, SavePcs, SwapPcs
<1>10. ASSUME ~Drift, NEW r \in Kept PROVE KeptOnCard(r)' /\ KeptApart(r)'
  <2>1. KeptOnCard(r) /\ KeptListed(r) /\ KeptWriter(r) /\ KeptCalls(r) BY <1>10, Before
  <2>2. Removing(r) \/ r \in TmpRows BY <1>1, <1>3, <2>1 DEF KeptWriter, SwapPcs
  <2>3. KeptOnCard(r)' BY <1>4, <1>7, <2>1, <2>2 DEF KeptOnCard, Absent
  <2>4. KeptWriter(r)' BY <1>2 DEF KeptWriter, SavePcs, SwapPcs
  <2> QED BY <1>7, <2>1, <2>3, <2>4 DEF KeptApart, KeptListed
<1> QED BY <1>5, <1>6, <1>8, <1>9, <1>10 DEF Inv, IdInv, KeptInv

-----------------------------------------------------------------------------
(* A mount, and a cut.                                                     *)

LEMMA LoadsKeeps ==
  ASSUME Inv, NEW rows \in SUBSET Rows, Loads(rows), UNCHANGED <<queue, ops>>,
         card' \in Card, OnCard' = rows, Csv' = Csv, Index' # Absent,
         ~Drift => Unique(rows),
         ~Drift => \A r \in Kept : Removing(r) \/ r \in rows
  PROVE  Inv'
<1> DEFINE n == NextAfter(rows)
<1>1. /\ TypeOK /\ Rests /\ UiOn
      /\ history' = [history EXCEPT !.doomed = {}, !.drift = @ \/ RemovalUnderWay]
      /\ store' = [available |-> TRUE, index |-> rows, nextId |-> n, busy |-> FALSE]
  BY Before DEF Loads
<1>2. writer' \in Writer /\ Pc' = "idle" BY <1>1, WriterRests DEF Pc
<1>3. n \in 1..MaxId + 1 /\ \A r \in rows : r.id < n BY NextAfterTyped
<1>4. store' \in Store /\ Avail' /\ Listed' = rows /\ NextId' = n
  <2> HIDE DEF n
  <2> QED BY <1>1, <1>3 DEF Store, Avail, Listed, NextId
<1>5. ui' \in Ui /\ (Sends' => Sends /\ UNCHANGED ui) BY <1>1, UiOnFacts
<1>6. /\ history' \in History /\ Kept' = Kept /\ Lost' = Lost
      /\ ~Drift' => ~Drift /\ ~RemovalUnderWay
  <2> DEFINE d == history.drift \/ RemovalUnderWay
  <2>1. history \in History /\ d \in BOOLEAN BY <1>1, Types
  <2>2. history' = [history EXCEPT !.doomed = {}, !.drift = d] BY <1>1
  <2>3. /\ history' \in History /\ history'.kept = history.kept
        /\ history'.lost = history.lost /\ history'.drift = d
    <3> HIDE DEF d
    <3> QED BY <2>1, <2>2, Zenon DEF History
  <2> QED BY <2>3 DEF Kept, Lost, Drift
<1>7. TypeOK' BY <1>1, <1>2, <1>4, <1>5, <1>6, Types DEF TypeOK
<1>8. Jobs' = Jobs BY QueueSame
<1>9. ~RemovalUnderWay => ~Sends /\ \A j \in Jobs : j.kind # "remove"
  <2>1. DOMAIN queue = 1..Len(queue) BY <1>1, Types, ElemsFacts
  <2> QED BY <2>1 DEF RemovalUnderWay, Sends, Jobs, Elems
<1>10. Shape'
  <2>1. ShapeWriter' BY <1>2 DEF ShapeWriter, SavePcs, SwapPcs
  <2>2. ShapeCard' BY <1>2 DEF ShapeCard
  <2>3. Sends' => InHand' \in Rows
    BY <1>5, RowsInHand, Before DEF ShapeCalls
  <2>4. ShapeCalls' BY <1>8, <2>3, Before DEF ShapeCalls
  <2> QED BY <2>1, <2>2, <2>4 DEF Shape
<1>11. ASSUME ~Drift' PROVE IdRows' /\ IdWriter' /\ IdCalls'
  <2>1. /\ ~Sends' /\ \A j \in Jobs' : j.kind # "remove"
    BY <1>5, <1>6, <1>8, <1>9, <1>11
  <2>2. Unique(rows) /\ Below(rows, n) BY <1>3, <1>6, <1>11 DEF Below
  <2> HIDE DEF n
  <2>3. IdRows' /\ IdWriter'
    BY <1>2, <1>4, <2>2 DEF IdRows, IdWriter, Unique, Below, SavePcs, SwapPcs
  <2> QED BY <2>1, <2>3 DEF IdCalls
<1>12. ASSUME ~Drift', NEW r \in Kept' PROVE KeptOnCard(r)' /\ KeptApart(r)'
  <2>1. r \in Kept /\ ~Drift BY <1>6, <1>12
  <2>2. /\ ~Sends /\ ~Sends' /\ \A j \in Jobs' : j.kind # "remove"
    BY <1>5, <1>6, <1>8, <1>9, <1>12
  <2>3. r \in rows BY <2>1, <2>2 DEF Removing, Sends
  <2>4. KeptOnCard(r) BY <2>1, Before
  <2>5. KeptOnCard(r)' BY <2>3, <2>4 DEF KeptOnCard
  <2>6. KeptListed(r)' BY <1>4, <2>3 DEF KeptListed
  <2>7. KeptWriter(r)' BY <1>2 DEF KeptWriter, SavePcs, SwapPcs
  <2>8. KeptCalls(r)' BY <2>2 DEF KeptCalls
  <2> QED BY <2>5, <2>6, <2>7, <2>8 DEF KeptApart
<1> QED BY <1>7, <1>10, <1>11, <1>12 DEF Inv, IdInv, KeptInv

LEMMA IndexLoadedKeeps == ASSUME Inv, IndexLoaded PROVE Inv'
<1>1. /\ TypeOK /\ Index # Absent /\ card' = [card EXCEPT !.answers = TRUE]
      /\ Loads(card.rows) /\ UNCHANGED <<queue, ops>>
  BY Before DEF IndexLoaded, Index, Absent
<1>2. card.rows \in SUBSET Rows /\ card \in Card BY <1>1, Types, CardFields
<1>3. /\ card' \in Card /\ card'.rows = card.rows /\ card'.csv = card.csv
      /\ card'.index = card.index
  BY <1>1, <1>2, Zenon DEF Card
<1>4. OnCard' = card.rows /\ Csv' = Csv /\ Index' # Absent
  BY <1>1, <1>3 DEF OnCard, Csv, Index
<1>5. ~Drift => Unique(card.rows) BY Before DEF IdRows, OnCard
<1>6. ASSUME ~Drift, NEW r \in Kept PROVE Removing(r) \/ r \in card.rows
  <2>1. KeptOnCard(r) BY <1>6, Before
  <2> QED BY <1>1, <2>1 DEF KeptOnCard, OnCard
<1> QED BY <1>1, <1>2, <1>3, <1>4, <1>5, <1>6, LoadsKeeps

LEMMA IndexCreatedKeeps == ASSUME Inv, IndexCreated PROVE Inv'
<1>1. /\ TypeOK /\ Pc = "creating" /\ Loads({}) /\ UNCHANGED <<queue, ops>>
      /\ card' = [card EXCEPT !.index = IF card.answers THEN "whole" ELSE @]
  BY Before DEF IndexCreated, Pc
<1>2. Index = "bare" /\ OnCard = {} BY <1>1, Before DEF ShapeCard
<1>3. card' \in Card /\ OnCard' = {} /\ Csv' = Csv /\ Index' # Absent
  <2> DEFINE x == IF card.answers THEN "whole" ELSE card.index
  <2>1. card \in Card /\ x \in Indexes /\ x # Absent
    BY <1>1, <1>2, Types, CardFields DEF Indexes, Absent, Index
  <2>2. card' = [card EXCEPT !.index = x] BY <1>1
  <2>3. /\ card' \in Card /\ card'.rows = card.rows /\ card'.csv = card.csv
        /\ card'.index = x
    <3> HIDE DEF x
    <3> QED BY <2>1, <2>2, Zenon DEF Card, Indexes
  <2> QED BY <1>2, <2>1, <2>3 DEF OnCard, Csv, Index
<1>4. Unique({}) BY DEF Unique
<1>5. ~Drift => Kept = {}
  BY <1>1, Before DEF KeptWriter
<1>6. {} \in SUBSET Rows OBVIOUS
<1> QED BY <1>1, <1>3, <1>4, <1>5, <1>6, LoadsKeeps

LEMMA IndexMissingKeeps == ASSUME Inv, IndexMissing PROVE Inv'
<1>1. /\ TypeOK /\ Pc = "mounting" /\ Index = Absent /\ Goto("creating")
      /\ card' = [card EXCEPT !.index = "bare", !.answers = TRUE]
      /\ history' = [history EXCEPT !.lost = @ \cup history.kept]
      /\ UNCHANGED <<store, queue, ui, ops>>
  BY Before DEF IndexMissing, Pc, Index
<1>2. OnCard = {} /\ ~Avail BY <1>1, Before DEF ShapeCard, ShapeWriter
<1>3. /\ card' \in Card /\ Index' = "bare" /\ OnCard' = {} /\ Csv' = Csv
  <2>1. card \in Card BY <1>1, Types
  <2>2. /\ card' \in Card /\ card'.index = "bare" /\ card'.rows = card.rows
        /\ card'.csv = card.csv
    BY <1>1, <2>1, Zenon DEF Card
  <2> QED BY <1>2, <2>2 DEF Index, OnCard, Csv
<1>4. writer' \in Writer /\ Pc' = "creating" BY <1>1, Moves DEF Pcs
<1>5. history' \in History /\ Drift' = Drift /\ Kept' = {}
  <2> DEFINE l == history.lost \cup history.kept
  <2>1. history \in History /\ l \in SUBSET Rows BY <1>1, Types, HistoryFields
  <2>2. history' = [history EXCEPT !.lost = l] BY <1>1
  <2>3. /\ history' \in History /\ history'.kept = history.kept
        /\ history'.lost = l /\ history'.drift = history.drift
    <3> HIDE DEF l
    <3> QED BY <2>1, <2>2, Zenon DEF History
  <2> QED BY <2>3 DEF Kept, Lost, Drift
<1>6. TypeOK' BY <1>1, <1>3, <1>4, <1>5, Types DEF TypeOK
<1>7. /\ Avail' = Avail /\ Listed' = Listed /\ NextId' = NextId
      /\ ShapeCalls' /\ (IdCalls => IdCalls')
  BY <1>1, StoreSame, CallsSame, Before
<1>8. Shape'
  BY <1>2, <1>3, <1>4, <1>7
     DEF Shape, ShapeWriter, ShapeCard, SavePcs, SwapPcs, Absent
<1>9. ASSUME ~Drift PROVE IdRows' /\ IdWriter' /\ IdCalls'
  BY <1>2, <1>3, <1>4, <1>7, <1>9, Before
     DEF IdRows, IdWriter, Unique, Below, SavePcs, SwapPcs
<1> QED BY <1>5, <1>6, <1>8, <1>9 DEF Inv, IdInv, KeptInv

LEMMA PowerCutKeeps == ASSUME Inv, PowerCut PROVE Inv'
<1>1. /\ TypeOK /\ Disturbs
      /\ history' = [history EXCEPT !.kept = IF ui.pc = "sending" THEN @ \ {InHand} ELSE @]
      /\ store' = Unmounted /\ queue' = <<>> /\ writer' = Boot /\ ui' = UiOff
      /\ UNCHANGED card
  BY Before DEF PowerCut
<1>2. /\ history' \in History /\ Lost' = Lost /\ Drift' = Drift
      /\ \A r \in Kept' : r \in Kept /\ ~Removing(r)
  <2> DEFINE k == IF ui.pc = "sending" THEN history.kept \ {InHand} ELSE history.kept
  <2>1. history \in History /\ k \in SUBSET Rows BY <1>1, Types, HistoryFields
  <2>2. history' = [history EXCEPT !.kept = k] BY <1>1
  <2>3. /\ history' \in History /\ history'.kept = k
        /\ history'.lost = history.lost /\ history'.drift = history.drift
    <3> HIDE DEF k
    <3> QED BY <2>1, <2>2, Zenon DEF History
  <2> QED BY <2>3 DEF Kept, Lost, Drift, Removing
<1>3. store' \in Store /\ ~Avail' /\ Listed' = {} /\ NextId' = 1
  BY <1>1, Bounds DEF Unmounted, Store, Avail, Listed, NextId
<1>4. writer' \in Writer /\ Pc' = "mounting" BY <1>1, BootFacts DEF Pc
<1>5. ui' \in Ui /\ ~Sends' BY <1>1, UiFacts DEF Sends
<1>6. queue' \in Seq(Job) /\ Jobs' = {} /\ Len(queue') <= Depth
  BY <1>1, EmptyQueue, Bounds, SMT DEF Jobs
<1>7. TypeOK' BY <1>1, <1>2, <1>3, <1>4, <1>5, <1>6, Disturbed, Types DEF TypeOK
<1>8. /\ Index' = Index /\ OnCard' = OnCard /\ Tmp' = Tmp /\ TmpRows' = TmpRows
      /\ Csv' = Csv
  BY <1>1, CardSame
<1>9. Shape'
  BY <1>3, <1>4, <1>5, <1>6, <1>8, Before
     DEF Shape, ShapeWriter, ShapeCard, ShapeCalls, SavePcs, SwapPcs
<1>10. ASSUME ~Drift PROVE IdRows' /\ IdWriter' /\ IdCalls'
  BY <1>3, <1>4, <1>5, <1>6, <1>8, <1>10, Before
     DEF IdRows, IdWriter, IdCalls, Unique, Below, SavePcs, SwapPcs
<1>11. ASSUME ~Drift, NEW r \in Kept' PROVE KeptOnCard(r)' /\ KeptApart(r)'
  <2>1. KeptOnCard(r) /\ ~Removing(r) BY <1>2, <1>11, Before
  <2>2. KeptOnCard(r)' BY <1>8, <2>1 DEF KeptOnCard
  <2>3. KeptListed(r)' /\ KeptWriter(r)' /\ KeptCalls(r)'
    BY <1>3, <1>4, <1>5, <1>6 DEF KeptListed, KeptWriter, KeptCalls, SavePcs, SwapPcs
  <2> QED BY <2>2, <2>3 DEF KeptApart
<1> QED BY <1>2, <1>7, <1>9, <1>10, <1>11 DEF Inv, IdInv, KeptInv

-----------------------------------------------------------------------------
(* The theorems.                                                           *)

LEMMA InitHolds == ASSUME Init PROVE Inv
<1>1. /\ card \in [index : {Absent, "whole"}, rows : {{}}, tmp : {Absent}, tmpRows : {{}},
                   csv : {[i \in Ids |-> NoFile]}, answers : {TRUE}]
      /\ store = Unmounted /\ queue = <<>> /\ writer = Boot /\ ui = UiOff
      /\ history = [made |-> 0, kept |-> {}, doomed |-> {}, gone |-> {},
                    lost |-> {}, drift |-> FALSE]
      /\ ops = 0
  BY DEF Init
<1>2. card \in Card /\ OnCard = {}
  <2>1. [i \in Ids |-> NoFile] \in [Ids -> Samples] BY DEF NoFile, Samples
  <2>2. /\ card.index \in {Absent, "whole"} /\ card.rows = {} /\ card.tmp = Absent
        /\ card.tmpRows = {} /\ card.csv = [i \in Ids |-> NoFile] /\ card.answers = TRUE
        /\ card = [index |-> card.index, rows |-> card.rows, tmp |-> card.tmp,
                   tmpRows |-> card.tmpRows, csv |-> card.csv, answers |-> card.answers]
    BY <1>1, Zenon
  <2>3. card \in Card
    <3> DEFINE a == card.index b == card.rows c == card.tmp d == card.tmpRows
               e == card.csv f == card.answers
    <3>1. /\ a \in {Absent, "bare", "whole"} /\ b \in SUBSET Rows /\ c \in {Absent, Torn, "whole"}
          /\ d \in SUBSET Rows /\ e \in [Ids -> Samples] /\ f \in BOOLEAN
      BY <2>1, <2>2
    <3>2. card = [index |-> a, rows |-> b, tmp |-> c, tmpRows |-> d, csv |-> e, answers |-> f]
      BY <2>2
    <3> HIDE DEF a, b, c, d, e, f
    <3> QED BY <3>1, <3>2, Zenon DEF Card
  <2> QED BY <2>2, <2>3 DEF OnCard
<1>3. store \in Store /\ ~Avail /\ Listed = {} /\ NextId = 1
  BY <1>1, Bounds DEF Unmounted, Store, Avail, Listed, NextId
<1>4. writer \in Writer /\ Pc = "mounting" BY <1>1, BootFacts DEF Pc
<1>5. ui \in Ui /\ ~Sends BY <1>1, UiFacts DEF Sends
<1>6. queue \in Seq(Job) /\ Jobs = {} /\ Len(queue) <= Depth
  BY <1>1, EmptyQueue, Bounds, SMT DEF Jobs
<1>7. history \in History /\ Kept = {} BY <1>1, Bounds, SMT DEF History, Kept
<1>8. TypeOK BY <1>1, <1>2, <1>3, <1>4, <1>5, <1>6, <1>7, Bounds, SMT DEF TypeOK
<1>9. Shape
  BY <1>2, <1>3, <1>4, <1>5, <1>6
     DEF Shape, ShapeWriter, ShapeCard, ShapeCalls, SavePcs, SwapPcs
<1>10. IdInv
  BY <1>2, <1>3, <1>4, <1>5, <1>6
     DEF IdInv, IdRows, IdWriter, IdCalls, Unique, Below, SavePcs, SwapPcs
<1>11. KeptInv BY <1>7 DEF KeptInv
<1> QED BY <1>8, <1>9, <1>10, <1>11 DEF Inv

LEMMA StutterKeeps == ASSUME Inv, UNCHANGED vars PROVE Inv'
<1>1. /\ UNCHANGED <<card, store, writer, ui, history>> /\ UNCHANGED queue /\ UNCHANGED ops
  BY DEF vars
<1>2. TypeOK' BY <1>1, Before, Types DEF TypeOK
<1> QED BY <1>1, <1>2, CalmSame, CalmStep DEF Calm

LEMMA StepKeeps == ASSUME Inv, [Next]_vars PROVE Inv'
<1>1. CASE UiStarts
  BY <1>1, RemoveKeeps, SaveKeeps, SetStatsSinceKeeps, RequestsKeep DEF UiStarts
<1>2. CASE UiReturns BY <1>2, RemoveSentKeeps, RemoveTimesOutKeeps DEF UiReturns
<1>3. CASE WriterStep
  <2>1. CASE \E k \in Kinds : DropJob(k) BY <2>1, DropJobKeeps
  <2>2. CASE SaveStep
    BY <2>2, CardFullKeeps, ShotInsertedKeeps, RowAppendedKeeps, SamplesOpenedKeeps,
       SamplesClosedKeeps, FailuresKeep DEF SaveStep
  <2>3. CASE SwapStep
    BY <2>3, RemoveBeginsKeeps, IndexCopiedKeeps, TmpOpenedKeeps, TmpClosedKeeps,
       IndexUnlinkedKeeps, TmpRenamedKeeps, FailuresKeep DEF SwapStep
  <2>4. CASE MarkerWritten \/ MarkerFails BY <2>4, MarkerWrittenKeeps, FailuresKeep
  <2>5. CASE MountStep
    BY <2>5, FailuresKeep, ProbeKeeps, MountBeginsKeeps, MountFailsKeeps,
       IndexLoadedKeeps, IndexMissingKeeps, IndexCreatedKeeps DEF MountStep
  <2> QED BY <1>3, <2>1, <2>2, <2>3, <2>4, <2>5 DEF WriterStep
<1>4. CASE CardPulled BY <1>4, CardPulledKeeps
<1>5. CASE PowerCut BY <1>5, PowerCutKeeps
<1>6. CASE UNCHANGED vars BY <1>6, StutterKeeps
<1> QED BY <1>1, <1>2, <1>3, <1>4, <1>5, <1>6 DEF Next

(* The parts of the store never lose track of one another: what the list   *)
(* in RAM, the index file, its copy, the queued removals and the writer's  *)
(* locals hold fits together through every job of the writer task, every   *)
(* call of the UI, every pulled card and every power cut.                  *)
THEOREM StoreInvariant == Spec => []Inv
<1>1. Init => Inv BY InitHolds
<1>2. Inv /\ [Next]_vars => Inv' BY StepKeeps
<1> QED BY <1>1, <1>2, PTL DEF Spec

(* The queue never holds more than kQueueDepth jobs, and the ids, rows and *)
(* files stay what the writer task expects of them.                        *)
THEOREM StoreTypeCorrect == Spec => []TypeOK
<1>1. Inv => TypeOK BY DEF Inv
<1> QED BY <1>1, StoreInvariant, PTL

(* A saved shot that was not deleted is in shots.csv, or in a complete     *)
(* shots.csv.tmp, at every instant of remove_files and write_job           *)
(* (shot_store.cpp): no cut can strike where neither file has it.  Not so  *)
(* once a mount has found no shots.csv, for the rows it left behind, nor   *)
(* after a put-back or a removal the store did not expect (`drift`).       *)
THEOREM RowsOutliveFailures == Spec => []RowsSurvive
<1>1. Inv => RowsSurvive
  BY Before DEF RowsSurvive, Lost, Drift, Kept, KeptOnCard, Index, OnCard, Tmp, TmpRows
<1> QED BY <1>1, StoreInvariant, PTL

(* As long as no mount has lost its row with the index, and nothing has    *)
(* drifted, the samples file of a saved shot is not truncated, overwritten *)
(* or removed for another shot: next_id_ is above every id of the index,   *)
(* and a queued removal names only a row that has left the list.  Of the   *)
(* rows of a lost index the theorem says nothing: the code restarts at id  *)
(* 1 and truncates their samples, against the comment on the swap          *)
(* (shot_store.cpp:835).                                                   *)
THEOREM SamplesOutliveFailures == Spec => []SamplesSurvive
<1>1. Inv => SamplesSurvive
  BY Before DEF SamplesSurvive, Lost, Drift, Kept, KeptOnCard, Csv
<1> QED BY <1>1, StoreInvariant, PTL

(* No two rows of the list share an id, however saves, deletions, put-backs *)
(* and remounts interleave between the UI thread and the writer task.      *)
THEOREM ListedIdsUnique == Spec => []IdsUnique
<1>1. Inv => IdsUnique BY Before DEF IdsUnique, IdRows, Unique, Listed, Drift
<1> QED BY <1>1, StoreInvariant, PTL
=============================================================================
