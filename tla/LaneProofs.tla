------------------------------ MODULE LaneProofs ------------------------------
(***************************************************************************)
(* Theorems of Lane, for any lanes, any number of attempts and             *)
(* notifications, with or without a store that records the sends.          *)
(***************************************************************************)
EXTENDS Lane, SequenceTheorems, TLAPS

Busy == {"sending", "landing", "waiting"}

\* A thread that is busy holds a notification, and one that waits for its
\* backoff has an attempt left.
HoldsInv ==
  \A l \in Lanes :
    /\ thread[l] \in Busy => item[l] \in [note : Notes, attempt : 1..Attempts]
    /\ thread[l] = "waiting" => item[l].attempt < Attempts

LEMMA HoldsInit == Init => TypeOK /\ HoldsInv
<1> SUFFICES ASSUME Init PROVE TypeOK /\ HoldsInv
  OBVIOUS
<1>1. TypeOK
  <2>1. /\ <<>> \in Seq(Notes \cup {Stop}) /\ 0 \in 0..MaxNotes
        /\ NotClosing \in [stage : Stages, lanes : SUBSET Lanes,
                           left : SUBSET Lanes, owes : SUBSET Lanes]
    BY LaneAssumption, EmptySeq DEF NotClosing, Stages
  <2> QED
    BY <2>1 DEF Init, TypeOK
<1>2. HoldsInv
  BY DEF Init, HoldsInv, Busy
<1> QED
  BY <1>1, <1>2

-----------------------------------------------------------------------------
(* Type correctness.                                                       *)

\* What Becomes needs of what the thread goes on to hold.
LEMMA BecomesKeeps ==
  ASSUME TypeOK, HoldsInv, NEW l \in Lanes, NEW doing, NEW holding,
         doing \in {"idle", "sending", "landing", "waiting", "abandoning", "ended"},
         holding \in [note : Notes, attempt : 1..Attempts] \cup {Nothing},
         doing \in Busy => holding # Nothing,
         doing = "waiting" => holding.attempt < Attempts,
         Becomes(l, doing, holding)
  PROVE  /\ thread' \in [Lanes -> {"none", "idle", "sending", "landing", "waiting",
                                   "abandoning", "ended"}]
         /\ item' \in [Lanes -> [note : Notes, attempt : 1..Attempts] \cup {Nothing}]
         /\ HoldsInv'
<1> DEFINE Items == [note : Notes, attempt : 1..Attempts]
<1>1. /\ thread' = [thread EXCEPT ![l] = doing]
      /\ item' = [item EXCEPT ![l] = holding]
  BY DEF Becomes
<1>2. item \in [Lanes -> Items \cup {Nothing}]
  BY DEF TypeOK
<1>3. \A m \in Lanes : /\ thread[m] \in Busy => item[m] \in Items
                       /\ thread[m] = "waiting" => item[m].attempt < Attempts
  BY DEF HoldsInv
<1> HIDE DEF Items
<1>4. item' \in [Lanes -> Items \cup {Nothing}]
  BY <1>1, <1>2 DEF Items
<1>5. thread' \in [Lanes -> {"none", "idle", "sending", "landing", "waiting",
                             "abandoning", "ended"}]
  BY <1>1 DEF TypeOK
<1>6. doing \in Busy => holding \in Items
  BY DEF Items
<1>7. ASSUME NEW m \in Lanes
      PROVE  /\ thread'[m] \in Busy => item'[m] \in Items
             /\ thread'[m] = "waiting" => item'[m].attempt < Attempts
  <2>1. CASE m = l
    BY <1>1, <1>2, <1>6, <2>1 DEF TypeOK
  <2>2. CASE m # l
    BY <1>1, <1>2, <1>3, <2>2 DEF TypeOK
  <2> QED
    BY <2>1, <2>2
<1> QED
  BY <1>4, <1>5, <1>7 DEF HoldsInv, Items

LEMMA LetsGoKeeps ==
  ASSUME TypeOK, HoldsInv, NEW l \in Lanes, NEW doing \in {"idle", "abandoning", "ended"},
         Becomes(l, doing, Nothing)
  PROVE  /\ thread' \in [Lanes -> {"none", "idle", "sending", "landing", "waiting",
                                   "abandoning", "ended"}]
         /\ item' \in [Lanes -> [note : Notes, attempt : 1..Attempts] \cup {Nothing}]
         /\ HoldsInv'
<1>1. doing \notin Busy /\ doing # "waiting"
  BY DEF Busy
<1> QED
  BY <1>1, BecomesKeeps

\* One more report of one notification of one lane.
LEMMA ReportsOne ==
  ASSUME TypeOK, NEW l \in Lanes, NEW n \in Notes,
         reports' = [reports EXCEPT ![l][n] = reports[l][n] + 1]
  PROVE  /\ reports' \in [Lanes -> [Notes -> Nat]]
         /\ reports'[l][n] = reports[l][n] + 1
         /\ \A m \in Notes : m # n => reports'[l][m] = reports[l][m]
         /\ \A m \in Lanes : m # l => reports'[m] = reports[m]
  BY DEF TypeOK

LEMMA GivesUpKeeps ==
  ASSUME TypeOK, HoldsInv, NEW l \in Lanes, thread[l] \in Busy, GivesUp(l)
  PROVE  /\ thread' \in [Lanes -> {"none", "idle", "sending", "landing", "waiting",
                                   "abandoning", "ended"}]
         /\ item' \in [Lanes -> [note : Notes, attempt : 1..Attempts] \cup {Nothing}]
         /\ HoldsInv'
         /\ reports' \in [Lanes -> [Notes -> Nat]]
         /\ item[l].note \in Notes
         /\ UNCHANGED <<landed, marked>>
<1>1. item[l].note \in Notes
  BY DEF HoldsInv
<1>2. reports' \in [Lanes -> [Notes -> Nat]]
  <2>1. reports' = [reports EXCEPT ![l][item[l].note] = reports[l][item[l].note] + 1]
    BY DEF GivesUp
  <2> QED
    BY <1>1, <2>1 DEF TypeOK
<1>3. Becomes(l, "idle", Nothing)
  BY DEF GivesUp
<1> QED
  BY <1>1, <1>2, <1>3, BecomesKeeps DEF GivesUp, Busy

\* What the lane's thread leaves alone keeps its type.
LEMMA ThreadFrame ==
  ASSUME TypeOK, UnchangedByThread,
         thread' \in [Lanes -> {"none", "idle", "sending", "landing", "waiting",
                                "abandoning", "ended"}],
         item' \in [Lanes -> [note : Notes, attempt : 1..Attempts] \cup {Nothing}],
         queue' \in [Lanes -> Seq(Notes \cup {Stop})],
         received' \in [Lanes -> SUBSET Notes], landed' \in [Lanes -> SUBSET Notes],
         reports' \in [Lanes -> [Notes -> Nat]], marked' \in [Lanes -> 0..MaxNotes]
  PROVE  TypeOK'
  BY DEF TypeOK, UnchangedByThread

\* The parts of the type that a step of the thread may leave as they are.
LEMMA SameTypes ==
  ASSUME TypeOK
  PROVE  /\ queue' = queue => queue' \in [Lanes -> Seq(Notes \cup {Stop})]
         /\ received' = received => received' \in [Lanes -> SUBSET Notes]
         /\ landed' = landed => landed' \in [Lanes -> SUBSET Notes]
         /\ reports' = reports => reports' \in [Lanes -> [Notes -> Nat]]
         /\ marked' = marked => marked' \in [Lanes -> 0..MaxNotes]
  BY DEF TypeOK

LEMMA HoldsCalls ==
  ASSUME TypeOK, HoldsInv, NEW l \in Lanes, Calls(l)
  PROVE  TypeOK' /\ HoldsInv'
<1>1. CASE Open(l)
  BY <1>1 DEF Open, laneVars, outcomeVars, TypeOK, HoldsInv
<1>2. CASE Take(l)
  <2>1. /\ handed' = [handed EXCEPT ![l] = handed[l] + 1]
        /\ handing' = [handing EXCEPT ![l] = handing[l] \cup {handed[l] + 1}]
        /\ thread' = [thread EXCEPT ![l] = Started(thread[l])]
        /\ handed[l] \in 0..MaxNotes /\ handed[l] + 1 \in Notes /\ handed[l] + 1 \in 0..MaxNotes
        /\ item' = item
    BY <1>2, LaneAssumption DEF Take, TypeOK, Notes
  <2>2. HoldsInv'
    BY <2>1 DEF HoldsInv, TypeOK, Started, Busy
  <2>3. thread' \in [Lanes -> {"none", "idle", "sending", "landing", "waiting",
                               "abandoning", "ended"}]
    BY <2>1 DEF TypeOK, Started
  <2>4. handing' \in [Lanes -> SUBSET Notes] /\ handed' \in [Lanes -> 0..MaxNotes]
    BY <2>1 DEF TypeOK
  <2> QED
    BY <1>2, <2>2, <2>3, <2>4 DEF Take, TypeOK, outcomeVars
<1>3. CASE TakeNoMore(l)
  <2>1. /\ handed' = [handed EXCEPT ![l] = handed[l] + 1]
        /\ reports' = [reports EXCEPT ![l][handed[l] + 1] = reports[l][handed[l] + 1] + 1]
        /\ handed[l] \in 0..MaxNotes /\ handed[l] + 1 \in Notes /\ handed[l] + 1 \in 0..MaxNotes
    BY <1>3, LaneAssumption DEF TakeNoMore, TypeOK, Notes
  <2>2. reports' \in [Lanes -> [Notes -> Nat]] /\ handed' \in [Lanes -> 0..MaxNotes]
    BY <2>1 DEF TypeOK
  <2> QED
    BY <1>3, <2>2 DEF TakeNoMore, TypeOK, HoldsInv
<1>4. ASSUME NEW n \in Notes, Put(l, n) PROVE TypeOK' /\ HoldsInv'
  <2>1. queue' = [queue EXCEPT ![l] = Append(queue[l], n)]
    BY <1>4 DEF Put
  <2>2. Append(queue[l], n) \in Seq(Notes \cup {Stop})
    BY AppendProperties DEF TypeOK
  <2>3. queue' \in [Lanes -> Seq(Notes \cup {Stop})]
    BY <2>1, <2>2 DEF TypeOK
  <2>4. handing' \in [Lanes -> SUBSET Notes] /\ late' \in [Lanes -> SUBSET Notes]
    BY <1>4 DEF Put, TypeOK
  <2> QED
    BY <1>4, <2>3, <2>4 DEF Put, TypeOK, HoldsInv, outcomeVars
<1> QED
  BY <1>1, <1>2, <1>3, <1>4 DEF Calls

LEMMA HoldsSends ==
  ASSUME TypeOK, HoldsInv, NEW l \in Lanes, Sends(l)
  PROVE  TypeOK' /\ HoldsInv'
<1>1. thread[l] = "sending" /\ thread[l] \in Busy /\ UnchangedByThread
  BY DEF Sends, Lands, Refused, Fails, Busy
<1>2. item[l] \in [note : Notes, attempt : 1..Attempts] /\ item[l] # Nothing
  <2>1. item[l] \in [note : Notes, attempt : 1..Attempts]
    BY <1>1 DEF HoldsInv
  <2>2. Nothing.note \notin Notes
    BY DEF Nothing, Notes
  <2> QED
    BY <2>1, <2>2
<1>3. CASE Lands(l)
  <2>1. received' \in [Lanes -> SUBSET Notes] /\ landed' \in [Lanes -> SUBSET Notes]
    BY <1>2, <1>3 DEF Lands, TypeOK
  <2>2. Becomes(l, "landing", item[l])
    BY <1>3 DEF Lands
  <2>3. /\ thread' \in [Lanes -> {"none", "idle", "sending", "landing", "waiting",
                                   "abandoning", "ended"}]
        /\ item' \in [Lanes -> [note : Notes, attempt : 1..Attempts] \cup {Nothing}]
        /\ HoldsInv'
    BY <1>2, <2>2, BecomesKeeps
  <2>4. UNCHANGED <<queue, reports, marked>>
    BY <1>3 DEF Lands
  <2> QED
    BY <1>1, <2>1, <2>3, <2>4, ThreadFrame, SameTypes
<1>4. CASE Refused(l)
  <2>1. GivesUp(l) /\ UNCHANGED <<queue, received>>
    BY <1>4 DEF Refused
  <2> QED
    BY <1>1, <2>1, GivesUpKeeps, ThreadFrame, SameTypes
<1>5. CASE Fails(l)
  <2>1. received' \in [Lanes -> SUBSET Notes]
    <3>1. \/ received' = [received EXCEPT ![l] = received[l] \cup {item[l].note}]
          \/ received' = received
      BY <1>5 DEF Fails
    <3>2. item[l].note \in Notes /\ received \in [Lanes -> SUBSET Notes]
      BY <1>2 DEF TypeOK
    <3> QED
      BY <3>1, <3>2
  <2>2. CASE LastAttempt(item[l].attempt)
    <3>1. GivesUp(l) /\ UNCHANGED queue
      BY <1>5, <2>2 DEF Fails
    <3> QED
      BY <1>1, <2>1, <3>1, GivesUpKeeps, ThreadFrame, SameTypes
  <2>3. CASE ~ LastAttempt(item[l].attempt)
    <3>1. item[l].attempt < Attempts
      BY <1>2, <2>3, LaneAssumption DEF LastAttempt
    <3>2. Becomes(l, "waiting", item[l]) /\ UNCHANGED <<landed, reports, marked>>
      BY <1>5, <2>3 DEF Fails
    <3>3. /\ thread' \in [Lanes -> {"none", "idle", "sending", "landing", "waiting",
                                     "abandoning", "ended"}]
          /\ item' \in [Lanes -> [note : Notes, attempt : 1..Attempts] \cup {Nothing}]
          /\ HoldsInv'
      BY <1>2, <3>1, <3>2, BecomesKeeps
    <3>4. UNCHANGED queue
      BY <1>5 DEF Fails
    <3> QED
      BY <1>1, <2>1, <3>2, <3>3, <3>4, ThreadFrame, SameTypes
  <2> QED
    BY <2>2, <2>3
<1> QED
  BY <1>3, <1>4, <1>5 DEF Sends

LEMMA HoldsWorks ==
  ASSUME TypeOK, HoldsInv, NEW l \in Lanes, Works(l)
  PROVE  TypeOK' /\ HoldsInv'
<1> DEFINE Queued == Seq(Notes \cup {Stop})
<1>1. UnchangedByThread
  BY DEF Works, Get, Marks, Retries, CutShort, Abandons
<1>2. ASSUME queue[l] # <<>>
      PROVE  Head(queue[l]) \in Notes \cup {Stop} /\ Tail(queue[l]) \in Queued
  BY <1>2, HeadTailProperties DEF TypeOK
<1>3. ASSUME thread[l] \in Busy
      PROVE  item[l] \in [note : Notes, attempt : 1..Attempts] /\ item[l] # Nothing
  <2>1. item[l] \in [note : Notes, attempt : 1..Attempts]
    BY <1>3 DEF HoldsInv
  <2>2. Nothing.note \notin Notes
    BY DEF Nothing, Notes
  <2> QED
    BY <2>1, <2>2
<1>4. CASE Get(l)
  <2>1. queue' \in [Lanes -> Queued]
    <3>1. queue' = [queue EXCEPT ![l] = Tail(queue[l])] /\ queue[l] # <<>>
      BY <1>4 DEF Get
    <3> QED
      BY <1>2, <3>1 DEF TypeOK
  <2>2. CASE Head(queue[l]) = Stop
    <3>1. Becomes(l, "abandoning", Nothing)
      BY <1>4, <2>2 DEF Get
    <3>2. /\ thread' \in [Lanes -> {"none", "idle", "sending", "landing", "waiting",
                                     "abandoning", "ended"}]
          /\ item' \in [Lanes -> [note : Notes, attempt : 1..Attempts] \cup {Nothing}]
          /\ HoldsInv'
      BY <3>1, LetsGoKeeps
    <3>3. UNCHANGED <<received, landed, reports, marked>>
      BY <1>4 DEF Get, outcomeVars
    <3> QED
      BY <1>1, <2>1, <3>2, <3>3, ThreadFrame, SameTypes
  <2>3. CASE Head(queue[l]) # Stop
    <3> DEFINE holding == [note |-> Head(queue[l]), attempt |-> 1]
    <3>1. holding \in [note : Notes, attempt : 1..Attempts]
      BY <1>2, <1>4, <2>3, LaneAssumption DEF Get
    <3>2. holding # Nothing
      BY <3>1 DEF Nothing, Notes
    <3>3. Becomes(l, "sending", holding)
      BY <1>4, <2>3 DEF Get
    <3> HIDE DEF holding
    <3>4. /\ thread' \in [Lanes -> {"none", "idle", "sending", "landing", "waiting",
                                     "abandoning", "ended"}]
          /\ item' \in [Lanes -> [note : Notes, attempt : 1..Attempts] \cup {Nothing}]
          /\ HoldsInv'
      BY <3>1, <3>2, <3>3, BecomesKeeps
    <3>5. UNCHANGED <<received, landed, reports, marked>>
      BY <1>4 DEF Get, outcomeVars
    <3> QED
      BY <1>1, <2>1, <3>4, <3>5, ThreadFrame, SameTypes
  <2> QED
    BY <2>2, <2>3
<1>5. CASE Marks(l)
  <2>1. marked' \in [Lanes -> 0..MaxNotes]
    <3>1. \/ marked' = [marked EXCEPT ![l] = IF item[l].note > marked[l] THEN item[l].note
                                             ELSE marked[l]]
          \/ marked' = marked
      BY <1>5 DEF Marks
    <3>2. item[l].note \in 0..MaxNotes /\ marked \in [Lanes -> 0..MaxNotes]
      BY <1>3, <1>5, LaneAssumption DEF Marks, Busy, TypeOK, Notes
    <3> QED
      BY <3>1, <3>2
  <2>2. Becomes(l, "idle", Nothing)
    BY <1>5 DEF Marks
  <2>3. /\ thread' \in [Lanes -> {"none", "idle", "sending", "landing", "waiting",
                                   "abandoning", "ended"}]
        /\ item' \in [Lanes -> [note : Notes, attempt : 1..Attempts] \cup {Nothing}]
        /\ HoldsInv'
    BY <2>2, LetsGoKeeps
  <2>4. UNCHANGED <<queue, received, landed, reports>>
    BY <1>5 DEF Marks
  <2> QED
    BY <1>1, <2>1, <2>3, <2>4, ThreadFrame, SameTypes
<1>6. CASE Retries(l)
  <2> DEFINE holding == [item[l] EXCEPT !.attempt = item[l].attempt + 1]
  <2>1. thread[l] = "waiting" /\ Becomes(l, "sending", holding)
    BY <1>6 DEF Retries
  <2>2. /\ item[l] \in [note : Notes, attempt : 1..Attempts]
        /\ item[l].attempt \in Nat /\ item[l].attempt < Attempts
    BY <1>3, <2>1 DEF HoldsInv, Busy
  <2>3. holding \in [note : Notes, attempt : 1..Attempts]
    BY <2>2, LaneAssumption
  <2>4. holding # Nothing
    BY <2>3 DEF Nothing, Notes
  <2> HIDE DEF holding
  <2>5. /\ thread' \in [Lanes -> {"none", "idle", "sending", "landing", "waiting",
                                   "abandoning", "ended"}]
        /\ item' \in [Lanes -> [note : Notes, attempt : 1..Attempts] \cup {Nothing}]
        /\ HoldsInv'
    BY <2>1, <2>3, <2>4, BecomesKeeps
  <2>6. UNCHANGED <<queue, received, landed, reports, marked>>
    BY <1>6 DEF Retries, outcomeVars
  <2> QED
    BY <1>1, <2>1, <2>5, <2>6, ThreadFrame, SameTypes
<1>7. CASE CutShort(l)
  <2>1. thread[l] \in Busy /\ GivesUp(l)
    BY <1>7 DEF CutShort, Busy
  <2>2. UNCHANGED <<queue, received>>
    BY <1>7 DEF CutShort
  <2> QED
    BY <1>1, <2>1, <2>2, GivesUpKeeps, ThreadFrame, SameTypes
<1>8. CASE Abandons(l)
  <2>1. CASE queue[l] = <<>>
    <3>1. Becomes(l, "ended", Nothing) /\ UNCHANGED <<queue, reports>>
      BY <1>8, <2>1 DEF Abandons
    <3>2. /\ thread' \in [Lanes -> {"none", "idle", "sending", "landing", "waiting",
                                     "abandoning", "ended"}]
          /\ item' \in [Lanes -> [note : Notes, attempt : 1..Attempts] \cup {Nothing}]
          /\ HoldsInv'
      BY <3>1, LetsGoKeeps
    <3>3. UNCHANGED <<received, landed, marked>>
      BY <1>8 DEF Abandons
    <3> QED
      BY <1>1, <3>1, <3>2, <3>3, ThreadFrame, SameTypes
  <2>2. CASE queue[l] # <<>>
    <3>1. /\ queue' = [queue EXCEPT ![l] = Tail(queue[l])]
          /\ \/ Head(queue[l]) # Stop /\ reports' = [reports EXCEPT
                  ![l][Head(queue[l])] = reports[l][Head(queue[l])] + 1]
             \/ reports' = reports
          /\ UNCHANGED <<thread, item>>
      BY <1>8, <2>2 DEF Abandons
    <3>2. queue' \in [Lanes -> Queued]
      BY <1>2, <2>2, <3>1 DEF TypeOK
    <3>3. reports' \in [Lanes -> [Notes -> Nat]]
      <4>1. reports \in [Lanes -> [Notes -> Nat]]
        BY DEF TypeOK
      <4>2. CASE Head(queue[l]) # Stop
        <5>1. Head(queue[l]) \in Notes
          BY <1>2, <2>2, <4>2
        <5>2. reports' = [reports EXCEPT ![l][Head(queue[l])] = reports[l][Head(queue[l])] + 1]
          BY <3>1, <4>2, <1>8, <2>2 DEF Abandons
        <5> QED
          BY <5>1, <5>2, ReportsOne
      <4>3. CASE Head(queue[l]) = Stop
        BY <3>1, <4>1, <4>3
      <4> QED
        BY <4>2, <4>3
    <3> QED
      BY <1>1, <1>8, <3>1, <3>2, <3>3 DEF Abandons, TypeOK, HoldsInv, UnchangedByThread
  <2> QED
    BY <2>1, <2>2
<1> QED
  BY <1>4, <1>5, <1>6, <1>7, <1>8 DEF Works

\* What a close may do to the calls of close that are under way.
LEMMA CloserKeeps ==
  ASSUME TypeOK, NEW k \in Closers, NEW stage \in Stages, NEW lanes \in SUBSET Lanes,
         NEW left \in SUBSET Lanes, NEW owes \in SUBSET Lanes,
         closer' = [closer EXCEPT ![k] = [stage |-> stage, lanes |-> lanes,
                                          left |-> left, owes |-> owes]]
  PROVE  closer' \in [Closers -> [stage : Stages, lanes : SUBSET Lanes,
                                  left : SUBSET Lanes, owes : SUBSET Lanes]]
  BY DEF TypeOK

LEMMA HoldsCloses ==
  ASSUME TypeOK, HoldsInv,
         \/ \E l \in Lanes : CloseLane(l)
         \/ CloseNotifier
         \/ \E k \in Closers : Closes(k)
  PROVE  TypeOK' /\ HoldsInv'
<1> DEFINE Calling == [stage : Stages, lanes : SUBSET Lanes, left : SUBSET Lanes,
                       owes : SUBSET Lanes]
<1>1. closer \in [Closers -> Calling]
  BY DEF TypeOK
<1>2. ASSUME NEW l \in Lanes, CloseLane(l) PROVE TypeOK' /\ HoldsInv'
  <2>1. closer' \in [Closers -> Calling]
    <3>1. l \in Closers /\ {l} \in SUBSET Lanes /\ {} \in SUBSET Lanes /\ "stopping" \in Stages
      BY DEF Closers, Stages
    <3> QED
      BY <1>2, <3>1, CloserKeeps DEF CloseLane, Begin
  <2> QED
    BY <1>2, <2>1 DEF CloseLane, TypeOK, HoldsInv, laneVars, outcomeVars
<1>3. CASE CloseNotifier
  <2>1. closer' \in [Closers -> Calling]
    <3>1. /\ Notifier \in Closers /\ opened \in SUBSET Lanes /\ {} \in SUBSET Lanes
          /\ "stopping" \in Stages
      BY DEF Closers, Stages, TypeOK
    <3> QED
      BY <1>3, <3>1, CloserKeeps DEF CloseNotifier, Begin
  <2> QED
    BY <1>3, <2>1 DEF CloseNotifier, TypeOK, HoldsInv, laneVars, outcomeVars
<1>4. ASSUME NEW k \in Closers, NEW l \in Lanes, MarkStopped(k, l) PROVE TypeOK' /\ HoldsInv'
  <2>1. closer' \in [Closers -> Calling]
    BY ZenonT(40), <1>1, <1>4 DEF MarkStopped
  <2> QED
    BY <1>4, <2>1 DEF MarkStopped, TypeOK, HoldsInv, outcomeVars
<1>5. ASSUME NEW k \in Closers, NEW l \in Lanes, PutStop(k, l) PROVE TypeOK' /\ HoldsInv'
  <2>1. closer' \in [Closers -> Calling]
    BY <1>1, <1>5 DEF PutStop
  <2>2. queue' \in [Lanes -> Seq(Notes \cup {Stop})]
    <3>1. Append(queue[l], Stop) \in Seq(Notes \cup {Stop})
      BY AppendProperties DEF TypeOK
    <3> QED
      BY <1>5, <3>1 DEF PutStop, TypeOK
  <2> QED
    BY <1>5, <2>1, <2>2 DEF PutStop, TypeOK, HoldsInv, outcomeVars
<1>6. ASSUME NEW k \in Closers, Joins(k) PROVE TypeOK' /\ HoldsInv'
  <2>1. closer' \in [Closers -> Calling]
    BY <1>1, <1>6 DEF Joins, Stages
  <2> QED
    BY <1>6, <2>1 DEF Joins, TypeOK, HoldsInv, laneVars, outcomeVars
<1>7. ASSUME NEW k \in Closers, CutsShort(k) PROVE TypeOK' /\ HoldsInv'
  <2>1. closer' \in [Closers -> Calling]
    BY <1>1, <1>7 DEF CutsShort, Stages
  <2>2. stopping' \in BOOLEAN /\ abandon' \in [Lanes -> BOOLEAN]
    BY <1>7 DEF CutsShort, TypeOK
  <2> QED
    BY <1>7, <2>1, <2>2 DEF CutsShort, TypeOK, HoldsInv, outcomeVars
<1>8. ASSUME NEW k \in Closers, Returns(k) PROVE TypeOK' /\ HoldsInv'
  <2>1. closer' \in [Closers -> Calling]
    BY <1>1, <1>8 DEF Returns, Stages
  <2>2. opened' \subseteq Lanes
    BY <1>8 DEF Returns, TypeOK
  <2> QED
    BY <1>8, <2>1, <2>2 DEF Returns, TypeOK, HoldsInv, laneVars, outcomeVars
<1> QED
  BY <1>2, <1>3, <1>4, <1>5, <1>6, <1>7, <1>8 DEF Closes

LEMMA HoldsStep == TypeOK /\ HoldsInv /\ [Next]_vars => (TypeOK /\ HoldsInv)'
<1> SUFFICES ASSUME TypeOK, HoldsInv, [Next]_vars PROVE TypeOK' /\ HoldsInv'
  OBVIOUS
<1>1. CASE UNCHANGED vars
  BY <1>1 DEF vars, laneVars, outcomeVars, TypeOK, HoldsInv
<1> QED
  BY <1>1, HoldsCalls, HoldsSends, HoldsWorks, HoldsCloses DEF Next

\* Every reachable state of the lanes has its type, the attempt a lane is on
\* and the furthest mark included: no retry goes past the last attempt.
THEOREM LaneTypeCorrect == Spec => []TypeOK
  BY HoldsInit, HoldsStep, PTL DEF Spec

-----------------------------------------------------------------------------
(* One fate for each notification.                                         *)

\* A notification is in a queue, and in it once.
In(n, q) == \E i \in DOMAIN q : q[i] = n
OnceEach(q) == \A i, j \in DOMAIN q : q[i] = q[j] => q[i] = Stop \/ i = j

LEMMA QueueAppend ==
  ASSUME NEW q \in Seq(Notes \cup {Stop}), NEW e \in Notes \cup {Stop},
         OnceEach(q), e = Stop \/ ~ In(e, q)
  PROVE  /\ OnceEach(Append(q, e))
         /\ \A n : In(n, Append(q, e)) <=> In(n, q) \/ n = e
<1> DEFINE r == Append(q, e)
<1>1. /\ Len(q) \in Nat /\ DOMAIN q = 1..Len(q) /\ DOMAIN r = 1..Len(q) + 1
      /\ \A i \in 1..Len(q) : r[i] = q[i]
      /\ r[Len(q) + 1] = e
  BY AppendProperties, LenProperties
<1> HIDE DEF r
<1>2. OnceEach(r)
  <2> SUFFICES ASSUME NEW i \in DOMAIN r, NEW j \in DOMAIN r, r[i] = r[j], r[i] # Stop
               PROVE  i = j
    BY DEF OnceEach
  <2>1. CASE i \in 1..Len(q) /\ j \in 1..Len(q)
    BY <1>1, <2>1 DEF OnceEach
  <2>2. CASE i = Len(q) + 1 \/ j = Len(q) + 1
    BY <1>1, <2>2 DEF In
  <2> QED
    BY <1>1, <2>1, <2>2
<1>3. \A n : In(n, r) <=> In(n, q) \/ n = e
  BY <1>1 DEF In
<1> QED
  BY <1>2, <1>3 DEF r

LEMMA QueueTail ==
  ASSUME NEW q \in Seq(Notes \cup {Stop}), q # <<>>, OnceEach(q)
  PROVE  /\ OnceEach(Tail(q))
         /\ In(Head(q), q)
         /\ Head(q) # Stop => ~ In(Head(q), Tail(q))
         /\ \A n : In(n, Tail(q)) => In(n, q)
         /\ \A n : In(n, q) => n = Head(q) \/ In(n, Tail(q))
<1> DEFINE r == Tail(q)
           h == Head(q)
<1>1. /\ Len(q) \in Nat /\ Len(q) > 0 /\ DOMAIN q = 1..Len(q) /\ h = q[1]
      /\ DOMAIN r = 1..Len(q) - 1
      /\ \A i \in 1..Len(q) - 1 : r[i] = q[i + 1]
  <2>1. Len(q) \in Nat /\ Len(q) > 0 /\ DOMAIN q = 1..Len(q) /\ h = q[1]
    BY LenProperties, EmptySeq
  <2>2. r \in Seq(Notes \cup {Stop}) /\ Len(r) = Len(q) - 1
        /\ \A i \in 1..Len(r) : r[i] = q[i + 1]
    BY HeadTailProperties
  <2> QED
    BY <2>1, <2>2, LenProperties
<1> HIDE DEF r, h
<1>2. OnceEach(r)
  BY SMTT(30), <1>1 DEF OnceEach
<1>3. In(h, q)
  BY <1>1 DEF In
<1>4. h # Stop => ~ In(h, r)
  BY <1>1 DEF In, OnceEach
<1>5. \A n : In(n, r) => In(n, q)
  BY <1>1 DEF In
<1>6. ASSUME NEW i \in DOMAIN q PROVE q[i] = h \/ In(q[i], r)
  <2>1. CASE i = 1
    BY <1>1, <2>1
  <2>2. CASE i # 1
    <3>1. i - 1 \in DOMAIN r /\ r[i - 1] = q[i]
      BY <1>1, <2>2
    <3> QED
      BY <3>1 DEF In
  <2> QED
    BY <2>1, <2>2
<1>7. \A n : In(n, q) => n = h \/ In(n, r)
  BY <1>6 DEF In
<1> QED
  BY <1>2, <1>3, <1>4, <1>5, <1>7 DEF r, h

\* Where a notification may be: held by the thread with its send still to be
\* decided, or done with.
Held(l, n) == thread[l] \in {"sending", "waiting"} /\ item[l].note = n
Done(l, n) == n \in landed[l] \/ reports[l][n] > 0

\* A notification is in one place at most: not yet handed over, in the hands of
\* a caller, in the queue, held, sent, or reported.
FateOf(l) ==
  /\ OnceEach(queue[l])
  /\ \A n \in Notes :
       /\ n > handed[l] => n \notin handing[l] /\ ~ In(n, queue[l]) /\ ~ Held(l, n) /\ ~ Done(l, n)
       /\ n \in handing[l] => ~ In(n, queue[l]) /\ ~ Held(l, n) /\ ~ Done(l, n)
       /\ In(n, queue[l]) => ~ Held(l, n) /\ ~ Done(l, n)
       /\ Held(l, n) => ~ Done(l, n)
       /\ reports[l][n] <= (IF n \in landed[l] THEN 0 ELSE 1)

FateInv == \A l \in Lanes : FateOf(l)

\* A step that leaves a lane's notifications alone leaves their fate alone.
LEMMA FateFrame ==
  ASSUME NEW l \in Lanes, FateOf(l),
         handed'[l] = handed[l], handing'[l] = handing[l], queue'[l] = queue[l],
         thread'[l] = thread[l], item'[l] = item[l],
         landed'[l] = landed[l], reports'[l] = reports[l]
  PROVE  FateOf(l)'
  BY DEF FateOf, OnceEach, In, Held, Done

LEMMA FateInit == Init => FateInv
<1> SUFFICES ASSUME Init, NEW l \in Lanes PROVE FateOf(l)
  BY DEF FateInv
<1>1. DOMAIN queue[l] = {}
  BY DEF Init
<1> QED
  BY <1>1 DEF Init, FateOf, OnceEach, In, Held, Done

LEMMA BecomesAt ==
  ASSUME TypeOK, NEW l \in Lanes, NEW doing, NEW holding, Becomes(l, doing, holding)
  PROVE  /\ thread'[l] = doing /\ item'[l] = holding
         /\ \A m \in Lanes : m # l => thread'[m] = thread[m] /\ item'[m] = item[m]
  BY DEF Becomes, TypeOK

\* A notification the thread held and gave up on is reported, for the first time.
LEMMA FateGivesUp ==
  ASSUME TypeOK, HoldsInv, FateInv, NEW l \in Lanes, thread[l] \in {"sending", "waiting"},
         GivesUp(l), UnchangedByThread, UNCHANGED queue
  PROVE  FateInv'
<1> DEFINE n == item[l].note
<1>1. n \in Notes /\ Held(l, n)
  BY DEF HoldsInv, Busy, Held
<1>2. /\ reports' = [reports EXCEPT ![l][n] = reports[l][n] + 1]
      /\ Becomes(l, "idle", Nothing) /\ landed' = landed
      /\ handed' = handed /\ handing' = handing /\ queue' = queue
  BY DEF GivesUp, UnchangedByThread
<1> HIDE DEF n
<1>3. /\ reports'[l][n] = reports[l][n] + 1
      /\ \A m \in Notes : m # n => reports'[l][m] = reports[l][m]
      /\ \A m \in Lanes : m # l => reports'[m] = reports[m]
  BY <1>1, <1>2, ReportsOne
<1>4. /\ thread'[l] = "idle"
      /\ \A m \in Lanes : m # l => thread'[m] = thread[m] /\ item'[m] = item[m]
  BY <1>2, BecomesAt
<1>5. \A m \in Notes : reports[l][m] \in Nat
  BY DEF TypeOK
<1>6. FateOf(l)'
  <2>1. \A m \in Notes : ~ Held(l, m)'
    BY <1>4 DEF Held
  <2>2. \A m \in Notes : Done(l, m)' <=> Done(l, m) \/ m = n
    BY <1>1, <1>2, <1>3, <1>5 DEF Done
  <2>3. FateOf(l) /\ ~ Done(l, n) /\ ~ In(n, queue[l]) /\ n \notin handing[l] /\ ~ (n > handed[l])
    BY <1>1 DEF FateInv, FateOf
  <2>4. \A m \in Notes : reports'[l][m] <= (IF m \in landed'[l] THEN 0 ELSE 1)
    BY <1>2, <1>3, <1>5, <2>3 DEF FateOf, Done
  <2> QED
    BY <1>2, <2>1, <2>2, <2>3, <2>4 DEF FateOf
<1>7. ASSUME NEW m \in Lanes, m # l PROVE FateOf(m)'
  BY <1>2, <1>3, <1>4, <1>7, FateFrame DEF FateInv
<1> QED
  BY <1>6, <1>7 DEF FateInv

LEMMA FateCalls ==
  ASSUME TypeOK, HoldsInv, FateInv, NEW l \in Lanes, Calls(l)
  PROVE  FateInv'
<1>1. FateOf(l) /\ \A m \in Lanes : FateOf(m)
  BY DEF FateInv
<1>2. CASE Open(l)
  BY <1>1, <1>2, FateFrame DEF Open, laneVars, outcomeVars, FateInv
<1>3. CASE Take(l)
  <2> DEFINE n == handed[l] + 1
  <2>1. /\ handed' = [handed EXCEPT ![l] = n]
        /\ handing' = [handing EXCEPT ![l] = handing[l] \cup {n}]
        /\ thread' = [thread EXCEPT ![l] = Started(thread[l])]
        /\ UNCHANGED <<queue, item, landed, reports>>
    BY <1>3 DEF Take, outcomeVars
  <2>2. n \in Notes /\ n > handed[l] /\ handed[l] \in Nat
    BY <1>3, LaneAssumption DEF Take, TypeOK, Notes
  <2>3. \A m \in Notes : m > n => m > handed[l]
    BY <2>2 DEF Notes
  <2> HIDE DEF n
  <2>4. handed'[l] = n /\ handing'[l] = handing[l] \cup {n} /\ thread'[l] = Started(thread[l])
    BY <2>1 DEF TypeOK
  <2>5. FateOf(l)'
    <3>1. \A m \in Notes : Held(l, m)' <=> Held(l, m)
      BY <2>1, <2>4 DEF Held, Started
    <3>2. \A m \in Notes : Done(l, m)' <=> Done(l, m)
      BY <2>1 DEF Done
    <3>3. n \notin handing[l] /\ ~ In(n, queue[l]) /\ ~ Held(l, n) /\ ~ Done(l, n)
      BY <1>1, <2>2 DEF FateOf
    <3>4. ~ (n > n)
      BY <2>2 DEF Notes
    <3> QED
      BY <1>1, <2>1, <2>3, <2>4, <3>1, <3>2, <3>3, <3>4 DEF FateOf
  <2>6. ASSUME NEW m \in Lanes, m # l PROVE FateOf(m)'
    <3>1. handed'[m] = handed[m] /\ handing'[m] = handing[m] /\ thread'[m] = thread[m]
      BY <2>1, <2>6 DEF TypeOK
    <3> QED
      BY <1>1, <2>1, <3>1, FateFrame
  <2> QED
    BY <2>5, <2>6 DEF FateInv
<1>4. CASE TakeNoMore(l)
  <2> DEFINE n == handed[l] + 1
  <2>1. /\ handed' = [handed EXCEPT ![l] = n]
        /\ reports' = [reports EXCEPT ![l][n] = reports[l][n] + 1]
        /\ UNCHANGED <<queue, item, landed, thread, handing>>
    BY <1>4 DEF TakeNoMore
  <2>2. n \in Notes /\ n > handed[l] /\ handed[l] \in Nat
    BY <1>4, LaneAssumption DEF TakeNoMore, TypeOK, Notes
  <2>3. (\A m \in Notes : m > n => m > handed[l]) /\ ~ (n > n)
    BY <2>2 DEF Notes
  <2> HIDE DEF n
  <2>4. /\ handed'[l] = n
        /\ reports'[l][n] = reports[l][n] + 1
        /\ \A m \in Notes : m # n => reports'[l][m] = reports[l][m]
        /\ \A m \in Lanes : m # l => reports'[m] = reports[m] /\ handed'[m] = handed[m]
    BY <2>1, <2>2, ReportsOne DEF TypeOK
  <2>5. FateOf(l)'
    <3>1. \A m \in Notes : reports[l][m] \in Nat
      BY DEF TypeOK
    <3>2. \A m \in Notes : Held(l, m)' <=> Held(l, m)
      BY <2>1 DEF Held
    <3>3. \A m \in Notes : Done(l, m)' <=> Done(l, m) \/ m = n
      BY <2>1, <2>2, <2>4, <3>1 DEF Done
    <3>4. n \notin handing[l] /\ ~ In(n, queue[l]) /\ ~ Held(l, n) /\ ~ Done(l, n)
      BY <1>1, <2>2 DEF FateOf
    <3>5. \A m \in Notes : reports'[l][m] <= (IF m \in landed'[l] THEN 0 ELSE 1)
      BY <1>1, <2>1, <2>4, <3>1, <3>4 DEF FateOf, Done
    <3> QED
      BY <1>1, <2>1, <2>3, <2>4, <3>2, <3>3, <3>4, <3>5 DEF FateOf
  <2>6. ASSUME NEW m \in Lanes, m # l PROVE FateOf(m)'
    BY <1>1, <2>1, <2>4, <2>6, FateFrame
  <2> QED
    BY <2>5, <2>6 DEF FateInv
<1>5. ASSUME NEW n \in Notes, Put(l, n) PROVE FateInv'
  <2>1. /\ n \in handing[l] /\ handing' = [handing EXCEPT ![l] = handing[l] \ {n}]
        /\ queue' = [queue EXCEPT ![l] = Append(queue[l], n)]
        /\ UNCHANGED <<handed, thread, item, landed, reports>>
    BY <1>5 DEF Put, outcomeVars
  <2>2. /\ handing'[l] = handing[l] \ {n} /\ queue'[l] = Append(queue[l], n)
        /\ \A m \in Lanes : m # l => handing'[m] = handing[m] /\ queue'[m] = queue[m]
    BY <2>1 DEF TypeOK
  <2>3. ~ In(n, queue[l]) /\ ~ Held(l, n) /\ ~ Done(l, n) /\ ~ (n > handed[l])
    BY <1>1, <2>1 DEF FateOf
  <2>4. /\ OnceEach(Append(queue[l], n))
        /\ \A m : In(m, Append(queue[l], n)) <=> In(m, queue[l]) \/ m = n
    BY <1>1, <2>3, QueueAppend DEF FateOf, TypeOK
  <2>5. FateOf(l)'
    <3>1. \A m \in Notes : (Held(l, m)' <=> Held(l, m)) /\ (Done(l, m)' <=> Done(l, m))
      BY <2>1 DEF Held, Done
    <3>2. OnceEach(queue[l])'
      BY <2>2, <2>4 DEF OnceEach
    <3>3. \A m : In(m, queue[l])' <=> In(m, queue[l]) \/ m = n
      BY <2>2, <2>4 DEF In
    <3> QED
      BY <1>1, <2>1, <2>2, <2>3, <3>1, <3>2, <3>3 DEF FateOf
  <2>6. ASSUME NEW m \in Lanes, m # l PROVE FateOf(m)'
    BY <1>1, <2>1, <2>2, <2>6, FateFrame
  <2> QED
    BY <2>5, <2>6 DEF FateInv
<1> QED
  BY <1>2, <1>3, <1>4, <1>5 DEF Calls

LEMMA FateSends ==
  ASSUME TypeOK, HoldsInv, FateInv, NEW l \in Lanes, Sends(l)
  PROVE  FateInv'
<1> DEFINE n == item[l].note
<1>1. /\ thread[l] = "sending" /\ UnchangedByThread /\ queue' = queue
      /\ handed' = handed /\ handing' = handing
  BY DEF Sends, Lands, Refused, Fails, UnchangedByThread
<1>2. n \in Notes /\ Held(l, n)
  BY <1>1 DEF HoldsInv, Busy, Held
<1>3. FateOf(l) /\ \A m \in Lanes : FateOf(m)
  BY DEF FateInv
<1>4. CASE Lands(l)
  <2>1. /\ landed' = [landed EXCEPT ![l] = landed[l] \cup {n}]
        /\ Becomes(l, "landing", item[l]) /\ reports' = reports
    BY <1>4 DEF Lands
  <2> HIDE DEF n
  <2>2. /\ landed'[l] = landed[l] \cup {n}
        /\ \A m \in Lanes : m # l => landed'[m] = landed[m]
    BY <2>1 DEF TypeOK
  <2>3. /\ thread'[l] = "landing"
        /\ \A m \in Lanes : m # l => thread'[m] = thread[m] /\ item'[m] = item[m]
    BY <2>1, BecomesAt
  <2>4. FateOf(l)'
    <3>1. \A m \in Notes : ~ Held(l, m)'
      BY <2>3 DEF Held
    <3>2. \A m \in Notes : Done(l, m)' <=> Done(l, m) \/ m = n
      BY <2>1, <2>2 DEF Done
    <3>3. n \notin handing[l] /\ ~ In(n, queue[l]) /\ ~ Done(l, n) /\ ~ (n > handed[l])
      BY <1>2, <1>3 DEF FateOf
    <3>4. reports[l][n] = 0
      BY <1>2, <3>3 DEF Done, TypeOK
    <3>5. \A m \in Notes : reports'[l][m] <= (IF m \in landed'[l] THEN 0 ELSE 1)
      BY <1>3, <2>1, <2>2, <3>4 DEF FateOf
    <3> QED
      BY <1>1, <1>3, <3>1, <3>2, <3>3, <3>5 DEF FateOf
  <2>5. ASSUME NEW m \in Lanes, m # l PROVE FateOf(m)'
    BY <1>1, <1>3, <2>1, <2>2, <2>3, <2>5, FateFrame
  <2> QED
    BY <2>4, <2>5 DEF FateInv
<1>5. CASE Refused(l)
  BY <1>1, <1>5, FateGivesUp DEF Refused
<1>6. CASE Fails(l)
  <2>1. CASE LastAttempt(item[l].attempt)
    <3>1. GivesUp(l)
      BY <1>6, <2>1 DEF Fails
    <3> QED
      BY <1>1, <3>1, FateGivesUp
  <2>2. CASE ~ LastAttempt(item[l].attempt)
    <3>1. Becomes(l, "waiting", item[l]) /\ UNCHANGED <<landed, reports>>
      BY <1>6, <2>2 DEF Fails
    <3>2. /\ thread'[l] = "waiting" /\ item'[l] = item[l]
          /\ \A m \in Lanes : m # l => thread'[m] = thread[m] /\ item'[m] = item[m]
      BY <3>1, BecomesAt
    <3>3. FateOf(l)'
      <4>1. \A m \in Notes : (Held(l, m)' <=> Held(l, m)) /\ (Done(l, m)' <=> Done(l, m))
        BY <1>1, <3>1, <3>2 DEF Held, Done
      <4> QED
        BY <1>1, <1>3, <3>1, <4>1 DEF FateOf
    <3>4. ASSUME NEW m \in Lanes, m # l PROVE FateOf(m)'
      BY <1>1, <1>3, <3>1, <3>2, <3>4, FateFrame
    <3> QED
      BY <3>3, <3>4 DEF FateInv
  <2> QED
    BY <2>1, <2>2
<1> QED
  BY <1>4, <1>5, <1>6 DEF Sends

LEMMA FateWorks ==
  ASSUME TypeOK, HoldsInv, FateInv, NEW l \in Lanes, Works(l)
  PROVE  FateInv'
<1>1. UnchangedByThread /\ handed' = handed /\ handing' = handing
  BY DEF Works, Get, Marks, Retries, CutShort, Abandons, UnchangedByThread
<1>2. FateOf(l) /\ \A m \in Lanes : FateOf(m)
  BY DEF FateInv
<1>3. ASSUME queue[l] # <<>>, queue' = [queue EXCEPT ![l] = Tail(queue[l])]
      PROVE  /\ Head(queue[l]) \in Notes \cup {Stop}
             /\ OnceEach(queue'[l])
             /\ In(Head(queue[l]), queue[l])
             /\ Head(queue[l]) # Stop => ~ In(Head(queue[l]), queue'[l])
             /\ \A n \in Notes : In(n, queue'[l]) => In(n, queue[l])
             /\ \A m \in Lanes : m # l => queue'[m] = queue[m]
  <2>1. queue[l] \in Seq(Notes \cup {Stop}) /\ OnceEach(queue[l])
    BY <1>2 DEF TypeOK, FateOf
  <2>2. queue'[l] = Tail(queue[l]) /\ \A m \in Lanes : m # l => queue'[m] = queue[m]
    BY <1>3 DEF TypeOK
  <2>3. Head(queue[l]) \in Notes \cup {Stop}
    BY <1>3, <2>1, HeadTailProperties
  <2>4. /\ OnceEach(Tail(queue[l]))
        /\ In(Head(queue[l]), queue[l])
        /\ Head(queue[l]) # Stop => ~ In(Head(queue[l]), Tail(queue[l]))
        /\ \A n : In(n, Tail(queue[l])) => In(n, queue[l])
    BY <1>3, <2>1, QueueTail
  <2>5. OnceEach(queue'[l])
    BY <2>2, <2>4 DEF OnceEach
  <2>6. \A n : In(n, queue'[l]) <=> In(n, Tail(queue[l]))
    BY <2>2 DEF In
  <2> QED
    BY <2>2, <2>3, <2>4, <2>5, <2>6
<1>4. CASE Get(l)
  <2>1. /\ thread[l] = "idle" /\ queue[l] # <<>>
        /\ queue' = [queue EXCEPT ![l] = Tail(queue[l])]
        /\ landed' = landed /\ reports' = reports
    BY <1>4 DEF Get, outcomeVars
  <2>2. \A n \in Notes : (Done(l, n)' <=> Done(l, n)) /\ ~ Held(l, n)
    BY <2>1 DEF Done, Held
  <2>3. CASE Head(queue[l]) = Stop
    <3>1. Becomes(l, "abandoning", Nothing)
      BY <1>4, <2>3 DEF Get
    <3>2. /\ thread'[l] = "abandoning"
          /\ \A m \in Lanes : m # l => thread'[m] = thread[m] /\ item'[m] = item[m]
      BY <3>1, BecomesAt
    <3>3. \A n \in Notes : ~ Held(l, n)'
      BY <3>2 DEF Held
    <3>4. FateOf(l)'
      BY <1>1, <1>2, <1>3, <2>1, <2>2, <3>3 DEF FateOf
    <3>5. ASSUME NEW m \in Lanes, m # l PROVE FateOf(m)'
      BY <1>1, <1>2, <1>3, <2>1, <3>2, <3>5, FateFrame
    <3> QED
      BY <3>4, <3>5 DEF FateInv
  <2>4. CASE Head(queue[l]) # Stop
    <3> DEFINE head == Head(queue[l])
    <3>1. Becomes(l, "sending", [note |-> head, attempt |-> 1])
      BY <1>4, <2>4 DEF Get
    <3>2. /\ thread'[l] = "sending" /\ item'[l].note = head
          /\ \A m \in Lanes : m # l => thread'[m] = thread[m] /\ item'[m] = item[m]
      BY <3>1, BecomesAt
    <3>3. /\ head \in Notes /\ In(head, queue[l]) /\ ~ In(head, queue'[l])
          /\ OnceEach(queue'[l]) /\ \A n \in Notes : In(n, queue'[l]) => In(n, queue[l])
      BY <1>3, <2>1, <2>4
    <3> HIDE DEF head
    <3>4. \A n \in Notes : Held(l, n)' <=> n = head
      BY <3>2 DEF Held
    <3>5. FateOf(l)'
      BY <1>1, <1>2, <2>1, <2>2, <3>3, <3>4 DEF FateOf
    <3>6. ASSUME NEW m \in Lanes, m # l PROVE FateOf(m)'
      BY <1>1, <1>2, <1>3, <2>1, <3>2, <3>6, FateFrame
    <3> QED
      BY <3>5, <3>6 DEF FateInv
  <2> QED
    BY <2>3, <2>4
<1>5. CASE Marks(l)
  <2>1. /\ thread[l] = "landing" /\ Becomes(l, "idle", Nothing)
        /\ queue' = queue /\ landed' = landed /\ reports' = reports
    BY <1>5 DEF Marks
  <2>2. /\ thread'[l] = "idle"
        /\ \A m \in Lanes : m # l => thread'[m] = thread[m] /\ item'[m] = item[m]
    BY <2>1, BecomesAt
  <2>3. \A n \in Notes : ~ Held(l, n)' /\ ~ Held(l, n) /\ (Done(l, n)' <=> Done(l, n))
    BY <2>1, <2>2 DEF Held, Done
  <2>4. FateOf(l)'
    BY <1>1, <1>2, <2>1, <2>3 DEF FateOf
  <2>5. ASSUME NEW m \in Lanes, m # l PROVE FateOf(m)'
    BY <1>1, <1>2, <2>1, <2>2, <2>5, FateFrame
  <2> QED
    BY <2>4, <2>5 DEF FateInv
<1>6. CASE Retries(l)
  <2> DEFINE holding == [item[l] EXCEPT !.attempt = item[l].attempt + 1]
  <2>1. /\ thread[l] = "waiting" /\ Becomes(l, "sending", holding)
        /\ queue' = queue /\ landed' = landed /\ reports' = reports
    BY <1>6 DEF Retries, outcomeVars
  <2>2. holding.note = item[l].note
    <3>1. item[l] \in [note : Notes, attempt : 1..Attempts]
      BY <2>1 DEF HoldsInv, Busy
    <3> QED
      BY <3>1
  <2> HIDE DEF holding
  <2>3. /\ thread'[l] = "sending" /\ item'[l].note = item[l].note
        /\ \A m \in Lanes : m # l => thread'[m] = thread[m] /\ item'[m] = item[m]
    BY <2>1, <2>2, BecomesAt
  <2>4. \A n \in Notes : (Held(l, n)' <=> Held(l, n)) /\ (Done(l, n)' <=> Done(l, n))
    BY <2>1, <2>3 DEF Held, Done
  <2>5. FateOf(l)'
    BY <1>1, <1>2, <2>1, <2>4 DEF FateOf
  <2>6. ASSUME NEW m \in Lanes, m # l PROVE FateOf(m)'
    BY <1>1, <1>2, <2>1, <2>3, <2>6, FateFrame
  <2> QED
    BY <2>5, <2>6 DEF FateInv
<1>7. CASE CutShort(l)
  BY <1>1, <1>7, FateGivesUp DEF CutShort
<1>8. CASE Abandons(l)
  <2>1. thread[l] = "abandoning" /\ landed' = landed
    BY <1>8 DEF Abandons
  <2>2. CASE queue[l] = <<>>
    <3>1. Becomes(l, "ended", Nothing) /\ queue' = queue /\ reports' = reports
      BY <1>8, <2>2 DEF Abandons
    <3>2. /\ thread'[l] = "ended"
          /\ \A m \in Lanes : m # l => thread'[m] = thread[m] /\ item'[m] = item[m]
      BY <3>1, BecomesAt
    <3>3. \A n \in Notes : ~ Held(l, n)' /\ ~ Held(l, n) /\ (Done(l, n)' <=> Done(l, n))
      BY <2>1, <3>1, <3>2 DEF Held, Done
    <3>4. FateOf(l)'
      BY <1>1, <1>2, <2>1, <3>1, <3>3 DEF FateOf
    <3>5. ASSUME NEW m \in Lanes, m # l PROVE FateOf(m)'
      BY <1>1, <1>2, <2>1, <3>1, <3>2, <3>5, FateFrame
    <3> QED
      BY <3>4, <3>5 DEF FateInv
  <2>3. CASE queue[l] # <<>>
    <3> DEFINE head == Head(queue[l])
    <3>1. /\ queue' = [queue EXCEPT ![l] = Tail(queue[l])]
          /\ reports' = IF head = Stop THEN reports
                        ELSE [reports EXCEPT ![l][head] = reports[l][head] + 1]
          /\ thread' = thread /\ item' = item
      BY <1>8, <2>3 DEF Abandons
    <3>2. /\ head \in Notes \cup {Stop} /\ In(head, queue[l])
          /\ head # Stop => ~ In(head, queue'[l])
          /\ OnceEach(queue'[l]) /\ \A n \in Notes : In(n, queue'[l]) => In(n, queue[l])
          /\ \A m \in Lanes : m # l => queue'[m] = queue[m]
      BY <1>3, <2>3, <3>1
    <3> HIDE DEF head
    <3>3. \A n \in Notes : ~ Held(l, n)' /\ ~ Held(l, n)
      BY <2>1, <3>1 DEF Held
    <3>4. CASE head = Stop
      <4>1. reports' = reports
        BY <3>1, <3>4
      <4>2. \A n \in Notes : Done(l, n)' <=> Done(l, n)
        BY <2>1, <4>1 DEF Done
      <4>3. FateOf(l)'
        BY <1>1, <1>2, <2>1, <3>2, <3>3, <4>1, <4>2 DEF FateOf
      <4>4. ASSUME NEW m \in Lanes, m # l PROVE FateOf(m)'
        BY <1>1, <1>2, <2>1, <3>1, <3>2, <4>1, <4>4, FateFrame
      <4> QED
        BY <4>3, <4>4 DEF FateInv
    <3>5. CASE head # Stop
      <4>1. head \in Notes /\ reports' = [reports EXCEPT ![l][head] = reports[l][head] + 1]
        BY <3>1, <3>2, <3>5
      <4>2. /\ reports'[l][head] = reports[l][head] + 1
            /\ \A m \in Notes : m # head => reports'[l][m] = reports[l][m]
            /\ \A m \in Lanes : m # l => reports'[m] = reports[m]
        BY <4>1, ReportsOne
      <4>3. \A m \in Notes : reports[l][m] \in Nat
        BY DEF TypeOK
      <4>4. \A n \in Notes : Done(l, n)' <=> Done(l, n) \/ n = head
        BY <2>1, <4>1, <4>2, <4>3 DEF Done
      <4>5. head \notin handing[l] /\ ~ Done(l, head) /\ ~ (head > handed[l])
        BY <1>2, <3>2, <4>1 DEF FateOf
      <4>6. \A m \in Notes : reports'[l][m] <= (IF m \in landed'[l] THEN 0 ELSE 1)
        BY <1>2, <2>1, <4>2, <4>3, <4>5 DEF FateOf, Done
      <4>7. FateOf(l)'
        BY <1>1, <1>2, <3>2, <3>3, <3>5, <4>4, <4>5, <4>6 DEF FateOf
      <4>8. ASSUME NEW m \in Lanes, m # l PROVE FateOf(m)'
        BY <1>1, <1>2, <2>1, <3>1, <3>2, <4>2, <4>8, FateFrame
      <4> QED
        BY <4>7, <4>8 DEF FateInv
    <3> QED
      BY <3>4, <3>5
  <2> QED
    BY <2>2, <2>3
<1> QED
  BY <1>4, <1>5, <1>6, <1>7, <1>8 DEF Works

\* A close touches no notification: its _STOP is all it puts in a queue.
LEMMA FateCloses ==
  ASSUME TypeOK, FateInv,
         \/ \E l \in Lanes : CloseLane(l)
         \/ CloseNotifier
         \/ \E k \in Closers : Closes(k)
  PROVE  FateInv'
<1>1. \A m \in Lanes : FateOf(m)
  BY DEF FateInv
<1>2. ASSUME UNCHANGED <<handed, handing, queue, thread, item, landed, reports>>
      PROVE  FateInv'
  BY <1>1, <1>2, FateFrame DEF FateInv
<1>3. CASE (\E l \in Lanes : CloseLane(l)) \/ CloseNotifier
  BY <1>2, <1>3 DEF CloseLane, CloseNotifier, laneVars, outcomeVars
<1>4. ASSUME NEW k \in Closers,
             Joins(k) \/ CutsShort(k) \/ Returns(k) \/ (\E l \in Lanes : MarkStopped(k, l))
      PROVE  FateInv'
  BY <1>2, <1>4 DEF Joins, CutsShort, Returns, MarkStopped, laneVars, outcomeVars
<1>5. ASSUME NEW k \in Closers, NEW l \in Lanes, PutStop(k, l) PROVE FateInv'
  <2>1. /\ queue' = [queue EXCEPT ![l] = Append(queue[l], Stop)]
        /\ UNCHANGED <<handed, handing, thread, item, landed, reports>>
    BY <1>5 DEF PutStop, outcomeVars
  <2>2. /\ queue'[l] = Append(queue[l], Stop)
        /\ \A m \in Lanes : m # l => queue'[m] = queue[m]
    BY <2>1 DEF TypeOK
  <2>3. /\ OnceEach(queue'[l])
        /\ \A n : In(n, queue'[l]) <=> In(n, queue[l]) \/ n = Stop
    <3>1. queue[l] \in Seq(Notes \cup {Stop}) /\ OnceEach(queue[l])
      BY <1>1 DEF FateOf, TypeOK
    <3>2. /\ OnceEach(Append(queue[l], Stop))
          /\ \A n : In(n, Append(queue[l], Stop)) <=> In(n, queue[l]) \/ n = Stop
      BY <3>1, QueueAppend
    <3> QED
      BY <2>2, <3>2
  <2>4. \A n \in Notes : n # Stop
    BY LaneAssumption DEF Notes
  <2>5. FateOf(l)'
    <3>1. \A n \in Notes : (Held(l, n)' <=> Held(l, n)) /\ (Done(l, n)' <=> Done(l, n))
      BY <2>1 DEF Held, Done
    <3> QED
      BY <1>1, <2>1, <2>3, <2>4, <3>1 DEF FateOf
  <2>6. ASSUME NEW m \in Lanes, m # l PROVE FateOf(m)'
    BY <1>1, <2>1, <2>2, <2>6, FateFrame
  <2> QED
    BY <2>5, <2>6 DEF FateInv
<1> QED
  BY <1>3, <1>4, <1>5 DEF Closes

LEMMA FateStep == TypeOK /\ HoldsInv /\ FateInv /\ [Next]_vars => FateInv'
<1> SUFFICES ASSUME TypeOK, HoldsInv, FateInv, [Next]_vars PROVE FateInv'
  OBVIOUS
<1>1. CASE UNCHANGED vars
  BY <1>1, FateFrame DEF vars, laneVars, outcomeVars, FateInv
<1> QED
  BY <1>1, FateCalls, FateSends, FateWorks, FateCloses DEF Next

\* No notification is reported twice and none that was sent is reported,
\* however many lanes, notifications and attempts there are and whoever closes.
THEOREM FatesAreOne == Spec => []OneFate
<1>1. Init => TypeOK /\ HoldsInv /\ FateInv
  BY HoldsInit, FateInit
<1>2. TypeOK /\ HoldsInv /\ FateInv /\ [Next]_vars => (TypeOK /\ HoldsInv /\ FateInv)'
  BY HoldsStep, FateStep
<1>3. FateInv => OneFate
  BY DEF FateInv, FateOf, OneFate
<1> QED
  BY <1>1, <1>2, <1>3, PTL DEF Spec

-----------------------------------------------------------------------------
(* Only what was sent is marked.                                           *)

\* A thread that is about to mark a row holds a notification that was sent.
MarkInv ==
  /\ OnlySendsAreMarked
  /\ \A l \in Lanes : thread[l] = "landing" => item[l].note \in landed[l]

LEMMA MarkStep == TypeOK /\ HoldsInv /\ MarkInv /\ [Next]_vars => MarkInv'
<1> SUFFICES ASSUME TypeOK, HoldsInv, MarkInv, [Next]_vars PROVE MarkInv'
  OBVIOUS
<1>1. ASSUME UNCHANGED <<thread, item, landed, marked>> PROVE MarkInv'
  BY <1>1 DEF MarkInv, OnlySendsAreMarked
<1>2. ASSUME NEW l \in Lanes, NEW doing, NEW holding, Becomes(l, doing, holding),
             doing # "landing", UNCHANGED <<landed, marked>>
      PROVE  MarkInv'
  <2>1. /\ thread'[l] = doing
        /\ \A m \in Lanes : m # l => thread'[m] = thread[m] /\ item'[m] = item[m]
    BY <1>2, BecomesAt
  <2> QED
    BY <1>2, <2>1 DEF MarkInv, OnlySendsAreMarked
<1>3. ASSUME NEW l \in Lanes, Take(l) PROVE MarkInv'
  <2>1. UNCHANGED <<item, landed, marked>>
        /\ thread' = [thread EXCEPT ![l] = Started(thread[l])]
    BY <1>3 DEF Take, outcomeVars
  <2>2. \A m \in Lanes : thread'[m] = "landing" => thread[m] = "landing"
    BY <2>1 DEF TypeOK, Started
  <2> QED
    BY <2>1, <2>2 DEF MarkInv, OnlySendsAreMarked
<1>4. ASSUME NEW l \in Lanes, Lands(l) PROVE MarkInv'
  <2> DEFINE n == item[l].note
  <2>1. /\ landed' = [landed EXCEPT ![l] = landed[l] \cup {n}] /\ marked' = marked
        /\ Becomes(l, "landing", item[l])
    BY <1>4 DEF Lands
  <2>2. /\ landed'[l] = landed[l] \cup {n}
        /\ \A m \in Lanes : m # l => landed'[m] = landed[m]
    BY <2>1 DEF TypeOK
  <2>3. /\ item'[l] = item[l]
        /\ \A m \in Lanes : m # l => thread'[m] = thread[m] /\ item'[m] = item[m]
    BY <2>1, BecomesAt
  <2>4. \A m \in Lanes : marked'[m] # 0 => RecordsSends /\ marked'[m] \in landed'[m]
    BY <2>1, <2>2 DEF MarkInv, OnlySendsAreMarked
  <2>5. \A m \in Lanes : thread'[m] = "landing" => item'[m].note \in landed'[m]
    BY <2>2, <2>3 DEF MarkInv
  <2> QED
    BY <2>4, <2>5 DEF MarkInv, OnlySendsAreMarked
<1>5. ASSUME NEW l \in Lanes, Marks(l) PROVE MarkInv'
  <2> DEFINE n == item[l].note
  <2>1. /\ thread[l] = "landing" /\ landed' = landed /\ Becomes(l, "idle", Nothing)
        /\ \/ RecordsSends /\ marked' = [marked EXCEPT ![l] = IF n > marked[l] THEN n ELSE marked[l]]
           \/ marked' = marked
    BY <1>5 DEF Marks
  <2>2. n \in landed[l]
    BY <2>1 DEF MarkInv
  <2> HIDE DEF n
  <2>3. \A m \in Lanes : marked'[m] # 0 => RecordsSends /\ marked'[m] \in landed[m]
    BY <2>1, <2>2 DEF MarkInv, OnlySendsAreMarked, TypeOK
  <2>4. /\ thread'[l] = "idle"
        /\ \A m \in Lanes : m # l => thread'[m] = thread[m] /\ item'[m] = item[m]
    BY <2>1, BecomesAt
  <2> QED
    BY <2>1, <2>3, <2>4 DEF MarkInv, OnlySendsAreMarked
<1>6. ASSUME NEW l \in Lanes, GivesUp(l) PROVE MarkInv'
  BY <1>2, <1>6 DEF GivesUp
<1>7. ASSUME NEW l \in Lanes, Refused(l) \/ CutShort(l) PROVE MarkInv'
  BY <1>6, <1>7 DEF Refused, CutShort
<1>8. ASSUME NEW l \in Lanes, Fails(l) PROVE MarkInv'
  <2>1. \/ GivesUp(l)
        \/ Becomes(l, "waiting", item[l]) /\ UNCHANGED <<landed, marked>>
    BY <1>8 DEF Fails
  <2> QED
    BY <1>2, <1>6, <2>1
<1>9. ASSUME NEW l \in Lanes, Get(l) PROVE MarkInv'
  <2>1. UNCHANGED <<landed, marked>>
    BY <1>9 DEF Get, outcomeVars
  <2>2. \/ Becomes(l, "abandoning", Nothing)
        \/ Becomes(l, "sending", [note |-> Head(queue[l]), attempt |-> 1])
    BY <1>9 DEF Get
  <2> QED
    BY <1>2, <2>1, <2>2
<1>10. ASSUME NEW l \in Lanes, Retries(l) PROVE MarkInv'
  <2>1. Becomes(l, "sending", [item[l] EXCEPT !.attempt = item[l].attempt + 1])
        /\ UNCHANGED <<landed, marked>>
    BY <1>10 DEF Retries, outcomeVars
  <2> QED
    BY <1>2, <2>1
<1>11. ASSUME NEW l \in Lanes, Abandons(l) PROVE MarkInv'
  <2>1. UNCHANGED <<landed, marked>>
    BY <1>11 DEF Abandons
  <2>2. Becomes(l, "ended", Nothing) \/ UNCHANGED <<thread, item>>
    BY <1>11 DEF Abandons
  <2> QED
    BY <1>1, <1>2, <2>1, <2>2
<1>12. ASSUME NEW l \in Lanes,
              Open(l) \/ TakeNoMore(l) \/ (\E n \in Notes : Put(l, n)) \/ CloseLane(l)
       PROVE  MarkInv'
  BY <1>1, <1>12 DEF Open, TakeNoMore, Put, CloseLane, laneVars, outcomeVars
<1>13. CASE CloseNotifier \/ (\E k \in Closers : Closes(k)) \/ UNCHANGED vars
  BY <1>1, <1>13
  DEF CloseNotifier, Closes, MarkStopped, PutStop, Joins, CutsShort, Returns,
      laneVars, outcomeVars, vars
<1> QED
  BY <1>3, <1>4, <1>5, <1>7, <1>8, <1>9, <1>10, <1>11, <1>12, <1>13
  DEF Next, Calls, Sends, Works

\* The store's mark never passes a send that returned, and without a store
\* there is no mark: what was given up on is still owed on the record.
THEOREM MarksAreSends == Spec => []OnlySendsAreMarked
<1>1. Init => TypeOK /\ HoldsInv /\ MarkInv
  BY HoldsInit DEF Init, MarkInv, OnlySendsAreMarked
<1>2. TypeOK /\ HoldsInv /\ MarkInv /\ [Next]_vars => (TypeOK /\ HoldsInv /\ MarkInv)'
  BY HoldsStep, MarkStep
<1>3. MarkInv => OnlySendsAreMarked
  BY DEF MarkInv
<1> QED
  BY <1>1, <1>2, <1>3, PTL DEF Spec
-----------------------------------------------------------------------------
(* A close accounts for what its lanes had queued.                         *)

\* Nothing behind a lane's _STOP was queued before it.
BehindStop(l) ==
  \A i, j \in DOMAIN queue[l] :
    i < j /\ queue[l][i] = Stop /\ queue[l][j] \in Notes => queue[l][j] \in late[l]

\* A notification the lane was called with is somewhere: a thread that was never
\* started has none, and one that has come to the _STOP has only late ones left.
AccountOf(l) ==
  /\ \A n \in Notes :
       n <= handed[l] => n \in handing[l] \/ In(n, queue[l]) \/ Held(l, n) \/ Done(l, n)
  /\ thread[l] = "none" => handing[l] = {} /\ \A n \in Notes : ~ In(n, queue[l])
  /\ In(Stop, queue[l]) => Ended(l)
  /\ thread[l] \in {"abandoning", "ended"} =>
       Ended(l) /\ \A n \in Notes : In(n, queue[l]) => n \in late[l]
  /\ BehindStop(l)

\* One close at most has still to queue a lane's _STOP, and a close that waits
\* has stopped its lanes.
ClosersInv ==
  /\ \A k \in Closers : \A l \in closer[k].owes :
       stopped[l] /\ \A other \in Closers : l \in closer[other].owes => other = k
  /\ \A k \in Closers : \A l \in closer[k].lanes :
       /\ l \in closer[k].left \/ stopped[l]
       /\ closer[k].stage \in {"draining", "reporting", "returned"} => l \notin closer[k].left

AccountInv == ClosersInv /\ \A l \in Lanes : AccountOf(l)

\* A step that leaves a lane's queue alone, and what it sends, keeps or reports
\* is somewhere after it, keeps its account.
LEMMA AccountMoves ==
  ASSUME NEW l \in Lanes, AccountOf(l),
         queue'[l] = queue[l], handing'[l] = handing[l], late'[l] = late[l],
         Ended(l) => Ended(l)',
         thread'[l] = thread[l] \/ thread'[l] \notin {"none", "abandoning", "ended"},
         \A n \in Notes : n <= handed'[l] => n <= handed[l] \/ Done(l, n)',
         \A n \in Notes : Held(l, n) => Held(l, n)' \/ Done(l, n)',
         \A n \in Notes : Done(l, n) => Done(l, n)'
  PROVE  AccountOf(l)'
<1>1. \A n : In(n, queue[l])' <=> In(n, queue[l])
  BY DEF In
<1>2. BehindStop(l)'
  BY DEF AccountOf, BehindStop
<1>3. \A n \in Notes :
        n <= handed'[l] => n \in handing'[l] \/ In(n, queue[l])' \/ Held(l, n)' \/ Done(l, n)'
  BY <1>1 DEF AccountOf
<1> QED
  BY <1>1, <1>2, <1>3 DEF AccountOf

LEMMA AccountFrame ==
  ASSUME NEW l \in Lanes, AccountOf(l), Ended(l) => Ended(l)',
         handed'[l] = handed[l], handing'[l] = handing[l], queue'[l] = queue[l],
         late'[l] = late[l], thread'[l] = thread[l], item'[l] = item[l],
         landed'[l] = landed[l], reports'[l] = reports[l]
  PROVE  AccountOf(l)'
<1>1. \A n \in Notes : (Held(l, n)' <=> Held(l, n)) /\ (Done(l, n)' <=> Done(l, n))
  BY DEF Held, Done
<1> QED
  BY <1>1, AccountMoves

LEMMA EndedStays ==
  ASSUME NEW l \in Lanes, UNCHANGED <<stopped, closer>>
  PROVE  Ended(l)' <=> Ended(l)
  BY DEF Ended

LEMMA ClosersFrame ==
  ASSUME ClosersInv, UNCHANGED <<stopped, closer>>
  PROVE  ClosersInv'
  BY DEF ClosersInv

LEMMA AppendAt ==
  ASSUME NEW q \in Seq(Notes \cup {Stop}), NEW e \in Notes \cup {Stop}
  PROVE  /\ Len(q) \in Nat /\ DOMAIN q = 1..Len(q)
         /\ DOMAIN Append(q, e) = 1..Len(q) + 1
         /\ \A i \in 1..Len(q) : Append(q, e)[i] = q[i]
         /\ Append(q, e)[Len(q) + 1] = e
         /\ \A n : In(n, Append(q, e)) <=> In(n, q) \/ n = e
<1> DEFINE r == Append(q, e)
<1>1. /\ Len(q) \in Nat /\ DOMAIN q = 1..Len(q) /\ DOMAIN r = 1..Len(q) + 1
      /\ \A i \in 1..Len(q) : r[i] = q[i]
      /\ r[Len(q) + 1] = e
  BY AppendProperties, LenProperties
<1> HIDE DEF r
<1>2. \A n : In(n, r) <=> In(n, q) \/ n = e
  BY <1>1 DEF In
<1> QED
  BY <1>1, <1>2 DEF r

LEMMA TailAt ==
  ASSUME NEW q \in Seq(Notes \cup {Stop}), q # <<>>
  PROVE  /\ Len(q) \in Nat /\ Len(q) > 0 /\ DOMAIN q = 1..Len(q)
         /\ Head(q) = q[1] /\ Head(q) \in Notes \cup {Stop}
         /\ DOMAIN Tail(q) = 1..Len(q) - 1
         /\ \A i \in 1..Len(q) - 1 : Tail(q)[i] = q[i + 1]
         /\ \A n : In(n, q) <=> n = Head(q) \/ In(n, Tail(q))
<1> DEFINE r == Tail(q)
           h == Head(q)
<1>1. /\ Len(q) \in Nat /\ Len(q) > 0 /\ DOMAIN q = 1..Len(q) /\ h = q[1]
      /\ h \in Notes \cup {Stop}
      /\ DOMAIN r = 1..Len(q) - 1
      /\ \A i \in 1..Len(q) - 1 : r[i] = q[i + 1]
  <2>1. Len(q) \in Nat /\ Len(q) > 0 /\ DOMAIN q = 1..Len(q) /\ h = q[1]
    BY LenProperties, EmptySeq
  <2>2. r \in Seq(Notes \cup {Stop}) /\ Len(r) = Len(q) - 1
        /\ \A i \in 1..Len(r) : r[i] = q[i + 1]
    BY HeadTailProperties
  <2>3. h \in Notes \cup {Stop}
    BY HeadTailProperties
  <2> QED
    BY <2>1, <2>2, <2>3, LenProperties
<1> HIDE DEF r, h
<1>2. \A n : n = h \/ In(n, r) => In(n, q)
  BY <1>1 DEF In
<1>3. ASSUME NEW i \in DOMAIN q PROVE q[i] = h \/ In(q[i], r)
  <2>1. CASE i = 1
    BY <1>1, <2>1
  <2>2. CASE i # 1
    <3>1. i - 1 \in DOMAIN r /\ r[i - 1] = q[i]
      BY <1>1, <2>2
    <3> QED
      BY <3>1 DEF In
  <2> QED
    BY <2>1, <2>2
<1>4. \A n : In(n, q) => n = h \/ In(n, r)
  BY <1>3 DEF In
<1> QED
  BY <1>1, <1>2, <1>4 DEF r, h

LEMMA AccountInit == Init => AccountInv
<1> SUFFICES ASSUME Init PROVE AccountInv
  OBVIOUS
<1>1. ClosersInv
  BY DEF Init, ClosersInv, NotClosing
<1>2. ASSUME NEW l \in Lanes PROVE AccountOf(l)
  <2>1. DOMAIN queue[l] = {} /\ handed[l] = 0 /\ handing[l] = {} /\ thread[l] = "none"
    BY DEF Init
  <2>2. \A n \in Notes : ~ (n <= 0)
    BY LaneAssumption DEF Notes
  <2> QED
    BY <2>1, <2>2 DEF AccountOf, BehindStop, In
<1> QED
  BY <1>1, <1>2 DEF AccountInv

LEMMA AccountCalls ==
  ASSUME TypeOK, AccountInv, NEW l \in Lanes, Calls(l)
  PROVE  AccountInv'
<1>1. ClosersInv /\ \A m \in Lanes : AccountOf(m)
  BY DEF AccountInv
<1>2. UNCHANGED <<stopped, closer>>
  BY DEF Calls, Open, Take, TakeNoMore, Put, laneVars
<1>3. \A m \in Lanes : Ended(m)' <=> Ended(m)
  BY <1>2, EndedStays
<1>4. CASE Open(l)
  <2>1. UNCHANGED <<laneVars, outcomeVars>>
    BY <1>4 DEF Open
  <2>2. \A m \in Lanes : AccountOf(m)'
    BY <1>1, <1>3, <2>1, AccountFrame DEF laneVars, outcomeVars
  <2>3. ClosersInv'
    BY <1>1, <1>2, ClosersFrame
  <2> QED
    BY <2>2, <2>3 DEF AccountInv
<1>5. CASE Take(l)
  <2> DEFINE n == handed[l] + 1
  <2>1. /\ handed' = [handed EXCEPT ![l] = n]
        /\ handing' = [handing EXCEPT ![l] = handing[l] \cup {n}]
        /\ thread' = [thread EXCEPT ![l] = Started(thread[l])]
        /\ UNCHANGED <<queue, item, landed, reports, late>> /\ ~ stopped[l]
    BY <1>5 DEF Take, outcomeVars
  <2>2. \A m \in Notes : m <= n => m <= handed[l] \/ m = n
    BY DEF Notes, TypeOK
  <2> HIDE DEF n
  <2>3. /\ handed'[l] = n /\ handing'[l] = handing[l] \cup {n}
        /\ thread'[l] = Started(thread[l])
        /\ \A m \in Lanes : m # l => /\ handed'[m] = handed[m] /\ handing'[m] = handing[m]
                                     /\ thread'[m] = thread[m]
    BY <2>1 DEF TypeOK
  <2>4. AccountOf(l)'
    <3>1. \A m \in Notes : (Held(l, m)' <=> Held(l, m)) /\ (Done(l, m)' <=> Done(l, m))
      BY <2>1, <2>3 DEF Held, Done, Started
    <3>2. BehindStop(l)' /\ \A m : In(m, queue[l])' <=> In(m, queue[l])
      BY <1>1, <2>1 DEF AccountOf, BehindStop, In
    <3>3. \A m \in Notes : m <= handed'[l] =>
            m \in handing'[l] \/ In(m, queue[l])' \/ Held(l, m)' \/ Done(l, m)'
      BY <1>1, <2>2, <2>3, <3>1, <3>2 DEF AccountOf
    <3>4. thread'[l] # "none" /\ (thread'[l] \in {"abandoning", "ended"} => thread'[l] = thread[l])
      BY <2>3 DEF Started
    <3> QED
      BY <1>1, <1>3, <2>1, <3>2, <3>3, <3>4 DEF AccountOf
  <2>5. ASSUME NEW m \in Lanes, m # l PROVE AccountOf(m)'
    BY <1>1, <1>3, <2>1, <2>3, <2>5, AccountFrame
  <2>6. ClosersInv'
    BY <1>1, <1>2, ClosersFrame
  <2> QED
    BY <2>4, <2>5, <2>6 DEF AccountInv
<1>6. CASE TakeNoMore(l)
  <2> DEFINE n == handed[l] + 1
  <2>1. /\ handed' = [handed EXCEPT ![l] = n]
        /\ reports' = [reports EXCEPT ![l][n] = reports[l][n] + 1]
        /\ UNCHANGED <<queue, item, landed, thread, handing, late>>
    BY <1>6 DEF TakeNoMore
  <2>2. n \in Notes /\ \A m \in Notes : m <= n => m <= handed[l] \/ m = n
    BY <1>6, LaneAssumption DEF TakeNoMore, TypeOK, Notes
  <2> HIDE DEF n
  <2>3. /\ handed'[l] = n /\ reports'[l][n] = reports[l][n] + 1
        /\ \A m \in Notes : m # n => reports'[l][m] = reports[l][m]
        /\ \A m \in Lanes : m # l => reports'[m] = reports[m] /\ handed'[m] = handed[m]
    BY <2>1, <2>2, ReportsOne DEF TypeOK
  <2>4. \A m \in Notes : reports[l][m] \in Nat
    BY DEF TypeOK
  <2>5. \A m \in Notes : (Held(l, m)' <=> Held(l, m)) /\ (Done(l, m)' <=> Done(l, m) \/ m = n)
    BY <2>1, <2>2, <2>3, <2>4 DEF Held, Done
  <2>6. AccountOf(l)'
    BY <1>1, <1>3, <2>1, <2>2, <2>3, <2>5, AccountMoves
  <2>7. ASSUME NEW m \in Lanes, m # l PROVE AccountOf(m)'
    BY <1>1, <1>3, <2>1, <2>3, <2>7, AccountFrame
  <2>8. ClosersInv'
    BY <1>1, <1>2, ClosersFrame
  <2> QED
    BY <2>6, <2>7, <2>8 DEF AccountInv
<1>7. ASSUME NEW n \in Notes, Put(l, n) PROVE AccountInv'
  <2>1. /\ handing' = [handing EXCEPT ![l] = handing[l] \ {n}] /\ n \in handing[l]
        /\ queue' = [queue EXCEPT ![l] = Append(queue[l], n)]
        /\ late' = IF Ended(l) THEN [late EXCEPT ![l] = late[l] \cup {n}] ELSE late
        /\ UNCHANGED <<handed, thread, item, landed, reports>>
    BY <1>7 DEF Put, outcomeVars
  <2>2. /\ handing'[l] = handing[l] \ {n} /\ queue'[l] = Append(queue[l], n)
        /\ late[l] \subseteq late'[l] /\ (Ended(l) => n \in late'[l])
        /\ \A m \in Lanes : m # l => /\ handing'[m] = handing[m] /\ queue'[m] = queue[m]
                                     /\ late'[m] = late[m]
    BY <2>1 DEF TypeOK
  <2>3. /\ queue[l] \in Seq(Notes \cup {Stop}) /\ n # Stop
    BY LaneAssumption DEF TypeOK, Notes
  <2>4. AccountOf(l)'
    <3>1. \A m \in Notes : (Held(l, m)' <=> Held(l, m)) /\ (Done(l, m)' <=> Done(l, m))
      BY <2>1 DEF Held, Done
    <3>2. \A m : In(m, queue[l])' <=> In(m, queue[l]) \/ m = n
      <4>1. \A m : In(m, queue[l])' <=> In(m, Append(queue[l], n))
        BY <2>2 DEF In
      <4> QED
        BY <2>3, <4>1, AppendAt
    <3>3. BehindStop(l)'
      <4> SUFFICES ASSUME NEW i \in DOMAIN queue'[l], NEW j \in DOMAIN queue'[l], i < j,
                          queue'[l][i] = Stop, queue'[l][j] \in Notes
                   PROVE  queue'[l][j] \in late'[l]
        BY DEF BehindStop
      <4>1. /\ Len(queue[l]) \in Nat /\ DOMAIN queue[l] = 1..Len(queue[l])
            /\ DOMAIN queue'[l] = 1..Len(queue[l]) + 1
            /\ \A h \in 1..Len(queue[l]) : queue'[l][h] = queue[l][h]
            /\ queue'[l][Len(queue[l]) + 1] = n
        BY <2>2, <2>3, AppendAt
      <4>2. i \in DOMAIN queue[l] /\ queue[l][i] = Stop
        BY <4>1
      <4>3. CASE j \in DOMAIN queue[l]
        BY <1>1, <2>2, <4>1, <4>2, <4>3 DEF AccountOf, BehindStop
      <4>4. CASE j \notin DOMAIN queue[l]
        <5>1. In(Stop, queue[l]) /\ queue'[l][j] = n
          BY <4>1, <4>2, <4>4 DEF In
        <5> QED
          BY <1>1, <2>2, <5>1 DEF AccountOf
      <4> QED
        BY <4>3, <4>4
    <3>4. thread[l] # "none"
      BY <1>1, <2>1 DEF AccountOf
    <3>5. \A m \in Notes : m <= handed'[l] =>
            m \in handing'[l] \/ In(m, queue[l])' \/ Held(l, m)' \/ Done(l, m)'
      BY <1>1, <2>1, <2>2, <3>1, <3>2 DEF AccountOf
    <3>6. thread'[l] \in {"abandoning", "ended"} =>
            Ended(l)' /\ \A m \in Notes : In(m, queue[l])' => m \in late'[l]
      BY <1>1, <1>3, <2>1, <2>2, <3>2 DEF AccountOf
    <3>7. In(Stop, queue[l])' => Ended(l)'
      BY <1>1, <1>3, <2>3, <3>2 DEF AccountOf
    <3> QED
      BY <2>1, <3>3, <3>4, <3>5, <3>6, <3>7 DEF AccountOf
  <2>5. ASSUME NEW m \in Lanes, m # l PROVE AccountOf(m)'
    BY <1>1, <1>3, <2>1, <2>2, <2>5, AccountFrame
  <2>6. ClosersInv'
    BY <1>1, <1>2, ClosersFrame
  <2> QED
    BY <2>4, <2>5, <2>6 DEF AccountInv
<1> QED
  BY <1>4, <1>5, <1>6, <1>7 DEF Calls

\* The thread goes on with another notification, or with the same one.
LEMMA AccountThread ==
  ASSUME TypeOK, AccountInv, NEW l \in Lanes, NEW doing, NEW holding,
         Becomes(l, doing, holding), UnchangedByThread, UNCHANGED queue,
         thread[l] \notin {"none", "ended"}, doing \notin {"none", "abandoning", "ended"},
         \A m \in Lanes : m # l => landed'[m] = landed[m] /\ reports'[m] = reports[m],
         \A n \in Notes : Held(l, n) => Held(l, n)' \/ Done(l, n)',
         \A n \in Notes : Done(l, n) => Done(l, n)'
  PROVE  AccountInv'
<1>1. ClosersInv /\ \A m \in Lanes : AccountOf(m)
  BY DEF AccountInv
<1>2. UNCHANGED <<stopped, closer, handing, handed, late>>
  BY DEF UnchangedByThread
<1>3. \A m \in Lanes : Ended(m)' <=> Ended(m)
  BY <1>2, EndedStays
<1>4. /\ thread'[l] = doing
      /\ \A m \in Lanes : m # l => thread'[m] = thread[m] /\ item'[m] = item[m]
  BY BecomesAt
<1>5. AccountOf(l)'
  BY <1>1, <1>2, <1>3, <1>4, AccountMoves
<1>6. ASSUME NEW m \in Lanes, m # l PROVE AccountOf(m)'
  BY <1>1, <1>2, <1>3, <1>4, <1>6, AccountFrame
<1>7. ClosersInv'
  BY <1>1, <1>2, ClosersFrame
<1> QED
  BY <1>5, <1>6, <1>7 DEF AccountInv

\* What the thread gives up on is reported.
LEMMA AccountGivesUp ==
  ASSUME TypeOK, HoldsInv, AccountInv, NEW l \in Lanes, thread[l] \in {"sending", "waiting"},
         GivesUp(l), UnchangedByThread, UNCHANGED queue
  PROVE  AccountInv'
<1> DEFINE n == item[l].note
<1>1. n \in Notes
  BY DEF HoldsInv, Busy
<1>2. /\ reports' = [reports EXCEPT ![l][n] = reports[l][n] + 1]
      /\ Becomes(l, "idle", Nothing) /\ landed' = landed
  BY DEF GivesUp
<1>3. \A m \in Notes : Held(l, m) => m = n
  BY DEF Held
<1> HIDE DEF n
<1>4. /\ reports'[l][n] = reports[l][n] + 1
      /\ \A m \in Notes : m # n => reports'[l][m] = reports[l][m]
      /\ \A m \in Lanes : m # l => reports'[m] = reports[m]
  BY <1>1, <1>2, ReportsOne
<1>5. \A m \in Notes : reports[l][m] \in Nat
  BY DEF TypeOK
<1>6. \A m \in Notes : Done(l, m)' <=> Done(l, m) \/ m = n
  BY <1>1, <1>2, <1>4, <1>5 DEF Done
<1> QED
  BY <1>2, <1>3, <1>4, <1>6, AccountThread

LEMMA AccountSends ==
  ASSUME TypeOK, HoldsInv, AccountInv, NEW l \in Lanes, Sends(l)
  PROVE  AccountInv'
<1>1. thread[l] = "sending" /\ UnchangedByThread /\ queue' = queue
  BY DEF Sends, Lands, Refused, Fails
<1>2. CASE Lands(l)
  <2> DEFINE n == item[l].note
  <2>1. /\ landed' = [landed EXCEPT ![l] = landed[l] \cup {n}]
        /\ Becomes(l, "landing", item[l]) /\ reports' = reports
    BY <1>2 DEF Lands
  <2>2. \A m \in Notes : Held(l, m) => m = n
    BY DEF Held
  <2> HIDE DEF n
  <2>3. /\ landed'[l] = landed[l] \cup {n}
        /\ \A m \in Lanes : m # l => landed'[m] = landed[m]
    BY <2>1 DEF TypeOK
  <2>4. \A m \in Notes : Done(l, m)' <=> Done(l, m) \/ m = n
    BY <2>1, <2>3 DEF Done
  <2> QED
    BY <1>1, <2>1, <2>2, <2>3, <2>4, AccountThread
<1>3. CASE Refused(l)
  BY <1>1, <1>3, AccountGivesUp DEF Refused
<1>4. CASE Fails(l)
  <2>1. CASE LastAttempt(item[l].attempt)
    <3>1. GivesUp(l)
      BY <1>4, <2>1 DEF Fails
    <3> QED
      BY <1>1, <3>1, AccountGivesUp
  <2>2. CASE ~ LastAttempt(item[l].attempt)
    <3>1. Becomes(l, "waiting", item[l]) /\ UNCHANGED <<landed, reports>>
      BY <1>4, <2>2 DEF Fails
    <3>2. thread'[l] = "waiting" /\ item'[l] = item[l]
      BY <3>1, BecomesAt
    <3>3. \A m \in Notes : (Held(l, m) => Held(l, m)') /\ (Done(l, m)' <=> Done(l, m))
      BY <3>1, <3>2 DEF Held, Done
    <3> QED
      BY <1>1, <3>1, <3>3, AccountThread
  <2> QED
    BY <2>1, <2>2
<1> QED
  BY <1>2, <1>3, <1>4 DEF Sends

\* The first in the queue is taken out: what stays behind the _STOP is late.
LEMMA BehindStopTail ==
  ASSUME TypeOK, NEW l \in Lanes, queue[l] # <<>>, AccountOf(l),
         queue'[l] = Tail(queue[l]), late' = late
  PROVE  /\ BehindStop(l)'
         /\ Head(queue[l]) \in Notes \cup {Stop}
         /\ \A n : In(n, queue[l]) <=> n = Head(queue[l]) \/ In(n, queue[l])'
         /\ Head(queue[l]) = Stop => \A n \in Notes : In(n, queue[l])' => n \in late[l]
<1>1. queue[l] \in Seq(Notes \cup {Stop})
  BY DEF TypeOK
<1>2. /\ Len(queue[l]) \in Nat /\ Len(queue[l]) > 0 /\ DOMAIN queue[l] = 1..Len(queue[l])
      /\ Head(queue[l]) = queue[l][1] /\ Head(queue[l]) \in Notes \cup {Stop}
      /\ DOMAIN queue'[l] = 1..Len(queue[l]) - 1
      /\ \A i \in 1..Len(queue[l]) - 1 : queue'[l][i] = queue[l][i + 1]
      /\ \A n : In(n, queue[l]) <=> n = Head(queue[l]) \/ In(n, Tail(queue[l]))
  BY <1>1, TailAt
<1>3. \A i \in DOMAIN queue'[l] : i + 1 \in DOMAIN queue[l] /\ queue'[l][i] = queue[l][i + 1]
  BY <1>2
<1>4. BehindStop(l)'
  <2> SUFFICES ASSUME NEW i \in DOMAIN queue'[l], NEW j \in DOMAIN queue'[l], i < j,
                      queue'[l][i] = Stop, queue'[l][j] \in Notes
               PROVE  queue'[l][j] \in late'[l]
    BY DEF BehindStop
  <2>1. i + 1 < j + 1
    BY <1>2
  <2> QED
    BY <1>3, <2>1 DEF AccountOf, BehindStop
<1>5. ASSUME Head(queue[l]) = Stop, NEW n \in Notes, In(n, queue[l])' PROVE n \in late[l]
  <2>1. PICK i \in DOMAIN queue'[l] : queue'[l][i] = n
    BY <1>5 DEF In
  <2>2. 1 \in DOMAIN queue[l] /\ i + 1 \in DOMAIN queue[l] /\ 1 < i + 1 /\ queue[l][i + 1] = n
    BY <1>2, <1>3, <2>1
  <2> QED
    BY <1>2, <1>5, <2>2 DEF AccountOf, BehindStop
<1>6. \A n : In(n, queue[l])' <=> In(n, Tail(queue[l]))
  BY DEF In
<1> QED
  BY <1>2, <1>4, <1>5, <1>6

LEMMA AccountGet ==
  ASSUME TypeOK, AccountInv, NEW l \in Lanes, Get(l)
  PROVE  AccountInv'
<1>1. ClosersInv /\ \A m \in Lanes : AccountOf(m)
  BY DEF AccountInv
<1>2. /\ thread[l] = "idle" /\ queue[l] # <<>>
      /\ queue' = [queue EXCEPT ![l] = Tail(queue[l])]
      /\ UNCHANGED <<landed, reports, stopped, closer, handing, handed, late>>
  BY DEF Get, outcomeVars, UnchangedByThread
<1>3. \A m \in Lanes : Ended(m)' <=> Ended(m)
  BY <1>2, EndedStays
<1>4. /\ queue'[l] = Tail(queue[l])
      /\ \A m \in Lanes : m # l => queue'[m] = queue[m]
  BY <1>2 DEF TypeOK
<1>5. /\ BehindStop(l)'
      /\ Head(queue[l]) \in Notes \cup {Stop}
      /\ \A n : In(n, queue[l]) <=> n = Head(queue[l]) \/ In(n, queue[l])'
      /\ Head(queue[l]) = Stop => \A n \in Notes : In(n, queue[l])' => n \in late[l]
  BY <1>1, <1>2, <1>4, BehindStopTail
<1>6. \A n \in Notes : (Done(l, n)' <=> Done(l, n)) /\ ~ Held(l, n)
  BY <1>2 DEF Done, Held
<1>7. \E doing \in {"abandoning", "sending"} : \E holding : Becomes(l, doing, holding)
  BY DEF Get
<1>8. /\ thread'[l] \in {"abandoning", "sending"}
      /\ \A m \in Lanes : m # l => thread'[m] = thread[m] /\ item'[m] = item[m]
  BY <1>7, BecomesAt
<1>9. AccountOf(l)'
  <2>1. CASE Head(queue[l]) = Stop
    <3>1. thread'[l] = "abandoning"
      <4>1. Becomes(l, "abandoning", Nothing)
        BY <2>1 DEF Get
      <4> QED
        BY <4>1, BecomesAt
    <3>2. Ended(l)'
      BY <1>1, <1>3, <1>5, <2>1 DEF AccountOf
    <3>3. \A n \in Notes : n # Stop
      BY LaneAssumption DEF Notes
    <3>4. \A n \in Notes : n <= handed'[l] =>
            n \in handing'[l] \/ In(n, queue[l])' \/ Held(l, n)' \/ Done(l, n)'
      BY <1>1, <1>2, <1>5, <1>6, <2>1, <3>3 DEF AccountOf
    <3> QED
      BY <1>2, <1>5, <2>1, <3>1, <3>2, <3>4 DEF AccountOf
  <2>2. CASE Head(queue[l]) # Stop
    <3>1. thread'[l] = "sending" /\ item'[l].note = Head(queue[l])
      <4>1. Becomes(l, "sending", [note |-> Head(queue[l]), attempt |-> 1])
        BY <2>2 DEF Get
      <4> QED
        BY <4>1, BecomesAt
    <3>2. \A n \in Notes : n <= handed'[l] =>
            n \in handing'[l] \/ In(n, queue[l])' \/ Held(l, n)' \/ Done(l, n)'
      BY <1>1, <1>2, <1>5, <1>6, <3>1 DEF AccountOf, Held
    <3>3. In(Stop, queue[l])' => Ended(l)'
      BY <1>1, <1>3, <1>5 DEF AccountOf
    <3> QED
      BY <1>5, <3>1, <3>2, <3>3 DEF AccountOf
  <2> QED
    BY <2>1, <2>2
<1>10. ASSUME NEW m \in Lanes, m # l PROVE AccountOf(m)'
  BY <1>1, <1>2, <1>3, <1>4, <1>8, <1>10, AccountFrame
<1>11. ClosersInv'
  BY <1>1, <1>2, ClosersFrame
<1> QED
  BY <1>9, <1>10, <1>11 DEF AccountInv

LEMMA AccountAbandons ==
  ASSUME TypeOK, AccountInv, NEW l \in Lanes, Abandons(l)
  PROVE  AccountInv'
<1>1. ClosersInv /\ \A m \in Lanes : AccountOf(m)
  BY DEF AccountInv
<1>2. /\ thread[l] = "abandoning"
      /\ UNCHANGED <<landed, stopped, closer, handing, handed, late>>
  BY DEF Abandons, UnchangedByThread
<1>3. \A m \in Lanes : Ended(m)' <=> Ended(m)
  BY <1>2, EndedStays
<1>4. \A n \in Notes : ~ Held(l, n)
  BY <1>2 DEF Held
<1>5. CASE queue[l] = <<>>
  <2>1. Becomes(l, "ended", Nothing) /\ UNCHANGED <<queue, reports>>
    BY <1>5 DEF Abandons
  <2>2. /\ thread'[l] = "ended"
        /\ \A m \in Lanes : m # l => thread'[m] = thread[m] /\ item'[m] = item[m]
    BY <2>1, BecomesAt
  <2>3. \A n \in Notes : ~ Held(l, n)' /\ (Done(l, n)' <=> Done(l, n))
    BY <1>2, <2>1, <2>2 DEF Held, Done
  <2>4. BehindStop(l)' /\ \A n : In(n, queue[l])' <=> In(n, queue[l])
    BY <1>1, <1>2, <2>1 DEF AccountOf, BehindStop, In
  <2>5. AccountOf(l)'
    BY <1>1, <1>2, <1>3, <1>4, <2>2, <2>3, <2>4 DEF AccountOf
  <2>6. ASSUME NEW m \in Lanes, m # l PROVE AccountOf(m)'
    BY <1>1, <1>2, <1>3, <2>1, <2>2, <2>6, AccountFrame
  <2>7. ClosersInv'
    BY <1>1, <1>2, ClosersFrame
  <2> QED
    BY <2>5, <2>6, <2>7 DEF AccountInv
<1>6. CASE queue[l] # <<>>
  <2> DEFINE head == Head(queue[l])
  <2>1. /\ queue' = [queue EXCEPT ![l] = Tail(queue[l])]
        /\ reports' = IF head = Stop THEN reports
                      ELSE [reports EXCEPT ![l][head] = reports[l][head] + 1]
        /\ thread' = thread /\ item' = item
    BY <1>6 DEF Abandons
  <2>2. /\ queue'[l] = Tail(queue[l])
        /\ \A m \in Lanes : m # l => queue'[m] = queue[m]
    BY <2>1 DEF TypeOK
  <2>3. /\ BehindStop(l)' /\ head \in Notes \cup {Stop}
        /\ \A n : In(n, queue[l]) <=> n = head \/ In(n, queue[l])'
    BY <1>1, <1>2, <1>6, <2>2, BehindStopTail
  <2> HIDE DEF head
  <2>4. /\ \A n \in Notes : Done(l, n) \/ n = head => Done(l, n)'
        /\ \A m \in Lanes : m # l => reports'[m] = reports[m]
    <3>1. \A n \in Notes : reports[l][n] \in Nat /\ n # Stop
      BY LaneAssumption DEF TypeOK, Notes
    <3>2. CASE head = Stop
      BY <1>2, <2>1, <3>1, <3>2 DEF Done
    <3>3. CASE head # Stop
      <4>1. head \in Notes /\ reports' = [reports EXCEPT ![l][head] = reports[l][head] + 1]
        BY <2>1, <2>3, <3>3
      <4>2. /\ reports'[l][head] = reports[l][head] + 1
            /\ \A m \in Notes : m # head => reports'[l][m] = reports[l][m]
            /\ \A m \in Lanes : m # l => reports'[m] = reports[m]
        BY <4>1, ReportsOne
      <4> QED
        BY <1>2, <3>1, <4>1, <4>2 DEF Done
    <3> QED
      BY <3>2, <3>3
  <2>5. AccountOf(l)'
    <3>1. \A n \in Notes : n <= handed'[l] =>
            n \in handing'[l] \/ In(n, queue[l])' \/ Held(l, n)' \/ Done(l, n)'
      BY <1>1, <1>2, <1>4, <2>3, <2>4 DEF AccountOf
    <3>2. Ended(l)' /\ \A n \in Notes : In(n, queue[l])' => n \in late'[l]
      BY <1>1, <1>2, <1>3, <2>3 DEF AccountOf
    <3> QED
      BY <1>2, <2>1, <2>3, <3>1, <3>2 DEF AccountOf
  <2>6. ASSUME NEW m \in Lanes, m # l PROVE AccountOf(m)'
    BY <1>1, <1>2, <1>3, <2>1, <2>2, <2>4, <2>6, AccountFrame
  <2>7. ClosersInv'
    BY <1>1, <1>2, ClosersFrame
  <2> QED
    BY <2>5, <2>6, <2>7 DEF AccountInv
<1> QED
  BY <1>5, <1>6

LEMMA AccountWorks ==
  ASSUME TypeOK, HoldsInv, AccountInv, NEW l \in Lanes, Works(l)
  PROVE  AccountInv'
<1>1. CASE Marks(l)
  <2>1. /\ thread[l] = "landing" /\ Becomes(l, "idle", Nothing) /\ UnchangedByThread
        /\ UNCHANGED <<queue, landed, reports>>
    BY <1>1 DEF Marks
  <2>2. \A n \in Notes : ~ Held(l, n) /\ (Done(l, n)' <=> Done(l, n))
    BY <2>1 DEF Held, Done
  <2> QED
    BY <2>1, <2>2, AccountThread
<1>2. CASE Retries(l)
  <2> DEFINE holding == [item[l] EXCEPT !.attempt = item[l].attempt + 1]
  <2>1. /\ thread[l] = "waiting" /\ Becomes(l, "sending", holding) /\ UnchangedByThread
        /\ UNCHANGED <<queue, landed, reports>>
    BY <1>2 DEF Retries, outcomeVars
  <2>2. holding.note = item[l].note
    <3>1. item[l] \in [note : Notes, attempt : 1..Attempts]
      BY <2>1 DEF HoldsInv, Busy
    <3> QED
      BY <3>1
  <2> HIDE DEF holding
  <2>3. thread'[l] = "sending" /\ item'[l] = holding
    BY <2>1, BecomesAt
  <2>4. \A n \in Notes : (Held(l, n) => Held(l, n)') /\ (Done(l, n)' <=> Done(l, n))
    BY <2>1, <2>2, <2>3 DEF Held, Done
  <2> QED
    BY <2>1, <2>4, AccountThread
<1>3. CASE CutShort(l)
  BY <1>3, AccountGivesUp DEF CutShort
<1> QED
  BY <1>1, <1>2, <1>3, AccountGet, AccountAbandons DEF Works

\* The parts of the lanes a step of a close leaves alone, but for _STOP.
LEMMA AccountCloses ==
  ASSUME TypeOK, AccountInv,
         \/ \E l \in Lanes : CloseLane(l)
         \/ CloseNotifier
         \/ \E k \in Closers : Closes(k)
  PROVE  AccountInv'
<1>1. ClosersInv /\ \A m \in Lanes : AccountOf(m)
  BY DEF AccountInv
<1>2. /\ \A k \in Closers : closer[k].lanes \subseteq Lanes /\ closer[k].left \subseteq Lanes
                            /\ closer[k].owes \subseteq Lanes
      /\ DOMAIN closer = Closers /\ DOMAIN stopped = Lanes
  BY DEF TypeOK
<1>3. ASSUME UNCHANGED <<handed, handing, queue, thread, item, late, landed, reports>>,
             \A l \in Lanes : Ended(l) => Ended(l)'
      PROVE  \A l \in Lanes : AccountOf(l)'
  BY <1>1, <1>3, AccountFrame
<1>4. ASSUME NEW k \in Closers, NEW lanes \in SUBSET Lanes, Begin(k, lanes),
             UNCHANGED <<laneVars, outcomeVars>>
      PROVE  AccountInv'
  <2>1. /\ closer'[k] = [stage |-> "stopping", lanes |-> lanes, left |-> lanes, owes |-> {}]
        /\ \A j \in Closers : j # k => closer'[j] = closer[j]
        /\ stopped' = stopped /\ thread' = thread
    BY <1>2, <1>4 DEF Begin, laneVars
  <2>2. ClosersInv'
    BY <1>1, <2>1 DEF ClosersInv
  <2>3. \A l \in Lanes : Ended(l) => Ended(l)'
    BY <2>1 DEF Ended
  <2> QED
    BY <1>3, <1>4, <2>2, <2>3 DEF AccountInv, laneVars, outcomeVars
<1>5. ASSUME NEW l \in Lanes, CloseLane(l) PROVE AccountInv'
  BY <1>4, <1>5 DEF CloseLane, Closers
<1>6. CASE CloseNotifier
  BY <1>4, <1>6 DEF CloseNotifier, Closers, TypeOK
<1>7. ASSUME NEW k \in Closers, NEW l \in Lanes, MarkStopped(k, l) PROVE AccountInv'
  <2>1. /\ closer[k].stage = "stopping" /\ closer[k].owes = {}
        /\ closer'[k].stage = "stopping" /\ closer'[k].lanes = closer[k].lanes
        /\ closer'[k].left = closer[k].left \ {l}
        /\ closer'[k].owes = IF stopped[l] THEN {} ELSE {l}
        /\ \A j \in Closers : j # k => closer'[j] = closer[j]
        /\ stopped'[l] /\ \A m \in Lanes : m # l => stopped'[m] = stopped[m]
        /\ thread' = thread
    BY <1>2, <1>7 DEF MarkStopped, TypeOK
  <2>2. ClosersInv'
    BY <1>1, <1>2, <2>1 DEF ClosersInv
  <2>3. \A m \in Lanes : Ended(m) => Ended(m)'
    BY <2>1 DEF Ended
  <2> QED
    BY <1>3, <1>7, <2>2, <2>3 DEF AccountInv, MarkStopped, outcomeVars
<1>8. ASSUME NEW k \in Closers, NEW l \in Lanes, PutStop(k, l) PROVE AccountInv'
  <2>1. /\ l \in closer[k].owes
        /\ queue' = [queue EXCEPT ![l] = Append(queue[l], Stop)]
        /\ closer'[k].stage = closer[k].stage /\ closer'[k].lanes = closer[k].lanes
        /\ closer'[k].left = closer[k].left /\ closer'[k].owes = {}
        /\ \A j \in Closers : j # k => closer'[j] = closer[j]
        /\ UNCHANGED <<stopped, handed, handing, thread, item, late, landed, reports>>
    BY <1>2, <1>8 DEF PutStop, TypeOK, outcomeVars
  <2>2. ClosersInv'
    BY <1>1, <2>1 DEF ClosersInv
  <2>3. Ended(l)' /\ \A m \in Lanes : Ended(m) => Ended(m)'
    BY <1>1, <2>1 DEF ClosersInv, Ended
  <2>4. /\ queue'[l] = Append(queue[l], Stop)
        /\ \A m \in Lanes : m # l => queue'[m] = queue[m]
    BY <2>1 DEF TypeOK
  <2>5. /\ Len(queue[l]) \in Nat /\ DOMAIN queue[l] = 1..Len(queue[l])
        /\ DOMAIN queue'[l] = 1..Len(queue[l]) + 1
        /\ \A i \in 1..Len(queue[l]) : queue'[l][i] = queue[l][i]
        /\ queue'[l][Len(queue[l]) + 1] = Stop
        /\ \A n : In(n, Append(queue[l], Stop)) <=> In(n, queue[l]) \/ n = Stop
    <3>1. queue[l] \in Seq(Notes \cup {Stop}) /\ Stop \in Notes \cup {Stop}
      BY DEF TypeOK
    <3> QED
      BY <2>4, <3>1, AppendAt
  <2>6. \A n \in Notes : In(n, queue[l])' <=> In(n, queue[l])
    <3>1. \A n \in Notes : n # Stop
      BY LaneAssumption DEF Notes
    <3> QED
      BY <2>4, <2>5, <3>1 DEF In
  <2>7. BehindStop(l)'
    <3> SUFFICES ASSUME NEW i \in DOMAIN queue'[l], NEW j \in DOMAIN queue'[l], i < j,
                        queue'[l][i] = Stop, queue'[l][j] \in Notes
                 PROVE  queue'[l][j] \in late'[l]
      BY DEF BehindStop
    <3>1. Stop \notin Notes
      BY LaneAssumption DEF Notes
    <3>2. i \in DOMAIN queue[l] /\ j \in DOMAIN queue[l]
      BY <2>5, <3>1
    <3> QED
      BY <1>1, <2>1, <2>5, <3>2 DEF AccountOf, BehindStop
  <2>8. AccountOf(l)'
    <3>1. \A n \in Notes : (Held(l, n)' <=> Held(l, n)) /\ (Done(l, n)' <=> Done(l, n))
      BY <2>1 DEF Held, Done
    <3> QED
      BY <1>1, <2>1, <2>3, <2>6, <2>7, <3>1 DEF AccountOf
  <2>9. ASSUME NEW m \in Lanes, m # l PROVE AccountOf(m)'
    BY <1>1, <2>1, <2>3, <2>4, <2>9, AccountFrame
  <2> QED
    BY <2>2, <2>8, <2>9 DEF AccountInv
<1>9. ASSUME NEW k \in Closers, Joins(k) \/ CutsShort(k) \/ Returns(k) PROVE AccountInv'
  <2>1. /\ closer'[k].lanes = closer[k].lanes /\ closer'[k].left = closer[k].left
        /\ closer'[k].owes = closer[k].owes
        /\ \A j \in Closers : j # k => closer'[j] = closer[j]
        /\ UNCHANGED <<stopped, handed, handing, queue, thread, item, late, landed, reports>>
    BY <1>2, <1>9 DEF Joins, CutsShort, Returns, laneVars, outcomeVars, TypeOK
  <2>2. \A l \in closer[k].lanes : l \notin closer[k].left
    BY <1>1, <1>9 DEF Joins, AllStopped, CutsShort, Returns, ClosersInv
  <2>3. ClosersInv'
    BY <1>1, <2>1, <2>2 DEF ClosersInv
  <2>4. \A l \in Lanes : Ended(l) => Ended(l)'
    BY <2>1 DEF Ended
  <2> QED
    BY <1>3, <2>1, <2>3, <2>4 DEF AccountInv
<1> QED
  BY <1>5, <1>6, <1>7, <1>8, <1>9 DEF Closes

LEMMA AccountStep ==
  ASSUME TypeOK, HoldsInv, AccountInv, [Next]_vars
  PROVE  AccountInv'
<1>1. CASE UNCHANGED vars
  <2>1. UNCHANGED <<stopped, closer, laneVars, outcomeVars>>
    BY <1>1 DEF vars, laneVars
  <2>2. ClosersInv' /\ \A l \in Lanes : AccountOf(l)'
    BY <2>1, EndedStays, AccountFrame, ClosersFrame DEF AccountInv, laneVars, outcomeVars
  <2> QED
    BY <2>2 DEF AccountInv
<1> QED
  BY <1>1, AccountCalls, AccountSends, AccountWorks, AccountCloses DEF Next

\* Only a step of its own ends a close, and that step finds each of its lanes without
\* a thread, or with one that has ended or is inside its transport.
LEMMA WhoReturns ==
  ASSUME TypeOK, [Next]_vars, NEW k \in Closers,
         closer[k].stage # "returned", closer'[k].stage = "returned"
  PROVE  \A l \in closer[k].lanes : Reported(l)
<1>1. DOMAIN closer = Closers
  BY DEF TypeOK
<1>2. ASSUME NEW j \in Closers, NEW row, closer' = [closer EXCEPT ![j] = row],
             row.stage # "returned" \/ row.stage = closer[j].stage
      PROVE  FALSE
  BY <1>1, <1>2
<1>3. ASSUME NEW j \in Closers, NEW lanes, Begin(j, lanes) PROVE FALSE
  BY <1>2, <1>3 DEF Begin
<1>4. \A l \in Lanes : ~ CloseLane(l)
  BY <1>3 DEF CloseLane, Closers
<1>5. ~ CloseNotifier
  BY <1>3 DEF CloseNotifier, Closers
<1>6. ASSUME NEW j \in Closers, Closes(j) PROVE j = k /\ Returns(k)
  <2>1. DOMAIN closer[j] = {"stage", "lanes", "left", "owes"}
    BY DEF TypeOK
  <2>2. ASSUME NEW l \in Lanes, MarkStopped(j, l) PROVE FALSE
    <3>1. /\ closer' = [closer EXCEPT ![j].left = closer[j].left \ {l},
                                     ![j].owes = IF stopped[l] THEN {} ELSE {l}]
          /\ closer[j].stage = "stopping"
      BY <2>2 DEF MarkStopped
    <3> QED
      BY <1>1, <2>1, <3>1
  <2>3. ASSUME NEW l \in Lanes, PutStop(j, l) PROVE FALSE
    <3>1. closer' = [closer EXCEPT ![j].owes = {}]
      BY <2>3 DEF PutStop
    <3> QED
      BY <1>1, <2>1, <3>1
  <2>4. ASSUME Joins(j) PROVE FALSE
    <3>1. closer' = [closer EXCEPT ![j].stage = "draining"]
      BY <2>4 DEF Joins
    <3> QED
      BY <1>1, <2>1, <3>1
  <2>5. ASSUME CutsShort(j) PROVE FALSE
    <3>1. closer' = [closer EXCEPT ![j].stage = "reporting"]
      BY <2>5 DEF CutsShort
    <3> QED
      BY <1>1, <2>1, <3>1
  <2>6. Returns(j) /\ closer' = [closer EXCEPT ![j].stage = "returned"]
    BY <1>6, <2>2, <2>3, <2>4, <2>5 DEF Closes, Returns
  <2> QED
    BY <1>1, <2>6
<1>7. \A l \in Lanes : ~ (Calls(l) \/ Sends(l) \/ Works(l))
  BY DEF Calls, Open, Take, TakeNoMore, Put, Sends, Lands, Refused, Fails, Works, Get, Marks,
         Retries, CutShort, Abandons, UnchangedByThread
<1>8. ~ UNCHANGED vars
  BY DEF vars
<1> QED
  BY <1>4, <1>5, <1>6, <1>7, <1>8 DEF Next, Returns

\* When a close returns, what its lanes had queued before their _STOP was sent or
\* reported, however many closes overlap and however long a call of the transport
\* takes: what is left is that call's own notification and the queue behind it.
THEOREM ClosesAccount == Spec => CloseAccounts
<1>1. Init => TypeOK /\ HoldsInv /\ AccountInv
  BY HoldsInit, AccountInit
<1>2. TypeOK /\ HoldsInv /\ AccountInv /\ [Next]_vars => (TypeOK /\ HoldsInv /\ AccountInv)'
  BY HoldsStep, AccountStep
<1>3. ASSUME TypeOK, AccountInv, [Next]_vars, NEW k \in Closers,
             closer[k].stage # "returned", closer'[k].stage = "returned",
             NEW l \in closer[k].lanes, NEW n \in Notes,
             n <= handed[l], n \notin handing[l] \cup late[l]
      PROVE  Done(l, n) \/ (Outlasting(l) /\ n \in Left(l))
  <2>1. l \in Lanes /\ AccountOf(l) /\ Reported(l)
    BY <1>3, WhoReturns DEF AccountInv, TypeOK
  <2>2. CASE thread[l] \in {"none", "ended"}
    <3>1. ~ Held(l, n)
      BY <2>2 DEF Held
    <3>2. ~ In(n, queue[l])
      BY <1>3, <2>1, <2>2 DEF AccountOf
    <3> QED
      BY <1>3, <2>1, <3>1, <3>2 DEF AccountOf
  <2>3. CASE Outlasting(l)
    <3>1. In(n, queue[l]) => n \in Notifications(l)
      BY LaneAssumption DEF In, Notifications, Range, Notes
    <3>2. Held(l, n) => n = item[l].note
      BY DEF Held
    <3> QED
      BY <1>3, <2>1, <2>3, <3>1, <3>2 DEF AccountOf, Left
  <2> QED
    BY <2>1, <2>2, <2>3 DEF Reported, Outlasting
<1>4. TypeOK /\ AccountInv /\ [Next]_vars =>
        \A k \in Closers : closer[k].stage # "returned" /\ closer'[k].stage = "returned" =>
          \A l \in closer[k].lanes, n \in Notes :
            n <= handed[l] /\ n \notin handing[l] \cup late[l] =>
              \/ n \in landed[l] \/ reports[l][n] > 0
              \/ Outlasting(l) /\ n \in Left(l)
  BY <1>3 DEF Done
<1> QED
  BY <1>1, <1>2, <1>4, PTL DEF Spec, CloseAccounts
=============================================================================
