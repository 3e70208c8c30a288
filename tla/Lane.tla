-------------------------------- MODULE Lane --------------------------------
(***************************************************************************)
(* HttpNotifier and its lanes (delivery.py): the threads that hand a lane  *)
(* notifications, the lane's own thread, and those that close the lane or  *)
(* the notifier.  A queue's put and get are atomic; a step ends wherever   *)
(* another thread can come between, which is at every release of a lane's  *)
(* lock and around every call of the transport.                            *)
(*                                                                         *)
(* Time is left out: a wait with a timeout may end whenever it likes.  The *)
(* exception is the last one of close, _REPORTING_GRACE, which the code    *)
(* takes to be enough for a lane that is not inside its transport: a call  *)
(* of the transport may be longer (Outlasts).                              *)
(***************************************************************************)
EXTENDS Naturals, Sequences, FiniteSets, Functions

CONSTANTS
  Lanes,           \* the lanes that may be opened
  Notifier,        \* names the thread that closes the notifier
  Stop,            \* _STOP, what ends a lane's queue
  Attempts,        \* how many calls of the transport one notification gets
  RecordsSends,    \* whether the notifier was given a store
  Outlasts,        \* whether a call of the transport can outlast the grace
  MaxNotes         \* bound: notifications handed to one lane

ASSUME LaneAssumption ==
  /\ Notifier \notin Lanes
  /\ Stop \notin 1..MaxNotes
  /\ Attempts \in Nat \ {0} /\ MaxNotes \in Nat
  /\ RecordsSends \in BOOLEAN /\ Outlasts \in BOOLEAN

VARIABLES
  opened,     \* the notifier's _lanes: opened and not yet released
  closed,     \* the notifier's _closed
  stopping,   \* the event that cuts every lane's backoff short
  stopped,    \* _stopped of each lane
  abandon,    \* the event that cuts one lane's backoff short
  thread,     \* what the lane's thread is doing
  item,       \* the notification it holds, and the attempt it is on
  queue,      \* _queue of each lane
  handing,    \* notifications a lane has taken and its caller has yet to queue
  closer,     \* how far each call of a close has come
  handed,     \* history: how many notifications each lane was called with
  late,       \* history: those queued behind the lane's _STOP
  received,   \* history: those that reached the agent, answered or not
  landed,     \* history: those whose send returned
  reports,    \* history: how often each was reported undelivered
  marked      \* the furthest mark_sent of each lane's agent, in the store

laneVars == <<stopped, abandon, thread, item, queue, handing, handed, late>>
outcomeVars == <<received, landed, reports, marked>>
vars == <<opened, closed, stopping, closer, laneVars, outcomeVars>>

-----------------------------------------------------------------------------
Notes == 1..MaxNotes
Closers == Lanes \cup {Notifier}
Nothing == [note |-> 0, attempt |-> 0]
Stages == {"none", "stopping", "draining", "reporting", "returned"}

\* `left` are the lanes it has still to stop, `owes` those it has stopped
\* without having queued their _STOP yet.
NotClosing == [stage |-> "none", lanes |-> {}, left |-> {}, owes |-> {}]

TypeOK ==
  /\ opened \subseteq Lanes /\ closed \in BOOLEAN /\ stopping \in BOOLEAN
  /\ stopped \in [Lanes -> BOOLEAN] /\ abandon \in [Lanes -> BOOLEAN]
  /\ thread \in [Lanes -> {"none", "idle", "sending", "landing", "waiting", "abandoning", "ended"}]
  /\ item \in [Lanes -> [note : Notes, attempt : 1..Attempts] \cup {Nothing}]
  /\ queue \in [Lanes -> Seq(Notes \cup {Stop})]
  /\ handing \in [Lanes -> SUBSET Notes]
  /\ closer \in [Closers -> [stage : Stages, lanes : SUBSET Lanes,
                             left : SUBSET Lanes, owes : SUBSET Lanes]]
  /\ handed \in [Lanes -> 0..MaxNotes] /\ late \in [Lanes -> SUBSET Notes]
  /\ received \in [Lanes -> SUBSET Notes] /\ landed \in [Lanes -> SUBSET Notes]
  /\ reports \in [Lanes -> [Notes -> Nat]]
  /\ marked \in [Lanes -> 0..MaxNotes]

Init ==
  /\ opened = {} /\ closed = FALSE /\ stopping = FALSE
  /\ stopped = [l \in Lanes |-> FALSE] /\ abandon = [l \in Lanes |-> FALSE]
  /\ thread = [l \in Lanes |-> "none"]
  /\ item = [l \in Lanes |-> Nothing]
  /\ queue = [l \in Lanes |-> <<>>]
  /\ handing = [l \in Lanes |-> {}]
  /\ closer = [k \in Closers |-> NotClosing]
  /\ handed = [l \in Lanes |-> 0] /\ late = [l \in Lanes |-> {}]
  /\ received = [l \in Lanes |-> {}] /\ landed = [l \in Lanes |-> {}]
  /\ reports = [l \in Lanes |-> [n \in Notes |-> 0]]
  /\ marked = [l \in Lanes |-> 0]

Notifications(l) == Range(queue[l]) \ {Stop}

\* _STOP has been queued, whether or not the thread has come to it.
Ended(l) ==
  stopped[l] /\ \A k \in Closers : l \notin closer[k].owes

-----------------------------------------------------------------------------
(* The callers: to, and the lane called with a notification.               *)

Open(l) ==
  /\ ~ closed /\ l \notin opened
  /\ thread[l] = "none" /\ ~ stopped[l]
  /\ opened' = opened \cup {l}
  /\ UNCHANGED <<closed, stopping, closer, laneVars, outcomeVars>>

\* The thread is started by the first notification.
Started(doing) == IF doing = "none" THEN "idle" ELSE doing

\* enqueue, as far as it holds the lane's lock.
Take(l) ==
  /\ l \in opened /\ ~ stopped[l]
  /\ handed[l] < MaxNotes
  /\ handed' = [handed EXCEPT ![l] = @ + 1]
  /\ handing' = [handing EXCEPT ![l] = @ \cup {handed[l] + 1}]
  /\ thread' = [thread EXCEPT ![l] = Started(@)]
  /\ UNCHANGED <<opened, closed, stopping, closer, stopped, abandon, item, queue, late, outcomeVars>>

\* enqueue on a lane that has been stopped: reported on the caller's thread.
TakeNoMore(l) ==
  /\ stopped[l]
  /\ handed[l] < MaxNotes
  /\ handed' = [handed EXCEPT ![l] = @ + 1]
  /\ reports' = [reports EXCEPT ![l][handed[l] + 1] = @ + 1]
  /\ UNCHANGED <<opened, closed, stopping, closer, stopped, abandon, thread, item, queue,
                 handing, late, received, landed, marked>>

\* The rest of enqueue, with the lock released.
Put(l, n) ==
  /\ n \in handing[l]
  /\ handing' = [handing EXCEPT ![l] = @ \ {n}]
  /\ queue' = [queue EXCEPT ![l] = Append(@, n)]
  /\ late' = IF Ended(l) THEN [late EXCEPT ![l] = @ \cup {n}] ELSE late
  /\ UNCHANGED <<opened, closed, stopping, closer, stopped, abandon, thread, item, handed, outcomeVars>>

-----------------------------------------------------------------------------
(* The lane's thread: _drain, _send, _fail, _abandon_what_is_left.         *)

UnchangedByThread ==
  UNCHANGED <<opened, closed, stopping, closer, stopped, abandon, handing, handed, late>>

Becomes(l, doing, holding) ==
  /\ thread' = [thread EXCEPT ![l] = doing]
  /\ item' = [item EXCEPT ![l] = holding]

Get(l) ==
  /\ thread[l] = "idle" /\ queue[l] # <<>>
  /\ queue' = [queue EXCEPT ![l] = Tail(@)]
  /\ IF Head(queue[l]) = Stop
     THEN Becomes(l, "abandoning", Nothing)
     ELSE Becomes(l, "sending", [note |-> Head(queue[l]), attempt |-> 1])
  /\ UnchangedByThread /\ UNCHANGED outcomeVars

\* Mutant of Lands: a send that returned is tried again.
LandsAndRetries(l) ==
  /\ thread[l] = "sending"
  /\ received' = [received EXCEPT ![l] = @ \cup {item[l].note}]
  /\ landed' = [landed EXCEPT ![l] = @ \cup {item[l].note}]
  /\ Becomes(l, "waiting", item[l])
  /\ UnchangedByThread /\ UNCHANGED <<queue, reports, marked>>

\* The transport's send returns.
Lands(l) ==
  /\ thread[l] = "sending"
  /\ received' = [received EXCEPT ![l] = @ \cup {item[l].note}]
  /\ landed' = [landed EXCEPT ![l] = @ \cup {item[l].note}]
  /\ Becomes(l, "landing", item[l])
  /\ UnchangedByThread /\ UNCHANGED <<queue, reports, marked>>

\* _landed: the row is marked where the send happened.  A store that fails is
\* logged, and the row stays.
Marks(l) ==
  /\ thread[l] = "landing"
  /\ \/ RecordsSends /\ marked' = [marked EXCEPT ![l] = IF item[l].note > @ THEN item[l].note ELSE @]
     \/ UNCHANGED marked
  /\ Becomes(l, "idle", Nothing)
  /\ UnchangedByThread /\ UNCHANGED <<queue, received, landed, reports>>

\* Mutant of GivesUp: the row is marked though nothing was sent.
GivesUpAndMarks(l) ==
  /\ reports' = [reports EXCEPT ![l][item[l].note] = @ + 1]
  /\ Becomes(l, "idle", Nothing)
  /\ marked' = [marked EXCEPT ![l] = item[l].note]
  /\ UNCHANGED landed

\* _fail, and on to the next notification.
GivesUp(l) ==
  /\ reports' = [reports EXCEPT ![l][item[l].note] = @ + 1]
  /\ Becomes(l, "idle", Nothing)
  /\ UNCHANGED <<landed, marked>>

\* The agent will refuse it again.
Refused(l) ==
  /\ thread[l] = "sending"
  /\ GivesUp(l)
  /\ UnchangedByThread /\ UNCHANGED <<queue, received>>

\* Mutant of LastAttempt: one attempt too many.
BeyondLast(attempt) == attempt > Attempts

LastAttempt(attempt) == attempt = Attempts

\* The send raises, whether or not the agent has received the notification.
Fails(l) ==
  /\ thread[l] = "sending"
  /\ \/ received' = [received EXCEPT ![l] = @ \cup {item[l].note}]
     \/ UNCHANGED received
  /\ IF LastAttempt(item[l].attempt)
     THEN GivesUp(l)
     ELSE Becomes(l, "waiting", item[l]) /\ UNCHANGED <<landed, reports, marked>>
  /\ UnchangedByThread /\ UNCHANGED queue

\* The backoff passes, with neither event set ...
Retries(l) ==
  /\ thread[l] = "waiting" /\ ~ abandon[l] /\ ~ stopping
  /\ Becomes(l, "sending", [item[l] EXCEPT !.attempt = @ + 1])
  /\ UnchangedByThread /\ UNCHANGED <<queue, outcomeVars>>

\* Mutant of CutShort: what the backoff held is dropped.
DropsHeld(l) ==
  /\ thread[l] = "waiting" /\ (abandon[l] \/ stopping)
  /\ Becomes(l, "idle", Nothing)
  /\ UnchangedByThread /\ UNCHANGED <<queue, outcomeVars>>

\* ... or one of them is, and the retry is abandoned.
CutShort(l) ==
  /\ thread[l] = "waiting" /\ (abandon[l] \/ stopping)
  /\ GivesUp(l)
  /\ UnchangedByThread /\ UNCHANGED <<queue, received>>

\* _abandon_what_is_left, one notification at a time.
Abandons(l) ==
  /\ thread[l] = "abandoning"
  /\ IF queue[l] = <<>>
     THEN Becomes(l, "ended", Nothing) /\ UNCHANGED <<queue, reports>>
     ELSE /\ queue' = [queue EXCEPT ![l] = Tail(@)]
          /\ reports' = IF Head(queue[l]) = Stop THEN reports
                        ELSE [reports EXCEPT ![l][Head(queue[l])] = @ + 1]
          /\ UNCHANGED <<thread, item>>
  /\ UnchangedByThread /\ UNCHANGED <<received, landed, marked>>

-----------------------------------------------------------------------------
(* Closing a lane (shut), and closing the notifier.                        *)

Begin(k, lanes) ==
  closer' = [closer EXCEPT ![k] = [stage |-> "stopping", lanes |-> lanes,
                                   left |-> lanes, owes |-> {}]]

CloseLane(l) ==
  /\ closer[l].stage = "none" /\ l \in opened
  /\ Begin(l, {l})
  /\ UNCHANGED <<opened, closed, stopping, laneVars, outcomeVars>>

\* A second call finds the notifier closed and returns.
CloseNotifier ==
  /\ ~ closed
  /\ closed' = TRUE
  /\ Begin(Notifier, opened)
  /\ UNCHANGED <<opened, stopping, laneVars, outcomeVars>>

\* stop, as far as it holds the lane's lock ...
MarkStopped(k, l) ==
  /\ closer[k].stage = "stopping" /\ l \in closer[k].left /\ closer[k].owes = {}
  /\ stopped' = [stopped EXCEPT ![l] = TRUE]
  /\ closer' = [closer EXCEPT ![k].left = @ \ {l},
                              ![k].owes = IF stopped[l] THEN {} ELSE {l}]
  /\ UNCHANGED <<opened, closed, stopping, abandon, thread, item, queue, handing, handed, late, outcomeVars>>

\* ... and the rest of it.
PutStop(k, l) ==
  /\ l \in closer[k].owes
  /\ queue' = [queue EXCEPT ![l] = Append(@, Stop)]
  /\ closer' = [closer EXCEPT ![k].owes = {}]
  /\ UNCHANGED <<opened, closed, stopping, stopped, abandon, thread, item, handing, handed, late, outcomeVars>>

AllStopped(k) == closer[k].stage = "stopping" /\ closer[k].left = {} /\ closer[k].owes = {}

\* join: there is no thread, it has ended, or the timeout has passed.
Joins(k) ==
  /\ AllStopped(k)
  /\ closer' = [closer EXCEPT ![k].stage = "draining"]
  /\ UNCHANGED <<opened, closed, stopping, laneVars, outcomeVars>>

\* Only then is whatever waits in a backoff cut short.
CutsShort(k) ==
  /\ closer[k].stage = "draining"
  /\ IF k = Notifier
     THEN stopping' = TRUE /\ UNCHANGED abandon
     ELSE abandon' = [abandon EXCEPT ![k] = TRUE] /\ UNCHANGED stopping
  /\ closer' = [closer EXCEPT ![k].stage = "reporting"]
  /\ UNCHANGED <<opened, closed, stopped, thread, item, queue, handing, handed, late, outcomeVars>>

\* Mutant of Reported: a close waits no second time.
ReportedOrNot(l) == TRUE

\* The second join: the grace is enough unless a call of the transport outlasts it.
Reported(l) == thread[l] \in {"none", "ended"} \/ (Outlasts /\ thread[l] = "sending")

\* A lane's close also releases it; a notifier's closes the transport it built.
Returns(k) ==
  /\ closer[k].stage = "reporting"
  /\ \A l \in closer[k].lanes : Reported(l)
  /\ closer' = [closer EXCEPT ![k].stage = "returned"]
  /\ opened' = IF k = Notifier THEN opened ELSE opened \ {k}
  /\ UNCHANGED <<closed, stopping, laneVars, outcomeVars>>

-----------------------------------------------------------------------------
Sends(l) == Lands(l) \/ Refused(l) \/ Fails(l)
Works(l) == Get(l) \/ Marks(l) \/ Retries(l) \/ CutShort(l) \/ Abandons(l)
Calls(l) == Open(l) \/ Take(l) \/ TakeNoMore(l) \/ (\E n \in Notes : Put(l, n))
Closes(k) ==
  \/ \E l \in Lanes : MarkStopped(k, l) \/ PutStop(k, l)
  \/ Joins(k) \/ CutsShort(k) \/ Returns(k)

Next ==
  \/ \E l \in Lanes : Calls(l) \/ Sends(l) \/ Works(l) \/ CloseLane(l)
  \/ CloseNotifier
  \/ \E k \in Closers : Closes(k)

Spec == Init /\ [][Next]_vars

\* The lane's thread runs on, and a call of the transport returns or raises.
Running == \A l \in Lanes : WF_vars(Works(l)) /\ WF_vars(Sends(l))
RunningSpec == Spec /\ Running

-----------------------------------------------------------------------------
(* Properties.                                                             *)

\* However a lane and its notifier are closed, and by how many threads, no
\* notification is reported twice, and none whose send returned is reported
\* undelivered.
OneFate ==
  \A l \in Lanes, n \in Notes :
    reports[l][n] <= (IF n \in landed[l] THEN 0 ELSE 1)

\* A row is marked only as far as a send that returned: what was abandoned,
\* refused, or still queued when the process stops is owed on the record.
OnlySendsAreMarked ==
  \A l \in Lanes : marked[l] # 0 => RecordsSends /\ marked[l] \in landed[l]

\* A lane whose thread is still inside its transport when the grace has passed, and
\* what that call has kept it from.
Outlasting(l) == Outlasts /\ thread[l] = "sending"
Left(l) == {item[l].note} \cup Notifications(l)

\* When a close returns, every notification its lanes had queued before their
\* _STOP has been sent or reported, though two closes of one lane overlap: but for
\* a call of the transport that has outlasted the grace, and what waits behind it.
CloseAccounts ==
  [][\A k \in Closers : closer[k].stage # "returned" /\ closer'[k].stage = "returned" =>
       \A l \in closer[k].lanes, n \in Notes :
         n <= handed[l] /\ n \notin handing[l] \cup late[l] =>
           \/ n \in landed[l] \/ reports[l][n] > 0
           \/ Outlasting(l) /\ n \in Left(l)]_vars

\* Every one of them, whatever the transport is at.
NothingUnreported ==
  \A k \in Closers : closer[k].stage = "returned" =>
    \A l \in closer[k].lanes, n \in Notes :
      n <= handed[l] /\ n \notin handing[l] \cup late[l] =>
        n \in landed[l] \/ reports[l][n] > 0

\* A notification queued before the lane's _STOP is sent or reported in the
\* end, whether or not anything closes the lane.
EveryQueuedIsAnswered ==
  \A l \in Lanes, n \in Notes :
    n \in Notifications(l) \ late[l] ~> n \in landed[l] \/ reports[l][n] > 0

\* Nothing is left queued behind a closed lane.
NothingLeftQueued ==
  \A k \in Closers : closer[k].stage = "returned" =>
    \A l \in closer[k].lanes : Notifications(l) = {}
=============================================================================
