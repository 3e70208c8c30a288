----------------------------- MODULE BatchWindow -----------------------------
(***************************************************************************)
(* What one process's Control (_control.py) holds back from one agent: the *)
(* regions that changed and have yet to be told, the one window armed for  *)
(* them, and the timer calls of the clock, one of which may have started   *)
(* before it was cancelled and be waiting for the Control's lock.          *)
(*                                                                         *)
(* The process can reach the agent (_carrier_for), which subscribes to     *)
(* every region and writes to none.  Other processes write to the board,   *)
(* notify the agent and take its answers; the store's clock and the        *)
(* process's advance alike.  Delivery itself is Control's subject.         *)
(***************************************************************************)
EXTENDS Naturals, Sequences, FiniteSets

CONSTANTS
  Regions,
  Premises,        \* the regions that are premises; the others are levels
  Window,          \* _batch_windows
  LongestWindow,
  MaxTime,         \* bound: the clock
  MaxSequence,     \* bound: writes to the board
  MaxLives         \* bound: registrations of the agent

ASSUME WindowAssumption ==
  /\ Premises \subseteq Regions
  /\ Window \in [Regions -> 0..LongestWindow]
  /\ {LongestWindow, MaxTime, MaxSequence, MaxLives} \subseteq Nat

VARIABLES
  time,
  changes,     \* the board's writes; `life`: the agent's life here, or Elsewhere
  last,        \* _last_sequence of this process
  told,        \* the store's notified_through of the agent
  answered,    \* the store's acknowledged_through of the agent
  agent,       \* _AgentState, without its pending set
  pending,     \* _AgentState.pending: regions, each with the instant it is due
  timers,      \* the calls the clock has been given and has not begun
  calls,       \* the calls that have begun and wait for the lock
  closed       \* _outcome is not None

record == <<changes, last, told, answered>>
vars == <<time, record, agent, pending, timers, calls, closed>>

Elsewhere == 0      \* the life of a write another process took
Never == [life |-> 0, generation |-> 0, at |-> 0]   \* a window that is not armed

Timer == [life : Nat, generation : Nat, at : Nat]
Entry == [region : Regions, due : Nat]

\* `life` counts the registrations here, `armed` is window_call with window_due:
\* the two are set together and reset together.
AgentState == [notified : Nat, acked : Nat, armed : Timer, generation : Nat, life : Nat]

\* There is one entry for a region, and a process's cursors stay behind the store's.
TypeOK ==
  /\ time \in Nat /\ closed \in BOOLEAN
  /\ changes \in Seq([region : Regions, at : Nat, life : Nat])
  /\ last \in 0..Len(changes) /\ told \in 0..Len(changes) /\ answered \in 0..told
  /\ agent \in AgentState /\ agent.notified <= told /\ agent.acked <= answered
  /\ pending \subseteq Entry
  /\ \A x, y \in pending : x.region = y.region => x = y
  /\ timers \subseteq Timer /\ calls \subseteq Timer

Init ==
  /\ time = 0 /\ changes = <<>> /\ last = 0 /\ told = 0 /\ answered = 0
  /\ agent = [notified |-> 0, acked |-> 0, armed |-> Never, generation |-> 0, life |-> 0]
  /\ pending = {} /\ timers = {} /\ calls = {} /\ closed = FALSE

-----------------------------------------------------------------------------
\* Mutant of Larger: the later value, though it may be the smaller.
Second(m, n) == n
Larger(m, n) == IF m > n THEN m ELSE n

\* min(existing, due), of every region.
Earlier(entries) ==
  {x \in entries : \A y \in entries : y.region = x.region => x.due <= y.due}

\* Mutant of First: the latest change decides.
Final(x, entries) == \A y \in entries : y.due <= x.due
\* min(pending.values())
First(x, entries) == \A y \in entries : x.due <= y.due

\* Mutant of Sooner: an armed window is kept whatever becomes due before it.
Unarmed(a, due) == a.armed = Never
\* The agent's window, if one is armed, would close after `due`.
Sooner(a, due) == a.armed = Never \/ due < a.armed.at

\* Mutant of Disarmed: the generation stays.
Forgotten(a) == [a EXCEPT !.armed = Never]
\* The agent's window is given up, and its call with it.
Disarmed(a) ==
  IF a.armed = Never THEN a
  ELSE [a EXCEPT !.armed = Never, !.generation = @ + 1]

\* The agent's window is armed for `due`, in place of the one that was.
Armed(a, due) ==
  [a EXCEPT !.armed = [life |-> a.life, generation |-> a.generation + 1, at |-> due],
            !.generation = @ + 1]

\* call.cancel(): a call that has begun runs on.
Uncancelled(a, given) == given \ {a.armed}

\* _dispatch to the agent `a`, the clock holding the calls `given`.
Dispatch(a, end, given) ==
  /\ pending' = {}
  /\ agent' = [Disarmed(a) EXCEPT !.notified = Larger(@, end)]
  /\ timers' = Uncancelled(a, given)
  /\ told' = Larger(told, end)

\* _evaluate_dispatch_locked: `entries` is the pending set, `end` _last_sequence.
Evaluate(a, entries, end, given) ==
  \/ /\ entries = {} \/ end <= a.acked
     /\ pending' = {} /\ agent' = a /\ timers' = given /\ told' = told
  \/ /\ end > a.acked
     /\ \E x \in entries :
          /\ First(x, entries)
          /\ \/ x.due <= time /\ Dispatch(a, end, given)
             \/ /\ x.due > time /\ Sooner(a, x.due)
                /\ pending' = entries /\ agent' = Armed(a, x.due) /\ told' = told
                /\ timers' = Uncancelled(a, given) \cup {Armed(a, x.due).armed}
             \/ /\ x.due > time /\ ~ Sooner(a, x.due)
                /\ pending' = entries /\ agent' = a /\ timers' = given /\ told' = told

-----------------------------------------------------------------------------
(* The board and the agent.                                                *)

Room == Len(changes) < MaxSequence /\ time + LongestWindow <= MaxTime

Holds == agent.life > 0 /\ ~ closed

\* write and set_premise, then _note_region_change.
Write(r) ==
  /\ Holds /\ Room
  /\ changes' = Append(changes, [region |-> r, at |-> time, life |-> agent.life])
  /\ last' = Len(changes) + 1
  /\ Evaluate(agent, Earlier(pending \cup {[region |-> r, due |-> time + Window[r]]}),
              Len(changes) + 1, timers)
  /\ UNCHANGED <<time, answered, calls, closed>>

\* Another process takes a write.
WriteElsewhere(r) ==
  /\ Room
  /\ changes' = Append(changes, [region |-> r, at |-> time, life |-> Elsewhere])
  /\ UNCHANGED <<time, last, told, answered, agent, pending, timers, calls, closed>>

\* Another process notifies the agent of everything on the board.
NotifyElsewhere ==
  /\ agent.life > 0 /\ told < Len(changes)
  /\ told' = Len(changes)
  /\ UNCHANGED <<time, changes, last, answered, agent, pending, timers, calls, closed>>

\* acknowledge in the store, by whichever process the agent called.
Answer(through) ==
  /\ answered < through /\ through <= told
  /\ answered' = through
  /\ UNCHANGED <<time, changes, last, told, agent, pending, timers, calls, closed>>

\* The rest of ack, if this process is the one: the cursor it keeps.
NoteAnswer(through) ==
  /\ agent.life > 0 /\ agent.acked < through /\ through <= answered
  /\ agent' = [agent EXCEPT !.acked = through]
  /\ UNCHANGED <<time, record, pending, timers, calls, closed>>

-----------------------------------------------------------------------------
(* The process.                                                            *)

\* register_agent, the first time or again: a new _AgentState, whose generation
\* starts from zero, and what was held before is thrown away.
Register ==
  /\ ~ closed /\ agent.life < MaxLives /\ time + LongestWindow <= MaxTime
  /\ LET fresh == [notified |-> answered, acked |-> answered, armed |-> Never,
                   generation |-> 0, life |-> agent.life + 1]
         written == {changes[i].region : i \in DOMAIN changes}
         wait(r) == IF r \in Premises THEN Window[r] ELSE 0
     IN Evaluate(fresh, {[region |-> r, due |-> time + wait(r)] : r \in written},
                 last, Uncancelled(agent, timers))
  /\ UNCHANGED <<time, changes, last, answered, calls, closed>>

\* Mutant of EndOf: a page that was read does not raise _last_sequence.
EndUnread(read) == last
EndOf(read) == IF read = {} THEN last ELSE Len(changes)

\* _take_tail_locked of the changes past `known`, then the evaluation: what is
\* left of a window is counted from when the write landed.
TakeTail(known) ==
  LET read == agent.acked + 1 .. Len(changes)
      due(i) == Larger(changes[i].at + Window[changes[i].region], time)
      new == {[region |-> changes[i].region, due |-> due(i)] : i \in {j \in read : j > known}}
      end == EndOf(read)
  IN /\ last' = end
     /\ Evaluate(agent, Earlier(pending \cup new), end, timers)
     /\ UNCHANGED <<time, changes, answered, calls, closed>>

\* notify_due; what the agent was told from here is skipped.
NotifyDue == Holds /\ TakeTail(agent.notified)

\* relay, of a row that is still unsent: what was told may not have arrived.
Relay == Holds /\ changes # <<>> /\ TakeTail(0)

\* Time passes for the clock and for the store alike.
Tick ==
  /\ time < MaxTime
  /\ time' = time + 1
  /\ UNCHANGED <<record, agent, pending, timers, calls, closed>>

\* The clock begins a call that is due, and the call waits for the lock.
Begin(t) ==
  /\ t \in timers /\ t.at <= time
  /\ timers' = timers \ {t} /\ calls' = calls \cup {t}
  /\ UNCHANGED <<time, record, agent, pending, closed>>

\* Mutant of Current: the generation a call was armed with is not looked at.
AnyCall(t) == ~ closed
\* The generation identifies the armed window.
Current(t) == ~ closed /\ agent.generation = t.generation

\* _close_window.  The call that closes the window is not cancelled by _dispatch,
\* which finds none armed.
CloseWindow(t) ==
  /\ t \in calls /\ calls' = calls \ {t}
  /\ \/ /\ Current(t)
        /\ LET done == [agent EXCEPT !.armed = Never, !.generation = @ + 1]
           IN \/ pending # {} /\ Dispatch(done, last, timers)
              \/ pending = {} /\ agent' = done /\ UNCHANGED <<told, pending, timers>>
     \/ ~ Current(t) /\ UNCHANGED <<told, agent, pending, timers>>
  /\ UNCHANGED <<time, changes, last, answered, closed>>

\* _close_locked, for whatever reason the run ends.
Close ==
  /\ ~ closed /\ closed' = TRUE
  /\ agent' = Disarmed(agent) /\ pending' = {}
  /\ timers' = Uncancelled(agent, timers)
  /\ UNCHANGED <<time, record, calls>>

Next ==
  \/ \E r \in Regions : Write(r) \/ WriteElsewhere(r)
  \/ NotifyElsewhere
  \/ \E n \in 1..MaxSequence : Answer(n) \/ NoteAnswer(n)
  \/ Register \/ NotifyDue \/ Relay \/ Tick \/ Close
  \/ \E t \in timers : Begin(t)
  \/ \E t \in calls : CloseWindow(t)

Spec == Init /\ [][Next]_vars

\* The clock runs, a call that is due begins and gets the lock, and the process
\* asks for what is due on a schedule.
Running ==
  /\ WF_vars(Tick) /\ WF_vars(NotifyDue)
  /\ WF_vars(\E t \in timers : Begin(t)) /\ WF_vars(\E t \in calls : CloseWindow(t))

FairSpec == Spec /\ Running

-----------------------------------------------------------------------------
(* Properties.                                                             *)

\* What an agent is waiting to be told has a timer of the present generation that
\* goes off by the time the first of it is due, given to the clock or begun:
\* without one nothing would tell it in a process nobody polls
\* (_evaluate_dispatch_locked, _control.py:1578-1587).
PendingIsArmed ==
  pending # {} =>
    /\ agent.armed \in timers \cup calls
    /\ agent.armed.generation = agent.generation
    /\ \A x \in pending : agent.armed.at <= x.due

\* A write this process took is told, or was answered, once its own region's window
\* has passed and no timer call is outstanding that is due: a later write, a longer
\* window of another region, a poll or a relay between never puts it off
\* (docs/concepts/control.md:86, "becomes due after that region's window").
ToldByDue ==
  \A i \in DOMAIN changes :
    (/\ ~ closed /\ changes[i].life = agent.life /\ agent.life > 0
     /\ changes[i].at + Window[changes[i].region] <= time
     /\ \A t \in timers \cup calls : t.at > time)
      => i <= told

\* A window call that does not find its own window armed changes nothing, as long as
\* the agent has not registered again since it was armed: a cancelled call that had
\* begun never sends a later batch early (docs/adr/0003-delivery-and-stale-timers.md:15).
OwnStaleCallChangesNothing ==
  [][\A t \in calls \ calls' :
       t # agent.armed /\ t.life = agent.life => UNCHANGED <<told, agent, pending, timers>>]_vars

\* The same of every call, as the document says it: "A stale timer call changes
\* nothing."  A registration starts the generations again from zero.
StaleCallChangesNothing ==
  [][\A t \in calls \ calls' :
       t # agent.armed => UNCHANGED <<told, agent, pending, timers>>]_vars

\* Every write is told to an agent that is registered here, wherever it was taken,
\* unless the run closes first (_take_tail_locked, _close_window).
EveryWriteIsTold ==
  \A i \in 1..MaxSequence :
    (i \in DOMAIN changes /\ agent.life > 0) ~> (i <= told \/ closed)
=============================================================================
