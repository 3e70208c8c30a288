------------------------------- MODULE Control ------------------------------
(***************************************************************************)
(* Several processes, each with a Control of its own (_control.py), over   *)
(* one board of one store.  The store is BoardStore, whose operations are  *)
(* atomic; what a Control does under its lock is a step for each point at  *)
(* which another process can come between two of its calls to the store    *)
(* and change what the later one does.  The calls of one registration, of  *)
(* one poll and of one relay pass are one step: the later ones only raise  *)
(* a column to the end of what the first one read, so a write or an answer *)
(* in between finds them as if they had come before it.                    *)
(*                                                                         *)
(* Batch windows are zero here, so an agent's pending set is dispatched or *)
(* cleared in the step that fills it and is not kept: windows that wait    *)
(* are not modelled.  A write that the admission rule or a permission      *)
(* refuses reaches no store and is left out, as are idempotency keys: a    *)
(* repeated write returns before it changes anything.                      *)
(***************************************************************************)
EXTENDS Naturals, Sequences, FiniteSets, FiniteSetsExt, Functions

CONSTANTS
  Levels, Premises, Agents, Writers, Keys, NoKey, NoRegion, NoDeclaration,
  Idle, Wall, MaxSequence, MaxTime,
  NoWriter,        \* the writer of an opening premise value
  Controls,        \* the processes
  Reaching,        \* the processes given a transport (`reach`)
  Declarations,    \* how an agent may be declared: "callback" or "address"
  Wants,           \* the regions each agent subscribes to
  PageSize,        \* _TAIL: the most changes one read of the board answers with
  Predicated,      \* the processes given a termination predicate
  LateStart,       \* whether a process may be created after the run closed
  MaxCrashes,      \* bound: crashes
  MaxFlight        \* bound: deliveries under way at once

ASSUME ControlAssumption ==
  /\ Reaching \subseteq Controls /\ Predicated \subseteq Controls
  /\ Wants \in [Agents -> SUBSET (Levels \cup Premises)]
  /\ Declarations \subseteq {"callback", "address"} /\ NoDeclaration \notin Declarations
  /\ {PageSize, Idle, Wall} \subseteq Nat \ {0}
  /\ {MaxSequence, MaxTime, MaxCrashes, MaxFlight} \subseteq Nat
  /\ LateStart \in BOOLEAN
  /\ Agents \cup {NoWriter} \subseteq Writers

\* Names of one kind are not names of another, as the store assumes (BoardStore).
ASSUME NamesAssumption ==
  /\ Levels \cap Premises = {} /\ NoRegion \notin Levels \cup Premises
  /\ NoKey \notin Keys

VARIABLES
  regions, sequence, changes, levels, premises, keys, run, now,
  roster, notified, acked, declaration, outbox, answers, sent, cleared,
  up,         \* the processes that are running
  last,       \* _last_sequence of each
  held,       \* _agents of each: the agents it holds, and what it knows of them
  outcome,    \* _outcome of each
  wallDue, idleDue,   \* the instants its two timers are armed for
  asked,      \* whether its predicate is being asked, its idle timer unmoved
  pc,         \* what it holds its lock for
  answering,  \* the acknowledgments the store has taken, to be noted in the process
  touching,   \* the processes in which a call has yet to push the idle deadline
  flight,     \* the deliveries made and not yet finished
  sweep,      \* what a sweep has read of the run and is about to close it as
  received,   \* history: the notifications each agent received
  crashes,    \* history: how many processes have crashed
  served      \* history: when a call of each process last ended

storeVars == <<regions, sequence, changes, levels, premises, keys, run, now,
               roster, notified, acked, declaration, outbox, answers, sent, cleared>>
localVars == <<up, last, held, outcome, wallDue, idleDue, asked>>
callVars == <<answering, touching>>
vars == <<storeVars, localVars, pc, callVars, flight, sweep, received, crashes, served>>

Store == INSTANCE BoardStore

-----------------------------------------------------------------------------
Region == Levels \cup Premises
Never == 0                          \* a timer that is not armed
NoHeld == <<>>                      \* a Control that holds no agent
Waiting == [op |-> "none"]
NoSweep == [outcome |-> "none", unfinished |-> {}]

Held == [by : Declarations, notified : Nat, acked : Nat]
Holds(known) == DOMAIN known \subseteq Agents /\ known \in [DOMAIN known -> Held]
Notification == [agent : Agents, from : Nat, to : Nat, regions : SUBSET Region]
Delivery == [control : Controls, stage : {"queued", "sent"}, note : Notification]
Lock ==
  {Waiting}
    \cup [op : {"creating", "standing"}]
    \cup [op : {"opening"}, missing : SUBSET Premises]
    \cup [op : {"appending", "noting"}, region : Region, writer : Writers,
          hearers : SUBSET Agents, acked : [Agents -> Nat],
          declared : [Agents -> Declarations \cup {NoDeclaration}]]
    \cup [op : {"closing"}, outcome : Store!Outcomes, unfinished : SUBSET Agents]

TypeOK ==
  /\ Store!TypeOK
  /\ up \subseteq Controls
  /\ last \in [Controls -> Nat]
  /\ DOMAIN held = Controls /\ \A c \in Controls : Holds(held[c])
  /\ outcome \in [Controls -> {"none"} \cup Store!Outcomes]
  /\ wallDue \in [Controls -> Nat] /\ idleDue \in [Controls -> Nat]
  /\ asked \in [Controls -> BOOLEAN]
  /\ pc \in [Controls -> Lock]
  /\ answering \subseteq [control : Controls, agent : Agents, through : Nat]
  /\ touching \subseteq Controls
  /\ flight \subseteq Delivery
  /\ sweep \in {NoSweep} \cup [outcome : Store!Outcomes, unfinished : SUBSET Agents]
  /\ received \in [Agents -> SUBSET Notification]
  /\ crashes \in 0..MaxCrashes
  /\ served \in [Controls -> Nat]

Init ==
  /\ Store!Init
  /\ up = {}
  /\ last = [c \in Controls |-> 0]
  /\ held = [c \in Controls |-> NoHeld]
  /\ outcome = [c \in Controls |-> "none"]
  /\ wallDue = [c \in Controls |-> Never]
  /\ idleDue = [c \in Controls |-> Never]
  /\ asked = [c \in Controls |-> FALSE]
  /\ pc = [c \in Controls |-> Waiting]
  /\ answering = {} /\ touching = {}
  /\ flight = {}
  /\ sweep = NoSweep
  /\ received = [a \in Agents |-> {}]
  /\ crashes = 0 /\ served = [c \in Controls |-> 0]

-----------------------------------------------------------------------------
(* What the steps are built from.                                          *)

\* Nobody holds the Control's lock.
Free(c) == c \in up /\ pc[c] = Waiting
Open(c) == Free(c) /\ outcome[c] = "none"

\* read_board(from_sequence=after + 1, limit=_TAIL), as positions.
Page(after) == {i \in DOMAIN changes : after < i /\ i <= after + PageSize}
\* Mutant of RegionsOf: the numbers of the writes in place of their regions.
NumbersOf(page) == {i : i \in page}
RegionsOf(page) == {changes[i].region : i \in page}

\* _wants and _subscribed: the changes that wake the agent.
Wakes(agent) == {i \in DOMAIN changes :
                   changes[i].region \in Wants[agent] /\ changes[i].writer # agent}

\* _carrier_for: the callback, or the transport aimed at the address.
Carries(c, agentState) == agentState.by = "callback" \/ c \in Reaching

\* _evaluate_dispatch_locked and _dispatch for the agents of `known`, a
\* Control's _agents, whose pending sets are given: whom it wakes, and with what.
Woken(c, known, pending, end) ==
  {a \in DOMAIN known : pending[a] # {} /\ Carries(c, known[a]) /\ end > known[a].acked}
Note(agent, answered, end, named) ==
  [agent |-> agent, from |-> answered + 1, to |-> end, regions |-> named]
Deliveries(c, known, pending, end) ==
  {[control |-> c, stage |-> "queued", note |-> Note(a, known[a].acked, end, pending[a])] :
     a \in Woken(c, known, pending, end)}
Told(known, woken, end) ==
  [a \in DOMAIN known |->
     IF a \in woken
     THEN [known[a] EXCEPT !.notified = Store!Maximum(known[a].notified, end)]
     ELSE known[a]]

\* Mutant of MarkNotified: a row is made and its column is not raised.
MarkInRoster(agents, end) ==
  /\ roster' = roster \cup agents
  /\ UNCHANGED notified

\* mark_notified for each of the agents.
MarkNotified(agents, end) ==
  /\ roster' = roster \cup agents
  /\ notified' = Store!NotifiedThrough(agents, end)

\* Mutant of TouchIdle: the generation the predicate was asked under stays.
TouchTimer(c) ==
  /\ run' = Store!Touched
  /\ idleDue' = [idleDue EXCEPT ![c] = now + Idle]
  /\ UNCHANGED asked

\* _touch_idle_locked, while the Control does not know the run to be closed.
TouchIdle(c) ==
  /\ run' = Store!Touched
  /\ idleDue' = [idleDue EXCEPT ![c] = now + Idle]
  /\ asked' = [asked EXCEPT ![c] = FALSE]
TouchIdleIf(c, condition) ==
  IF condition THEN TouchIdle(c) ELSE UNCHANGED <<run, idleDue, asked>>

UnchangedRecord == UNCHANGED <<regions, sequence, changes, levels, premises, keys, answers>>
UnchangedOutbox == UNCHANGED <<outbox, sent, cleared>>
UnchangedProgress == UNCHANGED <<roster, notified, acked, declaration>>
UnchangedStore == UNCHANGED storeVars
UnchangedHistory == UNCHANGED <<sweep, received, crashes, served>>
UnchangedCalls == UNCHANGED <<answering, touching>>

-----------------------------------------------------------------------------
(* Creating a process: create_model, as every replica calls it.            *)

\* Control.__init__: the regions are there, the record is read to its end, and
\* open_run sets both deadlines, whoever opened the run before.
Create(c) ==
  /\ c \notin up
  /\ now + Wall <= MaxTime           \* bound: the wall clock can still pass
  /\ LateStart \/ run.state \in {"none", "open"}
  /\ up' = up \cup {c}
  /\ regions' = Region
  /\ last' = [last EXCEPT ![c] = sequence]
  /\ run' = [state |-> "open", idle |-> now + Idle, wall |-> now + Wall, unfinished |-> {}]
  /\ wallDue' = [wallDue EXCEPT ![c] = now + Wall]
  /\ pc' = [pc EXCEPT ![c] = [op |-> "creating"]]
  /\ UNCHANGED <<sequence, changes, levels, premises, keys, answers, now>>
  /\ UnchangedProgress /\ UnchangedOutbox /\ UnchangedHistory /\ UnchangedCalls
  /\ UNCHANGED <<held, outcome, idleDue, asked, flight>>

\* _open_premises: which premises the record holds a value of.
ReadStanding(c) ==
  /\ pc[c].op = "creating"
  /\ pc' = [pc EXCEPT ![c] = [op |-> "opening",
                              missing |-> {p \in Premises : premises[p] = 0}]]
  /\ UnchangedStore /\ UnchangedHistory /\ UnchangedCalls
  /\ UNCHANGED <<localVars, flight>>

OpenPremise(c, p) ==
  /\ pc[c].op = "opening" /\ p \in pc[c].missing
  /\ sequence < MaxSequence
  /\ Store!Set(p, 0, NoWriter, NoKey, {})
  /\ last' = [last EXCEPT ![c] = sequence + 1]
  /\ pc' = [pc EXCEPT ![c].missing = @ \ {p}]
  /\ UnchangedHistory /\ UnchangedCalls
  /\ UNCHANGED <<up, held, outcome, wallDue, idleDue, asked, flight>>

\* The premise got its value from another process since: the assertion that a
\* fresh premise cannot conflict fails, and create_model aborts the run.
CreationFails(c, p) ==
  /\ pc[c].op = "opening" /\ p \in pc[c].missing
  /\ Store!Conflicts(p, 0)
  /\ up' = up \ {c}
  /\ wallDue' = [wallDue EXCEPT ![c] = Never]
  /\ pc' = [pc EXCEPT ![c] = Waiting]
  /\ IF run.state = "open" THEN Store!CloseRun("aborted", {}) ELSE UnchangedStore
  /\ UnchangedHistory /\ UnchangedCalls
  /\ UNCHANGED <<last, held, outcome, idleDue, asked, flight>>

Created(c) ==
  /\ pc[c].op = "opening" /\ pc[c].missing = {}
  /\ pc' = [pc EXCEPT ![c] = Waiting]
  /\ touching' = touching \cup {c}
  /\ UnchangedStore /\ UnchangedHistory
  /\ UNCHANGED <<localVars, answering, flight>>

\* A process stops between any two steps.  What it held is lost.
Crash(c) ==
  /\ c \in up /\ crashes < MaxCrashes
  /\ up' = up \ {c}
  /\ crashes' = crashes + 1
  /\ last' = [last EXCEPT ![c] = 0]
  /\ held' = [held EXCEPT ![c] = NoHeld]
  /\ outcome' = [outcome EXCEPT ![c] = "none"]
  /\ wallDue' = [wallDue EXCEPT ![c] = Never]
  /\ idleDue' = [idleDue EXCEPT ![c] = Never]
  /\ asked' = [asked EXCEPT ![c] = FALSE]
  /\ pc' = [pc EXCEPT ![c] = Waiting]
  /\ answering' = {k \in answering : k.control # c}
  /\ touching' = touching \ {c}
  /\ flight' = {d \in flight : d.control # c}
  /\ UnchangedStore
  /\ UNCHANGED <<sweep, received, served>>

-----------------------------------------------------------------------------
(* Registering an agent, from a roster or by itself.                       *)

\* register_agent: the answer on the record is where the agent resumes, and
\* every region it subscribes to that holds something is due now.
Register(c, a, by) ==
  LET answered == acked[a]
      known == [x \in {a} \cup DOMAIN held[c] |->
                  IF x = a THEN [by |-> by, notified |-> answered, acked |-> answered]
                  ELSE held[c][x]]
      filled == {l \in Levels : levels[l] # <<>>} \cup {p \in Premises : premises[p] > 0}
      pending == [x \in DOMAIN known |-> IF x = a THEN Wants[a] \cap filled ELSE {}]
      woken == Woken(c, known, pending, last[c])
  IN  /\ Open(c)
      /\ held' = [held EXCEPT ![c] = Told(known, woken, last[c])]
      /\ flight' = flight \cup Deliveries(c, known, pending, last[c])
      /\ roster' = roster \cup {a}
      /\ declaration' = [declaration EXCEPT ![a] = by]
      /\ notified' = Store!NotifiedThrough(woken, last[c])
      /\ TouchIdleIf(c, woken # {})
      /\ UnchangedRecord /\ UnchangedOutbox /\ UnchangedHistory /\ UnchangedCalls
      /\ UNCHANGED <<acked, now, up, last, outcome, wallDue, pc>>

-----------------------------------------------------------------------------
(* A write, under one hold of the lock: who hears, sequencing, waking.     *)

\* The gate, and _who_hears: the agents the run records as subscribed, with
\* their addresses and answers as they are at this moment.
BeginWrite(c, region, writer) ==
  LET subscribed == {a \in roster : region \in IF declaration[a] = NoDeclaration
                                              THEN Premises ELSE Wants[a]}
  IN  /\ Open(c) /\ c \notin touching
      /\ sequence < MaxSequence
      /\ pc' = [pc EXCEPT ![c] = [op |-> "appending", region |-> region, writer |-> writer,
                                  hearers |-> subscribed \ {writer},
                                  acked |-> acked, declared |-> declaration]]
      /\ UnchangedStore /\ UnchangedHistory /\ UnchangedCalls
      /\ UNCHANGED <<localVars, flight>>

\* store.append or store.set, whose transaction holds the outbox rows too.
SequenceWrite(c) ==
  /\ pc[c].op = "appending"
  /\ sequence < MaxSequence
  /\ \/ Store!AppendTo(pc[c].region, pc[c].writer, NoKey, pc[c].hearers)
     \/ /\ pc[c].region \in Premises
        /\ Store!Set(pc[c].region, premises[pc[c].region], pc[c].writer, NoKey, pc[c].hearers)
  /\ last' = [last EXCEPT ![c] = sequence + 1]
  /\ pc' = [pc EXCEPT ![c].op = "noting"]
  /\ UnchangedHistory /\ UnchangedCalls
  /\ UNCHANGED <<up, held, outcome, wallDue, idleDue, asked, flight>>

\* Mutant of RefuseWrite: the process counts a write the store did not take.
RefuseAndCount(c) ==
  /\ pc[c].op = "appending"
  /\ pc' = [pc EXCEPT ![c] = Waiting]
  /\ last' = [last EXCEPT ![c] = @ + 1]
  /\ touching' = touching \cup {c}
  /\ UnchangedStore /\ UnchangedHistory
  /\ UNCHANGED <<up, held, outcome, wallDue, idleDue, asked, answering, flight>>

\* A premise write that names a version no longer current, and a write the
\* admission rule refuses, change nothing but the idle deadline.
RefuseWrite(c) ==
  /\ pc[c].op = "appending"
  /\ pc' = [pc EXCEPT ![c] = Waiting]
  /\ touching' = touching \cup {c}
  /\ UnchangedStore /\ UnchangedHistory
  /\ UNCHANGED <<localVars, answering, flight>>

\* _note_region_change and _reach_the_rest: the subscribers this process holds,
\* and those it can only reach at their address.
NoteWrite(c) ==
  LET w == pc[c]
      end == last[c]
      known == held[c]
      owed == {a \in w.hearers \ DOMAIN known :
                 c \in Reaching /\ w.declared[a] = "address" /\ end > w.acked[a]}
      page == Page(Min({w.acked[a] : a \in owed} \cup {sequence}))
      named == [a \in owed |-> RegionsOf({i \in page \cap Wakes(a) : i > w.acked[a]})]
      reached == {a \in owed : named[a] # {}}
      pending == [a \in DOMAIN known |->
                    IF a # w.writer THEN {w.region} \cap Wants[a] ELSE {}]
      woken == Woken(c, known, pending, end)
  IN  /\ w.op = "noting"
      /\ MarkNotified(reached \cup woken, end)
      /\ flight' = flight \cup Deliveries(c, known, pending, end)
                    \cup {[control |-> c, stage |-> "queued",
                           note |-> Note(a, w.acked[a], end, named[a])] : a \in reached}
      /\ held' = [held EXCEPT ![c] = Told(known, woken, end)]
      /\ pc' = [pc EXCEPT ![c] = Waiting]
      /\ touching' = touching \cup {c}
      /\ TouchIdleIf(c, woken # {})
      /\ UnchangedRecord /\ UnchangedOutbox /\ UnchangedHistory
      /\ UNCHANGED <<acked, declaration, now, up, last, outcome, wallDue, answering>>

\* _check_completion: the call takes the lock again, once it has delivered, to
\* push the idle deadline out.  The bound is one such call a process: until it
\* has, BeginWrite and NoteAnswer let no other call of the process get that far.
CheckCompletion(c) ==
  /\ Free(c) /\ c \in touching
  /\ touching' = touching \ {c}
  /\ TouchIdleIf(c, outcome[c] = "none")
  /\ served' = IF outcome[c] = "none" THEN [served EXCEPT ![c] = now] ELSE served
  /\ UnchangedRecord /\ UnchangedProgress /\ UnchangedOutbox
  /\ UNCHANGED <<now, up, last, held, outcome, wallDue, pc, answering, flight>>
  /\ UNCHANGED <<sweep, received, crashes>>

-----------------------------------------------------------------------------
(* Waking agents for writes another process took.                          *)

\* _take_tail_locked over the agents considered, then a dispatch for each.
\* A relay is resending, so what it told the agent before does not bound it.
TakeTail(c, considered, resending) ==
  LET known == held[c]
      page == Page(Min({known[a].acked : a \in considered}))
      end == Max({last[c]} \cup page)
      pending == [a \in DOMAIN known |->
                    IF a \in considered
                    THEN RegionsOf({i \in page \cap Wakes(a) :
                                      resending \/ i > known[a].notified})
                    ELSE {}]
      woken == Woken(c, known, pending, end)
  IN  /\ last' = [last EXCEPT ![c] = end]
      /\ held' = [held EXCEPT ![c] = Told(known, woken, end)]
      /\ flight' = flight \cup Deliveries(c, known, pending, end)
      /\ MarkNotified(woken, end)
      /\ TouchIdleIf(c, woken # {})
      /\ UnchangedRecord /\ UnchangedOutbox /\ UnchangedHistory /\ UnchangedCalls
      /\ UNCHANGED <<acked, declaration, now, up, outcome, wallDue, pc>>

NotifyDue(c) ==
  /\ Open(c) /\ run.state = "open"
  /\ DOMAIN held[c] # {}
  /\ TakeTail(c, DOMAIN held[c], FALSE)

\* Mutant of RelayRoster: what the agent was told before is not sent again.
RelayUntold(c) ==
  LET owed == {a \in DOMAIN held[c] : outbox[a] # {}}
  IN  Open(c) /\ owed # {} /\ TakeTail(c, owed, FALSE)

\* relay: the agents this process holds that an outbox row names.
RelayRoster(c) ==
  LET owed == {a \in DOMAIN held[c] : outbox[a] # {}}
  IN  Open(c) /\ owed # {} /\ TakeTail(c, owed, TRUE)

\* _relay_by_address: an agent this process does not hold, from what the run
\* records of it.  It takes no lock and reads the board from its beginning.
RelayByAddress(c, a) ==
  LET page == Page(0)
      end == Max({0} \cup page)
      named == RegionsOf({i \in page \cap Wakes(a) : i > acked[a]})
  IN  /\ c \in up \cap Reaching
      /\ a \in roster \ DOMAIN held[c] /\ declaration[a] = "address"
      /\ outbox[a] # {}
      /\ IF named = {}
         THEN Store!MarkSent(a, Max(outbox[a])) /\ UNCHANGED flight
         ELSE /\ MarkNotified({a}, end)
              /\ flight' = flight \cup {[control |-> c, stage |-> "queued",
                                         note |-> Note(a, acked[a], end, named)]}
              /\ UnchangedRecord /\ UnchangedOutbox
              /\ UNCHANGED <<acked, declaration, run, now>>
      /\ UnchangedHistory /\ UnchangedCalls
      /\ UNCHANGED <<localVars, pc>>

-----------------------------------------------------------------------------
(* Delivering, on whatever threads drain the process's queue.              *)

Deliver(d) ==
  /\ d \in flight /\ d.stage = "queued"
  /\ received' = [received EXCEPT ![d.note.agent] = @ \cup {d.note}]
  /\ flight' = (flight \ {d}) \cup {[d EXCEPT !.stage = "sent"]}
  /\ UnchangedStore
  /\ UNCHANGED <<localVars, pc, callVars, sweep, crashes, served>>

\* Mutant of DeliveryFails: the row is marked before the send.
DeliveryFailsMarked(d) ==
  /\ d \in flight /\ d.stage = "queued"
  /\ flight' = flight \ {d}
  /\ Store!MarkSent(d.note.agent, d.note.to)
  /\ UnchangedHistory /\ UnchangedCalls
  /\ UNCHANGED <<localVars, pc>>

\* The callback or the transport raises: the delivery is dropped, and the
\* outbox row, if the write recorded one, stays.
DeliveryFails(d) ==
  /\ d \in flight /\ d.stage = "queued"
  /\ flight' = flight \ {d}
  /\ UnchangedStore /\ UnchangedHistory /\ UnchangedCalls
  /\ UNCHANGED <<localVars, pc>>

\* Marked after the send, never before.
MarkDelivered(d) ==
  /\ d \in flight /\ d.stage = "sent"
  /\ flight' = flight \ {d}
  /\ Store!MarkSent(d.note.agent, d.note.to)
  /\ UnchangedHistory /\ UnchangedCalls
  /\ UNCHANGED <<localVars, pc>>

\* ack, sent to any process, reaches the store without the lock; the store
\* decides.  A repeat changes nothing ...
Ack(c, a, through) ==
  /\ c \in up
  /\ acked[a] < through
  /\ Store!Acknowledge(a, through)
  /\ answering' = answering \cup {[control |-> c, agent |-> a, through |-> through]}
  /\ UNCHANGED <<localVars, pc, touching, flight>> /\ UnchangedHistory

\* ... and a first answer brings what this process knows of the agent up to date.
NoteAnswer(k) ==
  /\ Free(k.control) /\ k.control \notin touching
  /\ answering' = answering \ {k}
  /\ held' = IF k.agent \in DOMAIN held[k.control]
             THEN [held EXCEPT ![k.control][k.agent].acked = Store!Maximum(@, k.through)]
             ELSE held
  /\ touching' = touching \cup {k.control}
  /\ UnchangedStore /\ UnchangedHistory
  /\ UNCHANGED <<up, last, outcome, wallDue, idleDue, asked, pc, flight>>

-----------------------------------------------------------------------------
(* Closing the run.                                                        *)

\* A timer fires, or the application aborts: under the lock, the unfinished
\* agents are read, and only then is the run closed.
BeginClose(c, as) ==
  /\ outcome[c] = "none"
  /\ pc' = [pc EXCEPT ![c] =
               [op |-> "closing", outcome |-> as,
                unfinished |-> IF as = "aborted" THEN {} ELSE Store!Outstanding]]
  /\ UnchangedStore /\ UnchangedHistory /\ UnchangedCalls
  /\ UNCHANGED <<localVars, flight>>

IdlePassed(c) == Free(c) /\ idleDue[c] # Never /\ idleDue[c] <= now /\ ~ asked[c]

\* _idle_passed without a predicate, and _wall_clock_expired, which can come
\* before the premises are opened.
IdleSettles(c) == c \notin Predicated /\ IdlePassed(c) /\ BeginClose(c, "settled")
WallClockExpires(c) ==
  /\ c \in up /\ pc[c].op \in {"none", "creating"}
  /\ wallDue[c] # Never /\ wallDue[c] <= now
  /\ BeginClose(c, "wall_clock_expired")
Abort(c) == Free(c) /\ BeginClose(c, "aborted")

\* The predicate is asked with the lock released ...
AskPredicate(c) ==
  /\ c \in Predicated /\ IdlePassed(c) /\ outcome[c] = "none"
  /\ asked' = [asked EXCEPT ![c] = TRUE]
  /\ UnchangedStore /\ UnchangedHistory /\ UnchangedCalls
  /\ UNCHANGED <<up, last, held, outcome, wallDue, idleDue, pc, flight>>

\* ... so its answer counts only if nothing has moved the idle timer since.
PredicateComplete(c) == Free(c) /\ asked[c] /\ BeginClose(c, "settled")
PredicateContinues(c) ==
  /\ asked[c] /\ Open(c)
  /\ TouchIdle(c)
  /\ UnchangedRecord /\ UnchangedProgress /\ UnchangedOutbox /\ UnchangedHistory /\ UnchangedCalls
  /\ UNCHANGED <<now, up, last, held, outcome, wallDue, pc, flight>>

\* What _close_locked leaves of a Control.
Closed(c, as) ==
  /\ outcome' = [outcome EXCEPT ![c] = as]
  /\ wallDue' = [wallDue EXCEPT ![c] = Never]
  /\ idleDue' = [idleDue EXCEPT ![c] = Never]
  /\ asked' = [asked EXCEPT ![c] = FALSE]
  /\ UNCHANGED <<up, last, held>>

\* Mutant of Close: a caller that loses keeps its own outcome.
CloseAsOwn(c) ==
  /\ pc[c].op = "closing"
  /\ Closed(c, pc[c].outcome)
  /\ IF run.state = "open"
     THEN Store!CloseRun(pc[c].outcome, pc[c].unfinished)
     ELSE UnchangedStore
  /\ pc' = [pc EXCEPT ![c] = Waiting]
  /\ UnchangedHistory /\ UnchangedCalls
  /\ UNCHANGED flight

\* _close_locked: the store answers True to one caller; another one adopts the
\* outcome it finds.
Close(c) ==
  /\ pc[c].op = "closing"
  /\ IF run.state = "open"
     THEN Store!CloseRun(pc[c].outcome, pc[c].unfinished) /\ Closed(c, pc[c].outcome)
     ELSE UnchangedStore /\ Closed(c, run.state)
  /\ pc' = [pc EXCEPT ![c] = Waiting]
  /\ UnchangedHistory /\ UnchangedCalls
  /\ UNCHANGED flight

\* notify_due in a process that has not yet learnt that the run closed.
AdoptClosure(c) ==
  /\ Open(c) /\ run.state \in Store!Outcomes
  /\ Closed(c, run.state)
  /\ UnchangedStore /\ UnchangedHistory /\ UnchangedCalls
  /\ UNCHANGED <<pc, flight>>

\* Mutant of SweepReads: only the idle deadline is looked at.
SweepReadsIdle ==
  /\ sweep = NoSweep /\ Store!Expired = "settled"
  /\ sweep' = [outcome |-> Store!Expired, unfinished |-> Store!Outstanding]
  /\ UnchangedStore
  /\ UNCHANGED <<localVars, pc, callVars, flight, received, crashes, served>>

\* close_expired: what a sweep reads, and what it then closes the run as.
SweepReads ==
  /\ sweep = NoSweep /\ Store!PastDeadline
  /\ sweep' = [outcome |-> Store!Expired, unfinished |-> Store!Outstanding]
  /\ UnchangedStore
  /\ UNCHANGED <<localVars, pc, callVars, flight, received, crashes, served>>

SweepCloses ==
  /\ sweep # NoSweep
  /\ sweep' = NoSweep
  /\ IF run.state = "open"
     THEN Store!CloseRun(sweep.outcome, sweep.unfinished)
     ELSE UnchangedStore
  /\ UNCHANGED <<localVars, pc, callVars, flight, received, crashes, served>>

Tick == Store!Tick /\ UNCHANGED <<localVars, pc, callVars, flight, sweep, received, crashes, served>>

-----------------------------------------------------------------------------
Creating(c) == \/ Create(c) \/ ReadStanding(c) \/ Created(c)
               \/ \E p \in Premises : OpenPremise(c, p) \/ CreationFails(c, p)
Writing(c) == \/ \E r \in Region, w \in Writers \ {NoWriter} : BeginWrite(c, r, w)
              \/ SequenceWrite(c) \/ RefuseWrite(c) \/ NoteWrite(c)
              \/ CheckCompletion(c)
Waking(c) == \/ NotifyDue(c) \/ RelayRoster(c)
             \/ \E a \in Agents : RelayByAddress(c, a)
Registering(c) == \E a \in Agents, by \in Declarations : Register(c, a, by)
Answering == \/ \E c \in Controls, a \in Agents : \E n \in received[a] : Ack(c, a, n.to)
             \/ \E k \in answering : NoteAnswer(k)
Delivering == \E d \in flight : Deliver(d) \/ DeliveryFails(d) \/ MarkDelivered(d)
Closing(c) == \/ IdleSettles(c) \/ WallClockExpires(c) \/ Abort(c)
              \/ AskPredicate(c) \/ PredicateComplete(c) \/ PredicateContinues(c)
              \/ Close(c) \/ AdoptClosure(c)

Room == Cardinality(flight') <= MaxFlight

Next ==
  \/ \E c \in Controls :
       \/ Creating(c) \/ Closing(c) \/ Crash(c)
       \/ (Writing(c) \/ Waking(c) \/ Registering(c)) /\ Room
  \/ Answering \/ Delivering
  \/ SweepReads \/ SweepCloses \/ Tick

Spec == Init /\ [][Next]_vars

\* Time passes, and something calls close_expired again and again (a Sweep, a
\* scheduled job).  Nothing is assumed of the processes that serve the board.
Swept == WF_vars(Tick) /\ WF_vars(SweepReads) /\ WF_vars(SweepCloses)

\* Something calls relay again and again in the process and gets its lock, its
\* threads go on, and the transport does not fail for ever.
Relayed(c) ==
  /\ WF_vars(SequenceWrite(c) \/ RefuseWrite(c)) /\ WF_vars(NoteWrite(c) /\ Room) /\ WF_vars(CheckCompletion(c))
  /\ SF_vars(RelayRoster(c) /\ Room)
  /\ \A a \in Agents : SF_vars(RelayByAddress(c, a) /\ Room)
  /\ SF_vars(\E d \in flight : d.control = c /\ Deliver(d))
  /\ WF_vars(\E d \in flight : d.control = c /\ MarkDelivered(d))

-----------------------------------------------------------------------------
(* Properties.                                                             *)

Covers(note, i) == note.from <= i /\ i <= note.to

\* A notification a write recorded leaves the outbox of an open run only once
\* the agent has received one whose range covers the write, or has answered
\* past it: at least once, whichever process wrote, crashed or relayed.
NoNotificationLost ==
  run.state = "open" =>
    \A i \in DOMAIN changes : \A a \in changes[i].hearers :
      \/ i \in outbox[a]
      \/ i <= cleared
      \/ i <= acked[a]
      \/ \E n \in received[a] : Covers(n, i)

\* While the run is open, every notification that is out can be answered: the
\* store was told of it before it was sent, so ack never refuses it.
EveryNotificationAnswerable ==
  run.state = "open" =>
    \A a \in Agents : \A n \in received[a] : Store!Acknowledgeable(a, n.to)

\* What a process remembers of an agent and of the board is behind the store,
\* never ahead, so the worst it does is notify again.
CacheNeverAhead ==
  run.state = "open" =>
    \A c \in up :
      /\ last[c] <= sequence
      /\ \A a \in DOMAIN held[c] : /\ held[c][a].notified <= notified[a]
                                    /\ held[c][a].acked <= acked[a]

\* However many processes and sweeps reach the end together, all that know the
\* run to be closed know it by the one outcome the store holds.
OneOutcome == \A c \in up : outcome[c] \in {"none", run.state}

\* The step in which a process settles the run itself: _close_locked, with no
\* closure to adopt.
Settles(c) ==
  /\ pc[c].op = "closing" /\ pc'[c] = Waiting
  /\ outcome'[c] = "settled" /\ run.state = "open"

\* A process settles a run only once the idle limit has passed since the last
\* call it ended, though its predicate is asked without the lock and calls end
\* meanwhile (_idle_passed, _check_completion).
SettlesAfterCalls ==
  [][\A c \in Controls : Settles(c) => served[c] + Idle <= now]_vars

\* Whatever becomes of the processes, a run that was opened closes: the sweep
\* ends the one that no process is watching.
EveryRunCloses == run.state = "open" ~> run.state \in Store!Outcomes

\* What a write recorded for an agent leaves the outbox in the end, though the
\* process that took the write stopped before it had delivered, if the process
\* that relays does not stop for good.
EveryRowLeaves ==
  (\E c \in Reaching : <>[](c \in up)) =>
    \A a \in Agents, i \in 1..MaxSequence : i \in outbox[a] ~> i \notin outbox[a]

\* A write to a closed run is refused: no process lets one through its gate once
\* the run has closed in the store, whichever closed it (_sequencing_gate_locked).
GateRefusesClosed ==
  [][\A c \in Controls :
       run.state \in Store!Outcomes => ~ (pc[c] = Waiting /\ pc'[c].op = "appending")]_vars

\* No write is sequenced on a run that has closed.
NoWriteAfterClose == [][sequence' > sequence => run.state = "open"]_vars

\* A notification covers a write with its region or not at all: what leaves
\* the outbox was named to the agent.
NoRegionLost ==
  run.state = "open" =>
    \A i \in DOMAIN changes : \A a \in changes[i].hearers :
      \/ i \in outbox[a]
      \/ i <= cleared
      \/ i <= acked[a]
      \/ \E n \in received[a] : Covers(n, i) /\ changes[i].region \in n.regions

\* Creating the same board from several processes converges: none of them
\* finds that a premise it saw without a value has one.
CreationConverges ==
  \A c \in up, p \in Premises :
    pc[c].op = "opening" /\ p \in pc[c].missing => premises[p] = 0

\* The wall-clock deadline of an open run is the one it was opened with,
\* whichever processes come to serve its board afterwards.
DeadlineStands ==
  [][run.state = "open" /\ run'.state = "open" => run'.wall = run.wall]_vars

\* A run settles only when its idle deadline, in the store, has passed.
SettlesOnSilence ==
  [][run.state = "open" /\ run'.state = "settled" => now >= run.idle]_vars

\* No process settles a run between a call it has taken and the push of the
\* idle deadline that ends the call.
NoCallSettledAway ==
  [][\A c \in Controls : Settles(c) => c \notin touching]_vars
=============================================================================
