----------------------------- MODULE BoardStore -----------------------------
(***************************************************************************)
(* The store of one board, as InMemoryStore (_board.py) keeps it: every    *)
(* operation runs under the store's lock, so every operation is one step.  *)
(* The other stores promise the same operations; Control is modelled over  *)
(* the actions of this module.                                             *)
(*                                                                         *)
(* Contents, writers and instants of writing are left out: no operation    *)
(* reads them back.  A call that raises changes nothing and has no step of *)
(* its own; the conditions under which it raises are the guards.           *)
(***************************************************************************)
EXTENDS Naturals, Sequences, FiniteSets, Functions

CONSTANTS
  Levels, Premises,   \* the region names of either kind
  Agents,             \* the agent names
  Writers,            \* the names writes are made under
  Keys,               \* the idempotency keys
  Declarations,       \* what declare_agent records of an agent
  NoKey, NoRegion, NoDeclaration,
  Idle, Wall,         \* the two limits open_run is given, in clock ticks
  MaxSequence,        \* bound: writes on the board
  MaxTime             \* bound: ticks of the store's clock

ASSUME RegionsAssumption ==
  /\ Levels \cap Premises = {}
  /\ NoRegion \notin Levels \cup Premises
ASSUME KeysAssumption == NoKey \notin Keys
ASSUME DeclarationsAssumption == NoDeclaration \notin Declarations
ASSUME LimitsAssumption == Idle \in Nat /\ Wall \in Nat
ASSUME BoundsAssumption == MaxSequence \in Nat /\ MaxTime \in Nat

VARIABLES
  regions,      \* the regions declared on the board
  sequence,     \* the board's one counter
  changes,      \* every write to every region, in order
  levels,       \* each level's contributions, by sequence number
  premises,     \* each premise's version, 0 before its first value
  keys,         \* what each idempotency key produced
  run,          \* the run row: its state, its deadlines, who was unfinished
  now,          \* the store's clock
  roster,       \* the agents that have a progress row
  notified, acked, declaration,   \* the columns of those rows
  outbox,       \* the notifications recorded and not sent, by agent
  answers,      \* history: every answer a keyed write was given
  sent,         \* history: how far mark_sent has gone, by agent
  cleared       \* history: the counter when close_run last emptied the outbox

recordVars == <<regions, sequence, changes, levels, premises, keys, answers>>
runVars == <<run, now>>
agentVars == <<roster, notified, acked, declaration>>
outboxVars == <<outbox, sent, cleared>>
vars == <<recordVars, runVars, agentVars, outboxVars>>

-----------------------------------------------------------------------------
Region == Levels \cup Premises
Outcomes == {"settled", "wall_clock_expired", "aborted"}
Maximum(m, n) == IF m >= n THEN m ELSE n

\* `expected` and `hearers` are history: the version a premise write named, and
\* the agents the write was to notify.
Change == [sequence : Nat, region : Region, writer : Writers,
           key : Keys \cup {NoKey}, expected : Nat, hearers : SUBSET Agents]
Written == [region : Region \cup {NoRegion}, sequence : Nat, version : Nat]
NotWritten == [region |-> NoRegion, sequence |-> 0, version |-> 0]
Run == [state : {"none", "open"} \cup Outcomes, idle : Nat, wall : Nat,
        unfinished : SUBSET Agents]

TypeOK ==
  /\ regions \subseteq Region
  /\ sequence \in Nat
  /\ changes \in Seq(Change)
  /\ levels \in [Levels -> Seq(Nat)]
  /\ premises \in [Premises -> Nat]
  /\ keys \in [Keys -> Written]
  /\ run \in Run
  /\ now \in Nat
  /\ roster \subseteq Agents
  /\ notified \in [Agents -> Nat]
  /\ acked \in [Agents -> Nat]
  /\ declaration \in [Agents -> Declarations \cup {NoDeclaration}]
  /\ outbox \in [Agents -> SUBSET Nat]
  /\ answers \subseteq [key : Keys, written : Written]
  /\ sent \in [Agents -> Nat]
  /\ cleared \in Nat

\* A board nobody has declared a region on: `_BoardState()`.
EmptyRecord ==
  /\ regions = {}
  /\ sequence = 0
  /\ changes = <<>>
  /\ levels = [l \in Levels |-> <<>>]
  /\ premises = [p \in Premises |-> 0]
  /\ keys = [k \in Keys |-> NotWritten]
  /\ answers = {}

NoProgress ==
  /\ roster = {}
  /\ notified = [a \in Agents |-> 0]
  /\ acked = [a \in Agents |-> 0]
  /\ declaration = [a \in Agents |-> NoDeclaration]

NoRun == [state |-> "none", idle |-> 0, wall |-> 0, unfinished |-> {}]

Init ==
  /\ EmptyRecord
  /\ run = NoRun
  /\ now = 0
  /\ NoProgress
  /\ outbox = [a \in Agents |-> {}]
  /\ sent = [a \in Agents |-> 0]
  /\ cleared = 0

-----------------------------------------------------------------------------
(* Reads.                                                                  *)

\* Mutant of Repeated: a key is never recognised.
NeverRepeated(key, region) == FALSE

\* _already_written: the key has been used, on this region or on another one.
Repeated(key, region) == key \in Keys /\ keys[key].region = region
Misused(key, region) == key \in Keys /\ keys[key].region \notin {region, NoRegion}

Unsent == UNION {{[agent |-> a, through |-> n] : n \in outbox[a]} : a \in Agents}

\* RunRecord.expired: the limit that has passed, the wall clock first.
Expired ==
  CASE run.state # "open" -> "none"
    [] run.state = "open" /\ now >= run.wall -> "wall_clock_expired"
    [] run.state = "open" /\ now < run.wall /\ now >= run.idle -> "settled"
    [] OTHER -> "none"

\* runs_past_deadline: an open run either of whose deadlines has passed.
PastDeadline == run.state = "open" /\ (now >= run.idle \/ now >= run.wall)

-----------------------------------------------------------------------------
(* Writes.                                                                 *)

Declare(region) ==
  /\ region \notin regions
  /\ regions' = regions \cup {region}
  /\ UNCHANGED <<sequence, changes, levels, premises, keys, answers>>
  /\ UNCHANGED <<runVars, agentVars, outboxVars>>

\* Mutant of Enqueue: a new row replaces the agent's earlier ones.
EnqueueLatest(hearers, through) ==
  /\ outbox' = [a \in Agents |-> IF a \in hearers THEN {through} ELSE outbox[a]]
  /\ UNCHANGED <<sent, cleared>>

\* _enqueue: one outbox row for each agent the write is to wake.
Enqueue(hearers, through) ==
  /\ outbox' = [a \in Agents |->
                  IF a \in hearers THEN outbox[a] \cup {through} ELSE outbox[a]]
  /\ UNCHANGED <<sent, cleared>>

\* What append and set share once they have decided to write.
Record(region, writer, key, expected, hearers) ==
  LET written == [region |-> region, sequence |-> sequence + 1,
                  version |-> IF region \in Premises THEN expected + 1 ELSE 0]
  IN  /\ sequence' = sequence + 1
      /\ changes' = Append(changes, [sequence |-> sequence + 1, region |-> region,
                                     writer |-> writer, key |-> key, expected |-> expected,
                                     hearers |-> hearers])
      /\ IF key \in Keys
         THEN /\ keys' = [keys EXCEPT ![key] = written]
              /\ answers' = answers \cup {[key |-> key, written |-> written]}
         ELSE UNCHANGED <<keys, answers>>
      /\ Enqueue(hearers, sequence + 1)
      /\ UNCHANGED <<regions, runVars, agentVars>>

\* A key that has already written this region: its first answer again.
Repeat(region, key) ==
  /\ region \in regions
  /\ Repeated(key, region)
  /\ answers' = answers \cup {[key |-> key, written |-> keys[key]]}
  /\ UNCHANGED <<regions, sequence, changes, levels, premises, keys>>
  /\ UNCHANGED <<runVars, agentVars, outboxVars>>

\* Mutant of AppendTo: the level lists the number before the write's own.
AppendBehind(level, writer, key, hearers) ==
  /\ level \in regions \cap Levels
  /\ ~ Repeated(key, level) /\ ~ Misused(key, level)
  /\ levels' = [levels EXCEPT ![level] = Append(@, sequence)]
  /\ Record(level, writer, key, 0, hearers)
  /\ UNCHANGED premises

AppendTo(level, writer, key, hearers) ==
  /\ level \in regions \cap Levels
  /\ ~ Repeated(key, level) /\ ~ Misused(key, level)
  /\ levels' = [levels EXCEPT ![level] = Append(@, sequence + 1)]
  /\ Record(level, writer, key, 0, hearers)
  /\ UNCHANGED premises

\* Mutant of Conflicts: the last writer wins.
NeverConflicts(premise, expected) == FALSE

\* A version other than the current one is a conflict, which writes nothing.
Conflicts(premise, expected) == expected # premises[premise]

Set(premise, expected, writer, key, hearers) ==
  /\ premise \in regions \cap Premises
  /\ ~ Repeated(key, premise) /\ ~ Misused(key, premise)
  /\ ~ Conflicts(premise, expected)
  /\ premises' = [premises EXCEPT ![premise] = @ + 1]
  /\ Record(premise, writer, key, expected, hearers)
  /\ UNCHANGED levels

\* Mutant of ForgetProgress: the columns go with the rows.
ForgetColumns ==
  /\ roster' = {}
  /\ notified' = <<>>
  /\ acked' = <<>>
  /\ declaration' = <<>>

ForgetProgress ==
  /\ roster' = {}
  /\ notified' = [a \in Agents |-> 0]
  /\ acked' = [a \in Agents |-> 0]
  /\ declaration' = [a \in Agents |-> NoDeclaration]

Delete ==
  /\ regions' = {}
  /\ sequence' = 0
  /\ changes' = <<>>
  /\ levels' = [l \in Levels |-> <<>>]
  /\ premises' = [p \in Premises |-> 0]
  /\ keys' = [k \in Keys |-> NotWritten]
  /\ answers' = {}
  /\ run' = NoRun
  /\ ForgetProgress
  /\ outbox' = [a \in Agents |-> {}]
  /\ sent' = [a \in Agents |-> 0]
  /\ cleared' = 0
  /\ UNCHANGED now

-----------------------------------------------------------------------------
(* The run.                                                                *)

OpenRun ==
  /\ run' = [state |-> "open", idle |-> now + Idle, wall |-> now + Wall,
             unfinished |-> {}]
  /\ UNCHANGED <<now, recordVars, agentVars, outboxVars>>

\* touch_run pushes the idle deadline out, of an open run only.
Touched == IF run.state = "open" THEN [run EXCEPT !.idle = now + Idle] ELSE run

TouchRun ==
  /\ run' = Touched
  /\ UNCHANGED <<now, recordVars, agentVars, outboxVars>>

\* Mutant of CloseRun: a caller that lost closes the run again.
CloseAgain(outcome, unfinished) ==
  /\ run.state # "none"
  /\ run' = [run EXCEPT !.state = outcome, !.unfinished = unfinished]
  /\ ForgetProgress
  /\ outbox' = [a \in Agents |-> {}]
  /\ cleared' = sequence
  /\ UNCHANGED <<now, sent, recordVars>>

\* Only the first of the callers closes; the others are told they did not.
CloseRun(outcome, unfinished) ==
  /\ run.state = "open"
  /\ run' = [run EXCEPT !.state = outcome, !.unfinished = unfinished]
  /\ ForgetProgress
  /\ outbox' = [a \in Agents |-> {}]
  /\ cleared' = sequence
  /\ UNCHANGED <<now, sent, recordVars>>

Tick ==
  /\ now < MaxTime
  /\ now' = now + 1
  /\ UNCHANGED <<run, recordVars, agentVars, outboxVars>>

-----------------------------------------------------------------------------
(* The agents' progress and the outbox.                                    *)

MarkSent(agent, through) ==
  /\ outbox' = [outbox EXCEPT ![agent] = {n \in @ : n > through}]
  /\ sent' = [sent EXCEPT ![agent] = Maximum(@, through)]
  /\ UNCHANGED <<cleared, recordVars, runVars, agentVars>>

DeclareAgent(agent, declared) ==
  /\ roster' = roster \cup {agent}
  /\ declaration' = [declaration EXCEPT ![agent] = declared]
  /\ UNCHANGED <<notified, acked, recordVars, runVars, outboxVars>>

\* Mutant of NotifiedThrough: the column is set rather than raised.
NotifiedAt(agents, through) ==
  [a \in Agents |-> IF a \in agents THEN through ELSE notified[a]]

\* mark_notified, called for each of some agents: a column never goes down.
NotifiedThrough(agents, through) ==
  [a \in Agents |-> IF a \in agents THEN Maximum(notified[a], through) ELSE notified[a]]

\* A row is made for an agent that has none.
MarkNotified(agent, through) ==
  /\ roster' = roster \cup {agent}
  /\ notified' = NotifiedThrough({agent}, through)
  /\ UNCHANGED <<acked, declaration, recordVars, runVars, outboxVars>>

\* Mutant of Acknowledgeable: any answer of an agent with a row is taken.
AnswersAnything(agent, through) == agent \in roster

\* An agent that was never told this far is refused.
Acknowledgeable(agent, through) == agent \in roster /\ through <= notified[agent]

Acknowledge(agent, through) ==
  /\ Acknowledgeable(agent, through)
  /\ acked' = [acked EXCEPT ![agent] = Maximum(@, through)]
  /\ UNCHANGED <<roster, notified, declaration, recordVars, runVars, outboxVars>>

Outstanding == {a \in roster : notified[a] > acked[a]}

-----------------------------------------------------------------------------
Next ==
  \/ \E r \in Region : Declare(r)
  \/ \E r \in Region, k \in Keys : Repeat(r, k)
  \/ \E w \in Writers, k \in Keys \cup {NoKey}, h \in SUBSET Agents :
       /\ sequence < MaxSequence
       /\ \/ \E l \in Levels : AppendTo(l, w, k, h)
          \/ \E p \in Premises, v \in 0..MaxSequence : Set(p, v, w, k, h)
  \/ Delete
  \/ OpenRun
  \/ TouchRun
  \/ \E o \in Outcomes, u \in SUBSET Agents : CloseRun(o, u)
  \/ Tick
  \/ \E a \in Agents, n \in 1..sequence :
       \/ MarkSent(a, n)
       \/ MarkNotified(a, n)
       \/ Acknowledge(a, n)
  \/ \E a \in Agents, d \in Declarations : DeclareAgent(a, d)

Spec == Init /\ [][Next]_vars

-----------------------------------------------------------------------------
(* Properties.                                                             *)

\* The two ways the record is kept agree.  The counter counts the writes and
\* numbers them without a gap, so neither a conflict nor a repeated key has
\* used a number up; each level lists exactly the writes made to it, in order;
\* each premise's version is the number of writes made to it.
RecordAgrees ==
  /\ sequence = Len(changes)
  /\ \A i \in DOMAIN changes : changes[i].sequence = i
  /\ \A l \in Levels :
       /\ Range(levels[l]) = {i \in DOMAIN changes : changes[i].region = l}
       /\ \A i, j \in DOMAIN levels[l] : i < j => levels[l][i] < levels[l][j]
  /\ \A p \in Premises :
       premises[p] = Cardinality({i \in DOMAIN changes : changes[i].region = p})

\* An idempotency key adds to the record at most once, and every call that
\* carries it is told of that one write (append and set, `repeated`).
KeyWritesOnce ==
  /\ \A i, j \in DOMAIN changes :
       changes[i].key = changes[j].key => changes[i].key = NoKey \/ i = j
  /\ \A a \in answers :
       /\ a.written.sequence \in DOMAIN changes
       /\ changes[a.written.sequence].key = a.key
       /\ changes[a.written.sequence].region = a.written.region

\* A notification a write recorded stays in the outbox until mark_sent passes
\* it or the run is closed: exactly those rows and no others are there, so
\* relaying them loses nothing and invents nothing (Unsent).
OutboxKeepsIntent ==
  \A a \in Agents :
    outbox[a] = {i \in DOMAIN changes :
                   a \in changes[i].hearers /\ i > sent[a] /\ i > cleared}

\* No agent has answered further than it was told, and one without a row has
\* no progress, so a name that registers later starts from nothing.
AckedWithinNotified ==
  \A a \in Agents : /\ acked[a] <= notified[a]
                    /\ a \notin roster => notified[a] = 0

\* While a row lives both of its columns only rise (AgentProgress), whatever
\* order processes notify, declare and acknowledge in.
ProgressOnlyRises ==
  [][\A a \in roster \cap roster' : /\ notified'[a] >= notified[a]
                                  /\ acked'[a] >= acked[a]]_vars

\* A closed run keeps its outcome and its unfinished set until it is opened
\* again or the board is deleted (close_run answers True to one caller only).
OutcomeStands ==
  [][run.state \in Outcomes =>
       \/ run' = run
       \/ run'.state = "open" /\ run'.unfinished = {}
       \/ run' = NoRun /\ changes' = <<>>]_vars

\* What BoardRecord shows of one write, and of the writes of a board.
Entry(change) == [region |-> change.region, expected |-> change.expected, key |-> change.key]
Shown(writes) == [i \in DOMAIN writes |-> Entry(writes[i])]

Promise == INSTANCE BoardRecord WITH log <- Shown(changes)

\* The store keeps the promise of BoardRecord: whatever calls interleave, what
\* append, set and delete leave behind is one log that grows by fresh writes.
KeepsTheRecord == Promise!Spec
=============================================================================
