---------------------------- MODULE SharedTables ----------------------------
(***************************************************************************)
(* One board as the tables of _sqlite.py and _postgres.py, and the         *)
(* collections of _mongodb.py, keep it, with the calls several processes   *)
(* are in the middle of.  What a statement sees of the others' is each     *)
(* engine's own and is in the module of that engine; the rows, the calls   *)
(* and what every store owes its callers are here.                         *)
(*                                                                         *)
(* Contents, writers, instants, deadlines and the agents' declarations are *)
(* left out: BoardStore has them, and no engine treats them differently.   *)
(***************************************************************************)
EXTENDS Naturals, Sequences, FiniteSets, Functions

CONSTANTS
  Levels, Premises,   \* the region names of either kind
  Agents, Keys, NoKey,
  Callers,            \* threads, each in one call at a time
  MaxWrites,          \* bound: the numbers the board may reach
  MaxOpens            \* bound: how often a run is opened

VARIABLES
  counter,        \* the next number in the board's own row, 0 without the row
  regions,        \* the rows of the regions
  contributions,  \* the rows of the record
  versions,       \* the version in each premise's row
  run,            \* the run's row
  progress,       \* each agent's row: how far it was told and has answered
  outbox,         \* the rows of notifications not sent
  call,           \* what each caller is asking for
  at,             \* the statement it is about to run, "idle" between its calls
  seen,           \* what its statements so far have shown it
  told,           \* the answer this step gave to a caller
  overlapped      \* history: calls overlapped in a way their engine does not order

tables == <<counter, regions, contributions, versions, run, progress, outbox>>
calls == <<call, at, seen, told>>
shared == <<tables, calls, overlapped>>

-----------------------------------------------------------------------------
(* Rows and calls.                                                         *)

Region == Levels \cup Premises
Numbers == 1..MaxWrites

\* `version` is what a premise's write produced, 0 in a level's.
Contribution == [sequence : Nat, region : Region, version : Nat, key : Keys \cup {NoKey}]
Progress == [notified : Nat, acked : Nat]

\* `era` is history: how many times a run had been opened when the row was made.
Unsent == [agent : Agents, through : Nat, era : Nat]

\* The identities of the rows of a table: what is locked, and what conflicts.
TableNames == {"contributions", "premises", "regions", "run_state",
               "agent_progress", "outbox", "boards"}
KeyRows(key) == IF key = NoKey THEN {} ELSE {<<"key", key>>}
RowsOf(table) ==
  CASE table = "contributions" ->
         UNION {{<<table, c.sequence>>} \cup KeyRows(c.key) : c \in contributions}
    [] table = "premises" -> {<<table, p>> : p \in DOMAIN versions}
    [] table = "regions" -> {<<table, r>> : r \in regions}
    [] table = "run_state" -> IF run.state = "none" THEN {} ELSE {<<table>>}
    [] table = "agent_progress" -> {<<table, a>> : a \in DOMAIN progress}
    [] table = "outbox" -> {<<table, o.agent, o.through>> : o \in outbox}
    [] table = "boards" -> IF counter = 0 THEN {} ELSE {<<table>>}

NoRun == [state |-> "none", era |-> 0]

\* What is left of the tables without some of their rows.
Without(rows) ==
  /\ contributions' = {c \in contributions : <<"contributions", c.sequence>> \notin rows}
  /\ versions' = Restrict(versions, {p \in DOMAIN versions : <<"premises", p>> \notin rows})
  /\ regions' = {r \in regions : <<"regions", r>> \notin rows}
  /\ run' = IF <<"run_state">> \in rows THEN [run EXCEPT !.state = "none"] ELSE run
  /\ progress' = Restrict(progress,
                   {a \in DOMAIN progress : <<"agent_progress", a>> \notin rows})
  /\ outbox' = {o \in outbox : <<"outbox", o.agent, o.through>> \notin rows}
  /\ counter' = IF <<"boards">> \in rows THEN 0 ELSE counter

\* A call and its arguments; `landed` is history: whether the key had already
\* written that region when the call began.
Landed(region, key) ==
  key # NoKey /\ \E c \in contributions : c.key = key /\ c.region = region
Blank == [op |-> "none", region |-> "none", key |-> NoKey, expected |-> 0,
          agent |-> "none", through |-> 0, landed |-> FALSE]
WriteCall(region, key, expected) ==
  [Blank EXCEPT !.op = "write", !.region = region, !.key = key,
                !.expected = expected, !.landed = Landed(region, key)]
DeclareCall(region) == [Blank EXCEPT !.op = "declare", !.region = region]
AckCall(agent, through) ==
  [Blank EXCEPT !.op = "acknowledge", !.agent = agent, !.through = through]

Requests ==
  {WriteCall(l, k, 0) : l \in Levels, k \in Keys \cup {NoKey}}
  \cup {WriteCall(p, k, v) : p \in Premises, k \in Keys \cup {NoKey}, v \in 0..1}
  \cup {DeclareCall(r) : r \in Region}
  \cup {AckCall(a, n) : a \in Agents, n \in Numbers}
  \cup {[Blank EXCEPT !.op = "delete"], [Blank EXCEPT !.op = "close"]}

Nothing == [number |-> 0, rows |-> {}, prior |-> 0]
Silence == [kind |-> "none", number |-> 0]
Answer(kind, number) == [kind |-> kind, number |-> number]

TypeOK ==
  /\ counter \in Nat
  /\ regions \subseteq Region
  /\ \A c \in contributions : c \in Contribution
  /\ DOMAIN versions \subseteq Premises /\ Range(versions) \subseteq Nat
  /\ run \in [state : {"none", "open", "closed"}, era : Nat]
  /\ DOMAIN progress \subseteq Agents /\ Range(progress) \subseteq Progress
  /\ \A o \in outbox : o \in Unsent
  /\ \A c \in Callers :
       /\ seen[c].number \in Nat /\ seen[c].prior \in Nat
       /\ at[c] = "idle" <=> call[c] = Blank
  /\ told.number \in Nat
  /\ told.kind \in {"none", "written", "repeated", "conflict", "raised",
                    "done", "first", "again"}
  /\ overlapped \in BOOLEAN

\* A database that has never seen the board, or one that holds it with every
\* region declared, its agents told of nothing yet and a run open over it.
SharedInit(first) ==
  /\ contributions = {} /\ outbox = {}
  /\ \/ /\ counter = 0 /\ regions = {} /\ versions = <<>>
        /\ run = NoRun /\ progress = <<>>
     \/ /\ counter = first /\ regions = Region /\ versions = [p \in Premises |-> 0]
        /\ run = [state |-> "open", era |-> 1]
        /\ progress = [a \in Agents |-> [notified |-> 0, acked |-> 0]]
  /\ call = [c \in Callers |-> Blank]
  /\ at = [c \in Callers |-> "idle"]
  /\ seen = [c \in Callers |-> Nothing]
  /\ told = Silence
  /\ overlapped = FALSE

-----------------------------------------------------------------------------
(* What the engines share of a call.                                       *)

\* A caller asks for something; `overlaps` is the engine's own test.  Bound: none
\* does once calls have overlapped in a way the engine does not order.
Begin(c, request, first, overlaps) ==
  /\ at[c] = "idle" /\ ~ overlapped
  /\ request.op = "write" => Cardinality(contributions) < MaxWrites
  /\ call' = [call EXCEPT ![c] = request]
  /\ at' = [at EXCEPT ![c] = first]
  /\ told' = Silence
  /\ overlapped' = overlaps
  /\ UNCHANGED <<tables, seen>>

\* On to the next statement, with what this one has shown.
Proceed(c, stage, shown) ==
  /\ at' = [at EXCEPT ![c] = stage]
  /\ seen' = [seen EXCEPT ![c] = shown]
  /\ told' = Silence
  /\ UNCHANGED <<call, overlapped>>

Return(c, answer) ==
  /\ at' = [at EXCEPT ![c] = "idle"]
  /\ call' = [call EXCEPT ![c] = Blank]
  /\ seen' = [seen EXCEPT ![c] = Nothing]
  /\ told' = answer
  /\ UNCHANGED overlapped

\* A deletion was carried out: whatever had landed on the board is of the past.
ReturnDeleted(c) ==
  /\ at' = [at EXCEPT ![c] = "idle"]
  /\ call' = [d \in Callers |-> IF d = c THEN Blank ELSE IF call[d].landed
                                 THEN [call[d] EXCEPT !.landed = FALSE] ELSE call[d]]
  /\ seen' = [seen EXCEPT ![c] = Nothing]
  /\ told' = Answer("done", 0)
  /\ UNCHANGED overlapped

\* A call of one statement, which is over as soon as it is begun.
AtOnce == told' = Silence /\ UNCHANGED <<call, at, seen, overlapped>>

\* The process stops, or its connection does: what it had not committed is gone
\* and nobody hears the answer.
Stops(c) == at[c] # "idle" /\ Return(c, Silence) /\ UNCHANGED tables

\* _already_written, of the call's key.
KeyUsed(c) == call[c].key # NoKey /\ \E k \in contributions : k.key = call[c].key
FirstWrite(c) == CHOOSE k \in contributions : k.key = call[c].key

\* The key has written this region before: that write again.  Another: an error.
Recognise(c) ==
  IF FirstWrite(c).region = call[c].region
  THEN Answer("repeated", FirstWrite(c).sequence)
  ELSE Answer("raised", 0)

\* The rows of a write: the contribution with its key, the premise's new
\* version, and one row in the outbox for each agent it wakes (_enqueue).
Record(c, number) ==
  LET new == IF call[c].region \in Premises THEN call[c].expected + 1 ELSE 0
  IN  /\ contributions' = contributions \cup
             {[sequence |-> number, region |-> call[c].region, version |-> new,
               key |-> call[c].key]}
      /\ versions' = [p \in DOMAIN versions |->
                         IF p = call[c].region THEN new ELSE versions[p]]
      /\ outbox' = outbox \cup
             {[agent |-> a, through |-> number, era |-> run.era] :
                a \in {b \in Agents : <<"outbox", b, number>> \notin RowsOf("outbox")}}
      /\ UNCHANGED <<regions, run, progress>>

\* A table with the row of one name inserted.
WithRow(table, name, row) ==
  [n \in DOMAIN table \cup {name} |-> IF n = name THEN row ELSE table[n]]

\* Mutant of AddRegion: a premise's row for a level too.
AddAnyRegion(region) ==
  /\ regions' = regions \cup {region}
  /\ versions' = WithRow(versions, region, 0)
  /\ UNCHANGED <<contributions, run, progress, outbox>>

\* The rows of a declaration.
AddRegion(region) ==
  /\ regions' = regions \cup {region}
  /\ versions' = IF region \in Premises THEN WithRow(versions, region, 0) ELSE versions
  /\ UNCHANGED <<contributions, run, progress, outbox>>

\* open_run, touched rows only: a new run, or the one there opened again.
Opened == [state |-> "open", era |-> run.era + 1]

\* mark_notified: a row is made, or its first column raised.
Larger(m, n) == IF m >= n THEN m ELSE n
Notified(agent, through) ==
  IF agent \in DOMAIN progress
  THEN [progress EXCEPT ![agent].notified = Larger(@, through)]
  ELSE WithRow(progress, agent, [notified |-> through, acked |-> 0])

\* declare_agent, but for what it declares: a row is made, or is there.
Declared(agent) ==
  IF agent \in DOMAIN progress THEN progress
  ELSE WithRow(progress, agent, [notified |-> 0, acked |-> 0])

Acked(agent, through) == [progress EXCEPT ![agent].acked = Larger(@, through)]

\* Mutant of Answerable: any number may be answered with.
AnyAnswer(c) == call[c].agent \in DOMAIN progress

\* acknowledge: an answer beyond what the agent was told is refused, and any other
\* is told whether the row, as it was read, stood below it.
Answerable(c) ==
  call[c].agent \in DOMAIN progress /\ call[c].through <= progress[call[c].agent].notified
AckAnswer(c, prior) ==
  Answer(IF prior < call[c].through THEN "first" ELSE "again", call[c].through)

Marked(agent, through) == {o \in outbox : o.agent # agent \/ o.through > through}

-----------------------------------------------------------------------------
(* What every store owes its callers.                                      *)

\* Every write takes the next number of one counter and a premise's version
\* counts its writes, so a reader never meets a gap that is filled later and no
\* two writers replace the same version, whatever rolls back or stops.
RecordWhole ==
  ~ overlapped =>
    /\ {c.sequence : c \in contributions} = 1..Cardinality(contributions)
    /\ \A p \in DOMAIN versions :
         /\ versions[p] = Cardinality({c \in contributions : c.region = p})
         /\ {c.version : c \in {k \in contributions : k.region = p}} = 1..versions[p]

\* The caller is given an answer of one of these kinds.
IsTold(c, kinds) == at[c] # "idle" /\ at'[c] = "idle" /\ told'.kind \in kinds

\* Two writers naming one version produce one winner, whichever process reaches
\* the record first.
OneWinner ==
  \A c, d \in contributions :
    c.region = d.region /\ c.version = d.version /\ c.version > 0 => c = d

\* Whoever is told that a keyed write landed is told the number of the one row
\* that has the key: two processes writing under one key are separated by the
\* database, however their statements interleave.
KeysAgree ==
  [][\A c \in Callers :
       IsTold(c, {"written", "repeated"}) /\ call[c].key # NoKey =>
         {k.sequence : k \in {d \in contributions' : d.key = call[c].key}} = {told'.number}]_shared

\* A call whose key had written its region before it began is told of that
\* write: never that it lost to another, and never that it wrote again.
RetryIsRecognised ==
  [][\A c \in Callers :
       call[c].landed /\ ~ overlapped => ~ IsTold(c, {"written", "conflict", "raised"})]_shared

\* A keyed premise write is told that it lost, to another attempt of itself.
LosesToItself(c) ==
  /\ IsTold(c, {"conflict"})
  /\ \E k \in contributions :
       k.key = call[c].key /\ k.key # NoKey /\ k.version = call[c].expected + 1

\* Two attempts of one keyed write that run at the same time: one of them writes,
\* and the other is told of what it wrote, not that it lost.
ConflictIsFinal == [][\A c \in Callers : ~ LosesToItself(c)]_shared

\* Of the callers that name one number exactly one is told that the row stood
\* below it, though reading the row and raising it may be two statements: whoever
\* is told so has raised the row from below.
FirstRaises(c) ==
  IsTold(c, {"first"}) /\ call[c].agent \in DOMAIN progress =>
    progress[call[c].agent].acked < call[c].through

OneFirstAnswer == [][\A c \in Callers : FirstRaises(c)]_shared

\* Of the callers that close one run at the same time one wins, whatever else it
\* has to do before it is told so.  (`number` is the run it won.)
OneCloses ==
  LET Won(c) == call[c].op = "close" /\ at[c] \notin {"idle", "close"}
  IN  \A c, d \in Callers :
        Won(c) /\ Won(d) /\ seen[c].number = seen[d].number => c = d

\* Nobody has answered beyond what was told, whoever closes the run and wipes
\* the rows between an answer's read and its update.
AckedWithinNotified ==
  ~ overlapped => \A a \in DOMAIN progress : progress[a].acked <= progress[a].notified

\* A close takes a notification away that a run opened after it still has to send.
ClearsAnother(c) ==
  /\ call[c].op = "close" /\ at[c] # "idle" /\ at'[c] # at[c]
  /\ \E o \in outbox \ outbox' : run'.state = "open" /\ o.era = run'.era

\* The outcome and the removal of what the run no longer needs are one write:
\* a run opened meanwhile keeps its rows.
ClearsOnlyItsOwn == [][\A c \in Callers : ~ ClearsAnother(c)]_shared

\* A declared region can be written to: the board it is on has its counter.
DeclaredMeansOpen == regions # {} => counter > 0

Log == [i \in 1..Cardinality(contributions) |->
          LET c == CHOOSE k \in contributions : k.sequence = i
          IN  [region |-> c.region, key |-> c.key,
               expected |-> IF c.version = 0 THEN 0 ELSE c.version - 1]]

Promise == INSTANCE BoardRecord WITH log <- Log

\* The tables hold one log that grows by fresh writes, each of a premise naming
\* the version it replaces, and that a deletion takes whole.
KeepsTheRecord ==
  Promise!Init /\ [][overlapped' \/ Promise!Next]_<<contributions>>
=============================================================================
