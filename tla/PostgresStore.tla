---------------------------- MODULE PostgresStore ---------------------------
(***************************************************************************)
(* PostgresStore (_postgres.py): a call is one transaction under read      *)
(* committed, a step is one of its statements.  A statement sees what has  *)
(* committed when it runs and waits for rows that another transaction has  *)
(* changed or inserted; what a transaction wrote shows at its commit.  A   *)
(* call of one statement holds nothing before it and is one step.          *)
(***************************************************************************)
EXTENDS SharedTables

VARIABLE held    \* the rows each caller's transaction has locked or inserted

vars == <<shared, held>>

\* The order in which delete empties the tables, and close_run those of its run.
DeleteOrder == <<"contributions", "premises", "regions", "run_state",
                 "agent_progress", "outbox", "boards">>
CloseOrder == <<"agent_progress", "outbox">>

OrderOf(c) == IF call[c].op = "delete" THEN DeleteOrder ELSE CloseOrder
Emptied(c) == OrderOf(c)[seen[c].prior + 1]

\* The rows a statement waits for: those it would change, which have to be there,
\* and those it inserts, whether another transaction is inserting or deleting them.
Wants(c) ==
  CASE at[c] = "take" -> RowsOf("boards")
    [] at[c] = "update" -> RowsOf("premises") \cap {<<"premises", call[c].region>>}
    [] at[c] = "close" -> RowsOf("run_state")
    [] at[c] = "empty" -> RowsOf(Emptied(c))
    [] at[c] = "read_progress" ->
         RowsOf("agent_progress") \cap {<<"agent_progress", call[c].agent>>}
    [] at[c] = "open" -> {<<"boards">>}
    [] at[c] = "insert" ->
         {<<"contributions", seen[c].number>>} \cup KeyRows(call[c].key)
           \cup {<<"outbox", a, seen[c].number>> : a \in Agents}
    [] at[c] = "insert_region" ->
         {<<"regions", call[c].region>>, <<"premises", call[c].region>>}
    [] OTHER -> {}

WaitsFor(c, d) == c # d /\ Wants(c) \cap held[d] # {}
Runs(c, stage) == at[c] = stage /\ \A d \in Callers : ~ WaitsFor(c, d)
FreeRow(row) == \A c \in Callers : row \notin held[c]

Holds(c, rows) == held' = [held EXCEPT ![c] = @ \cup rows]
LetsGo(c) == held' = [held EXCEPT ![c] = {}]

\* The transaction ends without a trace: by an exception, or _RollBack.
RollsBack(c, answer) == Return(c, answer) /\ LetsGo(c) /\ UNCHANGED tables

-----------------------------------------------------------------------------
(* append and set.                                                         *)

Require(c) ==
  /\ Runs(c, "require")
  /\ IF call[c].region \in regions
     THEN Proceed(c, "look_up", seen[c]) /\ UNCHANGED <<tables, held>>
     ELSE RollsBack(c, Answer("raised", 0))

\* Mutant of AlreadyWritten: the key is left to the index.
NeverWritten(c) ==
  /\ Runs(c, "look_up")
  /\ Proceed(c, "take", seen[c]) /\ UNCHANGED <<tables, held>>

AlreadyWritten(c) ==
  /\ Runs(c, "look_up")
  /\ IF KeyUsed(c)
     THEN RollsBack(c, Recognise(c))
     ELSE Proceed(c, "take", seen[c]) /\ UNCHANGED <<tables, held>>

\* _take_sequence: the board's row is locked from here to the end.
TakeSequence(c) ==
  /\ Runs(c, "take")
  /\ IF counter = 0
     THEN RollsBack(c, Answer("raised", 0))
     ELSE /\ Proceed(c, IF call[c].region \in Premises THEN "update" ELSE "insert",
                     [seen[c] EXCEPT !.number = counter])
          /\ Holds(c, {<<"boards">>}) /\ UNCHANGED tables

\* Mutant of UpdatePremise: the update names no version.
UpdateAny(c) ==
  /\ Runs(c, "update")
  /\ Proceed(c, "insert", seen[c])
  /\ Holds(c, {<<"premises", call[c].region>>}) /\ UNCHANGED tables

\* The update names the version it replaces; one that replaces nothing gives the
\* number back.
UpdatePremise(c) ==
  /\ Runs(c, "update")
  /\ IF call[c].region \in DOMAIN versions /\ versions[call[c].region] = call[c].expected
     THEN /\ Proceed(c, "insert", seen[c])
          /\ Holds(c, {<<"premises", call[c].region>>}) /\ UNCHANGED tables
     ELSE RollsBack(c, Answer("conflict", 0))

\* The contribution and the outbox rows (_enqueue), of append and of set alike.  A
\* number or a key that another transaction has committed is a UniqueViolation,
\* which nobody catches.
InsertContribution(c) ==
  /\ Runs(c, "insert")
  /\ IF KeyUsed(c) \/ \E k \in contributions : k.sequence = seen[c].number
     THEN RollsBack(c, Answer("raised", 0))
     ELSE /\ Proceed(c, "commit", seen[c])
          /\ Holds(c, Wants(c)) /\ UNCHANGED tables

CommitWrite(c) ==
  /\ Runs(c, "commit") /\ call[c].op = "write"
  /\ counter' = seen[c].number + 1
  /\ Record(c, seen[c].number)
  /\ Return(c, Answer("written", seen[c].number)) /\ LetsGo(c)

-----------------------------------------------------------------------------
(* declare and delete.                                                     *)

\* _open_board: the row is inserted, or was there and is left as it is: unlocked.
OpenBoard(c) ==
  /\ Runs(c, "open")
  /\ Proceed(c, "kind_of", [seen[c] EXCEPT !.number = IF counter = 0 THEN 1 ELSE 0])
  /\ Holds(c, IF counter = 0 THEN {<<"boards">>} ELSE {}) /\ UNCHANGED tables

KindOf(c) ==
  /\ Runs(c, "kind_of")
  /\ IF call[c].region \in regions
     THEN RollsBack(c, Answer("raised", 0))
     ELSE Proceed(c, "insert_region", seen[c]) /\ UNCHANGED <<tables, held>>

\* Another process may have declared the name meanwhile, or left its premise.
InsertRegion(c) ==
  /\ Runs(c, "insert_region")
  /\ IF call[c].region \in regions \cup DOMAIN versions
     THEN RollsBack(c, Answer("raised", 0))
     ELSE /\ Proceed(c, "commit", seen[c])
          /\ Holds(c, Wants(c)) /\ UNCHANGED tables

CommitDeclare(c) ==
  /\ Runs(c, "commit") /\ call[c].op = "declare"
  /\ counter' = IF seen[c].number = 1 THEN 1 ELSE counter
  /\ AddRegion(call[c].region)
  /\ Return(c, Answer("done", 0)) /\ LetsGo(c)

\* One DELETE of delete or close_run: the rows of one table that are there now.
EmptyTable(c) ==
  /\ Runs(c, "empty")
  /\ Proceed(c, IF seen[c].prior + 1 = Len(OrderOf(c)) THEN "commit" ELSE "empty",
             [seen[c] EXCEPT !.rows = @ \cup RowsOf(Emptied(c)), !.prior = @ + 1])
  /\ Holds(c, RowsOf(Emptied(c))) /\ UNCHANGED tables

CommitDelete(c) ==
  /\ Runs(c, "commit") /\ call[c].op = "delete"
  /\ Without(seen[c].rows)
  /\ ReturnDeleted(c) /\ LetsGo(c)

-----------------------------------------------------------------------------
(* The run and its agents.                                                 *)

\* Mutant of CloseRun: the run is read, and updated at the end.
CloseUnlocked(c) ==
  /\ Runs(c, "close")
  /\ IF run.state = "open"
     THEN Proceed(c, "empty", [seen[c] EXCEPT !.number = run.era])
          /\ UNCHANGED <<tables, held>>
     ELSE RollsBack(c, Answer("again", 0))

\* close_run: the first caller's update matches, and holds the row to the commit.
CloseRun(c) ==
  /\ Runs(c, "close")
  /\ IF run.state = "open"
     THEN /\ Proceed(c, "empty", [seen[c] EXCEPT !.number = run.era])
          /\ Holds(c, {<<"run_state">>}) /\ UNCHANGED tables
     ELSE RollsBack(c, Answer("again", 0))

CommitClose(c) ==
  /\ Runs(c, "commit") /\ call[c].op = "close"
  /\ progress' = Restrict(progress,
                   {a \in DOMAIN progress : <<"agent_progress", a>> \notin seen[c].rows})
  /\ outbox' = {o \in outbox : <<"outbox", o.agent, o.through>> \notin seen[c].rows}
  /\ run' = [run EXCEPT !.state = "closed"]
  /\ UNCHANGED <<counter, regions, contributions, versions>>
  /\ Return(c, Answer("done", 0)) /\ LetsGo(c)

\* Mutant of ReadProgress: SELECT without FOR UPDATE.
ReadUnlocked(c) ==
  /\ Runs(c, "read_progress")
  /\ IF Answerable(c)
     THEN /\ Proceed(c, "commit", [seen[c] EXCEPT !.prior = progress[call[c].agent].acked])
          /\ UNCHANGED <<tables, held>>
     ELSE RollsBack(c, Answer("raised", 0))

\* acknowledge reads the row FOR UPDATE, so the row it answers with is the row
\* it raises.
ReadProgress(c) ==
  /\ Runs(c, "read_progress")
  /\ IF Answerable(c)
     THEN /\ Proceed(c, "commit", [seen[c] EXCEPT !.prior = progress[call[c].agent].acked])
          /\ Holds(c, Wants(c)) /\ UNCHANGED tables
     ELSE RollsBack(c, Answer("raised", 0))

CommitAck(c) ==
  /\ Runs(c, "commit") /\ call[c].op = "acknowledge"
  /\ progress' = Acked(call[c].agent, call[c].through)
  /\ UNCHANGED <<counter, regions, contributions, versions, run, outbox>>
  /\ Return(c, AckAnswer(c, seen[c].prior)) /\ LetsGo(c)

OpenRun ==
  /\ run.era < MaxOpens /\ FreeRow(<<"run_state">>)
  /\ run' = Opened
  /\ UNCHANGED <<counter, regions, contributions, versions, progress, outbox>>
  /\ AtOnce /\ UNCHANGED held

DeclareAgent(agent) ==
  /\ FreeRow(<<"agent_progress", agent>>)
  /\ progress' = Declared(agent)
  /\ UNCHANGED <<counter, regions, contributions, versions, run, outbox>>
  /\ AtOnce /\ UNCHANGED held

MarkNotified(agent, through) ==
  /\ FreeRow(<<"agent_progress", agent>>)
  /\ progress' = Notified(agent, through)
  /\ UNCHANGED <<counter, regions, contributions, versions, run, outbox>>
  /\ AtOnce /\ UNCHANGED held

MarkSent(agent, through) ==
  /\ \A o \in outbox \ Marked(agent, through) : FreeRow(<<"outbox", o.agent, o.through>>)
  /\ outbox' = Marked(agent, through)
  /\ UNCHANGED <<counter, regions, contributions, versions, run, progress>>
  /\ AtOnce /\ UNCHANGED held

-----------------------------------------------------------------------------
(* Waiting for one another.                                                *)

\* A cycle of waits from a transaction to itself.
Deadlocked(c) ==
  \E n \in 1..Cardinality(Callers) : \E cycle \in [0..n -> Callers] :
    /\ cycle[0] = c /\ cycle[n] = c
    /\ \A i \in 1..n : WaitsFor(cycle[i - 1], cycle[i])

\* The server finds the cycle and ends one of its transactions.
DeadlockVictim(c) == Deadlocked(c) /\ RollsBack(c, Answer("raised", 0))

ConnectionLost(c) == Stops(c) /\ LetsGo(c)

\* delete locks nothing that keeps the others out, so a call that runs beside one
\* is ordered against it row by row only.
Overlaps(c, request) ==
  \E d \in Callers : at[d] # "idle" /\ "delete" \in {request.op, call[d].op}

Ask(c, request) ==
  /\ Begin(c, request,
       CASE request.op = "write" -> "require" [] request.op = "declare" -> "open"
         [] request.op = "delete" -> "empty" [] request.op = "close" -> "close"
         [] request.op = "acknowledge" -> "read_progress",
       Overlaps(c, request))
  /\ UNCHANGED held

Init == SharedInit(1) /\ held = [c \in Callers |-> {}]

Statement(c) ==
  \/ Require(c) \/ AlreadyWritten(c) \/ TakeSequence(c) \/ UpdatePremise(c)
  \/ InsertContribution(c) \/ CommitWrite(c)
  \/ OpenBoard(c) \/ KindOf(c) \/ InsertRegion(c) \/ CommitDeclare(c)
  \/ EmptyTable(c) \/ CommitDelete(c)
  \/ CloseRun(c) \/ CommitClose(c) \/ ReadProgress(c) \/ CommitAck(c)
  \/ DeadlockVictim(c)

Next ==
  \/ \E c \in Callers : Statement(c) \/ ConnectionLost(c)
  \/ \E c \in Callers, request \in Requests : Ask(c, request)
  \/ OpenRun
  \/ \E a \in Agents : DeclareAgent(a)
  \/ \E a \in Agents, n \in Numbers : MarkNotified(a, n) \/ MarkSent(a, n)

Spec == Init /\ [][Next]_vars
=============================================================================
