----------------------------- MODULE MongoStore -----------------------------
(***************************************************************************)
(* MongoStore (_mongodb.py).  declare, append, set and delete each run in  *)
(* a transaction: the work decides everything on the snapshot it took, and *)
(* at its commit either changes the documents or, when one of them has     *)
(* been changed since, is run again (with_transaction).  The other calls   *)
(* update one document at a time and close_run several, each on its own.   *)
(***************************************************************************)
EXTENDS SharedTables

VARIABLE stale    \* whose work stands on a document changed since its snapshot

vars == <<shared, stale>>

AllRows == UNION {RowsOf(t) : t \in TableNames}

\* Documents are changed: a transaction that would change one of them too, and
\* took its snapshot before, will be aborted.
Changes(rows) ==
  stale' = [c \in Callers |-> at'[c] = "commit" /\ (stale[c] \/ rows \cap seen[c].rows # {})]

\* What a call that changes nothing answers, NoAnswer when it would change
\* something.  set asks for the version before it takes a number, so a write that
\* loses never touches the counter.
NoAnswer == Answer("none", 0)

\* Mutant of WriteRefusal: the version is compared before the key is looked up.
VersionFirst(c) ==
  IF call[c].region \notin regions THEN Answer("raised", 0)
  ELSE IF call[c].region \in Premises /\ ( \/ call[c].region \notin DOMAIN versions
                                           \/ versions[call[c].region] # call[c].expected)
       THEN Answer("conflict", 0)
  ELSE IF KeyUsed(c) THEN Recognise(c)
  ELSE NoAnswer

WriteRefusal(c) ==
  IF call[c].region \notin regions THEN Answer("raised", 0)
  ELSE IF KeyUsed(c) THEN Recognise(c)
  ELSE IF call[c].region \in Premises /\ ( \/ call[c].region \notin DOMAIN versions
                                           \/ versions[call[c].region] # call[c].expected)
       THEN Answer("conflict", 0)
  ELSE IF counter = 0 THEN Answer("raised", 0)
  ELSE NoAnswer

Refusal(c) ==
  CASE call[c].op = "write" -> WriteRefusal(c)
    [] call[c].op = "declare" /\ call[c].region \in regions -> Answer("raised", 0)
    [] OTHER -> NoAnswer

\* The documents a transaction's work changes.  The upsert of declare inserts the
\* board's document or, when it is there, changes nothing.  A premise's document is
\* inserted with its region's, which stands for both.
Touches(c) ==
  CASE call[c].op = "write" ->
         {<<"boards">>, <<"contributions", counter>>} \cup KeyRows(call[c].key)
           \cup {<<"premises", p>> : p \in Premises \cap {call[c].region}}
    [] call[c].op = "declare" ->
         {<<"regions", call[c].region>>} \cup (IF counter = 0 THEN {<<"boards">>} ELSE {})
    [] call[c].op = "delete" -> AllRows

\* The work, on a snapshot: refused at once, or ready to commit.
Snapshot(c) ==
  /\ at[c] = "snapshot"
  /\ IF Refusal(c) # NoAnswer
     THEN Return(c, Refusal(c)) /\ UNCHANGED <<tables, stale>>
     ELSE /\ Proceed(c, "commit", [Nothing EXCEPT !.number = counter, !.rows = Touches(c)])
          /\ stale' = [stale EXCEPT ![c] = FALSE] /\ UNCHANGED tables

\* Mutant of Aborted: two transactions that change one document both commit.
NeverAborted(c) == FALSE

\* Another transaction or update changed a document that this one would change:
\* the error is transient and the work is run again.
Aborted(c) == stale[c]

\* Mutant of RunAgain: the attempt after an abort keeps what the first one read.
CommitAgain(c) ==
  /\ at[c] = "commit" /\ Aborted(c)
  /\ Proceed(c, "commit", seen[c])
  /\ stale' = [stale EXCEPT ![c] = FALSE] /\ UNCHANGED tables

RunAgain(c) ==
  /\ at[c] = "commit" /\ Aborted(c)
  /\ Proceed(c, "snapshot", Nothing)
  /\ stale' = [stale EXCEPT ![c] = FALSE] /\ UNCHANGED tables

Commits(c, op) == at[c] = "commit" /\ call[c].op = op /\ ~ Aborted(c)

CommitWrite(c) ==
  /\ Commits(c, "write")
  /\ counter' = seen[c].number + 1
  /\ Record(c, seen[c].number)
  /\ Return(c, Answer("written", seen[c].number)) /\ Changes(seen[c].rows)

CommitDeclare(c) ==
  /\ Commits(c, "declare")
  /\ counter' = IF <<"boards">> \in seen[c].rows THEN 1 ELSE counter
  /\ AddRegion(call[c].region)
  /\ Return(c, Answer("done", 0)) /\ Changes(seen[c].rows)

CommitDelete(c) ==
  /\ Commits(c, "delete")
  /\ Without(seen[c].rows)
  /\ ReturnDeleted(c) /\ Changes(seen[c].rows)

-----------------------------------------------------------------------------
(* One document at a time.                                                 *)

OpenRun ==
  /\ run.era < MaxOpens
  /\ run' = Opened
  /\ UNCHANGED <<counter, regions, contributions, versions, progress, outbox>>
  /\ AtOnce
  /\ Changes({<<"run_state">>})

DeclareAgent(agent) ==
  /\ progress' = Declared(agent)
  /\ UNCHANGED <<counter, regions, contributions, versions, run, outbox>>
  /\ AtOnce
  /\ Changes(IF agent \in DOMAIN progress THEN {} ELSE {<<"agent_progress", agent>>})

MarkNotified(agent, through) ==
  /\ progress' = Notified(agent, through)
  /\ UNCHANGED <<counter, regions, contributions, versions, run, outbox>>
  /\ AtOnce
  /\ Changes({<<"agent_progress", agent>>})

MarkSent(agent, through) ==
  /\ outbox' = Marked(agent, through)
  /\ UNCHANGED <<counter, regions, contributions, versions, run, progress>>
  /\ AtOnce
  /\ Changes({<<"outbox", o.agent, o.through>> : o \in outbox \ outbox'})

\* find_one_and_update: the entry as it stood before, or nothing matched.
Acknowledge(c) ==
  /\ at[c] = "acknowledge"
  /\ IF Answerable(c)
     THEN /\ progress' = Acked(call[c].agent, call[c].through)
          /\ UNCHANGED <<counter, regions, contributions, versions, run, outbox>>
          /\ Return(c, AckAnswer(c, progress[call[c].agent].acked))
          /\ Changes({<<"agent_progress", call[c].agent>>})
     ELSE Return(c, Answer("raised", 0)) /\ UNCHANGED <<tables, stale>>

\* close_run: the update, which one caller wins, then the winner's two deletes.
CloseRun(c) ==
  /\ at[c] = "close"
  /\ IF run.state = "open"
     THEN /\ run' = [run EXCEPT !.state = "closed"]
          /\ UNCHANGED <<counter, regions, contributions, versions, progress, outbox>>
          /\ Proceed(c, "clear_progress", [Nothing EXCEPT !.number = run.era])
          /\ Changes({<<"run_state">>})
     ELSE Return(c, Answer("again", 0)) /\ UNCHANGED <<tables, stale>>

ClearProgress(c) ==
  /\ at[c] = "clear_progress"
  /\ progress' = <<>>
  /\ UNCHANGED <<counter, regions, contributions, versions, run, outbox>>
  /\ Proceed(c, "clear_outbox", seen[c])
  /\ Changes(RowsOf("agent_progress"))

ClearOutbox(c) ==
  /\ at[c] = "clear_outbox"
  /\ outbox' = {}
  /\ UNCHANGED <<counter, regions, contributions, versions, run, progress>>
  /\ Return(c, Answer("done", 0))
  /\ Changes(RowsOf("outbox"))

-----------------------------------------------------------------------------
ConnectionLost(c) == Stops(c) /\ stale' = [stale EXCEPT ![c] = FALSE]

\* delete and declare change no document in common on a board that is there, so
\* nothing orders the two.
Overlaps(c, request) ==
  \E d \in Callers : at[d] # "idle" /\ {request.op, call[d].op} = {"delete", "declare"}

Ask(c, request) ==
  /\ Begin(c, request,
       CASE request.op \in {"write", "declare", "delete"} -> "snapshot"
         [] request.op = "close" -> "close"
         [] request.op = "acknowledge" -> "acknowledge",
       Overlaps(c, request))
  /\ UNCHANGED stale

Init == SharedInit(1) /\ stale = [c \in Callers |-> FALSE]

Operation(c) ==
  \/ Snapshot(c) \/ RunAgain(c)
  \/ CommitWrite(c) \/ CommitDeclare(c) \/ CommitDelete(c)
  \/ Acknowledge(c) \/ CloseRun(c) \/ ClearProgress(c) \/ ClearOutbox(c)

Next ==
  \/ \E c \in Callers : Operation(c) \/ ConnectionLost(c)
  \/ \E c \in Callers, request \in Requests : Ask(c, request)
  \/ OpenRun
  \/ \E a \in Agents : DeclareAgent(a)
  \/ \E a \in Agents, n \in Numbers : MarkNotified(a, n) \/ MarkSent(a, n)

Spec == Init /\ [][Next]_vars
=============================================================================
