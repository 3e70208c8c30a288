---------------------------- MODULE SqliteStore -----------------------------
(***************************************************************************)
(* SqliteStore (_sqlite.py).  A call holds its process's lock throughout,  *)
(* so the threads of one process take turns.  Between processes on one     *)
(* file only the database separates calls: the connection opens its        *)
(* transaction at the first statement that writes, so each SELECT before   *)
(* it reads on its own, and from there to the commit no other process      *)
(* writes, which makes the rest of the call one step.                      *)
(***************************************************************************)
EXTENDS SharedTables

CONSTANT ProcessOf    \* the process each caller is a thread of

\* The store keeps no counter: the next number is read from the record.
LastNumber ==
  IF contributions = {} THEN 0
  ELSE CHOOSE n \in {c.sequence : c \in contributions} :
         \A c \in contributions : c.sequence <= n

AllRows == UNION {RowsOf(t) : t \in TableNames}

Fails(c) == Return(c, Answer("raised", 0)) /\ UNCHANGED tables
OnTo(c, stage, shown) == Proceed(c, stage, shown) /\ UNCHANGED tables

-----------------------------------------------------------------------------
(* append and set: the reads, then the writes in one transaction.          *)

Require(c) ==
  /\ at[c] = "require"
  /\ IF call[c].region \in regions THEN OnTo(c, "look_up", Nothing) ELSE Fails(c)

AlreadyWritten(c) ==
  /\ at[c] = "look_up"
  /\ IF KeyUsed(c)
     THEN Return(c, Recognise(c)) /\ UNCHANGED tables
     ELSE OnTo(c, IF call[c].region \in Premises THEN "version" ELSE "number", Nothing)

\* The version is compared here; the update below does not name it.
CompareVersion(c) ==
  /\ at[c] = "version"
  /\ IF call[c].region \notin DOMAIN versions
     THEN Fails(c)
     ELSE IF versions[call[c].region] # call[c].expected
          THEN Return(c, Answer("conflict", 0)) /\ UNCHANGED tables
          ELSE OnTo(c, "number", Nothing)

NextNumber(c) ==
  /\ at[c] = "number"
  /\ OnTo(c, "write", [Nothing EXCEPT !.number = LastNumber + 1])

\* Another process may have taken the number or the key: an IntegrityError.
Write(c) ==
  /\ at[c] = "write"
  /\ IF KeyUsed(c) \/ \E k \in contributions : k.sequence = seen[c].number
     THEN Fails(c)
     ELSE /\ Record(c, seen[c].number) /\ UNCHANGED counter
          /\ Return(c, Answer("written", seen[c].number))

-----------------------------------------------------------------------------
(* The other calls.                                                        *)

KindOf(c) ==
  /\ at[c] = "kind_of"
  /\ IF call[c].region \in regions THEN Fails(c) ELSE OnTo(c, "insert_region", Nothing)

InsertRegion(c) ==
  /\ at[c] = "insert_region"
  /\ IF call[c].region \in regions
     THEN Fails(c)
     ELSE AddRegion(call[c].region) /\ UNCHANGED counter /\ Return(c, Answer("done", 0))

\* delete counts what it removes, then empties every table in one transaction.
Delete(c) ==
  /\ at[c] = "delete"
  /\ Without(AllRows)
  /\ ReturnDeleted(c)

CloseRun(c) ==
  /\ at[c] = "close"
  /\ IF run.state = "open"
     THEN /\ run' = [run EXCEPT !.state = "closed"]
          /\ progress' = <<>> /\ outbox' = {}
          /\ UNCHANGED <<counter, regions, contributions, versions>>
          /\ Return(c, Answer("done", 0))
     ELSE Return(c, Answer("again", 0)) /\ UNCHANGED tables

ReadProgress(c) ==
  /\ at[c] = "read_progress"
  /\ IF Answerable(c)
     THEN OnTo(c, "raise", [Nothing EXCEPT !.prior = progress[call[c].agent].acked])
     ELSE Fails(c)

\* The row is raised if it is still there, and answered with as it was read.
RaiseProgress(c) ==
  /\ at[c] = "raise"
  /\ progress' = IF call[c].agent \in DOMAIN progress
                 THEN Acked(call[c].agent, call[c].through) ELSE progress
  /\ UNCHANGED <<counter, regions, contributions, versions, run, outbox>>
  /\ Return(c, AckAnswer(c, seen[c].prior))

OpenRun ==
  /\ run.era < MaxOpens
  /\ run' = Opened
  /\ UNCHANGED <<counter, regions, contributions, versions, progress, outbox>>
  /\ AtOnce

DeclareAgent(agent) ==
  /\ progress' = Declared(agent)
  /\ UNCHANGED <<counter, regions, contributions, versions, run, outbox>>
  /\ AtOnce

MarkNotified(agent, through) ==
  /\ progress' = Notified(agent, through)
  /\ UNCHANGED <<counter, regions, contributions, versions, run, outbox>>
  /\ AtOnce

MarkSent(agent, through) ==
  /\ outbox' = Marked(agent, through)
  /\ UNCHANGED <<counter, regions, contributions, versions, run, progress>>
  /\ AtOnce

-----------------------------------------------------------------------------
Locked(process) == \E c \in Callers : ProcessOf[c] = process /\ at[c] # "idle"

\* Nothing orders a call of one process against those of another.
Overlaps(c) == \E d \in Callers : ProcessOf[d] # ProcessOf[c] /\ at[d] # "idle"

Ask(c, request) ==
  /\ ~ Locked(ProcessOf[c])
  /\ Begin(c, request,
       CASE request.op = "write" -> "require" [] request.op = "declare" -> "kind_of"
         [] request.op = "delete" -> "delete" [] request.op = "close" -> "close"
         [] request.op = "acknowledge" -> "read_progress",
       Overlaps(c))

Init == SharedInit(0)

Operation(c) ==
  \/ Require(c) \/ AlreadyWritten(c) \/ CompareVersion(c) \/ NextNumber(c) \/ Write(c)
  \/ KindOf(c) \/ InsertRegion(c) \/ Delete(c)
  \/ CloseRun(c) \/ ReadProgress(c) \/ RaiseProgress(c)

Next ==
  \/ \E c \in Callers : Operation(c) \/ Stops(c)
  \/ \E c \in Callers, request \in Requests : Ask(c, request)
  \/ OpenRun
  \/ \E a \in Agents : DeclareAgent(a)
  \/ \E a \in Agents, n \in Numbers : MarkNotified(a, n) \/ MarkSent(a, n)

Spec == Init /\ [][Next]_shared
=============================================================================
