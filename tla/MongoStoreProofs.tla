-------------------------- MODULE MongoStoreProofs --------------------------
(***************************************************************************)
(* Theorems of MongoStore, for any regions, agents, keys and callers: what *)
(* a transaction decided on its snapshot holds when it commits, unless a   *)
(* document it changes was changed since.                                  *)
(***************************************************************************)
EXTENDS MongoStore, SharedTablesProofs

Stages == {"idle", "snapshot", "commit", "acknowledge", "close",
           "clear_progress", "clear_outbox"}

StageType ==
  /\ stale \in [Callers -> BOOLEAN]
  /\ \A c \in Callers :
       /\ at[c] \in Stages
       /\ at[c] \in {"snapshot", "commit"} => call[c].op \in {"write", "declare", "delete"}
       /\ at[c] = "acknowledge" => call[c].op = "acknowledge"
       /\ at[c] \in {"close", "clear_progress", "clear_outbox"} => call[c].op = "close"

TypeInv == TablesType /\ CallsType /\ StageType

Recorded == RowsOf("contributions") \cup RowsOf("premises") \cup RowsOf("regions")
              \cup RowsOf("boards")

\* What a transaction found on its snapshot is still so, and what it will change
\* it has among its documents.
FoundIsSo(c) ==
  CASE call[c].op = "write" ->
         /\ counter # 0 /\ seen[c].number = counter /\ <<"boards">> \in seen[c].rows
         /\ call[c].region \in regions /\ ~ KeyUsed(c)
         /\ call[c].region \in Premises =>
              /\ call[c].region \in DOMAIN versions
              /\ versions[call[c].region] = call[c].expected
    [] call[c].op = "declare" ->
         /\ call[c].region \notin regions /\ <<"regions", call[c].region>> \in seen[c].rows
         /\ <<"boards">> \in seen[c].rows => counter = 0
    [] call[c].op = "delete" -> Recorded \subseteq seen[c].rows

SnapshotsHold == \A c \in Callers : at[c] = "commit" /\ ~ stale[c] => FoundIsSo(c)

\* No deletion runs beside a declaration.
Apart ==
  \A c, d \in Callers :
    at[c] # "idle" /\ at[d] # "idle" => ~ (call[c].op = "delete" /\ call[d].op = "declare")

OrderedInv == RecordInv /\ CounterInv /\ SnapshotsHold /\ Apart

\* The runs that are being closed were opened before, and are open no longer.
Won(c) == call[c].op = "close" /\ at[c] \notin {"idle", "close"}
ClosedInv ==
  /\ \A c \in Callers :
       Won(c) => seen[c].number <= run.era /\ (run.state = "open" => seen[c].number # run.era)
  /\ OneCloses

AnsweredInv == \A a \in DOMAIN progress : progress[a].acked <= progress[a].notified

\* What holds beside a deletion too: a key has one row, and a transaction about to
\* write one under its key has found none.
OneRowPerKey == \A k, d \in contributions : k.key = d.key /\ k.key # NoKey => k = d
KeyStands(c) ==
  at[c] = "commit" /\ ~ stale[c] /\ call[c].op = "write" =>
    KeyRows(call[c].key) \subseteq seen[c].rows /\ ~ KeyUsed(c)
KeysInv == OneRowPerKey /\ \A c \in Callers : KeyStands(c)

MongoInv ==
  TypeInv /\ ClosedInv /\ AnsweredInv /\ LandedInv /\ KeysInv /\ (~ overlapped => OrderedInv)

-----------------------------------------------------------------------------
(* Types.                                                                  *)

\* What each kind of step makes of the stages.
LEMMA ChangesKeepsStale ==
  ASSUME NEW rows, Changes(rows)
  PROVE  stale' \in [Callers -> BOOLEAN]
  BY DEF Changes

LEMMA ProceedKeepsStages ==
  ASSUME TypeInv, NEW c \in Callers, NEW stage \in Stages, NEW shown, Proceed(c, stage, shown),
         stage \in {"snapshot", "commit"} => call[c].op \in {"write", "declare", "delete"},
         stage \in {"clear_progress", "clear_outbox"} => call[c].op = "close",
         stage \notin {"acknowledge", "close"}, stale' \in [Callers -> BOOLEAN]
  PROVE  StageType'
<1>1. call' = call /\ at' = [at EXCEPT ![c] = stage]
  BY DEF Proceed
<1> QED
  BY <1>1 DEF TypeInv, CallsType, StageType

LEMMA ReturnKeepsStages ==
  ASSUME TypeInv, NEW c \in Callers, NEW answer, Return(c, answer) \/ ReturnDeleted(c),
         stale' \in [Callers -> BOOLEAN]
  PROVE  StageType'
<1>1. at' = [at EXCEPT ![c] = "idle"]
  BY DEF Return, ReturnDeleted
<1>2. \A d \in Callers : d # c => call'[d].op = call[d].op
  <2>1. \A d \in Callers : DOMAIN call[d] = DOMAIN Blank
    BY DEF TypeInv, CallsType, IsCall
  <2>2. \A d \in Callers : [call[d] EXCEPT !.landed = FALSE].op = call[d].op
    BY <2>1 DEF Blank
  <2> QED
    BY ZenonT(40), <2>2 DEF Return, ReturnDeleted, TypeInv, CallsType
<1> QED
  BY <1>1, <1>2 DEF TypeInv, CallsType, StageType, Stages

LEMMA AtOnceKeepsStages ==
  ASSUME TypeInv, AtOnce, stale' \in [Callers -> BOOLEAN]
  PROVE  StageType'
  BY DEF AtOnce, TypeInv, StageType

LEMMA ClearKeepsStale ==
  ASSUME TypeInv, NEW c, stale' = [stale EXCEPT ![c] = FALSE]
  PROVE  stale' \in [Callers -> BOOLEAN]
  BY Zenon DEF TypeInv, StageType

LEMMA RefusalIsAnswer ==
  ASSUME TypeInv, NEW c
  PROVE  IsAnswer(Refusal(c))
<1>1. KeyUsed(c) => IsAnswer(Recognise(c))
  BY RecogniseIsAnswer DEF TypeInv
<1>2. /\ IsAnswer(Answer("raised", 0)) /\ IsAnswer(Answer("conflict", 0)) /\ IsAnswer(NoAnswer)
  BY DEF NoAnswer, Answer, IsAnswer
<1> QED
  BY <1>1, <1>2 DEF Refusal, WriteRefusal

LEMMA TypeInit == Init => TypeInv
<1> SUFFICES ASSUME Init PROVE TypeInv
  OBVIOUS
<1>1. TablesType
  <2>1. DOMAIN <<>> = {}
    OBVIOUS
  <2> QED
    BY <2>1 DEF Init, SharedInit, TablesType, NoRun, Progress
<1>2. CallsType
  BY SilenceIsAnswer DEF Init, SharedInit, CallsType, Nothing, IsSeen
<1>3. StageType
  BY DEF Init, SharedInit, StageType, Stages
<1> QED
  BY <1>1, <1>2, <1>3 DEF TypeInv

LEMMA TypeStep == TypeInv /\ [Next]_vars => TypeInv'
<1> SUFFICES ASSUME TypeInv, [Next]_vars PROVE TypeInv'
  OBVIOUS
<1> USE DEF TypeInv
<1>0. /\ \A c \in Callers : at[c] # "idle" => IsCall(call[c])
      /\ \A c \in Callers : IsSeen(seen[c]) /\ seen[c].number \in Nat
  BY DEF CallsType, IsSeen
<1>1. ASSUME NEW c \in Callers, Snapshot(c) PROVE TypeInv'
  <2>1. CASE Refusal(c) # NoAnswer
    <3>1. Return(c, Refusal(c)) /\ UNCHANGED <<tables, stale>>
      BY <1>1, <2>1 DEF Snapshot
    <3>2. TablesType' /\ stale' \in [Callers -> BOOLEAN]
      BY <3>1 DEF tables, TablesType, StageType
    <3> QED
      BY <3>1, <3>2, RefusalIsAnswer, ReturnKeepsCalls, ReturnKeepsStages
  <2>2. CASE Refusal(c) = NoAnswer
    <3> DEFINE shown == [Nothing EXCEPT !.number = counter, !.rows = Touches(c)]
    <3>1. /\ at[c] = "snapshot" /\ Proceed(c, "commit", shown)
          /\ stale' = [stale EXCEPT ![c] = FALSE] /\ UNCHANGED tables
      BY <1>1, <2>2 DEF Snapshot
    <3>2. IsSeen(shown)
      BY DEF IsSeen, Nothing, TablesType
    <3>3. TablesType' /\ stale' \in [Callers -> BOOLEAN]
      BY <3>1, ClearKeepsStale DEF tables, TablesType
    <3>4. call[c].op \in {"write", "declare", "delete"} /\ "commit" \in Stages
      BY <3>1 DEF StageType, Stages
    <3> HIDE DEF shown
    <3> QED
      BY <3>1, <3>2, <3>3, <3>4, ProceedKeepsCalls, ProceedKeepsStages
  <2> QED
    BY <2>1, <2>2
<1>2. ASSUME NEW c \in Callers, RunAgain(c) PROVE TypeInv'
  <2>1. /\ at[c] = "commit" /\ Proceed(c, "snapshot", Nothing)
        /\ stale' = [stale EXCEPT ![c] = FALSE] /\ UNCHANGED tables
    BY <1>2 DEF RunAgain
  <2>2. IsSeen(Nothing)
    BY DEF IsSeen, Nothing
  <2>3. TablesType' /\ stale' \in [Callers -> BOOLEAN]
    BY <2>1, ClearKeepsStale DEF tables, TablesType
  <2>4. call[c].op \in {"write", "declare", "delete"} /\ "snapshot" \in Stages
    BY <2>1 DEF StageType, Stages
  <2> QED
    BY <2>1, <2>2, <2>3, <2>4, ProceedKeepsCalls, ProceedKeepsStages
<1>3. ASSUME NEW c \in Callers, CommitWrite(c) PROVE TypeInv'
  <2>1. /\ at[c] = "commit" /\ call[c].op = "write" /\ counter' = seen[c].number + 1
        /\ Record(c, seen[c].number) /\ Return(c, Answer("written", seen[c].number))
        /\ Changes(seen[c].rows)
    BY <1>3 DEF CommitWrite, Commits
  <2>2. TablesType'
    BY <1>0, <2>1, RecordKeepsTables
  <2>3. IsAnswer(Answer("written", seen[c].number))
    BY <1>0, SilenceIsAnswer
  <2> QED
    BY <2>1, <2>2, <2>3, ReturnKeepsCalls, ChangesKeepsStale, ReturnKeepsStages
<1>4. ASSUME NEW c \in Callers, CommitDeclare(c) PROVE TypeInv'
  <2>1. /\ at[c] = "commit" /\ call[c].op = "declare"
        /\ counter' = IF <<"boards">> \in seen[c].rows THEN 1 ELSE counter
        /\ AddRegion(call[c].region) /\ Return(c, Answer("done", 0)) /\ Changes(seen[c].rows)
    BY <1>4 DEF CommitDeclare, Commits
  <2>2. call[c].region \in Region /\ counter' \in Nat
    BY <1>0, <2>1 DEF IsCall, TablesType
  <2>3. TablesType'
    BY <2>1, <2>2, AddRegionKeepsTables
  <2>4. IsAnswer(Answer("done", 0))
    BY SilenceIsAnswer
  <2> QED
    BY <2>1, <2>3, <2>4, ReturnKeepsCalls, ChangesKeepsStale, ReturnKeepsStages
<1>5. ASSUME NEW c \in Callers, CommitDelete(c) PROVE TypeInv'
  <2>1. Without(seen[c].rows) /\ ReturnDeleted(c) /\ Changes(seen[c].rows)
    BY <1>5 DEF CommitDelete
  <2> QED
    BY <2>1, WithoutKeepsTables, ReturnDeletedKeepsCalls, ChangesKeepsStale, ReturnKeepsStages
<1>6. ASSUME NEW c \in Callers, Acknowledge(c) PROVE TypeInv'
  <2>0. at[c] = "acknowledge" /\ IsCall(call[c]) /\ call[c].op = "acknowledge"
    BY <1>0, <1>6 DEF Acknowledge, StageType
  <2>1. CASE Answerable(c)
    <3>1. /\ progress' = Acked(call[c].agent, call[c].through)
          /\ UNCHANGED <<counter, regions, contributions, versions, run, outbox>>
          /\ Return(c, AckAnswer(c, progress[call[c].agent].acked))
          /\ Changes({<<"agent_progress", call[c].agent>>})
      BY <1>6, <2>1 DEF Acknowledge
    <3>2. call[c].agent \in Agents /\ call[c].through \in Nat
      BY <2>0 DEF IsCall
    <3>3. TablesType'
      BY <3>1, <3>2, ProgressKeepsTables
    <3>4. IsAnswer(AckAnswer(c, progress[call[c].agent].acked))
      BY <2>0, AckAnswerIsAnswer
    <3> QED
      BY <3>1, <3>3, <3>4, ReturnKeepsCalls, ChangesKeepsStale, ReturnKeepsStages
  <2>2. CASE ~ Answerable(c)
    <3>1. Return(c, Answer("raised", 0)) /\ UNCHANGED <<tables, stale>>
      BY <1>6, <2>2 DEF Acknowledge
    <3>2. TablesType' /\ stale' \in [Callers -> BOOLEAN] /\ IsAnswer(Answer("raised", 0))
      BY <3>1, SilenceIsAnswer DEF tables, TablesType, StageType
    <3> QED
      BY <3>1, <3>2, ReturnKeepsCalls, ReturnKeepsStages
  <2> QED
    BY <2>1, <2>2
<1>7. ASSUME NEW c \in Callers, CloseRun(c) PROVE TypeInv'
  <2>1. CASE run.state = "open"
    <3> DEFINE shown == [Nothing EXCEPT !.number = run.era]
    <3>1. /\ at[c] = "close" /\ run' = [run EXCEPT !.state = "closed"]
          /\ UNCHANGED <<counter, regions, contributions, versions, progress, outbox>>
          /\ Proceed(c, "clear_progress", shown) /\ Changes({<<"run_state">>})
      BY <1>7, <2>1 DEF CloseRun
    <3>2. IsSeen(shown)
      BY DEF IsSeen, Nothing, TablesType
    <3>3. TablesType'
      BY <3>1, RunKeepsTables
    <3>4. call[c].op = "close" /\ "clear_progress" \in Stages
      BY <3>1 DEF StageType, Stages
    <3> HIDE DEF shown
    <3> QED
      BY <3>1, <3>2, <3>3, <3>4, ProceedKeepsCalls, ProceedKeepsStages, ChangesKeepsStale
  <2>2. CASE run.state # "open"
    <3>1. Return(c, Answer("again", 0)) /\ UNCHANGED <<tables, stale>>
      BY <1>7, <2>2 DEF CloseRun
    <3>2. TablesType' /\ stale' \in [Callers -> BOOLEAN] /\ IsAnswer(Answer("again", 0))
      BY <3>1, SilenceIsAnswer DEF tables, TablesType, StageType
    <3> QED
      BY <3>1, <3>2, ReturnKeepsCalls, ReturnKeepsStages
  <2> QED
    BY <2>1, <2>2
<1>8. ASSUME NEW c \in Callers, ClearProgress(c) PROVE TypeInv'
  <2>1. /\ at[c] = "clear_progress" /\ progress' = <<>>
        /\ UNCHANGED <<counter, regions, contributions, versions, run, outbox>>
        /\ Proceed(c, "clear_outbox", seen[c]) /\ Changes(RowsOf("agent_progress"))
    BY <1>8 DEF ClearProgress
  <2>2. TablesType'
    BY <2>1, ProgressKeepsTables
  <2>3. call[c].op = "close" /\ "clear_outbox" \in Stages
    BY <2>1 DEF StageType, Stages
  <2> QED
    BY <1>0, <2>1, <2>2, <2>3, ProceedKeepsCalls, ProceedKeepsStages, ChangesKeepsStale
<1>9. ASSUME NEW c \in Callers, ClearOutbox(c) PROVE TypeInv'
  <2>1. /\ outbox' = {} /\ Return(c, Answer("done", 0)) /\ Changes(RowsOf("outbox"))
        /\ UNCHANGED <<counter, regions, contributions, versions, run, progress>>
    BY <1>9 DEF ClearOutbox
  <2>2. TablesType'
    BY <2>1, RunKeepsTables
  <2> QED
    BY <2>1, <2>2, SilenceIsAnswer, ReturnKeepsCalls, ChangesKeepsStale, ReturnKeepsStages
<1>10. ASSUME NEW c \in Callers, ConnectionLost(c) PROVE TypeInv'
  <2>1. Return(c, Silence) /\ UNCHANGED tables /\ stale' = [stale EXCEPT ![c] = FALSE]
    BY <1>10 DEF ConnectionLost, Stops
  <2>2. TablesType' /\ stale' \in [Callers -> BOOLEAN]
    BY <2>1, ClearKeepsStale DEF tables, TablesType
  <2> QED
    BY <2>1, <2>2, SilenceIsAnswer, ReturnKeepsCalls, ReturnKeepsStages
<1>11. ASSUME NEW c \in Callers, NEW request \in Requests, Ask(c, request) PROVE TypeInv'
  <2> DEFINE first == CASE request.op \in {"write", "declare", "delete"} -> "snapshot"
                        [] request.op = "close" -> "close"
                        [] request.op = "acknowledge" -> "acknowledge"
  <2>1. Begin(c, request, first, Overlaps(c, request)) /\ UNCHANGED stale
    BY <1>11 DEF Ask
  <2>2. Overlaps(c, request) \in BOOLEAN /\ IsCall(request)
    BY RequestsAreCalls DEF Overlaps
  <2>3. \/ first = "snapshot" /\ request.op \in {"write", "declare", "delete"}
        \/ first = "close" /\ request.op = "close"
        \/ first = "acknowledge" /\ request.op = "acknowledge"
    BY <2>2 DEF IsCall, Operations
  <2> HIDE DEF first
  <2>4. TablesType' /\ call' = [call EXCEPT ![c] = request] /\ at' = [at EXCEPT ![c] = first]
    BY <2>1 DEF Begin, tables, TablesType
  <2>5. StageType'
    BY <2>1, <2>3, <2>4 DEF CallsType, StageType, Stages
  <2> QED
    BY <2>1, <2>2, <2>3, <2>4, <2>5, BeginKeepsCalls
<1>12. ASSUME OpenRun PROVE TypeInv'
  <2>1. /\ run' = Opened /\ AtOnce /\ Changes({<<"run_state">>})
        /\ UNCHANGED <<counter, regions, contributions, versions, progress, outbox>>
    BY <1>12 DEF OpenRun
  <2>2. TablesType'
    BY <2>1, RunKeepsTables
  <2> QED
    BY <2>1, <2>2, AtOnceKeepsCalls, ChangesKeepsStale, AtOnceKeepsStages
<1>13. ASSUME NEW a \in Agents, NEW n \in Nat, DeclareAgent(a) \/ MarkNotified(a, n)
       PROVE  TypeInv'
  <2>1. /\ progress' = Declared(a) \/ progress' = Notified(a, n)
        /\ UNCHANGED <<counter, regions, contributions, versions, run, outbox>> /\ AtOnce
    BY <1>13 DEF DeclareAgent, MarkNotified
  <2>2. stale' \in [Callers -> BOOLEAN]
    BY <1>13, ChangesKeepsStale DEF DeclareAgent, MarkNotified
  <2>3. TablesType'
    BY <2>1, ProgressKeepsTables
  <2> QED
    BY <2>1, <2>2, <2>3, AtOnceKeepsCalls, AtOnceKeepsStages
<1>14. ASSUME NEW a \in Agents, NEW n \in Nat, MarkSent(a, n) PROVE TypeInv'
  <2>1. /\ outbox' \subseteq outbox /\ AtOnce
        /\ UNCHANGED <<counter, regions, contributions, versions, run, progress>>
    BY <1>14 DEF MarkSent, Marked
  <2>2. stale' \in [Callers -> BOOLEAN]
    BY <1>14, ChangesKeepsStale DEF MarkSent
  <2>3. TablesType'
    BY <2>1, RunKeepsTables
  <2> QED
    BY <2>1, <2>2, <2>3, AtOnceKeepsCalls, AtOnceKeepsStages
<1>15. ASSUME UNCHANGED vars PROVE TypeInv'
  BY <1>15 DEF vars, shared, tables, calls, TablesType, CallsType, StageType
<1>16. \A n \in Numbers : n \in Nat
  BY DEF Numbers
<1> QED
  BY <1>1, <1>2, <1>3, <1>4, <1>5, <1>6, <1>7, <1>8, <1>9, <1>10, <1>11, <1>12, <1>13,
     <1>14, <1>15, <1>16
  DEF Next, Operation

\* Every state is one of the types the store keeps: a caller that is in no call
\* asks for nothing, and no step answers what no caller of the code can be given.
THEOREM MongoTypeCorrect == Spec => []TypeOK
<1>1. TypeInv => TypeOK
  BY TypesGiveTypeOK DEF TypeInv
<1> QED
  BY TypeInit, TypeStep, <1>1, PTL DEF Spec

-----------------------------------------------------------------------------
(* The record, while no deletion runs beside a declaration.                *)

\* A step that leaves the record alone and makes no transaction ready to commit.
Quiet ==
  /\ UNCHANGED <<counter, regions, contributions, versions, overlapped>>
  /\ \A d \in Callers :
       /\ at'[d] # "idle" => at[d] # "idle" /\ call'[d] = call[d]
       /\ call'[d].landed => call'[d] = call[d]
       /\ at'[d] = "commit" /\ ~ stale'[d] =>
            at[d] = "commit" /\ ~ stale[d] /\ seen'[d] = seen[d]

LEMMA QuietKeepsRecord ==
  ASSUME TypeInv, OrderedInv, Quiet
  PROVE  OrderedInv'
<1>1. RecordInv' /\ CounterInv'
  BY SameRecord DEF OrderedInv, Quiet, CounterInv, Written
<1>2. Recorded' = Recorded
  BY DEF Quiet, Recorded, RowsOf
<1>3. SnapshotsHold'
  <2> SUFFICES ASSUME NEW d \in Callers, at'[d] = "commit", ~ stale'[d] PROVE FoundIsSo(d)'
    BY DEF SnapshotsHold
  <2>1. call'[d] = call[d] /\ seen'[d] = seen[d] /\ FoundIsSo(d)
    BY DEF Quiet, OrderedInv, SnapshotsHold
  <2> QED
    BY <1>2, <2>1 DEF FoundIsSo, KeyUsed, Quiet
<1>4. Apart'
  BY DEF Apart, OrderedInv, Quiet
<1> QED
  BY <1>1, <1>3, <1>4 DEF OrderedInv

LEMMA QuietKeepsLanded ==
  ASSUME LandedInv, Quiet
  PROVE  LandedInv'
  BY DEF LandedInv, Quiet

QuietStep(c) ==
  \/ Snapshot(c) /\ Refusal(c) # NoAnswer
  \/ RunAgain(c) \/ Acknowledge(c) \/ CloseRun(c) \/ ClearProgress(c) \/ ClearOutbox(c)
  \/ ConnectionLost(c)

LEMMA QuietSteps ==
  ASSUME TypeInv, NEW c \in Callers, QuietStep(c)
  PROVE  Quiet
<1> USE DEF TypeInv
<1>0. ~ Blank.landed
  BY DEF Blank
<1>1. UNCHANGED <<counter, regions, contributions, versions>>
  BY DEF QuietStep, Snapshot, RunAgain, Acknowledge, CloseRun, ClearProgress, ClearOutbox,
         ConnectionLost, Stops, tables
<1>2. \A d \in Callers \ {c} : at'[d] = "commit" /\ ~ stale'[d] => ~ stale[d]
  <2>1. \/ stale' = stale \/ stale' = [stale EXCEPT ![c] = FALSE] \/ \E rows : Changes(rows)
    BY DEF QuietStep, Snapshot, RunAgain, Acknowledge, CloseRun, ClearProgress, ClearOutbox,
           ConnectionLost
  <2>2. ASSUME NEW rows, Changes(rows), NEW d \in Callers, at'[d] = "commit", ~ stale'[d]
        PROVE  ~ stale[d]
    BY <2>2 DEF Changes
  <2>3. ASSUME stale' = [stale EXCEPT ![c] = FALSE], NEW d \in Callers \ {c}, ~ stale'[d]
        PROVE  ~ stale[d]
    BY <2>3 DEF StageType
  <2> QED
    BY <2>1, <2>2, <2>3
<1>3. at[c] # "idle"
  BY DEF QuietStep, Snapshot, RunAgain, Acknowledge, CloseRun, ClearProgress, ClearOutbox,
         ConnectionLost, Stops
<1>4. \/ \E answer : Return(c, answer)
      \/ \E stage, shown : Proceed(c, stage, shown) /\ stage # "commit"
  BY DEF QuietStep, Snapshot, RunAgain, Acknowledge, CloseRun, ClearProgress, ClearOutbox,
         ConnectionLost, Stops
<1>5. ASSUME NEW answer, Return(c, answer) PROVE Quiet
  <2>1. /\ OthersStay(c) /\ at'[c] = "idle" /\ call'[c] = Blank /\ overlapped' = overlapped
    BY <1>5, ReturnMoves
  <2> QED
    BY <1>0, <1>1, <1>2, <2>1 DEF Quiet, OthersStay
<1>6. ASSUME NEW stage, NEW shown, Proceed(c, stage, shown), stage # "commit" PROVE Quiet
  <2>1. OthersStay(c) /\ at'[c] = stage /\ call' = call /\ overlapped' = overlapped
    BY <1>6, ProceedMoves
  <2> QED
    BY <1>1, <1>2, <1>3, <1>6, <2>1 DEF Quiet, OthersStay
<1> QED
  BY <1>4, <1>5, <1>6

LEMMA AtOnceIsQuiet ==
  ASSUME AtOnce, UNCHANGED <<counter, regions, contributions, versions>>,
         NEW rows, Changes(rows)
  PROVE  Quiet
  BY DEF AtOnce, Changes, Quiet

\* The transaction that is ready to commit has found what it stands on.
LEMMA SnapshotKeepsRecord ==
  ASSUME TypeInv, OrderedInv, NEW c \in Callers, Snapshot(c), Refusal(c) = NoAnswer
  PROVE  OrderedInv' /\ UNCHANGED <<tables, call, overlapped>>
<1> USE DEF TypeInv
<1> DEFINE shown == [Nothing EXCEPT !.number = counter, !.rows = Touches(c)]
<1>1. /\ at[c] = "snapshot" /\ Proceed(c, "commit", shown)
      /\ stale' = [stale EXCEPT ![c] = FALSE] /\ UNCHANGED tables
  BY DEF Snapshot
<1>2. shown.number = counter /\ shown.rows = Touches(c)
  BY DEF Nothing
<1> HIDE DEF shown
<1>3. /\ OthersStay(c) /\ at'[c] = "commit" /\ call' = call /\ seen'[c] = shown
      /\ overlapped' = overlapped
  BY <1>1, ProceedMoves
<1>4. UNCHANGED <<counter, regions, contributions, versions>>
  BY <1>1 DEF tables
<1>5. RecordInv' /\ CounterInv'
  BY <1>4, SameRecord DEF OrderedInv, CounterInv, Written
<1>6. Recorded' = Recorded
  BY <1>4 DEF Recorded, RowsOf
<1>7. ASSUME NEW d \in Callers \ {c}, at'[d] = "commit", ~ stale'[d] PROVE FoundIsSo(d)'
  <2>1. ~ stale[d]
    BY <1>1, <1>7 DEF StageType
  <2>2. FoundIsSo(d) /\ seen'[d] = seen[d]
    BY <1>3, <1>7, <2>1 DEF OrderedInv, SnapshotsHold, OthersStay
  <2> QED
    BY <1>3, <1>4, <1>6, <2>2 DEF FoundIsSo, KeyUsed
<1>8. FoundIsSo(c)'
  <2>1. IsCall(call[c]) /\ call[c].op \in {"write", "declare", "delete"}
    BY <1>1 DEF CallsType, StageType
  <2>2. CASE call[c].op = "write"
    <3>1. KeyUsed(c) => Recognise(c) # NoAnswer
      BY RecogniseIsAnswer DEF NoAnswer, Answer
    <3>2. Answer("raised", 0) # NoAnswer /\ Answer("conflict", 0) # NoAnswer
      BY DEF NoAnswer, Answer
    <3>3. WriteRefusal(c) = NoAnswer
      BY <2>2 DEF Refusal
    <3>4. /\ call[c].region \in regions /\ ~ KeyUsed(c) /\ counter # 0
          /\ call[c].region \in Premises =>
               call[c].region \in DOMAIN versions /\ versions[call[c].region] = call[c].expected
      BY <3>1, <3>2, <3>3 DEF WriteRefusal
    <3>5. <<"boards">> \in Touches(c)
      BY <2>2 DEF Touches
    <3> QED
      BY <1>2, <1>3, <1>4, <2>2, <3>4, <3>5 DEF FoundIsSo, KeyUsed
  <2>3. CASE call[c].op = "declare"
    <3>1. Answer("raised", 0) # NoAnswer
      BY DEF NoAnswer, Answer
    <3>2. call[c].region \notin regions
      BY <2>3, <3>1 DEF Refusal
    <3>3. Touches(c) = {<<"regions", call[c].region>>}
                           \cup (IF counter = 0 THEN {<<"boards">>} ELSE {})
      BY <2>3 DEF Touches
    <3>4. <<"boards">> \in Touches(c) => counter = 0
      BY <3>3
    <3>5. <<"regions", call[c].region>> \in Touches(c)
      BY <3>3
    <3> QED
      BY <1>2, <1>3, <1>4, <2>3, <3>2, <3>4, <3>5 DEF FoundIsSo
  <2>4. CASE call[c].op = "delete"
    <3>1. Touches(c) = AllRows
      BY <2>4 DEF Touches
    <3>2. Recorded \subseteq AllRows
      BY DEF Recorded, AllRows, TableNames
    <3> QED
      BY <1>2, <1>3, <1>6, <2>4, <3>1, <3>2 DEF FoundIsSo
  <2> QED
    BY <2>1, <2>2, <2>3, <2>4
<1>9. SnapshotsHold'
  BY <1>7, <1>8 DEF SnapshotsHold
<1>10. Apart'
  BY <1>1, <1>3 DEF OrderedInv, Apart, OthersStay
<1> QED
  BY <1>1, <1>3, <1>5, <1>9, <1>10 DEF OrderedInv

\* The others that are ready to commit when one does, and still are after it.
LEMMA OthersAtCommit ==
  ASSUME TypeInv, OrderedInv, NEW c \in Callers, at[c] = "commit", ~ Aborted(c),
         Return(c, Answer("written", seen[c].number)) \/ Return(c, Answer("done", 0))
           \/ ReturnDeleted(c),
         Changes(seen[c].rows), NEW d \in Callers, at'[d] = "commit", ~ stale'[d]
  PROVE  /\ FoundIsSo(c) /\ d # c /\ at[d] = "commit" /\ FoundIsSo(d)
         /\ \A row : row \in seen[c].rows => row \notin seen[d].rows
         /\ seen'[d] = seen[d] /\ call'[d].op = call[d].op /\ call'[d].region = call[d].region
         /\ call'[d].key = call[d].key /\ call'[d].expected = call[d].expected
         /\ call[d].op \in {"write", "declare", "delete"} /\ IsCall(call[d])
         /\ ~ (call[c].op = "delete" /\ call[d].op = "declare")
         /\ ~ (call[c].op = "declare" /\ call[d].op = "delete")
<1> USE DEF TypeInv
<1>1. FoundIsSo(c)
  BY DEF OrderedInv, SnapshotsHold, Aborted
<1>2. /\ d # c /\ at'[d] = at[d] /\ seen'[d] = seen[d] /\ call'[d].op = call[d].op
      /\ call'[d].region = call[d].region /\ call'[d].key = call[d].key
      /\ call'[d].expected = call[d].expected
  BY ReturnMoves, ReturnDeletedMoves DEF OthersStay
<1>3. ~ stale[d] /\ \A row : row \in seen[c].rows => row \notin seen[d].rows
  BY DEF Changes
<1>4. FoundIsSo(d)
  BY <1>2, <1>3 DEF OrderedInv, SnapshotsHold
<1>5. call[d].op \in {"write", "declare", "delete"} /\ IsCall(call[d])
  BY <1>2 DEF StageType, CallsType
<1>6. ~ (call[c].op = "delete" /\ call[d].op = "declare")
      /\ ~ (call[c].op = "declare" /\ call[d].op = "delete")
  BY <1>2 DEF OrderedInv, Apart
<1> QED
  BY <1>1, <1>2, <1>3, <1>4, <1>5, <1>6

LEMMA CommitKeepsApart ==
  ASSUME TypeInv, Apart, NEW c \in Callers, at[c] = "commit",
         ReturnDeleted(c) \/ \E answer : Return(c, answer)
  PROVE  Apart'
<1>1. at'[c] = "idle" /\ \A d \in Callers \ {c} : at'[d] = at[d] /\ call'[d].op = call[d].op
  BY ReturnMoves, ReturnDeletedMoves DEF TypeInv, OthersStay
<1> QED
  BY <1>1 DEF Apart

\* What a write needs of the record holds when it commits.
LEMMA WriteFound ==
  ASSUME TypeInv, OrderedInv, NEW c \in Callers, CommitWrite(c)
  PROVE  /\ IsCall(call[c]) /\ call[c].op = "write" /\ call[c].region \in Region
         /\ seen[c].number = counter /\ counter = Written + 1 /\ ~ KeyUsed(c)
         /\ counter' = counter + 1
         /\ Record(c, Written + 1)
         /\ Return(c, Answer("written", counter))
         /\ Changes(seen[c].rows) /\ call[c].region \in regions
         /\ <<"boards">> \in seen[c].rows
         /\ call[c].region \in Premises =>
              call[c].region \in DOMAIN versions /\ versions[call[c].region] = call[c].expected
<1>1. /\ at[c] = "commit" /\ call[c].op = "write" /\ ~ stale[c]
      /\ counter' = seen[c].number + 1 /\ Record(c, seen[c].number)
      /\ Return(c, Answer("written", seen[c].number)) /\ Changes(seen[c].rows)
  BY DEF CommitWrite, Commits, Aborted
<1>2. FoundIsSo(c) /\ CounterInv
  BY <1>1 DEF OrderedInv, SnapshotsHold
<1>3. /\ counter # 0 /\ seen[c].number = counter /\ <<"boards">> \in seen[c].rows
      /\ call[c].region \in regions /\ ~ KeyUsed(c)
      /\ call[c].region \in Premises =>
           call[c].region \in DOMAIN versions /\ versions[call[c].region] = call[c].expected
  BY <1>1, <1>2 DEF FoundIsSo
<1>4. IsCall(call[c]) /\ call[c].region \in Region
  BY <1>1 DEF TypeInv, CallsType, IsCall
<1> QED
  BY <1>1, <1>2, <1>3, <1>4 DEF CounterInv

LEMMA CommitWriteKeepsRecord ==
  ASSUME TypeInv, OrderedInv, NEW c \in Callers, CommitWrite(c)
  PROVE  OrderedInv'
<1>1. /\ counter = Written + 1 /\ counter' = counter + 1 /\ regions' = regions
      /\ <<"boards">> \in seen[c].rows /\ IsCall(call[c])
      /\ Return(c, Answer("written", seen[c].number)) /\ Changes(seen[c].rows)
  BY WriteFound DEF Record
<1>2. RecordInv' /\ Written' = Written + 1 /\ Written \in Nat
  BY WriteFound, WriteKeepsRecord, WrittenIsNat DEF TypeInv, OrderedInv
<1>3. CounterInv'
  BY <1>1, <1>2 DEF CounterInv
<1>4. SnapshotsHold'
  <2> SUFFICES ASSUME NEW d \in Callers, at'[d] = "commit", ~ stale'[d] PROVE FoundIsSo(d)'
    BY DEF SnapshotsHold
  <2>1. /\ FoundIsSo(d) /\ <<"boards">> \notin seen[d].rows /\ seen'[d] = seen[d]
        /\ call'[d].op = call[d].op /\ call'[d].region = call[d].region
        /\ call[d].op \in {"write", "declare", "delete"}
    BY <1>1, OthersAtCommit DEF CommitWrite, Commits
  <2>2. <<"boards">> \in Recorded
    BY <1>1, <1>2, RowsAreThere DEF Recorded
  <2>3. call[d].op = "declare"
    BY <2>1, <2>2 DEF FoundIsSo
  <2> QED
    BY <1>1, <2>1, <2>3 DEF FoundIsSo
<1>5. Apart'
  BY <1>1, CommitKeepsApart DEF OrderedInv, CommitWrite, Commits
<1> QED
  BY <1>2, <1>3, <1>4, <1>5 DEF OrderedInv

LEMMA CommitDeclareKeepsRecord ==
  ASSUME TypeInv, OrderedInv, NEW c \in Callers, CommitDeclare(c)
  PROVE  OrderedInv' /\ contributions' = contributions
<1> DEFINE region == call[c].region
<1>1. /\ at[c] = "commit" /\ call[c].op = "declare" /\ ~ stale[c]
      /\ counter' = IF <<"boards">> \in seen[c].rows THEN 1 ELSE counter
      /\ AddRegion(region) /\ Return(c, Answer("done", 0)) /\ Changes(seen[c].rows)
  BY DEF CommitDeclare, Commits, Aborted
<1>2. FoundIsSo(c)
  BY <1>1 DEF OrderedInv, SnapshotsHold
<1>3. /\ region \notin regions /\ <<"regions", region>> \in seen[c].rows
      /\ <<"boards">> \in seen[c].rows => counter = 0
  BY <1>1, <1>2 DEF FoundIsSo
<1>4. RecordInv' /\ contributions' = contributions
  BY <1>1, <1>3, AddRegionKeepsRecord DEF TypeInv, OrderedInv
<1>5. CounterInv'
  <2>1. CASE <<"boards">> \in seen[c].rows
    <3>1. contributions = {}
      BY <1>3, <2>1 DEF OrderedInv, CounterInv
    <3>2. Written' = 0
      BY <1>4, <3>1, FS_EmptySet DEF Written
    <3> QED
      BY <1>1, <2>1, <3>2 DEF CounterInv
  <2>2. CASE <<"boards">> \notin seen[c].rows
    BY <1>1, <1>4, <2>2 DEF OrderedInv, CounterInv, Written
  <2> QED
    BY <2>1, <2>2
<1>6. /\ regions' = regions \cup {region}
      /\ \A p \in DOMAIN versions \ {region} : p \in DOMAIN versions' /\ versions'[p] = versions[p]
  BY <1>1 DEF AddRegion, WithRow
<1>7. SnapshotsHold'
  <2> SUFFICES ASSUME NEW d \in Callers, at'[d] = "commit", ~ stale'[d] PROVE FoundIsSo(d)'
    BY DEF SnapshotsHold
  <2>1. /\ FoundIsSo(d) /\ \A row : row \in seen[c].rows => row \notin seen[d].rows
        /\ seen'[d] = seen[d] /\ call'[d].op = call[d].op /\ call'[d].region = call[d].region
        /\ call'[d].key = call[d].key /\ call'[d].expected = call[d].expected
        /\ call[d].op \in {"write", "declare"}
    <3>1. Aborted(c) = stale[c]
      BY DEF Aborted
    <3> HIDE DEF region
    <3> QED
      BY <1>1, <3>1, OthersAtCommit
  <2>2. CASE call[d].op = "write"
    <3>1. /\ counter # 0 /\ seen[d].number = counter /\ <<"boards">> \in seen[d].rows
          /\ call[d].region \in regions /\ ~ KeyUsed(d)
          /\ call[d].region \in Premises =>
               call[d].region \in DOMAIN versions /\ versions[call[d].region] = call[d].expected
      BY <2>1, <2>2 DEF FoundIsSo
    <3>2. counter' = counter /\ call[d].region # region
      BY <1>1, <1>3, <2>1, <3>1
    <3>3. ~ KeyUsed(d)'
      BY <1>4, <2>1, <3>1 DEF KeyUsed
    <3> QED
      BY <1>6, <2>1, <2>2, <3>1, <3>2, <3>3 DEF FoundIsSo
  <2>3. CASE call[d].op = "declare"
    <3>1. /\ call[d].region \notin regions /\ <<"regions", call[d].region>> \in seen[d].rows
          /\ <<"boards">> \in seen[d].rows => counter = 0
      BY <2>1, <2>3 DEF FoundIsSo
    <3>2. call[d].region # region
      BY <1>3, <2>1, <3>1
    <3>3. <<"boards">> \in seen[d].rows => counter' = 0
      BY <1>1, <2>1, <3>1
    <3> QED
      BY <1>6, <2>1, <2>3, <3>1, <3>2, <3>3 DEF FoundIsSo
  <2> QED
    BY <2>1, <2>2, <2>3
<1>8. Apart'
  BY <1>1, CommitKeepsApart DEF OrderedInv
<1> QED
  BY <1>4, <1>5, <1>7, <1>8 DEF OrderedInv

LEMMA CommitDeleteKeepsRecord ==
  ASSUME TypeInv, OrderedInv, NEW c \in Callers, CommitDelete(c)
  PROVE  OrderedInv' /\ contributions' = {}
<1>1. /\ at[c] = "commit" /\ call[c].op = "delete" /\ ~ stale[c]
      /\ Without(seen[c].rows) /\ ReturnDeleted(c) /\ Changes(seen[c].rows)
  BY DEF CommitDelete, Commits, Aborted
<1>2. Recorded \subseteq seen[c].rows
  BY <1>1 DEF OrderedInv, SnapshotsHold, FoundIsSo
<1>3. RecordInv' /\ contributions' = {}
  BY <1>1, <1>2, DeletionEmptiesRecord DEF Recorded
<1>4. counter' = 0
  BY <1>1, <1>2, RowsAreThere DEF Recorded, Without
<1>5. regions' = {} /\ DOMAIN versions' = {}
  BY <1>1, <1>2, RowsAreThere DEF Recorded, Without, Restrict
<1>6. Recorded' = {}
  <2>1. /\ RowsOf("contributions")' = {} /\ RowsOf("premises")' = {}
        /\ RowsOf("regions")' = {} /\ RowsOf("boards")' = {}
    BY <1>3, <1>4, <1>5 DEF RowsOf
  <2> QED
    BY <2>1 DEF Recorded
<1>7. SnapshotsHold'
  <2> SUFFICES ASSUME NEW d \in Callers, at'[d] = "commit", ~ stale'[d] PROVE FoundIsSo(d)'
    BY DEF SnapshotsHold
  <2>1. /\ FoundIsSo(d) /\ \A row : row \in seen[c].rows => row \notin seen[d].rows
        /\ seen'[d] = seen[d] /\ call'[d].op = call[d].op
        /\ call[d].op \in {"write", "delete"}
    <3>1. Aborted(c) = stale[c]
      BY DEF Aborted
    <3> QED
      BY <1>1, <3>1, OthersAtCommit
  <2>2. call[d].op # "write"
    BY <1>2, <2>1, RowsAreThere DEF FoundIsSo, Recorded
  <2> QED
    BY <1>6, <2>1, <2>2 DEF FoundIsSo
<1>8. Apart'
  BY <1>1, CommitKeepsApart DEF OrderedInv
<1> QED
  BY <1>3, <1>4, <1>7, <1>8 DEF OrderedInv, CounterInv

\* The steps of Next, by what they may do to the record.
AtOnceStep ==
  \/ OpenRun
  \/ \E a \in Agents : DeclareAgent(a)
  \/ \E a \in Agents, n \in Numbers : MarkNotified(a, n) \/ MarkSent(a, n)

LEMMA StepsOfNext ==
  ASSUME [Next]_vars
  PROVE  \/ \E c \in Callers : QuietStep(c) \/ (Snapshot(c) /\ Refusal(c) = NoAnswer)
         \/ \E c \in Callers : CommitWrite(c) \/ CommitDeclare(c) \/ CommitDelete(c)
         \/ \E c \in Callers, request \in Requests : Ask(c, request)
         \/ AtOnceStep
         \/ UNCHANGED vars
  BY DEF Next, Operation, QuietStep, AtOnceStep

LEMMA AtOnceSteps ==
  ASSUME AtOnceStep
  PROVE  AtOnce /\ Quiet
<1>1. AtOnce /\ UNCHANGED <<counter, regions, contributions, versions>>
  BY DEF AtOnceStep, OpenRun, DeclareAgent, MarkNotified, MarkSent
<1>2. \E rows : Changes(rows)
  BY DEF AtOnceStep, OpenRun, DeclareAgent, MarkNotified, MarkSent
<1> QED
  BY <1>1, <1>2, AtOnceIsQuiet

LEMMA AskMoves ==
  ASSUME TypeInv, NEW c \in Callers, NEW request \in Requests, Ask(c, request)
  PROVE  /\ OthersStay(c) /\ at[c] = "idle" /\ call'[c] = request /\ IsCall(request)
         /\ at'[c] \in {"snapshot", "close", "acknowledge"}
         /\ request.op = "close" => at'[c] = "close"
         /\ seen' = seen /\ ~ overlapped /\ overlapped' = Overlaps(c, request)
         /\ stale' = stale /\ UNCHANGED tables /\ told' = Silence
<1> DEFINE first == CASE request.op \in {"write", "declare", "delete"} -> "snapshot"
                      [] request.op = "close" -> "close"
                      [] request.op = "acknowledge" -> "acknowledge"
<1>1. Begin(c, request, first, Overlaps(c, request)) /\ UNCHANGED stale
  BY DEF Ask
<1>2. IsCall(request)
  BY RequestsAreCalls
<1>3. first \in {"snapshot", "close", "acknowledge"} /\ (request.op = "close" => first = "close")
  BY <1>2 DEF IsCall, Operations
<1> HIDE DEF first
<1> QED
  BY <1>1, <1>2, <1>3, BeginMoves DEF TypeInv

LEMMA AskKeepsRecord ==
  ASSUME TypeInv, OrderedInv, NEW c \in Callers, NEW request \in Requests, Ask(c, request),
         ~ overlapped'
  PROVE  OrderedInv'
<1>1. /\ OthersStay(c) /\ call'[c] = request /\ at'[c] # "commit" /\ seen' = seen
      /\ ~ Overlaps(c, request) /\ stale' = stale /\ at[c] = "idle"
      /\ UNCHANGED <<counter, regions, contributions, versions>>
  BY AskMoves DEF tables
<1>2. RecordInv' /\ CounterInv'
  BY <1>1, SameRecord DEF OrderedInv, CounterInv, Written
<1>3. Recorded' = Recorded
  BY <1>1 DEF Recorded, RowsOf
<1>4. SnapshotsHold'
  <2> SUFFICES ASSUME NEW d \in Callers, at'[d] = "commit", ~ stale'[d] PROVE FoundIsSo(d)'
    BY DEF SnapshotsHold
  <2>1. call'[d] = call[d] /\ seen'[d] = seen[d] /\ FoundIsSo(d)
    BY <1>1 DEF OthersStay, OrderedInv, SnapshotsHold
  <2> QED
    BY <1>1, <1>3, <2>1 DEF FoundIsSo, KeyUsed
<1>5. Apart'
  <2> SUFFICES ASSUME NEW d \in Callers, NEW e \in Callers, at'[d] # "idle", at'[e] # "idle",
                      call'[d].op = "delete", call'[e].op = "declare"
               PROVE  FALSE
    BY DEF Apart
  <2>1. CASE d = c
    <3>1. e # c /\ at[e] # "idle" /\ call[e].op = "declare" /\ request.op = "delete"
      BY <1>1, <2>1 DEF OthersStay
    <3> QED
      BY <1>1, <3>1 DEF Overlaps
  <2>2. CASE e = c
    <3>1. d # c /\ at[d] # "idle" /\ call[d].op = "delete" /\ request.op = "declare"
      BY <1>1, <2>2 DEF OthersStay
    <3>2. {request.op, call[d].op} = {"delete", "declare"}
      BY <3>1
    <3> QED
      BY <1>1, <3>1, <3>2 DEF Overlaps
  <2>3. CASE d # c /\ e # c
    BY <1>1, <2>3 DEF OthersStay, OrderedInv, Apart
  <2> QED
    BY <2>1, <2>2, <2>3
<1> QED
  BY <1>2, <1>4, <1>5 DEF OrderedInv

LEMMA OrderedInit == Init => OrderedInv
<1> SUFFICES ASSUME Init PROVE OrderedInv
  OBVIOUS
<1>1. /\ contributions = {} /\ counter \in {0, 1} /\ \A c \in Callers : at[c] = "idle"
      /\ \A p \in DOMAIN versions : p \in regions /\ versions[p] = 0
  BY DEF Init, SharedInit, Region
<1>2. IsFiniteSet({}) /\ Cardinality({}) = 0 /\ 1..0 = {}
  BY FS_EmptySet
<1>3. RecordInv
  BY <1>1, <1>2 DEF RecordInv, Written, Of
<1> QED
  BY <1>1, <1>2, <1>3 DEF OrderedInv, CounterInv, Written, SnapshotsHold, Apart

LEMMA OrderedStep ==
  TypeInv /\ (~ overlapped => OrderedInv) /\ [Next]_vars => (~ overlapped' => OrderedInv')
<1> SUFFICES ASSUME TypeInv, ~ overlapped => OrderedInv, [Next]_vars, ~ overlapped'
             PROVE  OrderedInv'
  OBVIOUS
<1>1. ASSUME NEW c \in Callers, QuietStep(c) PROVE OrderedInv'
  BY <1>1, QuietSteps, QuietKeepsRecord DEF Quiet
<1>2. ASSUME NEW c \in Callers, Snapshot(c), Refusal(c) = NoAnswer PROVE OrderedInv'
  <2>1. overlapped' = overlapped
    BY <1>2 DEF Snapshot, Proceed
  <2> QED
    BY <1>2, <2>1, SnapshotKeepsRecord
<1>3. ASSUME NEW c \in Callers, CommitWrite(c) \/ CommitDeclare(c) \/ CommitDelete(c)
      PROVE  OrderedInv'
  <2>1. overlapped' = overlapped
    BY <1>3 DEF CommitWrite, CommitDeclare, CommitDelete, Return, ReturnDeleted
  <2> QED
    BY <1>3, <2>1, CommitWriteKeepsRecord, CommitDeclareKeepsRecord, CommitDeleteKeepsRecord
<1>4. ASSUME NEW c \in Callers, NEW request \in Requests, Ask(c, request) PROVE OrderedInv'
  BY <1>4, AskMoves, AskKeepsRecord
<1>5. ASSUME AtOnceStep PROVE OrderedInv'
  BY <1>5, AtOnceSteps, QuietKeepsRecord DEF Quiet
<1>6. ASSUME UNCHANGED vars PROVE OrderedInv'
  <2>1. Quiet
    BY <1>6 DEF vars, shared, tables, calls, Quiet
  <2> QED
    BY <2>1, QuietKeepsRecord DEF Quiet
<1> QED
  BY <1>1, <1>2, <1>3, <1>4, <1>5, <1>6, StepsOfNext

LEMMA LandedStep == TypeInv /\ LandedInv /\ [Next]_vars => LandedInv'
<1> SUFFICES ASSUME TypeInv, LandedInv, [Next]_vars PROVE LandedInv'
  OBVIOUS
<1> USE DEF TypeInv
<1>0. ~ Blank.landed
  BY DEF Blank
<1>1. ASSUME NEW c \in Callers, QuietStep(c) PROVE LandedInv'
  BY <1>1, QuietSteps, QuietKeepsLanded
<1>2. ASSUME NEW c \in Callers, Snapshot(c), Refusal(c) = NoAnswer PROVE LandedInv'
  BY <1>2 DEF Snapshot, Proceed, LandedInv, tables
<1>3. ASSUME NEW c \in Callers, CommitWrite(c) \/ CommitDeclare(c) PROVE LandedInv'
  <2>1. contributions \subseteq contributions' /\ \E answer : Return(c, answer)
    BY <1>3 DEF CommitWrite, CommitDeclare, Record, AddRegion
  <2>2. OthersStay(c) /\ call'[c] = Blank
    BY <2>1, ReturnMoves
  <2> QED
    BY <1>0, <2>1, <2>2 DEF LandedInv, OthersStay
<1>4. ASSUME NEW c \in Callers, CommitDelete(c) PROVE LandedInv'
  BY <1>4, ReturnDeletedMoves DEF CommitDelete, LandedInv
<1>5. ASSUME NEW c \in Callers, NEW request \in Requests, Ask(c, request) PROVE LandedInv'
  <2>1. OthersStay(c) /\ call'[c] = request /\ contributions' = contributions
    BY <1>5, AskMoves DEF tables
  <2> QED
    BY <2>1, RequestsHaveLanded DEF LandedInv, OthersStay
<1>6. ASSUME AtOnceStep PROVE LandedInv'
  BY <1>6, AtOnceSteps, QuietKeepsLanded
<1>7. ASSUME UNCHANGED vars PROVE LandedInv'
  BY <1>7 DEF vars, shared, tables, calls, LandedInv
<1> QED
  BY <1>1, <1>2, <1>3, <1>4, <1>5, <1>6, <1>7, StepsOfNext

-----------------------------------------------------------------------------
(* One row for each key, whatever runs beside a deletion.                  *)

LEMMA QuietKeepsKeys ==
  ASSUME KeysInv, Quiet
  PROVE  KeysInv'
<1>1. OneRowPerKey'
  BY DEF KeysInv, Quiet, OneRowPerKey
<1>2. ASSUME NEW d \in Callers PROVE KeyStands(d)'
  BY DEF KeysInv, KeyStands, Quiet, KeyUsed
<1> QED
  BY <1>1, <1>2 DEF KeysInv

LEMMA SnapshotKeepsKeys ==
  ASSUME TypeInv, KeysInv, NEW c \in Callers, Snapshot(c), Refusal(c) = NoAnswer
  PROVE  KeysInv'
<1> USE DEF TypeInv
<1> DEFINE shown == [Nothing EXCEPT !.number = counter, !.rows = Touches(c)]
<1>1. /\ at[c] = "snapshot" /\ Proceed(c, "commit", shown)
      /\ stale' = [stale EXCEPT ![c] = FALSE] /\ UNCHANGED tables
  BY DEF Snapshot
<1>2. shown.rows = Touches(c)
  BY DEF Nothing
<1> HIDE DEF shown
<1>3. /\ OthersStay(c) /\ call' = call /\ seen'[c] = shown /\ contributions' = contributions
  BY <1>1, ProceedMoves DEF tables
<1>4. OneRowPerKey'
  BY <1>3 DEF KeysInv, OneRowPerKey
<1>5. ASSUME NEW d \in Callers \ {c} PROVE KeyStands(d)'
  BY <1>1, <1>3 DEF KeysInv, KeyStands, KeyUsed, OthersStay, StageType
<1>6. ASSUME call[c].op = "write" PROVE KeyRows(call[c].key) \subseteq Touches(c) /\ ~ KeyUsed(c)
  <2>1. KeyUsed(c) => Recognise(c) # NoAnswer
    BY RecogniseIsAnswer DEF NoAnswer, Answer
  <2>2. Answer("raised", 0) # NoAnswer
    BY DEF NoAnswer, Answer
  <2>3. WriteRefusal(c) = NoAnswer
    BY <1>6 DEF Refusal
  <2>4. ~ KeyUsed(c)
    BY <2>1, <2>2, <2>3 DEF WriteRefusal
  <2> QED
    BY <1>6, <2>4 DEF Touches
<1>7. KeyStands(c)'
  BY <1>2, <1>3, <1>6 DEF KeyStands, KeyUsed
<1> QED
  BY <1>4, <1>5, <1>7 DEF KeysInv

LEMMA CommitKeepsKeys ==
  ASSUME TypeInv, KeysInv, NEW c \in Callers,
         CommitWrite(c) \/ CommitDeclare(c) \/ CommitDelete(c)
  PROVE  KeysInv'
<1>1. /\ at[c] = "commit" /\ ~ stale[c] /\ Changes(seen[c].rows)
      /\ ReturnDeleted(c) \/ \E answer : Return(c, answer)
  BY DEF CommitWrite, CommitDeclare, CommitDelete, Commits, Aborted
<1>2. /\ at'[c] = "idle"
      /\ \A d \in Callers \ {c} :
           /\ at'[d] = at[d] /\ seen'[d] = seen[d] /\ call'[d].op = call[d].op
           /\ call'[d].key = call[d].key
  BY <1>1, ReturnMoves, ReturnDeletedMoves DEF TypeInv, OthersStay
<1>3. \A d \in Callers : at'[d] = "commit" /\ ~ stale'[d] =>
        ~ stale[d] /\ seen[c].rows \cap seen[d].rows = {}
  BY <1>1 DEF Changes
<1>4. OneRowPerKey /\ \A d \in Callers : KeyStands(d)
  BY DEF KeysInv
<1>5. /\ OneRowPerKey'
      /\ \A k \in contributions' : k \in contributions \/ KeyRows(k.key) \subseteq seen[c].rows
  <2>1. CASE CommitWrite(c)
    <3> DEFINE row == [sequence |-> seen[c].number, region |-> call[c].region,
                       version |-> IF call[c].region \in Premises
                                   THEN call[c].expected + 1 ELSE 0,
                       key |-> call[c].key]
    <3>1. /\ contributions' = contributions \cup {row} /\ row.key = call[c].key
          /\ call[c].op = "write"
      BY <2>1 DEF CommitWrite, Commits, Record
    <3> HIDE DEF row
    <3>2. KeyRows(row.key) \subseteq seen[c].rows /\ ~ KeyUsed(c)
      BY <1>1, <1>4, <3>1 DEF KeyStands
    <3>3. OneRowPerKey'
      BY <1>4, <3>1, <3>2 DEF OneRowPerKey, KeyUsed
    <3> QED
      BY <3>1, <3>2, <3>3
  <2>2. CASE ~ CommitWrite(c)
    <3>1. contributions' \subseteq contributions
      BY <2>2 DEF CommitDeclare, CommitDelete, AddRegion, Without
    <3> QED
      BY <1>4, <3>1 DEF OneRowPerKey
  <2> QED
    BY <2>1, <2>2
<1>6. ASSUME NEW d \in Callers PROVE KeyStands(d)'
  <2> SUFFICES ASSUME at'[d] = "commit", ~ stale'[d], call'[d].op = "write"
               PROVE  KeyRows(call'[d].key) \subseteq seen'[d].rows /\ ~ KeyUsed(d)'
    BY DEF KeyStands
  <2>1. /\ d # c /\ seen'[d] = seen[d] /\ call'[d].key = call[d].key
        /\ seen[c].rows \cap seen[d].rows = {}
        /\ KeyRows(call[d].key) \subseteq seen[d].rows /\ ~ KeyUsed(d)
    BY <1>2, <1>3, <1>4 DEF KeyStands
  <2>2. ASSUME NEW k \in contributions', k.key = call[d].key, call[d].key # NoKey PROVE FALSE
    <3>1. k \notin contributions
      BY <2>1, <2>2 DEF KeyUsed
    <3>2. <<"key", k.key>> \in KeyRows(k.key)
      BY <2>2 DEF KeyRows
    <3> QED
      BY <1>5, <2>1, <2>2, <3>1, <3>2
  <2> QED
    BY <2>1, <2>2 DEF KeyUsed
<1> QED
  BY <1>5, <1>6 DEF KeysInv

LEMMA KeysStep == TypeInv /\ KeysInv /\ [Next]_vars => KeysInv'
<1> SUFFICES ASSUME TypeInv, KeysInv, [Next]_vars PROVE KeysInv'
  OBVIOUS
<1>1. ASSUME NEW c \in Callers, NEW request \in Requests, Ask(c, request) PROVE KeysInv'
  <2>1. /\ OthersStay(c) /\ at'[c] # "commit" /\ stale' = stale /\ seen' = seen
        /\ contributions' = contributions
    BY <1>1, AskMoves DEF tables
  <2>2. OneRowPerKey'
    BY <2>1 DEF KeysInv, OneRowPerKey
  <2>3. ASSUME NEW d \in Callers PROVE KeyStands(d)'
    BY <2>1 DEF KeysInv, KeyStands, KeyUsed, OthersStay
  <2> QED
    BY <2>2, <2>3 DEF KeysInv
<1>2. ASSUME UNCHANGED vars PROVE KeysInv'
  <2>1. Quiet
    BY <1>2 DEF vars, shared, tables, calls, Quiet
  <2> QED
    BY <2>1, QuietKeepsKeys
<1> QED
  BY <1>1, <1>2, QuietSteps, AtOnceSteps, QuietKeepsKeys, SnapshotKeepsKeys, CommitKeepsKeys,
     StepsOfNext

-----------------------------------------------------------------------------
(* Closing and answering, however calls overlap.                           *)

\* A step that neither opens the run nor wins its close.
LEMMA SameClosers ==
  ASSUME ClosedInv, run'.era = run.era, run'.state = "open" => run.state = "open",
         \A d \in Callers : Won(d)' => Won(d) /\ seen'[d].number = seen[d].number
  PROVE  ClosedInv'
  BY DEF ClosedInv, OneCloses, Won

LEMMA ClosedStep == TypeInv /\ ClosedInv /\ [Next]_vars => ClosedInv'
<1> SUFFICES ASSUME TypeInv, ClosedInv, [Next]_vars PROVE ClosedInv'
  OBVIOUS
<1> USE DEF TypeInv
<1>1. ASSUME NEW c \in Callers, NEW answer, Return(c, answer), run' = run PROVE ClosedInv'
  <2>1. OthersStay(c) /\ at'[c] = "idle"
    BY <1>1, ReturnMoves
  <2> QED
    BY <1>1, <2>1, SameClosers DEF Won, OthersStay
<1>2. ASSUME NEW c \in Callers, Snapshot(c) PROVE ClosedInv'
  <2>1. CASE Refusal(c) # NoAnswer
    BY <1>1, <1>2, <2>1 DEF Snapshot, tables
  <2>2. CASE Refusal(c) = NoAnswer
    <3>1. at[c] = "snapshot" /\ run' = run /\ \E shown : Proceed(c, "commit", shown)
      BY <1>2, <2>2 DEF Snapshot, tables
    <3>2. OthersStay(c) /\ call' = call
      BY <3>1, ProceedMoves
    <3>3. call[c].op # "close"
      BY <3>1 DEF StageType
    <3> QED
      BY <3>1, <3>2, <3>3, SameClosers DEF Won, OthersStay
  <2> QED
    BY <2>1, <2>2
<1>3. ASSUME NEW c \in Callers, RunAgain(c) PROVE ClosedInv'
  <2>1. at[c] = "commit" /\ run' = run /\ Proceed(c, "snapshot", Nothing)
    BY <1>3 DEF RunAgain, tables
  <2>2. OthersStay(c) /\ call' = call
    BY <2>1, ProceedMoves
  <2>3. call[c].op # "close"
    BY <2>1 DEF StageType
  <2> QED
    BY <2>1, <2>2, <2>3, SameClosers DEF Won, OthersStay
<1>4. ASSUME NEW c \in Callers, CommitWrite(c) \/ CommitDeclare(c) \/ Acknowledge(c)
                                \/ ClearOutbox(c) \/ ConnectionLost(c)
      PROVE  ClosedInv'
  <2>1. run' = run /\ \E answer : Return(c, answer)
    BY <1>4 DEF CommitWrite, CommitDeclare, Acknowledge, ClearOutbox, ConnectionLost, Stops,
                Record, AddRegion, tables
  <2> QED
    BY <1>1, <2>1
<1>5. ASSUME NEW c \in Callers, CommitDelete(c) PROVE ClosedInv'
  <2>1. ReturnDeleted(c) /\ Without(seen[c].rows)
    BY <1>5 DEF CommitDelete
  <2>2. run'.era = run.era /\ (run'.state = "open" => run.state = "open")
    BY <2>1 DEF Without, TablesType
  <2>3. /\ at'[c] = "idle"
        /\ \A d \in Callers \ {c} :
             at'[d] = at[d] /\ seen'[d] = seen[d] /\ call'[d].op = call[d].op
    BY <2>1, ReturnDeletedMoves
  <2>4. \A d \in Callers : Won(d)' => Won(d) /\ seen'[d].number = seen[d].number
    BY <2>3 DEF Won
  <2> QED
    BY <2>2, <2>4, SameClosers
<1>6. ASSUME NEW c \in Callers, ClearProgress(c) PROVE ClosedInv'
  <2>1. at[c] = "clear_progress" /\ run' = run /\ Proceed(c, "clear_outbox", seen[c])
    BY <1>6 DEF ClearProgress
  <2>2. OthersStay(c) /\ call' = call /\ seen'[c] = seen[c]
    BY <2>1, ProceedMoves
  <2> QED
    BY <2>1, <2>2, SameClosers DEF Won, OthersStay
<1>7. ASSUME NEW c \in Callers, CloseRun(c) PROVE ClosedInv'
  <2>1. CASE run.state # "open"
    BY <1>1, <1>7, <2>1 DEF CloseRun, tables
  <2>2. CASE run.state = "open"
    <3>1. /\ at[c] = "close" /\ run' = [run EXCEPT !.state = "closed"]
          /\ Proceed(c, "clear_progress", [Nothing EXCEPT !.number = run.era])
      BY <1>7, <2>2 DEF CloseRun
    <3>2. run'.state = "closed" /\ run'.era = run.era /\ run.era \in Nat
      BY <3>1 DEF TablesType
    <3>3. /\ OthersStay(c) /\ call' = call
          /\ seen'[c] = [Nothing EXCEPT !.number = run.era]
      BY <3>1, ProceedMoves
    <3>4. seen'[c].number = run.era
      BY <3>3 DEF Nothing
    <3>5. \A d \in Callers \ {c} :
            Won(d)' => Won(d) /\ seen'[d].number = seen[d].number /\ seen[d].number <= run.era
                       /\ seen[d].number # run.era
      BY <2>2, <3>3 DEF Won, OthersStay, ClosedInv
    <3>6. \A d \in Callers : Won(d)' => seen'[d].number <= run'.era
      BY <3>2, <3>4, <3>5
    <3>7. \A d, e \in Callers : Won(d)' /\ Won(e)' /\ seen'[d].number = seen'[e].number => d = e
      BY <3>4, <3>5 DEF ClosedInv, OneCloses, Won
    <3> QED
      BY <3>2, <3>6, <3>7 DEF ClosedInv, OneCloses, Won
  <2> QED
    BY <2>1, <2>2
<1>8. ASSUME NEW c \in Callers, NEW request \in Requests, Ask(c, request) PROVE ClosedInv'
  <2>1. /\ OthersStay(c) /\ call'[c] = request /\ run' = run /\ seen' = seen
        /\ request.op = "close" => at'[c] = "close"
    BY <1>8, AskMoves DEF tables
  <2> QED
    BY <2>1, SameClosers DEF Won, OthersStay
<1>9. ASSUME OpenRun PROVE ClosedInv'
  <2>1. run' = Opened /\ UNCHANGED <<call, at, seen>> /\ run.era \in Nat
    BY <1>9 DEF OpenRun, AtOnce, TablesType
  <2>2. run'.era = run.era + 1
    BY <2>1 DEF Opened
  <2>3. \A d \in Callers : Won(d) => seen[d].number \in Nat /\ seen[d].number <= run.era
    BY DEF ClosedInv, CallsType, IsSeen
  <2> QED
    BY <2>1, <2>2, <2>3 DEF ClosedInv, OneCloses, Won
<1>10. ASSUME UNCHANGED <<call, at, seen, run>> PROVE ClosedInv'
  BY <1>10, SameClosers DEF Won
<1>11. ASSUME NEW a, NEW n, DeclareAgent(a) \/ MarkNotified(a, n) \/ MarkSent(a, n)
       PROVE  ClosedInv'
  BY <1>10, <1>11 DEF DeclareAgent, MarkNotified, MarkSent, AtOnce
<1>12. ASSUME UNCHANGED vars PROVE ClosedInv'
  BY <1>10, <1>12 DEF vars, shared, tables, calls
<1> QED
  BY <1>2, <1>3, <1>4, <1>5, <1>6, <1>7, <1>8, <1>9, <1>11, <1>12 DEF Next, Operation

LEMMA AnsweredStep == TypeInv /\ AnsweredInv /\ [Next]_vars => AnsweredInv'
<1> SUFFICES ASSUME TypeInv, AnsweredInv, [Next]_vars PROVE AnsweredInv'
  OBVIOUS
<1> USE DEF TypeInv
<1>1. ASSUME progress' = progress PROVE AnsweredInv'
  BY <1>1 DEF AnsweredInv
<1>2. ASSUME NEW c \in Callers, Acknowledge(c), Answerable(c) PROVE AnsweredInv'
  <2>1. progress' = Acked(call[c].agent, call[c].through)
    BY <1>2 DEF Acknowledge
  <2> QED
    BY <2>1, <1>2, AckedKeepsAnswers DEF TablesType, AnsweredInv, Answerable
<1>3. ASSUME NEW a \in Agents, NEW n \in Nat, progress' = Declared(a) \/ progress' = Notified(a, n)
      PROVE  AnsweredInv'
  BY <1>3, TellingKeepsAnswers DEF TablesType, AnsweredInv
<1>4. ASSUME NEW c \in Callers, CommitDelete(c) PROVE AnsweredInv'
  BY <1>4 DEF CommitDelete, Without, Restrict, AnsweredInv
<1>5. ASSUME progress' = <<>> PROVE AnsweredInv'
  BY <1>5 DEF AnsweredInv
<1>6. \A n \in Numbers : n \in Nat
  BY DEF Numbers
<1>7. ASSUME NEW c \in Callers, Operation(c) \/ ConnectionLost(c) PROVE AnsweredInv'
  <2>1. \/ progress' = progress \/ CommitDelete(c) \/ progress' = <<>>
        \/ Acknowledge(c) /\ Answerable(c)
    BY <1>7 DEF Operation, Snapshot, RunAgain, CommitWrite, CommitDeclare, Acknowledge, CloseRun,
                ClearProgress, ClearOutbox, ConnectionLost, Stops, Record, AddRegion, tables
  <2> QED
    BY <1>1, <1>2, <1>4, <1>5, <1>7, <2>1
<1>8. ASSUME NEW c, NEW request, Ask(c, request) PROVE AnsweredInv'
  BY <1>1, <1>8 DEF Ask, Begin, tables
<1>9. ASSUME OpenRun PROVE AnsweredInv'
  BY <1>1, <1>9 DEF OpenRun
<1>10. ASSUME NEW a \in Agents, NEW n \in Nat,
              DeclareAgent(a) \/ MarkNotified(a, n) \/ MarkSent(a, n)
       PROVE  AnsweredInv'
  BY <1>1, <1>3, <1>10 DEF DeclareAgent, MarkNotified, MarkSent
<1>11. ASSUME UNCHANGED vars PROVE AnsweredInv'
  BY <1>1, <1>11 DEF vars, shared, tables
<1> QED
  BY <1>6, <1>7, <1>8, <1>9, <1>10, <1>11 DEF Next

-----------------------------------------------------------------------------
(* The theorems.                                                           *)

LEMMA MongoInvInit == Init => MongoInv
<1> SUFFICES ASSUME Init PROVE MongoInv
  OBVIOUS
<1>1. /\ \A c \in Callers : at[c] = "idle" /\ ~ call[c].landed
      /\ \A a \in DOMAIN progress : progress[a].acked <= progress[a].notified
  BY DEF Init, SharedInit, Blank
<1>2. ClosedInv /\ AnsweredInv /\ LandedInv
  BY <1>1 DEF ClosedInv, OneCloses, Won, AnsweredInv, LandedInv
<1>3. KeysInv
  BY <1>1 DEF Init, SharedInit, KeysInv, OneRowPerKey, KeyStands
<1> QED
  BY <1>2, <1>3, TypeInit, OrderedInit DEF MongoInv

LEMMA MongoInvStep == MongoInv /\ [Next]_vars => MongoInv'
<1> USE DEF MongoInv
<1>1. MongoInv /\ [Next]_vars => (~ overlapped' => OrderedInv')
  BY OrderedStep
<1> QED
  BY TypeStep, ClosedStep, AnsweredStep, LandedStep, KeysStep, <1>1

LEMMA MongoInvHolds == Spec => []MongoInv
  BY MongoInvInit, MongoInvStep, PTL DEF Spec

\* The counter's document orders the writes of every process: no number is given
\* twice or left out, and a premise's version counts the writes of that premise,
\* whatever is aborted, run again or lost between the snapshot and the commit.
THEOREM MongoRecordWhole == Spec => []RecordWhole
<1>1. MongoInv => RecordWhole
  BY RecordInvGivesWhole DEF MongoInv, TypeInv, OrderedInv, RecordWhole
<1> QED
  BY MongoInvHolds, <1>1, PTL

\* Of two transactions that set a premise from one version the counter's document
\* turns one away, in whatever processes they run, so one of them is the winner.
THEOREM MongoOneWinner == Spec => [](~ overlapped => OneWinner)
<1>1. MongoInv /\ ~ overlapped => OneWinner
  BY RecordInvGivesOneWinner DEF MongoInv, TypeInv, OrderedInv
<1> QED
  BY MongoInvHolds, <1>1, PTL

\* The update of the run's document is won by one caller, whatever the winner has
\* still to remove when others close and open the run.
THEOREM MongoOneCloses == Spec => []OneCloses
<1>1. MongoInv => OneCloses
  BY DEF MongoInv, ClosedInv
<1> QED
  BY MongoInvHolds, <1>1, PTL

\* find_one_and_update compares and raises in one step, so no answer is recorded
\* beyond what was told, though a close wipes the entries at any moment.
THEOREM MongoAnswersWithinTelling == Spec => []AckedWithinNotified
<1>1. MongoInv => AckedWithinNotified
  BY DEF MongoInv, AnsweredInv, AckedWithinNotified
<1> QED
  BY MongoInvHolds, <1>1, PTL

\* A caller is answered by its own step only.
LEMMA WhoIsTold ==
  ASSUME TypeInv, [Next]_vars, NEW c \in Callers, at[c] # "idle", at'[c] = "idle"
  PROVE  Operation(c) \/ ConnectionLost(c)
<1> USE DEF TypeInv
<1>1. ASSUME NEW d \in Callers, Operation(d) \/ ConnectionLost(d) PROVE d = c
  <2>1. \/ ReturnDeleted(d) \/ \E answer : Return(d, answer)
        \/ \E stage, shown : Proceed(d, stage, shown) /\ stage # "idle"
    BY <1>1 DEF Operation, Snapshot, RunAgain, CommitWrite, CommitDeclare, CommitDelete,
       Acknowledge, CloseRun, ClearProgress, ClearOutbox, ConnectionLost, Stops
  <2>2. \A e \in Callers \ {d} : at'[e] = at[e]
    BY <2>1, ReturnMoves, ReturnDeletedMoves, ProceedMoves DEF OthersStay
  <2> QED
    BY <2>2
<1>2. ASSUME NEW d \in Callers, NEW request \in Requests, Ask(d, request) PROVE FALSE
  BY <1>2, AskMoves DEF OthersStay
<1>3. ASSUME AtOnceStep PROVE FALSE
  BY <1>3, AtOnceSteps DEF AtOnce
<1>4. ASSUME UNCHANGED vars PROVE FALSE
  BY <1>4 DEF vars, shared, calls
<1> QED
  BY <1>1, <1>2, <1>3, <1>4 DEF Next, AtOnceStep

\* What each kind of answer is the answer of.
LEMMA WhatIsTold ==
  ASSUME TypeInv, [Next]_vars, NEW c \in Callers, at[c] # "idle", at'[c] = "idle"
  PROVE  /\ told'.kind \in {"written", "repeated", "conflict"} =>
              \/ CommitWrite(c) /\ told' = Answer("written", seen[c].number)
              \/ /\ Snapshot(c) /\ call[c].op = "write" /\ Refusal(c) = WriteRefusal(c)
                 /\ WriteRefusal(c) # NoAnswer /\ told' = WriteRefusal(c) /\ UNCHANGED tables
         /\ told'.kind = "raised" =>
              \/ Snapshot(c) /\ told' = Refusal(c)
              \/ call[c].op = "acknowledge"
         /\ told'.kind = "first" =>
              Acknowledge(c) /\ Answerable(c)
              /\ told' = AckAnswer(c, progress[call[c].agent].acked)
<1> USE DEF TypeInv
<1>1. Operation(c) \/ ConnectionLost(c)
  BY WhoIsTold
<1>2. \A k, n : Answer(k, n).kind = k
  BY DEF Answer
<1>3. ASSUME Snapshot(c) PROVE /\ told' = Refusal(c) /\ UNCHANGED tables
                               /\ Refusal(c) # NoAnswer /\ told'.kind # "first"
  <2>1. Refusal(c) # NoAnswer
    BY <1>3, ProceedMoves DEF Snapshot
  <2>2. KeyUsed(c) => Recognise(c).kind # "first"
    BY RecogniseIsAnswer
  <2>3. Refusal(c).kind # "first"
    BY <1>2, <2>2 DEF Refusal, WriteRefusal, NoAnswer
  <2> QED
    BY <1>3, <2>1, <2>3 DEF Snapshot, Return
<1>4. ASSUME Snapshot(c), told'.kind \in {"written", "repeated", "conflict"}
      PROVE  call[c].op = "write" /\ Refusal(c) = WriteRefusal(c)
  BY <1>2, <1>3, <1>4 DEF Refusal, NoAnswer
<1>5. ASSUME CommitWrite(c)
      PROVE  told' = Answer("written", seen[c].number) /\ told'.kind = "written"
  BY <1>2, <1>5 DEF CommitWrite, Return
<1>6. ASSUME CommitDeclare(c) \/ CommitDelete(c) \/ ClearOutbox(c) PROVE told'.kind = "done"
  BY <1>2, <1>6 DEF CommitDeclare, CommitDelete, ClearOutbox, Return, ReturnDeleted
<1>7. ASSUME ConnectionLost(c) PROVE told'.kind = "none"
  BY <1>7 DEF ConnectionLost, Stops, Return, Silence
<1>8. ASSUME RunAgain(c) \/ ClearProgress(c) PROVE FALSE
  BY <1>8, ProceedMoves DEF RunAgain, ClearProgress
<1>9. ASSUME CloseRun(c) PROVE told'.kind = "again"
  <2>1. run.state # "open"
    BY <1>9, ProceedMoves DEF CloseRun
  <2> QED
    BY <1>2, <1>9, <2>1 DEF CloseRun, Return
<1>10. ASSUME Acknowledge(c)
       PROVE  /\ call[c].op = "acknowledge"
              /\ \/ told'.kind = "raised"
                 \/ /\ Answerable(c) /\ told' = AckAnswer(c, progress[call[c].agent].acked)
                    /\ told'.kind \in {"first", "again"}
  <2>1. call[c].op = "acknowledge" /\ IsCall(call[c])
    BY <1>10 DEF Acknowledge, StageType, CallsType
  <2>2. AckAnswer(c, progress[call[c].agent].acked).kind \in {"first", "again"}
    BY <2>1, AckAnswerIsAnswer
  <2> QED
    BY <1>2, <1>10, <2>1, <2>2 DEF Acknowledge, Return
<1> QED
  BY <1>1, <1>2, <1>3, <1>4, <1>5, <1>6, <1>7, <1>8, <1>9, <1>10 DEF Operation

\* A write that is refused because its key has written is told what it wrote.
LEMMA KeyIsRecognised ==
  ASSUME KeysInv, NEW c, NEW k \in contributions, k.key = call[c].key, k.key # NoKey
  PROVE  KeyUsed(c) /\ FirstWrite(c) = k
         /\ {d.sequence : d \in {e \in contributions : e.key = call[c].key}} = {k.sequence}
<1>1. KeyUsed(c)
  BY DEF KeyUsed
<1>2. \A d \in contributions : d.key = call[c].key => d = k
  BY DEF KeysInv, OneRowPerKey
<1>3. FirstWrite(c) = k
  BY <1>1, <1>2, FirstWriteIsThere
<1> QED
  BY <1>1, <1>2, <1>3

\* Two processes that write under one key are told one number: of the one row that
\* has the key, whatever is deleted or declared beside them.
THEOREM MongoKeysAgree == Spec => KeysAgree
<1>1. ASSUME MongoInv, [Next]_vars, NEW c \in Callers, IsTold(c, {"written", "repeated"}),
             call[c].key # NoKey
      PROVE  {k.sequence : k \in {d \in contributions' : d.key = call[c].key}} = {told'.number}
  <2>0. TypeInv /\ KeysInv
    BY <1>1 DEF MongoInv
  <2>1. \/ CommitWrite(c) /\ told' = Answer("written", seen[c].number)
        \/ /\ Snapshot(c) /\ WriteRefusal(c) # NoAnswer /\ told' = WriteRefusal(c)
           /\ UNCHANGED tables
    BY <1>1, <2>0, WhatIsTold DEF IsTold
  <2>2. \A k, n : Answer(k, n).kind = k /\ Answer(k, n).number = n
    BY DEF Answer
  <2>3. CASE CommitWrite(c) /\ told' = Answer("written", seen[c].number)
    <3>1. ~ KeyUsed(c) /\ Record(c, seen[c].number)
      BY <2>0, <2>3 DEF CommitWrite, Commits, Aborted, KeysInv, KeyStands
    <3> DEFINE row == [sequence |-> seen[c].number, region |-> call[c].region,
                       version |-> IF call[c].region \in Premises
                                   THEN call[c].expected + 1 ELSE 0,
                       key |-> call[c].key]
    <3>2. /\ contributions' = contributions \cup {row}
          /\ row.sequence = seen[c].number /\ row.key = call[c].key
      BY <3>1 DEF Record
    <3> HIDE DEF row
    <3>3. \A k \in contributions : k.key # call[c].key
      BY <1>1, <3>1 DEF KeyUsed
    <3> QED
      BY <2>2, <2>3, <3>2, <3>3
  <2>4. CASE WriteRefusal(c) # NoAnswer /\ told' = WriteRefusal(c) /\ UNCHANGED tables
    <3>1. KeyUsed(c) /\ told' = Answer("repeated", FirstWrite(c).sequence)
      BY <1>1, <2>2, <2>4 DEF WriteRefusal, Recognise, IsTold
    <3>2. FirstWrite(c) \in contributions /\ FirstWrite(c).key = call[c].key
      BY <3>1, FirstWriteIsThere
    <3>3. {d.sequence : d \in {e \in contributions : e.key = call[c].key}}
            = {FirstWrite(c).sequence}
      BY <1>1, <2>0, <3>2, KeyIsRecognised
    <3> QED
      BY <2>2, <2>4, <3>1, <3>3 DEF tables
  <2> QED
    BY <2>1, <2>3, <2>4
<1>2. MongoInv /\ [Next]_vars =>
        \A c \in Callers :
          IsTold(c, {"written", "repeated"}) /\ call[c].key # NoKey =>
            {k.sequence : k \in {d \in contributions' : d.key = call[c].key}} = {told'.number}
  BY <1>1
<1> QED
  BY MongoInvHolds, <1>2, PTL DEF Spec, KeysAgree, vars

\* A write sent again after it landed is told of what it wrote, at whichever of its
\* snapshots the answer is found.
THEOREM MongoRetryIsRecognised == Spec => RetryIsRecognised
<1>1. ASSUME MongoInv, [Next]_vars, NEW c \in Callers, call[c].landed, ~ overlapped,
             IsTold(c, {"written", "conflict", "raised"})
      PROVE  FALSE
  <2>0. TypeInv /\ OrderedInv /\ KeysInv /\ IsCall(call[c]) /\ call[c].op = "write"
    BY <1>1 DEF MongoInv, IsTold, TypeInv, CallsType, IsCall
  <2>1. PICK k \in contributions :
          k.key = call[c].key /\ k.key # NoKey /\ k.region = call[c].region
    BY <1>1 DEF MongoInv, LandedInv
  <2>2. KeyUsed(c) /\ FirstWrite(c) = k
    BY <2>0, <2>1, KeyIsRecognised
  <2>3. call[c].region \in regions
    BY <2>0, <2>1 DEF OrderedInv, RecordInv
  <2>4. WriteRefusal(c) = Answer("repeated", k.sequence)
    BY <2>1, <2>2, <2>3 DEF WriteRefusal, Recognise
  <2>5. Refusal(c) = WriteRefusal(c)
    BY <2>0 DEF Refusal
  <2>6. CommitWrite(c) \/ told' = WriteRefusal(c)
    BY <1>1, <2>0, <2>5, WhatIsTold DEF IsTold
  <2>7. ~ CommitWrite(c)
    BY <2>0, <2>2, WriteFound
  <2> QED
    BY <1>1, <2>4, <2>6, <2>7 DEF IsTold, Answer
<1>2. MongoInv /\ [Next]_vars =>
        \A c \in Callers :
          call[c].landed /\ ~ overlapped => ~ IsTold(c, {"written", "conflict", "raised"})
  BY <1>1
<1> QED
  BY MongoInvHolds, <1>2, PTL DEF Spec, RetryIsRecognised, vars

\* The key and the version are read in one snapshot, so a keyed write that is told
\* it lost did not lose to another attempt of itself.
THEOREM MongoConflictIsFinal == Spec => ConflictIsFinal
<1>1. ASSUME MongoInv, [Next]_vars, NEW c \in Callers, LosesToItself(c) PROVE FALSE
  <2>0. TypeInv
    BY <1>1 DEF MongoInv
  <2>1. KeyUsed(c) /\ told'.kind = "conflict"
    BY <1>1 DEF LosesToItself, KeyUsed, IsTold
  <2>2. told' = WriteRefusal(c)
    BY <1>1, <2>0, <2>1, WhatIsTold DEF LosesToItself, IsTold, Answer
  <2>3. Recognise(c).kind # "conflict"
    BY <2>0, <2>1, RecogniseIsAnswer DEF TypeInv
  <2> QED
    BY <2>1, <2>2, <2>3 DEF WriteRefusal, Answer
<1>2. MongoInv /\ [Next]_vars => \A c \in Callers : ~ LosesToItself(c)
  BY <1>1
<1> QED
  BY MongoInvHolds, <1>2, PTL DEF Spec, ConflictIsFinal, vars

\* Whoever is told to be the first to answer raised the entry it was told of: the
\* update that raises it returns it as it stood before.
THEOREM MongoOneFirstAnswer == Spec => OneFirstAnswer
<1>1. ASSUME MongoInv, [Next]_vars, NEW c \in Callers PROVE FirstRaises(c)
  <2> SUFFICES ASSUME IsTold(c, {"first"}) PROVE progress[call[c].agent].acked < call[c].through
    BY DEF FirstRaises
  <2>1. told' = AckAnswer(c, progress[call[c].agent].acked)
    BY <1>1, WhatIsTold DEF MongoInv, IsTold
  <2> QED
    BY <2>1 DEF IsTold, AckAnswer, Answer
<1>2. MongoInv /\ [Next]_vars => \A c \in Callers : FirstRaises(c)
  BY <1>1
<1> QED
  BY MongoInvHolds, <1>2, PTL DEF Spec, OneFirstAnswer, vars

\* The documents hold one log that grows by fresh writes, each naming the version it
\* replaces: MongoStore implements BoardRecord while no deletion runs beside a
\* declaration.
THEOREM MongoKeepsTheRecord == Spec => KeepsTheRecord
<1>1. Init => Promise!Init
  BY EmptyLog DEF Init, SharedInit
<1>2. ASSUME MongoInv, [Next]_vars, TypeInv', ~ overlapped', contributions' # contributions
      PROVE  Promise!Next
  <2>1. \E c \in Callers : CommitWrite(c) \/ CommitDeclare(c) \/ CommitDelete(c)
    <3>1. \A c \in Callers : QuietStep(c) => Quiet
      BY <1>2, QuietSteps DEF MongoInv
    <3>2. AtOnceStep => Quiet
      BY AtOnceSteps
    <3>3. \A c \in Callers : Snapshot(c) => contributions' = contributions
      BY DEF Snapshot, tables
    <3>4. \A c \in Callers : \A request : Ask(c, request) => contributions' = contributions
      BY DEF Ask, Begin, tables
    <3>5. Quiet => contributions' = contributions
      BY DEF Quiet
    <3>6. UNCHANGED vars => contributions' = contributions
      BY DEF vars, shared, tables
    <3> QED
      BY <1>2, <3>1, <3>2, <3>3, <3>4, <3>5, <3>6, StepsOfNext
  <2>2. PICK c \in Callers : CommitWrite(c) \/ CommitDeclare(c) \/ CommitDelete(c)
    BY <2>1
  <2>3. TypeInv /\ OrderedInv /\ TablesType /\ TablesType'
    <3>1. overlapped' = overlapped
      BY <2>2 DEF CommitWrite, CommitDeclare, CommitDelete, Return, ReturnDeleted
    <3> QED
      BY <1>2, <3>1 DEF MongoInv, TypeInv
  <2>4. CASE CommitWrite(c)
    <3>1. /\ IsCall(call[c]) /\ call[c].region \in Region /\ ~ KeyUsed(c)
          /\ Record(c, Written + 1) /\ call[c].region \in regions
          /\ call[c].region \in Premises =>
               call[c].region \in DOMAIN versions /\ versions[call[c].region] = call[c].expected
      BY <2>3, <2>4, WriteFound
    <3> QED
      BY <2>3, <3>1, WriteExtendsLog DEF OrderedInv
  <2>5. CASE CommitDeclare(c)
    BY <1>2, <2>3, <2>5, CommitDeclareKeepsRecord
  <2>6. CASE CommitDelete(c)
    BY <2>3, <2>6, CommitDeleteKeepsRecord, DeletionClearsLog
  <2> QED
    BY <2>2, <2>4, <2>5, <2>6
<1>3. MongoInv /\ MongoInv' /\ [Next]_vars => [overlapped' \/ Promise!Next]_<<contributions>>
  BY <1>2 DEF MongoInv
<1> QED
  BY MongoInvHolds, <1>1, <1>3, PTL DEF Spec, KeepsTheRecord
=============================================================================
