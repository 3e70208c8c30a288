------------------------ MODULE PostgresStoreProofs ------------------------
(***************************************************************************)
(* Theorems of PostgresStore, for any regions, agents, keys and callers:   *)
(* what a transaction's statements have found stands to its commit because *)
(* it holds the rows that would change it.                                 *)
(***************************************************************************)
EXTENDS PostgresStore, SharedTablesProofs

Stages == {"idle", "require", "look_up", "take", "update", "insert", "commit", "open",
           "kind_of", "insert_region", "empty", "close", "read_progress"}

StagesOf(op) ==
  CASE op = "write" -> {"require", "look_up", "take", "update", "insert", "commit"}
    [] op = "declare" -> {"open", "kind_of", "insert_region", "commit"}
    [] op = "delete" -> {"empty", "commit"}
    [] op = "close" -> {"close", "empty", "commit"}
    [] op = "acknowledge" -> {"read_progress", "commit"}

StageType ==
  /\ DOMAIN held = Callers
  /\ \A c \in Callers :
       IF at[c] = "idle" THEN seen[c] = Nothing ELSE at[c] \in StagesOf(call[c].op)

TypeInv == TablesType /\ CallsType /\ StageType

\* No row is held twice, and what a transaction would remove it holds.
HeldApart ==
  \A c, d \in Callers : c # d => \A row : row \in held[c] => row \notin held[d]
SeenHeld == \A c \in Callers : seen[c].rows \subseteq held[c]

\* Whoever has won the close of a run holds its row.
Won(c) == call[c].op = "close" /\ at[c] \notin {"idle", "close"}
ClosersHold == \A c \in Callers : Won(c) => <<"run_state">> \in held[c]

LocksInv == HeldApart /\ SeenHeld /\ ClosersHold

\* What the statements of each call have found, and the rows that keep it so.
WriteFound(c) ==
  call[c].op = "write" =>
    /\ call[c].landed => at[c] \in {"require", "look_up"}
    /\ at[c] \in {"look_up", "take", "update", "insert", "commit"} => call[c].region \in regions
    /\ at[c] \in {"update", "insert", "commit"} =>
         <<"boards">> \in held[c] /\ counter # 0 /\ seen[c].number = counter
    /\ at[c] \in {"insert", "commit"} /\ call[c].region \in Premises =>
         /\ <<"premises", call[c].region>> \in held[c]
         /\ call[c].region \in DOMAIN versions
         /\ versions[call[c].region] = call[c].expected
    /\ at[c] = "commit" => KeyRows(call[c].key) \subseteq held[c] /\ ~ KeyUsed(c)

DeclareFound(c) ==
  call[c].op = "declare" =>
    /\ at[c] \in {"kind_of", "insert_region", "commit"} /\ seen[c].number = 1 =>
         <<"boards">> \in held[c] /\ counter = 0
    /\ at[c] = "commit" =>
         /\ <<"regions", call[c].region>> \in held[c] /\ <<"premises", call[c].region>> \in held[c]
         /\ call[c].region \notin regions \cup DOMAIN versions

DeleteFound(c) ==
  call[c].op = "delete" =>
    /\ seen[c].prior >= 1 => RowsOf("contributions") \subseteq seen[c].rows
    /\ seen[c].prior >= 2 => RowsOf("premises") \subseteq seen[c].rows
    /\ seen[c].prior >= 3 => RowsOf("regions") \subseteq seen[c].rows
    /\ seen[c].prior >= 7 => RowsOf("boards") \subseteq seen[c].rows
    /\ at[c] = "commit" => seen[c].prior = 7

AckFound(c) ==
  call[c].op = "acknowledge" /\ at[c] = "commit" =>
    /\ <<"agent_progress", call[c].agent>> \in held[c] /\ Answerable(c)
    /\ seen[c].prior = progress[call[c].agent].acked

Found(c) == WriteFound(c) /\ DeclareFound(c) /\ DeleteFound(c) /\ AckFound(c)

\* A deletion runs beside no other call.
Alone ==
  \A c, d \in Callers :
    c # d /\ at[c] # "idle" /\ call[c].op = "delete" => at[d] = "idle"

AnsweredInv == \A a \in DOMAIN progress : progress[a].acked <= progress[a].notified

OrderedInv ==
  RecordInv /\ CounterInv /\ AnsweredInv /\ Alone /\ \A c \in Callers : Found(c)

\* What holds beside a deletion too: a key has one row, nobody writes the row of a key
\* another is about to commit, and nobody changes a row that is about to be answered.
OneRowPerKey == \A k, d \in contributions : k.key = d.key /\ k.key # NoKey => k = d
KeyStands(c) ==
  call[c].op = "write" /\ at[c] = "commit" => KeyRows(call[c].key) \subseteq held[c] /\ ~ KeyUsed(c)
RowsInv == OneRowPerKey /\ \A c \in Callers : KeyStands(c) /\ AckFound(c)

PostgresInv ==
  TypeInv /\ LocksInv /\ LandedInv /\ RowsInv /\ (~ overlapped => OrderedInv)

-----------------------------------------------------------------------------
(* Types, and who holds what.                                              *)

LEMMA StagesAreBusy ==
  ASSUME NEW op \in Operations
  PROVE  "idle" \notin StagesOf(op)
  BY DEF Operations, StagesOf

\* What a step makes of the rows that are held.
LEMMA HeldMoves ==
  ASSUME DOMAIN held = Callers, NEW c \in Callers
  PROVE  /\ LetsGo(c) => DOMAIN held' = Callers /\ held'[c] = {}
         /\ \A rows : Holds(c, rows) => DOMAIN held' = Callers /\ held'[c] = held[c] \cup rows
         /\ LetsGo(c) \/ (\E rows : Holds(c, rows)) \/ held' = held =>
              \A d \in Callers \ {c} : held'[d] = held[d]
  BY DEF LetsGo, Holds

LEMMA ProceedKeepsType ==
  ASSUME TypeInv, NEW c \in Callers, at[c] # "idle", NEW stage, NEW shown, IsSeen(shown),
         stage \in StagesOf(call[c].op), Proceed(c, stage, shown), TablesType',
         DOMAIN held' = Callers
  PROVE  TypeInv'
<1> USE DEF TypeInv
<1>1. call[c].op \in Operations
  BY DEF CallsType, IsCall
<1>2. stage # "idle"
  BY <1>1, StagesAreBusy
<1>3. CallsType'
  BY <1>2, ProceedKeepsCalls
<1>4. OthersStay(c) /\ at'[c] = stage /\ call' = call
  BY ProceedMoves
<1>5. StageType'
  BY <1>2, <1>4 DEF StageType, OthersStay
<1> QED
  BY <1>3, <1>5

LEMMA ReturnKeepsType ==
  ASSUME TypeInv, NEW c \in Callers, NEW answer, IsAnswer(answer), Return(c, answer), TablesType',
         DOMAIN held' = Callers
  PROVE  TypeInv'
<1> USE DEF TypeInv
<1>1. CallsType'
  BY ReturnKeepsCalls
<1>2. OthersStay(c) /\ at'[c] = "idle" /\ seen'[c] = Nothing
  BY ReturnMoves
<1>3. StageType'
  BY <1>2 DEF StageType, OthersStay
<1> QED
  BY <1>1, <1>3

LEMMA RollsBackKeepsType ==
  ASSUME TypeInv, NEW c \in Callers, NEW answer, IsAnswer(answer), RollsBack(c, answer)
  PROVE  TypeInv'
<1>1. TablesType'
  BY DEF RollsBack, tables, TypeInv, TablesType
<1> QED
  BY <1>1, HeldMoves, ReturnKeepsType DEF RollsBack, TypeInv, StageType

LEMMA AtOnceKeepsType ==
  ASSUME TypeInv, AtOnce, held' = held, TablesType'
  PROVE  TypeInv'
  BY AtOnceKeepsCalls DEF TypeInv, AtOnce, StageType

\* The statements of a call that change no table: it goes on, or rolls back.
Reads(c) ==
  \/ Require(c) \/ AlreadyWritten(c) \/ TakeSequence(c) \/ UpdatePremise(c)
  \/ InsertContribution(c) \/ OpenBoard(c) \/ KindOf(c) \/ InsertRegion(c)
  \/ EmptyTable(c) \/ CloseRun(c) \/ ReadProgress(c)

\* How such a statement goes on, and with which rows.
GoesOn(c, stage, shown, rows) ==
  /\ Proceed(c, stage, shown) /\ UNCHANGED tables
  /\ Holds(c, rows) \/ (held' = held /\ rows = {})

Commits(c) ==
  CommitWrite(c) \/ CommitDeclare(c) \/ CommitDelete(c) \/ CommitClose(c) \/ CommitAck(c)

AtOnceStep ==
  \/ OpenRun
  \/ \E a \in Agents : DeclareAgent(a)
  \/ \E a \in Agents, n \in Numbers : MarkNotified(a, n) \/ MarkSent(a, n)

LEMMA StepsOfNext ==
  ASSUME [Next]_vars
  PROVE  \/ \E c \in Callers : Reads(c) \/ Commits(c) \/ DeadlockVictim(c) \/ ConnectionLost(c)
         \/ \E c \in Callers, request \in Requests : Ask(c, request)
         \/ AtOnceStep
         \/ UNCHANGED vars
  BY DEF Next, Statement, Reads, Commits, AtOnceStep

\* Of what kind a call is that runs a statement.
LEMMA StageOps ==
  ASSUME TypeInv, NEW c \in Callers, at[c] # "idle"
  PROVE  /\ IsCall(call[c]) /\ IsSeen(seen[c])
         /\ at[c] \in {"require", "look_up", "take", "update", "insert"} => call[c].op = "write"
         /\ at[c] \in {"open", "kind_of", "insert_region"} => call[c].op = "declare"
         /\ at[c] = "empty" => call[c].op \in {"delete", "close"}
         /\ at[c] = "close" => call[c].op = "close"
         /\ at[c] = "read_progress" => call[c].op = "acknowledge"
<1>1. /\ IsCall(call[c])
      /\ IsSeen(seen[c])
      /\ call[c].op \in Operations
      /\ at[c] \in StagesOf(call[c].op)
  BY DEF TypeInv, CallsType, StageType, IsCall
<1> QED
  BY <1>1 DEF Operations, StagesOf

\* A statement rolls back, or goes on to a stage of its call with the rows it held
\* and rows that nobody else holds.
LEMMA ReadsGoOn ==
  ASSUME TypeInv, NEW c \in Callers, Reads(c)
  PROVE  /\ at[c] # "idle"
         /\ \/ \E answer : IsAnswer(answer) /\ RollsBack(c, answer)
            \/ \E stage, shown, rows :
                 /\ GoesOn(c, stage, shown, rows) /\ stage \in StagesOf(call[c].op)
                 /\ IsSeen(shown) /\ rows \subseteq Wants(c)
                 /\ shown.rows \subseteq seen[c].rows \cup rows
                 /\ \A d \in Callers : ~ WaitsFor(c, d)
                 /\ call[c].op = "close" => stage # "close"
                 /\ at[c] = "close" => <<"run_state">> \in rows
<1> USE DEF TypeInv
<1>1. at[c] # "idle" /\ \A d \in Callers : ~ WaitsFor(c, d)
  BY DEF Reads, Require, AlreadyWritten, TakeSequence, UpdatePremise, InsertContribution, OpenBoard,
         KindOf, InsertRegion, EmptyTable, CloseRun, ReadProgress, Runs
<1> DEFINE Ends == \E answer : IsAnswer(answer) /\ RollsBack(c, answer)
           Goes(stage, shown, rows) ==
             /\ GoesOn(c, stage, shown, rows) /\ stage \in StagesOf(call[c].op)
             /\ IsSeen(shown) /\ rows \subseteq Wants(c)
             /\ shown.rows \subseteq seen[c].rows \cup rows
             /\ call[c].op = "close" => stage # "close"
             /\ at[c] = "close" => <<"run_state">> \in rows
<1>2. /\ IsCall(call[c]) /\ IsSeen(seen[c])
      /\ at[c] \in {"require", "look_up", "take", "update", "insert"} => call[c].op = "write"
      /\ at[c] \in {"open", "kind_of", "insert_region"} => call[c].op = "declare"
      /\ at[c] = "empty" => call[c].op \in {"delete", "close"}
      /\ at[c] = "close" => call[c].op = "close"
      /\ at[c] = "read_progress" => call[c].op = "acknowledge"
  BY <1>1, StageOps
<1>3. /\ IsAnswer(Answer("raised", 0)) /\ IsAnswer(Answer("conflict", 0))
      /\ IsAnswer(Answer("again", 0))
  BY SilenceIsAnswer
<1>4. /\ \A n \in Nat : /\ IsSeen([seen[c] EXCEPT !.number = n])
                        /\ [seen[c] EXCEPT !.number = n].rows = seen[c].rows
      /\ \A n \in Nat : /\ IsSeen([seen[c] EXCEPT !.prior = n])
                        /\ [seen[c] EXCEPT !.prior = n].rows = seen[c].rows
  BY <1>2 DEF IsSeen
<1>5. ASSUME Require(c) PROVE Ends \/ \E stage, shown, rows : Goes(stage, shown, rows)
  <2>1. RollsBack(c, Answer("raised", 0)) \/ GoesOn(c, "look_up", seen[c], {})
    BY <1>5 DEF Require, GoesOn
  <2>2. call[c].op = "write" /\ "look_up" \in StagesOf("write") /\ at[c] # "close"
    BY <1>2, <1>5 DEF Require, Runs, StagesOf
  <2>3. GoesOn(c, "look_up", seen[c], {}) => Goes("look_up", seen[c], {})
    BY <1>2, <2>2
  <2> HIDE DEF Goes
  <2> QED
    BY <1>3, <2>1, <2>3
<1>6. ASSUME AlreadyWritten(c) PROVE Ends \/ \E stage, shown, rows : Goes(stage, shown, rows)
  <2>1. (KeyUsed(c) /\ RollsBack(c, Recognise(c))) \/ GoesOn(c, "take", seen[c], {})
    BY <1>6 DEF AlreadyWritten, GoesOn
  <2>2. call[c].op = "write" /\ "take" \in StagesOf("write") /\ at[c] # "close"
    BY <1>2, <1>6 DEF AlreadyWritten, Runs, StagesOf
  <2>3. GoesOn(c, "take", seen[c], {}) => Goes("take", seen[c], {})
    BY <1>2, <2>2
  <2>4. KeyUsed(c) => IsAnswer(Recognise(c))
    BY RecogniseIsAnswer
  <2> HIDE DEF Goes
  <2> QED
    BY <2>1, <2>3, <2>4
<1>7. ASSUME TakeSequence(c) PROVE Ends \/ \E stage, shown, rows : Goes(stage, shown, rows)
  <2> DEFINE stage == IF call[c].region \in Premises THEN "update" ELSE "insert"
             shown == [seen[c] EXCEPT !.number = counter]
  <2>1. /\ at[c] = "take"
        /\ \/ RollsBack(c, Answer("raised", 0))
           \/ counter # 0 /\ GoesOn(c, stage, shown, {<<"boards">>})
    BY <1>7 DEF TakeSequence, GoesOn, Runs
  <2>2. call[c].op = "write" /\ stage \in StagesOf("write")
    BY <1>2, <2>1 DEF StagesOf
  <2>3. counter # 0 => <<"boards">> \in Wants(c)
    BY <2>1, RowsAreThere DEF Wants
  <2>4. IsSeen(shown) /\ shown.rows = seen[c].rows
    BY <1>4 DEF TablesType
  <2> HIDE DEF stage, shown
  <2>5. counter # 0 /\ GoesOn(c, stage, shown, {<<"boards">>}) => Goes(stage, shown, {<<"boards">>})
    BY <2>1, <2>2, <2>3, <2>4
  <2> HIDE DEF Goes
  <2> QED
    BY <1>3, <2>1, <2>5
<1>8. ASSUME UpdatePremise(c) PROVE Ends \/ \E stage, shown, rows : Goes(stage, shown, rows)
  <2> DEFINE rows == {<<"premises", call[c].region>>}
  <2>1. /\ at[c] = "update"
        /\ \/ RollsBack(c, Answer("conflict", 0))
           \/ call[c].region \in DOMAIN versions /\ GoesOn(c, "insert", seen[c], rows)
    BY <1>8 DEF UpdatePremise, GoesOn, Runs
  <2>2. call[c].op = "write" /\ "insert" \in StagesOf("write")
    BY <1>2, <2>1 DEF StagesOf
  <2>3. call[c].region \in DOMAIN versions => rows \subseteq Wants(c)
    BY <2>1, RowsAreThere DEF Wants
  <2> HIDE DEF rows
  <2>4. call[c].region \in DOMAIN versions /\ GoesOn(c, "insert", seen[c], rows) =>
          Goes("insert", seen[c], rows)
    BY <1>2, <2>1, <2>2, <2>3
  <2> HIDE DEF Goes
  <2> QED
    BY <1>3, <2>1, <2>4
<1>9. ASSUME InsertContribution(c) PROVE Ends \/ \E stage, shown, rows : Goes(stage, shown, rows)
  <2>1. /\ at[c] = "insert"
        /\ RollsBack(c, Answer("raised", 0)) \/ GoesOn(c, "commit", seen[c], Wants(c))
    BY <1>9 DEF InsertContribution, GoesOn, Runs
  <2>2. call[c].op = "write" /\ "commit" \in StagesOf("write")
    BY <1>2, <2>1 DEF StagesOf
  <2>3. GoesOn(c, "commit", seen[c], Wants(c)) => Goes("commit", seen[c], Wants(c))
    BY <1>2, <2>1, <2>2
  <2> HIDE DEF Goes
  <2> QED
    BY <1>3, <2>1, <2>3
<1>10. ASSUME OpenBoard(c) PROVE Ends \/ \E stage, shown, rows : Goes(stage, shown, rows)
  <2> DEFINE shown == [seen[c] EXCEPT !.number = IF counter = 0 THEN 1 ELSE 0]
             rows == IF counter = 0 THEN {<<"boards">>} ELSE {}
  <2>1. at[c] = "open" /\ GoesOn(c, "kind_of", shown, rows)
    BY <1>10 DEF OpenBoard, GoesOn, Runs
  <2>2. call[c].op = "declare" /\ "kind_of" \in StagesOf("declare")
    BY <1>2, <2>1 DEF StagesOf
  <2>3. rows \subseteq Wants(c)
    BY <2>1 DEF Wants
  <2>4. IsSeen(shown) /\ shown.rows = seen[c].rows
    BY <1>4
  <2> HIDE DEF shown, rows
  <2>5. Goes("kind_of", shown, rows)
    BY <2>1, <2>2, <2>3, <2>4
  <2> HIDE DEF Goes
  <2> QED
    BY <2>5
<1>11. ASSUME KindOf(c) PROVE Ends \/ \E stage, shown, rows : Goes(stage, shown, rows)
  <2>1. RollsBack(c, Answer("raised", 0)) \/ GoesOn(c, "insert_region", seen[c], {})
    BY <1>11 DEF KindOf, GoesOn
  <2>2. call[c].op = "declare" /\ "insert_region" \in StagesOf("declare") /\ at[c] # "close"
    BY <1>2, <1>11 DEF KindOf, Runs, StagesOf
  <2>3. GoesOn(c, "insert_region", seen[c], {}) => Goes("insert_region", seen[c], {})
    BY <1>2, <2>2
  <2> HIDE DEF Goes
  <2> QED
    BY <1>3, <2>1, <2>3
<1>12. ASSUME InsertRegion(c) PROVE Ends \/ \E stage, shown, rows : Goes(stage, shown, rows)
  <2>1. /\ at[c] = "insert_region"
        /\ RollsBack(c, Answer("raised", 0)) \/ GoesOn(c, "commit", seen[c], Wants(c))
    BY <1>12 DEF InsertRegion, GoesOn, Runs
  <2>2. call[c].op = "declare" /\ "commit" \in StagesOf("declare")
    BY <1>2, <2>1 DEF StagesOf
  <2>3. GoesOn(c, "commit", seen[c], Wants(c)) => Goes("commit", seen[c], Wants(c))
    BY <1>2, <2>1, <2>2
  <2> HIDE DEF Goes
  <2> QED
    BY <1>3, <2>1, <2>3
<1>13. ASSUME EmptyTable(c) PROVE Ends \/ \E stage, shown, rows : Goes(stage, shown, rows)
  <2> DEFINE rows == RowsOf(Emptied(c))
             stage == IF seen[c].prior + 1 = Len(OrderOf(c)) THEN "commit" ELSE "empty"
             shown == [seen[c] EXCEPT !.rows = @ \cup rows, !.prior = @ + 1]
  <2>1. at[c] = "empty" /\ GoesOn(c, stage, shown, rows)
    BY <1>13 DEF EmptyTable, GoesOn, Runs
  <2>2. call[c].op \in {"delete", "close"} /\ stage \in StagesOf(call[c].op) /\ stage # "close"
    BY <1>2, <2>1 DEF StagesOf
  <2>3. rows = Wants(c)
    BY <2>1 DEF Wants
  <2>4. IsSeen(shown) /\ shown.rows = seen[c].rows \cup rows
    <3> HIDE DEF rows
    <3> QED
      BY <1>2 DEF IsSeen
  <2> HIDE DEF shown, rows, stage
  <2>5. Goes(stage, shown, rows)
    BY <2>1, <2>2, <2>3, <2>4
  <2> HIDE DEF Goes
  <2> QED
    BY <2>5
<1>14. ASSUME CloseRun(c) PROVE Ends \/ \E stage, shown, rows : Goes(stage, shown, rows)
  <2> DEFINE shown == [seen[c] EXCEPT !.number = run.era]
             rows == {<<"run_state">>}
  <2>1. /\ at[c] = "close"
        /\ \/ RollsBack(c, Answer("again", 0))
           \/ run.state = "open" /\ GoesOn(c, "empty", shown, rows)
    BY <1>14 DEF CloseRun, GoesOn, Runs
  <2>2. call[c].op = "close" /\ "empty" \in StagesOf("close")
    BY <1>2, <2>1 DEF StagesOf
  <2>3. run.state = "open" => rows \subseteq Wants(c)
    BY <2>1, RowsAreThere DEF Wants
  <2>4. IsSeen(shown) /\ shown.rows = seen[c].rows
    BY <1>4 DEF TablesType
  <2> HIDE DEF shown
  <2>5. run.state = "open" /\ GoesOn(c, "empty", shown, rows) => Goes("empty", shown, rows)
    BY <2>1, <2>2, <2>3, <2>4
  <2> HIDE DEF Goes, rows
  <2> QED
    BY <1>3, <2>1, <2>5
<1>15. ASSUME ReadProgress(c) PROVE Ends \/ \E stage, shown, rows : Goes(stage, shown, rows)
  <2> DEFINE shown == [seen[c] EXCEPT !.prior = progress[call[c].agent].acked]
  <2>1. /\ at[c] = "read_progress"
        /\ \/ RollsBack(c, Answer("raised", 0))
           \/ Answerable(c) /\ GoesOn(c, "commit", shown, Wants(c))
    BY <1>15 DEF ReadProgress, GoesOn, Runs
  <2>2. call[c].op = "acknowledge" /\ "commit" \in StagesOf("acknowledge")
    BY <1>2, <2>1 DEF StagesOf
  <2>3. Answerable(c) => progress[call[c].agent].acked \in Nat
    BY DEF Answerable, TablesType, Progress
  <2>4. Answerable(c) => IsSeen(shown) /\ shown.rows = seen[c].rows
    BY <1>4, <2>3
  <2> HIDE DEF shown
  <2>5. Answerable(c) /\ GoesOn(c, "commit", shown, Wants(c)) => Goes("commit", shown, Wants(c))
    BY <2>1, <2>2, <2>4
  <2> HIDE DEF Goes
  <2> QED
    BY <1>3, <2>1, <2>5
<1> HIDE DEF Ends, Goes
<1>16. Ends \/ \E stage, shown, rows : Goes(stage, shown, rows)
  BY <1>5, <1>6, <1>7, <1>8, <1>9, <1>10, <1>11, <1>12, <1>13, <1>14, <1>15 DEF Reads
<1> QED
  BY <1>1, <1>16 DEF Ends, Goes

LEMMA AskMoves ==
  ASSUME TypeInv, NEW c \in Callers, NEW request \in Requests, Ask(c, request)
  PROVE  /\ OthersStay(c) /\ at[c] = "idle" /\ call'[c] = request /\ IsCall(request)
         /\ at'[c] # "idle" /\ at'[c] = IF request.op = "write" THEN "require"
                      ELSE IF request.op = "declare" THEN "open"
                      ELSE IF request.op = "delete" THEN "empty"
                      ELSE IF request.op = "close" THEN "close" ELSE "read_progress"
         /\ seen' = seen /\ ~ overlapped /\ overlapped' = Overlaps(c, request)
         /\ held' = held /\ UNCHANGED tables /\ told' = Silence /\ CallsType'
<1> DEFINE first == CASE request.op = "write" -> "require" [] request.op = "declare" -> "open"
                      [] request.op = "delete" -> "empty" [] request.op = "close" -> "close"
                      [] request.op = "acknowledge" -> "read_progress"
<1>1. Begin(c, request, first, Overlaps(c, request)) /\ UNCHANGED held
  BY DEF Ask
<1>2. IsCall(request) /\ Overlaps(c, request) \in BOOLEAN
  BY RequestsAreCalls DEF Overlaps
<1>3. first # "idle" /\ first = IF request.op = "write" THEN "require"
                ELSE IF request.op = "declare" THEN "open"
                ELSE IF request.op = "delete" THEN "empty"
                ELSE IF request.op = "close" THEN "close" ELSE "read_progress"
  BY <1>2 DEF IsCall, Operations
<1> HIDE DEF first
<1> QED
  BY <1>1, <1>2, <1>3, BeginMoves, BeginKeepsCalls DEF TypeInv

\* A commit returns, and lets go of everything.
LEMMA CommitsReturn ==
  ASSUME TypeInv, NEW c \in Callers, Commits(c)
  PROVE  /\ at[c] = "commit" /\ IsCall(call[c]) /\ IsSeen(seen[c]) /\ LetsGo(c)
         /\ ReturnDeleted(c) \/ \E answer : IsAnswer(answer) /\ Return(c, answer)
         /\ at'[c] = "idle" /\ call'[c] = Blank /\ seen'[c] = Nothing /\ overlapped' = overlapped
         /\ held'[c] = {} /\ DOMAIN held' = Callers
         /\ \A d \in Callers \ {c} :
              /\ at'[d] = at[d] /\ seen'[d] = seen[d] /\ held'[d] = held[d]
              /\ call'[d].op = call[d].op /\ call'[d].region = call[d].region
              /\ call'[d].key = call[d].key /\ call'[d].expected = call[d].expected
              /\ call'[d].agent = call[d].agent /\ call'[d].through = call[d].through
<1> USE DEF TypeInv
<1>1. at[c] = "commit" /\ LetsGo(c)
  BY DEF Commits, CommitWrite, CommitDeclare, CommitDelete, CommitClose, CommitAck, Runs
<1>2. IsCall(call[c]) /\ IsSeen(seen[c]) /\ seen[c].number \in Nat
  BY <1>1, StageOps DEF IsSeen
<1>3. /\ IsAnswer(Answer("written", seen[c].number)) /\ IsAnswer(Answer("done", 0))
      /\ IsAnswer(AckAnswer(c, seen[c].prior))
  BY <1>2, SilenceIsAnswer, AckAnswerIsAnswer
<1>4. ReturnDeleted(c) \/ \E answer : IsAnswer(answer) /\ Return(c, answer)
  BY <1>3 DEF Commits, CommitWrite, CommitDeclare, CommitDelete, CommitClose, CommitAck
<1>5. /\ held'[c] = {} /\ DOMAIN held' = Callers
      /\ \A d \in Callers \ {c} : held'[d] = held[d]
  BY <1>1, HeldMoves DEF StageType
<1> QED
  BY <1>1, <1>2, <1>4, <1>5, ReturnMoves, ReturnDeletedMoves DEF OthersStay

LEMMA CommitsKeepTables ==
  ASSUME TypeInv, NEW c \in Callers, Commits(c)
  PROVE  TablesType'
<1> USE DEF TypeInv
<1>1. at[c] # "idle" /\ IsCall(call[c]) /\ seen[c].number \in Nat
  BY CommitsReturn DEF IsSeen
<1>2. ASSUME CommitWrite(c) PROVE TablesType'
  <2>1. call[c].op = "write" /\ counter' \in Nat /\ Record(c, seen[c].number)
    BY <1>1, <1>2 DEF CommitWrite
  <2> QED
    BY <1>1, <2>1, RecordKeepsTables
<1>3. ASSUME CommitDeclare(c) PROVE TablesType'
  <2>1. call[c].region \in Region /\ counter' \in Nat /\ AddRegion(call[c].region)
    BY <1>1, <1>3 DEF CommitDeclare, IsCall, TablesType
  <2> QED
    BY <2>1, AddRegionKeepsTables
<1>4. ASSUME CommitDelete(c) PROVE TablesType'
  BY <1>4, WithoutKeepsTables DEF CommitDelete
<1>5. ASSUME CommitClose(c) PROVE TablesType'
  <2>1. /\ UNCHANGED <<counter, regions, contributions, versions>>
        /\ run' = [run EXCEPT !.state = "closed"] /\ outbox' \subseteq outbox
        /\ DOMAIN progress' \subseteq DOMAIN progress
        /\ \A a \in DOMAIN progress' : progress'[a] = progress[a]
    BY <1>5 DEF CommitClose, Restrict
  <2> QED
    BY <2>1, RunKeepsTables
<1>6. ASSUME CommitAck(c) PROVE TablesType'
  <2>1. call[c].agent \in Agents /\ call[c].through \in Nat
    BY <1>1, <1>6 DEF CommitAck, IsCall
  <2> QED
    BY <1>6, <2>1, ProgressKeepsTables DEF CommitAck
<1> QED
  BY <1>2, <1>3, <1>4, <1>5, <1>6 DEF Commits

LEMMA TypeInit == Init => TypeInv
<1> SUFFICES ASSUME Init PROVE TypeInv
  OBVIOUS
<1>1. TablesType
  <2>1. DOMAIN <<>> = {}
    OBVIOUS
  <2> QED
    BY <2>1 DEF Init, SharedInit, TablesType, NoRun, Progress
<1>2. CallsType
  BY SilenceIsAnswer DEF Init, SharedInit, CallsType, Nothing, IsSeen
<1>3. StageType
  BY DEF Init, SharedInit, StageType
<1> QED
  BY <1>1, <1>2, <1>3 DEF TypeInv

LEMMA TypeStep == TypeInv /\ [Next]_vars => TypeInv'
<1> SUFFICES ASSUME TypeInv, [Next]_vars PROVE TypeInv'
  OBVIOUS
<1>1. ASSUME NEW c \in Callers, Reads(c) PROVE TypeInv'
  <2>1. ASSUME NEW answer, IsAnswer(answer), RollsBack(c, answer) PROVE TypeInv'
    BY <2>1, RollsBackKeepsType
  <2>2. ASSUME NEW stage, NEW shown, NEW rows, GoesOn(c, stage, shown, rows),
               stage \in StagesOf(call[c].op), IsSeen(shown)
        PROVE  TypeInv'
    <3>1. TablesType' /\ DOMAIN held' = Callers /\ Proceed(c, stage, shown)
      BY <2>2, HeldMoves DEF GoesOn, tables, TypeInv, TablesType, StageType
    <3> QED
      BY <1>1, <2>2, <3>1, ReadsGoOn, ProceedKeepsType
  <2> QED
    BY <1>1, <2>1, <2>2, ReadsGoOn
<1>2. ASSUME NEW c \in Callers, Commits(c) PROVE TypeInv'
  <2>1. /\ DOMAIN held' = Callers /\ TablesType' /\ at'[c] = "idle" /\ seen'[c] = Nothing
        /\ ReturnDeleted(c) \/ \E answer : IsAnswer(answer) /\ Return(c, answer)
        /\ \A d \in Callers \ {c} :
             at'[d] = at[d] /\ seen'[d] = seen[d] /\ call'[d].op = call[d].op
    BY <1>2, CommitsReturn, CommitsKeepTables
  <2>2. CallsType'
    BY <2>1, ReturnKeepsCalls, ReturnDeletedKeepsCalls DEF TypeInv
  <2>3. StageType'
    BY <2>1 DEF TypeInv, StageType
  <2> QED
    BY <2>1, <2>2, <2>3 DEF TypeInv
<1>3. ASSUME NEW c \in Callers, DeadlockVictim(c) PROVE TypeInv'
  BY <1>3, SilenceIsAnswer, RollsBackKeepsType DEF DeadlockVictim
<1>4. ASSUME NEW c \in Callers, ConnectionLost(c) PROVE TypeInv'
  <2>1. RollsBack(c, Silence)
    BY <1>4 DEF ConnectionLost, Stops, RollsBack
  <2> QED
    BY <2>1, SilenceIsAnswer, RollsBackKeepsType
<1>5. ASSUME NEW c \in Callers, NEW request \in Requests, Ask(c, request) PROVE TypeInv'
  <2>1. /\ OthersStay(c) /\ call'[c] = request /\ IsCall(request) /\ held' = held
        /\ at'[c] # "idle" /\ at'[c] = IF request.op = "write" THEN "require"
                     ELSE IF request.op = "declare" THEN "open"
                     ELSE IF request.op = "delete" THEN "empty"
                     ELSE IF request.op = "close" THEN "close" ELSE "read_progress"
        /\ UNCHANGED tables /\ CallsType'
    BY <1>5, AskMoves
  <2>2. at'[c] \in StagesOf(request.op)
    BY <2>1 DEF IsCall, Operations, StagesOf
  <2>3. StageType' /\ TablesType'
    BY <2>1, <2>2 DEF TypeInv, StageType, OthersStay, tables, TablesType
  <2> QED
    BY <2>1, <2>3 DEF TypeInv
<1>6. ASSUME AtOnceStep PROVE TypeInv'
  <2>1. AtOnce /\ held' = held
    BY <1>6 DEF AtOnceStep, OpenRun, DeclareAgent, MarkNotified, MarkSent
  <2>2. ASSUME OpenRun PROVE TablesType'
    <3>1. /\ UNCHANGED <<counter, regions, contributions, versions>> /\ run' = Opened
          /\ progress' = progress /\ outbox' = outbox
      BY <2>2 DEF OpenRun
    <3> QED
      BY <3>1, RunKeepsTables DEF TypeInv
  <2>3. ASSUME NEW a \in Agents, NEW n \in Nat, DeclareAgent(a) \/ MarkNotified(a, n)
        PROVE  TablesType'
    <3>1. /\ progress' = Declared(a) \/ progress' = Notified(a, n)
          /\ UNCHANGED <<counter, regions, contributions, versions, run, outbox>>
      BY <2>3 DEF DeclareAgent, MarkNotified
    <3> QED
      BY <3>1, ProgressKeepsTables DEF TypeInv
  <2>4. ASSUME NEW a \in Agents, NEW n \in Nat, MarkSent(a, n) PROVE TablesType'
    <3>1. /\ UNCHANGED <<counter, regions, contributions, versions>> /\ run' = run
          /\ progress' = progress /\ outbox' \subseteq outbox
      BY <2>4 DEF MarkSent, Marked
    <3> QED
      BY <3>1, RunKeepsTables DEF TypeInv
  <2>5. \A n \in Numbers : n \in Nat
    BY DEF Numbers
  <2>6. TablesType'
    BY <1>6, <2>2, <2>3, <2>4, <2>5 DEF AtOnceStep
  <2> QED
    BY <2>1, <2>6, AtOnceKeepsType
<1>7. ASSUME UNCHANGED vars PROVE TypeInv'
  BY <1>7 DEF vars, shared, tables, calls, TypeInv, TablesType, CallsType, StageType
<1> QED
  BY <1>1, <1>2, <1>3, <1>4, <1>5, <1>6, <1>7, StepsOfNext

\* Rows are held by one transaction at a time.
LEMMA LocksStep == TypeInv /\ LocksInv /\ [Next]_vars => LocksInv'
<1> SUFFICES ASSUME TypeInv, LocksInv, [Next]_vars PROVE LocksInv'
  OBVIOUS
<1>0. DOMAIN held = Callers /\ CallsType
  BY DEF TypeInv, StageType
<1>1. ASSUME NEW c \in Callers, at'[c] = "idle", held'[c] = {}, seen'[c] = Nothing,
             \A d \in Callers \ {c} : at'[d] = at[d] /\ seen'[d] = seen[d] /\ held'[d] = held[d]
                                       /\ call'[d].op = call[d].op
      PROVE  LocksInv'
  <2>1. Nothing.rows = {}
    BY DEF Nothing
  <2>2. HeldApart'
    BY <1>1 DEF LocksInv, HeldApart
  <2>3. SeenHeld'
    BY <1>1, <2>1 DEF LocksInv, SeenHeld
  <2>4. ClosersHold'
    BY <1>1 DEF LocksInv, ClosersHold, Won
  <2> QED
    BY <2>2, <2>3, <2>4 DEF LocksInv
<1>2. ASSUME NEW c \in Callers, NEW answer, RollsBack(c, answer) PROVE LocksInv'
  <2>1. OthersStay(c) /\ at'[c] = "idle" /\ seen'[c] = Nothing
    BY <1>0, <1>2, ReturnMoves DEF RollsBack
  <2>2. held'[c] = {} /\ \A d \in Callers \ {c} : held'[d] = held[d]
    BY <1>0, <1>2, HeldMoves DEF RollsBack
  <2> QED
    BY <1>1, <2>1, <2>2 DEF OthersStay
<1>3. ASSUME NEW c \in Callers, Reads(c) PROVE LocksInv'
  <2>1. ASSUME NEW stage, NEW shown, NEW rows, GoesOn(c, stage, shown, rows),
               stage \in StagesOf(call[c].op), rows \subseteq Wants(c),
               shown.rows \subseteq seen[c].rows \cup rows,
               \A d \in Callers : ~ WaitsFor(c, d),
               call[c].op = "close" => stage # "close",
               at[c] = "close" => <<"run_state">> \in rows
        PROVE  LocksInv'
    <3>1. OthersStay(c) /\ call' = call /\ seen'[c] = shown
      BY <1>0, <2>1, ProceedMoves DEF GoesOn
    <3>2. held'[c] = held[c] \cup rows /\ \A d \in Callers \ {c} : held'[d] = held[d]
      BY <1>0, <2>1, HeldMoves DEF GoesOn
    <3>3. \A d \in Callers \ {c} : \A row \in rows : row \notin held[d]
      BY <2>1 DEF WaitsFor
    <3>4. HeldApart'
      BY <3>2, <3>3 DEF LocksInv, HeldApart
    <3>5. SeenHeld'
      BY <2>1, <3>1, <3>2 DEF LocksInv, SeenHeld, OthersStay
    <3>6. at[c] # "idle"
      BY <1>3, ReadsGoOn
    <3>7. ClosersHold'
      BY <2>1, <3>1, <3>2, <3>6 DEF LocksInv, ClosersHold, Won, OthersStay
    <3> QED
      BY <3>4, <3>5, <3>7 DEF LocksInv
  <2> QED
    BY <1>2, <1>3, <2>1, ReadsGoOn
<1>4. ASSUME NEW c \in Callers, Commits(c) PROVE LocksInv'
  BY <1>1, <1>4, CommitsReturn
<1>5. ASSUME NEW c \in Callers, DeadlockVictim(c) \/ ConnectionLost(c) PROVE LocksInv'
  BY <1>2, <1>5 DEF DeadlockVictim, ConnectionLost, Stops, RollsBack
<1>6. ASSUME NEW c \in Callers, NEW request \in Requests, Ask(c, request) PROVE LocksInv'
  <2>1. /\ OthersStay(c) /\ call'[c] = request /\ held' = held /\ seen' = seen
        /\ request.op = "close" => at'[c] = "close"
    BY <1>6, AskMoves
  <2> QED
    BY <2>1 DEF LocksInv, HeldApart, SeenHeld, ClosersHold, Won, OthersStay
<1>7. ASSUME UNCHANGED <<call, at, seen, held>> PROVE LocksInv'
  BY <1>7 DEF LocksInv, HeldApart, SeenHeld, ClosersHold, Won
<1>8. ASSUME AtOnceStep PROVE LocksInv'
  BY <1>7, <1>8 DEF AtOnceStep, OpenRun, DeclareAgent, MarkNotified, MarkSent, AtOnce
<1>9. ASSUME UNCHANGED vars PROVE LocksInv'
  BY <1>7, <1>9 DEF vars, shared, calls
<1> QED
  BY <1>3, <1>4, <1>5, <1>6, <1>8, <1>9, StepsOfNext

\* Whoever ends a cycle of waits is waiting.
LEMMA VictimsWait ==
  ASSUME NEW c, DeadlockVictim(c)
  PROVE  \E d : WaitsFor(c, d)
<1>1. PICK n \in 1..Cardinality(Callers) : \E cycle \in [0..n -> Callers] :
        cycle[0] = c /\ \A i \in 1..n : WaitsFor(cycle[i - 1], cycle[i])
  BY DEF DeadlockVictim, Deadlocked
<1>2. PICK cycle : cycle[0] = c /\ \A i \in 1..n : WaitsFor(cycle[i - 1], cycle[i])
  BY <1>1
<1>3. 1 \in 1..n /\ 1 - 1 = 0
  OBVIOUS
<1>4. WaitsFor(cycle[0], cycle[1])
  BY <1>2, <1>3
<1> QED
  BY <1>2, <1>4

-----------------------------------------------------------------------------
(* What the statements of a call have found stands to its commit.          *)

\* Nothing is asked, so nothing is found.
LEMMA IdleFound ==
  ASSUME NEW c, call[c] = Blank
  PROVE  Found(c)
<1>1. call[c].op = "none"
  BY DEF Blank
<1> QED
  BY <1>1 DEF Found, WriteFound, DeclareFound, DeleteFound, AckFound

LEMMA IdleFoundNext ==
  ASSUME NEW c, call'[c] = Blank
  PROVE  Found(c)'
<1>1. call'[c].op = "none"
  BY DEF Blank
<1> QED
  BY <1>1 DEF Found, WriteFound, DeclareFound, DeleteFound, AckFound

LEMMA SameFound ==
  ASSUME NEW d, Found(d), UNCHANGED <<counter, regions, contributions, versions, progress>>,
         at'[d] = at[d], call'[d] = call[d], seen'[d] = seen[d], held'[d] = held[d]
  PROVE  Found(d)'
<1>1. WriteFound(d)' /\ DeclareFound(d)' /\ AckFound(d)'
  BY DEF Found, WriteFound, DeclareFound, AckFound, KeyUsed, Answerable
<1>2. /\ RowsOf("contributions")' = RowsOf("contributions")
      /\ RowsOf("premises")' = RowsOf("premises")
      /\ RowsOf("regions")' = RowsOf("regions") /\ RowsOf("boards")' = RowsOf("boards")
  BY DEF RowsOf
<1>3. DeleteFound(d)'
  BY <1>2 DEF Found, DeleteFound
<1> QED
  BY <1>1, <1>3 DEF Found

\* What a statement that goes on has left of its caller.
LEMMA GoesOnMoves ==
  ASSUME TypeInv, NEW c \in Callers, NEW stage, NEW shown, NEW rows, GoesOn(c, stage, shown, rows)
  PROVE  /\ OthersStay(c) /\ at'[c] = stage /\ call' = call /\ seen'[c] = shown
         /\ told' = Silence /\ overlapped' = overlapped /\ held'[c] = held[c] \cup rows
         /\ \A d \in Callers \ {c} : held'[d] = held[d]
         /\ UNCHANGED <<counter, regions, contributions, versions, run, progress, outbox>>
<1>1. DOMAIN held = Callers /\ CallsType
  BY DEF TypeInv, StageType
<1>2. held'[c] = held[c] \cup rows /\ \A d \in Callers \ {c} : held'[d] = held[d]
  BY <1>1, HeldMoves DEF GoesOn
<1> QED
  BY <1>1, <1>2, ProceedMoves DEF GoesOn, tables

LEMMA RollsBackMoves ==
  ASSUME TypeInv, NEW c \in Callers, NEW answer, RollsBack(c, answer)
  PROVE  /\ OthersStay(c) /\ at'[c] = "idle" /\ call'[c] = Blank /\ seen'[c] = Nothing
         /\ told' = answer /\ overlapped' = overlapped
         /\ \A d \in Callers \ {c} : held'[d] = held[d]
         /\ UNCHANGED <<counter, regions, contributions, versions, run, progress, outbox>>
<1>1. DOMAIN held = Callers /\ CallsType
  BY DEF TypeInv, StageType
<1>2. \A d \in Callers \ {c} : held'[d] = held[d]
  BY <1>1, HeldMoves DEF RollsBack
<1> QED
  BY <1>1, <1>2, ReturnMoves DEF RollsBack, tables

\* append and set.
LEMMA WritesFind ==
  ASSUME TypeInv, LandedInv, NEW c \in Callers, Found(c), at'[c] # "idle",
         Require(c) \/ AlreadyWritten(c) \/ TakeSequence(c) \/ UpdatePremise(c)
           \/ InsertContribution(c)
  PROVE  Found(c)'
<1>1. /\ at[c] # "idle" /\ at[c] \in {"require", "look_up", "take", "update", "insert"}
  BY DEF Require, AlreadyWritten, TakeSequence, UpdatePremise, InsertContribution, Runs
<1>2. IsSeen(seen[c]) /\ call[c].op = "write"
  BY <1>1, StageOps
<1>3. WriteFound(c)
  BY DEF Found
<1>4. \A answer : ~ RollsBack(c, answer)
  BY RollsBackMoves
<1>5. CASE Require(c)
  <2>1. at[c] = "require" /\ call[c].region \in regions /\ GoesOn(c, "look_up", seen[c], {})
    BY <1>4, <1>5 DEF Require, Runs, GoesOn
  <2>2. /\ at'[c] = "look_up" /\ call' = call /\ regions' = regions
    BY <2>1, GoesOnMoves
  <2> QED
    BY <1>2, <2>1, <2>2 DEF Found, WriteFound, DeclareFound, DeleteFound, AckFound
<1>6. CASE AlreadyWritten(c)
  <2>1. at[c] = "look_up" /\ ~ KeyUsed(c) /\ GoesOn(c, "take", seen[c], {})
    BY <1>4, <1>6 DEF AlreadyWritten, Runs, GoesOn
  <2>2. at'[c] = "take" /\ call' = call /\ regions' = regions
    BY <2>1, GoesOnMoves
  <2>3. ~ call[c].landed
    BY <2>1 DEF LandedInv, KeyUsed
  <2>4. call[c].region \in regions
    BY <1>2, <1>3, <2>1 DEF WriteFound
  <2> QED
    BY <1>2, <2>2, <2>3, <2>4 DEF Found, WriteFound, DeclareFound, DeleteFound, AckFound
<1>7. CASE TakeSequence(c)
  <2> DEFINE stage == IF call[c].region \in Premises THEN "update" ELSE "insert"
             shown == [seen[c] EXCEPT !.number = counter]
  <2>1. at[c] = "take" /\ counter # 0 /\ GoesOn(c, stage, shown, {<<"boards">>})
    BY <1>4, <1>7 DEF TakeSequence, Runs, GoesOn
  <2>2. shown.number = counter
    BY <1>2 DEF IsSeen
  <2>3. /\ at'[c] = stage /\ call' = call /\ seen'[c] = shown /\ <<"boards">> \in held'[c]
        /\ counter' = counter /\ regions' = regions
    BY <2>1, GoesOnMoves
  <2>4. call[c].region \in regions /\ ~ call[c].landed
    BY <1>2, <1>3, <2>1 DEF WriteFound
  <2>5. stage \in {"update", "insert"} /\ (stage = "insert" => call[c].region \notin Premises)
    OBVIOUS
  <2> HIDE DEF stage, shown
  <2> QED
    BY <1>2, <2>1, <2>2, <2>3, <2>4, <2>5 DEF Found, WriteFound, DeclareFound, DeleteFound, AckFound
<1>8. CASE UpdatePremise(c)
  <2>1. /\ at[c] = "update" /\ call[c].region \in DOMAIN versions
        /\ versions[call[c].region] = call[c].expected
        /\ GoesOn(c, "insert", seen[c], {<<"premises", call[c].region>>})
    BY <1>4, <1>8 DEF UpdatePremise, Runs, GoesOn
  <2>2. /\ at'[c] = "insert" /\ call' = call /\ seen'[c] = seen[c] /\ held[c] \subseteq held'[c]
        /\ <<"premises", call[c].region>> \in held'[c]
        /\ UNCHANGED <<counter, regions, versions>>
    BY <2>1, GoesOnMoves
  <2>3. /\ call[c].region \in regions /\ <<"boards">> \in held[c] /\ counter # 0
        /\ seen[c].number = counter /\ ~ call[c].landed
    BY <1>2, <1>3, <2>1 DEF WriteFound
  <2> QED
    BY <1>2, <2>1, <2>2, <2>3 DEF Found, WriteFound, DeclareFound, DeleteFound, AckFound
<1>9. CASE InsertContribution(c)
  <2>1. at[c] = "insert" /\ ~ KeyUsed(c) /\ GoesOn(c, "commit", seen[c], Wants(c))
    BY <1>4, <1>9 DEF InsertContribution, Runs, GoesOn
  <2>2. KeyRows(call[c].key) \subseteq Wants(c)
    BY <2>1 DEF Wants
  <2>3. /\ at'[c] = "commit" /\ call' = call /\ seen'[c] = seen[c]
        /\ held'[c] = held[c] \cup Wants(c)
        /\ UNCHANGED <<counter, regions, versions, contributions>>
    BY <2>1, GoesOnMoves
  <2>4. KeyRows(call[c].key)' \subseteq held'[c] /\ ~ KeyUsed(c)'
    BY <2>1, <2>2, <2>3 DEF KeyRows, KeyUsed
  <2>5. /\ call[c].region \in regions /\ <<"boards">> \in held[c] /\ counter # 0
        /\ seen[c].number = counter /\ ~ call[c].landed
        /\ call[c].region \in Premises =>
             /\ <<"premises", call[c].region>> \in held[c] /\ call[c].region \in DOMAIN versions
             /\ versions[call[c].region] = call[c].expected
    BY <1>2, <1>3, <2>1 DEF WriteFound
  <2> QED
    BY <1>2, <2>3, <2>4, <2>5 DEF Found, WriteFound, DeclareFound, DeleteFound, AckFound
<1> QED
  BY <1>5, <1>6, <1>7, <1>8, <1>9

\* declare.
LEMMA DeclaresFind ==
  ASSUME TypeInv, NEW c \in Callers, Found(c), at'[c] # "idle",
         OpenBoard(c) \/ KindOf(c) \/ InsertRegion(c)
  PROVE  Found(c)'
<1>1. at[c] # "idle" /\ at[c] \in {"open", "kind_of", "insert_region"}
  BY DEF OpenBoard, KindOf, InsertRegion, Runs
<1>2. IsSeen(seen[c]) /\ call[c].op = "declare"
  BY <1>1, StageOps
<1>3. DeclareFound(c)
  BY DEF Found
<1>4. \A answer : ~ RollsBack(c, answer)
  BY RollsBackMoves
<1>5. CASE OpenBoard(c)
  <2> DEFINE shown == [seen[c] EXCEPT !.number = IF counter = 0 THEN 1 ELSE 0]
             rows == IF counter = 0 THEN {<<"boards">>} ELSE {}
  <2>1. GoesOn(c, "kind_of", shown, rows)
    BY <1>5 DEF OpenBoard, GoesOn
  <2>2. shown.number = 1 => counter = 0 /\ <<"boards">> \in rows
    BY <1>2 DEF IsSeen
  <2> HIDE DEF shown, rows
  <2>3. /\ at'[c] = "kind_of" /\ call' = call /\ seen'[c] = shown
        /\ held'[c] = held[c] \cup rows /\ counter' = counter
    BY <2>1, GoesOnMoves
  <2> QED
    BY <1>2, <2>2, <2>3 DEF Found, WriteFound, DeclareFound, DeleteFound, AckFound
<1>6. CASE KindOf(c)
  <2>1. at[c] = "kind_of" /\ GoesOn(c, "insert_region", seen[c], {})
    BY <1>4, <1>6 DEF KindOf, Runs, GoesOn
  <2>2. /\ at'[c] = "insert_region" /\ call' = call /\ seen'[c] = seen[c]
        /\ held[c] \subseteq held'[c] /\ counter' = counter
    BY <2>1, GoesOnMoves
  <2> QED
    BY <1>2, <1>3, <2>1, <2>2 DEF Found, WriteFound, DeclareFound, DeleteFound, AckFound
<1>7. CASE InsertRegion(c)
  <2>1. /\ at[c] = "insert_region" /\ call[c].region \notin regions \cup DOMAIN versions
        /\ GoesOn(c, "commit", seen[c], Wants(c))
    BY <1>4, <1>7 DEF InsertRegion, Runs, GoesOn
  <2>2. <<"regions", call[c].region>> \in Wants(c) /\ <<"premises", call[c].region>> \in Wants(c)
    BY <2>1 DEF Wants
  <2>3. /\ at'[c] = "commit" /\ call' = call /\ seen'[c] = seen[c]
        /\ held'[c] = held[c] \cup Wants(c) /\ UNCHANGED <<counter, regions, versions>>
    BY <2>1, GoesOnMoves
  <2> QED
    BY <1>2, <1>3, <2>1, <2>2, <2>3 DEF Found, WriteFound, DeclareFound, DeleteFound, AckFound
<1> QED
  BY <1>5, <1>6, <1>7

\* delete, close_run and acknowledge.
LEMMA DeletesFind ==
  ASSUME TypeInv, NEW c \in Callers, Found(c), EmptyTable(c), call[c].op = "delete"
  PROVE  Found(c)'
<1> DEFINE rows == RowsOf(Emptied(c))
           stage == IF seen[c].prior + 1 = Len(OrderOf(c)) THEN "commit" ELSE "empty"
           shown == [seen[c] EXCEPT !.rows = @ \cup rows, !.prior = @ + 1]
<1>1. at[c] = "empty" /\ GoesOn(c, stage, shown, rows)
  BY DEF EmptyTable, GoesOn, Runs
<1>2. IsSeen(seen[c])
  BY <1>1, StageOps
<1>3. /\ shown.rows = seen[c].rows \cup rows /\ shown.prior = seen[c].prior + 1
      /\ seen[c].prior \in Nat
  <2> HIDE DEF rows
  <2> QED
    BY <1>2 DEF IsSeen
<1>4. /\ seen[c].prior = 0 => rows = RowsOf("contributions")
      /\ seen[c].prior = 1 => rows = RowsOf("premises")
      /\ seen[c].prior = 2 => rows = RowsOf("regions")
      /\ seen[c].prior = 6 => rows = RowsOf("boards")
  <2>1. /\ DeleteOrder[1] = "contributions" /\ DeleteOrder[2] = "premises"
        /\ DeleteOrder[3] = "regions" /\ DeleteOrder[7] = "boards"
    BY DEF DeleteOrder
  <2>2. Emptied(c) = DeleteOrder[seen[c].prior + 1]
    BY DEF Emptied, OrderOf
  <2> HIDE DEF shown, stage
  <2> QED
    BY <2>1, <2>2
<1>5. stage = "commit" => seen[c].prior + 1 = 7
  BY DEF OrderOf, DeleteOrder
<1> HIDE DEF rows, stage, shown
<1>6. /\ at'[c] = stage /\ call' = call /\ seen'[c] = shown
      /\ UNCHANGED <<counter, regions, contributions, versions>>
  BY <1>1, GoesOnMoves
<1>7. /\ RowsOf("contributions")' = RowsOf("contributions")
      /\ RowsOf("premises")' = RowsOf("premises")
      /\ RowsOf("regions")' = RowsOf("regions") /\ RowsOf("boards")' = RowsOf("boards")
  BY <1>6 DEF RowsOf
<1>8. DeleteFound(c)
  BY DEF Found
<1>9. DeleteFound(c)'
  BY <1>3, <1>4, <1>5, <1>6, <1>7, <1>8 DEF DeleteFound
<1> QED
  BY <1>6, <1>9 DEF Found, WriteFound, DeclareFound, AckFound

LEMMA AcksFind ==
  ASSUME TypeInv, NEW c \in Callers, at'[c] # "idle", ReadProgress(c)
  PROVE  Found(c)'
<1> DEFINE shown == [seen[c] EXCEPT !.prior = progress[call[c].agent].acked]
<1>1. \A answer : ~ RollsBack(c, answer)
  BY RollsBackMoves
<1>2. at[c] = "read_progress" /\ Answerable(c) /\ GoesOn(c, "commit", shown, Wants(c))
  BY <1>1 DEF ReadProgress, Runs, GoesOn
<1>3. IsSeen(seen[c]) /\ call[c].op = "acknowledge"
  BY <1>2, StageOps
<1>4. shown.prior = progress[call[c].agent].acked
  BY <1>3 DEF IsSeen
<1>5. <<"agent_progress", call[c].agent>> \in Wants(c)
  BY <1>2, RowsAreThere DEF Wants, Answerable
<1> HIDE DEF shown
<1>6. /\ call' = call /\ seen'[c] = shown /\ held'[c] = held[c] \cup Wants(c)
      /\ progress' = progress
  BY <1>2, GoesOnMoves
<1> QED
  BY <1>2, <1>3, <1>4, <1>5, <1>6
  DEF Found, WriteFound, DeclareFound, DeleteFound, AckFound, Answerable

LEMMA ReadsFind ==
  ASSUME TypeInv, LandedInv, NEW c \in Callers, Found(c), Reads(c)
  PROVE  Found(c)'
<1>1. at[c] # "idle"
  BY ReadsGoOn
<1>2. CASE at'[c] = "idle"
  <2>1. call'[c] = Blank
    <3>1. ASSUME NEW answer, RollsBack(c, answer) PROVE call'[c] = Blank
      BY <3>1, RollsBackMoves
    <3>2. ASSUME NEW stage, NEW shown, NEW rows, GoesOn(c, stage, shown, rows),
                 stage \in StagesOf(call[c].op)
          PROVE  FALSE
      <4>1. at'[c] = stage
        BY <3>2, GoesOnMoves
      <4>2. call[c].op \in Operations
        BY <1>1, StageOps DEF IsCall
      <4> QED
        BY <1>2, <3>2, <4>1, <4>2, StagesAreBusy
    <3> QED
      BY <3>1, <3>2, ReadsGoOn
  <2> QED
    BY <2>1, IdleFoundNext
<1>3. CASE at'[c] # "idle"
  <2>1. ASSUME call[c].op = "close", at[c] \in {"close", "empty"} PROVE Found(c)'
    <3>1. call' = call
      <4>1. ASSUME NEW answer, RollsBack(c, answer) PROVE FALSE
        BY <1>3, <4>1, RollsBackMoves
      <4>2. ASSUME NEW stage, NEW shown, NEW rows, GoesOn(c, stage, shown, rows)
            PROVE  call' = call
        BY <4>2, GoesOnMoves
      <4> QED
        BY <4>1, <4>2, ReadsGoOn
    <3> QED
      BY <2>1, <3>1 DEF Found, WriteFound, DeclareFound, DeleteFound, AckFound
  <2>2. ASSUME CloseRun(c) PROVE Found(c)'
    BY <1>1, <2>1, <2>2, StageOps DEF CloseRun, Runs
  <2>3. ASSUME EmptyTable(c) PROVE Found(c)'
    BY <1>1, <2>1, <2>3, StageOps, DeletesFind DEF EmptyTable, Runs
  <2> QED
    BY <1>3, <2>2, <2>3, WritesFind, DeclaresFind, AcksFind DEF Reads
<1> QED
  BY <1>2, <1>3

\* A step that changes no table leaves what the others have found.
LEMMA ReadsKeepOrder ==
  ASSUME TypeInv, LandedInv, OrderedInv, NEW c \in Callers,
         Reads(c) \/ DeadlockVictim(c) \/ ConnectionLost(c)
  PROVE  OrderedInv'
<1> DEFINE Left ==
             /\ at[c] # "idle" /\ OthersStay(c) /\ (at'[c] # "idle" => call'[c] = call[c])
             /\ \A d \in Callers \ {c} : held'[d] = held[d]
             /\ UNCHANGED <<counter, regions, contributions, versions, progress>>
             /\ Reads(c) \/ call'[c] = Blank
<1>1. Left
  <2>1. ASSUME NEW answer, RollsBack(c, answer), at[c] # "idle" PROVE Left
    BY <2>1, RollsBackMoves
  <2>2. ASSUME Reads(c), NEW stage, NEW shown, NEW rows, GoesOn(c, stage, shown, rows) PROVE Left
    BY <2>2, GoesOnMoves, ReadsGoOn
  <2>3. ASSUME ConnectionLost(c) PROVE Left
    BY <2>1, <2>3 DEF ConnectionLost, Stops, RollsBack
  <2>4. ASSUME DeadlockVictim(c) PROVE Left
    <3>1. at[c] # "idle"
      <4>1. \E d : WaitsFor(c, d)
        BY <2>4, VictimsWait
      <4> QED
        BY <4>1 DEF WaitsFor, Wants
    <3> QED
      BY <2>1, <2>4, <3>1 DEF DeadlockVictim
  <2> HIDE DEF Left
  <2> QED
    BY <2>1, <2>2, <2>3, <2>4, ReadsGoOn
<1>2. RecordInv' /\ CounterInv' /\ AnsweredInv'
  BY <1>1, SameRecord DEF OrderedInv, CounterInv, AnsweredInv, Written
<1>3. Alone'
  BY <1>1 DEF OrderedInv, Alone, OthersStay
<1>4. Found(c)'
  BY <1>1, ReadsFind, IdleFoundNext DEF OrderedInv
<1>5. \A d \in Callers \ {c} : Found(d)'
  BY <1>1, SameFound DEF OrderedInv, OthersStay
<1> QED
  BY <1>2, <1>3, <1>4, <1>5 DEF OrderedInv

\* Beside a call that runs, no deletion does.
LEMMA NoDeletionBeside ==
  ASSUME TypeInv, Alone, NEW c \in Callers, NEW d \in Callers, c # d, at[c] # "idle",
         call[d].op = "delete"
  PROVE  FALSE
<1>1. at[d] # "idle"
  BY DEF TypeInv, CallsType, Blank
<1> QED
  BY <1>1 DEF Alone

\* The rows of another transaction are not the caller's.
LEMMA HeldByOne ==
  ASSUME HeldApart, NEW c \in Callers, NEW d \in Callers, c # d, NEW row, row \in held[c]
  PROVE  row \notin held[d]
  BY DEF HeldApart

\* A commit leaves the other calls alone, and no deletion beside another.
LEMMA CommitsKeepAlone ==
  ASSUME TypeInv, Alone, NEW c \in Callers, Commits(c)
  PROVE  Alone'
<1>1. /\ at'[c] = "idle"
      /\ \A d \in Callers \ {c} : at'[d] = at[d] /\ call'[d].op = call[d].op
  BY CommitsReturn
<1> QED
  BY <1>1 DEF Alone

\* The commits that are followed by no deletion leave the others' calls as they are.
LEMMA CommitsStay ==
  ASSUME TypeInv, NEW c \in Callers, Commits(c), ~ CommitDelete(c)
  PROVE  OthersStay(c)
<1>1. \E answer : Return(c, answer)
  BY DEF Commits, CommitWrite, CommitDeclare, CommitClose, CommitAck
<1> QED
  BY <1>1, ReturnMoves DEF TypeInv

LEMMA WriteStands ==
  ASSUME TypeInv, OrderedInv, NEW c \in Callers, CommitWrite(c)
  PROVE  /\ IsCall(call[c]) /\ call[c].op = "write" /\ call[c].region \in Region
         /\ seen[c].number = counter /\ counter = Written + 1 /\ counter' = counter + 1
         /\ ~ KeyUsed(c) /\ Record(c, Written + 1) /\ call[c].region \in regions
         /\ ~ call[c].landed /\ <<"boards">> \in held[c] /\ KeyRows(call[c].key) \subseteq held[c]
         /\ call[c].region \in Premises =>
              /\ call[c].region \in DOMAIN versions
              /\ versions[call[c].region] = call[c].expected
              /\ <<"premises", call[c].region>> \in held[c]
<1>1. /\ at[c] = "commit" /\ call[c].op = "write" /\ counter' = seen[c].number + 1
      /\ Record(c, seen[c].number)
  BY DEF CommitWrite, Runs
<1>2. WriteFound(c) /\ CounterInv
  BY DEF OrderedInv, Found
<1>3. /\ seen[c].number = counter /\ counter # 0 /\ ~ KeyUsed(c) /\ call[c].region \in regions
      /\ ~ call[c].landed /\ <<"boards">> \in held[c] /\ KeyRows(call[c].key) \subseteq held[c]
      /\ call[c].region \in Premises =>
           /\ call[c].region \in DOMAIN versions
           /\ versions[call[c].region] = call[c].expected
           /\ <<"premises", call[c].region>> \in held[c]
  BY <1>1, <1>2 DEF WriteFound
<1>4. IsCall(call[c]) /\ call[c].region \in Region
  BY <1>1, StageOps DEF IsCall
<1> QED
  BY <1>1, <1>2, <1>3, <1>4 DEF CounterInv

LEMMA CommitWriteKeepsOrder ==
  ASSUME TypeInv, LocksInv, OrderedInv, NEW c \in Callers, CommitWrite(c)
  PROVE  OrderedInv'
<1>1. /\ IsCall(call[c]) /\ counter = Written + 1 /\ counter' = counter + 1
      /\ Record(c, Written + 1) /\ <<"boards">> \in held[c]
      /\ KeyRows(call[c].key) \subseteq held[c]
      /\ call[c].region \in Premises => <<"premises", call[c].region>> \in held[c]
  BY WriteStands
<1>2. RecordInv' /\ Written' = Written + 1 /\ Written \in Nat
  BY WriteStands, WriteKeepsRecord, WrittenIsNat DEF TypeInv, OrderedInv
<1>3. CounterInv'
  BY <1>1, <1>2 DEF CounterInv
<1>4. Commits(c) /\ at[c] # "idle" /\ ~ CommitDelete(c)
  BY DEF Commits, CommitWrite, CommitDelete, Runs
<1>5. /\ OthersStay(c) /\ call'[c] = Blank
      /\ \A d \in Callers \ {c} : held'[d] = held[d]
      /\ regions' = regions /\ progress' = progress /\ DOMAIN versions' = DOMAIN versions
  BY <1>1, <1>4, CommitsReturn, CommitsStay DEF Record
<1>6. ASSUME NEW d \in Callers \ {c} PROVE Found(d)'
  <2>1. <<"boards">> \notin held[d] /\ call[d].op # "delete"
    BY <1>1, <1>4, HeldByOne, NoDeletionBeside DEF LocksInv, OrderedInv
  <2>2. WriteFound(d) /\ DeclareFound(d) /\ AckFound(d)
    BY DEF OrderedInv, Found
  <2>3. WriteFound(d)'
    BY <1>5, <2>1, <2>2 DEF WriteFound, OthersStay
  <2>4. DeclareFound(d)'
    BY <1>5, <2>1, <2>2 DEF DeclareFound, OthersStay
  <2>5. DeleteFound(d)'
    BY <1>5, <2>1 DEF DeleteFound, OthersStay
  <2>6. AckFound(d)'
    BY <1>5, <2>2 DEF AckFound, Answerable, OthersStay
  <2> QED
    BY <2>3, <2>4, <2>5, <2>6 DEF Found
<1>7. AnsweredInv' /\ Alone'
  BY <1>4, <1>5, CommitsKeepAlone DEF OrderedInv, AnsweredInv
<1> QED
  BY <1>2, <1>3, <1>5, <1>6, <1>7, IdleFoundNext DEF OrderedInv

LEMMA CommitDeclareKeepsOrder ==
  ASSUME TypeInv, LocksInv, OrderedInv, NEW c \in Callers, CommitDeclare(c)
  PROVE  OrderedInv' /\ contributions' = contributions
<1> DEFINE region == call[c].region
<1>1. /\ at[c] = "commit" /\ call[c].op = "declare"
      /\ counter' = IF seen[c].number = 1 THEN 1 ELSE counter
      /\ AddRegion(region)
  BY DEF CommitDeclare, Runs
<1>2. /\ seen[c].number = 1 => <<"boards">> \in held[c] /\ counter = 0
      /\ <<"regions", region>> \in held[c] /\ <<"premises", region>> \in held[c]
      /\ region \notin regions /\ region \notin DOMAIN versions
  BY <1>1 DEF OrderedInv, Found, DeclareFound
<1>3. RecordInv' /\ contributions' = contributions
  BY <1>1, <1>2, AddRegionKeepsRecord DEF TypeInv, OrderedInv
<1>4. CounterInv'
  <2>1. CASE seen[c].number = 1
    <3>1. contributions = {}
      BY <1>2, <2>1 DEF OrderedInv, CounterInv
    <3>2. Written' = 0
      BY <1>3, <3>1, FS_EmptySet DEF Written
    <3> QED
      BY <1>1, <2>1, <3>2 DEF CounterInv
  <2>2. CASE seen[c].number # 1
    BY <1>1, <1>3, <2>2 DEF OrderedInv, CounterInv, Written
  <2> QED
    BY <2>1, <2>2
<1>5. Commits(c) /\ at[c] # "idle" /\ ~ CommitDelete(c)
  BY <1>1 DEF Commits, CommitDelete
<1>6. /\ OthersStay(c) /\ call'[c] = Blank /\ progress' = progress
      /\ \A d \in Callers \ {c} : held'[d] = held[d]
  BY <1>1, <1>5, CommitsReturn, CommitsStay DEF AddRegion
<1>7. /\ regions' = regions \cup {region}
      /\ DOMAIN versions' \subseteq DOMAIN versions \cup {region}
      /\ \A p \in DOMAIN versions : p \in DOMAIN versions' /\ versions'[p] = versions[p]
  BY <1>1, <1>2 DEF AddRegion, WithRow
<1> HIDE DEF region
<1>8. ASSUME NEW d \in Callers \ {c} PROVE Found(d)'
  <2>1. /\ <<"boards">> \in held[d] => seen[c].number # 1
        /\ <<"regions", region>> \notin held[d] /\ call[d].op # "delete"
    BY <1>2, <1>5, HeldByOne, NoDeletionBeside DEF LocksInv, OrderedInv
  <2>2. WriteFound(d) /\ DeclareFound(d) /\ AckFound(d)
    BY DEF OrderedInv, Found
  <2>3. <<"boards">> \in held[d] => counter' = counter
    BY <1>1, <2>1
  <2>4. WriteFound(d)'
    BY <1>3, <1>6, <1>7, <2>2, <2>3 DEF WriteFound, KeyUsed, OthersStay
  <2>5. DeclareFound(d)'
    BY <1>6, <1>7, <2>1, <2>2, <2>3 DEF DeclareFound, OthersStay
  <2>6. DeleteFound(d)'
    BY <1>6, <2>1 DEF DeleteFound, OthersStay
  <2>7. AckFound(d)'
    BY <1>6, <2>2 DEF AckFound, Answerable, OthersStay
  <2> QED
    BY <2>4, <2>5, <2>6, <2>7 DEF Found
<1>9. AnsweredInv' /\ Alone'
  BY <1>5, <1>6, CommitsKeepAlone DEF OrderedInv, AnsweredInv
<1> QED
  BY <1>3, <1>4, <1>6, <1>8, <1>9, IdleFoundNext DEF OrderedInv

LEMMA CommitDeleteKeepsOrder ==
  ASSUME TypeInv, OrderedInv, NEW c \in Callers, CommitDelete(c)
  PROVE  OrderedInv' /\ contributions' = {}
<1>1. at[c] = "commit" /\ call[c].op = "delete" /\ Without(seen[c].rows) /\ Commits(c)
  BY DEF CommitDelete, Runs, Commits
<1>2. /\ RowsOf("contributions") \subseteq seen[c].rows /\ RowsOf("premises") \subseteq seen[c].rows
      /\ RowsOf("regions") \subseteq seen[c].rows /\ RowsOf("boards") \subseteq seen[c].rows
  BY <1>1 DEF OrderedInv, Found, DeleteFound
<1>3. RecordInv' /\ contributions' = {}
  BY <1>1, <1>2, DeletionEmptiesRecord
<1>4. counter' = 0
  BY <1>1, <1>2, RowsAreThere DEF Without
<1>5. AnsweredInv'
  BY <1>1 DEF Without, Restrict, OrderedInv, AnsweredInv
<1>6. \A d \in Callers : call'[d] = Blank
  <2>1. TypeInv'
    BY TypeStep DEF Next, Statement
  <2>2. \A d \in Callers : at'[d] = "idle"
    BY <1>1, CommitsReturn DEF OrderedInv, Alone
  <2> QED
    BY <2>1, <2>2 DEF TypeInv, CallsType
<1>7. Alone'
  BY <1>1, CommitsKeepAlone DEF OrderedInv
<1> QED
  BY <1>3, <1>4, <1>5, <1>6, <1>7, IdleFoundNext DEF OrderedInv, CounterInv

\* What closing and answering change of the agents' rows, none that another holds.
LEMMA ProgressKeepsOrder ==
  ASSUME TypeInv, OrderedInv, NEW others \in SUBSET Callers,
         UNCHANGED <<counter, regions, contributions, versions>>, AnsweredInv', Alone',
         \A d \in others : /\ at'[d] = at[d] /\ call'[d] = call[d] /\ seen'[d] = seen[d]
                           /\ held'[d] = held[d],
         \A d \in Callers \ others : call'[d] = Blank,
         \A d \in others : \A a \in DOMAIN progress : <<"agent_progress", a>> \in held[d] =>
           a \in DOMAIN progress' /\ progress'[a] = progress[a]
  PROVE  OrderedInv'
<1>1. RecordInv' /\ CounterInv'
  BY SameRecord DEF OrderedInv, CounterInv, Written
<1>2. /\ RowsOf("contributions")' = RowsOf("contributions")
      /\ RowsOf("premises")' = RowsOf("premises")
      /\ RowsOf("regions")' = RowsOf("regions") /\ RowsOf("boards")' = RowsOf("boards")
  BY DEF RowsOf
<1>3. ASSUME NEW d \in others PROVE Found(d)'
  <2>1. WriteFound(d)' /\ DeclareFound(d)'
    BY DEF OrderedInv, Found, WriteFound, DeclareFound, KeyUsed
  <2>2. DeleteFound(d)'
    BY <1>2 DEF OrderedInv, Found, DeleteFound
  <2>3. AckFound(d)'
    BY DEF OrderedInv, Found, AckFound, Answerable
  <2> QED
    BY <2>1, <2>2, <2>3 DEF Found
<1>4. \A d \in Callers \ others : Found(d)'
  BY IdleFoundNext
<1> QED
  BY <1>1, <1>3, <1>4 DEF OrderedInv

LEMMA CommitCloseKeepsOrder ==
  ASSUME TypeInv, LocksInv, OrderedInv, NEW c \in Callers, CommitClose(c)
  PROVE  OrderedInv'
<1> DEFINE others == Callers \ {c}
<1>1. /\ UNCHANGED <<counter, regions, contributions, versions>>
      /\ progress' = Restrict(progress,
                       {a \in DOMAIN progress : <<"agent_progress", a>> \notin seen[c].rows})
      /\ Commits(c) /\ ~ CommitDelete(c)
  BY DEF CommitClose, Commits, CommitDelete
<1>2. /\ OthersStay(c) /\ call'[c] = Blank /\ \A d \in others : held'[d] = held[d]
  BY <1>1, CommitsReturn, CommitsStay
<1>3. /\ \A a \in DOMAIN progress' : a \in DOMAIN progress /\ progress'[a] = progress[a]
      /\ \A a \in DOMAIN progress : <<"agent_progress", a>> \notin seen[c].rows =>
           a \in DOMAIN progress'
  BY <1>1 DEF Restrict
<1>4. ASSUME NEW d \in others, NEW a \in DOMAIN progress, <<"agent_progress", a>> \in held[d]
      PROVE  a \in DOMAIN progress' /\ progress'[a] = progress[a]
  BY <1>3, <1>4 DEF LocksInv, HeldApart, SeenHeld
<1>5. AnsweredInv' /\ Alone'
  BY <1>1, <1>3, CommitsKeepAlone DEF OrderedInv, AnsweredInv
<1>6. \A d \in others : /\ at'[d] = at[d] /\ call'[d] = call[d] /\ seen'[d] = seen[d]
                        /\ held'[d] = held[d]
  BY <1>2 DEF OthersStay
<1>7. others \in SUBSET Callers /\ \A d \in Callers \ others : call'[d] = Blank
  BY <1>2
<1> HIDE DEF others
<1> QED
  BY <1>1, <1>4, <1>5, <1>6, <1>7, ProgressKeepsOrder

LEMMA CommitAckKeepsOrder ==
  ASSUME TypeInv, LocksInv, OrderedInv, NEW c \in Callers, CommitAck(c)
  PROVE  OrderedInv'
<1> DEFINE others == Callers \ {c}
           agent == call[c].agent
<1>1. /\ UNCHANGED <<counter, regions, contributions, versions>>
      /\ progress' = Acked(agent, call[c].through)
      /\ at[c] = "commit" /\ call[c].op = "acknowledge" /\ Commits(c) /\ ~ CommitDelete(c)
  BY DEF CommitAck, Commits, CommitDelete, Runs
<1>2. /\ OthersStay(c) /\ call'[c] = Blank /\ \A d \in others : held'[d] = held[d]
  BY <1>1, CommitsReturn, CommitsStay
<1>3. /\ <<"agent_progress", agent>> \in held[c] /\ agent \in DOMAIN progress
      /\ call[c].through <= progress[agent].notified
  BY <1>1 DEF OrderedInv, Found, AckFound, Answerable
<1> HIDE DEF agent
<1>4. ASSUME NEW d \in others, NEW a \in DOMAIN progress, <<"agent_progress", a>> \in held[d]
      PROVE  a \in DOMAIN progress' /\ progress'[a] = progress[a]
  <2>1. a # agent
    BY <1>3, <1>4, HeldByOne DEF LocksInv
  <2> QED
    BY <1>1, <2>1 DEF Acked
<1>5. AnsweredInv' /\ Alone'
  <2>1. AnsweredInv'
    BY <1>1, <1>3, AckedKeepsAnswers DEF TypeInv, TablesType, OrderedInv, AnsweredInv
  <2> QED
    BY <1>1, <2>1, CommitsKeepAlone DEF OrderedInv
<1>6. \A d \in others : /\ at'[d] = at[d] /\ call'[d] = call[d] /\ seen'[d] = seen[d]
                        /\ held'[d] = held[d]
  BY <1>2 DEF OthersStay
<1>7. others \in SUBSET Callers /\ \A d \in Callers \ others : call'[d] = Blank
  BY <1>2
<1> HIDE DEF others
<1> QED
  BY <1>1, <1>4, <1>5, <1>6, <1>7, ProgressKeepsOrder

\* A call of one statement changes an agent's row only when no transaction holds it.
LEMMA AtOnceKeepsOrder ==
  ASSUME TypeInv, OrderedInv, AtOnceStep
  PROVE  OrderedInv'
<1>1. AtOnce /\ held' = held /\ UNCHANGED <<counter, regions, contributions, versions>>
  BY DEF AtOnceStep, OpenRun, DeclareAgent, MarkNotified, MarkSent
<1>2. ASSUME NEW a \in Agents, NEW n \in Nat, DeclareAgent(a) \/ MarkNotified(a, n)
      PROVE  /\ AnsweredInv'
             /\ \A d \in Callers : \A b \in DOMAIN progress :
                  <<"agent_progress", b>> \in held[d] =>
                    b \in DOMAIN progress' /\ progress'[b] = progress[b]
  <2>1. /\ FreeRow(<<"agent_progress", a>>)
        /\ progress' = Declared(a) \/ progress' = Notified(a, n)
    BY <1>2 DEF DeclareAgent, MarkNotified
  <2>2. AnsweredInv'
    BY <2>1, TellingKeepsAnswers DEF TypeInv, TablesType, OrderedInv, AnsweredInv
  <2>3. \A b \in DOMAIN progress : b # a => b \in DOMAIN progress' /\ progress'[b] = progress[b]
    BY <2>1 DEF Declared, Notified, WithRow
  <2> QED
    BY <2>1, <2>2, <2>3 DEF FreeRow
<1>3. ASSUME progress' = progress PROVE AnsweredInv'
  BY <1>3 DEF OrderedInv, AnsweredInv
<1>4. /\ AnsweredInv'
      /\ \A d \in Callers : \A b \in DOMAIN progress : <<"agent_progress", b>> \in held[d] =>
           b \in DOMAIN progress' /\ progress'[b] = progress[b]
  <2>1. \A n \in Numbers : n \in Nat
    BY DEF Numbers
  <2>2. OpenRun \/ (\E a \in Agents, n \in Numbers : MarkSent(a, n)) => progress' = progress
    BY DEF OpenRun, MarkSent
  <2>3. \A a \in Agents : DeclareAgent(a) => \E n \in Nat : DeclareAgent(a) \/ MarkNotified(a, n)
    BY 0 \in Nat
  <2> QED
    BY <1>2, <1>3, <2>1, <2>2, <2>3 DEF AtOnceStep
<1>5. Alone'
  BY <1>1 DEF AtOnce, OrderedInv, Alone
<1>6. \A d \in Callers : /\ at'[d] = at[d] /\ call'[d] = call[d] /\ seen'[d] = seen[d]
                         /\ held'[d] = held[d]
  BY <1>1 DEF AtOnce
<1> QED
  BY <1>1, <1>4, <1>5, <1>6, ProgressKeepsOrder

LEMMA AskKeepsOrder ==
  ASSUME TypeInv, LandedInv, OrderedInv, NEW c \in Callers, NEW request \in Requests,
         Ask(c, request), ~ overlapped'
  PROVE  OrderedInv'
<1>1. /\ OthersStay(c) /\ at[c] = "idle" /\ call'[c] = request /\ IsCall(request)
      /\ at'[c] # "idle" /\ at'[c] = IF request.op = "write" THEN "require"
                   ELSE IF request.op = "declare" THEN "open"
                   ELSE IF request.op = "delete" THEN "empty"
                   ELSE IF request.op = "close" THEN "close" ELSE "read_progress"
      /\ seen' = seen /\ held' = held /\ ~ Overlaps(c, request)
      /\ UNCHANGED <<counter, regions, contributions, versions, progress>>
  BY AskMoves DEF tables
<1>2. RecordInv' /\ CounterInv' /\ AnsweredInv'
  BY <1>1, SameRecord DEF OrderedInv, CounterInv, AnsweredInv, Written
<1>3. Alone'
  <2>1. \A d \in Callers : at[d] # "idle" => request.op # "delete" /\ call[d].op # "delete"
    BY <1>1 DEF Overlaps
  <2> QED
    BY <1>1, <2>1 DEF OrderedInv, Alone, OthersStay
<1>4. Found(c)'
  <2>1. seen[c].prior = 0
    BY <1>1 DEF TypeInv, StageType, Nothing
  <2> QED
    BY <1>1, <2>1 DEF Found, WriteFound, DeclareFound, DeleteFound, AckFound
<1>5. \A d \in Callers \ {c} : Found(d)'
  BY <1>1, SameFound DEF OrderedInv, OthersStay
<1> QED
  BY <1>2, <1>3, <1>4, <1>5 DEF OrderedInv

LEMMA OrderedInit == Init => OrderedInv
<1> SUFFICES ASSUME Init PROVE OrderedInv
  OBVIOUS
<1>1. /\ contributions = {} /\ counter \in {0, 1}
      /\ \A c \in Callers : at[c] = "idle" /\ call[c] = Blank
      /\ \A p \in DOMAIN versions : p \in regions /\ versions[p] = 0
      /\ \A a \in DOMAIN progress : progress[a].acked <= progress[a].notified
  BY DEF Init, SharedInit, Region
<1>2. IsFiniteSet({}) /\ Cardinality({}) = 0 /\ 1..0 = {}
  BY FS_EmptySet
<1>3. RecordInv
  BY <1>1, <1>2 DEF RecordInv, Written, Of
<1>4. \A c \in Callers : Found(c)
  BY <1>1, IdleFound
<1> QED
  BY <1>1, <1>2, <1>3, <1>4 DEF OrderedInv, CounterInv, Written, AnsweredInv, Alone

LEMMA OrderedStep ==
  TypeInv /\ LocksInv /\ LandedInv /\ (~ overlapped => OrderedInv) /\ [Next]_vars =>
    (~ overlapped' => OrderedInv')
<1> SUFFICES ASSUME TypeInv, LocksInv, LandedInv, ~ overlapped => OrderedInv, [Next]_vars,
                    ~ overlapped'
             PROVE  OrderedInv'
  OBVIOUS
<1>1. ASSUME NEW c \in Callers, Reads(c) \/ DeadlockVictim(c) \/ ConnectionLost(c)
      PROVE  OrderedInv'
  <2>1. overlapped' = overlapped
    <3>1. \A answer : RollsBack(c, answer) => overlapped' = overlapped
      BY RollsBackMoves
    <3>2. \A stage, shown, rows : GoesOn(c, stage, shown, rows) => overlapped' = overlapped
      BY GoesOnMoves
    <3>3. Reads(c) => overlapped' = overlapped
      BY <3>1, <3>2, ReadsGoOn
    <3> QED
      BY <1>1, <3>1, <3>3 DEF DeadlockVictim, ConnectionLost, Stops, Return
  <2> QED
    BY <1>1, <2>1, ReadsKeepOrder
<1>2. ASSUME NEW c \in Callers, Commits(c) PROVE OrderedInv'
  <2>1. OrderedInv
    BY <1>2, CommitsReturn
  <2> QED
    BY <1>2, <2>1, CommitWriteKeepsOrder, CommitDeclareKeepsOrder, CommitDeleteKeepsOrder,
       CommitCloseKeepsOrder, CommitAckKeepsOrder DEF Commits
<1>3. ASSUME NEW c \in Callers, NEW request \in Requests, Ask(c, request) PROVE OrderedInv'
  BY <1>3, AskMoves, AskKeepsOrder
<1>4. ASSUME AtOnceStep PROVE OrderedInv'
  <2>1. overlapped' = overlapped
    BY <1>4 DEF AtOnceStep, OpenRun, DeclareAgent, MarkNotified, MarkSent, AtOnce
  <2> QED
    BY <1>4, <2>1, AtOnceKeepsOrder
<1>5. ASSUME UNCHANGED vars PROVE OrderedInv'
  <2>1. UNCHANGED <<counter, regions, contributions, versions, progress, call, at, seen, held,
                    overlapped>>
    BY <1>5 DEF vars, shared, tables, calls
  <2>2. RecordInv' /\ CounterInv' /\ AnsweredInv' /\ Alone'
    BY <2>1, SameRecord DEF OrderedInv, CounterInv, AnsweredInv, Written, Alone
  <2>3. \A d \in Callers : Found(d)'
    BY <2>1, SameFound DEF OrderedInv
  <2> QED
    BY <2>2, <2>3 DEF OrderedInv
<1> QED
  BY <1>1, <1>2, <1>3, <1>4, <1>5, StepsOfNext

LEMMA LandedStep == TypeInv /\ LandedInv /\ [Next]_vars => LandedInv'
<1> SUFFICES ASSUME TypeInv, LandedInv, [Next]_vars PROVE LandedInv'
  OBVIOUS
<1>0. ~ Blank.landed
  BY DEF Blank
<1>1. ASSUME NEW c \in Callers, OthersStay(c), call'[c] = call[c] \/ call'[c] = Blank,
             contributions \subseteq contributions'
      PROVE  LandedInv'
  BY <1>0, <1>1 DEF LandedInv, OthersStay
<1>2. ASSUME NEW c \in Callers, NEW answer, RollsBack(c, answer) PROVE LandedInv'
  BY <1>1, <1>2, RollsBackMoves
<1>3. ASSUME NEW c \in Callers, Reads(c) PROVE LandedInv'
  <2>1. ASSUME NEW stage, NEW shown, NEW rows, GoesOn(c, stage, shown, rows) PROVE LandedInv'
    BY <1>1, <2>1, GoesOnMoves
  <2> QED
    BY <1>2, <1>3, <2>1, ReadsGoOn
<1>4. ASSUME NEW c \in Callers, DeadlockVictim(c) \/ ConnectionLost(c) PROVE LandedInv'
  BY <1>2, <1>4 DEF DeadlockVictim, ConnectionLost, Stops, RollsBack
<1>5. ASSUME NEW c \in Callers, Commits(c) PROVE LandedInv'
  <2>1. CASE CommitDelete(c)
    BY <2>1, ReturnDeletedMoves DEF CommitDelete, LandedInv, TypeInv
  <2>2. CASE ~ CommitDelete(c)
    <3>1. contributions \subseteq contributions'
      BY <1>5, <2>2
      DEF Commits, CommitWrite, CommitDeclare, CommitClose, CommitAck, Record, AddRegion
    <3> QED
      BY <1>1, <1>5, <2>2, <3>1, CommitsStay, CommitsReturn
  <2> QED
    BY <2>1, <2>2
<1>6. ASSUME NEW c \in Callers, NEW request \in Requests, Ask(c, request) PROVE LandedInv'
  <2>1. OthersStay(c) /\ call'[c] = request /\ contributions' = contributions
    BY <1>6, AskMoves DEF tables
  <2> QED
    BY <2>1, RequestsHaveLanded DEF LandedInv, OthersStay
<1>7. ASSUME UNCHANGED <<call, contributions>> PROVE LandedInv'
  BY <1>7 DEF LandedInv
<1>8. ASSUME AtOnceStep PROVE LandedInv'
  BY <1>7, <1>8 DEF AtOnceStep, OpenRun, DeclareAgent, MarkNotified, MarkSent, AtOnce
<1>9. ASSUME UNCHANGED vars PROVE LandedInv'
  BY <1>7, <1>9 DEF vars, shared, tables, calls
<1> QED
  BY <1>3, <1>4, <1>5, <1>6, <1>8, <1>9, StepsOfNext

-----------------------------------------------------------------------------
(* What stands beside a deletion too.                                      *)

\* Whoever's rows a step leaves alone has found what it had found.
LEMMA OthersStand ==
  ASSUME RowsInv, NEW others \in SUBSET Callers, OneRowPerKey',
         \A d \in others :
           /\ at'[d] = at[d] /\ seen'[d] = seen[d] /\ held'[d] = held[d]
           /\ call'[d].op = call[d].op /\ call'[d].key = call[d].key
           /\ call'[d].agent = call[d].agent /\ call'[d].through = call[d].through,
         \A d \in others : \A k \in contributions' :
           k \in contributions \/ KeyRows(k.key) \cap held[d] = {},
         \A d \in others : \A a \in DOMAIN progress : <<"agent_progress", a>> \in held[d] =>
           a \in DOMAIN progress' /\ progress'[a] = progress[a],
         \A d \in Callers \ others : KeyStands(d)' /\ AckFound(d)'
  PROVE  RowsInv'
<1>1. ASSUME NEW d \in others PROVE KeyStands(d)'
  <2> SUFFICES ASSUME call'[d].op = "write", at'[d] = "commit"
               PROVE  KeyRows(call'[d].key) \subseteq held'[d] /\ ~ KeyUsed(d)'
    BY DEF KeyStands
  <2>1. KeyRows(call[d].key) \subseteq held[d] /\ ~ KeyUsed(d)
    BY DEF RowsInv, KeyStands
  <2>2. ASSUME NEW k \in contributions', k.key = call[d].key, call[d].key # NoKey PROVE FALSE
    <3>1. k \notin contributions
      BY <2>1, <2>2 DEF KeyUsed
    <3>2. <<"key", k.key>> \in KeyRows(k.key) /\ KeyRows(k.key) \subseteq held[d]
      BY <2>1, <2>2 DEF KeyRows
    <3> QED
      BY <3>1, <3>2
  <2> QED
    BY <2>1, <2>2 DEF KeyUsed
<1>2. ASSUME NEW d \in others PROVE AckFound(d)'
  <2>1. AckFound(d)
    BY DEF RowsInv
  <2> QED
    BY <2>1 DEF AckFound, Answerable
<1> QED
  BY <1>1, <1>2 DEF RowsInv

\* Nobody is left with anything to stand who has returned.
LEMMA ReturnedStands ==
  ASSUME NEW c, at'[c] = "idle"
  PROVE  KeyStands(c)' /\ AckFound(c)'
  BY DEF KeyStands, AckFound

LEMMA ReadsStand ==
  ASSUME TypeInv, NEW c \in Callers, Reads(c)
  PROVE  KeyStands(c)' /\ AckFound(c)'
<1>1. at[c] # "idle" /\ IsSeen(seen[c])
  BY ReadsGoOn, StageOps
<1>2. ASSUME NEW answer, RollsBack(c, answer) PROVE KeyStands(c)' /\ AckFound(c)'
  BY <1>2, RollsBackMoves, ReturnedStands
<1>3. CASE InsertContribution(c)
  <2>1. /\ at[c] = "insert"
        /\ \/ RollsBack(c, Answer("raised", 0))
           \/ ~ KeyUsed(c) /\ GoesOn(c, "commit", seen[c], Wants(c))
    BY <1>3 DEF InsertContribution, Runs, GoesOn
  <2>2. call[c].op = "write" /\ KeyRows(call[c].key) \subseteq Wants(c)
    BY <1>1, <2>1, StageOps DEF Wants
  <2>3. ASSUME ~ KeyUsed(c), GoesOn(c, "commit", seen[c], Wants(c))
        PROVE  KeyStands(c)' /\ AckFound(c)'
    <3>1. call' = call /\ held'[c] = held[c] \cup Wants(c) /\ contributions' = contributions
      BY <2>3, GoesOnMoves
    <3>2. KeyRows(call'[c].key) \subseteq held'[c] /\ ~ KeyUsed(c)'
      BY <2>2, <2>3, <3>1 DEF KeyUsed
    <3> QED
      BY <2>2, <3>1, <3>2 DEF KeyStands, AckFound
  <2> QED
    BY <1>2, <2>1, <2>3
<1>4. CASE ReadProgress(c)
  <2>1. at[c] = "read_progress"
    BY <1>4 DEF ReadProgress, Runs
  <2>2. call[c].op = "acknowledge"
    BY <1>1, <2>1, StageOps
  <2>3. CASE at'[c] = "idle"
    BY <2>3, ReturnedStands
  <2>4. CASE at'[c] # "idle"
    <3>1. AckFound(c)'
      BY <1>4, <2>4, AcksFind DEF Found
    <3>2. call' = call
      <4>1. \A answer : ~ RollsBack(c, answer)
        BY <2>4, RollsBackMoves
      <4>2. \A stage, shown, rows : GoesOn(c, stage, shown, rows) => call' = call
        BY GoesOnMoves
      <4> QED
        BY <1>4, <4>1, <4>2, ReadsGoOn
    <3> QED
      BY <2>2, <3>1, <3>2 DEF KeyStands
  <2> QED
    BY <2>3, <2>4
<1>5. CASE ~ InsertContribution(c) /\ ~ ReadProgress(c)
  <2>1. \/ \E answer : RollsBack(c, answer)
        \/ /\ at'[c] = "commit" => call[c].op \notin {"write", "acknowledge"}
           /\ call' = call
    <3>1. \A stage, shown : Proceed(c, stage, shown) => at'[c] = stage /\ call' = call
      BY ProceedMoves DEF TypeInv
    <3>2. /\ at[c] \in {"open", "kind_of", "insert_region"} => call[c].op = "declare"
          /\ at[c] = "empty" => call[c].op \in {"delete", "close"}
          /\ at[c] = "close" => call[c].op = "close"
      BY <1>1, StageOps
    <3>3. Require(c) \/ AlreadyWritten(c) \/ TakeSequence(c) \/ UpdatePremise(c) =>
            \/ \E answer : RollsBack(c, answer)
            \/ at'[c] # "commit" /\ call' = call
      BY <3>1 DEF Require, AlreadyWritten, TakeSequence, UpdatePremise
    <3>4. OpenBoard(c) \/ KindOf(c) \/ InsertRegion(c) \/ EmptyTable(c) \/ CloseRun(c) =>
            \/ \E answer : RollsBack(c, answer)
            \/ call[c].op \notin {"write", "acknowledge"} /\ call' = call
      BY <3>1, <3>2 DEF OpenBoard, KindOf, InsertRegion, EmptyTable, CloseRun, Runs
    <3> QED
      BY <1>5, <3>3, <3>4 DEF Reads
  <2> QED
    BY <1>2, <2>1 DEF KeyStands, AckFound
<1> QED
  BY <1>3, <1>4, <1>5

LEMMA CommitsStand ==
  ASSUME TypeInv, LocksInv, RowsInv, NEW c \in Callers, Commits(c)
  PROVE  RowsInv'
<1> DEFINE others == Callers \ {c}
<1>1. /\ at[c] = "commit" /\ at'[c] = "idle" /\ IsCall(call[c])
      /\ \A d \in others :
           /\ at'[d] = at[d] /\ seen'[d] = seen[d] /\ held'[d] = held[d]
           /\ call'[d].op = call[d].op /\ call'[d].key = call[d].key
           /\ call'[d].agent = call[d].agent /\ call'[d].through = call[d].through
  BY CommitsReturn
<1>2. KeyStands(c) /\ AckFound(c) /\ OneRowPerKey
  BY DEF RowsInv
<1>3. \A d \in others : \A row \in held[c] : row \notin held[d]
  BY DEF LocksInv, HeldApart
<1>4. \A d \in others : \A row \in seen[c].rows : row \notin held[d]
  BY <1>3 DEF LocksInv, SeenHeld
<1>5. /\ OneRowPerKey'
      /\ \A d \in others : \A k \in contributions' :
           k \in contributions \/ KeyRows(k.key) \cap held[d] = {}
  <2>1. CASE CommitWrite(c)
    <3> DEFINE row == [sequence |-> seen[c].number, region |-> call[c].region,
                       version |-> IF call[c].region \in Premises
                                   THEN call[c].expected + 1 ELSE 0,
                       key |-> call[c].key]
    <3>1. /\ contributions' = contributions \cup {row} /\ row.key = call[c].key
          /\ call[c].op = "write"
      BY <2>1 DEF CommitWrite, Record
    <3> HIDE DEF row
    <3>2. KeyRows(row.key) \subseteq held[c] /\ ~ KeyUsed(c)
      BY <1>1, <1>2, <3>1 DEF KeyStands
    <3>3. OneRowPerKey'
      BY <1>2, <3>1, <3>2 DEF OneRowPerKey, KeyUsed
    <3> QED
      BY <1>3, <3>1, <3>2, <3>3
  <2>2. CASE ~ CommitWrite(c)
    <3>1. contributions' \subseteq contributions
      BY <2>2 DEF Commits, CommitDeclare, CommitDelete, CommitClose, CommitAck, AddRegion, Without
    <3> QED
      BY <1>2, <3>1 DEF OneRowPerKey
  <2> QED
    BY <2>1, <2>2
<1>6. \A d \in others : \A a \in DOMAIN progress : <<"agent_progress", a>> \in held[d] =>
        a \in DOMAIN progress' /\ progress'[a] = progress[a]
  <2>1. CASE CommitWrite(c) \/ CommitDeclare(c)
    BY <2>1 DEF CommitWrite, Record, CommitDeclare, AddRegion
  <2>2. CASE CommitDelete(c) \/ CommitClose(c)
    <3>1. \A a \in DOMAIN progress : <<"agent_progress", a>> \notin seen[c].rows =>
            a \in DOMAIN progress' /\ progress'[a] = progress[a]
      BY <2>2 DEF CommitDelete, CommitClose, Without, Restrict
    <3> QED
      BY <1>4, <3>1
  <2>3. CASE CommitAck(c)
    <3>1. /\ progress' = Acked(call[c].agent, call[c].through)
          /\ <<"agent_progress", call[c].agent>> \in held[c]
      BY <1>1, <1>2, <2>3 DEF CommitAck, AckFound
    <3>2. \A a \in DOMAIN progress : a # call[c].agent =>
            a \in DOMAIN progress' /\ progress'[a] = progress[a]
      BY <3>1 DEF Acked
    <3> QED
      BY <1>3, <3>1, <3>2
  <2> QED
    BY <2>1, <2>2, <2>3 DEF Commits
<1>7. others \in SUBSET Callers /\ \A d \in Callers \ others : KeyStands(d)' /\ AckFound(d)'
  BY <1>1, ReturnedStands
<1> HIDE DEF others
<1> QED
  BY <1>1, <1>5, <1>6, <1>7, OthersStand

LEMMA RowsStep == TypeInv /\ LocksInv /\ RowsInv /\ [Next]_vars => RowsInv'
<1> SUFFICES ASSUME TypeInv, LocksInv, RowsInv, [Next]_vars PROVE RowsInv'
  OBVIOUS
<1>1. ASSUME NEW c \in Callers, KeyStands(c)' /\ AckFound(c)', OthersStay(c),
             \A d \in Callers \ {c} : held'[d] = held[d],
             UNCHANGED <<contributions, progress>>
      PROVE  RowsInv'
  <2> DEFINE others == Callers \ {c}
  <2>1. OneRowPerKey'
    BY <1>1 DEF RowsInv, OneRowPerKey
  <2>2. /\ others \in SUBSET Callers
        /\ \A d \in Callers \ others : KeyStands(d)' /\ AckFound(d)'
        /\ \A d \in others : /\ at'[d] = at[d] /\ call'[d] = call[d] /\ seen'[d] = seen[d]
                              /\ held'[d] = held[d]
    BY <1>1 DEF OthersStay
  <2> HIDE DEF others
  <2> QED
    BY <1>1, <2>1, <2>2, OthersStand
<1>2. ASSUME NEW c \in Callers, NEW answer, RollsBack(c, answer) PROVE RowsInv'
  BY <1>1, <1>2, RollsBackMoves, ReturnedStands
<1>3. ASSUME NEW c \in Callers, Reads(c) PROVE RowsInv'
  <2>1. KeyStands(c)' /\ AckFound(c)'
    BY <1>3, ReadsStand
  <2>2. ASSUME NEW stage, NEW shown, NEW rows, GoesOn(c, stage, shown, rows) PROVE RowsInv'
    BY <1>1, <2>1, <2>2, GoesOnMoves
  <2> QED
    BY <1>2, <1>3, <2>2, ReadsGoOn
<1>4. ASSUME NEW c \in Callers, Commits(c) PROVE RowsInv'
  BY <1>4, CommitsStand
<1>5. ASSUME NEW c \in Callers, DeadlockVictim(c) \/ ConnectionLost(c) PROVE RowsInv'
  BY <1>2, <1>5 DEF DeadlockVictim, ConnectionLost, Stops, RollsBack
<1>6. ASSUME NEW c \in Callers, NEW request \in Requests, Ask(c, request) PROVE RowsInv'
  <2>1. /\ OthersStay(c) /\ at'[c] # "commit" /\ held' = held
        /\ UNCHANGED <<contributions, progress>>
    BY <1>6, AskMoves DEF tables
  <2>2. KeyStands(c)' /\ AckFound(c)'
    BY <2>1 DEF KeyStands, AckFound
  <2> QED
    BY <1>1, <2>1, <2>2
<1>7. ASSUME UNCHANGED <<call, at, seen, held>>, contributions' = contributions,
             \A d \in Callers : \A a \in DOMAIN progress : <<"agent_progress", a>> \in held[d] =>
               a \in DOMAIN progress' /\ progress'[a] = progress[a]
      PROVE  RowsInv'
  <2>1. OneRowPerKey'
    BY <1>7 DEF RowsInv, OneRowPerKey
  <2> QED
    BY <1>7, <2>1, OthersStand
<1>8. ASSUME AtOnceStep PROVE RowsInv'
  <2>1. UNCHANGED <<call, at, seen, held>> /\ contributions' = contributions
    BY <1>8 DEF AtOnceStep, OpenRun, DeclareAgent, MarkNotified, MarkSent, AtOnce
  <2>2. ASSUME NEW a \in Agents, NEW n, DeclareAgent(a) \/ MarkNotified(a, n) PROVE RowsInv'
    <3>1. /\ FreeRow(<<"agent_progress", a>>)
          /\ progress' = Declared(a) \/ progress' = Notified(a, n)
      BY <2>2 DEF DeclareAgent, MarkNotified
    <3>2. \A b \in DOMAIN progress : b # a => b \in DOMAIN progress' /\ progress'[b] = progress[b]
      BY <3>1 DEF Declared, Notified, WithRow
    <3> QED
      BY <1>7, <2>1, <3>1, <3>2 DEF FreeRow
  <2>3. OpenRun \/ (\E a \in Agents, n \in Numbers : MarkSent(a, n)) => progress' = progress
    BY DEF OpenRun, MarkSent
  <2> QED
    BY <1>7, <1>8, <2>1, <2>2, <2>3 DEF AtOnceStep
<1>9. ASSUME UNCHANGED vars PROVE RowsInv'
  BY <1>7, <1>9 DEF vars, shared, tables, calls
<1> QED
  BY <1>3, <1>4, <1>5, <1>6, <1>8, <1>9, StepsOfNext

-----------------------------------------------------------------------------
(* The theorems.                                                           *)

LEMMA PostgresInvInit == Init => PostgresInv
<1> SUFFICES ASSUME Init PROVE PostgresInv
  OBVIOUS
<1>1. \A c \in Callers : /\ at[c] = "idle" /\ ~ call[c].landed /\ held[c] = {}
                         /\ seen[c].rows = {} /\ call[c].op = "none"
  BY DEF Init, SharedInit, Blank, Nothing
<1>2. LocksInv /\ LandedInv
  BY <1>1 DEF LocksInv, HeldApart, SeenHeld, ClosersHold, Won, LandedInv
<1>3. RowsInv
  BY <1>1 DEF Init, SharedInit, RowsInv, OneRowPerKey, KeyStands, AckFound
<1> QED
  BY <1>2, <1>3, TypeInit, OrderedInit DEF PostgresInv

LEMMA PostgresInvStep == PostgresInv /\ [Next]_vars => PostgresInv'
<1> USE DEF PostgresInv
<1>1. PostgresInv /\ [Next]_vars => (~ overlapped' => OrderedInv')
  BY OrderedStep
<1> QED
  BY TypeStep, LocksStep, LandedStep, RowsStep, <1>1

LEMMA PostgresInvHolds == Spec => []PostgresInv
  BY PostgresInvInit, PostgresInvStep, PTL DEF Spec

\* Every state is one of the types the store keeps, and no step answers what no
\* caller of the code can be given, a deadlock's victim included.
THEOREM PostgresTypeCorrect == Spec => []TypeOK
<1>1. TypeInv => TypeOK
  BY TypesGiveTypeOK DEF TypeInv
<1> QED
  BY TypeInit, TypeStep, <1>1, PTL DEF Spec

\* The board's row, held from the number to the commit, orders the writes of every
\* process: no number is given twice or left out by what rolls back, deadlocks or
\* stops, and a premise's version counts the writes of that premise.
THEOREM PostgresRecordWhole == Spec => []RecordWhole
<1>1. PostgresInv => RecordWhole
  BY RecordInvGivesWhole DEF PostgresInv, TypeInv, OrderedInv, RecordWhole
<1> QED
  BY PostgresInvHolds, <1>1, PTL

\* Of two writes that name one version of a premise, in whatever processes, the second
\* waits for the board's row, and its update finds the version gone: one is the winner.
THEOREM PostgresOneWinner == Spec => [](~ overlapped => OneWinner)
<1>1. PostgresInv /\ ~ overlapped => OneWinner
  BY RecordInvGivesOneWinner DEF PostgresInv, TypeInv, OrderedInv
<1> QED
  BY PostgresInvHolds, <1>1, PTL

\* The caller whose update matched holds the run's row until it commits, so no other
\* matches it meanwhile, whatever the winner has still to remove.
THEOREM PostgresOneCloses == Spec => []OneCloses
<1>1. PostgresInv => OneCloses
  <2>1. LocksInv => \A c, d \in Callers : Won(c) /\ Won(d) => c = d
    BY DEF LocksInv, HeldApart, ClosersHold
  <2> QED
    BY <2>1 DEF PostgresInv, OneCloses, Won
<1> QED
  BY PostgresInvHolds, <1>1, PTL

\* The agent's row is read FOR UPDATE, so the answer that is recorded is still within
\* what was told: a close that would wipe the row waits.
THEOREM PostgresAnswersWithinTelling == Spec => []AckedWithinNotified
<1>1. PostgresInv => AckedWithinNotified
  BY DEF PostgresInv, OrderedInv, AnsweredInv, AckedWithinNotified
<1> QED
  BY PostgresInvHolds, <1>1, PTL

\* A caller is answered by its own step only.
LEMMA WhoIsTold ==
  ASSUME TypeInv, [Next]_vars, NEW c \in Callers, at[c] # "idle", at'[c] = "idle"
  PROVE  Reads(c) \/ Commits(c) \/ DeadlockVictim(c) \/ ConnectionLost(c)
<1>1. ASSUME NEW d \in Callers, d # c, Reads(d) PROVE FALSE
  <2>1. \A answer : RollsBack(d, answer) => OthersStay(d)
    BY <1>1, RollsBackMoves
  <2>2. \A stage, shown, rows : GoesOn(d, stage, shown, rows) => OthersStay(d)
    BY <1>1, GoesOnMoves
  <2> QED
    BY <1>1, <2>1, <2>2, ReadsGoOn DEF OthersStay
<1>2. ASSUME NEW d \in Callers, d # c, Commits(d) PROVE FALSE
  BY <1>2, CommitsReturn
<1>3. ASSUME NEW d \in Callers, d # c, DeadlockVictim(d) \/ ConnectionLost(d) PROVE FALSE
  <2>1. \E answer : RollsBack(d, answer)
    BY <1>3 DEF DeadlockVictim, ConnectionLost, Stops, RollsBack
  <2> QED
    BY <1>3, <2>1, RollsBackMoves DEF OthersStay
<1>4. ASSUME NEW d \in Callers, NEW request \in Requests, Ask(d, request) PROVE FALSE
  BY <1>4, AskMoves DEF OthersStay
<1>5. ~ AtOnceStep
  BY DEF AtOnceStep, OpenRun, DeclareAgent, MarkNotified, MarkSent, AtOnce
<1>6. ~ UNCHANGED vars
  BY DEF vars, shared, calls
<1> QED
  BY <1>1, <1>2, <1>3, <1>4, <1>5, <1>6, StepsOfNext

\* What each kind of answer is the answer of.
LEMMA WhatIsTold ==
  ASSUME TypeInv, [Next]_vars, NEW c \in Callers, at[c] # "idle", at'[c] = "idle"
  PROVE  /\ told'.kind = "written" => CommitWrite(c) /\ told' = Answer("written", seen[c].number)
         /\ told'.kind = "repeated" =>
              /\ AlreadyWritten(c) /\ KeyUsed(c) /\ told' = Recognise(c)
              /\ contributions' = contributions
         /\ told'.kind = "first" => CommitAck(c) /\ told' = AckAnswer(c, seen[c].prior)
         /\ at[c] \in {"require", "look_up"} /\ told'.kind \in {"written", "conflict", "raised"} =>
              \/ Require(c) /\ call[c].region \notin regions
              \/ AlreadyWritten(c) /\ KeyUsed(c) /\ told' = Recognise(c)
<1>1. \A k, n : Answer(k, n).kind = k
  BY DEF Answer
<1>2. Reads(c) \/ Commits(c) \/ DeadlockVictim(c) \/ ConnectionLost(c)
  BY WhoIsTold
<1>3. \A stage, shown, rows : GoesOn(c, stage, shown, rows) => stage = "idle"
  BY GoesOnMoves
<1>4. \A answer : RollsBack(c, answer) => told' = answer /\ contributions' = contributions
  BY RollsBackMoves
<1>5. CASE AlreadyWritten(c)
  <2>1. at[c] = "look_up" /\ KeyUsed(c) /\ RollsBack(c, Recognise(c))
    BY <1>3, <1>5 DEF AlreadyWritten, Runs, GoesOn
  <2>2. Recognise(c).kind \in {"repeated", "raised"}
    BY <2>1, RecogniseIsAnswer DEF TypeInv
  <2> QED
    BY <1>4, <1>5, <2>1, <2>2
<1>6. CASE Require(c)
  <2>1. call[c].region \notin regions /\ RollsBack(c, Answer("raised", 0))
    BY <1>3, <1>6 DEF Require, GoesOn
  <2> QED
    BY <1>1, <1>4, <1>6, <2>1
<1>7. CASE TakeSequence(c) \/ UpdatePremise(c) \/ InsertContribution(c) \/ OpenBoard(c) \/ KindOf(c)
           \/ InsertRegion(c) \/ EmptyTable(c) \/ CloseRun(c) \/ ReadProgress(c)
  <2>1. at[c] \notin {"require", "look_up"}
    BY <1>7 DEF TakeSequence, UpdatePremise, InsertContribution, OpenBoard, KindOf, InsertRegion,
                EmptyTable, CloseRun, ReadProgress, Runs
  <2>2. \/ \E k \in {"raised", "conflict", "again"} : RollsBack(c, Answer(k, 0))
        \/ \E stage, shown : Proceed(c, stage, shown) /\ stage # "idle"
    BY <1>7 DEF TakeSequence, UpdatePremise, InsertContribution, OpenBoard, KindOf, InsertRegion,
                EmptyTable, CloseRun, ReadProgress
  <2>3. \E k \in {"raised", "conflict", "again"} : told' = Answer(k, 0)
    BY <1>4, <2>2, ProceedMoves DEF TypeInv
  <2> QED
    BY <1>1, <2>1, <2>3
<1>8. CASE Commits(c)
  <2>1. at[c] = "commit" /\ IsCall(call[c])
    BY <1>8, CommitsReturn
  <2>2. AckAnswer(c, seen[c].prior).kind \in {"first", "again"}
    BY <2>1, AckAnswerIsAnswer
  <2>3. CommitWrite(c) => told' = Answer("written", seen[c].number)
    BY DEF CommitWrite, Return
  <2>4. CommitAck(c) => told' = AckAnswer(c, seen[c].prior)
    BY DEF CommitAck, Return
  <2>5. CommitDeclare(c) \/ CommitDelete(c) \/ CommitClose(c) => told' = Answer("done", 0)
    BY DEF CommitDeclare, CommitDelete, CommitClose, Return, ReturnDeleted
  <2> QED
    BY <1>1, <1>8, <2>1, <2>2, <2>3, <2>4, <2>5 DEF Commits
<1>9. CASE DeadlockVictim(c)
  <2>1. at[c] \notin {"require", "look_up"}
    BY <1>9, VictimsWait DEF WaitsFor, Wants
  <2>2. told' = Answer("raised", 0)
    BY <1>4, <1>9 DEF DeadlockVictim
  <2> QED
    BY <1>1, <2>1, <2>2
<1>10. CASE ConnectionLost(c)
  BY <1>10 DEF ConnectionLost, Stops, Return, Silence
<1> QED
  BY <1>2, <1>5, <1>6, <1>7, <1>8, <1>9, <1>10 DEF Reads

\* Two processes that write under one key are told one number: the second waits for
\* the first one's row, and is not told that it wrote.  A deletion beside them makes
\* no difference.
THEOREM PostgresKeysAgree == Spec => KeysAgree
<1>1. ASSUME PostgresInv, [Next]_vars, NEW c \in Callers, IsTold(c, {"written", "repeated"}),
             call[c].key # NoKey
      PROVE  {k.sequence : k \in {d \in contributions' : d.key = call[c].key}} = {told'.number}
  <2>0. TypeInv /\ RowsInv
    BY <1>1 DEF PostgresInv
  <2>1. \/ CommitWrite(c) /\ told' = Answer("written", seen[c].number)
        \/ KeyUsed(c) /\ told' = Recognise(c) /\ told'.kind = "repeated"
           /\ contributions' = contributions
    BY <1>1, <2>0, WhatIsTold DEF IsTold
  <2>2. \A k, n : Answer(k, n).kind = k /\ Answer(k, n).number = n
    BY DEF Answer
  <2>3. CASE CommitWrite(c) /\ told' = Answer("written", seen[c].number)
    <3>1. ~ KeyUsed(c) /\ Record(c, seen[c].number)
      BY <2>0, <2>3 DEF CommitWrite, Runs, RowsInv, KeyStands
    <3> DEFINE row == [sequence |-> seen[c].number, region |-> call[c].region,
                       version |-> IF call[c].region \in Premises
                                   THEN call[c].expected + 1 ELSE 0,
                       key |-> call[c].key]
    <3>2. /\ contributions' = contributions \cup {row}
          /\ row.sequence = seen[c].number /\ row.key = call[c].key
      BY <3>1 DEF Record
    <3> HIDE DEF row
    <3>3. \A k \in contributions : k.key # call[c].key
      BY <1>1, <3>1 DEF KeyUsed
    <3> QED
      BY <2>2, <2>3, <3>2, <3>3
  <2>4. CASE KeyUsed(c) /\ told' = Recognise(c) /\ told'.kind = "repeated"
             /\ contributions' = contributions
    <3>1. told' = Answer("repeated", FirstWrite(c).sequence)
      BY <2>2, <2>4 DEF Recognise
    <3>2. FirstWrite(c) \in contributions /\ FirstWrite(c).key = call[c].key
      BY <2>4, FirstWriteIsThere
    <3>3. \A d \in contributions : d.key = call[c].key => d = FirstWrite(c)
      BY <1>1, <2>0, <3>2 DEF RowsInv, OneRowPerKey
    <3>4. told'.number = FirstWrite(c).sequence
      BY <2>2, <3>1
    <3> QED
      BY <2>4, <3>2, <3>3, <3>4
  <2> QED
    BY <2>1, <2>3, <2>4
<1>2. PostgresInv /\ [Next]_vars =>
        \A c \in Callers :
          IsTold(c, {"written", "repeated"}) /\ call[c].key # NoKey =>
            {k.sequence : k \in {d \in contributions' : d.key = call[c].key}} = {told'.number}
  BY <1>1
<1> QED
  BY PostgresInvHolds, <1>2, PTL DEF Spec, KeysAgree, vars

\* A write sent again after it landed is told of what it wrote: it is recognised
\* before it takes a number or waits for anyone, so no deadlock can refuse it.
THEOREM PostgresRetryIsRecognised == Spec => RetryIsRecognised
<1>1. ASSUME PostgresInv, [Next]_vars, NEW c \in Callers, call[c].landed, ~ overlapped,
             IsTold(c, {"written", "conflict", "raised"})
      PROVE  FALSE
  <2>0. TypeInv /\ OrderedInv /\ IsCall(call[c]) /\ call[c].op = "write"
    BY <1>1 DEF PostgresInv, IsTold, TypeInv, CallsType, IsCall
  <2>1. PICK k \in contributions :
          k.key = call[c].key /\ k.key # NoKey /\ k.region = call[c].region
    BY <1>1 DEF PostgresInv, LandedInv
  <2>2. at[c] \in {"require", "look_up"}
    BY <1>1, <2>0 DEF OrderedInv, Found, WriteFound
  <2>3. call[c].region \in regions
    BY <2>0, <2>1 DEF OrderedInv, RecordInv
  <2>4. KeyUsed(c) /\ told' = Recognise(c)
    BY <1>1, <2>0, <2>2, <2>3, WhatIsTold DEF IsTold
  <2>5. FirstWrite(c) = k
    BY <2>0, <2>1, <2>4, FirstWriteIsThere DEF OrderedInv, RecordInv
  <2> QED
    BY <1>1, <2>1, <2>4, <2>5 DEF Recognise, IsTold, Answer
<1>2. PostgresInv /\ [Next]_vars =>
        \A c \in Callers :
          call[c].landed /\ ~ overlapped => ~ IsTold(c, {"written", "conflict", "raised"})
  BY <1>1
<1> QED
  BY PostgresInvHolds, <1>2, PTL DEF Spec, RetryIsRecognised, vars

\* Whoever is told to be the first to answer raised the row it was told of: the row
\* was read FOR UPDATE, and neither another answer nor a deletion reaches it before
\* the commit that raises it.
THEOREM PostgresOneFirstAnswer == Spec => OneFirstAnswer
<1>1. ASSUME PostgresInv, [Next]_vars, NEW c \in Callers PROVE FirstRaises(c)
  <2> SUFFICES ASSUME IsTold(c, {"first"}) PROVE progress[call[c].agent].acked < call[c].through
    BY DEF FirstRaises
  <2>1. CommitAck(c) /\ told' = AckAnswer(c, seen[c].prior)
    BY <1>1, WhatIsTold DEF PostgresInv, IsTold
  <2>2. seen[c].prior < call[c].through
    BY <2>1 DEF IsTold, AckAnswer, Answer
  <2>3. seen[c].prior = progress[call[c].agent].acked
    BY <1>1, <2>1 DEF PostgresInv, RowsInv, AckFound, CommitAck, Runs
  <2> QED
    BY <2>2, <2>3
<1>2. PostgresInv /\ [Next]_vars => \A c \in Callers : FirstRaises(c)
  BY <1>1
<1> QED
  BY PostgresInvHolds, <1>2, PTL DEF Spec, OneFirstAnswer, vars

\* The tables hold one log that grows by fresh writes, each naming the version it
\* replaces: PostgresStore implements BoardRecord while no call runs beside a deletion.
THEOREM PostgresKeepsTheRecord == Spec => KeepsTheRecord
<1>1. Init => Promise!Init
  BY EmptyLog DEF Init, SharedInit
<1>2. ASSUME PostgresInv, [Next]_vars, TypeInv', ~ overlapped', contributions' # contributions
      PROVE  Promise!Next
  <2>1. PICK c \in Callers : Commits(c)
    <3>1. \A c \in Callers : Reads(c) => contributions' = contributions
      <4>1. ASSUME NEW c \in Callers, Reads(c) PROVE contributions' = contributions
        <5>1. \A answer : RollsBack(c, answer) => contributions' = contributions
          BY DEF RollsBack, tables
        <5>2. \A stage, shown, rows :
                GoesOn(c, stage, shown, rows) => contributions' = contributions
          BY DEF GoesOn, tables
        <5> QED
          BY <1>2, <4>1, <5>1, <5>2, ReadsGoOn DEF PostgresInv
      <4> QED
        BY <4>1
    <3>2. \A c \in Callers :
            (DeadlockVictim(c) \/ ConnectionLost(c)) => contributions' = contributions
      BY DEF DeadlockVictim, ConnectionLost, Stops, RollsBack, tables
    <3>3. \A c \in Callers : \A request : Ask(c, request) => contributions' = contributions
      BY DEF Ask, Begin, tables
    <3>4. AtOnceStep \/ UNCHANGED vars => contributions' = contributions
      BY DEF AtOnceStep, OpenRun, DeclareAgent, MarkNotified, MarkSent, vars, shared, tables
    <3> QED
      BY <1>2, <3>1, <3>2, <3>3, <3>4, StepsOfNext
  <2>2. TypeInv /\ OrderedInv /\ LocksInv /\ TablesType /\ TablesType'
    BY <1>2, <2>1, CommitsReturn DEF PostgresInv, TypeInv
  <2>3. CASE CommitWrite(c)
    <3>1. /\ IsCall(call[c]) /\ call[c].region \in Region /\ ~ KeyUsed(c)
          /\ Record(c, Written + 1) /\ call[c].region \in regions
          /\ call[c].region \in Premises =>
               call[c].region \in DOMAIN versions /\ versions[call[c].region] = call[c].expected
      BY <2>2, <2>3, WriteStands
    <3> QED
      BY <2>2, <3>1, WriteExtendsLog DEF OrderedInv
  <2>4. CASE CommitDeclare(c)
    BY <1>2, <2>2, <2>4, CommitDeclareKeepsOrder
  <2>5. CASE CommitDelete(c)
    BY <2>2, <2>5, CommitDeleteKeepsOrder, DeletionClearsLog
  <2>6. CASE CommitClose(c) \/ CommitAck(c)
    BY <1>2, <2>6 DEF CommitClose, CommitAck
  <2> QED
    BY <2>1, <2>3, <2>4, <2>5, <2>6 DEF Commits
<1>3. PostgresInv /\ PostgresInv' /\ [Next]_vars =>
        [overlapped' \/ Promise!Next]_<<contributions>>
  BY <1>2 DEF PostgresInv
<1> QED
  BY PostgresInvHolds, <1>1, <1>3, PTL DEF Spec, KeepsTheRecord
=============================================================================
