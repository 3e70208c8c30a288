------------------------- MODULE SharedTablesProofs -------------------------
(***************************************************************************)
(* What the theorems about the engines share: how a statement changes the  *)
(* tables and the calls, for any regions, agents, keys and callers.  At    *)
(* the end, the theorems of SqliteStore.                                   *)
(***************************************************************************)
EXTENDS SharedTables, FiniteSetTheorems, SequenceTheorems, TLAPS

Operations == {"write", "declare", "acknowledge", "delete", "close"}

\* Everything a caller may be in the middle of.
IsCall(request) ==
  /\ DOMAIN request = DOMAIN Blank
  /\ request.op \in Operations /\ request.key \in Keys \cup {NoKey}
  /\ request.expected \in Nat /\ request.through \in Nat /\ request.landed \in BOOLEAN
  /\ request.op \in {"write", "declare"} => request.region \in Region
  /\ request.op = "acknowledge" => request.agent \in Agents
  /\ request.landed => request.op = "write"

IsSeen(shown) ==
  /\ DOMAIN shown = {"number", "rows", "prior"}
  /\ shown.number \in Nat /\ shown.prior \in Nat

IsAnswer(answer) ==
  /\ answer.number \in Nat
  /\ answer.kind \in {"none", "written", "repeated", "conflict", "raised",
                      "done", "first", "again"}

TablesType ==
  /\ counter \in Nat /\ regions \subseteq Region
  /\ contributions \subseteq Contribution
  /\ DOMAIN versions \subseteq Premises /\ \A p \in DOMAIN versions : versions[p] \in Nat
  /\ run \in [state : {"none", "open", "closed"}, era : Nat]
  /\ DOMAIN progress \subseteq Agents /\ \A a \in DOMAIN progress : progress[a] \in Progress
  /\ outbox \subseteq Unsent

CallsType ==
  /\ DOMAIN call = Callers /\ DOMAIN at = Callers /\ DOMAIN seen = Callers
  /\ \A c \in Callers :
       /\ IsSeen(seen[c])
       /\ IF at[c] = "idle" THEN call[c] = Blank ELSE IsCall(call[c])
  /\ IsAnswer(told) /\ overlapped \in BOOLEAN

\* The record: numbered without a gap, a key and a number in one row at most, and
\* a premise's row counts the rows that wrote it.
Written == Cardinality(contributions)
Of(region) == {c \in contributions : c.region = region}

RecordInv ==
  /\ IsFiniteSet(contributions)
  /\ \A c \in contributions : c.sequence \in 1..Written
  /\ \A n \in 1..Written : \E c \in contributions : c.sequence = n
  /\ \A c, d \in contributions : c.sequence = d.sequence => c = d
  /\ \A c, d \in contributions : c.key = d.key /\ c.key # NoKey => c = d
  /\ \A c \in contributions :
       /\ c.region \in regions
       /\ IF c.region \in Premises
          THEN c.region \in DOMAIN versions /\ c.version \in 1..versions[c.region]
          ELSE c.version = 0
  /\ \A p \in DOMAIN versions :
       /\ p \in regions
       /\ versions[p] = Cardinality(Of(p))
       /\ \A v \in 1..versions[p] : \E c \in Of(p) : c.version = v

\* The counter is one past the last number, or there is no board.
CounterInv == IF counter = 0 THEN contributions = {} ELSE counter = Written + 1

\* A call's key had written before, and what it wrote is still there.
LandedInv ==
  \A c \in Callers :
    call[c].landed =>
      \E k \in contributions :
        k.key = call[c].key /\ k.key # NoKey /\ k.region = call[c].region

-----------------------------------------------------------------------------
(* Calls.                                                                  *)

LEMMA RequestsAreCalls ==
  ASSUME NEW request \in Requests
  PROVE  IsCall(request)
<1>1. \A r \in Region, k \in Keys \cup {NoKey}, v \in Nat : IsCall(WriteCall(r, k, v))
  <2>1. \A r \in Region, k \in Keys \cup {NoKey}, v \in Nat, l \in BOOLEAN :
          IsCall([Blank EXCEPT !.op = "write", !.region = r, !.key = k,
                               !.expected = v, !.landed = l])
    BY DEF Blank, IsCall, Operations
  <2>2. \A r, k : Landed(r, k) \in BOOLEAN
    BY DEF Landed
  <2> QED
    BY <2>1, <2>2 DEF WriteCall
<1>2. \A r \in Region : IsCall(DeclareCall(r))
  BY DEF DeclareCall, Blank, IsCall, Operations
<1>3. \A a \in Agents, n \in Nat : IsCall(AckCall(a, n))
  BY DEF AckCall, Blank, IsCall, Operations
<1>4. IsCall([Blank EXCEPT !.op = "delete"]) /\ IsCall([Blank EXCEPT !.op = "close"])
  BY DEF Blank, IsCall, Operations
<1>5. \A n \in Numbers : n \in Nat
  BY DEF Numbers
<1> QED
  BY <1>1, <1>2, <1>3, <1>4, <1>5 DEF Requests, Region

LEMMA BlankIsNoCall == ~ IsCall(Blank)
  BY DEF Blank, IsCall, Operations

LEMMA TypesGiveTypeOK == TablesType /\ CallsType => TypeOK
  BY BlankIsNoCall
  DEF TablesType, CallsType, TypeOK, IsSeen, IsAnswer, Range, Contribution, Progress, Unsent

\* How a call begins, goes on and ends, caller by caller.
OthersStay(c) ==
  \A d \in Callers \ {c} : at'[d] = at[d] /\ call'[d] = call[d] /\ seen'[d] = seen[d]

LEMMA BeginMoves ==
  ASSUME CallsType, NEW c \in Callers, NEW request, NEW first, NEW overlaps,
         Begin(c, request, first, overlaps)
  PROVE  /\ OthersStay(c) /\ at[c] = "idle" /\ at'[c] = first /\ call'[c] = request
         /\ seen' = seen /\ told' = Silence /\ ~ overlapped /\ overlapped' = overlaps
         /\ UNCHANGED tables
  BY DEF Begin, OthersStay, CallsType

LEMMA ProceedMoves ==
  ASSUME CallsType, NEW c \in Callers, NEW stage, NEW shown, Proceed(c, stage, shown)
  PROVE  /\ OthersStay(c) /\ at'[c] = stage /\ call' = call /\ seen'[c] = shown
         /\ told' = Silence /\ overlapped' = overlapped
  BY DEF Proceed, OthersStay, CallsType

LEMMA ReturnMoves ==
  ASSUME CallsType, NEW c \in Callers, NEW answer, Return(c, answer)
  PROVE  /\ OthersStay(c) /\ at'[c] = "idle" /\ call'[c] = Blank /\ seen'[c] = Nothing
         /\ told' = answer /\ overlapped' = overlapped
  BY DEF Return, OthersStay, CallsType

\* A deletion changes nothing of the other calls but what was of the past.
LEMMA ReturnDeletedMoves ==
  ASSUME CallsType, NEW c \in Callers, ReturnDeleted(c)
  PROVE  /\ at'[c] = "idle" /\ call'[c] = Blank /\ seen'[c] = Nothing
         /\ told' = Answer("done", 0) /\ overlapped' = overlapped
         /\ \A d \in Callers \ {c} :
              /\ at'[d] = at[d] /\ seen'[d] = seen[d]
              /\ call'[d].op = call[d].op /\ call'[d].region = call[d].region
              /\ call'[d].key = call[d].key /\ call'[d].expected = call[d].expected
              /\ call'[d].agent = call[d].agent /\ call'[d].through = call[d].through
         /\ \A d \in Callers : ~ call'[d].landed
<1>1. /\ call' = [d \in Callers |-> IF d = c THEN Blank ELSE IF call[d].landed
                                     THEN [call[d] EXCEPT !.landed = FALSE] ELSE call[d]]
      /\ at' = [at EXCEPT ![c] = "idle"]
      /\ seen' = [seen EXCEPT ![c] = Nothing] /\ told' = Answer("done", 0)
      /\ overlapped' = overlapped
  BY DEF ReturnDeleted
<1>2. \A d \in Callers : DOMAIN call[d] = DOMAIN Blank /\ call[d].landed \in BOOLEAN
  <2>1. Blank.landed \in BOOLEAN
    BY DEF Blank
  <2> QED
    BY <2>1 DEF CallsType, IsCall
<1>3. \A d \in Callers : LET reset == [call[d] EXCEPT !.landed = FALSE]
        IN  /\ reset.op = call[d].op /\ reset.region = call[d].region
            /\ reset.key = call[d].key /\ reset.expected = call[d].expected
            /\ reset.agent = call[d].agent /\ reset.through = call[d].through
            /\ ~ reset.landed
  BY <1>2 DEF Blank
<1>4. ~ Blank.landed
  BY DEF Blank
<1>5. \A d \in Callers : at'[d] = IF d = c THEN "idle" ELSE at[d]
  BY <1>1 DEF CallsType
<1>6. \A d \in Callers : seen'[d] = IF d = c THEN Nothing ELSE seen[d]
  BY <1>1 DEF CallsType
<1>7. \A d \in Callers : call'[d] = IF d = c THEN Blank ELSE IF call[d].landed
                                     THEN [call[d] EXCEPT !.landed = FALSE] ELSE call[d]
  BY <1>1
<1> QED
  BY <1>1, <1>2, <1>3, <1>4, <1>5, <1>6, <1>7

\* What a request says had landed is on the board.
LEMMA RequestsHaveLanded ==
  ASSUME NEW request \in Requests, request.landed
  PROVE  \E k \in contributions :
           k.key = request.key /\ k.key # NoKey /\ k.region = request.region
<1>1. PICK r, k, v : request = WriteCall(r, k, v)
  <2>1. \A r : ~ DeclareCall(r).landed
    BY DEF DeclareCall, Blank
  <2>2. \A a, n : ~ AckCall(a, n).landed
    BY DEF AckCall, Blank
  <2>3. ~ [Blank EXCEPT !.op = "delete"].landed /\ ~ [Blank EXCEPT !.op = "close"].landed
    BY DEF Blank
  <2>4. \/ \E l \in Levels, k \in Keys \cup {NoKey} : request = WriteCall(l, k, 0)
        \/ \E p \in Premises, k \in Keys \cup {NoKey}, v \in 0..1 : request = WriteCall(p, k, v)
        \/ \E r \in Region : request = DeclareCall(r)
        \/ \E a \in Agents, n \in Numbers : request = AckCall(a, n)
        \/ request = [Blank EXCEPT !.op = "delete"]
        \/ request = [Blank EXCEPT !.op = "close"]
    BY DEF Requests
  <2> QED
    BY <2>1, <2>2, <2>3, <2>4, Zenon
<1>2. request.landed = Landed(r, k) /\ request.key = k /\ request.region = r
  BY <1>1 DEF WriteCall, Blank
<1> QED
  BY <1>2 DEF Landed

LEMMA BeginKeepsCalls ==
  ASSUME CallsType, NEW c \in Callers, NEW request \in Requests, NEW first, first # "idle",
         NEW overlaps \in BOOLEAN, Begin(c, request, first, overlaps)
  PROVE  CallsType'
<1>1. IsCall(request)
  BY RequestsAreCalls
<1>2. /\ call' = [call EXCEPT ![c] = request] /\ at' = [at EXCEPT ![c] = first]
      /\ seen' = seen /\ told' = Silence /\ overlapped' = overlaps
  BY DEF Begin
<1>3. IsAnswer(Silence)
  BY DEF Silence, IsAnswer
<1> QED
  BY <1>1, <1>2, <1>3 DEF CallsType

LEMMA ProceedKeepsCalls ==
  ASSUME CallsType, NEW c \in Callers, at[c] # "idle", NEW stage, stage # "idle",
         NEW shown, IsSeen(shown), Proceed(c, stage, shown)
  PROVE  CallsType'
<1>1. /\ call' = call /\ at' = [at EXCEPT ![c] = stage]
      /\ seen' = [seen EXCEPT ![c] = shown] /\ told' = Silence /\ overlapped' = overlapped
  BY DEF Proceed
<1>2. IsAnswer(Silence)
  BY DEF Silence, IsAnswer
<1> QED
  BY <1>1, <1>2 DEF CallsType

LEMMA ReturnKeepsCalls ==
  ASSUME CallsType, NEW c \in Callers, NEW answer, IsAnswer(answer), Return(c, answer)
  PROVE  CallsType'
<1>1. /\ call' = [call EXCEPT ![c] = Blank] /\ at' = [at EXCEPT ![c] = "idle"]
      /\ seen' = [seen EXCEPT ![c] = Nothing] /\ told' = answer /\ overlapped' = overlapped
  BY DEF Return
<1>2. IsSeen(Nothing)
  BY DEF Nothing, IsSeen
<1> QED
  BY <1>1, <1>2 DEF CallsType

LEMMA ReturnDeletedKeepsCalls ==
  ASSUME CallsType, NEW c \in Callers, ReturnDeleted(c)
  PROVE  CallsType'
<1>1. /\ call' = [d \in Callers |-> IF d = c THEN Blank ELSE IF call[d].landed
                                     THEN [call[d] EXCEPT !.landed = FALSE] ELSE call[d]]
      /\ at' = [at EXCEPT ![c] = "idle"]
      /\ seen' = [seen EXCEPT ![c] = Nothing] /\ told' = Answer("done", 0)
      /\ overlapped' = overlapped
  BY DEF ReturnDeleted
<1>2. IsSeen(Nothing) /\ IsAnswer(Answer("done", 0))
  BY DEF Nothing, IsSeen, Answer, IsAnswer
<1>3. \A d \in Callers : IsCall(call[d]) => IsCall([call[d] EXCEPT !.landed = FALSE])
  BY DEF IsCall
<1>4. ~ Blank.landed
  BY DEF Blank
<1> QED
  BY <1>1, <1>2, <1>3, <1>4 DEF CallsType

LEMMA AtOnceKeepsCalls ==
  ASSUME CallsType, AtOnce
  PROVE  CallsType'
  BY DEF AtOnce, CallsType, Silence, IsAnswer

LEMMA SilenceIsAnswer ==
  /\ IsAnswer(Silence)
  /\ \A n \in Nat : \A k \in {"none", "written", "repeated", "conflict", "raised",
                              "done", "first", "again"} : IsAnswer(Answer(k, n))
  BY DEF Silence, IsAnswer, Answer

\* What is recognised is a row of the call's key.
LEMMA FirstWriteIsThere ==
  ASSUME NEW c, KeyUsed(c)
  PROVE  /\ FirstWrite(c) \in contributions /\ FirstWrite(c).key = call[c].key
         /\ call[c].key # NoKey
  BY DEF KeyUsed, FirstWrite

LEMMA RecogniseIsAnswer ==
  ASSUME TablesType, NEW c, KeyUsed(c)
  PROVE  IsAnswer(Recognise(c)) /\ Recognise(c).kind \in {"repeated", "raised"}
<1>1. FirstWrite(c).sequence \in Nat
  BY FirstWriteIsThere DEF TablesType, Contribution
<1> QED
  BY <1>1 DEF Recognise, Answer, IsAnswer

LEMMA AckAnswerIsAnswer ==
  ASSUME NEW c, IsCall(call[c]), NEW prior
  PROVE  IsAnswer(AckAnswer(c, prior)) /\ AckAnswer(c, prior).kind \in {"first", "again"}
  BY DEF AckAnswer, Answer, IsAnswer, IsCall

-----------------------------------------------------------------------------
(* The types of the tables.                                                *)

LEMMA RecordKeepsTables ==
  ASSUME TablesType, NEW c, IsCall(call[c]), call[c].op = "write",
         NEW number \in Nat, Record(c, number), counter' \in Nat
  PROVE  TablesType'
<1> DEFINE new == IF call[c].region \in Premises THEN call[c].expected + 1 ELSE 0
           row == [sequence |-> number, region |-> call[c].region, version |-> new,
                   key |-> call[c].key]
           woken == {b \in Agents : <<"outbox", b, number>> \notin RowsOf("outbox")}
           added == {[agent |-> a, through |-> number, era |-> run.era] : a \in woken}
<1>1. /\ contributions' = contributions \cup {row}
      /\ versions' = [p \in DOMAIN versions |-> IF p = call[c].region THEN new ELSE versions[p]]
      /\ outbox' = outbox \cup added /\ UNCHANGED <<regions, run, progress>>
  BY DEF Record
<1>2. new \in Nat /\ row \in Contribution
  BY DEF IsCall, Contribution
<1>3. added \subseteq Unsent
  <2>1. run.era \in Nat
    BY DEF TablesType
  <2>2. \A a \in Agents : [agent |-> a, through |-> number, era |-> run.era] \in Unsent
    BY <2>1 DEF Unsent
  <2> QED
    BY <2>2
<1> HIDE DEF new, row, added
<1> QED
  BY <1>1, <1>2, <1>3 DEF TablesType

LEMMA AddRegionKeepsTables ==
  ASSUME TablesType, NEW region \in Region, AddRegion(region), counter' \in Nat
  PROVE  TablesType'
  BY DEF AddRegion, WithRow, TablesType

LEMMA WithoutKeepsTables ==
  ASSUME TablesType, NEW rows, Without(rows)
  PROVE  TablesType'
<1>1. run' \in [state : {"none", "open", "closed"}, era : Nat]
  BY DEF Without, TablesType
<1>2. /\ counter' \in Nat /\ contributions' \subseteq contributions /\ regions' \subseteq regions
      /\ outbox' \subseteq outbox
  BY DEF Without, TablesType
<1>3. /\ DOMAIN versions' \subseteq DOMAIN versions
      /\ \A p \in DOMAIN versions' : versions'[p] = versions[p]
  BY DEF Without, Restrict
<1>4. /\ DOMAIN progress' \subseteq DOMAIN progress
      /\ \A a \in DOMAIN progress' : progress'[a] = progress[a]
  BY DEF Without, Restrict
<1> QED
  BY <1>1, <1>2, <1>3, <1>4 DEF TablesType

\* What no table but the agents' changes.
LEMMA ProgressKeepsTables ==
  ASSUME TablesType, UNCHANGED <<counter, regions, contributions, versions, run, outbox>>,
         \/ \E a \in Agents, n \in Nat : \/ progress' = Declared(a)
                                         \/ progress' = Notified(a, n)
                                         \/ progress' = Acked(a, n)
         \/ progress' = <<>>
  PROVE  TablesType'
<1>1. \A m, n \in Nat : Larger(m, n) \in Nat
  BY DEF Larger
<1>2. ASSUME NEW a \in Agents, NEW n \in Nat,
             progress' = Declared(a) \/ progress' = Notified(a, n) \/ progress' = Acked(a, n)
      PROVE  /\ DOMAIN progress' \subseteq Agents
             /\ \A b \in DOMAIN progress' : progress'[b] \in Progress
  BY <1>1, <1>2 DEF Declared, Notified, Acked, WithRow, TablesType, Progress
<1>3. ASSUME progress' = <<>>
      PROVE  /\ DOMAIN progress' \subseteq Agents
             /\ \A b \in DOMAIN progress' : progress'[b] \in Progress
  BY <1>3
<1> QED
  BY <1>2, <1>3 DEF TablesType

\* What no table but the run's and the outbox changes.
LEMMA RunKeepsTables ==
  ASSUME TablesType, UNCHANGED <<counter, regions, contributions, versions>>,
         run' = run \/ run' = Opened \/ run' = [run EXCEPT !.state = "closed"],
         DOMAIN progress' \subseteq DOMAIN progress,
         \A a \in DOMAIN progress' : progress'[a] = progress[a],
         outbox' \subseteq outbox
  PROVE  TablesType'
<1>1. run' \in [state : {"none", "open", "closed"}, era : Nat]
  BY DEF Opened, TablesType
<1> QED
  BY <1>1 DEF TablesType

\* Whatever an agent is told of, and whatever it answers of that, it has answered
\* nothing beyond what it was told.
LEMMA TellingKeepsAnswers ==
  ASSUME \A b \in DOMAIN progress : progress[b] \in Progress,
         \A b \in DOMAIN progress : progress[b].acked <= progress[b].notified,
         NEW a, NEW n \in Nat, progress' = Declared(a) \/ progress' = Notified(a, n)
  PROVE  \A b \in DOMAIN progress' : progress'[b].acked <= progress'[b].notified
<1>1. \A b \in DOMAIN progress : progress[b].notified \in Nat /\ progress[b].acked \in Nat
  BY DEF Progress
<1>2. \A m \in Nat : Larger(m, n) \in Nat /\ Larger(m, n) >= m
  BY DEF Larger
<1>3. CASE a \in DOMAIN progress
  <2>1. progress' = progress \/ progress' = [progress EXCEPT ![a].notified = Larger(@, n)]
    BY <1>3 DEF Declared, Notified
  <2>2. \A b \in DOMAIN progress' : /\ b \in DOMAIN progress
                                    /\ progress'[b].acked = progress[b].acked
                                    /\ progress'[b].notified >= progress[b].notified
                                    /\ progress'[b].notified \in Nat
    BY <1>1, <1>2, <1>3, <2>1 DEF Progress
  <2> QED
    BY <1>1, <2>2
<1>4. CASE a \notin DOMAIN progress
  BY <1>4 DEF Declared, Notified, WithRow
<1> QED
  BY <1>3, <1>4

LEMMA AckedKeepsAnswers ==
  ASSUME \A b \in DOMAIN progress : progress[b] \in Progress,
         \A b \in DOMAIN progress : progress[b].acked <= progress[b].notified,
         NEW a \in DOMAIN progress, NEW n, n <= progress[a].notified,
         progress' = Acked(a, n)
  PROVE  \A b \in DOMAIN progress' : progress'[b].acked <= progress'[b].notified
<1>1. \A m : m <= progress[a].notified => Larger(m, n) <= progress[a].notified
  BY DEF Larger
<1> QED
  BY <1>1 DEF Acked, Progress

\* A row of a table is among the table's rows.
LEMMA RowsAreThere ==
  /\ \A c \in contributions : <<"contributions", c.sequence>> \in RowsOf("contributions")
  /\ \A p \in DOMAIN versions : <<"premises", p>> \in RowsOf("premises")
  /\ \A r \in regions : <<"regions", r>> \in RowsOf("regions")
  /\ counter # 0 <=> <<"boards">> \in RowsOf("boards")
  /\ run.state # "none" <=> <<"run_state">> \in RowsOf("run_state")
  /\ \A a \in DOMAIN progress : <<"agent_progress", a>> \in RowsOf("agent_progress")
  BY DEF RowsOf

-----------------------------------------------------------------------------
(* The record.                                                             *)

LEMMA WrittenIsNat ==
  ASSUME RecordInv
  PROVE  Written \in Nat /\ \A r : IsFiniteSet(Of(r)) /\ Cardinality(Of(r)) \in Nat
<1>1. IsFiniteSet(contributions) /\ \A r : Of(r) \in SUBSET contributions
  BY DEF RecordInv, Of
<1> QED
  BY <1>1, FS_Subset, FS_CardinalityType DEF Written

\* The record is of three tables only.
LEMMA SameRecord ==
  ASSUME RecordInv, UNCHANGED <<contributions, versions, regions>>
  PROVE  RecordInv'
  BY DEF RecordInv, Written, Of

LEMMA RecordInvGivesWhole ==
  ASSUME TablesType, RecordInv
  PROVE  RecordWhole
<1>1. {c.sequence : c \in contributions} = 1..Cardinality(contributions)
  BY DEF RecordInv, Written
<1>2. ASSUME NEW p \in DOMAIN versions
      PROVE  /\ versions[p] = Cardinality({c \in contributions : c.region = p})
             /\ {c.version : c \in {k \in contributions : k.region = p}} = 1..versions[p]
  BY <1>2 DEF RecordInv, Of, TablesType
<1> QED
  BY <1>1, <1>2 DEF RecordWhole

\* A premise's rows are as many as its versions and every version has one, so no
\* version has two.
LEMMA RecordInvGivesOneWinner ==
  ASSUME TablesType, RecordInv
  PROVE  OneWinner
<1> SUFFICES ASSUME NEW c \in contributions, NEW d \in contributions,
                    c.region = d.region, c.version = d.version, c.version > 0
             PROVE  c = d
  BY DEF OneWinner
<1> DEFINE p == c.region
           version == [k \in Of(p) |-> k.version]
<1>1. /\ p \in DOMAIN versions /\ versions[p] \in Nat /\ versions[p] = Cardinality(Of(p))
      /\ \A v \in 1..versions[p] : \E k \in Of(p) : k.version = v
      /\ \A k \in Of(p) : k.version \in 1..versions[p]
  <2>1. p \in Premises /\ p \in DOMAIN versions
    BY DEF RecordInv
  <2>2. versions[p] \in Nat /\ versions[p] = Cardinality(Of(p))
    BY <2>1 DEF RecordInv, TablesType
  <2>3. \A v \in 1..versions[p] : \E k \in Of(p) : k.version = v
    BY <2>1 DEF RecordInv
  <2>4. \A k \in Of(p) : k.version \in 1..versions[p]
    BY <2>1 DEF RecordInv, Of
  <2> QED
    BY <2>1, <2>2, <2>3, <2>4
<1>2. IsFiniteSet(Of(p)) /\ c \in Of(p) /\ d \in Of(p)
  BY WrittenIsNat DEF Of
<1> HIDE DEF p
<1>3. version \in Surjection(Of(p), 1..versions[p])
  BY <1>1 DEF Surjection
<1>4. Cardinality(1..versions[p]) = Cardinality(Of(p))
  <2>1. Cardinality(1..versions[p]) = IF 1 > versions[p] THEN 0 ELSE versions[p] - 1 + 1
    BY <1>1, FS_Interval
  <2> QED
    BY <1>1, <2>1
<1> HIDE DEF version
<1>5. version \in Injection(Of(p), 1..versions[p])
  BY <1>2, <1>3, <1>4, FS_Surjection
<1>6. version[c] = version[d]
  BY <1>2 DEF version
<1> QED
  BY <1>2, <1>5, <1>6 DEF Injection, IsInjective

\* A write that is fresh and names the version it replaces keeps the record.
LEMMA WriteKeepsRecord ==
  ASSUME TablesType, RecordInv, NEW c, IsCall(call[c]), Record(c, Written + 1),
         ~ KeyUsed(c), call[c].region \in regions,
         call[c].region \in Premises =>
           call[c].region \in DOMAIN versions /\ versions[call[c].region] = call[c].expected
  PROVE  RecordInv' /\ Written' = Written + 1
<1> DEFINE region == call[c].region
           new == IF region \in Premises THEN call[c].expected + 1 ELSE 0
           row == [sequence |-> Written + 1, region |-> region, version |-> new,
                   key |-> call[c].key]
<1>1. /\ contributions' = contributions \cup {row} /\ regions' = regions
      /\ versions' = [p \in DOMAIN versions |-> IF p = region THEN new ELSE versions[p]]
  BY DEF Record
<1>2. /\ row.sequence = Written + 1 /\ row.region = region /\ row.version = new
      /\ row.key = call[c].key
  OBVIOUS
<1>3. Written \in Nat /\ \A r : IsFiniteSet(Of(r)) /\ Cardinality(Of(r)) \in Nat
  BY WrittenIsNat
<1>4. \A k \in contributions : /\ k.sequence \in 1..Written
                               /\ k.key # call[c].key \/ k.key = NoKey
  BY DEF RecordInv, KeyUsed
<1>5. region \in regions
  OBVIOUS
<1>6. region \in Premises => region \in DOMAIN versions /\ new = versions[region] + 1
  OBVIOUS
<1>7. region \notin Premises => new = 0
  OBVIOUS
<1> HIDE DEF region, new, row
<1>8. row \notin contributions
  BY <1>2, <1>3, <1>4
<1>9. IsFiniteSet(contributions') /\ Written' = Written + 1
  BY <1>1, <1>8, FS_AddElement DEF Written, RecordInv
<1>10. \A r : Of(r)' = IF r = region THEN Of(r) \cup {row} ELSE Of(r)
  BY <1>1, <1>2 DEF Of
<1>11. \A r : Cardinality(Of(r)') = IF r = region THEN Cardinality(Of(r)) + 1
                                                   ELSE Cardinality(Of(r))
  <2>1. row \notin Of(region)
    BY <1>8 DEF Of
  <2> QED
    BY <1>3, <1>10, <2>1, FS_AddElement
<1>12. /\ \A k \in contributions' : k.sequence \in 1..Written'
       /\ \A n \in 1..Written' : \E k \in contributions' : k.sequence = n
  <2>1. \A n \in 1..Written' : n \in 1..Written \/ n = Written + 1
    BY <1>3, <1>9
  <2> QED
    BY <1>1, <1>2, <1>3, <1>4, <1>9, <2>1 DEF RecordInv
<1>13. /\ \A k, d \in contributions' : k.sequence = d.sequence => k = d
       /\ \A k, d \in contributions' : k.key = d.key /\ k.key # NoKey => k = d
  <2>1. \A k \in contributions : k.sequence # row.sequence
    BY <1>2, <1>3, <1>4
  <2>2. \A k \in contributions : k.key = row.key => k.key = NoKey
    BY <1>2, <1>4
  <2> QED
    BY <1>1, <2>1, <2>2 DEF RecordInv
<1>14. ASSUME NEW k \in contributions'
       PROVE  /\ k.region \in regions'
              /\ IF k.region \in Premises
                 THEN k.region \in DOMAIN versions' /\ k.version \in 1..versions'[k.region]
                 ELSE k.version = 0
  <2>1. CASE k = row
    <3>1. region \in Premises => versions[region] \in Nat
      BY <1>6 DEF TablesType
    <3> QED
      BY <1>1, <1>2, <1>5, <1>6, <1>7, <2>1, <3>1
  <2>2. CASE k \in contributions /\ k.region = region
    BY <1>1, <1>5, <1>6, <1>7, <2>2 DEF RecordInv, TablesType
  <2>3. CASE k \in contributions /\ k.region # region
    BY <1>1, <2>3 DEF RecordInv
  <2> QED
    BY <1>1, <1>14, <2>1, <2>2, <2>3
<1>15. ASSUME NEW p \in DOMAIN versions'
       PROVE  /\ p \in regions'
              /\ versions'[p] = Cardinality(Of(p)')
              /\ \A v \in 1..versions'[p] : \E k \in Of(p)' : k.version = v
  <2>1. /\ p \in DOMAIN versions /\ p \in Premises /\ p \in regions
        /\ versions[p] \in Nat /\ versions[p] = Cardinality(Of(p))
        /\ \A v \in 1..versions[p] : \E k \in Of(p) : k.version = v
    BY <1>1, <1>15 DEF RecordInv, TablesType
  <2>2. CASE p = region
    <3>1. versions'[p] = versions[p] + 1 /\ row.version = versions[p] + 1 /\ row \in Of(p)'
      BY <1>1, <1>2, <1>6, <1>10, <2>1, <2>2
    <3>2. \A v \in 1..versions'[p] : v \in 1..versions[p] \/ v = versions[p] + 1
      BY <2>1, <3>1
    <3>3. \A k \in Of(p) : k \in Of(p)'
      BY <1>10
    <3> QED
      BY <1>1, <1>11, <2>1, <2>2, <3>1, <3>2, <3>3
  <2>3. CASE p # region
    BY <1>1, <1>10, <1>11, <2>1, <2>3
  <2> QED
    BY <2>2, <2>3
<1> QED
  BY <1>9, <1>12, <1>13, <1>14, <1>15 DEF RecordInv

\* A declaration of a name that is not declared keeps the record.
LEMMA AddRegionKeepsRecord ==
  ASSUME TablesType, RecordInv, NEW region, region \notin regions, AddRegion(region)
  PROVE  RecordInv' /\ contributions' = contributions
<1>1. /\ contributions' = contributions /\ regions' = regions \cup {region}
      /\ versions' = IF region \in Premises THEN WithRow(versions, region, 0) ELSE versions
  BY DEF AddRegion
<1>2. \A r : Of(r)' = Of(r)
  BY <1>1 DEF Of
<1>3. Of(region) = {} /\ region \notin DOMAIN versions
  <2>1. \A k \in contributions : k.region # region
    BY DEF RecordInv
  <2>2. \A p \in DOMAIN versions : p # region
    BY DEF RecordInv
  <2> QED
    BY <2>1, <2>2 DEF Of
<1>4. Cardinality({}) = 0
  BY FS_EmptySet
<1>5. \A p \in DOMAIN versions : p \in DOMAIN versions' /\ versions'[p] = versions[p]
  BY <1>1, <1>3 DEF WithRow
<1>6. \A p \in DOMAIN versions' : p \in DOMAIN versions \/ (p = region /\ versions'[p] = 0)
  BY <1>1 DEF WithRow
<1>7. \A k \in contributions :
        /\ k.region \in regions'
        /\ IF k.region \in Premises
           THEN k.region \in DOMAIN versions' /\ k.version \in 1..versions'[k.region]
           ELSE k.version = 0
  BY <1>1, <1>5 DEF RecordInv
<1>8. \A p \in DOMAIN versions' :
        /\ p \in regions' /\ versions'[p] = Cardinality(Of(p)')
        /\ \A v \in 1..versions'[p] : \E k \in Of(p)' : k.version = v
  BY <1>1, <1>2, <1>3, <1>4, <1>5, <1>6 DEF RecordInv
<1> QED
  BY <1>1, <1>7, <1>8 DEF RecordInv, Written

\* A deletion that takes the rows of the record leaves none.
LEMMA DeletionEmptiesRecord ==
  ASSUME NEW rows, Without(rows), RowsOf("contributions") \subseteq rows,
         RowsOf("premises") \subseteq rows, RowsOf("regions") \subseteq rows
  PROVE  RecordInv' /\ contributions' = {}
<1>1. contributions' = {} /\ DOMAIN versions' = {} /\ regions' = {}
  BY RowsAreThere DEF Without, Restrict
<1>2. IsFiniteSet({}) /\ Cardinality({}) = 0 /\ 1..0 = {}
  BY FS_EmptySet
<1> QED
  BY <1>1, <1>2 DEF RecordInv, Written, Of

-----------------------------------------------------------------------------
(* The record as one log.                                                  *)

Row(n) == CHOOSE k \in contributions : k.sequence = n
Shown(k) == [region |-> k.region, key |-> k.key,
             expected |-> IF k.version = 0 THEN 0 ELSE k.version - 1]

\* The log shows the row of each number.
LogShowsRows ==
  /\ Log \in Seq(Promise!Entry) /\ Len(Log) = Written /\ DOMAIN Log = 1..Written
  /\ \A n \in 1..Written :
       Row(n) \in contributions /\ Row(n).sequence = n /\ Log[n] = Shown(Row(n))
  /\ \A k \in contributions : k.sequence \in 1..Written /\ Row(k.sequence) = k

LEMMA RecordIsLog == TablesType /\ RecordInv => LogShowsRows
<1> SUFFICES ASSUME TablesType, RecordInv PROVE LogShowsRows
  OBVIOUS
<1>1. \A n \in 1..Written : Row(n) \in contributions /\ Row(n).sequence = n
  BY DEF RecordInv, Row
<1>2. \A k \in contributions : k.sequence \in 1..Written /\ Row(k.sequence) = k
  BY <1>1 DEF RecordInv
<1>3. Log = [n \in 1..Written |-> Shown(Row(n))] /\ Written \in Nat
  BY WrittenIsNat DEF Log, Row, Shown, Written
<1>4. \A k \in contributions : Shown(k) \in Promise!Entry
  BY DEF TablesType, Contribution, Region, Shown, Promise!Entry
<1>5. Log \in [1..Written -> Promise!Entry]
  BY <1>1, <1>3, <1>4
<1>6. Log \in Seq(Promise!Entry)
  BY <1>3, <1>5, SeqDef
<1>7. DOMAIN Log = 1..Written /\ Len(Log) = Written
  BY <1>3, <1>5, <1>6, LenProperties
<1> QED
  BY <1>1, <1>2, <1>3, <1>6, <1>7 DEF LogShowsRows

\* A premise's version is how often the log says that it was written.
LEMMA LogCountsWrites ==
  ASSUME RecordInv, LogShowsRows, NEW p
  PROVE  Promise!WritesTo(p) = Cardinality(Of(p))
<1> DEFINE places == {i \in DOMAIN Log : Log[i].region = p}
           row == [i \in places |-> Row(i)]
<1>1. places = {i \in 1..Written : Row(i).region = p}
  BY DEF LogShowsRows, Shown
<1>2. row \in Bijection(places, Of(p))
  <2>1. \A i \in places : row[i] = Row(i) /\ Row(i) \in Of(p) /\ Row(i).sequence = i
    BY <1>1 DEF Of, LogShowsRows
  <2>2. \A k \in Of(p) : k.sequence \in places /\ row[k.sequence] = k
    BY <1>1 DEF Of, LogShowsRows
  <2> HIDE DEF places
  <2>3. row \in [places -> Of(p)]
    BY <2>1
  <2> HIDE DEF row
  <2>4. \A i, j \in places : row[i] = row[j] => i = j
    BY <2>1
  <2> QED
    BY <2>2, <2>3, <2>4 DEF Bijection, Injection, IsInjective, Surjection
<1>3. IsFiniteSet(places)
  <2>1. Written \in Nat
    BY WrittenIsNat
  <2>2. IsFiniteSet(1..Written) /\ places \in SUBSET (1..Written)
    BY <1>1, <2>1, FS_Interval
  <2> QED
    BY <2>2, FS_Subset
<1>4. Cardinality(Of(p)) = Cardinality(places)
  <2> HIDE DEF places, row
  <2>1. ExistsBijection(places, Of(p))
    BY <1>2 DEF ExistsBijection
  <2> QED
    BY <1>3, <2>1, FS_Bijection
<1> QED
  BY <1>4 DEF Promise!WritesTo, Cardinality, Promise!Cardinality

\* A fresh write that names the version it replaces is a write of the log.
LEMMA WriteExtendsLog ==
  ASSUME TablesType, TablesType', RecordInv, NEW c, IsCall(call[c]),
         call[c].region \in Region, Record(c, Written + 1), ~ KeyUsed(c),
         call[c].region \in regions,
         call[c].region \in Premises =>
           call[c].region \in DOMAIN versions /\ versions[call[c].region] = call[c].expected
  PROVE  Promise!Next
<1> DEFINE region == call[c].region
           new == IF region \in Premises THEN call[c].expected + 1 ELSE 0
           row == [sequence |-> Written + 1, region |-> region, version |-> new,
                   key |-> call[c].key]
           entry == [region |-> region, key |-> call[c].key,
                     expected |-> IF region \in Premises THEN call[c].expected ELSE 0]
<1>1. contributions' = contributions \cup {row}
  BY DEF Record
<1>2. Shown(row) = entry
  BY DEF Shown, IsCall
<1>3. /\ row.sequence = Written + 1 /\ row \in contributions'
      /\ entry.region = region /\ entry.key = call[c].key
      /\ region \in Premises => entry.expected = versions[region]
      /\ entry \in Promise!Entry
  BY <1>1 DEF IsCall, Promise!Entry, Region
<1>4. Written \in Nat /\ Written' = Written + 1 /\ RecordInv'
  BY WrittenIsNat, WriteKeepsRecord
<1>5. LogShowsRows /\ LogShowsRows'
  <2>1. TablesType' /\ RecordInv' => LogShowsRows'
    BY RecordIsLog, PTL
  <2> QED
    BY <1>4, <2>1, RecordIsLog
<1>6. region \in Premises => entry.expected = Promise!WritesTo(region)
  <2>1. region \in Premises => versions[region] = Cardinality(Of(region))
    BY DEF RecordInv
  <2> QED
    BY <1>3, <1>5, <2>1, LogCountsWrites
<1> HIDE DEF new, row, entry
<1>7. Promise!Fresh(entry.key)
  <2>1. \A k \in contributions : entry.key = NoKey \/ k.key # entry.key
    BY <1>3 DEF KeyUsed
  <2>2. \A n \in DOMAIN Log : \E k \in contributions : Log[n] = Shown(k)
    BY <1>5 DEF LogShowsRows
  <2> QED
    BY <2>1, <2>2 DEF Promise!Fresh, Shown
<1>8. \A n \in 1..Written : Row(n)' = Row(n)
  BY <1>1, <1>4, <1>5 DEF LogShowsRows
<1>9. ASSUME NEW n, n = Written + 1 PROVE Row(n)' = row
  BY <1>3, <1>5, <1>9 DEF LogShowsRows
<1>10. Log' = Append(Log, entry) /\ Len(Log') = Len(Log) + 1 /\ Log'[Len(Log')] = entry
  <2>1. /\ Log \in Seq(Promise!Entry) /\ Len(Log) = Written /\ Log' \in Seq(Promise!Entry)
        /\ Len(Log') = Written + 1
    BY <1>4, <1>5 DEF LogShowsRows, Promise!Entry
  <2>2. \A n \in 1..Written : Log'[n] = Log[n]
    <3>1. \A n \in 1..Written : Log'[n] = Shown(Row(n)') /\ Log[n] = Shown(Row(n))
      BY <1>4, <1>5 DEF LogShowsRows, Shown
    <3> QED
      BY <1>8, <3>1
  <2>3. Log'[Written + 1] = entry
    <3>1. ASSUME NEW n, n = Written + 1 PROVE Log'[n] = Shown(Row(n)')
      BY <1>4, <1>5, <3>1 DEF LogShowsRows, Shown
    <3> QED
      BY <1>2, <1>9, <3>1
  <2>4. /\ Append(Log, entry) \in Seq(Promise!Entry) /\ Len(Append(Log, entry)) = Written + 1
        /\ \A n \in 1..Written : Append(Log, entry)[n] = Log[n]
        /\ Append(Log, entry)[Written + 1] = entry
    BY <1>3, <2>1, AppendProperties
  <2>5. \A n \in 1..Len(Log') : Log'[n] = Append(Log, entry)[n]
    <3>1. \A n \in 1..Len(Log') : n \in 1..Written \/ n = Written + 1
      BY <1>4, <2>1
    <3> QED
      BY <2>2, <2>3, <2>4, <3>1
  <2>6. Log' = Append(Log, entry)
    BY <2>1, <2>4, <2>5, SeqEqual
  <2> QED
    BY <2>1, <2>3, <2>6
<1>11. Promise!Extend(entry)
  BY <1>3, <1>6, <1>7, <1>10 DEF Promise!Extend
<1> QED
  BY <1>3, <1>10, <1>11 DEF Promise!Next

\* A deletion is the deletion of the log, and what leaves the rows leaves the log.
LEMMA DeletionClearsLog ==
  ASSUME contributions' = {}
  PROVE  Promise!Next
<1>1. Cardinality({}) = 0 /\ 1..0 = {}
  BY FS_EmptySet
<1>2. Log' = <<>>
  BY <1>1 DEF Log
<1> QED
  BY <1>2 DEF Promise!Next, Promise!Clear

LEMMA EmptyLog ==
  ASSUME contributions = {}
  PROVE  Promise!Init
<1>1. Cardinality({}) = 0 /\ 1..0 = {}
  BY FS_EmptySet
<1> QED
  BY <1>1 DEF Log, Promise!Init
-----------------------------------------------------------------------------
(* SqliteStore, whose calls need little more: while no two processes are   *)
(* in a call at the same time, what a statement found stands until the     *)
(* next one.                                                               *)

CONSTANT ProcessOf
Sqlite == INSTANCE SqliteStore

\* What SqliteStore takes from SharedTables, under its own names.
LEMMA SqliteWords ==
  /\ Sqlite!Nothing = Nothing /\ Sqlite!Silence = Silence
  /\ \A k, n : Sqlite!Answer(k, n) = Answer(k, n)
  /\ \A c : Sqlite!KeyUsed(c) = KeyUsed(c)
  /\ \A c : Sqlite!Recognise(c) = Recognise(c)
  /\ \A c : Sqlite!Answerable(c) = Answerable(c)
  /\ \A c, n : Sqlite!AckAnswer(c, n) = AckAnswer(c, n)
  /\ \A a, n : Sqlite!Acked(a, n) = Acked(a, n)
  /\ \A a, n : Sqlite!Notified(a, n) = Notified(a, n)
  /\ \A a : Sqlite!Declared(a) = Declared(a)
  /\ Sqlite!Opened = Opened
  /\ \A a, n : Sqlite!Marked(a, n) = Marked(a, n)
  BY DEF Sqlite!Nothing, Nothing, Sqlite!Silence, Silence, Sqlite!Answer, Answer,
         Sqlite!KeyUsed, KeyUsed, Sqlite!Recognise, Recognise, Sqlite!FirstWrite, FirstWrite,
         Sqlite!Answerable, Answerable, Sqlite!AckAnswer, AckAnswer, Sqlite!Acked, Acked,
         Sqlite!Notified, Notified, Sqlite!Declared, Declared, Sqlite!Larger, Larger,
         Sqlite!WithRow, WithRow, Sqlite!Opened, Opened, Sqlite!Marked, Marked

\* And its steps: each is one of the same name, of these tables and calls.
LEMMA SqliteMoves ==
  /\ \A c, s, w : Sqlite!Proceed(c, s, w) => Proceed(c, s, w)
  /\ \A c, a : Sqlite!Return(c, a) => Return(c, a)
  /\ \A c : Sqlite!ReturnDeleted(c) => ReturnDeleted(c)
  /\ \A c, r, f, o : Sqlite!Begin(c, r, f, o) => Begin(c, r, f, o)
  /\ Sqlite!AtOnce => AtOnce
  /\ \A c, n : Sqlite!Record(c, n) => Record(c, n)
  /\ \A r : Sqlite!AddRegion(r) => AddRegion(r)
  /\ UNCHANGED Sqlite!tables => UNCHANGED tables
  /\ UNCHANGED Sqlite!shared => UNCHANGED shared
<1>1. \A t : Sqlite!RowsOf(t) = RowsOf(t)
  BY DEF Sqlite!RowsOf, RowsOf, Sqlite!KeyRows, KeyRows
<1>2. \A c, n : Sqlite!Record(c, n) => Record(c, n)
  BY <1>1 DEF Sqlite!Record, Record
<1>3. \A c, s, w : Sqlite!Proceed(c, s, w) => Proceed(c, s, w)
  BY DEF Sqlite!Proceed, Proceed, Sqlite!Silence, Silence
<1>4. \A c, a : Sqlite!Return(c, a) => Return(c, a)
  BY DEF Sqlite!Return, Return, Sqlite!Blank, Blank, Sqlite!Nothing, Nothing
<1>5. \A c : Sqlite!ReturnDeleted(c) => ReturnDeleted(c)
  BY DEF Sqlite!ReturnDeleted, ReturnDeleted, Sqlite!Blank, Blank, Sqlite!Nothing, Nothing,
         Sqlite!Answer, Answer
<1>6. \A c, r, f, o : Sqlite!Begin(c, r, f, o) => Begin(c, r, f, o)
  BY DEF Sqlite!Begin, Begin, Sqlite!Silence, Silence, Sqlite!tables, tables,
         Sqlite!Cardinality, Cardinality
<1>7. Sqlite!AtOnce => AtOnce
  BY DEF Sqlite!AtOnce, AtOnce, Sqlite!Silence, Silence
<1>8. \A r : Sqlite!AddRegion(r) => AddRegion(r)
  BY DEF Sqlite!AddRegion, AddRegion, Sqlite!WithRow, WithRow
<1>9. UNCHANGED Sqlite!tables => UNCHANGED tables
  BY DEF Sqlite!tables, tables
<1>10. UNCHANGED Sqlite!shared => UNCHANGED shared
  BY DEF Sqlite!shared, shared, Sqlite!tables, tables, Sqlite!calls, calls
<1> QED
  BY <1>2, <1>3, <1>4, <1>5, <1>6, <1>7, <1>8, <1>9, <1>10

\* Its deletion takes every row there is.
LEMMA SqliteDeletes ==
  ASSUME NEW c, Sqlite!Delete(c)
  PROVE  \E rows : /\ Without(rows) /\ RowsOf("contributions") \subseteq rows
                   /\ RowsOf("premises") \subseteq rows /\ RowsOf("regions") \subseteq rows
                   /\ RowsOf("agent_progress") \subseteq rows
                   /\ ReturnDeleted(c) /\ at[c] = "delete"
<1> DEFINE rows == Sqlite!AllRows
<1>1. \A t : Sqlite!RowsOf(t) = RowsOf(t)
  BY DEF Sqlite!RowsOf, RowsOf, Sqlite!KeyRows, KeyRows
<1>2. Sqlite!Without(rows) => Without(rows)
  BY DEF Sqlite!Without, Without, Sqlite!Restrict, Restrict
<1>3. /\ RowsOf("contributions") \subseteq rows /\ RowsOf("premises") \subseteq rows
      /\ RowsOf("regions") \subseteq rows /\ RowsOf("agent_progress") \subseteq rows
  BY <1>1 DEF Sqlite!AllRows, Sqlite!TableNames
<1>4. Sqlite!Without(rows) /\ Sqlite!ReturnDeleted(c) /\ at[c] = "delete"
  BY DEF Sqlite!Delete
<1> HIDE DEF rows
<1> QED
  BY <1>2, <1>3, <1>4, SqliteMoves

\* It is asked what the other engines are asked.
LEMMA SqliteRequests == Sqlite!Requests = Requests
<1>1. /\ \A r, k, v : Sqlite!WriteCall(r, k, v) = WriteCall(r, k, v)
      /\ \A r : Sqlite!DeclareCall(r) = DeclareCall(r)
      /\ \A a, n : Sqlite!AckCall(a, n) = AckCall(a, n)
  BY DEF Sqlite!WriteCall, WriteCall, Sqlite!Landed, Landed, Sqlite!DeclareCall, DeclareCall,
         Sqlite!AckCall, AckCall, Sqlite!Blank, Blank
<1>2. Sqlite!Region = Region /\ Sqlite!Numbers = Numbers /\ Sqlite!Blank = Blank
  BY DEF Sqlite!Region, Region, Sqlite!Numbers, Numbers, Sqlite!Blank, Blank
<1> QED
  BY <1>1, <1>2 DEF Sqlite!Requests, Requests


-----------------------------------------------------------------------------
(* What a step of SqliteStore is.                                          *)

\* The call that runs each statement.
SqliteOp(stage) ==
  CASE stage \in {"require", "look_up", "version", "number", "write"} -> "write"
    [] stage \in {"kind_of", "insert_region"} -> "declare"
    [] stage \in {"read_progress", "raise"} -> "acknowledge"
    [] stage \in {"delete", "close"} -> stage
SqliteStages == {"require", "look_up", "version", "number", "write", "kind_of",
                 "insert_region", "read_progress", "raise", "delete", "close"}

\* A statement only reads, and lets the call go on to another.
SqliteReads(c, stage, shown) ==
  \/ at[c] = "require" /\ stage = "look_up" /\ shown = Nothing /\ call[c].region \in regions
  \/ at[c] = "look_up" /\ stage = "version" /\ shown = Nothing
       /\ ~ KeyUsed(c) /\ call[c].region \in Premises
  \/ at[c] = "look_up" /\ stage = "number" /\ shown = Nothing
       /\ ~ KeyUsed(c) /\ call[c].region \notin Premises
  \/ at[c] = "version" /\ stage = "number" /\ shown = Nothing
       /\ call[c].region \in DOMAIN versions /\ versions[call[c].region] = call[c].expected
  \/ at[c] = "number" /\ stage = "write"
       /\ shown = [Nothing EXCEPT !.number = Sqlite!LastNumber + 1]
  \/ at[c] = "kind_of" /\ stage = "insert_region" /\ shown = Nothing
  \/ at[c] = "read_progress" /\ stage = "raise" /\ Answerable(c)
       /\ shown = [Nothing EXCEPT !.prior = progress[call[c].agent].acked]

\* A call that ends without having changed anything.
SqliteRefuses(c, answer) ==
  \/ answer = Silence
  \/ /\ answer = Answer("raised", 0)
     /\ at[c] \in {"require", "version", "write", "kind_of", "insert_region", "read_progress"}
     /\ at[c] = "require" => call[c].region \notin regions
     /\ at[c] = "version" => call[c].region \notin DOMAIN versions
     /\ at[c] = "write" =>
          KeyUsed(c) \/ \E k \in contributions : k.sequence = seen[c].number
  \/ at[c] = "look_up" /\ KeyUsed(c) /\ answer = Recognise(c)
  \/ at[c] = "version" /\ answer = Answer("conflict", 0)
  \/ at[c] = "close" /\ answer = Answer("again", 0)

SqliteWrites(c) ==
  /\ at[c] = "write" /\ ~ KeyUsed(c)
  /\ \A k \in contributions : k.sequence # seen[c].number
  /\ Record(c, seen[c].number) /\ counter' = counter
  /\ Return(c, Answer("written", seen[c].number))
SqliteAdds(c) ==
  /\ at[c] = "insert_region" /\ call[c].region \notin regions
  /\ AddRegion(call[c].region) /\ counter' = counter
  /\ Return(c, Answer("done", 0))
SqliteEmpties(c) ==
  /\ at[c] = "delete" /\ ReturnDeleted(c)
  /\ \E rows : /\ Without(rows) /\ RowsOf("contributions") \subseteq rows
               /\ RowsOf("premises") \subseteq rows /\ RowsOf("regions") \subseteq rows
               /\ RowsOf("agent_progress") \subseteq rows
SqliteCloses(c) ==
  /\ at[c] = "close"
  /\ run' = [run EXCEPT !.state = "closed"] /\ progress' = <<>> /\ outbox' = {}
  /\ UNCHANGED <<counter, regions, contributions, versions>>
  /\ Return(c, Answer("done", 0))
SqliteRaises(c) ==
  /\ at[c] = "raise"
  /\ progress' = IF call[c].agent \in DOMAIN progress
                 THEN Acked(call[c].agent, call[c].through) ELSE progress
  /\ UNCHANGED <<counter, regions, contributions, versions, run, outbox>>
  /\ Return(c, AckAnswer(c, seen[c].prior))
SqliteChanges(c) ==
  SqliteWrites(c) \/ SqliteAdds(c) \/ SqliteEmpties(c) \/ SqliteCloses(c) \/ SqliteRaises(c)

\* A call begins: where no other is under way, unless calls overlap from here on.
SqliteBegins(c, request) ==
  \E first \in {"require", "kind_of", "read_progress", "delete", "close"},
     overlaps \in BOOLEAN :
       /\ Begin(c, request, first, overlaps) /\ request.op = SqliteOp(first)
       /\ overlaps \/ \A d \in Callers : at[d] = "idle"

\* The calls of one statement leave the record alone.
SqliteAtOnce ==
  /\ AtOnce /\ UNCHANGED <<counter, regions, contributions, versions>>
  /\ \/ run' = Opened /\ UNCHANGED <<progress, outbox>>
     \/ /\ \E a \in Agents, n \in Nat : progress' = Declared(a) \/ progress' = Notified(a, n)
        /\ UNCHANGED <<run, outbox>>
     \/ outbox' \subseteq outbox /\ UNCHANGED <<run, progress>>

SqliteStep ==
  \/ \E c \in Callers :
       \/ UNCHANGED tables /\ \E stage, shown :
            SqliteReads(c, stage, shown) /\ Proceed(c, stage, shown)
       \/ UNCHANGED tables /\ at[c] # "idle" /\ \E answer :
            SqliteRefuses(c, answer) /\ Return(c, answer)
       \/ SqliteChanges(c)
  \/ \E c \in Callers, request \in Requests : SqliteBegins(c, request)
  \/ SqliteAtOnce
  \/ UNCHANGED shared

\* Each operation, asking and the calls of one statement are such a step.
LEMMA SqliteOperations ==
  ASSUME NEW c \in Callers, Sqlite!Operation(c) \/ Sqlite!Stops(c)
  PROVE  SqliteStep
<1> USE SqliteWords
<1>0. /\ \A a : Sqlite!Return(c, a) => Return(c, a)
      /\ \A s, w : Sqlite!Proceed(c, s, w) => Proceed(c, s, w)
      /\ UNCHANGED Sqlite!tables => UNCHANGED tables
  BY SqliteMoves
<1>1. ASSUME NEW stage, NEW shown, SqliteReads(c, stage, shown), Sqlite!OnTo(c, stage, shown)
      PROVE  SqliteStep
  BY <1>0, <1>1 DEF Sqlite!OnTo, SqliteStep
<1>2. ASSUME NEW answer, SqliteRefuses(c, answer), Sqlite!Return(c, answer), at[c] # "idle",
             UNCHANGED Sqlite!tables
      PROVE  SqliteStep
  BY <1>0, <1>2 DEF SqliteStep
<1>3. ASSUME SqliteChanges(c) PROVE SqliteStep
  BY <1>3 DEF SqliteStep
<1>4. ASSUME Sqlite!Fails(c),
             at[c] \in {"require", "version", "write", "kind_of", "insert_region", "read_progress"},
             at[c] = "require" => call[c].region \notin regions,
             at[c] = "version" => call[c].region \notin DOMAIN versions,
             at[c] = "write" => KeyUsed(c) \/ \E k \in contributions : k.sequence = seen[c].number
      PROVE  SqliteStep
  BY <1>2, <1>4 DEF Sqlite!Fails, SqliteRefuses
<1>5. CASE Sqlite!Require(c)
  <2>1. CASE call[c].region \in regions
    BY <1>1, <1>5, <2>1 DEF Sqlite!Require, SqliteReads
  <2>2. CASE call[c].region \notin regions
    BY <1>4, <1>5, <2>2 DEF Sqlite!Require
  <2> QED
    BY <2>1, <2>2
<1>6. CASE Sqlite!AlreadyWritten(c)
  <2>1. CASE KeyUsed(c)
    BY <1>2, <1>6, <2>1 DEF Sqlite!AlreadyWritten, SqliteRefuses
  <2>2. CASE ~ KeyUsed(c) /\ call[c].region \in Premises
    BY <1>1, <1>6, <2>2 DEF Sqlite!AlreadyWritten, SqliteReads
  <2>3. CASE ~ KeyUsed(c) /\ call[c].region \notin Premises
    BY <1>1, <1>6, <2>3 DEF Sqlite!AlreadyWritten, SqliteReads
  <2> QED
    BY <2>1, <2>2, <2>3
<1>7. CASE Sqlite!CompareVersion(c)
  <2>1. CASE call[c].region \notin DOMAIN versions
    BY <1>4, <1>7, <2>1 DEF Sqlite!CompareVersion
  <2>2. CASE call[c].region \in DOMAIN versions /\ versions[call[c].region] # call[c].expected
    BY <1>2, <1>7, <2>2 DEF Sqlite!CompareVersion, SqliteRefuses
  <2>3. CASE call[c].region \in DOMAIN versions /\ versions[call[c].region] = call[c].expected
    BY <1>1, <1>7, <2>3 DEF Sqlite!CompareVersion, SqliteReads
  <2> QED
    BY <2>1, <2>2, <2>3
<1>8. CASE Sqlite!NextNumber(c)
  BY <1>1, <1>8 DEF Sqlite!NextNumber, SqliteReads
<1>9. CASE Sqlite!Write(c)
  <2>1. CASE KeyUsed(c) \/ \E k \in contributions : k.sequence = seen[c].number
    BY <1>4, <1>9, <2>1 DEF Sqlite!Write
  <2>2. CASE ~ (KeyUsed(c) \/ \E k \in contributions : k.sequence = seen[c].number)
    <3>1. SqliteWrites(c)
      BY <1>0, <1>9, <2>2, SqliteMoves DEF Sqlite!Write, SqliteWrites
    <3> QED
      BY <1>3, <3>1 DEF SqliteChanges
  <2> QED
    BY <2>1, <2>2
<1>10. CASE Sqlite!KindOf(c)
  <2>1. CASE call[c].region \in regions
    BY <1>4, <1>10, <2>1 DEF Sqlite!KindOf
  <2>2. CASE call[c].region \notin regions
    BY <1>1, <1>10, <2>2 DEF Sqlite!KindOf, SqliteReads
  <2> QED
    BY <2>1, <2>2
<1>11. CASE Sqlite!InsertRegion(c)
  <2>1. CASE call[c].region \in regions
    BY <1>4, <1>11, <2>1 DEF Sqlite!InsertRegion
  <2>2. CASE call[c].region \notin regions
    <3>1. SqliteAdds(c)
      BY <1>0, <1>11, <2>2, SqliteMoves DEF Sqlite!InsertRegion, SqliteAdds
    <3> QED
      BY <1>3, <3>1 DEF SqliteChanges
  <2> QED
    BY <2>1, <2>2
<1>12. CASE Sqlite!Delete(c)
  BY <1>3, <1>12, SqliteDeletes DEF SqliteChanges, SqliteEmpties
<1>13. CASE Sqlite!CloseRun(c)
  <2>1. CASE run.state = "open"
    <3>1. SqliteCloses(c)
      BY <1>0, <1>13, <2>1 DEF Sqlite!CloseRun, SqliteCloses
    <3> QED
      BY <1>3, <3>1 DEF SqliteChanges
  <2>2. CASE run.state # "open"
    BY <1>2, <1>13, <2>2 DEF Sqlite!CloseRun, SqliteRefuses
  <2> QED
    BY <2>1, <2>2
<1>14. CASE Sqlite!ReadProgress(c)
  <2>1. CASE Answerable(c)
    BY <1>1, <1>14, <2>1 DEF Sqlite!ReadProgress, SqliteReads
  <2>2. CASE ~ Answerable(c)
    BY <1>4, <1>14, <2>2 DEF Sqlite!ReadProgress
  <2> QED
    BY <2>1, <2>2
<1>15. CASE Sqlite!RaiseProgress(c)
  <2>1. SqliteRaises(c)
    BY <1>0, <1>15 DEF Sqlite!RaiseProgress, SqliteRaises
  <2> QED
    BY <1>3, <2>1 DEF SqliteChanges
<1>16. CASE Sqlite!Stops(c)
  BY <1>2, <1>16 DEF Sqlite!Stops, SqliteRefuses
<1> QED
  BY <1>5, <1>6, <1>7, <1>8, <1>9, <1>10, <1>11, <1>12, <1>13, <1>14, <1>15, <1>16
  DEF Sqlite!Operation

LEMMA SqliteAsks ==
  ASSUME NEW c \in Callers, NEW request \in Requests, Sqlite!Ask(c, request)
  PROVE  SqliteBegins(c, request)
<1> DEFINE first ==
      CASE request.op = "write" -> "require" [] request.op = "declare" -> "kind_of"
        [] request.op = "delete" -> "delete" [] request.op = "close" -> "close"
        [] request.op = "acknowledge" -> "read_progress"
<1>1. Begin(c, request, first, Sqlite!Overlaps(c)) /\ ~ Sqlite!Locked(ProcessOf[c])
  BY SqliteMoves DEF Sqlite!Ask
<1>2. /\ first \in {"require", "kind_of", "read_progress", "delete", "close"}
      /\ request.op = SqliteOp(first)
  BY RequestsAreCalls DEF IsCall, Operations, SqliteOp
<1>3. Sqlite!Overlaps(c) \in BOOLEAN
  BY DEF Sqlite!Overlaps
<1>4. Sqlite!Overlaps(c) \/ \A d \in Callers : at[d] = "idle"
  BY <1>1 DEF Sqlite!Overlaps, Sqlite!Locked
<1> HIDE DEF first
<1> QED
  BY <1>1, <1>2, <1>3, <1>4 DEF SqliteBegins

LEMMA SqliteSteps == [Sqlite!Next]_(Sqlite!shared) => SqliteStep
<1> SUFFICES ASSUME [Sqlite!Next]_(Sqlite!shared) PROVE SqliteStep
  OBVIOUS
<1>1. ASSUME Sqlite!OpenRun PROVE SqliteStep
  <2>1. SqliteAtOnce
    BY <1>1, SqliteMoves, SqliteWords DEF Sqlite!OpenRun, SqliteAtOnce
  <2> QED
    BY <2>1 DEF SqliteStep
<1>2. ASSUME NEW a \in Agents, NEW n \in Nat,
             Sqlite!DeclareAgent(a) \/ Sqlite!MarkNotified(a, n) \/ Sqlite!MarkSent(a, n)
      PROVE  SqliteStep
  <2>1. Marked(a, n) \subseteq outbox
    BY DEF Marked
  <2>2. SqliteAtOnce
    BY <1>2, <2>1, SqliteMoves, SqliteWords
    DEF Sqlite!DeclareAgent, Sqlite!MarkNotified, Sqlite!MarkSent, SqliteAtOnce
  <2> QED
    BY <2>2 DEF SqliteStep
<1>3. 0 \in Nat /\ \A n \in Sqlite!Numbers : n \in Nat
  BY DEF Sqlite!Numbers
<1>4. CASE UNCHANGED Sqlite!shared
  BY <1>4, SqliteMoves DEF SqliteStep
<1>5. ASSUME NEW c \in Callers, NEW request \in Requests, Sqlite!Ask(c, request)
      PROVE  SqliteStep
  BY <1>5, SqliteAsks DEF SqliteStep
<1> QED
  BY <1>1, <1>2, <1>3, <1>4, <1>5, SqliteOperations, SqliteRequests DEF Sqlite!Next

-----------------------------------------------------------------------------
(* Types.                                                                  *)

\* Each statement is one of a call that has it, and the record has a last number
\* whenever it has one at all.
SqliteStage ==
  \A c \in Callers : at[c] # "idle" => at[c] \in SqliteStages /\ call[c].op = SqliteOp(at[c])
SqliteLast ==
  contributions # {} =>
    \E k \in contributions : \A c \in contributions : c.sequence <= k.sequence
SqliteTypeInv == TablesType /\ CallsType /\ SqliteStage /\ SqliteLast

LEMMA SqliteTypeInit == Sqlite!Init => SqliteTypeInv
<1> SUFFICES ASSUME Sqlite!Init PROVE SqliteTypeInv
  OBVIOUS
<1>1. SharedInit(0)
  BY DEF Sqlite!Init, Sqlite!SharedInit, SharedInit, Sqlite!NoRun, NoRun, Sqlite!Region, Region,
         Sqlite!Blank, Blank, Sqlite!Nothing, Nothing, Sqlite!Silence, Silence
<1>2. TablesType
  <2>1. DOMAIN <<>> = {}
    OBVIOUS
  <2> QED
    BY <1>1, <2>1 DEF SharedInit, TablesType, NoRun, Progress
<1>3. CallsType
  BY <1>1, SilenceIsAnswer DEF SharedInit, CallsType, Nothing, IsSeen
<1>4. SqliteStage /\ SqliteLast
  BY <1>1 DEF SharedInit, SqliteStage, SqliteLast
<1> QED
  BY <1>2, <1>3, <1>4 DEF SqliteTypeInv

LEMMA SqliteLastIsNumber == TablesType /\ SqliteLast => Sqlite!LastNumber \in Nat
<1> SUFFICES ASSUME TablesType, SqliteLast PROVE Sqlite!LastNumber \in Nat
  OBVIOUS
<1>1. CASE contributions = {}
  BY <1>1 DEF Sqlite!LastNumber
<1>2. CASE contributions # {}
  <2>1. PICK k \in contributions : \A c \in contributions : c.sequence <= k.sequence
    BY <1>2 DEF SqliteLast
  <2>2. \E n \in {c.sequence : c \in contributions} : \A c \in contributions : c.sequence <= n
    BY <2>1
  <2>3. \A n \in {c.sequence : c \in contributions} : n \in Nat
    BY DEF TablesType, Contribution
  <2> QED
    BY <1>2, <2>2, <2>3 DEF Sqlite!LastNumber
<1> QED
  BY <1>1, <1>2

LEMMA SqliteRefusalIsAnswer ==
  ASSUME TablesType, NEW c, NEW answer, SqliteRefuses(c, answer)
  PROVE  IsAnswer(answer)
  BY SilenceIsAnswer, RecogniseIsAnswer DEF SqliteRefuses

LEMMA SqliteReadMoves ==
  ASSUME SqliteTypeInv, NEW c \in Callers, NEW stage, NEW shown, SqliteReads(c, stage, shown)
  PROVE  /\ IsSeen(shown) /\ at[c] # "idle" /\ stage \in SqliteStages /\ stage # "idle"
         /\ call[c].op = SqliteOp(stage) /\ IsCall(call[c])
<1>1. /\ IsSeen(Nothing)
      /\ \A n \in Nat : /\ IsSeen([Nothing EXCEPT !.number = n])
                         /\ IsSeen([Nothing EXCEPT !.prior = n])
  BY DEF IsSeen, Nothing
<1>2. Sqlite!LastNumber + 1 \in Nat
  BY SqliteLastIsNumber DEF SqliteTypeInv
<1>3. Answerable(c) => progress[call[c].agent].acked \in Nat
  BY DEF Answerable, SqliteTypeInv, TablesType, Progress
<1>4. IsSeen(shown)
  BY <1>1, <1>2, <1>3 DEF SqliteReads
<1>5. at[c] # "idle"
  BY DEF SqliteReads
<1>6. call[c].op = SqliteOp(at[c])
  BY <1>5 DEF SqliteTypeInv, SqliteStage
<1>7. stage \in SqliteStages /\ SqliteOp(stage) = SqliteOp(at[c]) /\ stage # "idle"
  BY DEF SqliteReads, SqliteStages, SqliteOp
<1>8. IsCall(call[c])
  BY <1>5 DEF SqliteTypeInv, CallsType
<1> QED
  BY <1>4, <1>5, <1>6, <1>7, <1>8

LEMMA SqliteEndKeepsStages ==
  ASSUME SqliteTypeInv, NEW c \in Callers,
         ReturnDeleted(c) \/ \E answer : Return(c, answer)
  PROVE  SqliteStage'
<1>1. \A d \in Callers \ {c} : at'[d] = at[d] /\ call'[d].op = call[d].op
  BY ReturnMoves, ReturnDeletedMoves DEF SqliteTypeInv, OthersStay
<1>2. at'[c] = "idle"
  BY ReturnMoves, ReturnDeletedMoves DEF SqliteTypeInv
<1> QED
  BY <1>1, <1>2 DEF SqliteTypeInv, SqliteStage

LEMMA SqliteWriteKeepsLast ==
  ASSUME TablesType, SqliteLast, NEW c, NEW number \in Nat, Record(c, number)
  PROVE  SqliteLast'
<1> DEFINE row == [sequence |-> number, region |-> call[c].region,
                   version |-> IF call[c].region \in Premises THEN call[c].expected + 1 ELSE 0,
                   key |-> call[c].key]
<1>1. contributions' = contributions \cup {row} /\ row.sequence = number
  BY DEF Record
<1> HIDE DEF row
<1>2. \A k \in contributions : k.sequence \in Nat
  BY DEF TablesType, Contribution
<1>3. CASE \A k \in contributions : k.sequence <= number
  BY <1>1, <1>3 DEF SqliteLast
<1>4. ASSUME NEW k \in contributions, ~ (k.sequence <= number) PROVE SqliteLast'
  <2>1. PICK m \in contributions : \A d \in contributions : d.sequence <= m.sequence
    BY <1>4 DEF SqliteLast
  <2>2. k.sequence <= m.sequence /\ k.sequence \in Nat /\ m.sequence \in Nat
    BY <1>2, <1>4, <2>1
  <2>3. number <= m.sequence
    BY <1>4, <2>2
  <2> QED
    BY <1>1, <2>1, <2>3 DEF SqliteLast
<1> QED
  BY <1>3, <1>4

LEMMA SqliteChangeKeepsTypes ==
  ASSUME SqliteTypeInv, NEW c \in Callers, SqliteChanges(c)
  PROVE  SqliteTypeInv'
<1> USE DEF SqliteTypeInv
<1>0. at[c] # "idle" /\ IsCall(call[c]) /\ call[c].op = SqliteOp(at[c])
  <2>1. at[c] # "idle"
    BY DEF SqliteChanges, SqliteWrites, SqliteAdds, SqliteEmpties, SqliteCloses, SqliteRaises
  <2> QED
    BY <2>1 DEF CallsType, SqliteStage
<1>1. IsAnswer(Answer("done", 0)) /\ seen[c].number \in Nat
  BY SilenceIsAnswer DEF CallsType, IsSeen
<1>2. CASE SqliteWrites(c)
  <2>1. /\ Record(c, seen[c].number) /\ counter' = counter
        /\ Return(c, Answer("written", seen[c].number)) /\ at[c] = "write"
    BY <1>2 DEF SqliteWrites
  <2>2. counter' \in Nat /\ call[c].op = "write"
    BY <1>0, <2>1 DEF TablesType, SqliteOp
  <2>3. TablesType' /\ SqliteLast'
    BY <1>0, <1>1, <2>1, <2>2, RecordKeepsTables, SqliteWriteKeepsLast
  <2>4. IsAnswer(Answer("written", seen[c].number))
    BY <1>1, SilenceIsAnswer
  <2> QED
    BY <2>1, <2>3, <2>4, ReturnKeepsCalls, SqliteEndKeepsStages
<1>3. CASE SqliteAdds(c)
  <2>1. /\ AddRegion(call[c].region) /\ counter' = counter /\ Return(c, Answer("done", 0))
        /\ at[c] = "insert_region"
    BY <1>3 DEF SqliteAdds
  <2>2. counter' \in Nat /\ call[c].region \in Region
    BY <1>0, <2>1 DEF TablesType, SqliteOp, IsCall
  <2>3. TablesType'
    BY <2>1, <2>2, AddRegionKeepsTables
  <2>4. SqliteLast'
    BY <2>1 DEF AddRegion, SqliteLast
  <2> QED
    BY <1>1, <2>1, <2>3, <2>4, ReturnKeepsCalls, SqliteEndKeepsStages
<1>4. CASE SqliteEmpties(c)
  <2>1. ReturnDeleted(c)
    BY <1>4 DEF SqliteEmpties
  <2>2. TablesType'
    BY <1>4, WithoutKeepsTables DEF SqliteEmpties
  <2>3. contributions' = {}
    BY <1>4, DeletionEmptiesRecord DEF SqliteEmpties
  <2>4. SqliteLast'
    BY <2>3 DEF SqliteLast
  <2> QED
    BY <2>1, <2>2, <2>4, ReturnDeletedKeepsCalls, SqliteEndKeepsStages
<1>5. CASE SqliteCloses(c)
  <2>1. /\ run' = [run EXCEPT !.state = "closed"] /\ progress' = <<>> /\ outbox' = {}
        /\ UNCHANGED <<counter, regions, contributions, versions>>
        /\ Return(c, Answer("done", 0))
    BY <1>5 DEF SqliteCloses
  <2>2. TablesType'
    BY <2>1, RunKeepsTables
  <2>3. SqliteLast'
    BY <2>1 DEF SqliteLast
  <2> QED
    BY <1>1, <2>1, <2>2, <2>3, ReturnKeepsCalls, SqliteEndKeepsStages
<1>6. CASE SqliteRaises(c)
  <2>1. /\ at[c] = "raise" /\ Return(c, AckAnswer(c, seen[c].prior))
        /\ UNCHANGED <<counter, regions, contributions, versions, run, outbox>>
        /\ progress' = IF call[c].agent \in DOMAIN progress
                       THEN Acked(call[c].agent, call[c].through) ELSE progress
    BY <1>6 DEF SqliteRaises
  <2>2. call[c].agent \in Agents /\ call[c].through \in Nat
    BY <1>0, <2>1 DEF SqliteOp, IsCall
  <2>3. TablesType'
    <3>1. CASE call[c].agent \in DOMAIN progress
      BY <2>1, <2>2, <3>1, ProgressKeepsTables
    <3>2. CASE call[c].agent \notin DOMAIN progress
      BY <2>1, <3>2 DEF TablesType
    <3> QED
      BY <3>1, <3>2
  <2>4. SqliteLast'
    BY <2>1 DEF SqliteLast
  <2>5. IsAnswer(AckAnswer(c, seen[c].prior))
    BY <1>0, AckAnswerIsAnswer
  <2> QED
    BY <2>1, <2>3, <2>4, <2>5, ReturnKeepsCalls, SqliteEndKeepsStages
<1> QED
  BY <1>2, <1>3, <1>4, <1>5, <1>6 DEF SqliteChanges

LEMMA SqliteTypeStep == SqliteTypeInv /\ SqliteStep => SqliteTypeInv'
<1> SUFFICES ASSUME SqliteTypeInv, SqliteStep PROVE SqliteTypeInv'
  OBVIOUS
<1> USE DEF SqliteTypeInv
<1>0. UNCHANGED tables => TablesType' /\ SqliteLast'
  BY DEF tables, TablesType, SqliteLast
<1>1. ASSUME NEW c \in Callers, NEW stage, NEW shown, UNCHANGED tables,
             SqliteReads(c, stage, shown), Proceed(c, stage, shown)
      PROVE  SqliteTypeInv'
  <2>1. /\ IsSeen(shown) /\ at[c] # "idle" /\ stage \in SqliteStages /\ stage # "idle"
        /\ call[c].op = SqliteOp(stage)
    BY <1>1, SqliteReadMoves
  <2>2. CallsType'
    BY <1>1, <2>1, ProceedKeepsCalls
  <2>3. OthersStay(c) /\ at'[c] = stage /\ call' = call
    BY <1>1, ProceedMoves
  <2>4. SqliteStage'
    BY <2>1, <2>3 DEF SqliteStage, OthersStay
  <2> QED
    BY <1>0, <1>1, <2>2, <2>4
<1>2. ASSUME NEW c \in Callers, NEW answer, UNCHANGED tables, SqliteRefuses(c, answer),
             Return(c, answer)
      PROVE  SqliteTypeInv'
  BY <1>0, <1>2, SqliteRefusalIsAnswer, ReturnKeepsCalls, SqliteEndKeepsStages
<1>3. ASSUME NEW c \in Callers, NEW request \in Requests, SqliteBegins(c, request)
      PROVE  SqliteTypeInv'
  <2>1. PICK first \in {"require", "kind_of", "read_progress", "delete", "close"},
             overlaps \in BOOLEAN :
               Begin(c, request, first, overlaps) /\ request.op = SqliteOp(first)
    BY <1>3 DEF SqliteBegins
  <2>2. first # "idle" /\ first \in SqliteStages
    BY DEF SqliteStages
  <2>3. /\ OthersStay(c) /\ at'[c] = first /\ call'[c] = request /\ UNCHANGED tables
    BY <2>1, BeginMoves
  <2>4. CallsType'
    BY <2>1, <2>2, BeginKeepsCalls
  <2>5. SqliteStage'
    BY <2>1, <2>2, <2>3 DEF SqliteStage, OthersStay
  <2> QED
    BY <1>0, <2>3, <2>4, <2>5
<1>4. ASSUME SqliteAtOnce PROVE SqliteTypeInv'
  <2>1. CallsType' /\ SqliteStage' /\ SqliteLast'
    BY <1>4, AtOnceKeepsCalls DEF SqliteAtOnce, AtOnce, SqliteStage, SqliteLast
  <2>2. UNCHANGED <<counter, regions, contributions, versions>>
    BY <1>4 DEF SqliteAtOnce
  <2>3. TablesType'
    <3>1. CASE run' = Opened /\ UNCHANGED <<progress, outbox>>
      BY <2>2, <3>1, RunKeepsTables
    <3>2. CASE /\ \E a \in Agents, n \in Nat : progress' = Declared(a) \/ progress' = Notified(a, n)
               /\ UNCHANGED <<run, outbox>>
      BY <2>2, <3>2, ProgressKeepsTables
    <3>3. CASE outbox' \subseteq outbox /\ UNCHANGED <<run, progress>>
      BY <2>2, <3>3, RunKeepsTables
    <3> QED
      BY <1>4, <3>1, <3>2, <3>3 DEF SqliteAtOnce
  <2> QED
    BY <2>1, <2>3
<1>5. ASSUME UNCHANGED shared PROVE SqliteTypeInv'
  BY <1>5 DEF shared, tables, calls, TablesType, CallsType, SqliteStage, SqliteLast
<1> QED
  BY <1>1, <1>2, <1>3, <1>4, <1>5, SqliteChangeKeepsTypes DEF SqliteStep

\* Every state is one of the types the store keeps, however the statements of two
\* processes on one file interleave.
THEOREM SqliteTypeCorrect == Sqlite!Spec => []TypeOK
<1>1. SqliteTypeInv /\ [Sqlite!Next]_(Sqlite!shared) => SqliteTypeInv'
  BY SqliteSteps, SqliteTypeStep
<1>2. SqliteTypeInv => TypeOK
  BY TypesGiveTypeOK DEF SqliteTypeInv
<1> QED
  BY SqliteTypeInit, <1>1, <1>2, PTL DEF Sqlite!Spec

-----------------------------------------------------------------------------
(* One call at a time.                                                     *)

\* No two callers are in a call.
SqliteTurn == \A c, d \in Callers : at[c] # "idle" /\ at[d] # "idle" => c = d

\* What the statements of a call have found is so when the next one runs.
SqliteFound(c) ==
  /\ at[c] \in {"look_up", "version", "number", "write"} => call[c].region \in regions
  /\ at[c] \in {"version", "number", "write"} => ~ KeyUsed(c)
  /\ at[c] \in {"number", "write"} /\ call[c].region \in Premises =>
       call[c].region \in DOMAIN versions /\ versions[call[c].region] = call[c].expected
  /\ at[c] = "write" => seen[c].number = Written + 1
  /\ at[c] = "raise" =>
       Answerable(c) /\ seen[c].prior = progress[call[c].agent].acked

SqliteTelling == \A a \in DOMAIN progress : progress[a].acked <= progress[a].notified

SqliteOrdered ==
  RecordInv /\ SqliteTelling /\ LandedInv /\ SqliteTurn /\ \A c \in Callers : SqliteFound(c)

SqliteInv == SqliteTypeInv /\ (~ overlapped => SqliteOrdered)

LEMMA SqliteOrderedInit == Sqlite!Init => SqliteOrdered
<1> SUFFICES ASSUME Sqlite!Init PROVE SqliteOrdered
  OBVIOUS
<1>1. /\ contributions = {} /\ \A c \in Callers : at[c] = "idle" /\ ~ call[c].landed
      /\ \A p \in DOMAIN versions : p \in regions /\ versions[p] = 0
      /\ \A a \in DOMAIN progress : progress[a].acked <= progress[a].notified
  BY DEF Sqlite!Init, Sqlite!SharedInit, Sqlite!Region, Sqlite!Blank
<1>2. IsFiniteSet({}) /\ Cardinality({}) = 0 /\ 1..0 = {}
  BY FS_EmptySet
<1>3. RecordInv
  BY <1>1, <1>2 DEF RecordInv, Written, Of
<1> QED
  BY <1>1, <1>3 DEF SqliteOrdered, SqliteTelling, LandedInv, SqliteTurn, SqliteFound

\* The last number is how many writes there are.
LEMMA SqliteLastIsWritten == TablesType /\ RecordInv => Sqlite!LastNumber = Written
<1> SUFFICES ASSUME TablesType, RecordInv PROVE Sqlite!LastNumber = Written
  OBVIOUS
<1>0. Written \in Nat
  BY WrittenIsNat
<1>1. CASE contributions = {}
  BY <1>1, FS_EmptySet DEF Sqlite!LastNumber, Written
<1>2. CASE contributions # {}
  <2> DEFINE Largest(n) == \A c \in contributions : c.sequence <= n
             numbers == {c.sequence : c \in contributions}
  <2>1. Sqlite!LastNumber = CHOOSE n \in numbers : Largest(n)
    BY <1>2 DEF Sqlite!LastNumber
  <2>2. \A n \in numbers : n \in 1..Written
    BY DEF RecordInv
  <2>3. Written \in 1..Written
    BY <1>0, <1>2, <2>2
  <2>4. Written \in numbers /\ Largest(Written)
    BY <1>0, <2>2, <2>3 DEF RecordInv
  <2>5. ASSUME NEW n \in numbers, Largest(n) PROVE n = Written
    <3>1. Written <= n /\ n <= Written /\ n \in Nat
      BY <1>0, <2>2, <2>4, <2>5
    <3> QED
      BY <1>0, <3>1
  <2> HIDE DEF Largest, numbers
  <2> QED
    BY <2>1, <2>4, <2>5
<1> QED
  BY <1>1, <1>2

\* A statement that reads finds what is so.
LEMMA SqliteReadKeepsOrder ==
  ASSUME SqliteTypeInv, SqliteOrdered, NEW c \in Callers, NEW stage, NEW shown,
         UNCHANGED tables, SqliteReads(c, stage, shown), Proceed(c, stage, shown)
  PROVE  SqliteOrdered'
<1> USE DEF SqliteTypeInv, SqliteOrdered
<1>1. OthersStay(c) /\ at'[c] = stage /\ call' = call /\ seen'[c] = shown
  BY ProceedMoves
<1>2. at[c] # "idle"
  BY DEF SqliteReads
<1>3. UNCHANGED <<counter, regions, contributions, versions, run, progress, outbox>>
  BY DEF tables
<1>4. RecordInv' /\ SqliteTelling' /\ LandedInv'
  BY <1>1, <1>3, SameRecord DEF SqliteTelling, LandedInv
<1>5. SqliteTurn'
  BY <1>1, <1>2 DEF SqliteTurn, OthersStay
<1>6. /\ KeyUsed(c)' = KeyUsed(c) /\ Written' = Written /\ Answerable(c)' = Answerable(c)
  BY <1>1, <1>3 DEF KeyUsed, Written, Answerable
<1>7. \A n : /\ [Nothing EXCEPT !.number = n].number = n
            /\ [Nothing EXCEPT !.prior = n].prior = n
  BY DEF Nothing
<1>8. SqliteFound(c)'
  <2>0. SqliteFound(c) /\ Sqlite!LastNumber = Written
    BY SqliteLastIsWritten
  <2> HIDE DEF SqliteTypeInv, SqliteOrdered
  <2>1. /\ stage \in {"look_up", "version", "number", "write"} => call[c].region \in regions
        /\ stage \in {"version", "number", "write"} => ~ KeyUsed(c)
        /\ stage \in {"number", "write"} /\ call[c].region \in Premises =>
             call[c].region \in DOMAIN versions /\ versions[call[c].region] = call[c].expected
    BY <2>0 DEF SqliteFound, SqliteReads
  <2>2. stage = "write" => shown.number = Written + 1
    BY <1>7, <2>0 DEF SqliteReads
  <2>3. stage = "raise" => Answerable(c) /\ shown.prior = progress[call[c].agent].acked
    BY <1>7 DEF SqliteReads
  <2> QED
    BY <1>1, <1>3, <1>6, <2>1, <2>2, <2>3 DEF SqliteFound
<1>9. ASSUME NEW d \in Callers, d # c PROVE SqliteFound(d)'
  <2>1. at'[d] = "idle"
    BY <1>1, <1>2, <1>9 DEF SqliteTurn, OthersStay
  <2> QED
    BY <2>1 DEF SqliteFound
<1> QED
  BY <1>4, <1>5, <1>8, <1>9

\* Where the one call ends, what is left to see is the record and the answers.
LEMMA SqliteEndKeepsOrder ==
  ASSUME SqliteTypeInv, SqliteTypeInv', SqliteOrdered, NEW c \in Callers, at[c] # "idle",
         ReturnDeleted(c) \/ \E answer : Return(c, answer), RecordInv', SqliteTelling'
  PROVE  SqliteOrdered'
<1>1. \A d \in Callers : at'[d] = "idle"
  BY ReturnMoves, ReturnDeletedMoves DEF SqliteOrdered, SqliteTurn, SqliteTypeInv, OthersStay
<1>2. \A d \in Callers : call'[d] = Blank
  BY <1>1 DEF SqliteTypeInv, CallsType
<1>3. ~ Blank.landed
  BY DEF Blank
<1> QED
  BY <1>1, <1>2, <1>3 DEF SqliteOrdered, SqliteTurn, SqliteFound, LandedInv

LEMMA SqliteChangeKeepsOrder ==
  ASSUME SqliteTypeInv, SqliteTypeInv', SqliteOrdered, NEW c \in Callers, SqliteChanges(c)
  PROVE  SqliteOrdered'
<1>0. at[c] # "idle" /\ IsCall(call[c]) /\ SqliteFound(c)
  <2>1. at[c] # "idle"
    BY DEF SqliteChanges, SqliteWrites, SqliteAdds, SqliteEmpties, SqliteCloses, SqliteRaises
  <2> QED
    BY <2>1 DEF SqliteTypeInv, CallsType, SqliteOrdered
<1>1. ReturnDeleted(c) \/ \E answer : Return(c, answer)
  BY DEF SqliteChanges, SqliteWrites, SqliteAdds, SqliteEmpties, SqliteCloses, SqliteRaises
<1>2. ASSUME RecordInv', SqliteTelling' PROVE SqliteOrdered'
  BY <1>0, <1>1, <1>2, SqliteEndKeepsOrder
<1>3. RecordInv /\ SqliteTelling /\ TablesType
  BY DEF SqliteOrdered, SqliteTypeInv
<1>4. CASE SqliteWrites(c)
  <2>1. Record(c, Written + 1)
    BY <1>0, <1>4 DEF SqliteWrites, SqliteFound
  <2>2. RecordInv'
    BY <1>0, <1>3, <1>4, <2>1, WriteKeepsRecord DEF SqliteWrites, SqliteFound
  <2>3. SqliteTelling'
    BY <1>3, <2>1 DEF Record, SqliteTelling
  <2> QED
    BY <1>2, <2>2, <2>3
<1>5. CASE SqliteAdds(c)
  <2>1. RecordInv'
    BY <1>3, <1>5, AddRegionKeepsRecord DEF SqliteAdds
  <2>2. SqliteTelling'
    BY <1>3, <1>5 DEF SqliteAdds, AddRegion, SqliteTelling
  <2> QED
    BY <1>2, <2>1, <2>2
<1>6. CASE SqliteEmpties(c)
  <2>1. RecordInv'
    BY <1>6, DeletionEmptiesRecord DEF SqliteEmpties
  <2>2. SqliteTelling'
    BY <1>3, <1>6 DEF SqliteEmpties, Without, Restrict, SqliteTelling
  <2> QED
    BY <1>2, <2>1, <2>2
<1>7. CASE SqliteCloses(c)
  BY <1>2, <1>3, <1>7, SameRecord DEF SqliteCloses, SqliteTelling
<1>8. CASE SqliteRaises(c)
  <2>1. RecordInv'
    BY <1>3, <1>8, SameRecord DEF SqliteRaises
  <2>2. Answerable(c) /\ progress' = Acked(call[c].agent, call[c].through)
    BY <1>0, <1>8 DEF SqliteRaises, SqliteFound, Answerable
  <2>3. SqliteTelling'
    BY <1>3, <2>2, AckedKeepsAnswers DEF SqliteTelling, TablesType, Answerable
  <2> QED
    BY <1>2, <2>1, <2>3
<1> QED
  BY <1>4, <1>5, <1>6, <1>7, <1>8 DEF SqliteChanges

LEMMA SqliteBeginKeepsOrder ==
  ASSUME SqliteTypeInv, SqliteOrdered, NEW c \in Callers, NEW request \in Requests,
         SqliteBegins(c, request), ~ overlapped'
  PROVE  SqliteOrdered'
<1>1. PICK first \in {"require", "kind_of", "read_progress", "delete", "close"},
           overlaps \in BOOLEAN :
             Begin(c, request, first, overlaps) /\ (overlaps \/ \A d \in Callers : at[d] = "idle")
  BY DEF SqliteBegins
<1>2. /\ OthersStay(c) /\ at'[c] = first /\ call'[c] = request /\ UNCHANGED tables
      /\ overlapped' = overlaps
  BY <1>1, BeginMoves DEF SqliteTypeInv
<1>3. \A d \in Callers \ {c} : at'[d] = "idle"
  BY <1>1, <1>2 DEF OthersStay
<1>4. UNCHANGED <<counter, regions, contributions, versions, run, progress, outbox>>
  BY <1>2 DEF tables
<1>5. RecordInv' /\ SqliteTelling'
  BY <1>4, SameRecord DEF SqliteOrdered, SqliteTelling
<1>6. LandedInv'
  BY <1>2, <1>4, RequestsHaveLanded DEF SqliteOrdered, LandedInv, OthersStay
<1>7. SqliteTurn' /\ \A d \in Callers : SqliteFound(d)'
  BY <1>2, <1>3 DEF SqliteTurn, SqliteFound
<1> QED
  BY <1>5, <1>6, <1>7 DEF SqliteOrdered

\* A call of one statement undoes nothing that a call under way has found.
LEMMA SqliteAtOnceKeepsOrder ==
  ASSUME SqliteTypeInv, SqliteOrdered, SqliteAtOnce
  PROVE  SqliteOrdered'
<1>1. UNCHANGED <<counter, regions, contributions, versions, call, at, seen>>
  BY DEF SqliteAtOnce, AtOnce
<1>2. RecordInv' /\ LandedInv' /\ SqliteTurn'
  BY <1>1, SameRecord DEF SqliteOrdered, LandedInv, SqliteTurn
<1>3. \A a \in DOMAIN progress : progress[a] \in Progress
  BY DEF SqliteTypeInv, TablesType
<1>4. \/ progress' = progress
      \/ \E a \in Agents, n \in Nat : progress' = Declared(a) \/ progress' = Notified(a, n)
  BY DEF SqliteAtOnce
<1>5. SqliteTelling'
  BY <1>3, <1>4, TellingKeepsAnswers DEF SqliteOrdered, SqliteTelling
<1> DEFINE Rises(a) ==
        /\ a \in DOMAIN progress' /\ progress'[a].acked = progress[a].acked
        /\ progress'[a].notified >= progress[a].notified /\ progress'[a].notified \in Nat
<1>6. \A a \in DOMAIN progress : Rises(a)
  <2>1. \A m, n \in Nat : Larger(m, n) \in Nat /\ Larger(m, n) >= m
    BY DEF Larger
  <2>2. \A a \in DOMAIN progress : progress[a].notified \in Nat
    BY <1>3 DEF Progress
  <2>3. CASE progress' = progress
    BY <2>2, <2>3
  <2>4. ASSUME NEW b \in Agents, progress' = Declared(b)
        PROVE  \A a \in DOMAIN progress : Rises(a)
    BY <2>2, <2>4 DEF Declared, WithRow
  <2>5. ASSUME NEW b \in Agents, NEW n \in Nat, progress' = Notified(b, n)
        PROVE  \A a \in DOMAIN progress : Rises(a)
    BY <1>3, <2>1, <2>2, <2>5 DEF Notified, WithRow, Progress
  <2> QED
    BY <1>4, <2>3, <2>4, <2>5
<1>7. ASSUME NEW c \in Callers PROVE SqliteFound(c)'
  <2>1. /\ SqliteFound(c) /\ KeyUsed(c)' = KeyUsed(c) /\ Written' = Written
        /\ at'[c] = at[c] /\ call'[c] = call[c] /\ seen'[c] = seen[c]
    BY <1>1 DEF SqliteOrdered, KeyUsed, Written
  <2>2. ASSUME at[c] = "raise"
        PROVE  Answerable(c)' /\ seen'[c].prior = progress'[call[c].agent].acked
    <3>1. Answerable(c) /\ seen[c].prior = progress[call[c].agent].acked
      BY <2>1, <2>2 DEF SqliteFound
    <3>2. call[c].through \in Nat
      BY <2>2 DEF SqliteTypeInv, CallsType, IsCall
    <3>3. progress[call[c].agent].notified \in Nat
      BY <1>3, <3>1 DEF Answerable, Progress
    <3> QED
      BY <1>6, <2>1, <3>1, <3>2, <3>3 DEF Answerable
  <2> QED
    BY <1>1, <2>1, <2>2 DEF SqliteFound
<1> QED
  BY <1>2, <1>5, <1>7 DEF SqliteOrdered

LEMMA SqliteInvStep == SqliteInv /\ SqliteStep => SqliteInv'
<1> SUFFICES ASSUME SqliteInv, SqliteStep, ~ overlapped' PROVE SqliteOrdered'
  BY SqliteTypeStep DEF SqliteInv
<1>0. SqliteTypeInv /\ SqliteTypeInv' /\ (~ overlapped => SqliteOrdered)
  BY SqliteTypeStep DEF SqliteInv
<1>1. ASSUME NEW c \in Callers, NEW stage, NEW shown, UNCHANGED tables,
             SqliteReads(c, stage, shown), Proceed(c, stage, shown)
      PROVE  SqliteOrdered'
  BY <1>0, <1>1, SqliteReadKeepsOrder DEF Proceed
<1>2. ASSUME NEW c \in Callers, NEW answer, UNCHANGED tables, at[c] # "idle", Return(c, answer)
      PROVE  SqliteOrdered'
  <2>1. SqliteOrdered
    BY <1>0, <1>2 DEF Return
  <2>2. RecordInv' /\ SqliteTelling'
    BY <1>2, <2>1, SameRecord DEF tables, SqliteOrdered, SqliteTelling
  <2> QED
    BY <1>0, <1>2, <2>1, <2>2, SqliteEndKeepsOrder
<1>3. ASSUME NEW c \in Callers, SqliteChanges(c) PROVE SqliteOrdered'
  <2>1. overlapped' = overlapped
    BY <1>3 DEF SqliteChanges, SqliteWrites, SqliteAdds, SqliteEmpties, SqliteCloses,
                SqliteRaises, Return, ReturnDeleted
  <2> QED
    BY <1>0, <1>3, <2>1, SqliteChangeKeepsOrder
<1>4. ASSUME NEW c \in Callers, NEW request \in Requests, SqliteBegins(c, request)
      PROVE  SqliteOrdered'
  <2>1. ~ overlapped
    BY <1>4 DEF SqliteBegins, Begin
  <2> QED
    BY <1>0, <1>4, <2>1, SqliteBeginKeepsOrder
<1>5. ASSUME SqliteAtOnce PROVE SqliteOrdered'
  BY <1>0, <1>5, SqliteAtOnceKeepsOrder DEF SqliteAtOnce, AtOnce
<1>6. ASSUME UNCHANGED shared PROVE SqliteOrdered'
  <2>1. SqliteOrdered /\ UNCHANGED <<tables, calls>>
    BY <1>0, <1>6 DEF shared
  <2>2. RecordInv' /\ SqliteTelling' /\ LandedInv' /\ SqliteTurn'
    BY <2>1, SameRecord DEF tables, calls, SqliteOrdered, SqliteTelling, LandedInv, SqliteTurn
  <2>3. \A c \in Callers : SqliteFound(c)'
    BY <2>1 DEF tables, calls, SqliteOrdered, SqliteFound, KeyUsed, Written, Answerable
  <2> QED
    BY <2>2, <2>3 DEF SqliteOrdered
<1> QED
  BY <1>1, <1>2, <1>3, <1>4, <1>5, <1>6 DEF SqliteStep

LEMMA SqliteInvHolds == Sqlite!Spec => []SqliteInv
<1>1. Sqlite!Init => SqliteInv
  BY SqliteTypeInit, SqliteOrderedInit DEF SqliteInv
<1>2. SqliteInv /\ [Sqlite!Next]_(Sqlite!shared) => SqliteInv'
  BY SqliteSteps, SqliteInvStep
<1> QED
  BY <1>1, <1>2, PTL DEF Sqlite!Spec

-----------------------------------------------------------------------------
(* What SqliteStore owes its callers.                                      *)

\* The number a call reads is the next one when it writes, though the reads before
\* a write are outside its transaction: the record has no gap and no version twice.
THEOREM SqliteRecordWhole == Sqlite!Spec => []RecordWhole
<1>1. SqliteInv => RecordWhole
  BY RecordInvGivesWhole DEF SqliteInv, SqliteTypeInv, SqliteOrdered, RecordWhole
<1> QED
  BY SqliteInvHolds, <1>1, PTL

\* Of two calls of one process that set a premise from one version one wins. Across
\* processes the code does not see to it: the update does not name the version.
THEOREM SqliteOneWinner == Sqlite!Spec => [](~ overlapped => OneWinner)
<1>1. SqliteInv /\ ~ overlapped => OneWinner
  BY RecordInvGivesOneWinner DEF SqliteInv, SqliteTypeInv, SqliteOrdered
<1> QED
  BY SqliteInvHolds, <1>1, PTL

\* The comparison with what was told is read before the row is raised, and no close
\* of the process wipes the row between the two.
THEOREM SqliteAnswersWithinTelling == Sqlite!Spec => []AckedWithinNotified
<1>1. SqliteInv => AckedWithinNotified
  BY DEF SqliteInv, SqliteOrdered, SqliteTelling, AckedWithinNotified
<1> QED
  BY SqliteInvHolds, <1>1, PTL

\* A caller is answered by its own step only.
LEMMA SqliteWhoIsTold ==
  ASSUME SqliteTypeInv, SqliteStep, NEW c \in Callers, at[c] # "idle", at'[c] = "idle"
  PROVE  \/ UNCHANGED tables /\ SqliteRefuses(c, told')
         \/ SqliteChanges(c)
<1> USE DEF SqliteTypeInv
<1>1. ASSUME NEW d \in Callers, NEW stage, NEW shown,
             SqliteReads(d, stage, shown), Proceed(d, stage, shown)
      PROVE  FALSE
  BY <1>1, SqliteReadMoves, ProceedMoves DEF OthersStay
<1>2. ASSUME NEW d \in Callers, NEW answer, UNCHANGED tables, SqliteRefuses(d, answer),
             Return(d, answer)
      PROVE  UNCHANGED tables /\ SqliteRefuses(c, told')
  BY <1>2, ReturnMoves DEF OthersStay
<1>3. ASSUME NEW d \in Callers, SqliteChanges(d) PROVE SqliteChanges(c)
  <2>1. ReturnDeleted(d) \/ \E answer : Return(d, answer)
    BY <1>3 DEF SqliteChanges, SqliteWrites, SqliteAdds, SqliteEmpties, SqliteCloses, SqliteRaises
  <2>2. \A e \in Callers \ {d} : at'[e] = at[e]
    BY <2>1, ReturnMoves, ReturnDeletedMoves DEF OthersStay
  <2> QED
    BY <1>3, <2>2
<1>4. ASSUME NEW d \in Callers, NEW request \in Requests, SqliteBegins(d, request) PROVE FALSE
  <2>1. PICK first \in {"require", "kind_of", "read_progress", "delete", "close"},
             overlaps \in BOOLEAN : Begin(d, request, first, overlaps)
    BY <1>4 DEF SqliteBegins
  <2> QED
    BY <2>1, BeginMoves DEF OthersStay
<1>5. ASSUME SqliteAtOnce PROVE FALSE
  BY <1>5 DEF SqliteAtOnce, AtOnce
<1>6. ASSUME UNCHANGED shared PROVE FALSE
  BY <1>6 DEF shared, calls
<1> QED
  BY <1>1, <1>2, <1>3, <1>4, <1>5, <1>6 DEF SqliteStep

\* What each kind of answer is the answer of.
LEMMA SqliteWhatIsTold ==
  ASSUME SqliteTypeInv, SqliteStep, NEW c \in Callers, at[c] # "idle", at'[c] = "idle"
  PROVE  /\ told'.kind = "written" =>
              SqliteWrites(c) /\ told' = Answer("written", seen[c].number)
         /\ told'.kind = "repeated" =>
              at[c] = "look_up" /\ KeyUsed(c) /\ told' = Recognise(c) /\ UNCHANGED tables
         /\ told'.kind = "conflict" => at[c] = "version"
         /\ told'.kind = "first" =>
              at[c] = "raise" /\ told' = AckAnswer(c, seen[c].prior)
         /\ told'.kind = "raised" => SqliteRefuses(c, told')
<1> USE DEF SqliteTypeInv
<1>1. Silence.kind = "none" /\ \A k, n : Answer(k, n).kind = k
  BY DEF Answer, Silence
<1>2. IsCall(call[c])
  BY DEF CallsType
<1>3. ASSUME SqliteWrites(c)
      PROVE  told' = Answer("written", seen[c].number) /\ told'.kind = "written"
  BY <1>1, <1>3 DEF SqliteWrites, Return
<1>4. ASSUME SqliteAdds(c) \/ SqliteEmpties(c) \/ SqliteCloses(c) PROVE told'.kind = "done"
  BY <1>1, <1>4 DEF SqliteAdds, SqliteEmpties, SqliteCloses, Return, ReturnDeleted
<1>5. ASSUME SqliteRaises(c)
      PROVE  /\ at[c] = "raise" /\ told' = AckAnswer(c, seen[c].prior)
             /\ told'.kind \in {"first", "again"}
  BY <1>2, <1>5, AckAnswerIsAnswer DEF SqliteRaises, Return
<1>6. ASSUME UNCHANGED tables, SqliteRefuses(c, told')
      PROVE  /\ told'.kind \notin {"written", "first"}
             /\ told'.kind = "repeated" =>
                  at[c] = "look_up" /\ KeyUsed(c) /\ told' = Recognise(c)
             /\ told'.kind = "conflict" => at[c] = "version"
  BY <1>1, <1>6, RecogniseIsAnswer DEF SqliteRefuses
<1>7. CASE SqliteChanges(c)
  BY <1>3, <1>4, <1>5, <1>7 DEF SqliteChanges
<1>8. CASE UNCHANGED tables /\ SqliteRefuses(c, told')
  BY <1>6, <1>8
<1> QED
  BY <1>7, <1>8, SqliteWhoIsTold

\* No key and no number is on two rows, which the table's indexes see to whichever
\* processes write.
SqliteUnique ==
  \A k, d \in contributions :
    k.sequence = d.sequence \/ (k.key = d.key /\ k.key # NoKey) => k = d

LEMMA SqliteUniqueStep == SqliteTypeInv /\ SqliteUnique /\ SqliteStep => SqliteUnique'
<1> SUFFICES ASSUME SqliteTypeInv, SqliteUnique, SqliteStep PROVE SqliteUnique'
  OBVIOUS
<1>1. ASSUME contributions' = contributions PROVE SqliteUnique'
  BY <1>1 DEF SqliteUnique
<1>2. ASSUME NEW c \in Callers, SqliteWrites(c) PROVE SqliteUnique'
  <2> DEFINE row == [sequence |-> seen[c].number, region |-> call[c].region,
                     version |-> IF call[c].region \in Premises
                                 THEN call[c].expected + 1 ELSE 0,
                     key |-> call[c].key]
  <2>1. /\ contributions' = contributions \cup {row}
        /\ row.sequence = seen[c].number /\ row.key = call[c].key
    BY <1>2 DEF SqliteWrites, Record
  <2> HIDE DEF row
  <2>2. \A k \in contributions : /\ k.sequence # row.sequence
                                 /\ k.key = row.key => k.key = NoKey
    BY <1>2, <2>1 DEF SqliteWrites, KeyUsed
  <2> QED
    BY <2>1, <2>2 DEF SqliteUnique
<1>3. ASSUME NEW c \in Callers, SqliteEmpties(c) PROVE SqliteUnique'
  BY <1>3, DeletionEmptiesRecord DEF SqliteEmpties, SqliteUnique
<1>4. ASSUME NEW c \in Callers, SqliteAdds(c) \/ SqliteCloses(c) \/ SqliteRaises(c)
      PROVE  SqliteUnique'
  BY <1>1, <1>4 DEF SqliteAdds, AddRegion, SqliteCloses, SqliteRaises
<1>5. ASSUME \/ UNCHANGED tables \/ SqliteAtOnce \/ UNCHANGED shared
             \/ \E c, request : SqliteBegins(c, request)
      PROVE  SqliteUnique'
  BY <1>1, <1>5 DEF tables, SqliteAtOnce, shared, SqliteBegins, Begin
<1> QED
  BY <1>2, <1>3, <1>4, <1>5 DEF SqliteStep, SqliteChanges

LEMMA SqliteUniqueHolds == Sqlite!Spec => [](SqliteTypeInv /\ SqliteUnique)
<1>1. Sqlite!Init => SqliteUnique
  BY DEF Sqlite!Init, Sqlite!SharedInit, SqliteUnique
<1>2. /\ SqliteTypeInv /\ SqliteUnique /\ [Sqlite!Next]_(Sqlite!shared)
      => SqliteTypeInv' /\ SqliteUnique'
  BY SqliteSteps, SqliteTypeStep, SqliteUniqueStep
<1> QED
  BY SqliteTypeInit, <1>1, <1>2, PTL DEF Sqlite!Spec

\* The row of a key is the only one, and the first write is that row.
LEMMA SqliteKeyIsRecognised ==
  ASSUME SqliteUnique, NEW c, NEW k \in contributions, k.key = call[c].key, k.key # NoKey
  PROVE  /\ KeyUsed(c) /\ FirstWrite(c) = k
         /\ {d.sequence : d \in {e \in contributions : e.key = call[c].key}} = {k.sequence}
<1>1. KeyUsed(c)
  BY DEF KeyUsed
<1>2. \A d \in contributions : d.key = call[c].key => d = k
  BY DEF SqliteUnique
<1>3. FirstWrite(c) = k
  BY <1>1, <1>2, FirstWriteIsThere
<1> QED
  BY <1>1, <1>2, <1>3

\* Whoever is told that a keyed write landed is told of the row that has the key.
LEMMA SqliteTellsOneNumber ==
  ASSUME SqliteTypeInv, SqliteUnique, SqliteStep, NEW c \in Callers,
         IsTold(c, {"written", "repeated"}), call[c].key # NoKey
  PROVE  {k.sequence : k \in {d \in contributions' : d.key = call[c].key}} = {told'.number}
<1>1. \A k, n : Answer(k, n).kind = k /\ Answer(k, n).number = n
  BY DEF Answer
<1>2. CASE told'.kind = "written"
  <2>1. SqliteWrites(c) /\ told'.number = seen[c].number
    BY <1>1, <1>2, SqliteWhatIsTold DEF IsTold
  <2> DEFINE row == [sequence |-> seen[c].number, region |-> call[c].region,
                     version |-> IF call[c].region \in Premises
                                 THEN call[c].expected + 1 ELSE 0,
                     key |-> call[c].key]
  <2>2. /\ contributions' = contributions \cup {row}
        /\ row.sequence = seen[c].number /\ row.key = call[c].key
    BY <2>1 DEF SqliteWrites, Record
  <2> HIDE DEF row
  <2>3. \A k \in contributions : k.key # call[c].key
    BY <2>1 DEF SqliteWrites, KeyUsed
  <2> QED
    BY <2>1, <2>2, <2>3
<1>3. CASE told'.kind = "repeated"
  <2>1. KeyUsed(c) /\ told' = Recognise(c) /\ UNCHANGED tables
    BY <1>1, <1>3, SqliteWhatIsTold DEF IsTold
  <2>2. told'.number = FirstWrite(c).sequence
    BY <1>1, <1>3, <2>1 DEF Recognise
  <2>3. FirstWrite(c) \in contributions /\ FirstWrite(c).key = call[c].key
    BY <2>1, FirstWriteIsThere
  <2>4. {d.sequence : d \in {e \in contributions : e.key = call[c].key}}
          = {FirstWrite(c).sequence}
    BY <2>3, SqliteKeyIsRecognised
  <2> QED
    BY <2>1, <2>2, <2>4 DEF tables
<1> QED
  BY <1>1, <1>2, <1>3 DEF IsTold

\* Calls that write under one key are told the number of the one row that has it,
\* of whichever processes they are and however their statements interleave.
THEOREM SqliteKeysAgree == Sqlite!Spec => KeysAgree
<1>1. SqliteTypeInv /\ SqliteUnique /\ [Sqlite!Next]_(Sqlite!shared) =>
        \A c \in Callers :
          IsTold(c, {"written", "repeated"}) /\ call[c].key # NoKey =>
            {k.sequence : k \in {d \in contributions' : d.key = call[c].key}} = {told'.number}
  BY SqliteSteps, SqliteTellsOneNumber
<1> QED
  BY SqliteUniqueHolds, <1>1, PTL DEF Sqlite!Spec, KeysAgree

\* A write sent again after it landed is told of what it wrote: the region is still
\* declared, and its key is looked up before its version is compared.
THEOREM SqliteRetryIsRecognised == Sqlite!Spec => RetryIsRecognised
<1>1. ASSUME SqliteInv, SqliteStep, NEW c \in Callers, call[c].landed, ~ overlapped,
             IsTold(c, {"written", "conflict", "raised"})
      PROVE  FALSE
  <2>0. /\ SqliteTypeInv /\ SqliteOrdered /\ RecordInv /\ SqliteFound(c)
        /\ IsCall(call[c]) /\ call[c].op = "write" /\ call[c].op = SqliteOp(at[c])
        /\ at[c] \in SqliteStages
    BY <1>1 DEF SqliteInv, SqliteOrdered, IsTold, SqliteTypeInv, CallsType, IsCall, SqliteStage
  <2>1. PICK k \in contributions :
          k.key = call[c].key /\ k.key # NoKey /\ k.region = call[c].region
    BY <1>1, <2>0 DEF SqliteOrdered, LandedInv
  <2>2. KeyUsed(c) /\ FirstWrite(c) = k /\ call[c].region \in regions
    <3>1. SqliteUnique /\ call[c].region \in regions
      BY <2>0, <2>1 DEF RecordInv, SqliteUnique
    <3> QED
      BY <2>1, <3>1, SqliteKeyIsRecognised
  <2>3. at[c] \in {"require", "look_up"}
    BY <2>0, <2>2 DEF SqliteFound, SqliteOp, SqliteStages
  <2>4. Silence.kind = "none" /\ \A kind, n : Answer(kind, n).kind = kind
    BY DEF Answer, Silence
  <2>5. Recognise(c) = Answer("repeated", k.sequence)
    BY <2>1, <2>2 DEF Recognise
  <2>6. SqliteRefuses(c, told')
    BY <1>1, <2>0, <2>3, SqliteWhatIsTold DEF IsTold, SqliteWrites
  <2> QED
    BY <1>1, <2>2, <2>3, <2>4, <2>5, <2>6 DEF IsTold, SqliteRefuses
<1>2. SqliteInv /\ [Sqlite!Next]_(Sqlite!shared) =>
        \A c \in Callers :
          call[c].landed /\ ~ overlapped => ~ IsTold(c, {"written", "conflict", "raised"})
  BY <1>1, SqliteSteps
<1> QED
  BY SqliteInvHolds, <1>2, PTL DEF Sqlite!Spec, RetryIsRecognised

\* While no two processes are in a call, a keyed write that is told it lost did not
\* lose to another attempt of itself: no other call of the process writes between its
\* look at the key and at the version. Across processes one does (ConflictIsFinal).
THEOREM SqliteConflictIsFinal ==
  Sqlite!Spec =>
    [][\A c \in Callers : ~ overlapped => ~ LosesToItself(c)]_(Sqlite!shared)
<1>1. ASSUME SqliteInv, SqliteStep, ~ overlapped, NEW c \in Callers, LosesToItself(c)
      PROVE  FALSE
  <2>1. SqliteTypeInv /\ SqliteFound(c)
    BY <1>1 DEF SqliteInv, SqliteOrdered
  <2>2. at[c] = "version"
    BY <1>1, <2>1, SqliteWhatIsTold DEF LosesToItself, IsTold
  <2>3. KeyUsed(c)
    BY <1>1 DEF LosesToItself, KeyUsed
  <2> QED
    BY <2>1, <2>2, <2>3 DEF SqliteFound
<1>2. SqliteInv /\ [Sqlite!Next]_(Sqlite!shared) =>
        \A c \in Callers : ~ overlapped => ~ LosesToItself(c)
  BY <1>1, SqliteSteps
<1> QED
  BY SqliteInvHolds, <1>2, PTL DEF Sqlite!Spec

\* The tables hold one log that grows by fresh writes, each naming the version it
\* replaces: SqliteStore implements BoardRecord while no two processes are in a call.
THEOREM SqliteKeepsTheRecord == Sqlite!Spec => KeepsTheRecord
<1>1. Sqlite!Init => Promise!Init
  BY EmptyLog DEF Sqlite!Init, Sqlite!SharedInit
<1>2. ASSUME SqliteInv, SqliteStep, SqliteTypeInv', ~ overlapped',
             contributions' # contributions
      PROVE  Promise!Next
  <2>1. PICK c \in Callers : SqliteChanges(c)
    <3>1. UNCHANGED tables => contributions' = contributions
      BY DEF tables
    <3>2. SqliteAtOnce => contributions' = contributions
      BY DEF SqliteAtOnce
    <3>3. \A d, request : SqliteBegins(d, request) => contributions' = contributions
      BY DEF SqliteBegins, Begin, tables
    <3>4. UNCHANGED shared => contributions' = contributions
      BY DEF shared, tables
    <3> QED
      BY <1>2, <3>1, <3>2, <3>3, <3>4 DEF SqliteStep
  <2>2. overlapped' = overlapped
    BY <2>1 DEF SqliteChanges, SqliteWrites, SqliteAdds, SqliteEmpties, SqliteCloses,
                SqliteRaises, Return, ReturnDeleted
  <2>3. TablesType /\ TablesType' /\ RecordInv /\ SqliteFound(c)
    BY <1>2, <2>2 DEF SqliteInv, SqliteTypeInv, SqliteOrdered
  <2>4. CASE SqliteWrites(c)
    <3>1. IsCall(call[c]) /\ call[c].op = "write"
      BY <1>2, <2>4 DEF SqliteWrites, SqliteInv, SqliteTypeInv, CallsType, SqliteStage, SqliteOp
    <3>2. call[c].region \in Region /\ Record(c, Written + 1) /\ ~ KeyUsed(c)
      BY <2>3, <2>4, <3>1 DEF SqliteWrites, SqliteFound, IsCall
    <3>3. call[c].region \in regions /\
          (call[c].region \in Premises =>
             call[c].region \in DOMAIN versions /\ versions[call[c].region] = call[c].expected)
      BY <2>3, <2>4 DEF SqliteWrites, SqliteFound
    <3> QED
      BY <2>3, <3>1, <3>2, <3>3, WriteExtendsLog
  <2>5. CASE SqliteEmpties(c)
    BY <2>5, DeletionEmptiesRecord, DeletionClearsLog DEF SqliteEmpties
  <2>6. CASE SqliteAdds(c) \/ SqliteCloses(c) \/ SqliteRaises(c)
    BY <1>2, <2>6 DEF SqliteAdds, AddRegion, SqliteCloses, SqliteRaises
  <2> QED
    BY <2>1, <2>4, <2>5, <2>6 DEF SqliteChanges
<1>3. SqliteInv /\ SqliteInv' /\ [Sqlite!Next]_(Sqlite!shared) =>
        [overlapped' \/ Promise!Next]_<<contributions>>
  BY <1>2, SqliteSteps DEF SqliteInv
<1> QED
  BY SqliteInvHolds, <1>1, <1>3, PTL DEF Sqlite!Spec, KeepsTheRecord
=============================================================================
