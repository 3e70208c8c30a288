--------------------------- MODULE BoardStoreProofs --------------------------
(***************************************************************************)
(* Theorems of BoardStore, for every board, every set of agents and keys   *)
(* and every limit.                                                        *)
(***************************************************************************)
EXTENDS BoardStore, FiniteSetTheorems, SequenceTheorems, TLAPS

-----------------------------------------------------------------------------
(* Lemmas about the operators.                                             *)

LEMMA MaximumBounds ==
  ASSUME NEW m \in Nat, NEW n \in Nat
  PROVE  /\ Maximum(m, n) \in Nat
         /\ Maximum(m, n) >= m
         /\ Maximum(m, n) >= n
         /\ Maximum(m, n) = m \/ Maximum(m, n) = n
  BY DEF Maximum

\* mark_notified raises the column it is given and leaves the others.
LEMMA NotifiedThroughRises ==
  ASSUME notified \in [Agents -> Nat], NEW S \in SUBSET Agents, NEW n \in Nat
  PROVE  /\ NotifiedThrough(S, n) \in [Agents -> Nat]
         /\ \A a \in Agents : NotifiedThrough(S, n)[a] >= notified[a]
         /\ \A a \in Agents \ S : NotifiedThrough(S, n)[a] = notified[a]
  BY MaximumBounds DEF NotifiedThrough

-----------------------------------------------------------------------------
(* Type correctness.                                                       *)

\* What a write leaves of the record, whichever region it went to.
LEMMA RecordType ==
  ASSUME TypeOK, NEW r \in Region, NEW w \in Writers, NEW k \in Keys \cup {NoKey},
         NEW v \in Nat, NEW h \in SUBSET Agents,
         Record(r, w, k, v, h)
  PROVE  /\ sequence' = sequence + 1 /\ sequence' \in Nat
         /\ changes' \in Seq(Change)
         /\ keys' \in [Keys -> Written]
         /\ answers' \subseteq [key : Keys, written : Written]
         /\ outbox' \in [Agents -> SUBSET Nat]
         /\ UNCHANGED <<regions, run, now, roster, notified, acked, declaration, sent, cleared>>
<1> DEFINE written == [region |-> r, sequence |-> sequence + 1,
                       version |-> IF r \in Premises THEN v + 1 ELSE 0]
           change == [sequence |-> sequence + 1, region |-> r, writer |-> w, key |-> k,
                      expected |-> v, hearers |-> h]
<1>1. sequence \in Nat /\ sequence' = sequence + 1
  BY DEF TypeOK, Record
<1>2. written \in Written
  BY <1>1 DEF Written
<1>3. change \in Change
  BY <1>1 DEF Change
<1>4. changes' \in Seq(Change)
  BY <1>3 DEF TypeOK, Record
<1>5. keys' \in [Keys -> Written] /\ answers' \subseteq [key : Keys, written : Written]
  <2>1. CASE k \in Keys
    <3>1. keys' = [keys EXCEPT ![k] = written]
      BY <2>1 DEF Record
    <3>2. answers' = answers \cup {[key |-> k, written |-> written]}
      BY <2>1 DEF Record
    <3> HIDE DEF written
    <3> QED
      BY <2>1, <3>1, <3>2, <1>2 DEF TypeOK
  <2>2. CASE k \notin Keys
    BY <2>2 DEF TypeOK, Record
  <2> QED
    BY <2>1, <2>2
<1>6. outbox' \in [Agents -> SUBSET Nat]
  BY <1>1 DEF TypeOK, Record, Enqueue
<1> QED
  BY <1>1, <1>4, <1>5, <1>6 DEF Record, Enqueue, runVars, agentVars

LEMMA TypeInit == Init => TypeOK
  BY DEF Init, EmptyRecord, NoProgress, NoRun, TypeOK, NotWritten, Written, Run

LEMMA TypeStep == TypeOK /\ [Next]_vars => TypeOK'
<1> SUFFICES ASSUME TypeOK, [Next]_vars PROVE TypeOK'
  OBVIOUS
<1> USE DEF recordVars, runVars, agentVars, outboxVars
<1>1. ASSUME NEW r \in Region, Declare(r) PROVE TypeOK'
  BY <1>1 DEF TypeOK, Declare
<1>2. ASSUME NEW r \in Region, NEW k \in Keys, Repeat(r, k) PROVE TypeOK'
  BY <1>2 DEF TypeOK, Repeat
<1>3. ASSUME NEW l \in Levels, NEW w \in Writers, NEW k \in Keys \cup {NoKey},
             NEW h \in SUBSET Agents, AppendTo(l, w, k, h)
      PROVE  TypeOK'
  <2>1. l \in Region /\ Record(l, w, k, 0, h)
    BY <1>3 DEF AppendTo, Region
  <2>2. levels' \in [Levels -> Seq(Nat)] /\ premises' \in [Premises -> Nat]
    BY <1>3 DEF AppendTo, TypeOK
  <2> QED
    BY <2>1, <2>2, RecordType DEF TypeOK
<1>4. ASSUME NEW p \in Premises, NEW v \in Nat, NEW w \in Writers,
             NEW k \in Keys \cup {NoKey}, NEW h \in SUBSET Agents, Set(p, v, w, k, h)
      PROVE  TypeOK'
  <2>1. p \in Region /\ Record(p, w, k, v, h)
    BY <1>4 DEF Set, Region
  <2>2. levels' \in [Levels -> Seq(Nat)] /\ premises' \in [Premises -> Nat]
    BY <1>4 DEF Set, TypeOK
  <2> QED
    BY <2>1, <2>2, RecordType DEF TypeOK
<1>5. CASE Delete
  BY <1>5 DEF TypeOK, Delete, ForgetProgress, NoRun, Run, NotWritten, Written
<1>6. CASE OpenRun
  BY <1>6, LimitsAssumption DEF TypeOK, OpenRun, Run
<1>7. CASE TouchRun
  <2>1. run \in Run /\ now + Idle \in Nat
    BY LimitsAssumption DEF TypeOK
  <2>2. Touched \in Run
    BY <2>1 DEF Touched, Run
  <2> QED
    BY <1>7, <2>2 DEF TypeOK, TouchRun
<1>8. ASSUME NEW o \in Outcomes, NEW u \in SUBSET Agents, CloseRun(o, u) PROVE TypeOK'
  BY <1>8 DEF TypeOK, CloseRun, ForgetProgress, Run
<1>9. CASE Tick
  BY <1>9 DEF TypeOK, Tick
<1>10. ASSUME NEW a \in Agents, NEW n \in 1..sequence, MarkSent(a, n) PROVE TypeOK'
  <2>1. Maximum(sent[a], n) \in Nat
    <3>1. n \in Nat /\ sent[a] \in Nat
      BY DEF TypeOK
    <3> QED
      BY <3>1, MaximumBounds
  <2>2. outbox' \in [Agents -> SUBSET Nat]
    BY <1>10 DEF TypeOK, MarkSent
  <2>3. sent' \in [Agents -> Nat]
    BY <1>10, <2>1 DEF TypeOK, MarkSent
  <2> QED
    BY <1>10, <2>2, <2>3 DEF TypeOK, MarkSent
<1>11. ASSUME NEW a \in Agents, NEW n \in 1..sequence, MarkNotified(a, n) PROVE TypeOK'
  <2>1. notified' \in [Agents -> Nat]
    <3>1. n \in Nat /\ {a} \in SUBSET Agents /\ notified \in [Agents -> Nat]
      BY DEF TypeOK
    <3> QED
      BY <1>11, <3>1, NotifiedThroughRises DEF MarkNotified
  <2> QED
    BY <1>11, <2>1 DEF TypeOK, MarkNotified
<1>12. ASSUME NEW a \in Agents, NEW n \in 1..sequence, Acknowledge(a, n) PROVE TypeOK'
  <2>1. Maximum(acked[a], n) \in Nat
    <3>1. n \in Nat /\ acked[a] \in Nat
      BY DEF TypeOK
    <3> QED
      BY <3>1, MaximumBounds
  <2>2. acked' \in [Agents -> Nat]
    BY <1>12, <2>1 DEF TypeOK, Acknowledge
  <2> QED
    BY <1>12, <2>2 DEF TypeOK, Acknowledge
<1>13. ASSUME NEW a \in Agents, NEW d \in Declarations, DeclareAgent(a, d) PROVE TypeOK'
  BY <1>13 DEF TypeOK, DeclareAgent
<1>14. CASE UNCHANGED vars
  BY <1>14 DEF TypeOK, vars
<1> QED
  BY <1>1, <1>2, <1>3, <1>4, <1>5, <1>6, <1>7, <1>8, <1>9, <1>10, <1>11, <1>12, <1>13, <1>14,
     BoundsAssumption
  DEF Next

\* Every reachable state of the store has its type.
THEOREM TypeCorrect == Spec => []TypeOK
  BY TypeInit, TypeStep, PTL DEF Spec

-----------------------------------------------------------------------------
(* An agent answers no further than it was told.                           *)

LEMMA AckedInit == Init => AckedWithinNotified
  BY DEF Init, NoProgress, AckedWithinNotified

LEMMA AckedStep == TypeOK /\ AckedWithinNotified /\ [Next]_vars => AckedWithinNotified'
<1> SUFFICES ASSUME TypeOK, AckedWithinNotified, [Next]_vars PROVE AckedWithinNotified'
  OBVIOUS
<1>1. ASSUME UNCHANGED agentVars PROVE AckedWithinNotified'
  BY <1>1 DEF AckedWithinNotified, agentVars
<1>2. ASSUME ForgetProgress PROVE AckedWithinNotified'
  BY <1>2 DEF AckedWithinNotified, ForgetProgress
<1>3. ASSUME NEW a \in Agents, NEW n \in 1..sequence, MarkNotified(a, n)
      PROVE  AckedWithinNotified'
  <2>1. n \in Nat /\ {a} \in SUBSET Agents /\ notified \in [Agents -> Nat]
    BY DEF TypeOK
  <2>2. /\ notified' \in [Agents -> Nat]
        /\ \A b \in Agents : notified'[b] >= notified[b]
        /\ \A b \in Agents \ {a} : notified'[b] = notified[b]
    BY <1>3, <2>1, NotifiedThroughRises DEF MarkNotified
  <2>3. acked' = acked /\ roster' = roster \cup {a} /\ acked \in [Agents -> Nat]
    BY <1>3 DEF MarkNotified, TypeOK
  <2> QED
    BY <2>1, <2>2, <2>3 DEF AckedWithinNotified
<1>4. ASSUME NEW a \in Agents, NEW n \in 1..sequence, Acknowledge(a, n)
      PROVE  AckedWithinNotified'
  <2>1. n \in Nat /\ acked[a] \in Nat /\ n <= notified[a] /\ acked[a] <= notified[a]
    BY <1>4 DEF TypeOK, Acknowledge, Acknowledgeable, AckedWithinNotified
  <2>2. Maximum(acked[a], n) <= notified[a]
    BY <2>1, MaximumBounds
  <2> QED
    BY <1>4, <2>2 DEF TypeOK, AckedWithinNotified, Acknowledge
<1>5. ASSUME NEW a \in Agents, NEW d \in Declarations, DeclareAgent(a, d)
      PROVE  AckedWithinNotified'
  BY <1>5 DEF AckedWithinNotified, DeclareAgent
<1>6. ASSUME NEW r \in Region, Declare(r) \/ (\E k \in Keys : Repeat(r, k))
      PROVE  AckedWithinNotified'
  BY <1>1, <1>6 DEF Declare, Repeat, agentVars
<1>7. ASSUME NEW w \in Writers, NEW k \in Keys \cup {NoKey}, NEW h \in SUBSET Agents,
             \/ \E l \in Levels : AppendTo(l, w, k, h)
             \/ \E p \in Premises, v \in 0..MaxSequence : Set(p, v, w, k, h)
      PROVE  AckedWithinNotified'
  <2>1. ASSUME NEW r, NEW v, Record(r, w, k, v, h) PROVE UNCHANGED agentVars
    BY <2>1 DEF Record, agentVars
  <2> QED
    BY <1>1, <1>7, <2>1 DEF AppendTo, Set
<1>8. CASE Delete
  BY <1>2, <1>8 DEF Delete
<1>9. ASSUME NEW o \in Outcomes, NEW u \in SUBSET Agents, CloseRun(o, u)
      PROVE  AckedWithinNotified'
  BY <1>2, <1>9 DEF CloseRun
<1>10. CASE OpenRun \/ TouchRun \/ Tick
  BY <1>1, <1>10 DEF OpenRun, TouchRun, Tick, agentVars
<1>11. ASSUME NEW a \in Agents, NEW n \in 1..sequence, MarkSent(a, n)
       PROVE  AckedWithinNotified'
  BY <1>1, <1>11 DEF MarkSent, agentVars
<1>12. CASE UNCHANGED vars
  BY <1>1, <1>12 DEF vars, agentVars
<1> QED
  BY <1>3, <1>4, <1>5, <1>6, <1>7, <1>8, <1>9, <1>10, <1>11, <1>12 DEF Next

\* No agent's answer outruns what it was told, in any reachable state.
THEOREM AnswersWithinTelling == Spec => []AckedWithinNotified
<1>1. Init => TypeOK /\ AckedWithinNotified
  BY TypeInit, AckedInit
<1>2. TypeOK /\ AckedWithinNotified /\ [Next]_vars => (TypeOK /\ AckedWithinNotified)'
  BY TypeStep, AckedStep
<1> QED
  BY <1>1, <1>2, PTL DEF Spec

-----------------------------------------------------------------------------
(* The outbox holds what was recorded and not sent.                        *)

\* What OutboxKeepsIntent needs to be inductive: no number beyond the counter
\* has been sent or cleared, so the next write's rows are neither.
OutboxInv ==
  /\ sequence = Len(changes)
  /\ cleared <= sequence
  /\ \A a \in Agents : sent[a] <= sequence
  /\ OutboxKeepsIntent

LEMMA OutboxRecord ==
  ASSUME TypeOK, OutboxInv, NEW r \in Region, NEW w \in Writers,
         NEW k \in Keys \cup {NoKey}, NEW v \in Nat, NEW h \in SUBSET Agents,
         Record(r, w, k, v, h)
  PROVE  OutboxInv'
<1> DEFINE change == [sequence |-> sequence + 1, region |-> r, writer |-> w, key |-> k,
                      expected |-> v, hearers |-> h]
<1>1. /\ sequence \in Nat /\ sequence' = sequence + 1 /\ changes \in Seq(Change)
      /\ changes' = Append(changes, change)
      /\ sent' = sent /\ cleared' = cleared
  BY DEF TypeOK, Record, Enqueue
<1>2. /\ Len(changes') = sequence + 1
      /\ DOMAIN changes' = DOMAIN changes \cup {sequence + 1}
      /\ sequence + 1 \notin DOMAIN changes
      /\ \A i \in DOMAIN changes : changes'[i] = changes[i]
      /\ changes'[sequence + 1].hearers = h
  BY <1>1 DEF OutboxInv
<1>3. \A a \in Agents : outbox'[a] = IF a \in h THEN outbox[a] \cup {sequence + 1} ELSE outbox[a]
  BY DEF Record, Enqueue
<1>4. \A a \in Agents : sequence + 1 > sent[a] /\ sequence + 1 > cleared
  BY <1>1 DEF OutboxInv, TypeOK
<1>5. OutboxKeepsIntent'
  <2> SUFFICES ASSUME NEW a \in Agents
               PROVE  outbox'[a] = {i \in DOMAIN changes' :
                                      a \in changes'[i].hearers /\ i > sent'[a] /\ i > cleared'}
    BY DEF OutboxKeepsIntent
  <2>1. outbox[a] = {i \in DOMAIN changes :
                       a \in changes[i].hearers /\ i > sent[a] /\ i > cleared}
    BY DEF OutboxInv, OutboxKeepsIntent
  <2> HIDE DEF change
  <2> QED
    BY ZenonT(40), <2>1, <1>1, <1>2, <1>3, <1>4
<1>6. cleared' <= sequence' /\ \A a \in Agents : sent'[a] <= sequence'
  BY <1>1 DEF OutboxInv, TypeOK
<1> QED
  BY <1>1, <1>2, <1>5, <1>6 DEF OutboxInv

LEMMA OutboxInit == Init => OutboxInv
  BY DEF Init, EmptyRecord, OutboxInv, OutboxKeepsIntent

LEMMA OutboxStep == TypeOK /\ OutboxInv /\ [Next]_vars => OutboxInv'
<1> SUFFICES ASSUME TypeOK, OutboxInv, [Next]_vars PROVE OutboxInv'
  OBVIOUS
<1>1. ASSUME UNCHANGED <<sequence, changes, outboxVars>> PROVE OutboxInv'
  BY <1>1 DEF OutboxInv, OutboxKeepsIntent, outboxVars
<1>2. ASSUME NEW l \in Levels, NEW w \in Writers, NEW k \in Keys \cup {NoKey},
             NEW h \in SUBSET Agents, AppendTo(l, w, k, h)
      PROVE  OutboxInv'
  BY <1>2, OutboxRecord DEF AppendTo, Region
<1>3. ASSUME NEW p \in Premises, NEW v \in Nat, NEW w \in Writers,
             NEW k \in Keys \cup {NoKey}, NEW h \in SUBSET Agents, Set(p, v, w, k, h)
      PROVE  OutboxInv'
  BY <1>3, OutboxRecord DEF Set, Region
<1>4. CASE Delete
  BY <1>4 DEF Delete, OutboxInv, OutboxKeepsIntent
<1>5. ASSUME NEW o \in Outcomes, NEW u \in SUBSET Agents, CloseRun(o, u) PROVE OutboxInv'
  BY <1>5 DEF CloseRun, recordVars, OutboxInv, OutboxKeepsIntent, TypeOK
<1>6. ASSUME NEW a \in Agents, NEW n \in 1..sequence, MarkSent(a, n) PROVE OutboxInv'
  <2>1. /\ n \in Nat /\ n <= sequence /\ sequence \in Nat
        /\ sent \in [Agents -> Nat] /\ outbox \in [Agents -> SUBSET Nat]
        /\ sequence' = sequence /\ changes' = changes /\ cleared' = cleared
    BY <1>6 DEF TypeOK, MarkSent, recordVars
  <2>2. /\ outbox' = [outbox EXCEPT ![a] = {i \in outbox[a] : i > n}]
        /\ sent' = [sent EXCEPT ![a] = Maximum(sent[a], n)]
    BY <1>6 DEF MarkSent
  <2>3. \A i \in Nat : i > Maximum(sent[a], n) <=> i > sent[a] /\ i > n
    BY <2>1 DEF Maximum
  <2>4. \A b \in Agents : sent'[b] <= sequence'
    BY <2>1, <2>2 DEF OutboxInv, Maximum
  <2>5. ASSUME NEW b \in Agents
        PROVE  outbox'[b] = {i \in DOMAIN changes' :
                               b \in changes'[i].hearers /\ i > sent'[b] /\ i > cleared'}
    <3>1. outbox[b] = {i \in DOMAIN changes :
                         b \in changes[i].hearers /\ i > sent[b] /\ i > cleared}
      BY DEF OutboxInv, OutboxKeepsIntent
    <3>2. CASE b = a
      <4>1. outbox'[a] = {i \in outbox[a] : i > n} /\ sent'[a] = Maximum(sent[a], n)
        BY <2>1, <2>2
      <4>2. DOMAIN changes \subseteq Nat
        BY DEF TypeOK
      <4> QED
        BY <2>1, <2>3, <3>1, <3>2, <4>1, <4>2
    <3>3. CASE b # a
      BY <2>1, <2>2, <3>1, <3>3
    <3> QED
      BY <3>2, <3>3
  <2> QED
    BY <2>1, <2>4, <2>5 DEF OutboxInv, OutboxKeepsIntent
<1>7. ASSUME NEW r \in Region, Declare(r) \/ (\E k \in Keys : Repeat(r, k))
      PROVE  OutboxInv'
  BY <1>1, <1>7 DEF Declare, Repeat, outboxVars
<1>8. CASE OpenRun \/ TouchRun \/ Tick
  BY <1>1, <1>8 DEF OpenRun, TouchRun, Tick, recordVars, outboxVars
<1>9. ASSUME NEW a \in Agents, NEW n \in 1..sequence, MarkNotified(a, n) \/ Acknowledge(a, n)
      PROVE  OutboxInv'
  BY <1>1, <1>9 DEF MarkNotified, Acknowledge, recordVars, outboxVars
<1>10. ASSUME NEW a \in Agents, NEW d \in Declarations, DeclareAgent(a, d)
       PROVE  OutboxInv'
  BY <1>1, <1>10 DEF DeclareAgent, recordVars, outboxVars
<1>11. CASE UNCHANGED vars
  BY <1>1, <1>11 DEF vars, recordVars, outboxVars
<1>12. 0..MaxSequence \subseteq Nat
  BY BoundsAssumption
<1> QED
  BY <1>2, <1>3, <1>4, <1>5, <1>6, <1>7, <1>8, <1>9, <1>10, <1>11, <1>12 DEF Next

\* The outbox is exactly what writes recorded and nothing has sent or cleared.
THEOREM IntentIsKept == Spec => []OutboxKeepsIntent
<1>1. Init => TypeOK /\ OutboxInv
  BY TypeInit, OutboxInit
<1>2. TypeOK /\ OutboxInv /\ [Next]_vars => (TypeOK /\ OutboxInv)'
  BY TypeStep, OutboxStep
<1>3. OutboxInv => OutboxKeepsIntent
  BY DEF OutboxInv
<1> QED
  BY <1>1, <1>2, <1>3, PTL DEF Spec

-----------------------------------------------------------------------------
(* An idempotency key writes once.                                         *)

\* What KeyWritesOnce needs to be inductive: what is kept of a key is the one
\* write that carries it, or nothing where no write does.
KeyInv ==
  /\ sequence = Len(changes)
  /\ \A k \in Keys :
       IF keys[k].region = NoRegion
       THEN \A i \in DOMAIN changes : changes[i].key # k
       ELSE /\ keys[k].sequence \in DOMAIN changes
            /\ changes[keys[k].sequence].key = k
            /\ changes[keys[k].sequence].region = keys[k].region
  /\ \A i, j \in DOMAIN changes :
       changes[i].key = changes[j].key => changes[i].key = NoKey \/ i = j
  /\ \A x \in answers : keys[x.key].region # NoRegion /\ x.written = keys[x.key]

LEMMA KeyInvSuffices == TypeOK /\ KeyInv => KeyWritesOnce
<1> SUFFICES ASSUME TypeOK, KeyInv PROVE KeyWritesOnce
  OBVIOUS
<1>1. ASSUME NEW x \in answers
      PROVE  /\ x.written.sequence \in DOMAIN changes
             /\ changes[x.written.sequence].key = x.key
             /\ changes[x.written.sequence].region = x.written.region
  <2>1. x.key \in Keys
    BY DEF TypeOK
  <2> QED
    BY <2>1 DEF KeyInv
<1> QED
  BY <1>1 DEF KeyInv, KeyWritesOnce

LEMMA KeyRecord ==
  ASSUME TypeOK, KeyInv, NEW r \in Region, NEW w \in Writers,
         NEW k \in Keys \cup {NoKey}, NEW v \in Nat, NEW h \in SUBSET Agents,
         ~ Repeated(k, r), ~ Misused(k, r), Record(r, w, k, v, h)
  PROVE  KeyInv'
<1> DEFINE written == [region |-> r, sequence |-> sequence + 1,
                       version |-> IF r \in Premises THEN v + 1 ELSE 0]
           change == [sequence |-> sequence + 1, region |-> r, writer |-> w, key |-> k,
                      expected |-> v, hearers |-> h]
<1>1. /\ sequence \in Nat /\ sequence' = sequence + 1 /\ changes \in Seq(Change)
      /\ changes' = Append(changes, change)
      /\ keys \in [Keys -> Written] /\ answers \subseteq [key : Keys, written : Written]
  BY DEF TypeOK, Record
<1>2. /\ Len(changes') = sequence + 1
      /\ DOMAIN changes' = DOMAIN changes \cup {sequence + 1}
      /\ sequence + 1 \notin DOMAIN changes
      /\ \A i \in DOMAIN changes : changes'[i] = changes[i]
      /\ changes'[sequence + 1].key = k /\ changes'[sequence + 1].region = r
  BY <1>1 DEF KeyInv
<1>3. r # NoRegion
  BY RegionsAssumption DEF Region
<1>4. CASE k \in Keys
  <2>1. keys' = [keys EXCEPT ![k] = written]
    BY <1>4 DEF Record
  <2>2. answers' = answers \cup {[key |-> k, written |-> written]}
    BY <1>4 DEF Record
  <2>3. written.region = r /\ written.sequence = sequence + 1
    OBVIOUS
  <2> HIDE DEF written, change
  <2>4. keys'[k] = written /\ \A x \in Keys : x # k => keys'[x] = keys[x]
    BY <1>1, <1>4, <2>1
  <2>5. keys[k].region = NoRegion
    BY <1>4 DEF Repeated, Misused
  <2>6. \A i \in DOMAIN changes : changes[i].key # k
    BY <1>4, <2>5 DEF KeyInv
  <2>7. \A x \in answers : x.key \in Keys /\ x.key # k
    BY <1>1, <2>5 DEF KeyInv
  <2>8. ASSUME NEW x \in Keys
        PROVE  IF keys'[x].region = NoRegion
               THEN \A i \in DOMAIN changes' : changes'[i].key # x
               ELSE /\ keys'[x].sequence \in DOMAIN changes'
                    /\ changes'[keys'[x].sequence].key = x
                    /\ changes'[keys'[x].sequence].region = keys'[x].region
    <3>1. CASE x = k
      BY <1>2, <1>3, <2>3, <2>4, <3>1
    <3>2. CASE x # k
      <4>1. CASE keys[x].region = NoRegion
        BY <1>2, <2>4, <3>2, <4>1 DEF KeyInv
      <4>2. CASE keys[x].region # NoRegion
        BY <1>2, <2>4, <3>2, <4>2 DEF KeyInv
      <4> QED
        BY <4>1, <4>2
    <3> QED
      BY <3>1, <3>2
  <2>9. \A i, j \in DOMAIN changes' :
          changes'[i].key = changes'[j].key => changes'[i].key = NoKey \/ i = j
    BY <1>2, <2>6 DEF KeyInv
  <2>10. \A x \in answers' : keys'[x.key].region # NoRegion /\ x.written = keys'[x.key]
    BY <1>3, <2>2, <2>3, <2>4, <2>7 DEF KeyInv
  <2> QED
    BY <1>1, <1>2, <2>8, <2>9, <2>10 DEF KeyInv
<1>5. CASE k \notin Keys
  <2>1. keys' = keys /\ answers' = answers /\ k = NoKey
    BY <1>5 DEF Record
  <2> HIDE DEF written, change
  <2>2. ASSUME NEW x \in Keys
        PROVE  IF keys'[x].region = NoRegion
               THEN \A i \in DOMAIN changes' : changes'[i].key # x
               ELSE /\ keys'[x].sequence \in DOMAIN changes'
                    /\ changes'[keys'[x].sequence].key = x
                    /\ changes'[keys'[x].sequence].region = keys'[x].region
    BY <1>2, <1>5, <2>1 DEF KeyInv
  <2>3. \A i, j \in DOMAIN changes' :
          changes'[i].key = changes'[j].key => changes'[i].key = NoKey \/ i = j
    BY <1>2, <2>1 DEF KeyInv
  <2> QED
    BY <1>1, <1>2, <2>1, <2>2, <2>3 DEF KeyInv
<1> QED
  BY <1>4, <1>5

LEMMA KeyInit == Init => KeyInv
  BY DEF Init, EmptyRecord, NotWritten, KeyInv

LEMMA KeyStep == TypeOK /\ KeyInv /\ [Next]_vars => KeyInv'
<1> SUFFICES ASSUME TypeOK, KeyInv, [Next]_vars PROVE KeyInv'
  OBVIOUS
<1>1. ASSUME UNCHANGED <<sequence, changes, keys, answers>> PROVE KeyInv'
  BY <1>1 DEF KeyInv
<1>2. ASSUME NEW r \in Region, NEW k \in Keys, Repeat(r, k) PROVE KeyInv'
  <2>1. keys[k].region # NoRegion
    BY <1>2, RegionsAssumption DEF Repeat, Repeated, Region
  <2>2. \A x \in answers' : keys[x.key].region # NoRegion /\ x.written = keys[x.key]
    BY <1>2, <2>1 DEF Repeat, KeyInv
  <2> QED
    BY <1>2, <2>2 DEF Repeat, KeyInv
<1>3. ASSUME NEW l \in Levels, NEW w \in Writers, NEW k \in Keys \cup {NoKey},
             NEW h \in SUBSET Agents, AppendTo(l, w, k, h)
      PROVE  KeyInv'
  BY <1>3, KeyRecord DEF AppendTo, Region
<1>4. ASSUME NEW p \in Premises, NEW v \in Nat, NEW w \in Writers,
             NEW k \in Keys \cup {NoKey}, NEW h \in SUBSET Agents, Set(p, v, w, k, h)
      PROVE  KeyInv'
  BY <1>4, KeyRecord DEF Set, Region
<1>5. CASE Delete
  BY <1>5 DEF Delete, NotWritten, KeyInv
<1>6. ASSUME NEW r \in Region, Declare(r) PROVE KeyInv'
  BY <1>1, <1>6 DEF Declare
<1>7. CASE OpenRun \/ TouchRun \/ Tick
  BY <1>1, <1>7 DEF OpenRun, TouchRun, Tick, recordVars
<1>8. ASSUME NEW o \in Outcomes, NEW u \in SUBSET Agents, CloseRun(o, u) PROVE KeyInv'
  BY <1>1, <1>8 DEF CloseRun, recordVars
<1>9. ASSUME NEW a \in Agents, NEW n \in 1..sequence,
             MarkSent(a, n) \/ MarkNotified(a, n) \/ Acknowledge(a, n)
      PROVE  KeyInv'
  BY <1>1, <1>9 DEF MarkSent, MarkNotified, Acknowledge, recordVars
<1>10. ASSUME NEW a \in Agents, NEW d \in Declarations, DeclareAgent(a, d) PROVE KeyInv'
  BY <1>1, <1>10 DEF DeclareAgent, recordVars
<1>11. CASE UNCHANGED vars
  BY <1>1, <1>11 DEF vars, recordVars
<1>12. 0..MaxSequence \subseteq Nat
  BY BoundsAssumption
<1> QED
  BY <1>2, <1>3, <1>4, <1>5, <1>6, <1>7, <1>8, <1>9, <1>10, <1>11, <1>12 DEF Next

\* A key adds to the record at most once, and every answer it is given is that write's.
THEOREM KeysAreIdempotent == Spec => []KeyWritesOnce
<1>1. Init => TypeOK /\ KeyInv
  BY TypeInit, KeyInit
<1>2. TypeOK /\ KeyInv /\ [Next]_vars => (TypeOK /\ KeyInv)'
  BY TypeStep, KeyStep
<1>3. TypeOK /\ KeyInv => KeyWritesOnce
  BY KeyInvSuffices
<1> QED
  BY <1>1, <1>2, <1>3, PTL DEF Spec

-----------------------------------------------------------------------------
(* What no step may do.                                                    *)

LEMMA ProgressStep ==
  TypeOK /\ [Next]_vars =>
    \A a \in roster \cap roster' : notified'[a] >= notified[a] /\ acked'[a] >= acked[a]
<1> DEFINE Rises == \A a \in roster \cap roster' : /\ notified'[a] >= notified[a]
                                                  /\ acked'[a] >= acked[a]
<1> SUFFICES ASSUME TypeOK, [Next]_vars PROVE Rises
  OBVIOUS
<1>1. ASSUME UNCHANGED <<notified, acked>> PROVE Rises
  BY <1>1 DEF TypeOK
<1>2. ASSUME ForgetProgress PROVE Rises
  BY <1>2 DEF ForgetProgress
<1>3. ASSUME NEW a \in Agents, NEW n \in 1..sequence, MarkNotified(a, n) PROVE Rises
  <2>1. n \in Nat /\ {a} \in SUBSET Agents /\ notified \in [Agents -> Nat]
    BY DEF TypeOK
  <2>2. \A b \in Agents : notified'[b] >= notified[b]
    BY <1>3, <2>1, NotifiedThroughRises DEF MarkNotified
  <2>3. acked' = acked /\ acked \in [Agents -> Nat] /\ roster \subseteq Agents
    BY <1>3 DEF MarkNotified, TypeOK
  <2> QED
    BY <2>2, <2>3
<1>4. ASSUME NEW a \in Agents, NEW n \in 1..sequence, Acknowledge(a, n) PROVE Rises
  <2>1. n \in Nat /\ acked[a] \in Nat /\ acked \in [Agents -> Nat]
        /\ notified' = notified /\ notified \in [Agents -> Nat] /\ roster \subseteq Agents
    BY <1>4 DEF TypeOK, Acknowledge
  <2>2. Maximum(acked[a], n) >= acked[a]
    BY <2>1, MaximumBounds
  <2>3. acked' = [acked EXCEPT ![a] = Maximum(acked[a], n)]
    BY <1>4 DEF Acknowledge
  <2> QED
    BY <2>1, <2>2, <2>3
<1>5. ASSUME NEW r \in Region, Declare(r) \/ (\E k \in Keys : Repeat(r, k)) PROVE Rises
  BY <1>1, <1>5 DEF Declare, Repeat, agentVars
<1>6. ASSUME NEW w \in Writers, NEW k \in Keys \cup {NoKey}, NEW h \in SUBSET Agents,
             \/ \E l \in Levels : AppendTo(l, w, k, h)
             \/ \E p \in Premises, v \in 0..MaxSequence : Set(p, v, w, k, h)
      PROVE  Rises
  <2>1. ASSUME NEW r, NEW v, Record(r, w, k, v, h) PROVE UNCHANGED <<notified, acked>>
    BY <2>1 DEF Record, agentVars
  <2> QED
    BY <1>1, <1>6, <2>1 DEF AppendTo, Set
<1>7. CASE Delete
  BY <1>2, <1>7 DEF Delete
<1>8. ASSUME NEW o \in Outcomes, NEW u \in SUBSET Agents, CloseRun(o, u) PROVE Rises
  BY <1>2, <1>8 DEF CloseRun
<1>9. CASE OpenRun \/ TouchRun \/ Tick
  BY <1>1, <1>9 DEF OpenRun, TouchRun, Tick, agentVars
<1>10. ASSUME NEW a \in Agents, NEW n \in 1..sequence, MarkSent(a, n) PROVE Rises
  BY <1>1, <1>10 DEF MarkSent, agentVars
<1>11. ASSUME NEW a \in Agents, NEW d \in Declarations, DeclareAgent(a, d) PROVE Rises
  BY <1>1, <1>11 DEF DeclareAgent
<1>12. CASE UNCHANGED vars
  BY <1>1, <1>12 DEF vars, agentVars
<1> QED
  BY <1>3, <1>4, <1>5, <1>6, <1>7, <1>8, <1>9, <1>10, <1>11, <1>12 DEF Next

\* What an agent was told and what it answered never go down while its row lives.
THEOREM ProgressRises == Spec => ProgressOnlyRises
<1>1. TypeOK /\ [Next]_vars =>
        [\A a \in roster \cap roster' : /\ notified'[a] >= notified[a]
                                       /\ acked'[a] >= acked[a]]_vars
  BY ProgressStep
<1> QED
  BY <1>1, TypeInit, TypeStep, PTL DEF Spec, ProgressOnlyRises

LEMMA OutcomeStep ==
  TypeOK /\ [Next]_vars =>
    (run.state \in Outcomes =>
       \/ run' = run
       \/ run'.state = "open" /\ run'.unfinished = {}
       \/ run' = NoRun /\ changes' = <<>>)
<1> DEFINE Stands == \/ run' = run
                     \/ run'.state = "open" /\ run'.unfinished = {}
                     \/ run' = NoRun /\ changes' = <<>>
<1> SUFFICES ASSUME TypeOK, [Next]_vars, run.state \in Outcomes PROVE Stands
  OBVIOUS
<1>1. run.state # "open" /\ run.state # "none"
  BY DEF Outcomes
<1>2. ASSUME NEW r \in Region, Declare(r) \/ (\E k \in Keys : Repeat(r, k)) PROVE Stands
  BY <1>2 DEF Declare, Repeat, runVars
<1>3. ASSUME NEW w \in Writers, NEW k \in Keys \cup {NoKey}, NEW h \in SUBSET Agents,
             \/ \E l \in Levels : AppendTo(l, w, k, h)
             \/ \E p \in Premises, v \in 0..MaxSequence : Set(p, v, w, k, h)
      PROVE  Stands
  <2>1. ASSUME NEW r, NEW v, Record(r, w, k, v, h) PROVE run' = run
    BY <2>1 DEF Record, runVars
  <2> QED
    BY <1>3, <2>1 DEF AppendTo, Set
<1>4. CASE Delete
  BY <1>4 DEF Delete
<1>5. CASE OpenRun
  BY <1>5 DEF OpenRun
<1>6. CASE TouchRun
  BY <1>1, <1>6 DEF TouchRun, Touched
<1>7. ASSUME NEW o \in Outcomes, NEW u \in SUBSET Agents, CloseRun(o, u) PROVE Stands
  BY <1>1, <1>7 DEF CloseRun
<1>8. CASE Tick
  BY <1>8 DEF Tick
<1>9. ASSUME NEW a \in Agents, NEW n \in 1..sequence,
             MarkSent(a, n) \/ MarkNotified(a, n) \/ Acknowledge(a, n)
      PROVE  Stands
  BY <1>9 DEF MarkSent, MarkNotified, Acknowledge, runVars
<1>10. ASSUME NEW a \in Agents, NEW d \in Declarations, DeclareAgent(a, d) PROVE Stands
  BY <1>10 DEF DeclareAgent, runVars
<1>11. CASE UNCHANGED vars
  BY <1>11 DEF vars, runVars
<1> QED
  BY <1>2, <1>3, <1>4, <1>5, <1>6, <1>7, <1>8, <1>9, <1>10, <1>11 DEF Next

\* A closed run keeps how it closed and who was unfinished until it is opened
\* again or deleted: no late close and no touch changes it.
THEOREM ClosedStaysClosed == Spec => OutcomeStands
<1>1. TypeOK /\ [Next]_vars =>
        [run.state \in Outcomes =>
           \/ run' = run
           \/ run'.state = "open" /\ run'.unfinished = {}
           \/ run' = NoRun /\ changes' = <<>>]_vars
  BY OutcomeStep
<1> QED
  BY <1>1, TypeInit, TypeStep, PTL DEF Spec, OutcomeStands

-----------------------------------------------------------------------------
(* The two ways the record is kept agree.                                  *)

\* How many writes of the board went to a region.
Made(region) == {i \in DOMAIN changes : changes[i].region = region}

LEMMA MadeFinite ==
  ASSUME TypeOK, NEW r
  PROVE  IsFiniteSet(Made(r))
<1>1. Len(changes) \in Nat /\ DOMAIN changes = 1..Len(changes)
  BY DEF TypeOK
<1>2. IsFiniteSet(DOMAIN changes)
  BY <1>1, FS_Interval
<1> QED
  BY <1>2, FS_Subset DEF Made

\* A write adds its own number to the writes made to its region, and no other.
LEMMA MadeRecord ==
  ASSUME TypeOK, sequence = Len(changes), NEW r \in Region, NEW w \in Writers,
         NEW k \in Keys \cup {NoKey}, NEW v \in Nat, NEW h \in SUBSET Agents,
         Record(r, w, k, v, h)
  PROVE  /\ Made(r)' = Made(r) \cup {sequence + 1}
         /\ sequence + 1 \notin Made(r)
         /\ Cardinality(Made(r)') = Cardinality(Made(r)) + 1
         /\ \A q : q # r => Made(q)' = Made(q)
         /\ sequence' = Len(changes')
         /\ \A i \in DOMAIN changes' :
              \/ i \in DOMAIN changes /\ changes'[i] = changes[i]
              \/ i = sequence + 1 /\ changes'[i].sequence = i
<1> DEFINE change == [sequence |-> sequence + 1, region |-> r, writer |-> w, key |-> k,
                      expected |-> v, hearers |-> h]
<1>1. /\ sequence \in Nat /\ sequence' = sequence + 1 /\ changes \in Seq(Change)
      /\ changes' = Append(changes, change)
  BY DEF TypeOK, Record
<1>2. change.sequence = sequence + 1 /\ change.region = r
  OBVIOUS
<1> HIDE DEF change
<1>3. /\ Len(changes') = sequence + 1
      /\ DOMAIN changes' = DOMAIN changes \cup {sequence + 1}
      /\ sequence + 1 \notin DOMAIN changes
      /\ \A i \in DOMAIN changes : changes'[i] = changes[i]
      /\ changes'[sequence + 1] = change
  BY <1>1
<1>4. Made(r)' = Made(r) \cup {sequence + 1} /\ sequence + 1 \notin Made(r)
  BY <1>2, <1>3 DEF Made
<1>5. Cardinality(Made(r)') = Cardinality(Made(r)) + 1
  BY <1>4, MadeFinite, FS_AddElement
<1>6. \A q : q # r => Made(q)' = Made(q)
  BY <1>2, <1>3 DEF Made
<1> QED
  BY <1>1, <1>2, <1>3, <1>4, <1>5, <1>6

LEMMA RecordInit == Init => RecordAgrees
<1> SUFFICES ASSUME Init PROVE RecordAgrees
  OBVIOUS
<1>1. changes = <<>> /\ DOMAIN changes = {} /\ sequence = 0
  BY DEF Init, EmptyRecord
<1>2. \A q : {i \in DOMAIN changes : changes[i].region = q} = {}
  BY <1>1
<1>3. \A l \in Levels : levels[l] = <<>> /\ Range(levels[l]) = {} /\ DOMAIN levels[l] = {}
  BY DEF Init, EmptyRecord, Range
<1>4. \A p \in Premises : premises[p] = 0
  BY DEF Init, EmptyRecord
<1> QED
  BY <1>1, <1>2, <1>3, <1>4, FS_EmptySet DEF RecordAgrees

LEMMA AgreesAppend ==
  ASSUME TypeOK, RecordAgrees, NEW l \in Levels, NEW w \in Writers,
         NEW k \in Keys \cup {NoKey}, NEW h \in SUBSET Agents, AppendTo(l, w, k, h)
  PROVE  RecordAgrees'
<1>1. l \in Region /\ sequence = Len(changes) /\ Record(l, w, k, 0, h)
  BY DEF AppendTo, Region, RecordAgrees
<1>2. /\ Made(l)' = Made(l) \cup {sequence + 1}
      /\ \A q : q # l => Made(q)' = Made(q)
      /\ sequence' = Len(changes')
      /\ \A i \in DOMAIN changes' :
           \/ i \in DOMAIN changes /\ changes'[i] = changes[i]
           \/ i = sequence + 1 /\ changes'[i].sequence = i
  BY <1>1, MadeRecord
<1>3. /\ levels \in [Levels -> Seq(Nat)] /\ sequence \in Nat
      /\ levels' = [levels EXCEPT ![l] = Append(levels[l], sequence + 1)]
      /\ premises' = premises
  BY DEF TypeOK, AppendTo
<1>4. /\ \A q \in Levels : Range(levels[q]) = Made(q)
      /\ \A p \in Premises : premises[p] = Cardinality(Made(p))
  BY DEF RecordAgrees, Made
<1>5. \A p \in Premises : premises'[p] = Cardinality(Made(p)')
  BY <1>2, <1>3, <1>4, RegionsAssumption
<1>6. ASSUME NEW q \in Levels
      PROVE  /\ Range(levels'[q]) = Made(q)'
             /\ \A i, j \in DOMAIN levels'[q] : i < j => levels'[q][i] < levels'[q][j]
  <2>1. CASE q # l
    <3>1. levels'[q] = levels[q] /\ Made(q)' = Made(q)
      BY <1>2, <1>3, <2>1
    <3> QED
      BY <1>4, <3>1 DEF RecordAgrees
  <2>2. CASE q = l
    <3> DEFINE s == levels[l]
    <3>1. s \in Seq(Nat) /\ levels'[q] = Append(s, sequence + 1)
      BY <1>3, <2>2
    <3>2. \A i \in DOMAIN s : s[i] \in Made(l)
      BY <1>4 DEF Range
    <3>3. \A i \in DOMAIN s : s[i] \in Nat /\ s[i] <= sequence
      BY <1>1, <3>1, <3>2 DEF Made, TypeOK
    <3>4. \A i, j \in DOMAIN s : i < j => s[i] < s[j]
      BY DEF RecordAgrees
    <3>5. Range(s) = Made(l)
      BY <1>4
    <3> HIDE DEF s
    <3> DEFINE t == Append(s, sequence + 1)
    <3>6. /\ DOMAIN t = 1..Len(s) + 1 /\ DOMAIN s = 1..Len(s) /\ Len(s) \in Nat
          /\ \A i \in DOMAIN s : t[i] = s[i]
          /\ t[Len(s) + 1] = sequence + 1
      BY <1>3, <3>1
    <3> HIDE DEF t
    <3>7. Range(t) = Range(s) \cup {sequence + 1}
      BY <3>6 DEF Range
    <3>8. ASSUME NEW i \in DOMAIN t, NEW j \in DOMAIN t, i < j PROVE t[i] < t[j]
      <4>1. i \in DOMAIN s /\ (j \in DOMAIN s \/ j = Len(s) + 1)
        BY <3>6, <3>8
      <4>2. CASE j \in DOMAIN s
        BY <3>4, <3>6, <3>8, <4>1, <4>2
      <4>3. CASE j = Len(s) + 1
        BY <1>3, <3>3, <3>6, <4>1, <4>3
      <4> QED
        BY <4>1, <4>2, <4>3
    <3>9. levels'[q] = t
      BY <3>1 DEF t
    <3> QED
      BY <1>2, <2>2, <3>5, <3>7, <3>8, <3>9
  <2> QED
    BY <2>1, <2>2
<1>7. \A i \in DOMAIN changes' : changes'[i].sequence = i
  BY <1>2 DEF RecordAgrees
<1> QED
  BY <1>2, <1>5, <1>6, <1>7 DEF RecordAgrees, Made

LEMMA AgreesSet ==
  ASSUME TypeOK, RecordAgrees, NEW p \in Premises, NEW v \in Nat, NEW w \in Writers,
         NEW k \in Keys \cup {NoKey}, NEW h \in SUBSET Agents, Set(p, v, w, k, h)
  PROVE  RecordAgrees'
<1>1. p \in Region /\ sequence = Len(changes) /\ Record(p, w, k, v, h)
  BY DEF Set, Region, RecordAgrees
<1>2. /\ Cardinality(Made(p)') = Cardinality(Made(p)) + 1
      /\ \A q : q # p => Made(q)' = Made(q)
      /\ sequence' = Len(changes')
      /\ \A i \in DOMAIN changes' :
           \/ i \in DOMAIN changes /\ changes'[i] = changes[i]
           \/ i = sequence + 1 /\ changes'[i].sequence = i
  BY <1>1, MadeRecord
<1>3. /\ premises \in [Premises -> Nat] /\ levels' = levels
      /\ premises' = [premises EXCEPT ![p] = premises[p] + 1]
  BY DEF TypeOK, Set
<1>4. /\ \A l \in Levels : Range(levels[l]) = Made(l)
      /\ \A q \in Premises : premises[q] = Cardinality(Made(q))
  BY DEF RecordAgrees, Made
<1>5. ASSUME NEW q \in Premises PROVE premises'[q] = Cardinality(Made(q)')
  <2>1. CASE q = p
    BY <1>2, <1>3, <1>4, <2>1
  <2>2. CASE q # p
    BY <1>2, <1>3, <1>4, <2>2
  <2> QED
    BY <2>1, <2>2
<1>6. ASSUME NEW l \in Levels
      PROVE  /\ Range(levels'[l]) = Made(l)'
             /\ \A i, j \in DOMAIN levels'[l] : i < j => levels'[l][i] < levels'[l][j]
  <2>1. Made(l)' = Made(l)
    BY <1>2, RegionsAssumption
  <2> QED
    BY <1>3, <1>4, <2>1 DEF RecordAgrees
<1>7. \A i \in DOMAIN changes' : changes'[i].sequence = i
  BY <1>2 DEF RecordAgrees
<1> QED
  BY <1>2, <1>5, <1>6, <1>7 DEF RecordAgrees, Made

LEMMA AgreesStep == TypeOK /\ RecordAgrees /\ [Next]_vars => RecordAgrees'
<1> SUFFICES ASSUME TypeOK, RecordAgrees, [Next]_vars PROVE RecordAgrees'
  OBVIOUS
<1>1. ASSUME UNCHANGED <<sequence, changes, levels, premises>> PROVE RecordAgrees'
  BY <1>1 DEF RecordAgrees
<1>2. ASSUME NEW l \in Levels, NEW w \in Writers, NEW k \in Keys \cup {NoKey},
             NEW h \in SUBSET Agents, AppendTo(l, w, k, h)
      PROVE  RecordAgrees'
  BY <1>2, AgreesAppend
<1>3. ASSUME NEW p \in Premises, NEW v \in Nat, NEW w \in Writers,
             NEW k \in Keys \cup {NoKey}, NEW h \in SUBSET Agents, Set(p, v, w, k, h)
      PROVE  RecordAgrees'
  BY <1>3, AgreesSet
<1>4. CASE Delete
  <2>1. changes' = <<>> /\ DOMAIN changes' = {} /\ sequence' = 0
    BY <1>4 DEF Delete
  <2>2. \A q : {i \in DOMAIN changes' : changes'[i].region = q} = {}
    BY <2>1
  <2>3. \A l \in Levels : Range(levels'[l]) = {} /\ DOMAIN levels'[l] = {}
    BY <1>4 DEF Delete, Range
  <2>4. \A p \in Premises : premises'[p] = 0
    BY <1>4 DEF Delete
  <2> QED
    BY <2>1, <2>2, <2>3, <2>4, FS_EmptySet DEF RecordAgrees
<1>5. ASSUME NEW r \in Region, Declare(r) \/ (\E k \in Keys : Repeat(r, k))
      PROVE  RecordAgrees'
  BY <1>1, <1>5 DEF Declare, Repeat
<1>6. CASE OpenRun \/ TouchRun \/ Tick
  BY <1>1, <1>6 DEF OpenRun, TouchRun, Tick, recordVars
<1>7. ASSUME NEW o \in Outcomes, NEW u \in SUBSET Agents, CloseRun(o, u) PROVE RecordAgrees'
  BY <1>1, <1>7 DEF CloseRun, recordVars
<1>8. ASSUME NEW a \in Agents, NEW n \in 1..sequence,
             MarkSent(a, n) \/ MarkNotified(a, n) \/ Acknowledge(a, n)
      PROVE  RecordAgrees'
  BY <1>1, <1>8 DEF MarkSent, MarkNotified, Acknowledge, recordVars
<1>9. ASSUME NEW a \in Agents, NEW d \in Declarations, DeclareAgent(a, d) PROVE RecordAgrees'
  BY <1>1, <1>9 DEF DeclareAgent, recordVars
<1>10. CASE UNCHANGED vars
  BY <1>1, <1>10 DEF vars, recordVars
<1>11. 0..MaxSequence \subseteq Nat
  BY BoundsAssumption
<1> QED
  BY <1>2, <1>3, <1>4, <1>5, <1>6, <1>7, <1>8, <1>9, <1>10, <1>11 DEF Next

\* The counter, the levels, the premises and the one order of writes never disagree.
THEOREM RecordsAgree == Spec => []RecordAgrees
<1>1. Init => TypeOK /\ RecordAgrees
  BY TypeInit, RecordInit
<1>2. TypeOK /\ RecordAgrees /\ [Next]_vars => (TypeOK /\ RecordAgrees)'
  BY TypeStep, AgreesStep
<1> QED
  BY <1>1, <1>2, PTL DEF Spec

-----------------------------------------------------------------------------
(* The store keeps the promise of BoardRecord.                             *)

LEMMA ShownType ==
  ASSUME NEW writes \in Seq(Change)
  PROVE  /\ Shown(writes) \in Seq(Promise!Entry)
         /\ Len(Shown(writes)) = Len(writes) /\ Len(writes) \in Nat
         /\ DOMAIN Shown(writes) = 1..Len(writes) /\ DOMAIN writes = 1..Len(writes)
         /\ \A i \in DOMAIN writes : Shown(writes)[i] = Entry(writes[i])
<1>1. writes \in [1..Len(writes) -> Change] /\ Len(writes) \in Nat
  BY LenProperties
<1>2. \A c \in Change : Entry(c) \in Promise!Entry
  BY DEF Entry, Promise!Entry, Change, Region
<1>3. Shown(writes) \in [1..Len(writes) -> Promise!Entry]
  BY <1>1, <1>2 DEF Shown
<1>4. Shown(writes) \in Seq(Promise!Entry)
  BY <1>1, <1>3, SeqDef
<1>5. DOMAIN Shown(writes) = 1..Len(writes) /\ DOMAIN writes = 1..Len(writes)
  BY <1>1, <1>3
<1>6. Len(Shown(writes)) = Len(writes)
  BY <1>1, <1>4, <1>5, LenProperties
<1>7. \A i \in DOMAIN writes : Shown(writes)[i] = Entry(writes[i])
  BY DEF Shown
<1> QED
  BY <1>1, <1>4, <1>5, <1>6, <1>7

LEMMA ShownAppend ==
  ASSUME NEW writes \in Seq(Change), NEW change \in Change
  PROVE  Shown(Append(writes, change)) = Append(Shown(writes), Entry(change))
<1> DEFINE longer == Append(writes, change)
           shown == Shown(writes)
           entry == Entry(change)
<1>1. /\ longer \in Seq(Change) /\ Len(longer) = Len(writes) + 1
      /\ \A i \in 1..Len(writes) : longer[i] = writes[i]
      /\ longer[Len(writes) + 1] = change
  BY AppendProperties
<1>2. /\ shown \in Seq(Promise!Entry) /\ Len(shown) = Len(writes) /\ Len(writes) \in Nat
      /\ DOMAIN writes = 1..Len(writes)
      /\ \A i \in DOMAIN writes : shown[i] = Entry(writes[i])
  BY ShownType
<1>3. /\ Shown(longer) \in Seq(Promise!Entry) /\ Len(Shown(longer)) = Len(writes) + 1
      /\ DOMAIN longer = 1..Len(writes) + 1
      /\ \A i \in DOMAIN longer : Shown(longer)[i] = Entry(longer[i])
  BY <1>1, ShownType
<1>4. entry \in Promise!Entry
  BY DEF Entry, Promise!Entry, Change, Region
<1> HIDE DEF longer, shown, entry
<1>5. /\ Append(shown, entry) \in Seq(Promise!Entry)
      /\ Len(Append(shown, entry)) = Len(writes) + 1
      /\ \A i \in 1..Len(writes) : Append(shown, entry)[i] = shown[i]
      /\ Append(shown, entry)[Len(writes) + 1] = entry
  BY <1>2, <1>4, AppendProperties
<1>6. ASSUME NEW i \in 1..Len(Shown(longer)) PROVE Shown(longer)[i] = Append(shown, entry)[i]
  <2>1. CASE i \in 1..Len(writes)
    BY <1>1, <1>2, <1>3, <1>5, <2>1
  <2>2. CASE i = Len(writes) + 1
    BY <1>1, <1>2, <1>3, <1>5, <2>2 DEF entry
  <2> QED
    BY <1>2, <1>3, <2>1, <2>2
<1>7. Shown(longer) = Append(shown, entry)
  BY <1>3, <1>5, <1>6, SeqEqual
<1> QED
  BY <1>7 DEF longer, shown, entry

\* The writes BoardRecord counts are those made to the region.
LEMMA ShownCounts ==
  ASSUME TypeOK, NEW r
  PROVE  Promise!WritesTo(r) = Cardinality(Made(r))
<1>1. /\ DOMAIN Shown(changes) = DOMAIN changes
      /\ \A i \in DOMAIN changes : Shown(changes)[i] = Entry(changes[i])
  BY ShownType DEF TypeOK
<1>2. {i \in DOMAIN Shown(changes) : Shown(changes)[i].region = r} = Made(r)
  BY <1>1 DEF Entry, Made
<1> QED
  BY <1>2 DEF Promise!WritesTo, Cardinality, Promise!Cardinality

\* A write whose key is new and whose version is the current one extends the log.
LEMMA RecordExtends ==
  ASSUME TypeOK, RecordAgrees, KeyInv, NEW r \in Region, NEW w \in Writers,
         NEW k \in Keys \cup {NoKey}, NEW v \in Nat, NEW h \in SUBSET Agents,
         r \in Premises => v = premises[r],
         ~ Repeated(k, r), ~ Misused(k, r), Record(r, w, k, v, h)
  PROVE  Promise!Next
<1> DEFINE change == [sequence |-> sequence + 1, region |-> r, writer |-> w, key |-> k,
                      expected |-> v, hearers |-> h]
           entry == Entry(change)
<1>1. changes \in Seq(Change) /\ change \in Change /\ changes' = Append(changes, change)
  BY DEF TypeOK, Record, Change
<1>2. entry.region = r /\ entry.expected = v /\ entry.key = k /\ entry \in Promise!Entry
  BY DEF Entry, Promise!Entry, Region
<1> HIDE DEF change, entry
<1>3. Shown(changes)' = Append(Shown(changes), entry)
  BY <1>1, ShownAppend DEF entry
<1>4. /\ Shown(changes) \in Seq(Promise!Entry)
      /\ DOMAIN Shown(changes) = DOMAIN changes
      /\ \A i \in DOMAIN changes : Shown(changes)[i] = Entry(changes[i])
  BY <1>1, ShownType
<1>5. /\ Len(Shown(changes)') = Len(Shown(changes)) + 1
      /\ Shown(changes)'[Len(Shown(changes)')] = entry
  BY <1>2, <1>3, <1>4, AppendProperties
<1>6. Promise!Fresh(k)
  <2>1. CASE k \in Keys
    <3>1. \A i \in DOMAIN changes : changes[i].key # k
      BY <2>1 DEF KeyInv, Repeated, Misused
    <3> QED
      BY <1>4, <3>1 DEF Promise!Fresh, Entry
  <2>2. CASE k = NoKey
    BY <2>2 DEF Promise!Fresh
  <2> QED
    BY <2>1, <2>2
<1>7. r \in Premises => v = Promise!WritesTo(r)
  BY ShownCounts DEF RecordAgrees, Made
<1>8. Promise!Extend(entry)
  BY <1>2, <1>3, <1>6, <1>7 DEF Promise!Extend
<1> QED
  BY <1>2, <1>5, <1>8 DEF Promise!Next

LEMMA PromiseInit == Init => Promise!Init
  BY DEF Init, EmptyRecord, Shown, Promise!Init

LEMMA PromiseStep ==
  TypeOK /\ RecordAgrees /\ KeyInv /\ [Next]_vars => [Promise!Next]_(Shown(changes))
<1> SUFFICES ASSUME TypeOK, RecordAgrees, KeyInv, [Next]_vars
             PROVE  Promise!Next \/ UNCHANGED Shown(changes)
  OBVIOUS
<1>1. ASSUME UNCHANGED changes PROVE UNCHANGED Shown(changes)
  BY <1>1 DEF Shown
<1>2. ASSUME NEW l \in Levels, NEW w \in Writers, NEW k \in Keys \cup {NoKey},
             NEW h \in SUBSET Agents, AppendTo(l, w, k, h)
      PROVE  Promise!Next
  <2>1. l \in Region /\ l \notin Premises
    BY RegionsAssumption DEF Region
  <2> QED
    BY <1>2, <2>1, RecordExtends DEF AppendTo
<1>3. ASSUME NEW p \in Premises, NEW v \in Nat, NEW w \in Writers,
             NEW k \in Keys \cup {NoKey}, NEW h \in SUBSET Agents, Set(p, v, w, k, h)
      PROVE  Promise!Next
  BY <1>3, RecordExtends DEF Set, Conflicts, Region
<1>4. CASE Delete
  <2>1. Shown(changes)' = <<>>
    BY <1>4 DEF Delete, Shown
  <2> QED
    BY <2>1 DEF Promise!Next, Promise!Clear
<1>5. ASSUME NEW r \in Region, Declare(r) \/ (\E k \in Keys : Repeat(r, k))
      PROVE  UNCHANGED Shown(changes)
  BY <1>1, <1>5 DEF Declare, Repeat
<1>6. CASE OpenRun \/ TouchRun \/ Tick
  BY <1>1, <1>6 DEF OpenRun, TouchRun, Tick, recordVars
<1>7. ASSUME NEW o \in Outcomes, NEW u \in SUBSET Agents, CloseRun(o, u)
      PROVE  UNCHANGED Shown(changes)
  BY <1>1, <1>7 DEF CloseRun, recordVars
<1>8. ASSUME NEW a \in Agents, NEW n \in 1..sequence,
             MarkSent(a, n) \/ MarkNotified(a, n) \/ Acknowledge(a, n)
      PROVE  UNCHANGED Shown(changes)
  BY <1>1, <1>8 DEF MarkSent, MarkNotified, Acknowledge, recordVars
<1>9. ASSUME NEW a \in Agents, NEW d \in Declarations, DeclareAgent(a, d)
      PROVE  UNCHANGED Shown(changes)
  BY <1>1, <1>9 DEF DeclareAgent, recordVars
<1>10. CASE UNCHANGED vars
  BY <1>1, <1>10 DEF vars, recordVars
<1>11. 0..MaxSequence \subseteq Nat
  BY BoundsAssumption
<1> QED
  BY <1>2, <1>3, <1>4, <1>5, <1>6, <1>7, <1>8, <1>9, <1>10, <1>11 DEF Next

\* Every step of the store maps to a step of the promised log or to a stutter.
THEOREM StoreKeepsTheRecord == Spec => KeepsTheRecord
<1>1. Init => TypeOK /\ RecordAgrees /\ KeyInv
  BY TypeInit, RecordInit, KeyInit
<1>2. TypeOK /\ RecordAgrees /\ KeyInv /\ [Next]_vars => (TypeOK /\ RecordAgrees /\ KeyInv)'
  BY TypeStep, AgreesStep, KeyStep
<1>3. Init => Promise!Init
  BY PromiseInit
<1>4. TypeOK /\ RecordAgrees /\ KeyInv /\ [Next]_vars => [Promise!Next]_(Shown(changes))
  BY PromiseStep
<1> QED
  BY <1>1, <1>2, <1>3, <1>4, PTL DEF Spec, KeepsTheRecord, Promise!Spec
=============================================================================
