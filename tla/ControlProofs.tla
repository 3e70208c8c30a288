---------------------------- MODULE ControlProofs ----------------------------
(***************************************************************************)
(* Theorems of Control, for any number of processes, agents, regions,      *)
(* writes, ticks and crashes.                                              *)
(***************************************************************************)
EXTENDS Control, FiniteSetTheorems, SequenceTheorems, WellFoundedInduction, TLAPS

\* What type correctness needs to be inductive: a row of the outbox is a write
\* of the board, so the greatest one that mark_sent is given is a number.
Bounded ==
  /\ sequence = Len(changes)
  /\ \A a \in Agents : outbox[a] \subseteq 1..sequence

TypeInv == TypeOK /\ Bounded

-----------------------------------------------------------------------------
(* Lemmas about the operators.                                             *)

\* A set of numbers that is not empty and has a bound has a greatest one.
LEMMA MaxIsMember ==
  ASSUME NEW S \in SUBSET Nat, S # {}, NEW bound \in Nat, \A x \in S : x <= bound
  PROVE  Max(S) \in S /\ \A x \in S : x <= Max(S)
<1> DEFINE Above == {n \in Nat : \A x \in S : x <= n}
<1>1. PICK least \in Above : \A n \in Above : ~ (<<n, least>> \in OpToRel(<, Nat))
  <2>1. Above \subseteq Nat /\ Above # {}
    OBVIOUS
  <2> HIDE DEF Above
  <2> QED
    BY <2>1, NatLessThanWellFounded, WFMin
<1>2. \A n \in Above : ~ (n < least)
  BY <1>1 DEF OpToRel
<1>3. least \in Nat /\ \A x \in S : x <= least
  BY <1>1
<1>4. least \in S
  <2>1. SUFFICES ASSUME least \notin S PROVE FALSE
    OBVIOUS
  <2>2. PICK x \in S : TRUE
    OBVIOUS
  <2>3. x \in Nat /\ x < least
    BY <2>1, <2>2, <1>3
  <2>4. least - 1 \in Above
    BY <1>3, <2>1, <2>3
  <2> QED
    BY <1>2, <1>3, <2>3, <2>4
<1>5. \E x \in S : \A y \in S : x >= y
  BY <1>3, <1>4
<1> QED
  BY <1>5 DEF Max

LEMMA MaximumBounds ==
  ASSUME NEW m \in Nat, NEW n \in Nat
  PROVE  /\ Store!Maximum(m, n) \in Nat
         /\ Store!Maximum(m, n) >= m
         /\ Store!Maximum(m, n) >= n
         /\ Store!Maximum(m, n) = m \/ Store!Maximum(m, n) = n
  BY DEF Store!Maximum

\* mark_notified raises the columns of the agents it is given, and no others.
LEMMA NotifiedThroughRises ==
  ASSUME Store!TypeOK, NEW S, NEW n \in Nat
  PROVE  /\ Store!NotifiedThrough(S, n) \in [Agents -> Nat]
         /\ \A a \in Agents : Store!NotifiedThrough(S, n)[a] >= notified[a]
         /\ \A a \in Agents : a \in S => Store!NotifiedThrough(S, n)[a] >= n
  BY MaximumBounds DEF Store!NotifiedThrough, Store!TypeOK

\* What a read answers with is writes of the board, after where it starts.
LEMMA PageBounds ==
  ASSUME TypeInv, NEW after
  PROVE  Page(after) \subseteq 1..sequence /\ Page(after) \subseteq DOMAIN changes
  BY DEF TypeInv, TypeOK, Bounded, Page, Store!TypeOK

LEMMA EndOfPage ==
  ASSUME TypeInv, NEW after, NEW n \in Nat
  PROVE  /\ Max({n} \cup Page(after)) \in Nat
         /\ n <= Max({n} \cup Page(after))
         /\ n <= sequence => Max({n} \cup Page(after)) <= sequence
<1> DEFINE S == {n} \cup Page(after)
<1>1. sequence \in Nat /\ Page(after) \subseteq 1..sequence
  BY PageBounds DEF TypeInv, TypeOK, Store!TypeOK
<1>2. S \in SUBSET Nat /\ S # {} /\ \A x \in S : x <= sequence + n
  BY <1>1
<1>3. Max(S) \in S /\ \A x \in S : x <= Max(S)
  <2>1. sequence + n \in Nat
    BY <1>1
  <2> HIDE DEF S
  <2> QED
    BY <1>2, <2>1, MaxIsMember
<1> QED
  BY <1>1, <1>2, <1>3

LEMMA RegionsOfPage ==
  ASSUME TypeInv, NEW page \in SUBSET (DOMAIN changes)
  PROVE  RegionsOf(page) \subseteq Region
<1>1. \A i \in DOMAIN changes : changes[i] \in Store!Change
  BY DEF TypeInv, TypeOK, Store!TypeOK
<1> QED
  BY <1>1 DEF RegionsOf, Store!Change, Region, Store!Region

LEMMA HoldsIs ==
  ASSUME NEW known
  PROVE  Holds(known) <=> /\ DOMAIN known \subseteq Agents
                          /\ known \in [DOMAIN known -> Held]
  BY DEF Holds

LEMMA NothingHeld == Holds(NoHeld) /\ DOMAIN NoHeld = {}
<1>1. NoHeld \in [1..0 -> Held]
  BY EmptySeq, LenProperties DEF NoHeld
<1>2. DOMAIN NoHeld = {}
  BY <1>1
<1> QED
  BY <1>1, <1>2, HoldsIs

\* Telling the agents it wakes leaves a process what it held, raised.
LEMMA ToldRaises ==
  ASSUME NEW known, Holds(known), NEW woken, NEW end \in Nat
  PROVE  /\ Holds(Told(known, woken, end))
         /\ DOMAIN Told(known, woken, end) = DOMAIN known
         /\ \A a \in DOMAIN known :
              /\ Told(known, woken, end)[a].acked = known[a].acked
              /\ \/ Told(known, woken, end)[a].notified = known[a].notified
                 \/ /\ a \in woken
                    /\ Told(known, woken, end)[a].notified
                         = Store!Maximum(known[a].notified, end)
<1>1. DOMAIN known \subseteq Agents /\ known \in [DOMAIN known -> Held]
  BY HoldsIs
<1> DEFINE told == Told(known, woken, end)
<1>2. ASSUME NEW a \in DOMAIN known
      PROVE  /\ told[a] \in Held
             /\ told[a].acked = known[a].acked
             /\ \/ told[a].notified = known[a].notified
                \/ a \in woken /\ told[a].notified = Store!Maximum(known[a].notified, end)
  <2>1. known[a] \in Held /\ Store!Maximum(known[a].notified, end) \in Nat
    BY <1>1, MaximumBounds DEF Held
  <2>2. told[a] = IF a \in woken
                  THEN [known[a] EXCEPT !.notified = Store!Maximum(known[a].notified, end)]
                  ELSE known[a]
    BY DEF Told
  <2> HIDE DEF told
  <2> QED
    BY <2>1, <2>2 DEF Held
<1>3. DOMAIN told = DOMAIN known /\ told = [a \in DOMAIN known |-> told[a]]
  BY DEF Told
<1>4. Holds(told)
  <2> HIDE DEF told
  <2> QED
    BY <1>1, <1>2, <1>3, HoldsIs
<1> QED
  BY <1>2, <1>3, <1>4

LEMMA NoteType ==
  ASSUME NEW a \in Agents, NEW answered \in Nat, NEW end \in Nat, NEW named \in SUBSET Region
  PROVE  /\ Note(a, answered, end, named) \in Notification
         /\ Note(a, answered, end, named).agent = a
         /\ Note(a, answered, end, named).to = end
  BY DEF Note, Notification

\* The deliveries of a dispatch are to the agents it wakes, as far as it says.
LEMMA DeliveriesType ==
  ASSUME NEW c \in Controls, NEW known, Holds(known), NEW end \in Nat, NEW pending,
         \A a \in DOMAIN known : pending[a] \subseteq Region
  PROVE  /\ Deliveries(c, known, pending, end) \subseteq Delivery
         /\ \A d \in Deliveries(c, known, pending, end) :
              d.note.agent \in Woken(c, known, pending, end) /\ d.note.to = end
         /\ Woken(c, known, pending, end) \subseteq DOMAIN known
         /\ Woken(c, known, pending, end) \subseteq Agents
<1>1. DOMAIN known \subseteq Agents /\ known \in [DOMAIN known -> Held]
  BY HoldsIs
<1>2. Woken(c, known, pending, end) \subseteq DOMAIN known
  BY DEF Woken
<1>3. ASSUME NEW d \in Deliveries(c, known, pending, end)
      PROVE  /\ d \in Delivery /\ d.note.to = end
             /\ d.note.agent \in Woken(c, known, pending, end)
  <2>1. PICK a \in Woken(c, known, pending, end) :
          d = [control |-> c, stage |-> "queued", note |-> Note(a, known[a].acked, end, pending[a])]
    BY DEF Deliveries
  <2>2. a \in Agents /\ known[a].acked \in Nat /\ pending[a] \in SUBSET Region
    BY <1>1, <1>2 DEF Held
  <2> QED
    BY <2>1, <2>2, NoteType DEF Delivery
<1> QED
  BY <1>1, <1>2, <1>3

-----------------------------------------------------------------------------
(* What the calls to the store leave of its type.                          *)

StoreInv == Store!TypeOK /\ Bounded

\* What a write leaves of the record, whichever region it went to.
LEMMA RecordType ==
  ASSUME StoreInv, NEW r \in Region, NEW w \in Writers, NEW k \in Keys \cup {NoKey},
         NEW v \in Nat, NEW h \in SUBSET Agents,
         Store!Record(r, w, k, v, h)
  PROVE  /\ sequence' = sequence + 1 /\ sequence' \in Nat
         /\ changes' \in Seq(Store!Change)
         /\ keys' \in [Keys -> Store!Written]
         /\ answers' \subseteq [key : Keys, written : Store!Written]
         /\ outbox' \in [Agents -> SUBSET Nat]
         /\ Bounded'
         /\ UNCHANGED <<regions, run, now, roster, notified, acked, declaration, sent, cleared>>
<1> DEFINE written == [region |-> r, sequence |-> sequence + 1,
                       version |-> IF r \in Premises THEN v + 1 ELSE 0]
           change == [sequence |-> sequence + 1, region |-> r, writer |-> w, key |-> k,
                      expected |-> v, hearers |-> h]
<1>1. sequence \in Nat /\ sequence' = sequence + 1 /\ sequence = Len(changes)
  BY DEF StoreInv, Bounded, Store!TypeOK, Store!Record
<1>2. written \in Store!Written
  BY <1>1 DEF Store!Written, Region, Store!Region
<1>3. change \in Store!Change
  BY <1>1 DEF Store!Change, Region, Store!Region
<1>4. changes' \in Seq(Store!Change) /\ Len(changes') = sequence + 1
  <2>1. changes \in Seq(Store!Change) /\ changes' = Append(changes, change)
    BY DEF StoreInv, Store!TypeOK, Store!Record
  <2> HIDE DEF change
  <2> QED
    BY <1>1, <1>3, <2>1
<1>5. keys' \in [Keys -> Store!Written] /\ answers' \subseteq [key : Keys, written : Store!Written]
  <2>1. CASE k \in Keys
    <3>1. keys' = [keys EXCEPT ![k] = written]
      BY <2>1 DEF Store!Record
    <3>2. answers' = answers \cup {[key |-> k, written |-> written]}
      BY <2>1 DEF Store!Record
    <3> HIDE DEF written
    <3> QED
      BY <2>1, <3>1, <3>2, <1>2 DEF StoreInv, Store!TypeOK
  <2>2. CASE k \notin Keys
    BY <2>2 DEF StoreInv, Store!TypeOK, Store!Record
  <2> QED
    BY <2>1, <2>2
<1>6. /\ outbox' \in [Agents -> SUBSET Nat]
      /\ \A a \in Agents : outbox'[a] \subseteq outbox[a] \cup {sequence + 1}
  BY <1>1 DEF StoreInv, Store!TypeOK, Store!Record, Store!Enqueue
<1>7. Bounded'
  BY <1>1, <1>4, <1>6 DEF StoreInv, Bounded
<1> QED
  BY <1>1, <1>4, <1>5, <1>6, <1>7
  DEF Store!Record, Store!Enqueue, Store!runVars, Store!agentVars

\* A write to a level or to a premise keeps the store's type.
LEMMA WriteType ==
  ASSUME StoreInv, NEW r \in Region, NEW w \in Writers, NEW v \in Nat, NEW h \in SUBSET Agents,
         \/ Store!AppendTo(r, w, NoKey, h)
         \/ Store!Set(r, v, w, NoKey, h)
  PROVE  /\ StoreInv' /\ sequence' = sequence + 1
         /\ UNCHANGED <<regions, run, now, roster, notified, acked, declaration, sent, cleared>>
<1>1. CASE Store!AppendTo(r, w, NoKey, h)
  <2>1. Store!Record(r, w, NoKey, 0, h) /\ 0 \in Nat
    BY <1>1 DEF Store!AppendTo
  <2>2. levels' \in [Levels -> Seq(Nat)] /\ premises' \in [Premises -> Nat]
    BY <1>1 DEF Store!AppendTo, StoreInv, Store!TypeOK
  <2> QED
    BY <2>1, <2>2, RecordType DEF StoreInv, Store!TypeOK
<1>2. CASE Store!Set(r, v, w, NoKey, h)
  <2>1. Store!Record(r, w, NoKey, v, h)
    BY <1>2 DEF Store!Set
  <2>2. levels' \in [Levels -> Seq(Nat)] /\ premises' \in [Premises -> Nat]
    BY <1>2 DEF Store!Set, StoreInv, Store!TypeOK
  <2> QED
    BY <2>1, <2>2, RecordType DEF StoreInv, Store!TypeOK
<1> QED
  BY <1>1, <1>2

LEMMA CloseRunType ==
  ASSUME StoreInv, NEW o \in Store!Outcomes, NEW u \in SUBSET Agents, Store!CloseRun(o, u)
  PROVE  /\ StoreInv' /\ run'.state = o
         /\ UNCHANGED <<sequence, changes>>
  BY DEF StoreInv, Bounded, Store!TypeOK, Store!CloseRun, Store!ForgetProgress, Store!Run,
         Store!recordVars

LEMMA MarkSentType ==
  ASSUME StoreInv, NEW a \in Agents, NEW n \in Nat, Store!MarkSent(a, n)
  PROVE  /\ StoreInv'
         /\ UNCHANGED <<sequence, changes, run, now, roster, notified, acked, declaration>>
<1>1. sent' \in [Agents -> Nat]
  BY MaximumBounds DEF StoreInv, Store!TypeOK, Store!MarkSent
<1>2. /\ outbox' \in [Agents -> SUBSET Nat]
      /\ \A b \in Agents : outbox'[b] \subseteq outbox[b]
  BY DEF StoreInv, Store!TypeOK, Store!MarkSent
<1> QED
  BY <1>1, <1>2
  DEF StoreInv, Bounded, Store!TypeOK, Store!MarkSent, Store!recordVars, Store!runVars, Store!agentVars

LEMMA AcknowledgeType ==
  ASSUME StoreInv, NEW a \in Agents, NEW n \in Nat, Store!Acknowledge(a, n)
  PROVE  /\ StoreInv'
         /\ acked' \in [Agents -> Nat] /\ acked'[a] >= n
         /\ \A b \in Agents : acked'[b] >= acked[b]
         /\ UNCHANGED <<sequence, changes, run, now, roster, notified, declaration, outbox>>
<1>1. /\ acked' \in [Agents -> Nat] /\ acked'[a] >= n
      /\ \A b \in Agents : acked'[b] >= acked[b]
  <2>1. acked \in [Agents -> Nat] /\ acked' = [acked EXCEPT ![a] = Store!Maximum(acked[a], n)]
    BY DEF StoreInv, Store!TypeOK, Store!Acknowledge
  <2>2. /\ Store!Maximum(acked[a], n) \in Nat
        /\ Store!Maximum(acked[a], n) >= n /\ Store!Maximum(acked[a], n) >= acked[a]
    BY <2>1, MaximumBounds
  <2> QED
    BY <2>1, <2>2
<1> QED
  BY <1>1
  DEF StoreInv, Bounded, Store!TypeOK, Store!Acknowledge, Store!recordVars, Store!runVars, Store!outboxVars

LEMMA TouchedType ==
  ASSUME Store!TypeOK
  PROVE  Store!Touched \in Store!Run /\ Store!Touched.state = run.state
<1>1. run \in Store!Run /\ now + Idle \in Nat
  BY ControlAssumption DEF Store!TypeOK
<1> QED
  BY <1>1 DEF Store!Touched, Store!Run

\* Progress that is marked, and an idle deadline that is pushed out or left.
LEMMA MarkedType ==
  ASSUME StoreInv, NEW S \in SUBSET Agents, NEW W, NEW n \in Nat,
         roster' = roster \cup S, notified' = Store!NotifiedThrough(W, n),
         run' \in Store!Run, declaration' \in [Agents -> Declarations \cup {NoDeclaration}],
         UNCHANGED <<regions, sequence, changes, levels, premises, keys, answers,
                     now, acked, outbox, sent, cleared>>
  PROVE  StoreInv'
<1>1. notified' \in [Agents -> Nat]
  BY NotifiedThroughRises DEF StoreInv
<1> QED
  BY <1>1 DEF StoreInv, Bounded, Store!TypeOK

LEMMA UnchangedStoreType == StoreInv /\ UnchangedStore => StoreInv'
  BY DEF StoreInv, Bounded, Store!TypeOK, UnchangedStore, storeVars

LEMMA TouchIdleType ==
  ASSUME TypeOK, NEW c \in Controls, TouchIdle(c) \/ UNCHANGED <<run, idleDue, asked>>
  PROVE  /\ run' \in Store!Run /\ run'.state = run.state
         /\ idleDue' \in [Controls -> Nat]
         /\ asked' \in [Controls -> BOOLEAN]
<1>1. now + Idle \in Nat
  BY ControlAssumption DEF TypeOK, Store!TypeOK
<1>2. run' \in Store!Run /\ run'.state = run.state
  BY TouchedType DEF TypeOK, Store!TypeOK, TouchIdle
<1>3. idleDue' \in [Controls -> Nat]
  BY <1>1 DEF TypeOK, TouchIdle
<1>4. asked' \in [Controls -> BOOLEAN]
  BY Zenon DEF TypeOK, TouchIdle
<1> QED
  BY <1>2, <1>3, <1>4

-----------------------------------------------------------------------------
(* Type correctness.                                                       *)

LEMMA TypeInit == Init => TypeInv
<1> SUFFICES ASSUME Init PROVE TypeInv
  OBVIOUS
<1>1. StoreInv
  BY DEF Init, Store!Init, Store!EmptyRecord, Store!NoProgress, Store!NoRun, Store!TypeOK,
         Store!NotWritten, Store!Written, Store!Run, StoreInv, Bounded
<1>2. up \subseteq Controls /\ touching \subseteq Controls /\ flight \subseteq Delivery
  BY DEF Init
<1>3. last \in [Controls -> Nat] /\ wallDue \in [Controls -> Nat] /\ idleDue \in [Controls -> Nat]
  BY DEF Init, Never
<1>4. DOMAIN held = Controls /\ \A y \in Controls : Holds(held[y])
  BY NothingHeld DEF Init
<1>5. outcome \in [Controls -> {"none"} \cup Store!Outcomes] /\ asked \in [Controls -> BOOLEAN]
  BY DEF Init
<1>6. pc \in [Controls -> Lock]
  BY DEF Init, Lock
<1>7. answering \subseteq [control : Controls, agent : Agents, through : Nat]
  BY DEF Init
<1>8. sweep = NoSweep
  BY DEF Init
<1>9. /\ received \in [Agents -> SUBSET Notification] /\ crashes \in 0..MaxCrashes
      /\ served \in [Controls -> Nat]
  BY ControlAssumption DEF Init
<1> QED
  BY <1>1, <1>2, <1>3, <1>4, <1>5, <1>6, <1>7, <1>8, <1>9 DEF TypeInv, TypeOK, StoreInv

-----------------------------------------------------------------------------
(* What the processes and the deliveries know is behind the store.         *)

\* CacheNeverAhead and EveryNotificationAnswerable without the condition that
\* the run is open, for processes that are down too, and with what makes them
\* inductive: the answers yet to be noted, and the deliveries under way.
Behind ==
  /\ \A c \in Controls :
       /\ last[c] <= sequence
       /\ \A a \in DOMAIN held[c] : /\ held[c][a].notified <= notified[a]
                                     /\ held[c][a].acked <= acked[a]
  /\ \A k \in answering : k.through <= acked[k.agent]
  /\ \A a \in Agents : acked[a] <= notified[a]
  /\ \A d \in flight : Store!Acknowledgeable(d.note.agent, d.note.to)
  /\ \A a \in Agents : \A n \in received[a] : Store!Acknowledgeable(a, n.to)

\* A step after which the run is as open as before and nothing runs ahead.
Keeps == TypeInv' /\ run'.state = run.state /\ (Behind => Behind')

LEMMA StoreInvIs == TypeInv => StoreInv
  BY DEF TypeInv, TypeOK, StoreInv

LEMMA DispatchType ==
  ASSUME TypeInv, NEW c \in Controls, NEW known, Holds(known), NEW woken, NEW end \in Nat,
         NEW S \in SUBSET Agents, NEW W, NEW D \in SUBSET Delivery,
         roster' = roster \cup S, notified' = Store!NotifiedThrough(W, end),
         declaration' \in [Agents -> Declarations \cup {NoDeclaration}],
         last' \in [Controls -> Nat], pc' \in [Controls -> Lock], touching' \subseteq Controls,
         held' = [held EXCEPT ![c] = Told(known, woken, end)],
         flight' = flight \cup D,
         TouchIdle(c) \/ UNCHANGED <<run, idleDue, asked>>,
         UNCHANGED <<regions, sequence, changes, levels, premises, keys, answers, now, acked,
                     outbox, sent, cleared, up, outcome, wallDue, answering, sweep, received,
                     crashes, served>>
  PROVE  TypeInv' /\ run'.state = run.state
<1>1. /\ run' \in Store!Run /\ run'.state = run.state
      /\ idleDue' \in [Controls -> Nat]
      /\ asked' \in [Controls -> BOOLEAN]
  BY TouchIdleType DEF TypeInv
<1>2. StoreInv'
  BY <1>1, MarkedType, StoreInvIs
<1>3. DOMAIN held' = Controls /\ \A y \in Controls : Holds(held'[y])
  BY ToldRaises DEF TypeInv, TypeOK
<1> QED
  BY <1>1, <1>2, <1>3, Zenon DEF TypeInv, TypeOK, StoreInv, Bounded

LEMMA DispatchBehind ==
  ASSUME TypeInv, Behind, NEW c \in Controls, NEW known, Holds(known),
         NEW end \in Nat, NEW S \in SUBSET Agents, NEW W \in SUBSET S, NEW woken \in SUBSET W,
         NEW D \in SUBSET Delivery,
         \A d \in D : d.note.agent \in W /\ d.note.to = end,
         \A a \in DOMAIN known : known[a].notified <= notified[a] /\ known[a].acked <= acked[a],
         \A x \in Controls : last'[x] <= sequence,
         roster' = roster \cup S, notified' = Store!NotifiedThrough(W, end),
         held' = [held EXCEPT ![c] = Told(known, woken, end)],
         flight' = flight \cup D,
         UNCHANGED <<sequence, acked, answering, received>>
  PROVE  Behind'
<1>1. /\ notified \in [Agents -> Nat] /\ notified' \in [Agents -> Nat]
      /\ \A a \in Agents : notified'[a] >= notified[a]
      /\ \A a \in W : notified'[a] >= end
  BY NotifiedThroughRises DEF TypeInv, TypeOK, Store!TypeOK
<1>2. ASSUME NEW a \in Agents, NEW n \in Nat, Store!Acknowledgeable(a, n)
      PROVE  Store!Acknowledgeable(a, n)'
  BY <1>1, <1>2 DEF Store!Acknowledgeable
<1>3. ASSUME NEW d \in flight' PROVE Store!Acknowledgeable(d.note.agent, d.note.to)'
  <2>1. CASE d \in flight
    <3>1. d.note.agent \in Agents /\ d.note.to \in Nat
      BY <2>1 DEF TypeInv, TypeOK, Delivery, Notification
    <3> QED
      BY <1>2, <2>1, <3>1 DEF Behind
  <2>2. CASE d \in D
    BY <1>1, <2>2 DEF Store!Acknowledgeable
  <2> QED
    BY <2>1, <2>2
<1>4. ASSUME NEW a \in Agents, NEW n \in received'[a] PROVE Store!Acknowledgeable(a, n.to)'
  <2>1. n \in received[a] /\ n.to \in Nat
    BY <1>4 DEF TypeInv, TypeOK, Notification
  <2> QED
    BY <1>2, <2>1 DEF Behind
<1>5. ASSUME NEW x \in Controls, NEW a \in DOMAIN held'[x]
      PROVE  held'[x][a].notified <= notified'[a] /\ held'[x][a].acked <= acked'[a]
  <2>1. DOMAIN held = Controls /\ \A y \in Controls : Holds(held[y])
    BY DEF TypeInv, TypeOK
  <2>2. CASE x = c
    <3> DEFINE told == Told(known, woken, end)
    <3>1. held'[x] = told /\ DOMAIN told = DOMAIN known
      BY <2>1, <2>2, ToldRaises
    <3>2. a \in DOMAIN known /\ a \in Agents /\ known[a] \in Held
      BY <1>5, <3>1, HoldsIs
    <3>3. /\ told[a].acked = known[a].acked
          /\ \/ told[a].notified = known[a].notified
             \/ a \in woken /\ told[a].notified = Store!Maximum(known[a].notified, end)
      BY <3>2, ToldRaises
    <3>4. \/ told[a].notified = known[a].notified
          \/ a \in W /\ told[a].notified = end
      BY <3>2, <3>3 DEF Store!Maximum, Held
    <3> HIDE DEF told
    <3> QED
      BY <1>1, <3>1, <3>2, <3>3, <3>4 DEF Held
  <2>3. CASE x # c
    <3>1. held'[x] = held[x] /\ Holds(held[x])
      BY <2>1, <2>3
    <3>2. a \in Agents /\ held[x][a] \in Held
      BY <1>5, <3>1, HoldsIs
    <3>3. held[x][a].notified <= notified[a] /\ held[x][a].acked <= acked[a]
      BY <1>5, <3>1 DEF Behind
    <3> QED
      BY <1>1, <3>1, <3>2, <3>3 DEF Held
  <2> QED
    BY <2>2, <2>3
<1>6. ASSUME NEW a \in Agents PROVE acked'[a] <= notified'[a]
  <2>1. acked[a] \in Nat /\ acked[a] <= notified[a]
    BY DEF TypeInv, TypeOK, Store!TypeOK, Behind
  <2> QED
    BY <1>1, <2>1
<1> QED
  BY <1>3, <1>4, <1>5, <1>6 DEF Behind

-----------------------------------------------------------------------------
(* The actions that leave a run as open as it was.                         *)

WritingLock == [op : {"appending", "noting"}, region : Region, writer : Writers,
                hearers : SUBSET Agents, acked : [Agents -> Nat],
                declared : [Agents -> Declarations \cup {NoDeclaration}]]
OpeningLock == [op : {"opening"}, missing : SUBSET Premises]
ClosingLock == [op : {"closing"}, outcome : Store!Outcomes, unfinished : SUBSET Agents]

LEMMA LockIs ==
  ASSUME NEW l \in Lock
  PROVE  /\ l.op \in {"appending", "noting"} => l \in WritingLock
         /\ l.op = "opening" => l \in OpeningLock
         /\ l.op = "closing" => l \in ClosingLock
  BY DEF Lock, Waiting, WritingLock, OpeningLock, ClosingLock

LEMMA LockHas ==
  /\ Waiting \in Lock /\ WritingLock \subseteq Lock
  /\ OpeningLock \subseteq Lock /\ ClosingLock \subseteq Lock
  BY DEF Lock, WritingLock, OpeningLock, ClosingLock

\* A step that touches neither the store nor what Behind reads.
LEMMA LockStep ==
  ASSUME TypeInv, pc' \in [Controls -> Lock], touching' \subseteq Controls,
         asked' \in [Controls -> BOOLEAN],
         UNCHANGED <<storeVars, up, last, held, outcome, wallDue, idleDue, answering, flight,
                     sweep, received, crashes, served>>
  PROVE  Keeps
<1>1. StoreInv'
  BY StoreInvIs, UnchangedStoreType DEF UnchangedStore
<1>2. TypeInv'
  BY <1>1 DEF TypeInv, TypeOK, StoreInv
<1>3. run' = run /\ UNCHANGED <<sequence, notified, acked, roster>>
  BY DEF storeVars
<1>4. Behind => Behind'
  BY <1>3 DEF Behind, Store!Acknowledgeable
<1> QED
  BY <1>2, <1>3, <1>4 DEF Keeps

LEMMA ReadStandingKeeps ==
  ASSUME TypeInv, NEW c \in Controls, ReadStanding(c)
  PROVE  Keeps
<1>1. [op |-> "opening", missing |-> {p \in Premises : premises[p] = 0}] \in Lock
  BY DEF Lock
<1>2. pc' \in [Controls -> Lock]
  BY <1>1 DEF TypeInv, TypeOK, ReadStanding
<1> QED
  BY <1>2, LockStep
  DEF TypeInv, TypeOK, ReadStanding, UnchangedStore, UnchangedHistory, UnchangedCalls, localVars

LEMMA CreatedKeeps ==
  ASSUME TypeInv, NEW c \in Controls, Created(c)
  PROVE  Keeps
<1>1. pc' \in [Controls -> Lock]
  BY LockHas DEF TypeInv, TypeOK, Created
<1> QED
  BY <1>1, LockStep
  DEF TypeInv, TypeOK, Created, UnchangedStore, UnchangedHistory, localVars

LEMMA BeginWriteKeeps ==
  ASSUME TypeInv, NEW c \in Controls, NEW r \in Region, NEW w \in Writers, BeginWrite(c, r, w)
  PROVE  Keeps
<1>1. PICK subscribed \in SUBSET Agents :
        pc' = [pc EXCEPT ![c] = [op |-> "appending", region |-> r, writer |-> w,
                                 hearers |-> subscribed \ {w},
                                 acked |-> acked, declared |-> declaration]]
  BY DEF BeginWrite, TypeInv, TypeOK, Store!TypeOK
<1>2. acked \in [Agents -> Nat] /\ declaration \in [Agents -> Declarations \cup {NoDeclaration}]
  BY DEF TypeInv, TypeOK, Store!TypeOK
<1>3. [op |-> "appending", region |-> r, writer |-> w, hearers |-> subscribed \ {w},
       acked |-> acked, declared |-> declaration] \in Lock
  BY <1>2 DEF Lock
<1>4. pc' \in [Controls -> Lock]
  BY <1>1, <1>3 DEF TypeInv, TypeOK
<1> QED
  BY <1>4, LockStep
  DEF TypeInv, TypeOK, BeginWrite, UnchangedStore, UnchangedHistory, UnchangedCalls, localVars

LEMMA RefuseWriteKeeps ==
  ASSUME TypeInv, NEW c \in Controls, RefuseWrite(c)
  PROVE  Keeps
<1>1. pc' \in [Controls -> Lock]
  BY LockHas DEF TypeInv, TypeOK, RefuseWrite
<1> QED
  BY <1>1, LockStep
  DEF TypeInv, TypeOK, RefuseWrite, UnchangedStore, UnchangedHistory, localVars

LEMMA BeginCloseKeeps ==
  ASSUME TypeInv, NEW c \in Controls, NEW o \in Store!Outcomes, BeginClose(c, o)
  PROVE  Keeps
<1>1. [op |-> "closing", outcome |-> o,
       unfinished |-> IF o = "aborted" THEN {} ELSE Store!Outstanding] \in Lock
  BY DEF TypeInv, TypeOK, Store!TypeOK, Lock, Store!Outstanding
<1>2. pc' \in [Controls -> Lock]
  BY <1>1 DEF TypeInv, TypeOK, BeginClose
<1> QED
  BY <1>2, LockStep
  DEF TypeInv, TypeOK, BeginClose, UnchangedStore, UnchangedHistory, UnchangedCalls, localVars

LEMMA AskPredicateKeeps ==
  ASSUME TypeInv, NEW c \in Controls, AskPredicate(c)
  PROVE  Keeps
<1>1. asked' \in [Controls -> BOOLEAN]
  BY Zenon DEF TypeInv, TypeOK, AskPredicate
<1> QED
  BY <1>1, LockStep
  DEF TypeInv, TypeOK, AskPredicate, UnchangedStore, UnchangedHistory, UnchangedCalls

\* A write of the process or of one that opens a premise: the counter rises.
LEMMA SequenceKeeps ==
  ASSUME TypeInv, NEW c \in Controls, NEW r \in Region, NEW w \in Writers, NEW v \in Nat,
         NEW h \in SUBSET Agents,
         Store!AppendTo(r, w, NoKey, h) \/ Store!Set(r, v, w, NoKey, h),
         last' = [last EXCEPT ![c] = sequence + 1], pc' \in [Controls -> Lock],
         UNCHANGED <<up, held, outcome, wallDue, idleDue, asked, answering, touching, flight,
                     sweep, received, crashes, served>>
  PROVE  Keeps
<1>1. /\ StoreInv' /\ sequence' = sequence + 1 /\ sequence \in Nat
      /\ UNCHANGED <<run, roster, notified, acked>>
  BY WriteType, StoreInvIs DEF StoreInv, Store!TypeOK
<1>2. last' \in [Controls -> Nat] /\ \A x \in Controls : last'[x] \in {last[x], sequence + 1}
  BY <1>1 DEF TypeInv, TypeOK
<1>3. TypeInv'
  BY <1>1, <1>2 DEF TypeInv, TypeOK, StoreInv
<1>4. ASSUME Behind PROVE Behind'
  <2>1. ASSUME NEW x \in Controls PROVE last'[x] <= sequence'
    <3>1. last[x] <= sequence /\ last[x] \in Nat
      BY <1>4 DEF Behind, TypeInv, TypeOK
    <3> QED
      BY <1>1, <1>2, <3>1
  <2> QED
    BY <1>1, <1>4, <2>1 DEF Behind, Store!Acknowledgeable
<1> QED
  BY <1>1, <1>3, <1>4 DEF Keeps

LEMMA OpenPremiseKeeps ==
  ASSUME TypeInv, NEW c \in Controls, NEW p \in Premises, OpenPremise(c, p)
  PROVE  Keeps
<1>1. p \in Region /\ NoWriter \in Writers /\ {} \in SUBSET Agents /\ 0 \in Nat
  BY ControlAssumption DEF Region
<1>2. pc' \in [Controls -> Lock]
  <2>1. pc[c] \in OpeningLock
    BY LockIs DEF TypeInv, TypeOK, OpenPremise
  <2>2. [pc[c] EXCEPT !.missing = pc[c].missing \ {p}] \in OpeningLock
    BY <2>1 DEF OpeningLock
  <2> QED
    BY <2>2, LockHas DEF TypeInv, TypeOK, OpenPremise
<1> QED
  BY <1>1, <1>2, SequenceKeeps DEF OpenPremise, UnchangedHistory, UnchangedCalls

LEMMA SequenceWriteKeeps ==
  ASSUME TypeInv, NEW c \in Controls, SequenceWrite(c)
  PROVE  Keeps
<1>1. pc[c] \in WritingLock
  BY LockIs DEF TypeInv, TypeOK, SequenceWrite
<1>2. pc' \in [Controls -> Lock]
  <2>1. [pc[c] EXCEPT !.op = "noting"] \in WritingLock
    BY <1>1 DEF WritingLock
  <2> QED
    BY <2>1, LockHas DEF TypeInv, TypeOK, SequenceWrite
<1>3. /\ pc[c].region \in Region /\ pc[c].writer \in Writers /\ pc[c].hearers \in SUBSET Agents
      /\ pc[c].region \in Premises => premises[pc[c].region] \in Nat
  BY <1>1 DEF WritingLock, TypeInv, TypeOK, Store!TypeOK
<1>4. \/ Store!AppendTo(pc[c].region, pc[c].writer, NoKey, pc[c].hearers)
      \/ /\ pc[c].region \in Premises
         /\ Store!Set(pc[c].region, premises[pc[c].region], pc[c].writer, NoKey, pc[c].hearers)
  BY DEF SequenceWrite
<1>5. PICK v \in Nat :
        \/ Store!AppendTo(pc[c].region, pc[c].writer, NoKey, pc[c].hearers)
        \/ Store!Set(pc[c].region, v, pc[c].writer, NoKey, pc[c].hearers)
  BY <1>3, <1>4
<1> QED
  BY <1>2, <1>3, <1>5, SequenceKeeps DEF SequenceWrite, UnchangedHistory, UnchangedCalls

LEMMA RegisterKeeps ==
  ASSUME TypeInv, NEW c \in Controls, NEW a \in Agents, NEW by \in Declarations,
         Register(c, a, by)
  PROVE  Keeps
<1> DEFINE answered == acked[a]
           known == [x \in {a} \cup DOMAIN held[c] |->
                       IF x = a THEN [by |-> by, notified |-> answered, acked |-> answered]
                       ELSE held[c][x]]
           filled == {l \in Levels : levels[l] # <<>>} \cup {p \in Premises : premises[p] > 0}
           pending == [x \in DOMAIN known |-> IF x = a THEN Wants[a] \cap filled ELSE {}]
           end == last[c]
           woken == Woken(c, known, pending, end)
           D == Deliveries(c, known, pending, end)
<1>1. /\ Holds(held[c]) /\ end \in Nat /\ answered \in Nat
      /\ acked \in [Agents -> Nat] /\ notified \in [Agents -> Nat]
  BY DEF TypeInv, TypeOK, Store!TypeOK
<1>2. /\ held' = [held EXCEPT ![c] = Told(known, woken, end)]
      /\ flight' = flight \cup D
      /\ roster' = roster \cup {a}
      /\ notified' = Store!NotifiedThrough(woken, end)
      /\ declaration' = [declaration EXCEPT ![a] = by]
      /\ TouchIdle(c) \/ UNCHANGED <<run, idleDue, asked>>
      /\ UNCHANGED <<regions, sequence, changes, levels, premises, keys, answers, now, acked,
                     outbox, sent, cleared, up, last, outcome, wallDue, pc, answering, touching,
                     sweep, received, crashes, served>>
  BY DEF Register, TouchIdleIf, UnchangedRecord, UnchangedOutbox, UnchangedHistory, UnchangedCalls
<1>3. /\ DOMAIN known = {a} \cup DOMAIN held[c]
      /\ known = [x \in DOMAIN known |-> known[x]]
      /\ known[a] = [by |-> by, notified |-> answered, acked |-> answered]
      /\ \A x \in DOMAIN known \ {a} : x \in DOMAIN held[c] /\ known[x] = held[c][x]
  OBVIOUS
<1>4. \A x \in DOMAIN known : pending[x] \subseteq Region /\ (pending[x] # {} => x = a)
  BY ControlAssumption DEF Region
<1> HIDE DEF known, pending
<1>5. Holds(known)
  <2>1. DOMAIN held[c] \subseteq Agents /\ held[c] \in [DOMAIN held[c] -> Held]
    BY <1>1, HoldsIs
  <2>2. known[a] \in Held
    BY <1>1, <1>3 DEF Held
  <2>3. DOMAIN known \subseteq Agents /\ known \in [DOMAIN known -> Held]
    BY <1>3, <2>1, <2>2
  <2> QED
    BY <2>3, HoldsIs
<1>6. /\ D \in SUBSET Delivery /\ woken \subseteq {a}
      /\ \A d \in D : d.note.agent \in woken /\ d.note.to = end
  <2>1. woken \subseteq {a}
    BY <1>4 DEF Woken
  <2> QED
    BY <1>1, <1>4, <1>5, <2>1, DeliveriesType
<1>7. declaration' \in [Agents -> Declarations \cup {NoDeclaration}]
  BY <1>2 DEF TypeInv, TypeOK, Store!TypeOK
<1>8. last' \in [Controls -> Nat] /\ pc' \in [Controls -> Lock] /\ touching' \subseteq Controls
  BY <1>2 DEF TypeInv, TypeOK
<1> HIDE DEF D, woken, end, answered
<1>9. TypeInv' /\ run'.state = run.state
  BY <1>1, <1>2, <1>5, <1>6, <1>7, <1>8, DispatchType
<1>10. ASSUME Behind PROVE Behind'
  <2>1. \A x \in DOMAIN known : known[x].notified <= notified[x] /\ known[x].acked <= acked[x]
    BY <1>1, <1>3, <1>10 DEF answered, Behind
  <2>2. \A x \in Controls : last'[x] <= sequence
    BY <1>2, <1>10 DEF Behind
  <2>3. {a} \in SUBSET Agents /\ woken \in SUBSET {a} /\ woken \in SUBSET woken
    BY <1>6
  <2>4. roster' = roster \cup {a} /\ notified' = Store!NotifiedThrough(woken, end)
    BY <1>2
  <2>5. held' = [held EXCEPT ![c] = Told(known, woken, end)] /\ flight' = flight \cup D
    BY <1>2
  <2>6. UNCHANGED <<sequence, acked, answering, received>>
    BY <1>2
  <2> QED
    BY <1>1, <1>5, <1>6, <1>10, <2>1, <2>2, <2>3, <2>4, <2>5, <2>6, DispatchBehind
<1> QED
  BY <1>9, <1>10 DEF Keeps

LEMMA NoteWriteKeeps ==
  ASSUME TypeInv, NEW c \in Controls, NoteWrite(c)
  PROVE  Keeps
<1> DEFINE w == pc[c]
           end == last[c]
           known == held[c]
           owed == {a \in w.hearers \ DOMAIN known :
                      c \in Reaching /\ w.declared[a] = "address" /\ end > w.acked[a]}
           page == Page(Min({w.acked[a] : a \in owed} \cup {sequence}))
           named == [a \in owed |-> RegionsOf({i \in page \cap Wakes(a) : i > w.acked[a]})]
           reached == {a \in owed : named[a] # {}}
           pending == [a \in DOMAIN known |-> IF a # w.writer THEN {w.region} \cap Wants[a] ELSE {}]
           woken == Woken(c, known, pending, end)
           queued == {[control |-> c, stage |-> "queued",
                       note |-> Note(a, w.acked[a], end, named[a])] : a \in reached}
           D == Deliveries(c, known, pending, end) \cup queued
           S == reached \cup woken
<1>1. /\ w \in WritingLock /\ Holds(held[c]) /\ end \in Nat
      /\ declaration \in [Agents -> Declarations \cup {NoDeclaration}]
      /\ w.hearers \subseteq Agents /\ w.acked \in [Agents -> Nat]
  <2>1. w \in WritingLock
    BY LockIs DEF TypeInv, TypeOK, NoteWrite
  <2> QED
    BY <2>1 DEF TypeInv, TypeOK, Store!TypeOK, WritingLock
<1>2. /\ held' = [held EXCEPT ![c] = Told(known, woken, end)]
      /\ flight' = flight \cup D
      /\ roster' = roster \cup S
      /\ notified' = Store!NotifiedThrough(S, end)
      /\ pc' = [pc EXCEPT ![c] = Waiting]
      /\ touching' = touching \cup {c}
      /\ TouchIdle(c) \/ UNCHANGED <<run, idleDue, asked>>
      /\ UNCHANGED <<regions, sequence, changes, levels, premises, keys, answers, now, acked,
                     declaration, outbox, sent, cleared, up, last, outcome, wallDue, answering,
                     sweep, received, crashes, served>>
  BY DEF NoteWrite, MarkNotified, TouchIdleIf, UnchangedRecord, UnchangedOutbox, UnchangedHistory
<1>3. \A a \in DOMAIN known : pending[a] \subseteq Region
  BY <1>1, HoldsIs, ControlAssumption DEF Region
<1>4. page \subseteq DOMAIN changes
  BY PageBounds
<1>5. \A a \in owed : named[a] \in SUBSET Region
  <2> SUFFICES ASSUME NEW a \in owed PROVE named[a] \in SUBSET Region
    OBVIOUS
  <2>1. {i \in page \cap Wakes(a) : i > w.acked[a]} \in SUBSET (DOMAIN changes)
    BY <1>4
  <2> QED
    BY <2>1, RegionsOfPage
<1>6. reached \subseteq owed /\ owed \subseteq Agents
  BY <1>1
<1> HIDE DEF pending, named, owed, reached
<1>7. /\ woken \subseteq Agents /\ Deliveries(c, known, pending, end) \subseteq Delivery
      /\ \A d \in Deliveries(c, known, pending, end) : d.note.agent \in woken /\ d.note.to = end
  BY <1>1, <1>3, DeliveriesType
<1>8. \A d \in queued : d \in Delivery /\ d.note.agent \in reached /\ d.note.to = end
  <2> SUFFICES ASSUME NEW d \in queued
               PROVE  d \in Delivery /\ d.note.agent \in reached /\ d.note.to = end
    OBVIOUS
  <2>1. PICK a \in reached :
          d = [control |-> c, stage |-> "queued", note |-> Note(a, w.acked[a], end, named[a])]
    OBVIOUS
  <2>2. a \in Agents /\ w.acked[a] \in Nat /\ named[a] \in SUBSET Region
    BY <1>1, <1>5, <1>6
  <2> QED
    BY <1>1, <2>1, <2>2, NoteType DEF Delivery
<1> HIDE DEF queued, woken
<1>9. /\ D \in SUBSET Delivery /\ S \in SUBSET Agents
      /\ \A d \in D : d.note.agent \in S /\ d.note.to = end
  BY <1>6, <1>7, <1>8
<1>10. last' \in [Controls -> Nat] /\ pc' \in [Controls -> Lock] /\ touching' \subseteq Controls
  BY <1>2, LockHas DEF TypeInv, TypeOK
<1> HIDE DEF D, S
<1>11. TypeInv' /\ run'.state = run.state
  BY <1>1, <1>2, <1>9, <1>10, DispatchType
<1>12. ASSUME Behind PROVE Behind'
  <2>1. \A a \in DOMAIN known : known[a].notified <= notified[a] /\ known[a].acked <= acked[a]
    BY <1>12 DEF Behind
  <2>2. \A x \in Controls : last'[x] <= sequence
    BY <1>2, <1>12 DEF Behind
  <2>3. woken \in SUBSET S /\ S \in SUBSET S
    BY DEF S
  <2>4. roster' = roster \cup S /\ notified' = Store!NotifiedThrough(S, end)
    BY <1>2
  <2>5. held' = [held EXCEPT ![c] = Told(known, woken, end)] /\ flight' = flight \cup D
    BY <1>2
  <2>6. UNCHANGED <<sequence, acked, answering, received>>
    BY <1>2
  <2> QED
    BY <1>1, <1>9, <1>12, <2>1, <2>2, <2>3, <2>4, <2>5, <2>6, DispatchBehind
<1> QED
  BY <1>11, <1>12 DEF Keeps

\* What notify_due and relay share.
LEMMA TakeTailKeeps ==
  ASSUME TypeInv, NEW c \in Controls, NEW considered, NEW resending, TakeTail(c, considered, resending)
  PROVE  Keeps
<1> DEFINE known == held[c]
           page == Page(Min({known[a].acked : a \in considered}))
           end == Max({last[c]} \cup page)
           pending == [a \in DOMAIN known |->
                         IF a \in considered
                         THEN RegionsOf({i \in page \cap Wakes(a) :
                                           resending \/ i > known[a].notified})
                         ELSE {}]
           woken == Woken(c, known, pending, end)
           D == Deliveries(c, known, pending, end)
<1>1. /\ Holds(held[c]) /\ last[c] \in Nat
      /\ declaration \in [Agents -> Declarations \cup {NoDeclaration}]
  BY DEF TypeInv, TypeOK, Store!TypeOK
<1>2. /\ held' = [held EXCEPT ![c] = Told(known, woken, end)]
      /\ flight' = flight \cup D
      /\ roster' = roster \cup woken
      /\ notified' = Store!NotifiedThrough(woken, end)
      /\ last' = [last EXCEPT ![c] = end]
      /\ TouchIdle(c) \/ UNCHANGED <<run, idleDue, asked>>
      /\ UNCHANGED <<regions, sequence, changes, levels, premises, keys, answers, now, acked,
                     declaration, outbox, sent, cleared, up, outcome, wallDue, pc, answering,
                     touching, sweep, received, crashes, served>>
  BY DEF TakeTail, MarkNotified, TouchIdleIf, UnchangedRecord, UnchangedOutbox, UnchangedHistory,
         UnchangedCalls
<1>3. end \in Nat /\ (last[c] <= sequence => end <= sequence)
  BY <1>1, EndOfPage
<1>4. \A a \in DOMAIN known : pending[a] \subseteq Region
  <2> SUFFICES ASSUME NEW a \in DOMAIN known PROVE pending[a] \subseteq Region
    OBVIOUS
  <2>1. {i \in page \cap Wakes(a) : resending \/ i > known[a].notified} \in SUBSET (DOMAIN changes)
    BY PageBounds
  <2> QED
    BY <2>1, RegionsOfPage
<1> HIDE DEF pending, end
<1>5. /\ woken \in SUBSET Agents /\ D \in SUBSET Delivery
      /\ \A d \in D : d.note.agent \in woken /\ d.note.to = end
  BY <1>1, <1>3, <1>4, DeliveriesType
<1>6. last' \in [Controls -> Nat] /\ pc' \in [Controls -> Lock] /\ touching' \subseteq Controls
  BY <1>2, <1>3 DEF TypeInv, TypeOK
<1> HIDE DEF D, woken
<1>7. TypeInv' /\ run'.state = run.state
  BY <1>1, <1>2, <1>3, <1>5, <1>6, DispatchType
<1>8. ASSUME Behind PROVE Behind'
  <2>1. \A a \in DOMAIN known : known[a].notified <= notified[a] /\ known[a].acked <= acked[a]
    BY <1>8 DEF Behind
  <2>2. \A x \in Controls : last'[x] <= sequence
    BY <1>2, <1>3, <1>8 DEF Behind, TypeInv, TypeOK
  <2>3. woken \in SUBSET woken
    OBVIOUS
  <2>4. roster' = roster \cup woken /\ notified' = Store!NotifiedThrough(woken, end)
    BY <1>2
  <2>5. held' = [held EXCEPT ![c] = Told(known, woken, end)] /\ flight' = flight \cup D
    BY <1>2
  <2>6. UNCHANGED <<sequence, acked, answering, received>>
    BY <1>2
  <2> QED
    BY ZenonT(40), <1>1, <1>3, <1>5, <1>8, <2>1, <2>2, <2>3, <2>4, <2>5, <2>6, DispatchBehind
<1> QED
  BY <1>7, <1>8 DEF Keeps

\* A step that leaves the record and the agents' progress alone, and delivers
\* nothing that was not under way.
LEMMA QuietBehind ==
  ASSUME TypeInv,
         UNCHANGED <<sequence, roster, notified, acked, last, held, answering>>,
         flight' \subseteq flight,
         UNCHANGED received
  PROVE  Behind => Behind'
  BY DEF Behind, Store!Acknowledgeable

\* The deadline is pushed out, and nothing else of the store changes.
LEMMA TouchKeeps ==
  ASSUME TypeInv, NEW c \in Controls, TouchIdle(c) \/ UNCHANGED <<run, idleDue, asked>>,
         touching' \subseteq Controls, served' \in [Controls -> Nat],
         UNCHANGED <<regions, sequence, changes, levels, premises, keys, answers, now, roster,
                     notified, acked, declaration, outbox, sent, cleared, up, last, held, outcome,
                     wallDue, pc, answering, flight, sweep, received, crashes>>
  PROVE  Keeps
<1>1. /\ run' \in Store!Run /\ run'.state = run.state
      /\ idleDue' \in [Controls -> Nat]
      /\ asked' \in [Controls -> BOOLEAN]
  BY TouchIdleType DEF TypeInv
<1>2. StoreInv'
  BY <1>1, StoreInvIs DEF StoreInv, Bounded, Store!TypeOK
<1>3. TypeInv'
  BY <1>1, <1>2, Zenon DEF TypeInv, TypeOK, StoreInv
<1>4. Behind => Behind'
  BY QuietBehind
<1> QED
  BY <1>1, <1>3, <1>4 DEF Keeps

LEMMA CheckCompletionKeeps ==
  ASSUME TypeInv, NEW c \in Controls, CheckCompletion(c)
  PROVE  Keeps
<1>1. TouchIdle(c) \/ UNCHANGED <<run, idleDue, asked>>
  BY DEF CheckCompletion, TouchIdleIf
<1>2. touching' \subseteq Controls
  BY DEF CheckCompletion, TypeInv, TypeOK
<1>3. served' \in [Controls -> Nat]
  BY DEF CheckCompletion, TypeInv, TypeOK, Store!TypeOK
<1> QED
  BY <1>1, <1>2, <1>3, TouchKeeps
  DEF CheckCompletion, UnchangedRecord, UnchangedProgress, UnchangedOutbox

LEMMA PredicateContinuesKeeps ==
  ASSUME TypeInv, NEW c \in Controls, PredicateContinues(c)
  PROVE  Keeps
<1>1. TouchIdle(c)
  BY DEF PredicateContinues
<1>2. touching' \subseteq Controls /\ served' \in [Controls -> Nat]
  BY DEF PredicateContinues, UnchangedCalls, UnchangedHistory, TypeInv, TypeOK
<1> QED
  BY <1>1, <1>2, TouchKeeps
  DEF PredicateContinues, UnchangedRecord, UnchangedProgress, UnchangedOutbox, UnchangedHistory,
      UnchangedCalls

\* mark_sent, after a send or for an agent with nothing left to send.
LEMMA MarkSentKeeps ==
  ASSUME TypeInv, NEW a \in Agents, NEW n \in Nat, Store!MarkSent(a, n), flight' \subseteq flight,
         UNCHANGED <<up, last, held, outcome, wallDue, idleDue, asked, pc, answering, touching,
                     sweep, received, crashes, served>>
  PROVE  Keeps
<1>1. /\ StoreInv'
      /\ UNCHANGED <<sequence, changes, run, now, roster, notified, acked, declaration>>
  BY MarkSentType, StoreInvIs
<1>2. TypeInv'
  BY <1>1 DEF TypeInv, TypeOK, StoreInv
<1>3. Behind => Behind'
  BY <1>1, QuietBehind
<1> QED
  BY <1>1, <1>2, <1>3 DEF Keeps

LEMMA RelayByAddressKeeps ==
  ASSUME TypeInv, NEW c \in Controls, NEW a \in Agents, RelayByAddress(c, a)
  PROVE  Keeps
<1> DEFINE page == Page(0)
           end == Max({0} \cup page)
           named == RegionsOf({i \in page \cap Wakes(a) : i > acked[a]})
           d == [control |-> c, stage |-> "queued", note |-> Note(a, acked[a], end, named)]
<1>1. CASE named = {}
  <2>1. Max(outbox[a]) \in Nat
    <3>1. outbox[a] \in SUBSET Nat /\ outbox[a] # {} /\ sequence \in Nat
      BY DEF RelayByAddress, TypeInv, TypeOK, Store!TypeOK
    <3>2. \A x \in outbox[a] : x <= sequence
      BY DEF TypeInv, Bounded
    <3> QED
      BY <3>1, <3>2, MaxIsMember
  <2>2. Store!MarkSent(a, Max(outbox[a])) /\ flight' = flight
    BY <1>1 DEF RelayByAddress
  <2> QED
    BY <2>1, <2>2, MarkSentKeeps
    DEF RelayByAddress, UnchangedHistory, UnchangedCalls, localVars
<1>2. CASE named # {}
  <2>1. /\ roster' = roster \cup {a} /\ notified' = Store!NotifiedThrough({a}, end)
        /\ flight' = flight \cup {d}
        /\ UNCHANGED <<regions, sequence, changes, levels, premises, keys, answers, outbox, sent,
                       cleared, acked, declaration, run, now, up, last, held, outcome, wallDue,
                       idleDue, asked, pc, answering, touching, sweep, received, crashes, served>>
    BY <1>2 DEF RelayByAddress, MarkNotified, UnchangedRecord, UnchangedOutbox, UnchangedHistory,
                UnchangedCalls, localVars
  <2>2. end \in Nat /\ acked[a] \in Nat
    BY EndOfPage DEF TypeInv, TypeOK, Store!TypeOK
  <2>3. named \in SUBSET Region
    <3>1. {i \in page \cap Wakes(a) : i > acked[a]} \in SUBSET (DOMAIN changes)
      BY PageBounds
    <3> QED
      BY <3>1, RegionsOfPage
  <2> HIDE DEF end, named
  <2>4. d \in Delivery /\ d.note.agent = a /\ d.note.to = end
    BY <2>2, <2>3, NoteType DEF Delivery
  <2> HIDE DEF d
  <2>5. StoreInv'
    <3>1. run' \in Store!Run /\ declaration' \in [Agents -> Declarations \cup {NoDeclaration}]
      BY <2>1 DEF TypeInv, TypeOK, Store!TypeOK
    <3>2. {a} \in SUBSET Agents
      OBVIOUS
    <3> QED
      BY <2>1, <2>2, <3>1, <3>2, MarkedType, StoreInvIs
  <2>6. TypeInv'
    BY <2>1, <2>4, <2>5 DEF TypeInv, TypeOK, StoreInv
  <2>7. ASSUME Behind PROVE Behind'
    <3>1. /\ notified' \in [Agents -> Nat] /\ notified \in [Agents -> Nat]
          /\ \A x \in Agents : notified'[x] >= notified[x]
          /\ notified'[a] >= end
      BY <2>1, <2>2, NotifiedThroughRises DEF TypeInv, TypeOK, Store!TypeOK
    <3>2. ASSUME NEW x \in Agents, NEW n \in Nat, Store!Acknowledgeable(x, n)
          PROVE  Store!Acknowledgeable(x, n)'
      BY <2>1, <3>1, <3>2 DEF Store!Acknowledgeable
    <3>3. ASSUME NEW e \in flight' PROVE Store!Acknowledgeable(e.note.agent, e.note.to)'
      <4>1. CASE e \in flight
        <5>1. e.note.agent \in Agents /\ e.note.to \in Nat
          BY <4>1 DEF TypeInv, TypeOK, Delivery, Notification
        <5> QED
          BY <2>7, <3>2, <4>1, <5>1 DEF Behind
      <4>2. CASE e = d
        BY <2>1, <2>4, <3>1, <4>2 DEF Store!Acknowledgeable
      <4> QED
        BY <2>1, <4>1, <4>2
    <3>4. ASSUME NEW x \in Agents, NEW n \in received'[x] PROVE Store!Acknowledgeable(x, n.to)'
      <4>1. n \in received[x] /\ n.to \in Nat
        BY <2>1, <3>4 DEF TypeInv, TypeOK, Notification
      <4> QED
        BY <2>7, <3>2, <4>1 DEF Behind
    <3>5. ASSUME NEW x \in Controls, NEW b \in DOMAIN held'[x]
          PROVE  held'[x][b].notified <= notified'[b] /\ held'[x][b].acked <= acked'[b]
      <4>1. held'[x] = held[x] /\ Holds(held[x])
        BY <2>1 DEF TypeInv, TypeOK
      <4>2. b \in Agents /\ held[x][b] \in Held
        BY <3>5, <4>1, HoldsIs
      <4>3. held[x][b].notified <= notified[b] /\ held[x][b].acked <= acked[b]
        BY <2>7, <3>5, <4>1 DEF Behind
      <4>4. /\ held[x][b].notified \in Nat /\ notified'[b] >= notified[b]
            /\ notified[b] \in Nat /\ notified'[b] \in Nat
        BY <3>1, <4>2 DEF Held, TypeInv, TypeOK, Store!TypeOK
      <4>5. held[x][b].notified <= notified'[b]
        BY <4>3, <4>4
      <4>6. acked'[b] = acked[b]
        BY <2>1
      <4> QED
        BY <4>1, <4>3, <4>5, <4>6
    <3>6. ASSUME NEW x \in Agents PROVE acked'[x] <= notified'[x]
      <4>1. acked[x] \in Nat /\ acked[x] <= notified[x]
        BY <2>7 DEF TypeInv, TypeOK, Store!TypeOK, Behind
      <4> QED
        BY <2>1, <3>1, <4>1
    <3> QED
      BY <2>1, <2>7, <3>3, <3>4, <3>5, <3>6 DEF Behind
  <2> QED
    BY <2>1, <2>6, <2>7 DEF Keeps
<1> QED
  BY <1>1, <1>2

LEMMA DeliverKeeps ==
  ASSUME TypeInv, NEW d \in flight, Deliver(d)
  PROVE  Keeps
<1>1. d \in Delivery /\ d.note \in Notification /\ d.note.agent \in Agents
  BY DEF TypeInv, TypeOK, Delivery, Notification
<1>2. /\ received' = [received EXCEPT ![d.note.agent] = received[d.note.agent] \cup {d.note}]
      /\ flight' = (flight \ {d}) \cup {[d EXCEPT !.stage = "sent"]}
      /\ UNCHANGED <<storeVars, localVars, pc, callVars, sweep, crashes, served>>
  BY DEF Deliver, UnchangedStore
<1>3. [d EXCEPT !.stage = "sent"] \in Delivery /\ [d EXCEPT !.stage = "sent"].note = d.note
  BY <1>1 DEF Delivery
<1>4. flight' \subseteq Delivery /\ received' \in [Agents -> SUBSET Notification]
  BY <1>1, <1>2, <1>3 DEF TypeInv, TypeOK
<1>5. StoreInv'
  BY <1>2, StoreInvIs, UnchangedStoreType DEF UnchangedStore
<1>6. TypeInv'
  BY <1>2, <1>4, <1>5 DEF TypeInv, TypeOK, StoreInv, localVars, callVars
<1>7. run' = run /\ UNCHANGED <<sequence, roster, notified, acked, last, held, answering>>
  BY <1>2 DEF storeVars, localVars, callVars
<1>8. ASSUME Behind PROVE Behind'
  <2>1. \A e \in flight' : \E x \in flight : e.note = x.note
    BY <1>2, <1>3
  <2>2. \A e \in flight' : Store!Acknowledgeable(e.note.agent, e.note.to)
    BY <1>8, <2>1 DEF Behind
  <2>3. ASSUME NEW a \in Agents, NEW n \in received'[a] PROVE Store!Acknowledgeable(a, n.to)
    <3>1. n \in received[a] \/ (a = d.note.agent /\ n = d.note)
      BY <1>1, <1>2 DEF TypeInv, TypeOK
    <3> QED
      BY <1>8, <3>1 DEF Behind
  <2> QED
    BY <1>7, <1>8, <2>2, <2>3 DEF Behind, Store!Acknowledgeable
<1> QED
  BY <1>6, <1>7, <1>8 DEF Keeps

LEMMA DeliveryFailsKeeps ==
  ASSUME TypeInv, NEW d \in flight, DeliveryFails(d)
  PROVE  Keeps
<1>1. StoreInv'
  BY StoreInvIs, UnchangedStoreType DEF DeliveryFails
<1>2. TypeInv'
  BY <1>1 DEF DeliveryFails, UnchangedHistory, UnchangedCalls, localVars, TypeInv, TypeOK, StoreInv
<1>3. run' = run /\ (Behind => Behind')
  BY QuietBehind
  DEF DeliveryFails, UnchangedStore, storeVars, UnchangedHistory, UnchangedCalls, localVars
<1> QED
  BY <1>2, <1>3 DEF Keeps

LEMMA MarkDeliveredKeeps ==
  ASSUME TypeInv, NEW d \in flight, MarkDelivered(d)
  PROVE  Keeps
<1>1. d.note.agent \in Agents /\ d.note.to \in Nat
  BY DEF TypeInv, TypeOK, Delivery, Notification
<1>2. Store!MarkSent(d.note.agent, d.note.to) /\ flight' \subseteq flight
  BY DEF MarkDelivered
<1> QED
  BY <1>1, <1>2, MarkSentKeeps DEF MarkDelivered, UnchangedHistory, UnchangedCalls, localVars

LEMMA AckKeeps ==
  ASSUME TypeInv, NEW c \in Controls, NEW a \in Agents, NEW n \in received[a], Ack(c, a, n.to)
  PROVE  Keeps
<1>1. n.to \in Nat
  BY DEF TypeInv, TypeOK, Notification
<1>2. /\ Store!Acknowledge(a, n.to)
      /\ answering' = answering \cup {[control |-> c, agent |-> a, through |-> n.to]}
      /\ UNCHANGED <<localVars, pc, touching, flight, sweep, received, crashes, served>>
  BY DEF Ack, UnchangedHistory
<1>3. /\ StoreInv'
      /\ acked' \in [Agents -> Nat] /\ acked'[a] >= n.to
      /\ \A b \in Agents : acked'[b] >= acked[b]
      /\ UNCHANGED <<sequence, changes, run, now, roster, notified, declaration, outbox>>
  BY <1>1, <1>2, AcknowledgeType, StoreInvIs
<1>4. TypeInv'
  BY <1>1, <1>2, <1>3 DEF TypeInv, TypeOK, StoreInv, localVars
<1>5. ASSUME Behind PROVE Behind'
  <2>1. acked \in [Agents -> Nat] /\ notified \in [Agents -> Nat]
    BY DEF TypeInv, TypeOK, Store!TypeOK
  <2>2. ASSUME NEW k \in answering' PROVE k.through <= acked'[k.agent]
    <3>1. CASE k \in answering
      <4>1. k.agent \in Agents /\ k.through \in Nat /\ k.through <= acked[k.agent]
        BY <1>5, <3>1 DEF Behind, TypeInv, TypeOK
      <4> QED
        BY <1>3, <2>1, <4>1
    <3>2. CASE k = [control |-> c, agent |-> a, through |-> n.to]
      BY <1>1, <1>3, <3>2
    <3> QED
      BY <1>2, <3>1, <3>2
  <2>3. ASSUME NEW b \in Agents PROVE acked'[b] <= notified[b]
    <3>1. acked[b] <= notified[b] /\ n.to <= notified[a]
      BY <1>2, <1>5 DEF Behind, Store!Acknowledge, Store!Acknowledgeable
    <3>2. acked'[b] = IF b = a THEN Store!Maximum(acked[a], n.to) ELSE acked[b]
      BY <1>2, <2>1 DEF Store!Acknowledge
    <3> QED
      BY <1>1, <2>1, <3>1, <3>2, MaximumBounds
  <2>4. ASSUME NEW x \in Controls, NEW b \in DOMAIN held[x]
        PROVE  held[x][b].notified <= notified[b] /\ held[x][b].acked <= acked'[b]
    <3>1. Holds(held[x])
      BY DEF TypeInv, TypeOK
    <3>2. b \in Agents /\ held[x][b].acked \in Nat
      BY <2>4, <3>1, HoldsIs DEF Held
    <3>3. held[x][b].notified <= notified[b] /\ held[x][b].acked <= acked[b]
      BY <1>5, <2>4 DEF Behind
    <3> QED
      BY <1>3, <2>1, <3>2, <3>3
  <2> QED
    BY <1>2, <1>3, <1>5, <2>2, <2>3, <2>4 DEF Behind, Store!Acknowledgeable, localVars
<1> QED
  BY <1>3, <1>4, <1>5 DEF Keeps

LEMMA NoteAnswerKeeps ==
  ASSUME TypeInv, NEW k \in answering, NoteAnswer(k)
  PROVE  Keeps
<1> DEFINE c == k.control
           known == held[c]
           new == [known[k.agent] EXCEPT
                     !.acked = Store!Maximum(known[k.agent].acked, k.through)]
           raised == [known EXCEPT ![k.agent] = new]
<1>1. c \in Controls /\ k.agent \in Agents /\ k.through \in Nat /\ Holds(known)
  BY DEF TypeInv, TypeOK
<1>2. /\ answering' \subseteq answering /\ touching' \subseteq Controls
      /\ UNCHANGED <<storeVars, up, last, outcome, wallDue, idleDue, asked, pc, flight, sweep,
                     received, crashes, served>>
  BY <1>1 DEF NoteAnswer, UnchangedStore, UnchangedHistory, TypeInv, TypeOK
<1>3. held' = held \/ (k.agent \in DOMAIN known /\ held' = [held EXCEPT ![c] = raised])
  BY DEF NoteAnswer
<1>4. ASSUME k.agent \in DOMAIN known
      PROVE  /\ Holds(raised) /\ DOMAIN raised = DOMAIN known
             /\ \A a \in DOMAIN known :
                  /\ raised[a].notified = known[a].notified
                  /\ raised[a].acked \in {known[a].acked, k.through}
  <2>1. /\ DOMAIN known \subseteq Agents /\ known \in [DOMAIN known -> Held]
        /\ known[k.agent] \in Held
    BY <1>1, <1>4, HoldsIs
  <2>2. Store!Maximum(known[k.agent].acked, k.through) \in {known[k.agent].acked, k.through}
    BY <1>1, <2>1, MaximumBounds DEF Held
  <2>3. /\ new \in Held /\ new.notified = known[k.agent].notified
        /\ new.acked \in {known[k.agent].acked, k.through}
    BY <1>1, <2>1, <2>2 DEF Held
  <2> HIDE DEF new, known
  <2>4. /\ raised \in [DOMAIN known -> Held] /\ DOMAIN raised = DOMAIN known
        /\ \A a \in DOMAIN known : raised[a] = IF a = k.agent THEN new ELSE known[a]
    BY <1>4, <2>1, <2>3
  <2> HIDE DEF raised
  <2>5. Holds(raised)
    BY <2>1, <2>4, HoldsIs
  <2> QED
    BY <1>4, <2>3, <2>4, <2>5
<1> HIDE DEF raised
<1>5. DOMAIN held' = Controls /\ \A y \in Controls : Holds(held'[y])
  BY <1>1, <1>3, <1>4 DEF TypeInv, TypeOK
<1>6. StoreInv'
  BY <1>2, StoreInvIs, UnchangedStoreType DEF UnchangedStore
<1>7. TypeInv'
  BY <1>2, <1>5, <1>6 DEF TypeInv, TypeOK, StoreInv
<1>8. run' = run /\ UNCHANGED <<sequence, roster, notified, acked>>
  BY <1>2 DEF storeVars
<1>9. ASSUME Behind PROVE Behind'
  <2>1. ASSUME NEW x \in Controls, NEW a \in DOMAIN held'[x]
        PROVE  held'[x][a].notified <= notified[a] /\ held'[x][a].acked <= acked[a]
    <3>1. CASE held'[x] = held[x]
      BY <1>9, <2>1, <3>1 DEF Behind
    <3>2. CASE held'[x] # held[x]
      <4>1. x = c /\ k.agent \in DOMAIN known /\ held'[x] = raised
        BY <1>1, <1>3, <3>2 DEF TypeInv, TypeOK
      <4>2. known[a].notified <= notified[a] /\ known[a].acked <= acked[a]
        BY <1>1, <1>4, <1>9, <2>1, <4>1 DEF Behind
      <4>3. k.through <= acked[k.agent]
        BY <1>9 DEF Behind
      <4>4. a # k.agent => raised[a] = known[a]
        BY <1>1, <1>4, <2>1, <4>1, HoldsIs DEF raised
      <4> QED
        BY <1>4, <2>1, <4>1, <4>2, <4>3, <4>4
    <3> QED
      BY <3>1, <3>2
  <2> QED
    BY <1>2, <1>8, <1>9, <2>1 DEF Behind, Store!Acknowledgeable
<1> QED
  BY <1>7, <1>8, <1>9 DEF Keeps

\* A crash forgets what the process knew, and what it had under way.
LEMMA CrashKeeps ==
  ASSUME TypeInv, NEW c \in Controls, Crash(c)
  PROVE  Keeps
<1>1. Holds(NoHeld) /\ DOMAIN NoHeld = {}
  BY NothingHeld
<1>2. StoreInv'
  BY StoreInvIs, UnchangedStoreType DEF Crash
<1>3. /\ DOMAIN held' = Controls /\ (\A y \in Controls : Holds(held'[y]))
      /\ last' \in [Controls -> Nat]
      /\ \A x \in Controls : \/ held'[x] = held[x] /\ last'[x] = last[x]
                             \/ held'[x] = NoHeld /\ last'[x] = 0
  BY <1>1 DEF Crash, TypeInv, TypeOK
<1>4. wallDue' \in [Controls -> Nat] /\ idleDue' \in [Controls -> Nat]
  BY DEF Crash, Never, TypeInv, TypeOK
<1>5. outcome' \in [Controls -> {"none"} \cup Store!Outcomes] /\ pc' \in [Controls -> Lock]
  BY LockHas DEF Crash, TypeInv, TypeOK
<1>6. asked' \in [Controls -> BOOLEAN]
  BY Zenon DEF Crash, TypeInv, TypeOK
<1>7. up' \subseteq Controls /\ crashes' \in 0..MaxCrashes
  BY ControlAssumption DEF Crash, TypeInv, TypeOK
<1>8. answering' \subseteq answering /\ touching' \subseteq touching /\ flight' \subseteq flight
  BY DEF Crash
<1>9. /\ run' = run /\ UNCHANGED <<sweep, received, served, sequence, roster, notified, acked>>
  BY DEF Crash, UnchangedStore, storeVars
<1>10. TypeInv'
  BY <1>2, <1>3, <1>4, <1>5, <1>6, <1>7, <1>8, <1>9 DEF TypeInv, TypeOK, StoreInv
<1>11. ASSUME Behind PROVE Behind'
  <2>1. ASSUME NEW x \in Controls
        PROVE  /\ last'[x] <= sequence
               /\ \A a \in DOMAIN held'[x] : /\ held'[x][a].notified <= notified[a]
                                             /\ held'[x][a].acked <= acked[a]
    <3>1. CASE held'[x] = held[x] /\ last'[x] = last[x]
      BY <1>11, <3>1 DEF Behind
    <3>2. CASE held'[x] = NoHeld /\ last'[x] = 0
      BY <1>1, <3>2 DEF TypeInv, TypeOK, Store!TypeOK
    <3> QED
      BY <1>3, <3>1, <3>2
  <2> QED
    BY <1>8, <1>9, <1>11, <2>1 DEF Behind, Store!Acknowledgeable
<1> QED
  BY <1>9, <1>10, <1>11 DEF Keeps

LEMMA SweepReadsKeeps ==
  ASSUME TypeInv, SweepReads
  PROVE  Keeps
<1>1. sweep' \in [outcome : Store!Outcomes, unfinished : SUBSET Agents]
  <2>1. Store!Outstanding \in SUBSET Agents
    BY DEF Store!Outstanding, TypeInv, TypeOK, Store!TypeOK
  <2>2. run.state = "open" /\ (now >= run.wall \/ now >= run.idle)
    BY DEF SweepReads, Store!PastDeadline
  <2>3. now \in Nat /\ run.wall \in Nat /\ run.idle \in Nat
    BY DEF TypeInv, TypeOK, Store!TypeOK, Store!Run
  <2>4. Store!Expired \in Store!Outcomes
    BY <2>2, <2>3 DEF Store!Expired, Store!Outcomes
  <2> QED
    BY <2>1, <2>4 DEF SweepReads
<1>2. StoreInv'
  BY StoreInvIs, UnchangedStoreType DEF SweepReads
<1>3. TypeInv'
  BY <1>1, <1>2 DEF SweepReads, TypeInv, TypeOK, StoreInv, localVars, callVars
<1>4. run' = run /\ (Behind => Behind')
  BY QuietBehind DEF SweepReads, UnchangedStore, storeVars, localVars, callVars
<1> QED
  BY <1>3, <1>4 DEF Keeps

LEMMA TickKeeps ==
  ASSUME TypeInv, Tick
  PROVE  Keeps
<1>1. /\ now' = now + 1
      /\ UNCHANGED <<run, Store!recordVars, Store!agentVars, Store!outboxVars>>
  BY DEF Tick, Store!Tick
<1>2. StoreInv'
  BY <1>1, StoreInvIs
  DEF StoreInv, Bounded, Store!TypeOK, Store!recordVars, Store!agentVars, Store!outboxVars
<1>3. TypeInv'
  BY <1>2 DEF Tick, TypeInv, TypeOK, StoreInv, localVars, callVars
<1>4. Behind => Behind'
  BY <1>1, QuietBehind
  DEF Tick, Store!recordVars, Store!agentVars, localVars, callVars
<1> QED
  BY <1>1, <1>3, <1>4 DEF Keeps

-----------------------------------------------------------------------------
(* The actions that open a run, close it or learn that it is closed.       *)

\* A process that is created finds the record at its end.
LEMMA CreateKeeps ==
  ASSUME TypeInv, NEW c \in Controls, Create(c)
  PROVE  TypeInv' /\ run'.state = "open" /\ (Behind => Behind')
<1>1. now + Idle \in Nat /\ now + Wall \in Nat /\ sequence \in Nat
  BY SMTT(30), ControlAssumption DEF TypeInv, TypeOK, Store!TypeOK
<1>2. run' \in Store!Run /\ run'.state = "open"
  BY <1>1 DEF Create, Store!Run
<1>3. StoreInv'
  BY <1>2, StoreInvIs
  DEF Create, StoreInv, Bounded, Store!TypeOK, Region, Store!Region, UnchangedProgress,
      UnchangedOutbox
<1>4. last' \in [Controls -> Nat] /\ wallDue' \in [Controls -> Nat]
  BY <1>1 DEF Create, TypeInv, TypeOK
<1>5. pc' \in [Controls -> Lock]
  <2>1. [op |-> "creating"] \in Lock
    BY DEF Lock
  <2> QED
    BY <2>1 DEF Create, TypeInv, TypeOK
<1>6. TypeInv'
  BY <1>3, <1>4, <1>5
  DEF Create, UnchangedHistory, UnchangedCalls, TypeInv, TypeOK, StoreInv
<1>7. ASSUME Behind PROVE Behind'
  <2>1. \A x \in Controls : last'[x] <= sequence
    BY <1>1, <1>7 DEF Create, Behind, TypeInv, TypeOK
  <2> QED
    BY <1>7, <2>1
    DEF Create, UnchangedProgress, UnchangedHistory, UnchangedCalls, Behind, Store!Acknowledgeable
<1> QED
  BY <1>2, <1>6, <1>7

\* A step that closes the run.
Ends == TypeInv' /\ run.state = "open" /\ run'.state \in Store!Outcomes

LEMMA CreationFailsKeepsOrEnds ==
  ASSUME TypeInv, NEW c \in Controls, NEW p \in Premises, CreationFails(c, p)
  PROVE  Keeps \/ Ends
<1>1. wallDue' \in [Controls -> Nat] /\ pc' \in [Controls -> Lock] /\ up' \subseteq Controls
  BY LockHas DEF CreationFails, Never, TypeInv, TypeOK
<1>2. ASSUME StoreInv' PROVE TypeInv'
  BY <1>1, <1>2 DEF CreationFails, UnchangedHistory, UnchangedCalls, TypeInv, TypeOK, StoreInv
<1>3. CASE run.state = "open"
  <2>1. Store!CloseRun("aborted", {}) /\ "aborted" \in Store!Outcomes /\ {} \in SUBSET Agents
    BY <1>3 DEF CreationFails, Store!Outcomes
  <2>2. StoreInv' /\ run'.state = "aborted"
    BY <2>1, CloseRunType, StoreInvIs
  <2> QED
    BY <1>2, <1>3, <2>1, <2>2 DEF Ends
<1>4. CASE run.state # "open"
  <2>1. UnchangedStore
    BY <1>4 DEF CreationFails
  <2>2. StoreInv' /\ run' = run
    BY <2>1, StoreInvIs, UnchangedStoreType DEF UnchangedStore, storeVars
  <2>3. Behind => Behind'
    BY <2>1, QuietBehind
    DEF CreationFails, UnchangedStore, storeVars, UnchangedHistory, UnchangedCalls
  <2> QED
    BY <1>2, <2>2, <2>3 DEF Keeps
<1> QED
  BY <1>3, <1>4

\* What a close leaves of a process, whichever outcome it learns of.
LEMMA ClosedType ==
  ASSUME TypeInv, NEW c \in Controls, NEW o \in {"none"} \cup Store!Outcomes, Closed(c, o)
  PROVE  /\ outcome' \in [Controls -> {"none"} \cup Store!Outcomes]
         /\ wallDue' \in [Controls -> Nat] /\ idleDue' \in [Controls -> Nat]
         /\ asked' \in [Controls -> BOOLEAN]
         /\ UNCHANGED <<up, last, held>>
<1>1. asked' \in [Controls -> BOOLEAN]
  BY Zenon DEF Closed, TypeInv, TypeOK
<1> QED
  BY <1>1 DEF Closed, Never, TypeInv, TypeOK

LEMMA CloseKeepsOrEnds ==
  ASSUME TypeInv, NEW c \in Controls, Close(c)
  PROVE  /\ Keeps \/ Ends
         /\ outcome' = [outcome EXCEPT ![c] = run'.state]
         /\ run'.state \in {"none"} \cup Store!Outcomes
<1>1. /\ pc[c].outcome \in Store!Outcomes /\ pc[c].unfinished \in SUBSET Agents
  <2>1. pc[c] \in ClosingLock
    BY LockIs DEF Close, TypeInv, TypeOK
  <2> QED
    BY <2>1 DEF ClosingLock
<1>2. pc' \in [Controls -> Lock]
  BY LockHas DEF Close, TypeInv, TypeOK
<1>3. ASSUME StoreInv', NEW o \in {"none"} \cup Store!Outcomes, Closed(c, o) PROVE TypeInv'
  BY <1>2, <1>3, ClosedType DEF Close, UnchangedHistory, UnchangedCalls, TypeInv, TypeOK, StoreInv
<1>4. CASE run.state = "open"
  <2>1. Store!CloseRun(pc[c].outcome, pc[c].unfinished) /\ Closed(c, pc[c].outcome)
    BY <1>4 DEF Close
  <2>2. StoreInv' /\ run'.state = pc[c].outcome
    BY <1>1, <2>1, CloseRunType, StoreInvIs
  <2>3. outcome' = [outcome EXCEPT ![c] = run'.state]
    BY <2>1, <2>2 DEF Closed
  <2> QED
    BY <1>1, <1>3, <1>4, <2>1, <2>2, <2>3 DEF Ends
<1>5. CASE run.state # "open"
  <2>1. UnchangedStore /\ Closed(c, run.state)
    BY <1>5 DEF Close
  <2>2. StoreInv' /\ run' = run
    BY <2>1, StoreInvIs, UnchangedStoreType DEF UnchangedStore, storeVars
  <2>3. run.state \in {"none"} \cup Store!Outcomes
    BY <1>5 DEF TypeInv, TypeOK, Store!TypeOK, Store!Run
  <2>4. Behind => Behind'
    BY <2>1, <2>3, ClosedType, QuietBehind
    DEF Close, UnchangedStore, storeVars, UnchangedHistory, UnchangedCalls
  <2>5. outcome' = [outcome EXCEPT ![c] = run'.state]
    BY <2>1, <2>2 DEF Closed
  <2> QED
    BY <1>3, <2>1, <2>2, <2>3, <2>4, <2>5 DEF Keeps
<1> QED
  BY <1>4, <1>5

LEMMA AdoptClosureKeeps ==
  ASSUME TypeInv, NEW c \in Controls, AdoptClosure(c)
  PROVE  /\ Keeps
         /\ outcome' = [outcome EXCEPT ![c] = run.state] /\ run.state \in Store!Outcomes
<1>1. run.state \in Store!Outcomes /\ UnchangedStore /\ Closed(c, run.state)
  BY DEF AdoptClosure
<1>2. StoreInv' /\ run' = run
  BY <1>1, StoreInvIs, UnchangedStoreType DEF UnchangedStore, storeVars
<1>3. TypeInv'
  BY <1>1, <1>2, ClosedType
  DEF AdoptClosure, UnchangedHistory, UnchangedCalls, TypeInv, TypeOK, StoreInv
<1>4. Behind => Behind'
  BY <1>1, ClosedType, QuietBehind
  DEF AdoptClosure, UnchangedStore, storeVars, UnchangedHistory, UnchangedCalls
<1> QED
  BY <1>1, <1>2, <1>3, <1>4 DEF Keeps, Closed

LEMMA SweepClosesKeepsOrEnds ==
  ASSUME TypeInv, SweepCloses
  PROVE  Keeps \/ Ends
<1>1. sweep' = NoSweep /\ UNCHANGED <<localVars, pc, callVars, flight, received, crashes, served>>
  BY DEF SweepCloses
<1>2. ASSUME StoreInv' PROVE TypeInv'
  BY <1>1, <1>2 DEF TypeInv, TypeOK, StoreInv, localVars, callVars
<1>3. CASE run.state = "open"
  <2>1. /\ sweep.outcome \in Store!Outcomes /\ sweep.unfinished \in SUBSET Agents
        /\ Store!CloseRun(sweep.outcome, sweep.unfinished)
    BY <1>3 DEF SweepCloses, TypeInv, TypeOK
  <2>2. StoreInv' /\ run'.state = sweep.outcome
    BY <2>1, CloseRunType, StoreInvIs
  <2> QED
    BY <1>2, <1>3, <2>1, <2>2 DEF Ends
<1>4. CASE run.state # "open"
  <2>1. UnchangedStore
    BY <1>4 DEF SweepCloses
  <2>2. StoreInv' /\ run' = run
    BY <2>1, StoreInvIs, UnchangedStoreType DEF UnchangedStore, storeVars
  <2>3. Behind => Behind'
    BY <1>1, <2>1, QuietBehind DEF UnchangedStore, storeVars, localVars, callVars
  <2> QED
    BY <1>2, <2>2, <2>3 DEF Keeps
<1> QED
  BY <1>3, <1>4

-----------------------------------------------------------------------------
(* The theorems.                                                           *)

\* Every step keeps what it finds, opens the run or ends it.
LEMMA StepKeeps ==
  ASSUME TypeInv, [Next]_vars
  PROVE  \/ Keeps
         \/ Ends
         \/ /\ \E c \in Controls : Create(c)
            /\ TypeInv' /\ run'.state = "open" /\ (Behind => Behind')
<1>1. ASSUME NEW c \in Controls, Creating(c)
      PROVE  Keeps \/ Ends \/ Create(c)
  BY <1>1, ReadStandingKeeps, CreatedKeeps, OpenPremiseKeeps, CreationFailsKeepsOrEnds
  DEF Creating
<1>2. ASSUME NEW c \in Controls, Closing(c)
      PROVE  Keeps \/ Ends
  <2>1. {"settled", "wall_clock_expired", "aborted"} \subseteq Store!Outcomes
    BY DEF Store!Outcomes
  <2>2. ASSUME IdleSettles(c) \/ WallClockExpires(c) \/ Abort(c) \/ PredicateComplete(c)
        PROVE  Keeps
    <3>1. PICK o \in Store!Outcomes : BeginClose(c, o)
      BY <2>1, <2>2 DEF IdleSettles, WallClockExpires, Abort, PredicateComplete
    <3> QED
      BY <3>1, BeginCloseKeeps
  <2> QED
    BY <1>2, <2>2, AskPredicateKeeps, PredicateContinuesKeeps, CloseKeepsOrEnds, AdoptClosureKeeps
    DEF Closing
<1>3. ASSUME NEW c \in Controls, Writing(c)
      PROVE  Keeps
  BY <1>3, BeginWriteKeeps, SequenceWriteKeeps, RefuseWriteKeeps, NoteWriteKeeps,
     CheckCompletionKeeps
  DEF Writing
<1>4. ASSUME NEW c \in Controls, Waking(c) \/ Registering(c)
      PROVE  Keeps
  <2>1. ASSUME NotifyDue(c) \/ RelayRoster(c) PROVE Keeps
    BY <2>1, TakeTailKeeps DEF NotifyDue, RelayRoster
  <2> QED
    BY <1>4, <2>1, RelayByAddressKeeps, RegisterKeeps DEF Waking, Registering
<1>5. CASE Answering
  BY <1>5, AckKeeps, NoteAnswerKeeps DEF Answering
<1>6. CASE Delivering
  BY <1>6, DeliverKeeps, DeliveryFailsKeeps, MarkDeliveredKeeps DEF Delivering
<1>7. CASE UNCHANGED vars
  <2>1. UnchangedStore /\ UNCHANGED <<localVars, pc, callVars, flight, sweep, received, crashes, served>>
    BY <1>7 DEF vars, UnchangedStore
  <2>2. StoreInv' /\ run' = run
    BY <2>1, StoreInvIs, UnchangedStoreType DEF UnchangedStore, storeVars
  <2>3. TypeInv'
    BY <2>1, <2>2 DEF TypeInv, TypeOK, StoreInv, localVars, callVars
  <2>4. Behind => Behind'
    BY <2>1, QuietBehind DEF UnchangedStore, storeVars, localVars, callVars
  <2> QED
    BY <2>2, <2>3, <2>4 DEF Keeps
<1> QED
  BY <1>1, <1>2, <1>3, <1>4, <1>5, <1>6, <1>7, CreateKeeps, CrashKeeps, SweepReadsKeeps,
     SweepClosesKeepsOrEnds, TickKeeps
  DEF Next

LEMMA TypeStep == TypeInv /\ [Next]_vars => TypeInv'
  BY StepKeeps DEF Keeps, Ends

\* Every reachable state of the processes and of their store has its type.
THEOREM ControlTypeCorrect == Spec => []TypeOK
<1>1. TypeInv => TypeOK
  BY DEF TypeInv
<1> QED
  BY <1>1, TypeInit, TypeStep, PTL DEF Spec

\* Until a run closes, nothing that a process or a delivery knows is ahead.
BehindInv == TypeInv /\ (run.state \notin Store!Outcomes => Behind)

LEMMA BehindInit == Init => BehindInv
<1> SUFFICES ASSUME Init PROVE Behind
  BY TypeInit DEF BehindInv
<1> QED
  BY NothingHeld DEF Init, Store!Init, Store!EmptyRecord, Store!NoProgress, Behind

LEMMA BehindStep ==
  ASSUME ~ LateStart
  PROVE  BehindInv /\ [Next]_vars => BehindInv'
<1> SUFFICES ASSUME BehindInv, [Next]_vars PROVE BehindInv'
  OBVIOUS
<1>1. \A c \in Controls : Create(c) => run.state \notin Store!Outcomes
  BY DEF Create, Store!Outcomes
<1> QED
  BY <1>1, StepKeeps DEF BehindInv, Keeps, Ends

\* While a run is open no process remembers more of it than the store holds,
\* however many processes crash, register, relay and answer at once.
THEOREM CachesStayBehind ==
  ASSUME ~ LateStart
  PROVE  Spec => []CacheNeverAhead
<1>1. BehindInv => CacheNeverAhead
  BY DEF BehindInv, Behind, CacheNeverAhead, TypeInv, TypeOK, Store!Outcomes
<1> QED
  BY <1>1, BehindInit, BehindStep, PTL DEF Spec

\* While a run is open the store takes the answer to any notification that any
\* agent was ever sent.
THEOREM NotificationsStayAnswerable ==
  ASSUME ~ LateStart
  PROVE  Spec => []EveryNotificationAnswerable
<1>1. BehindInv => EveryNotificationAnswerable
  BY DEF BehindInv, Behind, EveryNotificationAnswerable, Store!Outcomes
<1> QED
  BY <1>1, BehindInit, BehindStep, PTL DEF Spec

\* What a process knows of the outcome, when it knows one, is the store's.
OutcomeInv ==
  TypeInv /\ \A c \in Controls : outcome[c] \in {"none"} \cup ({run.state} \cap Store!Outcomes)

LEMMA OutcomeInit == Init => OutcomeInv
  BY TypeInit DEF Init, OutcomeInv

\* A process forgets the outcome in a crash, and learns it from the store.
LEMMA OutcomeComesFromStore ==
  ASSUME TypeInv, [Next]_vars, NEW x \in Controls
  PROVE  outcome'[x] \in {"none", outcome[x], run'.state}
<1>1. outcome \in [Controls -> {"none"} \cup Store!Outcomes]
  BY DEF TypeInv, TypeOK
<1>2. ASSUME UNCHANGED outcome PROVE outcome'[x] = outcome[x]
  BY <1>2
<1>3. ASSUME NEW c \in Controls, Creating(c)
      PROVE  UNCHANGED outcome
  BY <1>3 DEF Creating, Create, ReadStanding, Created, OpenPremise, CreationFails, localVars
<1>4. ASSUME NEW c \in Controls, Writing(c)
      PROVE  UNCHANGED outcome
  BY <1>4 DEF Writing, BeginWrite, SequenceWrite, RefuseWrite, NoteWrite, CheckCompletion, localVars
<1>5. ASSUME NEW c \in Controls, Waking(c) \/ Registering(c)
      PROVE  UNCHANGED outcome
  BY <1>5 DEF Waking, Registering, NotifyDue, RelayRoster, TakeTail, RelayByAddress, Register,
              localVars
<1>6. ASSUME NEW c \in Controls, Closing(c)
      PROVE  UNCHANGED outcome \/ outcome' = [outcome EXCEPT ![c] = run'.state]
  <2>1. ASSUME Close(c) \/ AdoptClosure(c)
        PROVE  outcome' = [outcome EXCEPT ![c] = run'.state]
    BY <2>1, CloseKeepsOrEnds, AdoptClosureKeeps DEF Keeps
  <2> QED
    BY <1>6, <2>1
    DEF Closing, IdleSettles, WallClockExpires, Abort, PredicateComplete, BeginClose, AskPredicate,
        PredicateContinues, localVars
<1>7. CASE Answering \/ Delivering \/ SweepReads \/ SweepCloses \/ Tick \/ UNCHANGED vars
  BY <1>7
  DEF Answering, Ack, NoteAnswer, Delivering, Deliver, DeliveryFails, MarkDelivered, SweepReads,
      SweepCloses, Tick, vars, localVars
<1> QED
  BY <1>1, <1>3, <1>4, <1>5, <1>6, <1>7 DEF Next, Crash

LEMMA OutcomeStep ==
  ASSUME ~ LateStart
  PROVE  OutcomeInv /\ [Next]_vars => OutcomeInv'
<1> SUFFICES ASSUME OutcomeInv, [Next]_vars,
                    NEW c \in Controls
             PROVE  outcome'[c] \in {"none"} \cup ({run'.state} \cap Store!Outcomes)
  BY TypeStep DEF OutcomeInv
<1>1. outcome'[c] \in {"none", outcome[c], run'.state}
  BY OutcomeComesFromStore DEF OutcomeInv
<1>2. outcome'[c] \in {"none"} \cup Store!Outcomes
  BY TypeStep DEF OutcomeInv, TypeInv, TypeOK
<1>3. CASE run'.state = run.state
  BY <1>1, <1>2, <1>3 DEF OutcomeInv
<1>4. CASE run'.state # run.state
  <2>1. run.state \notin Store!Outcomes
    BY <1>4, StepKeeps DEF OutcomeInv, Keeps, Ends, Create, Store!Outcomes
  <2> QED
    BY <1>1, <1>2, <2>1 DEF OutcomeInv
<1> QED
  BY <1>3, <1>4

\* However many processes and sweeps race to close the run, every process that
\* knows it closed knows it by the one outcome the store holds.
THEOREM OneOutcomeForAll ==
  ASSUME ~ LateStart
  PROVE  Spec => []OneOutcome
<1>1. OutcomeInv => OneOutcome
  BY DEF OutcomeInv, OneOutcome, TypeInv, TypeOK
<1> QED
  BY <1>1, OutcomeInit, OutcomeStep, PTL DEF Spec

-----------------------------------------------------------------------------
(* No notification is lost.                                                *)

\* Whoever a process holds or the run lists has been declared: only what the
\* agent wants is recorded for it.
Declared ==
  /\ \A a \in roster : declaration[a] # NoDeclaration
  /\ \A c \in Controls : \A a \in DOMAIN held[c] : declaration[a] # NoDeclaration

\* What a write has read of its hearers still holds when it notes them.
HearersStand ==
  \A c \in Controls : pc[c].op \in {"appending", "noting"} =>
    \A a \in pc[c].hearers : /\ declaration[a] # NoDeclaration
                             /\ pc[c].region \in Wants[a] /\ pc[c].writer # a
                             /\ pc[c].acked[a] <= acked[a]

HearersWake == \A i \in DOMAIN changes : \A a \in changes[i].hearers : i \in Wakes(a)

\* A delivery starts where its agent's answer is, or before, and a delivery
\* that was made has been received.
DeliveriesCover ==
  \A d \in flight : /\ d.note.from <= acked[d.note.agent] + 1
                    /\ d.stage = "sent" => d.note \in received[d.note.agent]

NothingLost ==
  \A i \in DOMAIN changes : \A a \in changes[i].hearers :
    \/ i \in outbox[a]
    \/ i <= cleared
    \/ i <= acked[a]
    \/ \E n \in received[a] : Covers(n, i)

Lossless ==
  /\ Declared /\ HearersStand /\ HearersWake /\ DeliveriesCover /\ NothingLost
  /\ sequence <= MaxSequence

LossInv == BehindInv /\ (run.state \notin Store!Outcomes => Lossless)

\* A step of a run that does not close.
Going ==
  /\ TypeInv /\ Behind /\ Lossless
  /\ run.state \notin Store!Outcomes /\ run'.state \notin Store!Outcomes

\* An attempt to close such a run comes to nothing in the store.
LEMMA AttemptsFail ==
  ASSUME Going
  PROVE  /\ \A c \in Controls : Close(c) => UnchangedStore
         /\ \A c \in Controls, p \in Premises : CreationFails(c, p) => UnchangedStore
         /\ SweepCloses => UnchangedStore
<1>1. ASSUME NEW c \in Controls, Close(c) PROVE UnchangedStore
  <2>1. pc[c] \in ClosingLock
    BY <1>1, LockIs DEF Close, Going, TypeInv, TypeOK
  <2>2. pc[c].outcome \in Store!Outcomes /\ pc[c].unfinished \in SUBSET Agents
    BY <2>1 DEF ClosingLock
  <2>3. ~ Store!CloseRun(pc[c].outcome, pc[c].unfinished)
    BY <2>2, CloseRunType, StoreInvIs DEF Going
  <2> QED
    BY <1>1, <2>3 DEF Close
<1>2. ASSUME NEW c \in Controls, NEW p \in Premises, CreationFails(c, p) PROVE UnchangedStore
  <2>1. "aborted" \in Store!Outcomes /\ {} \in SUBSET Agents
    BY DEF Store!Outcomes
  <2>2. ~ Store!CloseRun("aborted", {})
    BY <2>1, CloseRunType, StoreInvIs DEF Going
  <2> QED
    BY <1>2, <2>2 DEF CreationFails
<1>3. ASSUME SweepCloses PROVE UnchangedStore
  <2>1. sweep.outcome \in Store!Outcomes /\ sweep.unfinished \in SUBSET Agents
    BY <1>3 DEF SweepCloses, Going, TypeInv, TypeOK
  <2>2. ~ Store!CloseRun(sweep.outcome, sweep.unfinished)
    BY <2>1, CloseRunType, StoreInvIs DEF Going
  <2> QED
    BY <1>3, <2>2 DEF SweepCloses
<1> QED
  BY <1>1, <1>2, <1>3

\* What a write adds to the record.
LEMMA WriteAdds ==
  ASSUME StoreInv, NEW r \in Region, NEW w \in Writers, NEW v \in Nat, NEW h \in SUBSET Agents,
         Store!AppendTo(r, w, NoKey, h) \/ Store!Set(r, v, w, NoKey, h)
  PROVE  /\ DOMAIN changes' = DOMAIN changes \cup {sequence + 1}
         /\ sequence + 1 \notin DOMAIN changes
         /\ \A i \in DOMAIN changes : changes'[i] = changes[i]
         /\ changes'[sequence + 1].hearers = h
         /\ changes'[sequence + 1].region = r /\ changes'[sequence + 1].writer = w
         /\ \A a \in Agents : outbox[a] \subseteq outbox'[a]
         /\ \A a \in h : sequence + 1 \in outbox'[a]
<1>1. PICK u \in Nat : Store!Record(r, w, NoKey, u, h)
  BY DEF Store!AppendTo, Store!Set
<1> DEFINE change == [sequence |-> sequence + 1, region |-> r, writer |-> w, key |-> NoKey,
                      expected |-> u, hearers |-> h]
<1>2. /\ sequence \in Nat /\ sequence = Len(changes) /\ changes \in Seq(Store!Change)
      /\ changes' = Append(changes, change)
  BY <1>1 DEF StoreInv, Bounded, Store!TypeOK, Store!Record
<1>3. change.hearers = h /\ change.region = r /\ change.writer = w
  OBVIOUS
<1> HIDE DEF change
<1>4. /\ DOMAIN changes' = DOMAIN changes \cup {sequence + 1}
      /\ sequence + 1 \notin DOMAIN changes
      /\ \A i \in DOMAIN changes : changes'[i] = changes[i]
      /\ changes'[sequence + 1] = change
  BY <1>2
<1>5. outbox' = [a \in Agents |->
                   IF a \in h THEN outbox[a] \cup {sequence + 1} ELSE outbox[a]]
  BY <1>1 DEF Store!Record, Store!Enqueue
<1> QED
  BY <1>3, <1>4, <1>5

\* The two writes a process makes, and to whom.
LEMMA ProcessWrites ==
  ASSUME TypeInv, NEW c \in Controls,
         SequenceWrite(c) \/ \E p \in Premises : OpenPremise(c, p)
  PROVE  \E r \in Region, w \in Writers, v \in Nat, h \in SUBSET Agents :
           /\ Store!AppendTo(r, w, NoKey, h) \/ Store!Set(r, v, w, NoKey, h)
           /\ h = {} \/ (/\ pc[c].op = "appending" /\ h = pc[c].hearers
                         /\ r = pc[c].region /\ w = pc[c].writer)
<1>1. CASE SequenceWrite(c)
  <2>1. pc[c] \in WritingLock
    BY <1>1, LockIs DEF TypeInv, TypeOK, SequenceWrite
  <2>2. /\ pc[c].region \in Region /\ pc[c].writer \in Writers /\ pc[c].hearers \in SUBSET Agents
        /\ pc[c].region \in Premises => premises[pc[c].region] \in Nat
    BY <2>1 DEF WritingLock, TypeInv, TypeOK, Store!TypeOK
  <2>3. \E v \in Nat :
          \/ Store!AppendTo(pc[c].region, pc[c].writer, NoKey, pc[c].hearers)
          \/ Store!Set(pc[c].region, v, pc[c].writer, NoKey, pc[c].hearers)
    BY <1>1, <2>2 DEF SequenceWrite
  <2>4. pc[c].op = "appending"
    BY <1>1 DEF SequenceWrite
  <2> QED
    BY <2>2, <2>3, <2>4
<1>2. ASSUME NEW p \in Premises, OpenPremise(c, p)
      PROVE  \E r \in Region, w \in Writers, v \in Nat, h \in SUBSET Agents :
               (Store!AppendTo(r, w, NoKey, h) \/ Store!Set(r, v, w, NoKey, h)) /\ h = {}
  <2>1. p \in Region /\ NoWriter \in Writers /\ {} \in SUBSET Agents /\ 0 \in Nat
    BY ControlAssumption DEF Region
  <2>2. Store!Set(p, 0, NoWriter, NoKey, {})
    BY <1>2 DEF OpenPremise
  <2> QED
    BY <2>1, <2>2
<1> QED
  BY <1>1, <1>2

\* A record that no write is added to, and progress that only rises.
LEMMA RecordStands ==
  ASSUME Lossless, TypeInv, UNCHANGED <<changes, sequence, cleared>>,
         \A a \in Agents : /\ outbox[a] \subseteq outbox'[a]
                           /\ acked'[a] >= acked[a]
                           /\ acked'[a] \in Nat
                           /\ received[a] \subseteq received'[a]
  PROVE  HearersWake' /\ NothingLost' /\ sequence' <= MaxSequence
<1>1. HearersWake' /\ sequence' <= MaxSequence
  BY DEF Lossless, HearersWake, Wakes
<1>2. ASSUME NEW i \in DOMAIN changes, NEW a \in changes[i].hearers
      PROVE  \/ i \in outbox'[a]
             \/ i <= cleared
             \/ i <= acked'[a]
             \/ \E n \in received'[a] : Covers(n, i)
  <2>1. a \in Agents /\ i \in Nat /\ acked[a] \in Nat
    <3>1. changes[i] \in Store!Change /\ DOMAIN changes \subseteq Nat
      BY DEF TypeInv, TypeOK, Store!TypeOK
    <3> QED
      BY <3>1 DEF Store!Change, TypeInv, TypeOK, Store!TypeOK
  <2>2. \/ i \in outbox[a]
        \/ i <= cleared
        \/ i <= acked[a]
        \/ \E n \in received[a] : Covers(n, i)
    BY DEF Lossless, NothingLost
  <2> QED
    BY <2>1, <2>2
<1>3. NothingLost'
  BY <1>2 DEF NothingLost, Covers
<1> QED
  BY <1>1, <1>3

LEMMA RecordUntouched ==
  ASSUME Going, UNCHANGED <<changes, sequence, cleared, outbox, acked, received>>
  PROVE  HearersWake' /\ NothingLost' /\ sequence' <= MaxSequence
<1>1. \A a \in Agents : acked'[a] >= acked[a] /\ acked'[a] \in Nat
  BY DEF Going, TypeInv, TypeOK, Store!TypeOK
<1> QED
  BY <1>1, RecordStands DEF Going

\* A write is recorded for whom it wakes, and its rows are in the outbox.
LEMMA WritesAreKept ==
  ASSUME Going, NEW c \in Controls,
         SequenceWrite(c) \/ \E p \in Premises : OpenPremise(c, p)
  PROVE  HearersWake' /\ NothingLost' /\ sequence' <= MaxSequence
<1>1. PICK r \in Region, w \in Writers, v \in Nat, h \in SUBSET Agents :
        /\ Store!AppendTo(r, w, NoKey, h) \/ Store!Set(r, v, w, NoKey, h)
        /\ h = {} \/ (/\ pc[c].op = "appending" /\ h = pc[c].hearers
                      /\ r = pc[c].region /\ w = pc[c].writer)
  BY ProcessWrites DEF Going
<1>2. /\ sequence' = sequence + 1 /\ sequence \in Nat
      /\ UNCHANGED <<acked, cleared>>
  BY <1>1, WriteType, StoreInvIs DEF Going, StoreInv, Store!TypeOK
<1>3. /\ DOMAIN changes' = DOMAIN changes \cup {sequence + 1}
      /\ sequence + 1 \notin DOMAIN changes
      /\ \A i \in DOMAIN changes : changes'[i] = changes[i]
      /\ changes'[sequence + 1].hearers = h
      /\ changes'[sequence + 1].region = r /\ changes'[sequence + 1].writer = w
      /\ \A a \in Agents : outbox[a] \subseteq outbox'[a]
      /\ \A a \in h : sequence + 1 \in outbox'[a]
  BY <1>1, WriteAdds, StoreInvIs DEF Going
<1>4. received' = received
  BY DEF SequenceWrite, OpenPremise, UnchangedHistory
<1>5. \A a \in h : r \in Wants[a] /\ w # a
  BY <1>1 DEF Going, Lossless, HearersStand
<1>6. HearersWake'
  <2> SUFFICES ASSUME NEW i \in DOMAIN changes', NEW a \in changes'[i].hearers
               PROVE  changes'[i].region \in Wants[a] /\ changes'[i].writer # a
    BY DEF HearersWake, Wakes
  <2>1. CASE i \in DOMAIN changes
    BY <1>3, <2>1 DEF Going, Lossless, HearersWake, Wakes
  <2>2. CASE i = sequence + 1
    BY <1>3, <1>5, <2>2
  <2> QED
    BY <1>3, <2>1, <2>2
<1>7. NothingLost'
  <2> SUFFICES ASSUME NEW i \in DOMAIN changes', NEW a \in changes'[i].hearers
               PROVE  \/ i \in outbox'[a]
                      \/ i <= cleared
                      \/ i <= acked[a]
                      \/ \E n \in received[a] : Covers(n, i)
    BY <1>2, <1>4 DEF NothingLost, Covers
  <2>1. CASE i \in DOMAIN changes
    <3>1. a \in changes[i].hearers /\ changes[i] \in Store!Change
      BY <1>3, <2>1 DEF Going, TypeInv, TypeOK, Store!TypeOK
    <3>2. a \in Agents
      BY <3>1 DEF Store!Change
    <3> QED
      BY <1>3, <2>1, <3>1, <3>2 DEF Going, Lossless, NothingLost
  <2>2. CASE i = sequence + 1
    BY <1>3, <2>2
  <2> QED
    BY <1>3, <2>1, <2>2
<1>8. sequence' <= MaxSequence
  <2>1. sequence < MaxSequence
    BY DEF SequenceWrite, OpenPremise
  <2>2. MaxSequence \in Nat
    BY ControlAssumption
  <2> QED
    BY <1>2, <2>1, <2>2
<1> QED
  BY <1>6, <1>7, <1>8

\* mark_sent takes the rows it is to take if what it passes is covered.
LEMMA MarkedRowsAreCovered ==
  ASSUME Going, NEW a \in Agents, NEW n \in Nat, Store!MarkSent(a, n), UNCHANGED received,
         \A i \in outbox[a] : (i <= n /\ i > acked[a] /\ i \in DOMAIN changes
                                /\ a \in changes[i].hearers)
                              => \E m \in received[a] : Covers(m, i)
  PROVE  HearersWake' /\ NothingLost' /\ sequence' <= MaxSequence
<1>1. /\ UNCHANGED <<changes, sequence, acked, cleared>>
      /\ outbox' = [outbox EXCEPT ![a] = {i \in outbox[a] : i > n}]
  BY DEF Store!MarkSent, Store!recordVars, Store!agentVars
<1>2. HearersWake' /\ sequence' <= MaxSequence
  BY <1>1 DEF Going, Lossless, HearersWake, Wakes
<1>3. ASSUME NEW i \in DOMAIN changes, NEW b \in changes[i].hearers
      PROVE  \/ i \in outbox'[b]
             \/ i <= cleared
             \/ i <= acked[b]
             \/ \E m \in received[b] : Covers(m, i)
  <2>1. b \in Agents /\ i \in Nat /\ acked[b] \in Nat /\ outbox \in [Agents -> SUBSET Nat]
    <3>1. changes[i] \in Store!Change /\ DOMAIN changes \subseteq Nat
      BY DEF Going, TypeInv, TypeOK, Store!TypeOK
    <3> QED
      BY <3>1 DEF Store!Change, Going, TypeInv, TypeOK, Store!TypeOK
  <2>2. \/ i \in outbox[b]
        \/ i <= cleared
        \/ i <= acked[b]
        \/ \E m \in received[b] : Covers(m, i)
    BY DEF Going, Lossless, NothingLost
  <2>3. CASE i \in outbox[b] /\ i \notin outbox'[b]
    <3>1. b = a /\ i <= n
      BY <1>1, <2>1, <2>3
    <3> QED
      BY <2>1, <2>3, <3>1
  <2> QED
    BY <2>2, <2>3
<1>4. NothingLost'
  BY <1>1, <1>3 DEF NothingLost, Covers
<1> QED
  BY <1>2, <1>4

LEMMA MarkDeliveredLosesNothing ==
  ASSUME Going, NEW d \in flight, MarkDelivered(d)
  PROVE  HearersWake' /\ NothingLost' /\ sequence' <= MaxSequence
<1>1. /\ d.note.agent \in Agents /\ d.note.to \in Nat /\ d.note.from \in Nat
      /\ acked[d.note.agent] \in Nat /\ outbox[d.note.agent] \subseteq Nat
  BY DEF Going, TypeInv, TypeOK, Delivery, Notification, Store!TypeOK
<1>2. /\ d.note.from <= acked[d.note.agent] + 1
      /\ d.note \in received[d.note.agent]
  BY DEF MarkDelivered, Going, Lossless, DeliveriesCover
<1>3. \A i \in outbox[d.note.agent] :
        i <= d.note.to /\ i > acked[d.note.agent] => Covers(d.note, i)
  BY <1>1, <1>2 DEF Covers
<1>4. Store!MarkSent(d.note.agent, d.note.to) /\ UNCHANGED received
  BY DEF MarkDelivered, UnchangedHistory
<1> QED
  BY <1>1, <1>2, <1>3, <1>4, MarkedRowsAreCovered

\* An agent with nothing to be told is owed nothing, if the page it was read
\* from is the whole board.
LEMMA RelayLosesNothing ==
  ASSUME Going, MaxSequence <= PageSize, NEW c \in Controls, NEW a \in Agents, RelayByAddress(c, a)
  PROVE  HearersWake' /\ NothingLost' /\ sequence' <= MaxSequence
<1> DEFINE named == RegionsOf({i \in Page(0) \cap Wakes(a) : i > acked[a]})
<1>1. CASE named # {}
  <2>1. UNCHANGED <<changes, sequence, cleared, outbox, acked, received>>
    BY <1>1 DEF RelayByAddress, UnchangedRecord, UnchangedOutbox, UnchangedHistory
  <2> QED
    BY <2>1, RecordUntouched
<1>2. CASE named = {}
  <2>1. /\ Store!MarkSent(a, Max(outbox[a])) /\ UNCHANGED received
        /\ outbox[a] \in SUBSET Nat /\ outbox[a] # {} /\ sequence \in Nat
    BY <1>2 DEF RelayByAddress, UnchangedHistory, Going, TypeInv, TypeOK, Store!TypeOK
  <2>2. Max(outbox[a]) \in Nat
    <3>1. \A x \in outbox[a] : x <= sequence
      BY DEF Going, TypeInv, Bounded
    <3> QED
      BY <2>1, <3>1, MaxIsMember
  <2>3. \A i \in DOMAIN changes : 0 < i /\ i <= PageSize /\ i \in Nat
    <3>1. /\ DOMAIN changes = 1..sequence /\ sequence <= MaxSequence
      BY DEF Going, TypeInv, TypeOK, Store!TypeOK, Bounded, Lossless
    <3>2. MaxSequence \in Nat /\ PageSize \in Nat
      BY ControlAssumption
    <3> QED
      BY <2>1, <3>1, <3>2
  <2>4. ASSUME NEW i \in DOMAIN changes, a \in changes[i].hearers, i > acked[a]
        PROVE  FALSE
    <3>1. i \in Page(0)
      BY <2>3, ControlAssumption DEF Page
    <3>2. i \in Wakes(a)
      BY <2>4 DEF Going, Lossless, HearersWake
    <3>3. changes[i].region \in named
      BY <2>4, <3>1, <3>2 DEF RegionsOf
    <3> QED
      BY <1>2, <3>3
  <2> QED
    BY <2>1, <2>2, <2>4, MarkedRowsAreCovered
<1> QED
  BY <1>1, <1>2

\* The steps of a run that does not close, and what they leave of the record.
LEMMA RecordStep ==
  ASSUME Going, Next, MaxSequence <= PageSize
  PROVE  HearersWake' /\ NothingLost' /\ sequence' <= MaxSequence
<1> DEFINE Same == UNCHANGED <<changes, sequence, cleared, outbox, acked, received>>
<1>1. ASSUME UnchangedStore, UNCHANGED received PROVE Same
  BY <1>1 DEF UnchangedStore, storeVars
<1>2. ASSUME NEW c \in Controls,
             Create(c) \/ ReadStanding(c) \/ Created(c)
               \/ (\E p \in Premises : CreationFails(c, p)) \/ Crash(c)
      PROVE  Same
  BY <1>1, <1>2, AttemptsFail
  DEF Create, ReadStanding, Created, CreationFails, Crash, UnchangedProgress, UnchangedOutbox,
      UnchangedHistory
<1>3. ASSUME NEW c \in Controls, Closing(c) PROVE Same
  BY <1>1, <1>3, AttemptsFail
  DEF Closing, IdleSettles, WallClockExpires, Abort, PredicateComplete, BeginClose, AskPredicate,
      PredicateContinues, Close, AdoptClosure, UnchangedRecord, UnchangedProgress, UnchangedOutbox,
      UnchangedHistory
<1>4. ASSUME NEW c \in Controls,
             \/ \E r \in Region, w \in Writers \ {NoWriter} : BeginWrite(c, r, w)
             \/ RefuseWrite(c) \/ NoteWrite(c) \/ CheckCompletion(c)
      PROVE  Same
  BY <1>1, <1>4
  DEF BeginWrite, RefuseWrite, NoteWrite, CheckCompletion, UnchangedRecord, UnchangedProgress,
      UnchangedOutbox, UnchangedHistory
<1>5. ASSUME NEW c \in Controls, NotifyDue(c) \/ RelayRoster(c) \/ Registering(c) PROVE Same
  BY <1>5
  DEF NotifyDue, RelayRoster, TakeTail, Registering, Register, UnchangedRecord, UnchangedOutbox,
      UnchangedHistory
<1>6. ASSUME NEW k \in answering, NoteAnswer(k) PROVE Same
  BY <1>1, <1>6 DEF NoteAnswer, UnchangedHistory
<1>7. ASSUME NEW d \in flight, DeliveryFails(d) PROVE Same
  BY <1>1, <1>7 DEF DeliveryFails, UnchangedHistory
<1>8. CASE SweepReads \/ SweepCloses
  BY <1>1, <1>8, AttemptsFail, RecordUntouched DEF SweepReads, SweepCloses
<1>9. CASE Tick
  <2>1. Same
    BY <1>9 DEF Tick, Store!Tick, Store!recordVars, Store!agentVars, Store!outboxVars
  <2> QED
    BY <2>1, RecordUntouched
<1>10. ASSUME NEW d \in flight, Deliver(d)
       PROVE  HearersWake' /\ NothingLost' /\ sequence' <= MaxSequence
  <2>1. UNCHANGED <<changes, sequence, cleared, outbox, acked>>
    BY <1>10 DEF Deliver, UnchangedStore, storeVars
  <2>2. \A a \in Agents : received[a] \subseteq received'[a]
    BY <1>10 DEF Deliver, Going, TypeInv, TypeOK
  <2>3. \A a \in Agents : acked'[a] >= acked[a] /\ acked'[a] \in Nat
    BY <2>1 DEF Going, TypeInv, TypeOK, Store!TypeOK
  <2> QED
    BY <2>1, <2>2, <2>3, RecordStands DEF Going
<1>11. ASSUME NEW c \in Controls, NEW a \in Agents, NEW n \in received[a], Ack(c, a, n.to)
       PROVE  HearersWake' /\ NothingLost' /\ sequence' <= MaxSequence
  <2>1. n.to \in Nat /\ Store!Acknowledge(a, n.to) /\ UNCHANGED received
    BY <1>11 DEF Ack, UnchangedHistory, Going, TypeInv, TypeOK, Notification
  <2>2. UNCHANGED <<changes, sequence, cleared, outbox>>
    BY <2>1 DEF Store!Acknowledge, Store!recordVars, Store!outboxVars
  <2>3. \A b \in Agents : acked'[b] >= acked[b] /\ acked'[b] \in Nat
    BY <2>1, AcknowledgeType, StoreInvIs DEF Going
  <2> QED
    BY <2>1, <2>2, <2>3, RecordStands DEF Going
<1> HIDE DEF Same
<1>12. ASSUME Same PROVE HearersWake' /\ NothingLost' /\ sequence' <= MaxSequence
  BY <1>12, RecordUntouched DEF Same
<1> QED
  BY <1>2, <1>3, <1>4, <1>5, <1>6, <1>7, <1>8, <1>9, <1>10, <1>11, <1>12, WritesAreKept,
     RelayLosesNothing, MarkDeliveredLosesNothing
  DEF Next, Creating, Writing, Waking, Answering, Delivering

\* Where the deliveries of a dispatch start, and for whom.
LEMMA DeliveriesStart ==
  ASSUME NEW c, NEW known, NEW pending, NEW end, NEW d \in Deliveries(c, known, pending, end)
  PROVE  /\ d.stage = "queued" /\ d.note.agent \in DOMAIN known
         /\ d.note.from = known[d.note.agent].acked + 1
  BY DEF Deliveries, Woken, Note

\* A step that wakes agents, as far as what it may list and deliver goes: of
\* the agents the process holds, or that a write names as its hearers.
Wakening(c, others, answered) ==
  /\ roster' \subseteq roster \cup DOMAIN held[c] \cup others
  /\ \A x \in Controls : DOMAIN held'[x] = DOMAIN held[x]
  /\ UNCHANGED <<acked, declaration, received>>
  /\ \A d \in flight' \ flight :
       /\ d.stage = "queued"
       /\ \/ d.note.agent \in DOMAIN held[c] /\ d.note.from = held[c][d.note.agent].acked + 1
          \/ d.note.agent \in others /\ d.note.from = answered[d.note.agent] + 1

LEMMA NoteWriteWakens ==
  ASSUME TypeInv, NEW c \in Controls, NoteWrite(c)
  PROVE  Wakening(c, pc[c].hearers, pc[c].acked) /\ pc' = [pc EXCEPT ![c] = Waiting]
<1> DEFINE w == pc[c]
           end == last[c]
           known == held[c]
           owed == {a \in w.hearers \ DOMAIN known :
                      c \in Reaching /\ w.declared[a] = "address" /\ end > w.acked[a]}
           page == Page(Min({w.acked[a] : a \in owed} \cup {sequence}))
           named == [a \in owed |-> RegionsOf({i \in page \cap Wakes(a) : i > w.acked[a]})]
           reached == {a \in owed : named[a] # {}}
           pending == [a \in DOMAIN known |-> IF a # w.writer THEN {w.region} \cap Wants[a] ELSE {}]
           woken == Woken(c, known, pending, end)
           queued == {[control |-> c, stage |-> "queued",
                       note |-> Note(a, w.acked[a], end, named[a])] : a \in reached}
<1>1. /\ held' = [held EXCEPT ![c] = Told(known, woken, end)]
      /\ flight' = flight \cup Deliveries(c, known, pending, end) \cup queued
      /\ roster' = roster \cup (reached \cup woken)
      /\ UNCHANGED <<acked, declaration, received>>
      /\ pc' = [pc EXCEPT ![c] = Waiting]
  BY DEF NoteWrite, MarkNotified, UnchangedHistory
<1>2. reached \subseteq w.hearers /\ woken \subseteq DOMAIN known
  BY DEF Woken
<1> HIDE DEF named, owed, pending
<1>3. \A d \in queued : /\ d.stage = "queued" /\ d.note.agent \in reached
                        /\ d.note.from = w.acked[d.note.agent] + 1
  BY DEF Note
<1>4. \A d \in Deliveries(c, known, pending, end) :
        /\ d.stage = "queued" /\ d.note.agent \in DOMAIN known
        /\ d.note.from = known[d.note.agent].acked + 1
  BY DeliveriesStart
<1> HIDE DEF queued, reached, woken
<1>5. \A x \in Controls : DOMAIN held'[x] = DOMAIN held[x]
  BY <1>1 DEF Told, TypeInv, TypeOK
<1>6. \A d \in flight' \ flight : d \in queued \/ d \in Deliveries(c, known, pending, end)
  BY <1>1
<1> QED
  BY <1>1, <1>2, <1>3, <1>4, <1>5, <1>6 DEF Wakening

LEMMA TakeTailWakens ==
  ASSUME TypeInv, NEW c \in Controls, NEW considered, NEW resending,
         TakeTail(c, considered, resending)
  PROVE  Wakening(c, {}, acked) /\ pc' = pc
<1> DEFINE known == held[c]
           page == Page(Min({known[a].acked : a \in considered}))
           end == Max({last[c]} \cup page)
           pending == [a \in DOMAIN known |->
                         IF a \in considered
                         THEN RegionsOf({i \in page \cap Wakes(a) :
                                           resending \/ i > known[a].notified})
                         ELSE {}]
           woken == Woken(c, known, pending, end)
<1>1. /\ held' = [held EXCEPT ![c] = Told(known, woken, end)]
      /\ flight' = flight \cup Deliveries(c, known, pending, end)
      /\ roster' = roster \cup woken
      /\ UNCHANGED <<acked, declaration, received, pc>>
  BY DEF TakeTail, MarkNotified, UnchangedHistory
<1>2. woken \subseteq DOMAIN known
  BY DEF Woken
<1> HIDE DEF pending, end
<1>3. \A d \in Deliveries(c, known, pending, end) :
        /\ d.stage = "queued" /\ d.note.agent \in DOMAIN known
        /\ d.note.from = known[d.note.agent].acked + 1
  BY DeliveriesStart
<1> HIDE DEF woken
<1>4. \A x \in Controls : DOMAIN held'[x] = DOMAIN held[x]
  BY <1>1 DEF Told, TypeInv, TypeOK
<1> QED
  BY <1>1, <1>2, <1>3, <1>4 DEF Wakening

LEMMA RelayByAddressWakens ==
  ASSUME TypeInv, NEW c \in Controls, NEW a \in Agents, RelayByAddress(c, a)
  PROVE  Wakening(c, {a}, acked) /\ pc' = pc /\ roster' = roster
<1> DEFINE named == RegionsOf({i \in Page(0) \cap Wakes(a) : i > acked[a]})
           d == [control |-> c, stage |-> "queued",
                 note |-> Note(a, acked[a], Max({0} \cup Page(0)), named)]
<1>1. /\ UNCHANGED <<acked, declaration, received, held, pc>>
      /\ roster' = roster \cup {a} \/ roster' = roster
      /\ flight' = flight \/ flight' = flight \cup {d}
      /\ a \in roster
  BY DEF RelayByAddress, MarkNotified, Store!MarkSent, Store!agentVars, localVars,
         UnchangedHistory
<1>2. d.stage = "queued" /\ d.note.agent = a /\ d.note.from = acked[a] + 1
  BY DEF Note
<1> HIDE DEF d
<1> QED
  BY <1>1, <1>2 DEF Wakening

\* An agent that the run lists, or a process holds, stays declared.
LEMMA DeclaredStep ==
  ASSUME Going, Next, TypeInv'
  PROVE  Declared' /\ \A a \in Agents : declaration[a] # NoDeclaration =>
                                          declaration'[a] # NoDeclaration
<1> DEFINE Same == UNCHANGED <<roster, declaration>> /\ \A c \in Controls :
                     DOMAIN held'[c] \subseteq DOMAIN held[c]
           Kept == Declared' /\ \A a \in Agents : declaration[a] # NoDeclaration =>
                                                   declaration'[a] # NoDeclaration
<1>1. ASSUME Same PROVE Kept
  BY <1>1 DEF Going, Lossless, Declared
<1>2. ASSUME UnchangedStore, UNCHANGED held PROVE Same
  BY <1>2 DEF UnchangedStore, storeVars
<1>3. ASSUME NEW c \in Controls,
             Create(c) \/ ReadStanding(c) \/ Created(c)
               \/ (\E p \in Premises : CreationFails(c, p))
      PROVE  Same
  BY <1>2, <1>3, AttemptsFail
  DEF Create, ReadStanding, Created, CreationFails, UnchangedProgress, localVars
<1>4. ASSUME NEW c \in Controls, SequenceWrite(c) \/ \E p \in Premises : OpenPremise(c, p)
      PROVE  Same
  <2>1. UNCHANGED <<roster, declaration>>
    BY <1>4, ProcessWrites, WriteType, StoreInvIs DEF Going
  <2> QED
    BY <1>4, <2>1 DEF SequenceWrite, OpenPremise
<1>5. ASSUME NEW c \in Controls, Crash(c) PROVE Same
  BY <1>5, NothingHeld DEF Crash, UnchangedStore, storeVars, Going, TypeInv, TypeOK
<1>6. ASSUME NEW c \in Controls, Closing(c) PROVE Same
  BY <1>2, <1>6, AttemptsFail
  DEF Closing, IdleSettles, WallClockExpires, Abort, PredicateComplete, BeginClose, AskPredicate,
      PredicateContinues, Close, AdoptClosure, Closed, UnchangedProgress, localVars
<1>7. ASSUME NEW c \in Controls,
             \/ \E r \in Region, w \in Writers \ {NoWriter} : BeginWrite(c, r, w)
             \/ RefuseWrite(c) \/ CheckCompletion(c)
      PROVE  Same
  BY <1>2, <1>7 DEF BeginWrite, RefuseWrite, CheckCompletion, UnchangedProgress, localVars
<1>8. ASSUME NEW k \in answering, NoteAnswer(k) PROVE Same
  <2>1. UNCHANGED <<roster, declaration>>
    BY <1>8 DEF NoteAnswer, UnchangedStore, storeVars
  <2>2. \A c \in Controls : DOMAIN held'[c] \subseteq DOMAIN held[c]
    BY <1>8 DEF NoteAnswer, Going, TypeInv, TypeOK
  <2> QED
    BY <2>1, <2>2
<1>9. ASSUME NEW d \in flight, Deliver(d) \/ DeliveryFails(d) \/ MarkDelivered(d) PROVE Same
  BY <1>2, <1>9
  DEF Deliver, DeliveryFails, MarkDelivered, Store!MarkSent, Store!agentVars, localVars
<1>10. ASSUME NEW c \in Controls, NEW a \in Agents, NEW n \in received[a], Ack(c, a, n.to)
       PROVE  Same
  BY <1>10 DEF Ack, Store!Acknowledge, localVars
<1>11. ASSUME SweepReads \/ SweepCloses \/ Tick PROVE Same
  BY <1>2, <1>11, AttemptsFail
  DEF SweepReads, SweepCloses, Tick, Store!Tick, Store!agentVars, localVars
<1>12. ASSUME NEW c \in Controls, NEW a \in Agents, RelayByAddress(c, a) PROVE Same
  BY <1>12, RelayByAddressWakens DEF Wakening, Going
<1>13. ASSUME NEW c \in Controls, NotifyDue(c) \/ RelayRoster(c) PROVE Kept
  <2>1. PICK considered, resending : TakeTail(c, considered, resending)
    BY <1>13 DEF NotifyDue, RelayRoster
  <2>2. Wakening(c, {}, acked)
    BY <2>1, TakeTailWakens DEF Going
  <2> QED
    BY <2>2 DEF Wakening, Going, Lossless, Declared
<1>14. ASSUME NEW c \in Controls, NoteWrite(c) PROVE Kept
  <2>1. Wakening(c, pc[c].hearers, pc[c].acked)
    BY <1>14, NoteWriteWakens DEF Going
  <2>2. \A a \in pc[c].hearers : declaration[a] # NoDeclaration
    BY <1>14 DEF NoteWrite, Going, Lossless, HearersStand
  <2> QED
    BY <2>1, <2>2 DEF Wakening, Going, Lossless, Declared
<1>15. ASSUME NEW c \in Controls, Registering(c) PROVE Kept
  <2>1. PICK a \in Agents, by \in Declarations : Register(c, a, by)
    BY <1>15 DEF Registering
  <2>2. /\ roster' = roster \cup {a} /\ declaration' = [declaration EXCEPT ![a] = by]
        /\ \A x \in Controls : DOMAIN held'[x] \subseteq DOMAIN held[x] \cup {a}
    BY <2>1 DEF Register, Told, Going, TypeInv, TypeOK
  <2>3. declaration \in [Agents -> Declarations \cup {NoDeclaration}]
    BY DEF Going, TypeInv, TypeOK, Store!TypeOK
  <2>4. \A b \in Agents : declaration'[b] = IF b = a THEN by ELSE declaration[b]
    BY <2>2, <2>3
  <2>5. roster \subseteq Agents /\ \A x \in Controls : DOMAIN held[x] \subseteq Agents
    BY HoldsIs DEF Going, TypeInv, TypeOK, Store!TypeOK
  <2>6. by # NoDeclaration
    BY ControlAssumption
  <2> QED
    BY <2>2, <2>4, <2>5, <2>6 DEF Going, Lossless, Declared
<1> HIDE DEF Same, Kept
<1>16. ASSUME NEW c \in Controls, Creating(c) \/ Closing(c) \/ Crash(c) PROVE Kept
  BY <1>1, <1>3, <1>4, <1>5, <1>6, <1>16 DEF Creating
<1>17. ASSUME NEW c \in Controls, Writing(c) \/ Waking(c) \/ Registering(c) PROVE Kept
  BY <1>1, <1>4, <1>7, <1>12, <1>13, <1>14, <1>15, <1>17 DEF Writing, Waking
<1>18. ASSUME Answering \/ Delivering PROVE Kept
  BY <1>1, <1>8, <1>9, <1>10, <1>18 DEF Answering, Delivering
<1> QED
  <2>1. Kept
    BY <1>1, <1>11, <1>16, <1>17, <1>18 DEF Next
  <2> QED
    BY <2>1 DEF Kept

\* What an agent has answered only rises.
LEMMA AnswersRise ==
  ASSUME Going, Next
  PROVE  \A a \in Agents : acked[a] \in Nat /\ acked'[a] \in Nat /\ acked'[a] >= acked[a]
<1> DEFINE Same == UNCHANGED acked
<1>1. ASSUME Same
      PROVE  \A a \in Agents : acked[a] \in Nat /\ acked'[a] \in Nat /\ acked'[a] >= acked[a]
  BY <1>1 DEF Going, TypeInv, TypeOK, Store!TypeOK
<1>2. ASSUME UnchangedStore PROVE Same
  BY <1>2 DEF UnchangedStore, storeVars
<1>3. ASSUME NEW c \in Controls, Creating(c) \/ Crash(c) PROVE Same
  <2>1. ASSUME NEW p \in Premises, OpenPremise(c, p) PROVE Same
    BY <2>1, ProcessWrites, WriteType, StoreInvIs DEF Going
  <2> QED
    BY <1>2, <1>3, <2>1, AttemptsFail
    DEF Creating, Create, ReadStanding, Created, CreationFails, Crash, UnchangedProgress
<1>4. ASSUME NEW c \in Controls, Closing(c) PROVE Same
  BY <1>2, <1>4, AttemptsFail
  DEF Closing, IdleSettles, WallClockExpires, Abort, PredicateComplete, BeginClose, AskPredicate,
      PredicateContinues, Close, AdoptClosure, UnchangedProgress
<1>5. ASSUME NEW c \in Controls, Writing(c) PROVE Same
  <2>1. ASSUME SequenceWrite(c) PROVE Same
    BY <2>1, ProcessWrites, WriteType, StoreInvIs DEF Going
  <2> QED
    BY <1>2, <1>5, <2>1
    DEF Writing, BeginWrite, RefuseWrite, NoteWrite, CheckCompletion, UnchangedProgress
<1>6. ASSUME NEW c \in Controls, Waking(c) \/ Registering(c) PROVE Same
  BY <1>6
  DEF Waking, NotifyDue, RelayRoster, TakeTail, Registering, Register, RelayByAddress,
      Store!MarkSent, Store!agentVars
<1>7. ASSUME Delivering \/ SweepReads \/ SweepCloses \/ Tick PROVE Same
  BY <1>2, <1>7, AttemptsFail
  DEF Delivering, Deliver, DeliveryFails, MarkDelivered, Store!MarkSent, SweepReads, SweepCloses,
      Tick, Store!Tick, Store!agentVars
<1>8. ASSUME NEW k \in answering, NoteAnswer(k) PROVE Same
  BY <1>2, <1>8 DEF NoteAnswer
<1>9. ASSUME NEW c \in Controls, NEW a \in Agents, NEW n \in received[a], Ack(c, a, n.to)
      PROVE  \A b \in Agents : acked[b] \in Nat /\ acked'[b] \in Nat /\ acked'[b] >= acked[b]
  <2>1. n.to \in Nat /\ Store!Acknowledge(a, n.to)
    BY <1>9 DEF Ack, Going, TypeInv, TypeOK, Notification
  <2> QED
    BY <2>1, AcknowledgeType, StoreInvIs DEF Going, TypeInv, TypeOK, Store!TypeOK
<1> HIDE DEF Same
<1> QED
  BY <1>1, <1>3, <1>4, <1>5, <1>6, <1>7, <1>8, <1>9 DEF Next, Answering

\* What a write read of its hearers stands until it notes them.
LEMMA HearersStep ==
  ASSUME Going, Next, TypeInv'
  PROVE  HearersStand'
<1> DEFINE Writes(lock) == lock.op \in {"appending", "noting"}
           Same == \A c \in Controls : Writes(pc'[c]) =>
                     /\ Writes(pc[c])
                     /\ pc'[c].region = pc[c].region /\ pc'[c].writer = pc[c].writer
                     /\ pc'[c].hearers = pc[c].hearers /\ pc'[c].acked = pc[c].acked
<1>1. pc \in [Controls -> Lock]
  BY DEF Going, TypeInv, TypeOK
<1>2. \A c \in Controls : Writes(pc[c]) =>
        pc[c].hearers \subseteq Agents /\ pc[c].acked \in [Agents -> Nat]
  BY <1>1, LockIs DEF WritingLock
<1>3. ASSUME Same PROVE HearersStand'
  <2> SUFFICES ASSUME NEW c \in Controls, Writes(pc'[c]), NEW a \in pc'[c].hearers
               PROVE  /\ declaration'[a] # NoDeclaration
                      /\ pc'[c].region \in Wants[a] /\ pc'[c].writer # a
                      /\ pc'[c].acked[a] <= acked'[a]
    BY DEF HearersStand
  <2>1. /\ a \in pc[c].hearers /\ a \in Agents /\ pc[c].acked[a] \in Nat /\ Writes(pc[c])
        /\ pc'[c].region = pc[c].region /\ pc'[c].writer = pc[c].writer
        /\ pc'[c].acked = pc[c].acked
    BY <1>2, <1>3
  <2>2. /\ declaration[a] # NoDeclaration
        /\ pc[c].region \in Wants[a] /\ pc[c].writer # a
        /\ pc[c].acked[a] <= acked[a]
    BY <2>1 DEF Going, Lossless, HearersStand
  <2> QED
    BY <2>1, <2>2, DeclaredStep, AnswersRise
<1>4. ASSUME UNCHANGED pc PROVE Same
  BY <1>4
<1>5. ASSUME NEW c \in Controls, NEW lock, ~ Writes(lock), pc' = [pc EXCEPT ![c] = lock]
      PROVE  Same
  BY <1>1, <1>5
<1>6. ASSUME NEW c \in Controls, Creating(c) \/ Crash(c) PROVE Same
  <2>1. ASSUME NEW p \in Premises, OpenPremise(c, p) PROVE Same
    <3>1. pc[c] \in OpeningLock
      BY <1>1, <2>1, LockIs DEF OpenPremise
    <3>2. pc' = [pc EXCEPT ![c] = [pc[c] EXCEPT !.missing = pc[c].missing \ {p}]]
      BY <2>1 DEF OpenPremise
    <3>3. [pc[c] EXCEPT !.missing = pc[c].missing \ {p}].op = "opening"
      BY <3>1 DEF OpeningLock
    <3> QED
      BY <1>5, <3>2, <3>3
  <2>2. ASSUME Create(c) PROVE Same
    BY <1>5, <2>2 DEF Create
  <2>3. ASSUME ReadStanding(c) PROVE Same
    BY <1>5, <2>3 DEF ReadStanding
  <2>4. ASSUME Created(c) \/ Crash(c) \/ \E p \in Premises : CreationFails(c, p) PROVE Same
    BY <1>5, <2>4 DEF Created, Crash, CreationFails, Waiting
  <2> HIDE DEF Same
  <2> QED
    BY <1>6, <2>1, <2>2, <2>3, <2>4 DEF Creating
<1>7. ASSUME NEW c \in Controls, Closing(c) PROVE Same
  <2>1. ASSUME NEW o, BeginClose(c, o) PROVE Same
    BY <1>5, <2>1 DEF BeginClose
  <2>2. ASSUME Close(c) PROVE Same
    BY <1>5, <2>2 DEF Close, Waiting
  <2>3. ASSUME AskPredicate(c) \/ PredicateContinues(c) \/ AdoptClosure(c) PROVE Same
    BY <1>4, <2>3 DEF AskPredicate, PredicateContinues, AdoptClosure
  <2> HIDE DEF Same
  <2> QED
    BY <1>7, <2>1, <2>2, <2>3
    DEF Closing, IdleSettles, WallClockExpires, Abort, PredicateComplete
<1>8. ASSUME NEW c \in Controls, SequenceWrite(c) PROVE Same
  <2>1. pc[c] \in WritingLock
    BY <1>1, <1>8, LockIs DEF SequenceWrite
  <2>2. /\ pc' = [pc EXCEPT ![c] = [pc[c] EXCEPT !.op = "noting"]]
        /\ pc[c].op = "appending"
    BY <1>8 DEF SequenceWrite
  <2>3. pc'[c] = [pc[c] EXCEPT !.op = "noting"] /\ \A x \in Controls \ {c} : pc'[x] = pc[x]
    BY <1>1, <2>2
  <2>4. /\ pc'[c].region = pc[c].region /\ pc'[c].writer = pc[c].writer
        /\ pc'[c].hearers = pc[c].hearers /\ pc'[c].acked = pc[c].acked
    BY <2>1, <2>3 DEF WritingLock
  <2> QED
    BY <2>2, <2>3, <2>4
<1>9. ASSUME NEW c \in Controls, RefuseWrite(c) \/ NoteWrite(c) PROVE Same
  BY <1>5, <1>9 DEF RefuseWrite, NoteWrite, Waiting
<1>10. ASSUME NEW c \in Controls, CheckCompletion(c) \/ Waking(c) \/ Registering(c) PROVE Same
  BY <1>4, <1>10
  DEF CheckCompletion, Waking, NotifyDue, RelayRoster, TakeTail, RelayByAddress, Registering,
      Register
<1>11. ASSUME Answering \/ Delivering \/ SweepReads \/ SweepCloses \/ Tick PROVE Same
  BY <1>4, <1>11
  DEF Answering, Ack, NoteAnswer, Delivering, Deliver, DeliveryFails, MarkDelivered, SweepReads,
      SweepCloses, Tick
<1>12. ASSUME NEW c \in Controls, NEW r \in Region, NEW w \in Writers, BeginWrite(c, r, w)
       PROVE  HearersStand'
  <2> DEFINE subscribed == {a \in roster : r \in IF declaration[a] = NoDeclaration
                                                 THEN Premises ELSE Wants[a]}
             lock == [op |-> "appending", region |-> r, writer |-> w,
                      hearers |-> subscribed \ {w}, acked |-> acked, declared |-> declaration]
  <2>1. pc' = [pc EXCEPT ![c] = lock] /\ UNCHANGED <<acked, declaration>>
    BY <1>12 DEF BeginWrite, UnchangedStore, storeVars
  <2>2. \A a \in lock.hearers : /\ declaration[a] # NoDeclaration
                                /\ r \in Wants[a] /\ w # a /\ acked[a] <= acked[a]
    <3> SUFFICES ASSUME NEW a \in subscribed \ {w}
                 PROVE  /\ declaration[a] # NoDeclaration
                        /\ r \in Wants[a] /\ w # a /\ acked[a] <= acked[a]
      OBVIOUS
    <3>1. declaration[a] # NoDeclaration /\ a \in Agents
      BY DEF Going, Lossless, Declared, TypeInv, TypeOK, Store!TypeOK
    <3>2. acked[a] \in Nat
      BY <3>1 DEF Going, TypeInv, TypeOK, Store!TypeOK
    <3> QED
      BY <3>1, <3>2
  <2>3. lock.region = r /\ lock.writer = w /\ lock.acked = acked
    OBVIOUS
  <2> HIDE DEF lock
  <2>4. ASSUME NEW x \in Controls, Writes(pc'[x]), NEW a \in pc'[x].hearers
        PROVE  /\ declaration[a] # NoDeclaration
               /\ pc'[x].region \in Wants[a] /\ pc'[x].writer # a
               /\ pc'[x].acked[a] <= acked[a]
    <3>1. CASE x = c
      <4>1. pc'[x] = lock
        BY <1>1, <2>1, <3>1
      <4> QED
        BY <2>2, <2>3, <2>4, <4>1
    <3>2. CASE x # c
      <4>1. pc'[x] = pc[x]
        BY <1>1, <2>1, <3>2
      <4> QED
        BY <2>4, <4>1 DEF Going, Lossless, HearersStand
    <3> QED
      BY <3>1, <3>2
  <2> QED
    BY <2>1, <2>4 DEF HearersStand
<1> HIDE DEF Same
<1>13. ASSUME NEW c \in Controls, Writing(c) PROVE HearersStand'
  BY <1>3, <1>8, <1>9, <1>10, <1>12, <1>13 DEF Writing
<1> QED
  BY <1>3, <1>6, <1>7, <1>10, <1>11, <1>13 DEF Next

\* A delivery starts no later than its agent's answer, and is made before it
\* counts as sent.
LEMMA DeliveriesStep ==
  ASSUME Going, Next, TypeInv'
  PROVE  DeliveriesCover'
<1>1. /\ \A d \in flight : d.note.agent \in Agents /\ d.note.from \in Nat
      /\ \A d \in flight' : d.note.agent \in Agents /\ d.note.from \in Nat
  BY DEF Going, TypeInv, TypeOK, Delivery, Notification
<1>2. \A d \in flight : /\ d.note.from <= acked[d.note.agent] + 1
                        /\ d.stage = "sent" => d.note \in received[d.note.agent]
  BY DEF Going, Lossless, DeliveriesCover
<1>3. ASSUME \A a \in Agents : received[a] \subseteq received'[a],
             \A d \in flight' \ flight :
               /\ d.note.from <= acked[d.note.agent] + 1
               /\ d.stage = "sent" => d.note \in received'[d.note.agent]
      PROVE  DeliveriesCover'
  <2> SUFFICES ASSUME NEW d \in flight'
               PROVE  /\ d.note.from <= acked'[d.note.agent] + 1
                      /\ d.stage = "sent" => d.note \in received'[d.note.agent]
    BY DEF DeliveriesCover
  <2>1. /\ d.note.from <= acked[d.note.agent] + 1
        /\ d.stage = "sent" => d.note \in received'[d.note.agent]
    BY <1>1, <1>2, <1>3
  <2> QED
    BY <1>1, <2>1, AnswersRise
<1> DEFINE Same == flight' \subseteq flight /\ UNCHANGED received
<1>4. ASSUME Same PROVE DeliveriesCover'
  BY <1>3, <1>4
<1>5. ASSUME NEW c \in Controls, NEW others \in SUBSET Agents, NEW answered \in [Agents -> Nat],
             Wakening(c, others, answered), \A a \in others : answered[a] <= acked[a]
      PROVE  DeliveriesCover'
  <2> SUFFICES ASSUME NEW d \in flight' \ flight
               PROVE  d.note.from <= acked[d.note.agent] + 1 /\ d.stage # "sent"
    BY <1>3, <1>5 DEF Wakening
  <2>1. d.stage = "queued"
    BY <1>5 DEF Wakening
  <2>2. CASE d.note.agent \in DOMAIN held[c] /\ d.note.from = held[c][d.note.agent].acked + 1
    <3>1. /\ held[c][d.note.agent].acked <= acked[d.note.agent]
          /\ held[c][d.note.agent].acked \in Nat /\ acked[d.note.agent] \in Nat
      <4>1. Holds(held[c])
        BY DEF Going, TypeInv, TypeOK
      <4>2. held[c][d.note.agent] \in Held /\ d.note.agent \in Agents
        BY <2>2, <4>1, HoldsIs
      <4> QED
        BY <2>2, <4>2, AnswersRise DEF Going, Behind, Held
    <3> QED
      BY <2>1, <2>2, <3>1
  <2>3. CASE d.note.agent \in others /\ d.note.from = answered[d.note.agent] + 1
    <3>1. /\ answered[d.note.agent] <= acked[d.note.agent]
          /\ answered[d.note.agent] \in Nat /\ acked[d.note.agent] \in Nat
      BY <1>1, <1>5, <2>3, AnswersRise
    <3> QED
      BY <2>1, <2>3, <3>1
  <2> QED
    BY <1>5, <2>2, <2>3 DEF Wakening
<1>6. ASSUME NEW c \in Controls, Creating(c) \/ Closing(c) \/ Crash(c) PROVE Same
  BY <1>6
  DEF Creating, Create, ReadStanding, OpenPremise, CreationFails, Created, Crash, Closing,
      IdleSettles, WallClockExpires, Abort, PredicateComplete, BeginClose, AskPredicate,
      PredicateContinues, Close, AdoptClosure, UnchangedHistory
<1>7. ASSUME NEW c \in Controls,
             \/ \E r \in Region, w \in Writers \ {NoWriter} : BeginWrite(c, r, w)
             \/ SequenceWrite(c) \/ RefuseWrite(c) \/ CheckCompletion(c)
      PROVE  Same
  BY <1>7 DEF BeginWrite, SequenceWrite, RefuseWrite, CheckCompletion, UnchangedHistory
<1>8. ASSUME NEW c \in Controls, NoteWrite(c) PROVE DeliveriesCover'
  <2>1. pc[c] \in WritingLock /\ pc[c].op = "noting"
    BY <1>8, LockIs DEF NoteWrite, Going, TypeInv, TypeOK
  <2>2. /\ pc[c].hearers \in SUBSET Agents /\ pc[c].acked \in [Agents -> Nat]
        /\ \A a \in pc[c].hearers : pc[c].acked[a] <= acked[a]
    BY <2>1 DEF WritingLock, Going, Lossless, HearersStand
  <2> QED
    BY <1>5, <1>8, <2>2, NoteWriteWakens DEF Going
<1>9. ASSUME NEW c \in Controls, Waking(c) PROVE DeliveriesCover'
  <2>1. acked \in [Agents -> Nat] /\ \A a \in Agents : acked[a] <= acked[a]
    BY DEF Going, TypeInv, TypeOK, Store!TypeOK
  <2>2. ASSUME NEW a \in Agents, RelayByAddress(c, a) PROVE DeliveriesCover'
    <3>1. {a} \in SUBSET Agents
      OBVIOUS
    <3> QED
      BY <1>5, <2>1, <2>2, <3>1, RelayByAddressWakens DEF Going
  <2>3. ASSUME NEW considered, NEW resending, TakeTail(c, considered, resending)
        PROVE  DeliveriesCover'
    <3>1. {} \in SUBSET Agents
      OBVIOUS
    <3> QED
      BY <1>5, <2>1, <2>3, <3>1, TakeTailWakens DEF Going
  <2> QED
    BY <1>9, <2>2, <2>3 DEF Waking, NotifyDue, RelayRoster
<1>10. ASSUME NEW c \in Controls, NEW a \in Agents, NEW by \in Declarations, Register(c, a, by)
       PROVE  DeliveriesCover'
  <2> DEFINE answered == acked[a]
             known == [x \in {a} \cup DOMAIN held[c] |->
                         IF x = a THEN [by |-> by, notified |-> answered, acked |-> answered]
                         ELSE held[c][x]]
             filled == {l \in Levels : levels[l] # <<>>} \cup {p \in Premises : premises[p] > 0}
             pending == [x \in DOMAIN known |-> IF x = a THEN Wants[a] \cap filled ELSE {}]
  <2>1. /\ flight' = flight \cup Deliveries(c, known, pending, last[c])
        /\ UNCHANGED received
    BY <1>10 DEF Register, UnchangedHistory
  <2>2. \A x \in DOMAIN known : known[x].acked <= acked[x]
    <3> SUFFICES ASSUME NEW x \in DOMAIN known PROVE known[x].acked <= acked[x]
      OBVIOUS
    <3>1. CASE x = a
      <4>1. known[x].acked = acked[x] /\ acked[x] \in Nat
        BY <3>1, AnswersRise
      <4> QED
        BY <4>1
    <3>2. CASE x # a
      BY <3>2 DEF Going, Behind
    <3> QED
      BY <3>1, <3>2
  <2>3. \A x \in DOMAIN known : x \in Agents /\ known[x].acked \in Nat
    <3>1. Holds(held[c]) /\ acked[a] \in Nat
      BY DEF Going, TypeInv, TypeOK, Store!TypeOK
    <3>2. DOMAIN held[c] \subseteq Agents /\ \A x \in DOMAIN held[c] : held[c][x].acked \in Nat
      BY <3>1, HoldsIs DEF Held
    <3> QED
      BY <3>1, <3>2
  <2> HIDE DEF known, pending
  <2>4. ASSUME NEW d \in flight' \ flight
        PROVE  d.note.from <= acked[d.note.agent] + 1 /\ d.stage # "sent"
    <3>1. /\ d.stage = "queued" /\ d.note.agent \in DOMAIN known
          /\ d.note.from = known[d.note.agent].acked + 1
      <4>1. d \in Deliveries(c, known, pending, last[c])
        BY <2>1
      <4> QED
        BY <4>1, DeliveriesStart
    <3> QED
      BY <2>2, <2>3, <3>1, AnswersRise
  <2> QED
    BY <1>3, <2>1, <2>4
<1>11. ASSUME Answering PROVE Same
  BY <1>11 DEF Answering, Ack, NoteAnswer, UnchangedHistory
<1>12. ASSUME NEW d \in flight, DeliveryFails(d) \/ MarkDelivered(d) PROVE Same
  BY <1>12 DEF DeliveryFails, MarkDelivered, UnchangedHistory
<1>13. ASSUME NEW d \in flight, Deliver(d) PROVE DeliveriesCover'
  <2>1. /\ received' = [received EXCEPT ![d.note.agent] = received[d.note.agent] \cup {d.note}]
        /\ flight' = (flight \ {d}) \cup {[d EXCEPT !.stage = "sent"]}
    BY <1>13 DEF Deliver
  <2>2. d \in Delivery /\ received \in [Agents -> SUBSET Notification] /\ d.note.agent \in Agents
    BY <1>1 DEF Going, TypeInv, TypeOK
  <2>3. [d EXCEPT !.stage = "sent"].note = d.note
    BY <2>2 DEF Delivery
  <2>4. \A a \in Agents : received[a] \subseteq received'[a]
    BY <2>1, <2>2
  <2>5. d.note \in received'[d.note.agent]
    BY <2>1, <2>2
  <2> HIDE DEF Delivery
  <2>6. \A x \in flight' \ flight : x.note = d.note
    BY <2>1, <2>3
  <2> QED
    BY <1>2, <1>3, <2>4, <2>5, <2>6
<1>14. ASSUME SweepReads \/ SweepCloses \/ Tick PROVE Same
  BY <1>14 DEF SweepReads, SweepCloses, Tick
<1> HIDE DEF Same
<1>15. ASSUME NEW c \in Controls, Writing(c) \/ Waking(c) \/ Registering(c) PROVE DeliveriesCover'
  BY <1>4, <1>7, <1>8, <1>9, <1>10, <1>15 DEF Writing, Registering
<1> QED
  BY <1>4, <1>6, <1>11, <1>12, <1>13, <1>14, <1>15 DEF Next, Delivering

LEMMA LossInit == Init => LossInv
<1> SUFFICES ASSUME Init PROVE Lossless
  BY BehindInit DEF LossInv
<1>1. /\ roster = {} /\ sequence = 0 /\ changes = <<>> /\ flight = {}
      /\ \A c \in Controls : pc[c].op = "none" /\ DOMAIN held[c] = {}
  BY NothingHeld DEF Init, Store!Init, Store!EmptyRecord, Store!NoProgress, Waiting
<1>2. DOMAIN changes = {} /\ MaxSequence \in Nat
  BY <1>1, ControlAssumption
<1>3. Declared /\ HearersStand /\ DeliveriesCover
  BY <1>1 DEF Declared, HearersStand, DeliveriesCover
<1>4. HearersWake /\ NothingLost /\ sequence <= MaxSequence
  BY <1>1, <1>2 DEF HearersWake, NothingLost
<1> QED
  BY <1>3, <1>4 DEF Lossless

LEMMA LossStep ==
  ASSUME ~LateStart, MaxSequence <= PageSize, LossInv, [Next]_vars
  PROVE  LossInv'
<1>1. BehindInv'
  BY BehindStep DEF LossInv
<1>2. ASSUME run'.state \notin Store!Outcomes PROVE Lossless'
  <2>1. run.state \notin Store!Outcomes
    BY <1>2, StepKeeps
    DEF LossInv, BehindInv, Keeps, Ends, Create, Store!Outcomes
  <2>2. Going
    BY <1>2, <2>1 DEF LossInv, BehindInv, Going
  <2>3. CASE Next
    BY <1>1, <2>2, <2>3, RecordStep, DeclaredStep, HearersStep, DeliveriesStep
    DEF BehindInv, Lossless
  <2>4. CASE UNCHANGED vars
    BY <2>2, <2>4
    DEF Going, vars, storeVars, localVars, callVars, Lossless, Declared, HearersStand,
        HearersWake, Wakes, DeliveriesCover, NothingLost
  <2> QED
    BY <2>3, <2>4
<1> QED
  BY <1>1, <1>2 DEF LossInv

\* If a process is created only while the run is open and the board fits on
\* one page: while the run is open, each write an agent was to hear of is in
\* its outbox, or was answered, or is covered by a notification it received,
\* whatever crashes, fails to send, answers late or relays meanwhile.
THEOREM NothingIsLost ==
  ASSUME ~ LateStart, MaxSequence <= PageSize
  PROVE  Spec => []NoNotificationLost
<1>1. LossInv => NoNotificationLost
  BY DEF LossInv, Lossless, NothingLost, NoNotificationLost, Store!Outcomes
<1>2. LossInv /\ [Next]_vars => LossInv'
  BY LossStep
<1> QED
  BY <1>1, <1>2, LossInit, PTL DEF Spec

-----------------------------------------------------------------------------
(* A process settles once the idle limit has passed since its last call.   *)

\* The idle limit has passed on this process's timer.
Silent(c) == idleDue[c] # Never /\ idleDue[c] <= now

\* An armed timer runs the whole idle limit from the last call that ended.
Counts(c) == served[c] <= now /\ (idleDue[c] # Never => served[c] + Idle <= idleDue[c])

\* Its predicate is asked, and a close as settled begun, only once the limit has
\* passed on the timer; nothing has moved the timer since.
SilenceInv ==
  /\ TypeInv
  /\ \A c \in Controls :
       /\ Counts(c)
       /\ asked[c] => Silent(c)
       /\ pc[c].op = "closing" /\ pc[c].outcome = "settled" => Silent(c)

LEMMA SilenceInit == Init => SilenceInv
<1> SUFFICES ASSUME Init PROVE SilenceInv
  OBVIOUS
<1>1. TypeInv
  BY TypeInit
<1>2. \A c \in Controls : Counts(c)
  BY DEF Init, Store!Init, Counts
<1> QED
  BY <1>1, <1>2 DEF Init, SilenceInv, Waiting

\* A step of a process leaves the timers and the locks of the others alone.
OthersWait(c) ==
  \A x \in Controls \ {c} : idleDue'[x] = idleDue[x] /\ asked'[x] = asked[x] /\ pc'[x] = pc[x]

\* What a step does to one process: it starts it, or leaves its timer alone and begins
\* no close; it ends a silence; it asks the predicate; or it begins a close, as settled
\* only in a silence.
Starts(c) == idleDue'[c] = idleDue[c] /\ asked'[c] = asked[c] /\ pc'[c].op = "creating"
Stays(c) ==
  /\ idleDue'[c] = idleDue[c] /\ (asked'[c] => asked[c])
  /\ pc'[c] = pc[c] \/ (pc'[c].op # "closing" /\ pc[c].op # "closing")
Speaks(c) == ~ asked'[c] /\ pc'[c].op # "closing" /\ (pc[c].op = "closing" => Close(c) \/ Crash(c))
Asks(c) == idleDue'[c] = idleDue[c] /\ Silent(c) /\ pc'[c] = pc[c] /\ pc[c].op # "closing"
Begins(c) ==
  /\ idleDue'[c] = idleDue[c] /\ asked'[c] = asked[c] /\ pc[c].op # "closing"
  /\ pc'[c].op = "closing" /\ (pc'[c].outcome = "settled" => asked[c] \/ Silent(c))
Moves(c) == Starts(c) \/ Stays(c) \/ Speaks(c) \/ Asks(c) \/ Begins(c)

LEMMA CreatingMoves ==
  ASSUME TypeInv, NEW c \in Controls, Creating(c)
  PROVE  Moves(c) /\ OthersWait(c) /\ now' = now
<1>1. /\ DOMAIN idleDue = Controls /\ DOMAIN asked = Controls /\ DOMAIN pc = Controls
      /\ \A x \in Controls : pc[x] \in Lock
  BY DEF TypeInv, TypeOK
<1>2. CASE Create(c)
  <2>1. /\ UNCHANGED <<idleDue, asked, now>> /\ pc' = [pc EXCEPT ![c] = [op |-> "creating"]]
    BY <1>2 DEF Create
  <2> QED
    BY <1>1, <2>1 DEF Moves, Starts, OthersWait
<1>3. CASE ReadStanding(c)
  <2>1. /\ UNCHANGED <<idleDue, asked, now>> /\ pc[c].op = "creating"
        /\ pc' = [pc EXCEPT ![c] = [op |-> "opening",
                                    missing |-> {p \in Premises : premises[p] = 0}]]
    BY <1>3 DEF ReadStanding, UnchangedStore, storeVars, localVars
  <2> QED
    BY <1>1, <2>1 DEF Moves, Stays, OthersWait
<1>4. CASE Created(c)
  <2>1. /\ UNCHANGED <<idleDue, asked, now>> /\ pc[c].op = "opening"
        /\ pc' = [pc EXCEPT ![c] = Waiting]
    BY <1>4 DEF Created, UnchangedStore, storeVars, localVars
  <2> QED
    BY <1>1, <2>1 DEF Moves, Stays, OthersWait, Waiting
<1>5. ASSUME NEW p \in Premises, OpenPremise(c, p)
      PROVE  Moves(c) /\ OthersWait(c) /\ now' = now
  <2>1. /\ UNCHANGED <<idleDue, asked, now>> /\ pc[c].op = "opening"
        /\ pc' = [pc EXCEPT ![c] = [pc[c] EXCEPT !.missing = pc[c].missing \ {p}]]
    BY <1>5 DEF OpenPremise, Store!Set, Store!Record, Store!runVars
  <2>2. pc[c] \in OpeningLock
    BY <1>1, <2>1, LockIs
  <2> QED
    BY <1>1, <2>1, <2>2 DEF Moves, Stays, OthersWait, OpeningLock
<1>6. ASSUME NEW p \in Premises, CreationFails(c, p)
      PROVE  Moves(c) /\ OthersWait(c) /\ now' = now
  <2>1. /\ UNCHANGED <<idleDue, asked, now>> /\ pc[c].op = "opening"
        /\ pc' = [pc EXCEPT ![c] = Waiting]
    BY <1>6 DEF CreationFails, Store!CloseRun, UnchangedStore, storeVars
  <2> QED
    BY <1>1, <2>1 DEF Moves, Stays, OthersWait, Waiting
<1> QED
  BY <1>2, <1>3, <1>4, <1>5, <1>6 DEF Creating

LEMMA TouchMoves ==
  ASSUME TypeInv, NEW c \in Controls, NEW condition, TouchIdleIf(c, condition)
  PROVE  /\ \/ UNCHANGED <<idleDue, asked>>
            \/ ~ asked'[c]
         /\ \A x \in Controls \ {c} : idleDue'[x] = idleDue[x] /\ asked'[x] = asked[x]
  BY DEF TouchIdleIf, TouchIdle, TypeInv, TypeOK

LEMMA WritingMoves ==
  ASSUME TypeInv, NEW c \in Controls, Writing(c)
  PROVE  Moves(c) /\ OthersWait(c) /\ now' = now
<1>1. /\ DOMAIN idleDue = Controls /\ DOMAIN asked = Controls /\ DOMAIN pc = Controls
      /\ \A x \in Controls : pc[x] \in Lock
  BY DEF TypeInv, TypeOK
<1>2. ASSUME NEW r \in Region, NEW w \in Writers, BeginWrite(c, r, w)
      PROVE  Moves(c) /\ OthersWait(c) /\ now' = now
  <2>1. /\ UNCHANGED <<idleDue, asked, now>> /\ pc[c] = Waiting
        /\ \E lock : lock.op = "appending" /\ pc' = [pc EXCEPT ![c] = lock]
    BY <1>2 DEF BeginWrite, Open, Free, UnchangedStore, storeVars, localVars
  <2> QED
    BY <1>1, <2>1 DEF Moves, Stays, OthersWait, Waiting
<1>3. CASE SequenceWrite(c)
  <2>1. /\ UNCHANGED <<idleDue, asked, now>> /\ pc[c].op = "appending"
        /\ pc' = [pc EXCEPT ![c] = [pc[c] EXCEPT !.op = "noting"]]
    BY <1>3 DEF SequenceWrite, Store!AppendTo, Store!Set, Store!Record, Store!runVars
  <2>2. pc[c] \in WritingLock
    BY <1>1, <2>1, LockIs
  <2> QED
    BY <1>1, <2>1, <2>2 DEF Moves, Stays, OthersWait, WritingLock
<1>4. CASE RefuseWrite(c)
  <2>1. /\ UNCHANGED <<idleDue, asked, now>> /\ pc[c].op = "appending"
        /\ pc' = [pc EXCEPT ![c] = Waiting]
    BY <1>4 DEF RefuseWrite, UnchangedStore, storeVars, localVars
  <2> QED
    BY <1>1, <2>1 DEF Moves, Stays, OthersWait, Waiting
<1>5. CASE NoteWrite(c)
  <2>1. /\ now' = now /\ pc[c].op = "noting" /\ pc' = [pc EXCEPT ![c] = Waiting]
        /\ \E condition : TouchIdleIf(c, condition)
    BY <1>5 DEF NoteWrite
  <2> QED
    BY <1>1, <2>1, TouchMoves DEF Moves, Stays, Speaks, OthersWait, Waiting
<1>6. CASE CheckCompletion(c)
  <2>1. /\ now' = now /\ pc[c] = Waiting /\ pc' = pc /\ \E condition : TouchIdleIf(c, condition)
    BY <1>6 DEF CheckCompletion, Free
  <2> QED
    BY <1>1, <2>1, TouchMoves DEF Moves, Stays, Speaks, OthersWait, Waiting
<1> QED
  BY <1>2, <1>3, <1>4, <1>5, <1>6 DEF Writing

LEMMA WakingMoves ==
  ASSUME TypeInv, NEW c \in Controls, Waking(c) \/ Registering(c)
  PROVE  Moves(c) /\ OthersWait(c) /\ now' = now
<1>1. ASSUME NEW condition, TouchIdleIf(c, condition), pc' = pc, now' = now, pc[c] = Waiting
      PROVE  Moves(c) /\ OthersWait(c) /\ now' = now
  BY <1>1, TouchMoves DEF Moves, Stays, Speaks, OthersWait, Waiting
<1>2. ASSUME NEW considered, NEW resending, Open(c), TakeTail(c, considered, resending)
      PROVE  Moves(c) /\ OthersWait(c) /\ now' = now
  <2>1. /\ pc' = pc /\ now' = now /\ pc[c] = Waiting
        /\ \E condition : TouchIdleIf(c, condition)
    BY <1>2 DEF TakeTail, Open, Free
  <2> QED
    BY <1>1, <2>1
<1>3. CASE NotifyDue(c) \/ RelayRoster(c)
  BY <1>2, <1>3 DEF NotifyDue, RelayRoster
<1>4. ASSUME NEW a \in Agents, RelayByAddress(c, a)
      PROVE  Moves(c) /\ OthersWait(c) /\ now' = now
  <2>1. UNCHANGED <<idleDue, asked, pc, now>>
    BY <1>4 DEF RelayByAddress, localVars, Store!MarkSent, Store!runVars
  <2> QED
    BY <2>1 DEF Moves, Stays, OthersWait
<1>5. ASSUME NEW a \in Agents, NEW by \in Declarations, Register(c, a, by)
      PROVE  Moves(c) /\ OthersWait(c) /\ now' = now
  <2>1. /\ pc' = pc /\ now' = now /\ pc[c] = Waiting
        /\ \E condition : TouchIdleIf(c, condition)
    BY <1>5 DEF Register, Open, Free
  <2> QED
    BY <1>1, <2>1
<1> QED
  BY <1>3, <1>4, <1>5 DEF Waking, Registering

LEMMA ClosingMoves ==
  ASSUME TypeInv, NEW c \in Controls, Closing(c)
  PROVE  Moves(c) /\ OthersWait(c) /\ now' = now
<1>1. /\ DOMAIN idleDue = Controls /\ DOMAIN asked = Controls /\ DOMAIN pc = Controls
  BY DEF TypeInv, TypeOK
<1>2. ASSUME NEW as, BeginClose(c, as), pc[c].op # "closing",
             as = "settled" => asked[c] \/ Silent(c)
      PROVE  Moves(c) /\ OthersWait(c) /\ now' = now
  <2>1. /\ UNCHANGED <<idleDue, asked, now>>
        /\ \E lock : /\ lock.op = "closing" /\ lock.outcome = as
                     /\ pc' = [pc EXCEPT ![c] = lock]
    <3> DEFINE lock == [op |-> "closing", outcome |-> as,
                        unfinished |-> IF as = "aborted" THEN {} ELSE Store!Outstanding]
    <3>1. UNCHANGED <<idleDue, asked, now>> /\ pc' = [pc EXCEPT ![c] = lock]
      BY <1>2 DEF BeginClose, UnchangedStore, storeVars, localVars
    <3>2. lock.op = "closing" /\ lock.outcome = as
      OBVIOUS
    <3> HIDE DEF lock
    <3> QED
      BY <3>1, <3>2
  <2> QED
    BY <1>1, <1>2, <2>1 DEF Moves, Begins, OthersWait
<1>3. CASE IdleSettles(c) \/ PredicateComplete(c) \/ WallClockExpires(c) \/ Abort(c)
  BY <1>2, <1>3
  DEF IdleSettles, IdlePassed, PredicateComplete, WallClockExpires, Abort, Free, Waiting, Silent
<1>4. CASE AskPredicate(c)
  <2>1. /\ UNCHANGED <<idleDue, pc, now>> /\ Silent(c) /\ pc[c] = Waiting
        /\ asked' = [asked EXCEPT ![c] = TRUE]
    BY <1>4 DEF AskPredicate, IdlePassed, Free, Silent, UnchangedStore, storeVars
  <2> QED
    BY <1>1, <2>1 DEF Moves, Asks, OthersWait, Waiting
<1>5. CASE PredicateContinues(c)
  <2>1. /\ pc' = pc /\ now' = now /\ pc[c] = Waiting
        /\ asked' = [asked EXCEPT ![c] = FALSE]
        /\ idleDue' = [idleDue EXCEPT ![c] = now + Idle]
    BY <1>5 DEF PredicateContinues, Open, Free, TouchIdle
  <2> QED
    BY <1>1, <2>1 DEF Moves, Speaks, OthersWait, Waiting
<1>6. ASSUME NEW as, Closed(c, as)
      PROVE  /\ ~ asked'[c]
             /\ \A x \in Controls \ {c} : idleDue'[x] = idleDue[x] /\ asked'[x] = asked[x]
  BY <1>1, <1>6 DEF Closed
<1>7. CASE Close(c)
  <2>1. /\ pc' = [pc EXCEPT ![c] = Waiting] /\ now' = now /\ \E as : Closed(c, as)
    BY <1>7 DEF Close, Store!CloseRun, UnchangedStore, storeVars
  <2> QED
    BY <1>1, <1>6, <1>7, <2>1 DEF Moves, Speaks, OthersWait, Waiting
<1>8. CASE AdoptClosure(c)
  <2>1. /\ pc' = pc /\ pc[c] = Waiting /\ now' = now /\ \E as : Closed(c, as)
    BY <1>8 DEF AdoptClosure, Open, Free, UnchangedStore, storeVars
  <2>2. OthersWait(c)
    BY <1>6, <2>1 DEF OthersWait
  <2>3. Speaks(c)
    <3>1. pc[c].op = "none" /\ pc'[c].op = "none"
      BY <2>1 DEF Waiting
    <3>2. ~ asked'[c]
      BY <1>6, <2>1
    <3> QED
      BY <3>1, <3>2 DEF Speaks
  <2> QED
    BY <2>1, <2>2, <2>3 DEF Moves
<1> QED
  BY <1>3, <1>4, <1>5, <1>7, <1>8 DEF Closing

\* Time does not go back, and a step moves one process at most.
LEMMA StepMoves ==
  ASSUME TypeInv, [Next]_vars
  PROVE  now <= now' /\ \A x \in Controls : Moves(x)
<1>1. now \in Nat
  BY DEF TypeInv, TypeOK, Store!TypeOK
<1>2. ASSUME NEW c \in Controls, Moves(c), OthersWait(c), now' = now
      PROVE  now <= now' /\ \A x \in Controls : Moves(x)
  BY <1>1, <1>2 DEF OthersWait, Moves, Stays
<1>3. ASSUME UNCHANGED <<idleDue, asked, pc>> PROVE \A x \in Controls : Moves(x)
  BY <1>3 DEF Moves, Stays
<1>4. ASSUME NEW c \in Controls, Creating(c) \/ Closing(c) \/ Writing(c) \/ Waking(c) \/ Registering(c)
      PROVE  now <= now' /\ \A x \in Controls : Moves(x)
  BY <1>2, <1>4, CreatingMoves, ClosingMoves, WritingMoves, WakingMoves
<1>5. ASSUME NEW c \in Controls, Crash(c)
      PROVE  now <= now' /\ \A x \in Controls : Moves(x)
  <2>1. /\ idleDue' = [idleDue EXCEPT ![c] = Never] /\ asked' = [asked EXCEPT ![c] = FALSE]
        /\ pc' = [pc EXCEPT ![c] = Waiting] /\ now' = now
    BY <1>5 DEF Crash, UnchangedStore, storeVars
  <2>2. DOMAIN idleDue = Controls /\ DOMAIN asked = Controls /\ DOMAIN pc = Controls
    BY DEF TypeInv, TypeOK
  <2>3. Moves(c) /\ OthersWait(c)
    BY <1>5, <2>1, <2>2 DEF Moves, Speaks, OthersWait, Waiting
  <2> QED
    BY <1>2, <2>1, <2>3
<1>6. CASE Answering \/ Delivering \/ SweepReads \/ SweepCloses \/ UNCHANGED vars
  <2>1. UNCHANGED <<idleDue, asked, pc, now>>
    BY <1>6
    DEF Answering, Ack, NoteAnswer, Delivering, Deliver, DeliveryFails, MarkDelivered, SweepReads,
        SweepCloses, Store!MarkSent, Store!Acknowledge, Store!CloseRun, Store!runVars,
        UnchangedStore, storeVars, localVars, vars
  <2> QED
    BY <1>1, <1>3, <2>1
<1>7. CASE Tick
  <2>1. UNCHANGED <<idleDue, asked, pc>> /\ now' = now + 1
    BY <1>7 DEF Tick, Store!Tick, localVars
  <2> QED
    BY <1>1, <1>3, <2>1
<1> QED
  BY <1>4, <1>5, <1>6, <1>7 DEF Next

\* The timer is left alone, stopped, or armed for the idle limit from now; a call
\* is only counted as ended where it is armed.
Pushes(c) ==
  \/ idleDue'[c] \in {idleDue[c], Never} /\ served'[c] = served[c]
  \/ idleDue'[c] = now + Idle /\ served'[c] \in {served[c], now}

LEMMA TouchPushes ==
  ASSUME TypeInv, NEW c \in Controls, NEW condition, TouchIdleIf(c, condition), served' = served
  PROVE  \A x \in Controls : Pushes(x)
  BY DEF TouchIdleIf, TouchIdle, Pushes, TypeInv, TypeOK

LEMMA StepPushes ==
  ASSUME TypeInv, [Next]_vars
  PROVE  \A x \in Controls : Pushes(x)
<1>1. DOMAIN idleDue = Controls /\ DOMAIN served = Controls
  BY DEF TypeInv, TypeOK
<1>2. ASSUME UNCHANGED <<idleDue, served>> PROVE \A x \in Controls : Pushes(x)
  BY <1>2 DEF Pushes
<1>3. ASSUME NEW c \in Controls, Creating(c)
      PROVE  \A x \in Controls : Pushes(x)
  <2>1. UNCHANGED <<idleDue, served>>
    BY <1>3
    DEF Creating, Create, ReadStanding, Created, OpenPremise, CreationFails, UnchangedHistory,
        localVars
  <2> QED
    BY <1>2, <2>1
<1>4. ASSUME NEW c \in Controls, Writing(c)
      PROVE  \A x \in Controls : Pushes(x)
  <2>1. CASE CheckCompletion(c)
    BY <1>1, <2>1 DEF CheckCompletion, TouchIdleIf, TouchIdle, Pushes
  <2>2. CASE NoteWrite(c)
    <3>1. served' = served /\ \E condition : TouchIdleIf(c, condition)
      BY <2>2 DEF NoteWrite, UnchangedHistory
    <3> QED
      BY <3>1, TouchPushes
  <2>3. CASE ~ CheckCompletion(c) /\ ~ NoteWrite(c)
    <3>1. UNCHANGED <<idleDue, served>>
      BY <1>4, <2>3
      DEF Writing, BeginWrite, SequenceWrite, RefuseWrite, UnchangedHistory, localVars
    <3> QED
      BY <1>2, <3>1
  <2> QED
    BY <2>1, <2>2, <2>3
<1>5. ASSUME NEW c \in Controls, Waking(c) \/ Registering(c)
      PROVE  \A x \in Controls : Pushes(x)
  <2>1. CASE \E a \in Agents : RelayByAddress(c, a)
    <3>1. UNCHANGED <<idleDue, served>>
      BY <2>1 DEF RelayByAddress, UnchangedHistory, localVars
    <3> QED
      BY <1>2, <3>1
  <2>2. CASE NotifyDue(c) \/ RelayRoster(c) \/ Registering(c)
    <3>1. served' = served /\ \E condition : TouchIdleIf(c, condition)
      BY <2>2 DEF NotifyDue, RelayRoster, Registering, TakeTail, Register, UnchangedHistory
    <3> QED
      BY <3>1, TouchPushes
  <2> QED
    BY <1>5, <2>1, <2>2 DEF Waking
<1>6. ASSUME NEW c \in Controls, Closing(c)
      PROVE  \A x \in Controls : Pushes(x)
  <2>1. CASE Close(c) \/ AdoptClosure(c)
    <3>1. served' = served /\ idleDue' = [idleDue EXCEPT ![c] = Never]
      BY <2>1 DEF Close, AdoptClosure, Closed, UnchangedHistory
    <3> QED
      BY <1>1, <3>1 DEF Pushes
  <2>2. CASE PredicateContinues(c)
    BY <1>1, <2>2 DEF PredicateContinues, TouchIdle, UnchangedHistory, Pushes
  <2>3. CASE IdleSettles(c) \/ WallClockExpires(c) \/ Abort(c) \/ AskPredicate(c)
               \/ PredicateComplete(c)
    <3>1. UNCHANGED <<idleDue, served>>
      BY <2>3
      DEF IdleSettles, WallClockExpires, Abort, AskPredicate, PredicateComplete, BeginClose,
          UnchangedHistory, localVars
    <3> QED
      BY <1>2, <3>1
  <2> QED
    BY <1>6, <2>1, <2>2, <2>3 DEF Closing
<1>7. ASSUME NEW c \in Controls, Crash(c)
      PROVE  \A x \in Controls : Pushes(x)
  BY <1>1, <1>7 DEF Crash, Pushes
<1>8. CASE Answering \/ Delivering \/ SweepReads \/ SweepCloses \/ Tick \/ UNCHANGED vars
  <2>1. UNCHANGED <<idleDue, served>>
    BY <1>8
    DEF Answering, Ack, NoteAnswer, Delivering, Deliver, DeliveryFails, MarkDelivered, SweepReads,
        SweepCloses, Tick, UnchangedHistory, localVars, vars
  <2> QED
    BY <1>2, <2>1
<1> QED
  BY <1>3, <1>4, <1>5, <1>6, <1>7, <1>8 DEF Next

LEMMA SilenceStep == SilenceInv /\ [Next]_vars => SilenceInv'
<1> SUFFICES ASSUME SilenceInv, [Next]_vars PROVE SilenceInv'
  OBVIOUS
<1>1. TypeInv /\ TypeInv'
  BY TypeStep DEF SilenceInv
<1>2. ASSUME NEW c \in Controls
      PROVE  /\ Counts(c)'
             /\ asked'[c] => Silent(c)'
             /\ pc'[c].op = "closing" /\ pc'[c].outcome = "settled" => Silent(c)'
  <2>1. Moves(c) /\ now <= now' /\ now \in Nat /\ now' \in Nat
    BY <1>1, StepMoves DEF TypeInv, TypeOK, Store!TypeOK
  <2>2. idleDue[c] \in Nat /\ served[c] \in Nat /\ Idle \in Nat
    BY <1>1, ControlAssumption DEF TypeInv, TypeOK
  <2>3. idleDue'[c] = idleDue[c] /\ Silent(c) => Silent(c)'
    BY <2>1, <2>2 DEF Silent
  <2>4. Counts(c)'
    <3>1. Pushes(c) /\ Counts(c)
      BY StepPushes DEF SilenceInv
    <3> QED
      BY <2>1, <2>2, <3>1 DEF Pushes, Counts
  <2> QED
    BY <2>1, <2>3, <2>4 DEF Moves, Starts, Stays, Speaks, Asks, Begins, SilenceInv
<1> QED
  BY <1>1, <1>2 DEF SilenceInv

\* A process settles a run only once the idle limit has passed since the last call
\* it ended, however long its predicate took to answer without the lock, whatever
\* calls ended meanwhile and whatever the store's deadline has become.
THEOREM SettlesInSilence == Spec => SettlesAfterCalls
<1>1. SilenceInv /\ [Next]_vars =>
        [\A c \in Controls : Settles(c) => served[c] + Idle <= now]_vars
  <2> SUFFICES ASSUME SilenceInv, [Next]_vars, NEW c \in Controls, Settles(c)
               PROVE  served[c] + Idle <= now
    OBVIOUS
  <2>1. Moves(c)
    BY StepMoves DEF SilenceInv
  <2>2. Close(c) \/ Crash(c)
    BY <2>1 DEF Settles, Moves, Starts, Stays, Speaks, Asks, Begins, Waiting
  <2>3. DOMAIN outcome = Controls
    BY DEF SilenceInv, TypeInv, TypeOK
  <2>4. ~ Crash(c)
    BY <2>3 DEF Settles, Crash
  <2>5. outcome'[c] = pc[c].outcome
    BY <2>2, <2>3, <2>4 DEF Settles, Close, Closed
  <2>6. Silent(c) /\ Counts(c)
    BY <2>5 DEF Settles, SilenceInv
  <2>7. /\ now \in Nat /\ idleDue[c] \in Nat /\ served[c] \in Nat /\ Idle \in Nat
    BY ControlAssumption DEF SilenceInv, TypeInv, TypeOK, Store!TypeOK
  <2> QED
    BY <2>6, <2>7 DEF Silent, Counts
<1> QED
  BY <1>1, SilenceInit, SilenceStep, PTL DEF Spec, SettlesAfterCalls

-----------------------------------------------------------------------------
(* What the store promises of one call, kept by the processes together.    *)

\* The store with what is proved of its operations.
Board == INSTANCE BoardStoreProofs

LEMMA BoardAssumptions ==
  /\ Board!RegionsAssumption /\ Board!KeysAssumption /\ Board!DeclarationsAssumption
  /\ Board!LimitsAssumption /\ Board!BoundsAssumption
  BY NamesAssumption, ControlAssumption
  DEF Board!RegionsAssumption, Board!KeysAssumption, Board!DeclarationsAssumption,
      Board!LimitsAssumption, Board!BoundsAssumption

\* Board has what Store has, under its own names.
LEMMA BoardTypes == Store!TypeOK => Board!TypeOK
  BY DEF Store!TypeOK, Board!TypeOK, Store!Region, Board!Region, Store!Change, Board!Change,
         Store!Written, Board!Written, Store!Run, Board!Run, Store!Outcomes, Board!Outcomes

LEMMA BoardAppends ==
  ASSUME NEW l, NEW w, NEW k, NEW h, Store!AppendTo(l, w, k, h)
  PROVE  Board!AppendTo(l, w, k, h)
  BY DEF Store!AppendTo, Board!AppendTo, Store!Repeated, Board!Repeated, Store!Misused,
         Board!Misused, Store!Record, Board!Record, Store!Enqueue, Board!Enqueue,
         Store!runVars, Board!runVars, Store!agentVars, Board!agentVars

LEMMA BoardSets ==
  ASSUME NEW p, NEW v, NEW w, NEW k, NEW h, Store!Set(p, v, w, k, h)
  PROVE  Board!Set(p, v, w, k, h)
  BY DEF Store!Set, Board!Set, Store!Repeated, Board!Repeated, Store!Misused, Board!Misused,
         Store!Conflicts, Board!Conflicts, Store!Record, Board!Record, Store!Enqueue,
         Board!Enqueue, Store!runVars, Board!runVars, Store!agentVars, Board!agentVars

\* Every write of every process is a write of the store; nothing else a process,
\* a delivery or a sweep does touches the record.
RecordVars == <<sequence, changes, levels, premises, keys, answers>>

LEMMA ProcessesOnlyWrite ==
  ASSUME TypeInv, [Next]_vars
  PROVE  \/ \E c \in Controls : SequenceWrite(c) \/ \E p \in Premises : OpenPremise(c, p)
         \/ UNCHANGED RecordVars
<1> DEFINE Same == UNCHANGED RecordVars
<1>1. ASSUME UnchangedStore \/ UnchangedRecord PROVE Same
  BY <1>1 DEF UnchangedStore, UnchangedRecord, storeVars, RecordVars
<1>2. ASSUME NEW o, NEW u, Store!CloseRun(o, u) PROVE Same
  BY <1>2 DEF Store!CloseRun, Store!recordVars, RecordVars
<1>3. ASSUME NEW a, NEW n, Store!MarkSent(a, n) \/ Store!Acknowledge(a, n) PROVE Same
  BY <1>3 DEF Store!MarkSent, Store!Acknowledge, Store!recordVars, RecordVars
<1>4. ASSUME NEW c \in Controls,
             \/ Create(c) \/ ReadStanding(c) \/ Created(c)
             \/ \E p \in Premises : CreationFails(c, p)
      PROVE  Same
  <2>1. Create(c) => Same
    BY DEF Create, RecordVars
  <2> QED
    BY <1>1, <1>2, <1>4, <2>1 DEF ReadStanding, Created, CreationFails
<1>5. ASSUME NEW c \in Controls, Closing(c) \/ Crash(c) PROVE Same
  <2>1. ASSUME NEW as, BeginClose(c, as) PROVE Same
    BY <1>1, <2>1 DEF BeginClose
  <2>2. IdleSettles(c) \/ WallClockExpires(c) \/ Abort(c) \/ PredicateComplete(c) => Same
    BY <2>1 DEF IdleSettles, WallClockExpires, Abort, PredicateComplete
  <2>3. Close(c) => Same
    BY <1>1, <1>2 DEF Close
  <2>4. AskPredicate(c) \/ PredicateContinues(c) \/ AdoptClosure(c) \/ Crash(c) => Same
    BY <1>1 DEF AskPredicate, PredicateContinues, AdoptClosure, Crash
  <2> QED
    BY <1>5, <2>2, <2>3, <2>4 DEF Closing
<1>6. ASSUME NEW c \in Controls, Writing(c) PROVE SequenceWrite(c) \/ Same
  BY <1>1, <1>6 DEF Writing, BeginWrite, RefuseWrite, NoteWrite, CheckCompletion
<1>7. ASSUME NEW c \in Controls, Waking(c) \/ Registering(c) PROVE Same
  <2>1. \A considered, resending : TakeTail(c, considered, resending) => Same
    BY <1>1 DEF TakeTail
  <2>2. NotifyDue(c) \/ RelayRoster(c) => Same
    BY <2>1 DEF NotifyDue, RelayRoster
  <2>3. ASSUME NEW a \in Agents, RelayByAddress(c, a) PROVE Same
    BY <1>1, <1>3, <2>3 DEF RelayByAddress
  <2>4. Registering(c) => Same
    BY <1>1 DEF Registering, Register
  <2> QED
    BY <1>7, <2>2, <2>3, <2>4 DEF Waking
<1>8. Answering \/ Delivering => Same
  BY <1>1, <1>3
  DEF Answering, Ack, NoteAnswer, Delivering, Deliver, DeliveryFails, MarkDelivered
<1>9. SweepReads \/ SweepCloses => Same
  BY <1>1, <1>2 DEF SweepReads, SweepCloses
<1>10. Tick => Same
  BY DEF Tick, Store!Tick, Store!recordVars, RecordVars
<1>11. UNCHANGED vars => Same
  BY DEF vars, storeVars, RecordVars
<1> HIDE DEF Same
<1>12. \A c \in Controls : Creating(c) =>
         \/ \E p \in Premises : OpenPremise(c, p)
         \/ Same
  BY <1>4 DEF Creating
<1>13. Same => UNCHANGED RecordVars
  BY DEF Same
<1> QED
  BY <1>5, <1>6, <1>7, <1>8, <1>9, <1>10, <1>11, <1>12, <1>13 DEF Next

\* What the record's part of the promise rests on (BoardStoreProofs), of the one
\* store that every process writes to.
RecordInv == TypeInv /\ Board!RecordAgrees /\ Board!KeyInv

LEMMA ProcessWritesKeepRecord ==
  ASSUME RecordInv, NEW r \in Region, NEW w \in Writers, NEW v \in Nat,
         NEW h \in SUBSET Agents,
         Store!AppendTo(r, w, NoKey, h) \/ Store!Set(r, v, w, NoKey, h)
  PROVE  /\ Board!RecordAgrees' /\ Board!KeyInv' /\ Board!Promise!Next
         /\ Board!OutboxInv => Board!OutboxInv'
<1> USE BoardAssumptions
<1>1. Board!TypeOK /\ Board!RecordAgrees /\ Board!KeyInv /\ NoKey \in Keys \cup {NoKey}
  BY BoardTypes DEF RecordInv, TypeInv, TypeOK
<1>2. CASE Store!AppendTo(r, w, NoKey, h)
  <2>1. Board!AppendTo(r, w, NoKey, h)
    BY <1>2, BoardAppends
  <2>2. /\ r \in Levels /\ r \in Board!Region /\ r \notin Premises /\ 0 \in Nat
        /\ ~ Board!Repeated(NoKey, r) /\ ~ Board!Misused(NoKey, r)
        /\ Board!Record(r, w, NoKey, 0, h)
    BY <2>1, NamesAssumption DEF Board!AppendTo, Board!Region
  <2>3. Board!RecordAgrees'
    BY <1>1, <2>1, <2>2, Board!AgreesAppend DEF Board!AgreesAppend
  <2>4. Board!KeyInv'
    BY <1>1, <2>2, Board!KeyRecord DEF Board!KeyRecord
  <2>5. Board!Promise!Next
    BY <1>1, <2>2, Board!RecordExtends DEF Board!RecordExtends
  <2>6. Board!OutboxInv => Board!OutboxInv'
    BY <1>1, <2>2, Board!OutboxRecord DEF Board!OutboxRecord
  <2> QED
    BY <2>3, <2>4, <2>5, <2>6
<1>3. CASE Store!Set(r, v, w, NoKey, h)
  <2>1. Board!Set(r, v, w, NoKey, h)
    BY <1>3, BoardSets
  <2>2. /\ r \in Premises /\ r \in Board!Region /\ v = premises[r]
        /\ ~ Board!Repeated(NoKey, r) /\ ~ Board!Misused(NoKey, r)
        /\ Board!Record(r, w, NoKey, v, h)
    BY <2>1 DEF Board!Set, Board!Region, Board!Conflicts
  <2>3. Board!RecordAgrees'
    BY <1>1, <2>1, <2>2, Board!AgreesSet DEF Board!AgreesSet
  <2>4. Board!KeyInv'
    BY <1>1, <2>2, Board!KeyRecord DEF Board!KeyRecord
  <2>5. Board!Promise!Next
    BY <1>1, <2>2, Board!RecordExtends DEF Board!RecordExtends
  <2>6. Board!OutboxInv => Board!OutboxInv'
    BY <1>1, <2>2, Board!OutboxRecord DEF Board!OutboxRecord
  <2> QED
    BY <2>3, <2>4, <2>5, <2>6
<1> QED
  BY <1>2, <1>3

LEMMA ProcessesKeepRecord ==
  ASSUME RecordInv, [Next]_vars
  PROVE  RecordInv' /\ (Board!Promise!Next \/ UNCHANGED Board!Shown(changes))
<1>1. TypeInv'
  BY TypeStep DEF RecordInv
<1>2. ASSUME UNCHANGED RecordVars
      PROVE  Board!RecordAgrees' /\ Board!KeyInv' /\ UNCHANGED Board!Shown(changes)
  BY <1>2 DEF RecordInv, RecordVars, Board!RecordAgrees, Board!KeyInv, Board!Shown
<1>3. ASSUME NEW c \in Controls,
             SequenceWrite(c) \/ \E p \in Premises : OpenPremise(c, p)
      PROVE  Board!RecordAgrees' /\ Board!KeyInv' /\ Board!Promise!Next
  BY <1>3, ProcessWrites, ProcessWritesKeepRecord DEF RecordInv
<1> QED
  BY <1>1, <1>2, <1>3, ProcessesOnlyWrite DEF RecordInv

LEMMA EmptyRecordAgrees == Init => RecordInv
<1> SUFFICES ASSUME Init PROVE RecordInv
  OBVIOUS
<1>1. Board!Init
  BY DEF Init, Store!Init, Board!Init, Store!EmptyRecord, Board!EmptyRecord, Store!NotWritten,
         Board!NotWritten, Store!NoProgress, Board!NoProgress, Store!NoRun, Board!NoRun
<1>2. Board!RecordAgrees
  BY <1>1, BoardAssumptions, Board!RecordInit DEF Board!RecordInit
<1>3. Board!KeyInv
  BY <1>1, BoardAssumptions, Board!KeyInit DEF Board!KeyInit
<1> QED
  BY <1>2, <1>3, TypeInit DEF RecordInv

\* What BoardRecord shows of a record is one log, whichever module says it.
LEMMA OnePromise ==
  /\ Board!Promise!Next => Store!Promise!Next
  /\ UNCHANGED Board!Shown(changes) => UNCHANGED Store!Shown(changes)
<1>1. Board!Shown(changes) = Store!Shown(changes)
  BY DEF Board!Shown, Store!Shown, Board!Entry, Store!Entry
<1>2. Board!Shown(changes)' = Store!Shown(changes)'
  BY DEF Board!Shown, Store!Shown, Board!Entry, Store!Entry
<1>3. Board!Promise!Next => Store!Promise!Next
  BY DEF Board!Promise!Next, Store!Promise!Next, Board!Promise!Extend, Store!Promise!Extend,
         Board!Promise!Clear, Store!Promise!Clear, Board!Promise!Fresh, Store!Promise!Fresh,
         Board!Promise!WritesTo, Store!Promise!WritesTo, Board!Promise!Entry,
         Store!Promise!Entry, Board!Shown, Store!Shown, Board!Entry, Store!Entry,
         Board!Promise!Cardinality, Store!Promise!Cardinality
<1> QED
  BY <1>1, <1>2, <1>3

\* However many processes write, register, relay, close and crash at once, what
\* they leave of the record is one log that grows by one fresh write at a time,
\* each of a premise naming the version it replaces.
THEOREM ProcessesKeepTheRecord == Spec => Store!KeepsTheRecord
<1>1. Init => Store!Promise!Init
  BY DEF Init, Store!Init, Store!EmptyRecord, Store!Shown, Store!Promise!Init
<1>2. RecordInv /\ [Next]_vars => RecordInv'
  BY ProcessesKeepRecord
<1>3. RecordInv /\ [Next]_vars => [Store!Promise!Next]_(Store!Shown(changes))
  BY ProcessesKeepRecord, OnePromise
<1> QED
  BY <1>1, <1>2, <1>3, EmptyRecordAgrees, PTL DEF Spec, Store!KeepsTheRecord, Store!Promise!Spec

\* The counter, the lists of the levels and the versions of the premises agree with
\* the one order of the writes of every process.
THEOREM ProcessesAgreeOnTheRecord == Spec => []Store!RecordAgrees
<1>1. RecordInv => Store!RecordAgrees
  BY DEF RecordInv, Board!RecordAgrees, Store!RecordAgrees, Board!Range, Store!Range,
         Board!Cardinality, Store!Cardinality
<1>2. RecordInv /\ [Next]_vars => RecordInv'
  BY ProcessesKeepRecord
<1> QED
  BY <1>1, <1>2, EmptyRecordAgrees, PTL DEF Spec

-----------------------------------------------------------------------------
(* What the store promises of a run, kept by the processes together.       *)

\* No process has read past the counter, and no delivery tells beyond it: what is
\* marked when it arrives leaves the rows of later writes alone.
Within ==
  /\ \A c \in Controls : last[c] <= sequence
  /\ \A d \in flight : d.note.to <= sequence

LEMMA WithinRises ==
  ASSUME TypeInv, Within, sequence' \in Nat, sequence <= sequence',
         NEW end \in Nat, end <= sequence',
         \A x \in Controls : last'[x] \in {last[x], end, 0},
         \A d \in flight' : d \in flight \/ d.note.to = end
  PROVE  Within'
<1>1. /\ sequence \in Nat /\ \A x \in Controls : last[x] \in Nat
      /\ \A d \in flight : d.note.to \in Nat
  BY DEF TypeInv, TypeOK, Store!TypeOK, Delivery, Notification
<1>2. ASSUME NEW x \in Controls PROVE last'[x] <= sequence'
  <2>1. last[x] <= sequence'
    BY <1>1 DEF Within
  <2> QED
    BY <2>1
<1>3. ASSUME NEW d \in flight' PROVE d.note.to <= sequence'
  BY <1>1 DEF Within
<1> QED
  BY <1>2, <1>3 DEF Within

\* What a dispatch queues tells as far as the dispatch does.
LEMMA DeliveriesReach ==
  ASSUME NEW c, NEW known, NEW pending, NEW end, NEW d \in Deliveries(c, known, pending, end)
  PROVE  d.note.to = end
  BY DEF Deliveries, Note

LEMMA WithinStep == TypeInv /\ Within /\ [Next]_vars => Within'
<1> SUFFICES ASSUME TypeInv, Within, [Next]_vars PROVE Within'
  OBVIOUS
<1>1. /\ sequence \in Nat /\ last \in [Controls -> Nat] /\ 0 \in Nat /\ 0 <= sequence
      /\ sequence <= sequence /\ \A x \in Controls : last[x] <= sequence /\ last[x] \in Nat
      /\ \A d \in flight : d.note.to <= sequence /\ d.note.to \in Nat
  BY DEF TypeInv, TypeOK, Store!TypeOK, Delivery, Notification, Within
\* Steps that leave the counter, and read and queue nothing.
<1>2. ASSUME sequence' = sequence, flight' \subseteq flight,
             last' = last \/ \E c \in Controls : last' = [last EXCEPT ![c] = 0]
      PROVE  Within'
  BY <1>1, <1>2, WithinRises
<1>3. ASSUME NEW o, NEW u, Store!CloseRun(o, u) PROVE sequence' = sequence
  BY <1>3 DEF Store!CloseRun, Store!recordVars
<1>4. ASSUME NEW a, NEW n, Store!MarkSent(a, n) \/ Store!Acknowledge(a, n)
      PROVE  sequence' = sequence
  BY <1>4 DEF Store!MarkSent, Store!Acknowledge, Store!recordVars
<1>5. UnchangedStore \/ UnchangedRecord => sequence' = sequence
  BY DEF UnchangedStore, UnchangedRecord, storeVars
<1>6. ASSUME NEW c \in Controls, Create(c) PROVE Within'
  <2>1. sequence' = sequence /\ flight' = flight /\ last' = [last EXCEPT ![c] = sequence]
    BY <1>6 DEF Create
  <2> QED
    BY <1>1, <2>1, WithinRises
<1>7. ASSUME NEW c \in Controls,
             SequenceWrite(c) \/ \E p \in Premises : OpenPremise(c, p)
      PROVE  Within'
  <2>1. sequence' = sequence + 1
    BY <1>7, ProcessWrites, WriteType, StoreInvIs
  <2>2. flight' = flight /\ last' = [last EXCEPT ![c] = sequence + 1]
    BY <1>7 DEF SequenceWrite, OpenPremise
  <2>3. sequence' \in Nat /\ sequence <= sequence' /\ sequence + 1 \in Nat
    BY <1>1, <2>1
  <2> QED
    BY <1>1, <2>1, <2>2, <2>3, WithinRises
<1>8. ASSUME NEW c \in Controls,
             \/ ReadStanding(c) \/ Created(c) \/ \E p \in Premises : CreationFails(c, p)
      PROVE  Within'
  BY <1>2, <1>3, <1>5, <1>8 DEF ReadStanding, Created, CreationFails, localVars
<1>9. ASSUME NEW c \in Controls, Closing(c) PROVE Within'
  <2>1. ASSUME NEW as, BeginClose(c, as) PROVE Within'
    BY <1>2, <1>5, <2>1 DEF BeginClose, localVars
  <2>2. IdleSettles(c) \/ WallClockExpires(c) \/ Abort(c) \/ PredicateComplete(c) => Within'
    BY <2>1 DEF IdleSettles, WallClockExpires, Abort, PredicateComplete
  <2>3. Close(c) => Within'
    BY <1>2, <1>3, <1>5 DEF Close, Closed
  <2>4. AskPredicate(c) \/ PredicateContinues(c) \/ AdoptClosure(c) => Within'
    BY <1>2, <1>5 DEF AskPredicate, PredicateContinues, AdoptClosure, Closed
  <2> QED
    BY <1>9, <2>2, <2>3, <2>4 DEF Closing
<1>10. ASSUME NEW c \in Controls, Crash(c) PROVE Within'
  BY <1>2, <1>5, <1>10 DEF Crash
<1>11. ASSUME NEW c \in Controls, NoteWrite(c) PROVE Within'
  <2> DEFINE w == pc[c]
             end == last[c]
             known == held[c]
             owed == {a \in w.hearers \ DOMAIN known :
                        c \in Reaching /\ w.declared[a] = "address" /\ end > w.acked[a]}
             page == Page(Min({w.acked[a] : a \in owed} \cup {sequence}))
             named == [a \in owed |-> RegionsOf({i \in page \cap Wakes(a) : i > w.acked[a]})]
             reached == {a \in owed : named[a] # {}}
             pending == [a \in DOMAIN known |->
                           IF a # w.writer THEN {w.region} \cap Wants[a] ELSE {}]
             queued == {[control |-> c, stage |-> "queued",
                         note |-> Note(a, w.acked[a], end, named[a])] : a \in reached}
  <2>1. flight' = flight \cup Deliveries(c, known, pending, end) \cup queued
    BY <1>11 DEF NoteWrite
  <2>2. sequence' = sequence /\ last' = last
    BY <1>5, <1>11 DEF NoteWrite
  <2> HIDE DEF named, reached, pending
  <2>3. \A d \in queued : d.note.to = end
    BY DEF Note
  <2> HIDE DEF queued, known
  <2>4. \A d \in flight' : d \in flight \/ d.note.to = end
    BY <2>1, <2>3, DeliveriesReach
  <2>5. end \in Nat /\ end <= sequence'
    BY <1>1, <2>2
  <2> HIDE DEF end
  <2> QED
    BY <1>1, <2>2, <2>4, <2>5, WithinRises
<1>12. ASSUME NEW c \in Controls,
              \/ \E r \in Region, w \in Writers \ {NoWriter} : BeginWrite(c, r, w)
              \/ RefuseWrite(c) \/ CheckCompletion(c)
       PROVE  Within'
  BY <1>2, <1>5, <1>12 DEF BeginWrite, RefuseWrite, CheckCompletion, localVars
<1>13. ASSUME NEW c \in Controls, NEW considered, NEW resending,
              TakeTail(c, considered, resending)
       PROVE  Within'
  <2> DEFINE page == Page(Min({held[c][a].acked : a \in considered}))
             end == Max({last[c]} \cup page)
  <2>1. end \in Nat /\ end <= sequence
    BY <1>1, EndOfPage
  <2>2. /\ sequence' = sequence /\ last' = [last EXCEPT ![c] = end]
        /\ \A d \in flight' : d \in flight \/ d.note.to = end
    BY <1>5, <1>13, DeliveriesReach DEF TakeTail
  <2> HIDE DEF end
  <2> QED
    BY <1>1, <2>1, <2>2, WithinRises
<1>14. ASSUME NEW c \in Controls, NEW a \in Agents, RelayByAddress(c, a) PROVE Within'
  <2> DEFINE end == Max({0} \cup Page(0))
  <2>1. end \in Nat /\ end <= sequence
    BY <1>1, EndOfPage
  <2>2. sequence' = sequence /\ last' = last
    BY <1>4, <1>5, <1>14 DEF RelayByAddress, localVars
  <2> DEFINE named == RegionsOf({i \in Page(0) \cap Wakes(a) : i > acked[a]})
             d == [control |-> c, stage |-> "queued", note |-> Note(a, acked[a], end, named)]
  <2>3. flight' = flight \/ flight' = flight \cup {d}
    BY <1>14 DEF RelayByAddress
  <2> HIDE DEF end, named
  <2>4. d.note.to = end
    BY DEF Note
  <2> HIDE DEF d
  <2>5. \A e \in flight' : e \in flight \/ e.note.to = end
    BY <2>3, <2>4
  <2> QED
    BY <1>1, <2>1, <2>2, <2>5, WithinRises
<1>15. ASSUME NEW c \in Controls, NEW a \in Agents, NEW by \in Declarations,
              Register(c, a, by)
       PROVE  Within'
  <2>1. /\ sequence' = sequence /\ last' = last
        /\ \A d \in flight' : d \in flight \/ d.note.to = last[c]
    BY <1>5, <1>15, DeliveriesReach DEF Register
  <2> QED
    BY <1>1, <2>1, WithinRises
<1>16. ASSUME NEW d \in flight, Deliver(d) PROVE Within'
  <2>1. /\ sequence' = sequence /\ last' = last
        /\ \A e \in flight' : e \in flight \/ e.note.to = d.note.to
    <3>1. d \in Delivery
      BY DEF TypeInv, TypeOK
    <3>2. [d EXCEPT !.stage = "sent"].note = d.note
      BY <3>1 DEF Delivery
    <3> QED
      BY <1>5, <1>16, <3>2 DEF Deliver, localVars
  <2> QED
    BY <1>1, <2>1, WithinRises
<1>17. ASSUME NEW d \in flight, DeliveryFails(d) \/ MarkDelivered(d) PROVE Within'
  BY <1>2, <1>4, <1>5, <1>17 DEF DeliveryFails, MarkDelivered, localVars
<1>18. CASE Answering
  BY <1>2, <1>4, <1>5, <1>18 DEF Answering, Ack, NoteAnswer, localVars
<1>19. CASE SweepReads \/ SweepCloses \/ Tick
  <2>1. Store!Tick => sequence' = sequence
    BY DEF Store!Tick, Store!recordVars
  <2> QED
    BY <1>2, <1>3, <1>5, <1>19, <2>1 DEF SweepReads, SweepCloses, Tick, localVars
<1>20. CASE UNCHANGED vars
  BY <1>2, <1>20 DEF vars, storeVars, localVars
<1>21. \A c \in Controls : Creating(c) \/ Writing(c) \/ Waking(c) \/ Registering(c) => Within'
  BY <1>6, <1>7, <1>8, <1>11, <1>12, <1>13, <1>14, <1>15
  DEF Creating, Writing, Waking, NotifyDue, RelayRoster, Registering
<1> QED
  BY <1>9, <1>10, <1>16, <1>17, <1>18, <1>19, <1>20, <1>21 DEF Next, Delivering

\* Of the outbox a process can only do what the store does of its own: record with a
\* write, mark as sent no further than the counter, and clear in closing.
LEMMA ProcessesOnlySend ==
  ASSUME TypeInv, Within, [Next]_vars
  PROVE  \/ \E c \in Controls : SequenceWrite(c) \/ \E p \in Premises : OpenPremise(c, p)
         \/ \E o, u : Store!CloseRun(o, u)
         \/ \E a \in Agents, n \in Nat : n <= sequence /\ Store!MarkSent(a, n)
         \/ UNCHANGED <<sequence, changes, outbox, sent, cleared>>
<1> DEFINE Closes == \E o, u : Store!CloseRun(o, u)
           Sends == \E a \in Agents, n \in Nat : n <= sequence /\ Store!MarkSent(a, n)
           Same == UNCHANGED <<sequence, changes, outbox, sent, cleared>>
<1>1. UnchangedStore \/ (UnchangedRecord /\ UnchangedOutbox) => Same
  BY DEF UnchangedStore, UnchangedRecord, UnchangedOutbox, storeVars
<1>2. ASSUME NEW c \in Controls,
             \/ Create(c) \/ ReadStanding(c) \/ Created(c)
             \/ \E p \in Premises : CreationFails(c, p)
      PROVE  Closes \/ Same
  <2>1. Create(c) => Same
    BY DEF Create, UnchangedOutbox
  <2> QED
    BY <1>1, <1>2, <2>1 DEF ReadStanding, Created, CreationFails
<1>3. ASSUME NEW c \in Controls, Closing(c) \/ Crash(c) PROVE Closes \/ Same
  <2>1. ASSUME NEW as, BeginClose(c, as) PROVE Same
    BY <1>1, <2>1 DEF BeginClose
  <2>2. IdleSettles(c) \/ WallClockExpires(c) \/ Abort(c) \/ PredicateComplete(c) => Same
    BY <2>1 DEF IdleSettles, WallClockExpires, Abort, PredicateComplete
  <2>3. Close(c) => Closes \/ Same
    BY <1>1 DEF Close
  <2>4. AskPredicate(c) \/ PredicateContinues(c) \/ AdoptClosure(c) \/ Crash(c) => Same
    BY <1>1 DEF AskPredicate, PredicateContinues, AdoptClosure, Crash
  <2> QED
    BY <1>3, <2>2, <2>3, <2>4 DEF Closing
<1>4. ASSUME NEW c \in Controls, Writing(c) PROVE SequenceWrite(c) \/ Same
  BY <1>1, <1>4 DEF Writing, BeginWrite, RefuseWrite, NoteWrite, CheckCompletion
<1>5. ASSUME NEW c \in Controls, NEW a \in Agents, RelayByAddress(c, a) PROVE Sends \/ Same
  <2>1. Max(outbox[a]) \in Nat /\ Max(outbox[a]) <= sequence
    <3>1. outbox[a] \in SUBSET Nat /\ outbox[a] # {} /\ sequence \in Nat
      BY <1>5 DEF RelayByAddress, TypeInv, TypeOK, Store!TypeOK
    <3>2. \A x \in outbox[a] : x <= sequence
      BY DEF TypeInv, Bounded
    <3> QED
      BY <3>1, <3>2, MaxIsMember
  <2>2. Store!MarkSent(a, Max(outbox[a])) \/ Same
    BY <1>1, <1>5 DEF RelayByAddress
  <2> QED
    BY <2>1, <2>2
<1>6. ASSUME NEW c \in Controls, Waking(c) \/ Registering(c) PROVE Sends \/ Same
  <2>1. \A considered, resending : TakeTail(c, considered, resending) => Same
    BY <1>1 DEF TakeTail
  <2>2. NotifyDue(c) \/ RelayRoster(c) => Same
    BY <2>1 DEF NotifyDue, RelayRoster
  <2>3. Registering(c) => Same
    BY <1>1 DEF Registering, Register
  <2> QED
    BY <1>5, <1>6, <2>2, <2>3 DEF Waking
<1>7. ASSUME Delivering PROVE Sends \/ Same
  <2>1. \A d \in flight : Deliver(d) \/ DeliveryFails(d) => Same
    BY <1>1 DEF Deliver, DeliveryFails
  <2>2. \A d \in flight : MarkDelivered(d) => Store!MarkSent(d.note.agent, d.note.to)
    BY DEF MarkDelivered
  <2>3. \A d \in flight : /\ d.note.agent \in Agents /\ d.note.to \in Nat
                          /\ d.note.to <= sequence
    BY DEF TypeInv, TypeOK, Delivery, Notification, Within
  <2> QED
    BY <1>7, <2>1, <2>2, <2>3 DEF Delivering
<1>8. Answering => Same
  <2>1. \A a, n : Store!Acknowledge(a, n) => Same
    BY DEF Store!Acknowledge, Store!recordVars, Store!outboxVars
  <2>2. \A c, a, n : Ack(c, a, n) => Same
    BY <2>1 DEF Ack
  <2>3. \A k : NoteAnswer(k) => Same
    BY <1>1 DEF NoteAnswer
  <2> QED
    BY <2>2, <2>3 DEF Answering
<1>9. SweepReads \/ SweepCloses => Closes \/ Same
  BY <1>1 DEF SweepReads, SweepCloses
<1>10. Tick => Same
  BY DEF Tick, Store!Tick, Store!recordVars, Store!outboxVars
<1>11. UNCHANGED vars => Same
  BY DEF vars, storeVars
<1> HIDE DEF Same, Sends, Closes
<1>12. \A c \in Controls : Creating(c) =>
         \/ \E p \in Premises : OpenPremise(c, p)
         \/ Closes \/ Same
  BY <1>2 DEF Creating
<1>13. \/ \E c \in Controls : SequenceWrite(c) \/ \E p \in Premises : OpenPremise(c, p)
       \/ Closes \/ Sends \/ Same
  BY <1>3, <1>4, <1>6, <1>7, <1>8, <1>9, <1>10, <1>11, <1>12 DEF Next
<1> QED
  BY <1>13 DEF Same, Sends, Closes

\* Marking as far as nothing leaves the outbox as it is.
LEMMA SendKeepsIntent ==
  ASSUME TypeInv, Board!OutboxInv, NEW a \in Agents, NEW n \in Nat, n <= sequence,
         Store!MarkSent(a, n)
  PROVE  Board!OutboxInv'
<1>1. Board!TypeOK /\ sequence \in Nat
  BY BoardTypes DEF TypeInv, TypeOK, Store!TypeOK
<1>2. CASE n = 0
  <2>1. /\ outbox \in [Agents -> SUBSET Nat] /\ sent \in [Agents -> Nat]
        /\ DOMAIN changes = 1..Len(changes)
    BY DEF TypeInv, TypeOK, Store!TypeOK
  <2>2. \A i \in outbox[a] : i > 0
    BY <2>1 DEF Board!OutboxInv, Board!OutboxKeepsIntent
  <2>3. {i \in outbox[a] : i > 0} = outbox[a]
    BY <2>2
  <2>4. Store!Maximum(sent[a], 0) = sent[a]
    BY <2>1 DEF Store!Maximum
  <2>5. outbox' = outbox /\ sent' = sent
    BY <1>2, <2>1, <2>3, <2>4 DEF Store!MarkSent
  <2>6. UNCHANGED <<sequence, changes, cleared>>
    BY DEF Store!MarkSent, Store!recordVars
  <2> QED
    BY <2>5, <2>6 DEF Board!OutboxInv, Board!OutboxKeepsIntent
<1>3. CASE n # 0
  <2>1. n \in 1..sequence
    BY <1>1, <1>3
  <2>2. Board!MarkSent(a, n)
    BY DEF Store!MarkSent, Board!MarkSent, Store!Maximum, Board!Maximum, Store!recordVars,
           Board!recordVars, Store!runVars, Board!runVars, Store!agentVars, Board!agentVars
  <2>3. Board!Next
    BY <2>1, <2>2 DEF Board!Next
  <2> QED
    BY <1>1, <2>3, BoardAssumptions, Board!OutboxStep DEF Board!OutboxStep
<1> QED
  BY <1>2, <1>3

IntentInv == RecordInv /\ Within /\ Board!OutboxInv

LEMMA IntentStep == IntentInv /\ [Next]_vars => IntentInv'
<1> SUFFICES ASSUME IntentInv, [Next]_vars PROVE IntentInv'
  OBVIOUS
<1>1. RecordInv' /\ Within'
  BY ProcessesKeepRecord, WithinStep DEF IntentInv, RecordInv
<1>2. ASSUME NEW c \in Controls,
             SequenceWrite(c) \/ \E p \in Premises : OpenPremise(c, p)
      PROVE  Board!OutboxInv'
  BY <1>2, ProcessWrites, ProcessWritesKeepRecord DEF IntentInv, RecordInv
<1>3. ASSUME NEW o, NEW u, Store!CloseRun(o, u) PROVE Board!OutboxInv'
  <2>1. sequence \in Nat
    BY DEF IntentInv, RecordInv, TypeInv, TypeOK, Store!TypeOK
  <2>2. /\ outbox' = [x \in Agents |-> {}] /\ cleared' = sequence
        /\ UNCHANGED <<sequence, changes, sent>>
    BY <1>3 DEF Store!CloseRun, Store!recordVars
  <2>3. Len(changes) = sequence /\ \A x \in Agents : sent[x] <= sequence
    BY DEF IntentInv, Board!OutboxInv
  <2>4. \A i \in DOMAIN changes : ~ i > sequence
    <3>1. DOMAIN changes = 1..sequence
      BY <2>3 DEF IntentInv, RecordInv, TypeInv, TypeOK, Store!TypeOK
    <3> QED
      BY <2>1, <3>1
  <2> QED
    BY <2>1, <2>2, <2>3, <2>4 DEF Board!OutboxInv, Board!OutboxKeepsIntent
<1>4. ASSUME NEW a \in Agents, NEW n \in Nat, n <= sequence, Store!MarkSent(a, n)
      PROVE  Board!OutboxInv'
  BY <1>4, SendKeepsIntent DEF IntentInv, RecordInv
<1>5. ASSUME UNCHANGED <<sequence, changes, outbox, sent, cleared>> PROVE Board!OutboxInv'
  BY <1>5 DEF IntentInv, Board!OutboxInv, Board!OutboxKeepsIntent
<1>6. Board!OutboxInv'
  BY <1>2, <1>3, <1>4, <1>5, ProcessesOnlySend DEF IntentInv, RecordInv
<1> QED
  BY <1>1, <1>6 DEF IntentInv

\* Over every process that writes, relays, delivers, sweeps and crashes, the outbox
\* holds exactly what a write recorded and no mark or closing has passed: a mark made
\* late, for an old delivery, takes no row of a write that came after it.
THEOREM ProcessesKeepIntent == Spec => []Store!OutboxKeepsIntent
<1>1. Init => IntentInv
  <2> SUFFICES ASSUME Init PROVE IntentInv
    OBVIOUS
  <2>1. Within
    BY DEF Init, Store!Init, Store!EmptyRecord, Within
  <2>2. Board!OutboxInv
    BY DEF Init, Store!Init, Store!EmptyRecord, Board!OutboxInv, Board!OutboxKeepsIntent
  <2> QED
    BY <2>1, <2>2, EmptyRecordAgrees DEF IntentInv
<1>2. IntentInv => Store!OutboxKeepsIntent
  BY DEF IntentInv, Board!OutboxInv, Board!OutboxKeepsIntent, Store!OutboxKeepsIntent
<1> QED
  BY <1>1, <1>2, IntentStep, PTL DEF Spec

\* A telling makes a row for whom it tells, and lowers no column.
LEMMA TellingKeepsAnswers ==
  ASSUME TypeInv, Store!AckedWithinNotified, NEW told, NEW end \in Nat,
         roster \cup told \subseteq roster', notified' = Store!NotifiedThrough(told, end),
         acked' = acked
  PROVE  Store!AckedWithinNotified'
<1>1. notified \in [Agents -> Nat] /\ acked \in [Agents -> Nat]
  BY DEF TypeInv, TypeOK, Store!TypeOK
<1>2. \A a \in Agents : notified'[a] = IF a \in told THEN Store!Maximum(notified[a], end)
                                                     ELSE notified[a]
  BY DEF Store!NotifiedThrough
<1>3. \A a \in Agents : notified[a] <= notified'[a]
  BY <1>1, <1>2 DEF Store!Maximum
<1>4. ASSUME NEW a \in Agents PROVE acked'[a] <= notified'[a]
  <2>1. acked[a] <= notified[a] /\ notified'[a] \in Nat
    BY <1>1, <1>2 DEF Store!AckedWithinNotified, Store!Maximum
  <2> QED
    BY <1>1, <1>3, <2>1
<1>5. ASSUME NEW a \in Agents, a \notin roster' PROVE notified'[a] = 0
  BY <1>2, <1>5 DEF Store!AckedWithinNotified
<1> QED
  BY <1>4, <1>5 DEF Store!AckedWithinNotified

\* What any step makes of the agents' rows: nothing, a telling, an answer, or the
\* end of them all.
Telling(told, end) ==
  /\ roster \cup told \subseteq roster'
  /\ notified' = Store!NotifiedThrough(told, end)
  /\ acked' = acked

ProgressMoves ==
  \/ UNCHANGED <<roster, notified, acked>>
  \/ Store!ForgetProgress
  \/ \E told : \E end \in Nat : Telling(told, end)
  \/ \E a \in Agents, n \in Nat : Store!Acknowledge(a, n)

LEMMA ProcessesOnlyTell == TypeInv /\ [Next]_vars => ProgressMoves
<1> DEFINE Same == UNCHANGED <<roster, notified, acked>>
<1> SUFFICES ASSUME TypeInv, [Next]_vars PROVE ProgressMoves
  OBVIOUS
<1>1. Same => ProgressMoves
  BY DEF ProgressMoves
<1>2. UnchangedStore \/ UnchangedProgress => Same
  BY DEF UnchangedStore, UnchangedProgress, storeVars
<1>3. ASSUME NEW o, NEW u, Store!CloseRun(o, u) PROVE ProgressMoves
  BY <1>3 DEF Store!CloseRun, ProgressMoves
<1>4. ASSUME NEW a \in Agents, NEW n \in Nat, Store!Acknowledge(a, n) PROVE ProgressMoves
  BY <1>4 DEF ProgressMoves
<1>5. ASSUME NEW a, NEW n, Store!MarkSent(a, n) PROVE ProgressMoves
  BY <1>1, <1>5 DEF Store!MarkSent, Store!agentVars
<1>6. ASSUME NEW r, NEW w, NEW v, NEW h,
             Store!AppendTo(r, w, NoKey, h) \/ Store!Set(r, v, w, NoKey, h)
      PROVE  ProgressMoves
  BY <1>1, <1>6 DEF Store!AppendTo, Store!Set, Store!Record, Store!agentVars
<1>7. ASSUME NEW c \in Controls, Creating(c) PROVE ProgressMoves
  <2>1. Create(c) \/ ReadStanding(c) \/ Created(c) => ProgressMoves
    BY <1>1, <1>2 DEF Create, ReadStanding, Created
  <2>2. ASSUME NEW p \in Premises, OpenPremise(c, p) \/ CreationFails(c, p) PROVE ProgressMoves
    BY <1>1, <1>2, <1>3, <1>6, <2>2 DEF OpenPremise, CreationFails
  <2> QED
    BY <1>7, <2>1, <2>2 DEF Creating
<1>8. ASSUME NEW c \in Controls, Closing(c) \/ Crash(c) PROVE ProgressMoves
  <2>1. ASSUME NEW as, BeginClose(c, as) PROVE ProgressMoves
    BY <1>1, <1>2, <2>1 DEF BeginClose
  <2>2. IdleSettles(c) \/ WallClockExpires(c) \/ Abort(c) \/ PredicateComplete(c) => ProgressMoves
    BY <2>1 DEF IdleSettles, WallClockExpires, Abort, PredicateComplete
  <2>3. Close(c) => ProgressMoves
    BY <1>1, <1>2, <1>3 DEF Close
  <2>4. AskPredicate(c) \/ PredicateContinues(c) \/ AdoptClosure(c) \/ Crash(c) => ProgressMoves
    BY <1>1, <1>2 DEF AskPredicate, PredicateContinues, AdoptClosure, Crash
  <2> QED
    BY <1>8, <2>2, <2>3, <2>4 DEF Closing
<1>9. ASSUME NEW told, NEW end \in Nat, MarkNotified(told, end), acked' = acked PROVE ProgressMoves
  <2>1. roster \cup told \subseteq roster' /\ notified' = Store!NotifiedThrough(told, end)
    BY <1>9 DEF MarkNotified
  <2> QED
    BY <1>9, <2>1 DEF ProgressMoves, Telling
<1>10. ASSUME NEW c \in Controls, Writing(c) PROVE ProgressMoves
  <2>1. RefuseWrite(c) \/ CheckCompletion(c) => ProgressMoves
    BY <1>1, <1>2 DEF BeginWrite, RefuseWrite, CheckCompletion
  <2>2. \A r, w : BeginWrite(c, r, w) => ProgressMoves
    BY <1>1, <1>2 DEF BeginWrite
  <2>3. SequenceWrite(c) => ProgressMoves
    BY <1>6 DEF SequenceWrite
  <2>4. ASSUME NoteWrite(c) PROVE ProgressMoves
    <3>1. last[c] \in Nat /\ acked' = acked
      BY <2>4 DEF NoteWrite, TypeInv, TypeOK
    <3>2. \E told : MarkNotified(told, last[c])
      BY <2>4 DEF NoteWrite
    <3> QED
      BY <1>9, <3>1, <3>2
  <2> QED
    BY <1>10, <2>1, <2>2, <2>3, <2>4 DEF Writing
<1>11. ASSUME NEW c \in Controls, Waking(c) PROVE ProgressMoves
  <2>1. ASSUME NEW considered, NEW resending, TakeTail(c, considered, resending) PROVE ProgressMoves
    <3> DEFINE end == Max({last[c]} \cup Page(Min({held[c][a].acked : a \in considered})))
    <3>1. end \in Nat /\ acked' = acked
      <4>1. last[c] \in Nat
        BY DEF TypeInv, TypeOK
      <4> QED
        BY <2>1, <4>1, EndOfPage DEF TakeTail
    <3>2. \E told : MarkNotified(told, end)
      BY <2>1 DEF TakeTail
    <3> HIDE DEF end
    <3> QED
      BY <1>9, <3>1, <3>2
  <2>2. ASSUME NEW a \in Agents, RelayByAddress(c, a) PROVE ProgressMoves
    <3> DEFINE end == Max({0} \cup Page(0))
    <3>1. end \in Nat
      BY EndOfPage
    <3>2. \/ Store!MarkSent(a, Max(outbox[a]))
          \/ MarkNotified({a}, end) /\ acked' = acked
      BY <2>2 DEF RelayByAddress
    <3> HIDE DEF end
    <3> QED
      BY <1>5, <1>9, <3>1, <3>2
  <2> QED
    BY <1>11, <2>1, <2>2 DEF Waking, NotifyDue, RelayRoster
<1>12. ASSUME NEW c \in Controls, Registering(c) PROVE ProgressMoves
  <2> SUFFICES ASSUME NEW a \in Agents, NEW by \in Declarations, Register(c, a, by) PROVE ProgressMoves
    BY <1>12 DEF Registering
  <2> DEFINE known == [x \in {a} \cup DOMAIN held[c] |->
                         IF x = a THEN [by |-> by, notified |-> acked[a], acked |-> acked[a]]
                         ELSE held[c][x]]
             filled == {l \in Levels : levels[l] # <<>>} \cup {p \in Premises : premises[p] > 0}
             pending == [x \in DOMAIN known |-> IF x = a THEN Wants[a] \cap filled ELSE {}]
             woken == Woken(c, known, pending, last[c])
  <2>1. /\ roster' = roster \cup {a} /\ notified' = Store!NotifiedThrough(woken, last[c])
        /\ acked' = acked
    BY DEF Register
  <2>2. woken \subseteq {a}
    <3> HIDE DEF filled
    <3>1. ASSUME NEW x \in woken PROVE x = a
      <4>1. x \in DOMAIN known /\ pending[x] # {}
        BY DEF Woken
      <4> QED
        BY <4>1
    <3> QED
      BY <3>1
  <2>3. last[c] \in Nat
    BY DEF TypeInv, TypeOK
  <2> HIDE DEF woken
  <2> QED
    BY <2>1, <2>2, <2>3 DEF ProgressMoves, Telling
<1>13. CASE Answering
  <2>1. ASSUME NEW c \in Controls, NEW a \in Agents, NEW n \in received[a], Ack(c, a, n.to)
        PROVE  ProgressMoves
    <3>1. n.to \in Nat
      BY DEF TypeInv, TypeOK, Notification
    <3> QED
      BY <1>4, <2>1, <3>1 DEF Ack
  <2>2. \A k : NoteAnswer(k) => ProgressMoves
    BY <1>1, <1>2 DEF NoteAnswer
  <2> QED
    BY <1>13, <2>1, <2>2 DEF Answering
<1>14. CASE Delivering
  BY <1>1, <1>2, <1>5, <1>14 DEF Delivering, Deliver, DeliveryFails, MarkDelivered
<1>15. CASE SweepReads \/ SweepCloses \/ Tick \/ UNCHANGED vars
  <2>1. Tick => Same
    BY DEF Tick, Store!Tick, Store!agentVars
  <2>2. UNCHANGED vars => Same
    BY DEF vars, storeVars
  <2>3. SweepReads \/ SweepCloses => ProgressMoves
    BY <1>1, <1>2, <1>3 DEF SweepReads, SweepCloses
  <2> QED
    BY <1>1, <1>15, <2>1, <2>2, <2>3
<1> QED
  BY <1>7, <1>8, <1>10, <1>11, <1>12, <1>13, <1>14, <1>15 DEF Next

\* No telling and no answer puts an answer past what was told.
LEMMA AnswersStep ==
  TypeInv /\ Store!AckedWithinNotified /\ [Next]_vars => Store!AckedWithinNotified'
<1> SUFFICES ASSUME TypeInv, Store!AckedWithinNotified, [Next]_vars
             PROVE  Store!AckedWithinNotified'
  OBVIOUS
<1>1. CASE UNCHANGED <<roster, notified, acked>>
  BY <1>1 DEF Store!AckedWithinNotified
<1>2. CASE Store!ForgetProgress
  BY <1>2 DEF Store!ForgetProgress, Store!AckedWithinNotified
<1>3. ASSUME NEW told, NEW end \in Nat, Telling(told, end) PROVE Store!AckedWithinNotified'
  BY <1>3, TellingKeepsAnswers DEF Telling
<1>4. ASSUME NEW a \in Agents, NEW n \in Nat, Store!Acknowledge(a, n)
      PROVE  Store!AckedWithinNotified'
  <2>1. /\ notified \in [Agents -> Nat] /\ acked \in [Agents -> Nat] /\ n <= notified[a]
        /\ acked' = [acked EXCEPT ![a] = Store!Maximum(acked[a], n)]
        /\ UNCHANGED <<roster, notified>>
    BY <1>4 DEF Store!Acknowledge, Store!Acknowledgeable, TypeInv, TypeOK, Store!TypeOK
  <2>2. ASSUME NEW x \in Agents PROVE acked'[x] <= notified'[x]
    BY <2>1 DEF Store!AckedWithinNotified, Store!Maximum
  <2> QED
    BY <2>1, <2>2 DEF Store!AckedWithinNotified
<1> QED
  BY <1>1, <1>2, <1>3, <1>4, ProcessesOnlyTell DEF ProgressMoves

\* In whatever order the processes register, tell, relay and close, no agent has
\* answered past what some process told the store it was telling it.
THEOREM ProcessesTellBeforeAnswers == Spec => []Store!AckedWithinNotified
<1>1. Init => Store!AckedWithinNotified
  BY DEF Init, Store!Init, Store!NoProgress, Store!AckedWithinNotified
<1> QED
  BY <1>1, TypeInit, TypeStep, AnswersStep, PTL DEF Spec

LEMMA ProgressStep ==
  ASSUME TypeInv, [Next]_vars, NEW a \in roster \cap roster'
  PROVE  notified'[a] >= notified[a] /\ acked'[a] >= acked[a]
<1>1. /\ a \in Agents /\ notified \in [Agents -> Nat] /\ acked \in [Agents -> Nat]
  BY DEF TypeInv, TypeOK, Store!TypeOK
<1>2. ASSUME NEW told, NEW end \in Nat, Telling(told, end)
      PROVE  notified'[a] >= notified[a] /\ acked'[a] >= acked[a]
  <2>1. notified' = Store!NotifiedThrough(told, end) /\ acked' = acked
    BY <1>2 DEF Telling
  <2>2. notified'[a] = notified[a] \/ notified'[a] = Store!Maximum(notified[a], end)
    BY <1>1, <2>1 DEF Store!NotifiedThrough
  <2> QED
    BY <1>1, <2>1, <2>2 DEF Store!Maximum
<1>3. ASSUME NEW x \in Agents, NEW n \in Nat, Store!Acknowledge(x, n)
      PROVE  notified'[a] >= notified[a] /\ acked'[a] >= acked[a]
  <2>1. notified' = notified /\ acked' = [acked EXCEPT ![x] = Store!Maximum(acked[x], n)]
    BY <1>3 DEF Store!Acknowledge
  <2> QED
    BY <1>1, <2>1 DEF Store!Maximum
<1>4. ~ Store!ForgetProgress
  BY DEF Store!ForgetProgress
<1> QED
  BY <1>1, <1>2, <1>3, <1>4, ProcessesOnlyTell DEF ProgressMoves

\* The columns of a row only rise while the row lives, though any process may raise
\* them, late, from what it read before another one did.
THEOREM ProcessesRaiseProgress == Spec => Store!ProgressOnlyRises
<1>1. TypeInv /\ [Next]_vars =>
        [\A a \in roster \cap roster' : /\ notified'[a] >= notified[a]
                                      /\ acked'[a] >= acked[a]]_(Store!vars)
  BY ProgressStep
<1> QED
  BY <1>1, TypeInit, TypeStep, PTL DEF Spec, Store!ProgressOnlyRises

\* A closed run is only ever opened again.
LEMMA ClosedOutcomeStep ==
  ASSUME [Next]_vars, run.state \in Store!Outcomes
  PROVE  run' = run \/ (run'.state = "open" /\ run'.unfinished = {})
<1> DEFINE Stands == run' = run \/ (run'.state = "open" /\ run'.unfinished = {})
<1>1. run.state # "open"
  BY DEF Store!Outcomes
<1>2. ASSUME UnchangedStore \/ UNCHANGED run PROVE Stands
  BY <1>2 DEF UnchangedStore, storeVars
<1>3. \A o, u : ~ Store!CloseRun(o, u)
  BY <1>1 DEF Store!CloseRun
<1>4. ASSUME NEW c, TouchIdle(c) \/ (\E cond : TouchIdleIf(c, cond)) PROVE Stands
  <2>1. run' = run
    BY <1>1, <1>4 DEF TouchIdle, TouchIdleIf, Store!Touched
  <2> QED
    BY <2>1
<1>5. ASSUME NEW a, NEW n, Store!MarkSent(a, n) \/ Store!Acknowledge(a, n) PROVE Stands
  BY <1>5 DEF Store!MarkSent, Store!Acknowledge, Store!runVars
<1>6. ASSUME NEW r, NEW w, NEW v, NEW h,
             Store!AppendTo(r, w, NoKey, h) \/ Store!Set(r, v, w, NoKey, h)
      PROVE  Stands
  BY <1>6 DEF Store!AppendTo, Store!Set, Store!Record, Store!runVars
<1>7. \A c : Create(c) => Stands
  BY DEF Create
<1> HIDE DEF Stands
<1>8. ASSUME NEW c \in Controls, Creating(c) PROVE Stands
  <2>1. ReadStanding(c) \/ Created(c) => Stands
    BY <1>2 DEF ReadStanding, Created
  <2>2. ASSUME NEW p \in Premises, OpenPremise(c, p) \/ CreationFails(c, p) PROVE Stands
    BY <1>2, <1>3, <1>6, <2>2 DEF OpenPremise, CreationFails
  <2> QED
    BY <1>7, <1>8, <2>1, <2>2 DEF Creating
<1>9. ASSUME NEW c \in Controls, Closing(c) \/ Crash(c) PROVE Stands
  <2>1. ASSUME NEW as, BeginClose(c, as) PROVE Stands
    BY <1>2, <2>1 DEF BeginClose
  <2>2. IdleSettles(c) \/ WallClockExpires(c) \/ Abort(c) \/ PredicateComplete(c) => Stands
    BY <2>1 DEF IdleSettles, WallClockExpires, Abort, PredicateComplete
  <2>3. Close(c) => Stands
    BY <1>1, <1>2 DEF Close
  <2>4. AskPredicate(c) \/ PredicateContinues(c) \/ AdoptClosure(c) \/ Crash(c) => Stands
    BY <1>2, <1>4 DEF AskPredicate, PredicateContinues, AdoptClosure, Crash
  <2> QED
    BY <1>9, <2>2, <2>3, <2>4 DEF Closing
<1>10. ASSUME NEW c \in Controls, Writing(c) PROVE Stands
  <2>1. RefuseWrite(c) \/ (\E r, w : BeginWrite(c, r, w)) => Stands
    BY <1>2 DEF BeginWrite, RefuseWrite
  <2>2. SequenceWrite(c) => Stands
    BY <1>6 DEF SequenceWrite
  <2>3. CheckCompletion(c) => Stands
    BY <1>4 DEF CheckCompletion
  <2>4. NoteWrite(c) => Stands
    BY <1>4 DEF NoteWrite
  <2> QED
    BY <1>10, <2>1, <2>2, <2>3, <2>4 DEF Writing
<1>11. ASSUME NEW c \in Controls, Waking(c) \/ Registering(c) PROVE Stands
  <2>1. \A considered, resending : TakeTail(c, considered, resending) => Stands
    BY <1>4 DEF TakeTail
  <2>2. ASSUME NEW a \in Agents, RelayByAddress(c, a) PROVE Stands
    BY <1>2, <1>5, <2>2 DEF RelayByAddress
  <2>3. \A a, by : Register(c, a, by) => Stands
    BY <1>4 DEF Register
  <2> QED
    BY <1>11, <2>1, <2>2, <2>3 DEF Waking, NotifyDue, RelayRoster, Registering
<1>12. Answering \/ Delivering => Stands
  BY <1>2, <1>5
  DEF Answering, Ack, NoteAnswer, Delivering, Deliver, DeliveryFails, MarkDelivered
<1>13. SweepReads \/ SweepCloses \/ Tick \/ UNCHANGED vars => Stands
  <2>1. Tick => UNCHANGED run
    BY DEF Tick, Store!Tick
  <2>2. UNCHANGED vars => UNCHANGED run
    BY DEF vars, storeVars
  <2>3. SweepReads \/ SweepCloses => Stands
    BY <1>1, <1>2 DEF SweepReads, SweepCloses
  <2> QED
    BY <1>2, <2>1, <2>2, <2>3
<1>14. Stands
  BY <1>8, <1>9, <1>10, <1>11, <1>12, <1>13 DEF Next
<1> QED
  BY <1>14 DEF Stands

\* How a run closed and whom it closed without stand until a process opens it again:
\* no timer, sweep, late write or answer of any process changes them.
THEOREM ProcessesKeepOutcome == Spec => Store!OutcomeStands
<1>1. [Next]_vars =>
        [run.state \in Store!Outcomes =>
           \/ run' = run
           \/ run'.state = "open" /\ run'.unfinished = {}
           \/ run' = Store!NoRun /\ changes' = <<>>]_(Store!vars)
  BY ClosedOutcomeStep
<1> QED
  BY <1>1, PTL DEF Spec, Store!OutcomeStands
=============================================================================
