-------------------------- MODULE BatchWindowProofs --------------------------
(***************************************************************************)
(* Theorems of BatchWindow, for any regions and windows, and any number of *)
(* writes, registrations and instants.                                     *)
(***************************************************************************)
EXTENDS BatchWindow, SequenceTheorems, WellFoundedInduction, TLAPS

\* The timer calls of an agent `a`, given to the clock or begun: none is ahead of
\* the generation, the one of the present generation is the armed one, and what is
\* armed is outstanding.
Arms(a, outstanding) ==
  /\ \A t \in outstanding :
       /\ 0 < t.life /\ t.life <= a.life
       /\ t.life = a.life => t.generation <= a.generation
       /\ t.life = a.life /\ t.generation = a.generation => t = a.armed
  /\ a.armed # Never => /\ a.armed \in outstanding
                        /\ a.armed.life = a.life /\ a.armed.generation = a.generation

\* What is pending has a window armed that closes by the time it is due.
Covered(a, entries) ==
  entries # {} => a.armed # Never /\ \A x \in entries : a.armed.at <= x.due

ArmInv ==
  /\ Arms(agent, timers \cup calls) /\ Covered(agent, pending)
  /\ closed => agent.armed = Never /\ pending = {}

\* A write is on record as told or answered, or is pending no later than it is due.
Kept(i, a, entries) ==
  \/ i <= a.notified \/ i <= a.acked
  \/ \E x \in entries : /\ x.region = changes[i].region
                        /\ x.due <= changes[i].at + Window[x.region]

KeptInv ==
  \A i \in DOMAIN changes :
    /\ changes[i].life <= agent.life
    /\ changes[i].life = agent.life /\ agent.life > 0 =>
         i <= last /\ (~ closed => Kept(i, agent, pending))

IInv == TypeOK /\ ArmInv /\ KeptInv

-----------------------------------------------------------------------------
(* Lemmas about the operators.                                             *)

\* A set of numbers that is not empty has a least one.
LEMMA LeastExists ==
  ASSUME NEW S \in SUBSET Nat, S # {}
  PROVE  \E x \in S : \A y \in S : x <= y
<1>1. PICK x \in S : \A y \in S : ~ (<<y, x>> \in OpToRel(<, Nat))
  BY NatLessThanWellFounded, WFMin
<1>2. \A y \in S : ~ (y < x)
  BY <1>1 DEF OpToRel
<1> QED
  BY <1>2

\* Earlier keeps one entry of each region, due no later than any that was there.
LEMMA EarlierKeeps ==
  ASSUME NEW E \in SUBSET Entry
  PROVE  /\ Earlier(E) \subseteq E
         /\ \A x, y \in Earlier(E) : x.region = y.region => x = y
         /\ \A x \in E : \E y \in Earlier(E) : y.region = x.region /\ y.due <= x.due
<1>1. Earlier(E) \subseteq E
  BY DEF Earlier
<1>2. ASSUME NEW x \in Earlier(E), NEW y \in Earlier(E), x.region = y.region
      PROVE  x = y
  <2>1. x.due <= y.due /\ y.due <= x.due /\ x \in Entry /\ y \in Entry
    BY <1>2 DEF Earlier
  <2> QED
    BY <1>2, <2>1 DEF Entry
<1>3. ASSUME NEW x \in E
      PROVE  \E y \in Earlier(E) : y.region = x.region /\ y.due <= x.due
  <2> DEFINE D == {y.due : y \in {z \in E : z.region = x.region}}
  <2>1. D \in SUBSET Nat /\ x.due \in D
    BY DEF Entry
  <2>2. PICK d \in D : \A e \in D : d <= e
    BY <2>1, LeastExists
  <2>3. PICK y \in E : y.region = x.region /\ y.due = d
    OBVIOUS
  <2>4. \A z \in E : z.region = y.region => y.due <= z.due
    BY <2>2, <2>3
  <2>5. y \in Earlier(E)
    BY <2>4 DEF Earlier
  <2> QED
    BY <2>1, <2>2, <2>3, <2>5
<1> QED
  BY <1>1, <1>2, <1>3

\* Giving a window up moves the generation on, if one was armed.
LEMMA DisarmedKeeps ==
  ASSUME NEW a \in AgentState
  PROVE  /\ Disarmed(a) \in AgentState /\ Disarmed(a).life = a.life
         /\ Disarmed(a).acked = a.acked /\ Disarmed(a).notified = a.notified
         /\ Disarmed(a).armed = Never
         /\ Disarmed(a).generation =
              IF a.armed = Never THEN a.generation ELSE a.generation + 1
<1>1. CASE a.armed = Never
  BY <1>1 DEF Disarmed, AgentState
<1>2. CASE a.armed # Never
  <2>1. Disarmed(a) = [a EXCEPT !.armed = Never, !.generation = @ + 1]
    BY <1>2 DEF Disarmed
  <2>2. Never \in Timer /\ a.generation + 1 \in Nat
    BY DEF Never, Timer, AgentState
  <2> QED
    BY <1>2, <2>1, <2>2 DEF AgentState
<1> QED
  BY <1>1, <1>2

\* Arming a window puts it in the agent's state under the next generation.
LEMMA ArmedKeeps ==
  ASSUME NEW a \in AgentState, NEW due \in Nat
  PROVE  /\ Armed(a, due) \in AgentState /\ Armed(a, due).life = a.life
         /\ Armed(a, due).acked = a.acked /\ Armed(a, due).notified = a.notified
         /\ Armed(a, due).generation = a.generation + 1
         /\ Armed(a, due).armed =
              [life |-> a.life, generation |-> a.generation + 1, at |-> due]
<1> DEFINE new == [life |-> a.life, generation |-> a.generation + 1, at |-> due]
<1>1. new \in Timer /\ a.generation + 1 \in Nat
  BY DEF Timer, AgentState
<1>2. Armed(a, due) = [a EXCEPT !.armed = new, !.generation = @ + 1]
  BY DEF Armed
<1> HIDE DEF new
<1>3. Armed(a, due).armed = new /\ Armed(a, due).generation = a.generation + 1
  BY <1>2 DEF AgentState
<1>4. Armed(a, due) \in AgentState
  BY <1>1, <1>2 DEF AgentState
<1>5. /\ Armed(a, due).life = a.life /\ Armed(a, due).acked = a.acked
      /\ Armed(a, due).notified = a.notified
  BY <1>2 DEF AgentState
<1> QED
  BY <1>3, <1>4, <1>5 DEF new

\* _evaluate_dispatch_locked leaves the agent's cursors behind the store's and its
\* timer calls in order, and drops an entry only if its write is told or answered.
LEMMA EvaluateKeeps ==
  ASSUME NEW a \in AgentState, NEW entries \in SUBSET Entry, NEW end \in Nat,
         NEW given \in SUBSET Timer, time \in Nat, told \in Nat, calls \subseteq Timer,
         a.life > 0, Arms(a, given \cup calls), a.notified <= told,
         Evaluate(a, entries, end, given)
  PROVE  /\ agent' \in AgentState /\ agent'.life = a.life /\ agent'.acked = a.acked
         /\ agent'.notified \in {a.notified, Larger(a.notified, end)}
         /\ told' \in {told, Larger(told, end)} /\ agent'.notified <= told'
         /\ timers' \subseteq Timer /\ Arms(agent', timers' \cup calls)
         /\ pending' \subseteq entries /\ Covered(agent', pending')
         /\ pending' = entries \/ end <= a.acked \/ end <= agent'.notified
<1>1. CASE /\ entries = {} \/ end <= a.acked
           /\ pending' = {} /\ agent' = a /\ timers' = given /\ told' = told
  BY <1>1 DEF Covered
<1>2. CASE Dispatch(a, end, given)
  <2>1. /\ agent' \in AgentState /\ agent'.life = a.life /\ agent'.acked = a.acked
        /\ agent'.notified = Larger(a.notified, end) /\ agent'.armed = Never
        /\ agent'.generation = IF a.armed = Never THEN a.generation ELSE a.generation + 1
    <3>1. agent' = [Disarmed(a) EXCEPT !.notified = Larger(@, end)]
      BY <1>2 DEF Dispatch
    <3>2. Larger(a.notified, end) \in Nat
      BY DEF Larger, AgentState
    <3> QED
      BY <3>1, <3>2, DisarmedKeeps DEF AgentState
  <2>2. pending' = {} /\ told' = Larger(told, end) /\ timers' = given \ {a.armed}
    BY <1>2 DEF Dispatch, Uncancelled
  <2>3. end <= agent'.notified /\ agent'.notified <= told'
    BY <2>1, <2>2 DEF Larger, AgentState
  <2>4. ASSUME NEW t \in timers' \cup calls
        PROVE  /\ 0 < t.life /\ t.life <= agent'.life
               /\ t.life = agent'.life => t.generation <= agent'.generation
               /\ ~ (t.life = agent'.life /\ t.generation = agent'.generation)
    <3>1. /\ 0 < t.life /\ t.life <= a.life /\ t \in Timer
          /\ t.life = a.life => t.generation <= a.generation
          /\ t.life = a.life /\ t.generation = a.generation => t = a.armed
      BY <2>2 DEF Arms
    <3>2. t # Never
      BY <3>1 DEF Never
    <3> QED
      BY <2>1, <3>1, <3>2 DEF AgentState, Timer
  <2>5. Arms(agent', timers' \cup calls)
    BY <2>1, <2>4 DEF Arms
  <2> QED
    BY <2>1, <2>2, <2>3, <2>5 DEF Covered
<1>3. CASE \E x \in entries :
             /\ First(x, entries) /\ Sooner(a, x.due)
             /\ pending' = entries /\ agent' = Armed(a, x.due) /\ told' = told
             /\ timers' = Uncancelled(a, given) \cup {Armed(a, x.due).armed}
  <2>1. PICK x \in entries :
             /\ First(x, entries)
             /\ pending' = entries /\ agent' = Armed(a, x.due) /\ told' = told
             /\ timers' = Uncancelled(a, given) \cup {Armed(a, x.due).armed}
    BY <1>3
  <2> DEFINE new == [life |-> a.life, generation |-> a.generation + 1, at |-> x.due]
  <2>2. new \in Timer /\ new # Never /\ x.due \in Nat
    BY DEF Timer, Never, AgentState, Entry
  <2>3. /\ agent' \in AgentState /\ agent'.life = a.life /\ agent'.acked = a.acked
        /\ agent'.notified = a.notified /\ agent'.armed = new
        /\ agent'.generation = a.generation + 1
    BY <2>1, <2>2, ArmedKeeps
  <2>4. timers' = (given \ {a.armed}) \cup {new}
    BY <2>1, <2>2, ArmedKeeps DEF Uncancelled
  <2>5. ASSUME NEW t \in timers' \cup calls
        PROVE  /\ 0 < t.life /\ t.life <= agent'.life
               /\ t.life = agent'.life => t.generation <= agent'.generation
               /\ t.life = agent'.life /\ t.generation = agent'.generation => t = agent'.armed
    <3>1. CASE t = new
      BY <3>1, <2>3 DEF AgentState
    <3>2. CASE t # new
      <4>1. /\ 0 < t.life /\ t.life <= a.life /\ t \in Timer
            /\ t.life = a.life => t.generation <= a.generation
        BY <3>2, <2>4 DEF Arms
      <4> QED
        BY <2>3, <4>1 DEF AgentState, Timer
    <3> QED
      BY <3>1, <3>2
  <2>6. Arms(agent', timers' \cup calls)
    <3>1. /\ agent'.armed \in timers' \cup calls
          /\ agent'.armed.life = agent'.life /\ agent'.armed.generation = agent'.generation
      BY <2>3, <2>4
    <3> QED
      BY <2>5, <3>1 DEF Arms
  <2>7. Covered(agent', pending')
    BY <2>1, <2>2, <2>3 DEF Covered, First
  <2> QED
    BY <2>1, <2>2, <2>3, <2>4, <2>6, <2>7
<1>4. CASE \E x \in entries :
             /\ First(x, entries) /\ ~ Sooner(a, x.due)
             /\ pending' = entries /\ agent' = a /\ timers' = given /\ told' = told
  <2>1. PICK x \in entries : First(x, entries) /\ ~ Sooner(a, x.due)
    BY <1>4
  <2>2. a.armed # Never /\ a.armed.at <= x.due
    BY <2>1 DEF Sooner, AgentState, Timer, Entry
  <2>3. \A y \in entries : a.armed.at <= y.due
    BY <2>1, <2>2 DEF First, AgentState, Timer, Entry
  <2> QED
    BY <1>4, <2>2, <2>3 DEF Covered
<1> QED
  BY <1>1, <1>2, <1>3, <1>4 DEF Evaluate

LEMMA WindowsAreNat == \A r \in Regions : Window[r] \in Nat
BY WindowAssumption

-----------------------------------------------------------------------------
(* The inductive invariant.                                                *)

LEMMA IInvInit == Init => IInv
<1> SUFFICES ASSUME Init PROVE IInv
  OBVIOUS
<1>1. TypeOK
  <2>1. <<>> \in Seq([region : Regions, at : Nat, life : Nat]) /\ Len(<<>>) = 0
    BY EmptySeq
  <2>2. agent \in AgentState /\ agent.notified = 0 /\ agent.acked = 0
    BY DEF Init, AgentState, Never, Timer
  <2> QED
    <3>1. last \in 0..Len(changes) /\ told \in 0..Len(changes) /\ answered \in 0..told
          /\ changes \in Seq([region : Regions, at : Nat, life : Nat])
      BY <2>1 DEF Init
    <3>2. time \in Nat /\ agent.notified <= told /\ agent.acked <= answered
      BY <2>2 DEF Init
    <3>3. closed \in BOOLEAN
      BY DEF Init
    <3>4. /\ pending \subseteq Entry /\ timers \subseteq Timer /\ calls \subseteq Timer
          /\ \A x, y \in pending : x.region = y.region => x = y
      BY DEF Init
    <3> QED
      BY <2>2, <3>1, <3>2, <3>3, <3>4 DEF TypeOK
<1>2. ArmInv
  BY DEF Init, ArmInv, Arms, Covered
<1>3. KeptInv
  BY DEF Init, KeptInv
<1> QED
  BY <1>1, <1>2, <1>3 DEF IInv

\* What one more write does to the board.
LEMMA Appended ==
  ASSUME TypeOK, NEW r \in Regions, NEW l \in Nat,
         changes' = Append(changes, [region |-> r, at |-> time, life |-> l])
  PROVE  /\ changes' \in Seq([region : Regions, at : Nat, life : Nat])
         /\ Len(changes') = Len(changes) + 1 /\ Len(changes) \in Nat
         /\ \A i \in DOMAIN changes : i \in DOMAIN changes' /\ changes'[i] = changes[i]
         /\ \A i \in DOMAIN changes' :
              i \in DOMAIN changes \/ i = Len(changes')
         /\ changes'[Len(changes')] = [region |-> r, at |-> time, life |-> l]
         /\ DOMAIN changes = 1..Len(changes) /\ DOMAIN changes' = 1..Len(changes')
<1> DEFINE e == [region |-> r, at |-> time, life |-> l]
           S == [region : Regions, at : Nat, life : Nat]
<1>1. e \in S /\ changes \in Seq(S)
  BY DEF TypeOK
<1> HIDE DEF S
<1>2. changes' = Append(changes, e)
  OBVIOUS
<1> HIDE DEF e
<1>3. /\ changes' \in Seq(S) /\ Len(changes') = Len(changes) + 1
      /\ \A i \in 1..Len(changes) : changes'[i] = changes[i]
      /\ changes'[Len(changes) + 1] = e
  BY <1>1, <1>2, AppendProperties
<1>4. Len(changes) \in Nat /\ DOMAIN changes = 1..Len(changes)
      /\ DOMAIN changes' = 1..Len(changes')
  BY <1>1, <1>3, LenProperties
<1> QED
  BY <1>3, <1>4 DEF e, S

\* A write that is kept stays kept when entries are only added and the cursors
\* only rise.
LEMMA WriteKeeps ==
  ASSUME IInv, NEW r \in Regions, Write(r)
  PROVE  IInv'
<1> DEFINE new == [region |-> r, due |-> time + Window[r]]
           entries == Earlier(pending \cup {new})
           end == Len(changes) + 1
<1>1. /\ agent \in AgentState /\ time \in Nat /\ told \in Nat /\ calls \subseteq Timer
      /\ timers \subseteq Timer /\ pending \subseteq Entry /\ agent.notified <= told
      /\ agent.life \in Nat /\ agent.notified \in Nat /\ agent.acked \in Nat
      /\ last \in Nat /\ Len(changes) \in Nat /\ told <= Len(changes) /\ last <= Len(changes)
  <2>1. Len(changes) \in Nat
    BY LenProperties DEF IInv, TypeOK
  <2> QED
    BY <2>1 DEF IInv, TypeOK, AgentState
<1>2. /\ changes' = Append(changes, [region |-> r, at |-> time, life |-> agent.life])
      /\ last' = end /\ agent.life > 0 /\ ~ closed
      /\ Evaluate(agent, entries, end, timers)
      /\ UNCHANGED <<time, answered, calls, closed>>
  BY DEF Write, Holds
<1>3. /\ changes' \in Seq([region : Regions, at : Nat, life : Nat])
      /\ Len(changes') = Len(changes) + 1
      /\ \A i \in DOMAIN changes : i \in DOMAIN changes' /\ changes'[i] = changes[i]
      /\ \A i \in DOMAIN changes' : i \in DOMAIN changes \/ i = Len(changes')
      /\ changes'[Len(changes')] = [region |-> r, at |-> time, life |-> agent.life]
      /\ DOMAIN changes = 1..Len(changes) /\ DOMAIN changes' = 1..Len(changes')
  BY <1>1, <1>2, Appended DEF IInv
<1>4. new \in Entry /\ pending \cup {new} \in SUBSET Entry
  BY <1>1, WindowsAreNat DEF Entry
<1> HIDE DEF new
<1>5. /\ entries \subseteq pending \cup {new} /\ entries \in SUBSET Entry
      /\ \A x, y \in entries : x.region = y.region => x = y
      /\ \A x \in pending \cup {new} : \E y \in entries : y.region = x.region /\ y.due <= x.due
  BY <1>4, EarlierKeeps
<1> HIDE DEF entries
<1>6. Arms(agent, timers \cup calls)
  BY DEF IInv, ArmInv
<1>7. /\ agent' \in AgentState /\ agent'.life = agent.life /\ agent'.acked = agent.acked
      /\ agent'.notified \in {agent.notified, Larger(agent.notified, end)}
      /\ told' \in {told, Larger(told, end)} /\ agent'.notified <= told'
      /\ timers' \subseteq Timer /\ Arms(agent', timers' \cup calls)
      /\ pending' \subseteq entries /\ Covered(agent', pending')
      /\ pending' = entries \/ end <= agent.acked \/ end <= agent'.notified
  <2>1. end \in Nat
    BY <1>1
  <2> QED
    BY <1>1, <1>2, <1>5, <1>6, <2>1, EvaluateKeeps
<1>8. told' \in 0..Len(changes') /\ told <= told' /\ agent.notified <= agent'.notified
  BY <1>1, <1>2, <1>3, <1>7 DEF Larger
<1>9. TypeOK'
  <2>1. answered \in 0..told /\ agent.acked <= answered
    BY DEF IInv, TypeOK
  <2>2. answered' \in 0..told' /\ agent'.acked <= answered'
    BY <1>1, <1>2, <1>7, <1>8, <2>1
  <2>3. last' \in 0..Len(changes') /\ time' \in Nat /\ closed' \in BOOLEAN
    BY <1>1, <1>2, <1>3 DEF IInv, TypeOK
  <2>4. pending' \subseteq Entry /\ calls' \subseteq Timer
        /\ \A x, y \in pending' : x.region = y.region => x = y
    BY <1>1, <1>2, <1>5, <1>7
  <2> QED
    BY <1>3, <1>7, <1>8, <2>2, <2>3, <2>4 DEF TypeOK
<1>10. ArmInv'
  BY <1>2, <1>7 DEF ArmInv
<1>11. KeptInv'
  <2> SUFFICES ASSUME NEW i \in DOMAIN changes'
               PROVE  /\ changes'[i].life <= agent'.life /\ i <= last'
                      /\ changes'[i].life = agent'.life => Kept(i, agent, pending)'
    BY DEF KeptInv
  <2>1. i <= last'
    BY <1>2, <1>3
  <2>2. changes'[i].life <= agent'.life
    <3>1. CASE i \in DOMAIN changes
      BY <1>3, <1>7, <3>1 DEF IInv, KeptInv
    <3>2. CASE i = Len(changes')
      BY <1>1, <1>3, <1>7, <3>2
    <3> QED
      BY <1>3, <3>1, <3>2
  <2>3. ASSUME changes'[i].life = agent'.life
        PROVE  \/ i <= agent.notified \/ i <= agent.acked
               \/ \E x \in entries : /\ x.region = changes'[i].region
                                     /\ x.due <= changes'[i].at + Window[x.region]
    <3>1. CASE i \in DOMAIN changes
      <4>1. Kept(i, agent, pending) /\ changes'[i] = changes[i]
        BY <1>2, <1>3, <1>7, <2>3, <3>1 DEF IInv, KeptInv
      <4>2. CASE i <= agent.notified \/ i <= agent.acked
        BY <4>2
      <4>3. CASE \E x \in pending : /\ x.region = changes[i].region
                                    /\ x.due <= changes[i].at + Window[x.region]
        <5>1. PICK x \in pending : /\ x.region = changes[i].region
                                   /\ x.due <= changes[i].at + Window[x.region]
          BY <4>3
        <5>2. PICK y \in entries : y.region = x.region /\ y.due <= x.due
          BY <1>5
        <5>3. /\ x.due \in Nat /\ y.due \in Nat /\ Window[x.region] \in Nat
              /\ changes[i].at \in Nat
          <6>1. x \in Entry /\ y \in Entry
            BY <1>1, <1>5
          <6>2. changes[i] \in [region : Regions, at : Nat, life : Nat]
            BY <1>3, <3>1, ElementOfSeq DEF IInv, TypeOK
          <6> QED
            BY <6>1, <6>2, WindowsAreNat DEF Entry
        <5> QED
          BY <4>1, <5>1, <5>2, <5>3
      <4> QED
        BY <4>1, <4>2, <4>3 DEF Kept
    <3>2. CASE i = Len(changes')
      <4>1. PICK y \in entries : y.region = new.region /\ y.due <= new.due
        BY <1>5
      <4>2. new.region = r /\ new.due = time + Window[r]
        BY DEF new
      <4> QED
        BY <1>3, <3>2, <4>1, <4>2
    <3> QED
      BY <1>3, <3>1, <3>2
  <2>4. ASSUME changes'[i].life = agent'.life
        PROVE  Kept(i, agent, pending)'
    <3>1. CASE pending' = entries
      BY <1>1, <1>3, <1>7, <1>8, <2>3, <2>4, <3>1 DEF Kept, AgentState
    <3>2. CASE end <= agent.acked \/ end <= agent'.notified
      BY <1>1, <1>2, <1>3, <1>7, <2>1, <3>2 DEF Kept, AgentState
    <3> QED
      BY <1>7, <3>1, <3>2
  <2> QED
    BY <2>1, <2>2, <2>4
<1> QED
  BY <1>9, <1>10, <1>11 DEF IInv

\* A poll or a relay pass: what was kept is kept, since reading adds entries and the
\* page that was read raises _last_sequence.
LEMMA TakeTailKeeps ==
  ASSUME IInv, Holds, NEW known \in Nat, TakeTail(known)
  PROVE  IInv'
<1> DEFINE read == agent.acked + 1 .. Len(changes)
           due(i) == Larger(changes[i].at + Window[changes[i].region], time)
           new == {[region |-> changes[i].region, due |-> due(i)]
                     : i \in {j \in read : j > known}}
           entries == Earlier(pending \cup new)
           end == EndOf(read)
<1>1. /\ agent \in AgentState /\ time \in Nat /\ told \in Nat /\ calls \subseteq Timer
      /\ timers \subseteq Timer /\ pending \subseteq Entry /\ agent.notified <= told
      /\ agent.life \in Nat /\ agent.notified \in Nat /\ agent.acked \in Nat
      /\ last \in Nat /\ Len(changes) \in Nat /\ told <= Len(changes) /\ last <= Len(changes)
      /\ DOMAIN changes = 1..Len(changes)
      /\ \A i \in 1..Len(changes) : changes[i] \in [region : Regions, at : Nat, life : Nat]
  <2>1. /\ Len(changes) \in Nat /\ DOMAIN changes = 1..Len(changes)
        /\ \A i \in 1..Len(changes) : changes[i] \in [region : Regions, at : Nat, life : Nat]
    BY LenProperties, ElementOfSeq DEF IInv, TypeOK
  <2> QED
    BY <2>1 DEF IInv, TypeOK, AgentState
<1>2. /\ last' = end /\ Evaluate(agent, entries, end, timers)
      /\ UNCHANGED <<time, changes, answered, calls, closed>>
      /\ agent.life > 0 /\ ~ closed
  BY DEF TakeTail, Holds
<1>3. end \in Nat /\ last <= end /\ end <= Len(changes)
  BY <1>1 DEF EndOf
<1>4. pending \cup new \in SUBSET Entry
  <2>1. ASSUME NEW i \in read
        PROVE  [region |-> changes[i].region, due |-> due(i)] \in Entry
    <3>1. changes[i] \in [region : Regions, at : Nat, life : Nat]
      BY <1>1
    <3>2. changes[i].at + Window[changes[i].region] \in Nat
      BY <3>1, WindowsAreNat
    <3>3. due(i) \in Nat
      BY <1>1, <3>2 DEF Larger
    <3> QED
      BY <3>1, <3>3 DEF Entry
  <2> QED
    BY <1>1, <2>1
<1> HIDE DEF new, end
<1>5. /\ entries \subseteq pending \cup new /\ entries \in SUBSET Entry
      /\ \A x, y \in entries : x.region = y.region => x = y
      /\ \A x \in pending \cup new : \E y \in entries : y.region = x.region /\ y.due <= x.due
  BY <1>4, EarlierKeeps
<1> HIDE DEF entries
<1>6. Arms(agent, timers \cup calls)
  BY DEF IInv, ArmInv
<1>7. /\ agent' \in AgentState /\ agent'.life = agent.life /\ agent'.acked = agent.acked
      /\ agent'.notified \in {agent.notified, Larger(agent.notified, end)}
      /\ told' \in {told, Larger(told, end)} /\ agent'.notified <= told'
      /\ timers' \subseteq Timer /\ Arms(agent', timers' \cup calls)
      /\ pending' \subseteq entries /\ Covered(agent', pending')
      /\ pending' = entries \/ end <= agent.acked \/ end <= agent'.notified
  BY <1>1, <1>2, <1>3, <1>5, <1>6, EvaluateKeeps
<1>8. told' \in 0..Len(changes') /\ told <= told' /\ agent.notified <= agent'.notified
  BY <1>1, <1>2, <1>3, <1>7 DEF Larger
<1>9. TypeOK'
  <2>1. answered \in 0..told /\ agent.acked <= answered
    BY DEF IInv, TypeOK
  <2>2. answered' \in 0..told' /\ agent'.acked <= answered'
    BY <1>1, <1>2, <1>7, <1>8, <2>1
  <2>3. /\ last' \in 0..Len(changes') /\ time' \in Nat /\ closed' \in BOOLEAN
        /\ changes' \in Seq([region : Regions, at : Nat, life : Nat])
    BY <1>1, <1>2, <1>3 DEF IInv, TypeOK
  <2>4. pending' \subseteq Entry /\ calls' \subseteq Timer
        /\ \A x, y \in pending' : x.region = y.region => x = y
    BY <1>1, <1>2, <1>5, <1>7
  <2> QED
    BY <1>7, <1>8, <2>2, <2>3, <2>4 DEF TypeOK
<1>10. ArmInv'
  BY <1>2, <1>7 DEF ArmInv
<1>11. KeptInv'
  <2> SUFFICES ASSUME NEW i \in DOMAIN changes
               PROVE  /\ changes[i].life <= agent'.life
                      /\ changes[i].life = agent'.life =>
                           i <= last' /\ Kept(i, agent, pending)'
    BY <1>2 DEF KeptInv
  <2>1. changes[i].life <= agent'.life
    BY <1>7 DEF IInv, KeptInv
  <2>2. ASSUME changes[i].life = agent'.life
        PROVE  i <= last /\ Kept(i, agent, pending)
    BY <1>2, <1>7, <2>2 DEF IInv, KeptInv
  <2>3. ASSUME changes[i].life = agent'.life
        PROVE  \/ i <= agent.notified \/ i <= agent.acked
               \/ \E x \in entries : /\ x.region = changes[i].region
                                     /\ x.due <= changes[i].at + Window[x.region]
    <3>1. CASE \E x \in pending : /\ x.region = changes[i].region
                                  /\ x.due <= changes[i].at + Window[x.region]
      <4>1. PICK x \in pending : /\ x.region = changes[i].region
                                 /\ x.due <= changes[i].at + Window[x.region]
        BY <3>1
      <4>2. PICK y \in entries : y.region = x.region /\ y.due <= x.due
        BY <1>5
      <4>3. /\ x.due \in Nat /\ y.due \in Nat /\ Window[x.region] \in Nat
            /\ changes[i].at \in Nat
        <5>1. x \in Entry /\ y \in Entry
          BY <1>1, <1>5
        <5> QED
          BY <1>1, <5>1, WindowsAreNat DEF Entry
      <4> QED
        BY <4>1, <4>2, <4>3
    <3> QED
      BY <2>2, <2>3, <3>1 DEF Kept
  <2>4. ASSUME changes[i].life = agent'.life
        PROVE  i <= last' /\ Kept(i, agent, pending)'
    <3>1. i <= last'
      BY <1>1, <1>2, <1>3, <2>2, <2>4
    <3>2. CASE pending' = entries
      BY <1>1, <1>2, <1>7, <1>8, <2>3, <2>4, <3>1, <3>2 DEF Kept, AgentState
    <3>3. CASE end <= agent.acked \/ end <= agent'.notified
      BY <1>1, <1>2, <1>3, <1>7, <3>1, <3>3 DEF Kept, AgentState
    <3> QED
      BY <1>7, <3>1, <3>2, <3>3
  <2> QED
    BY <2>1, <2>4
<1> QED
  BY <1>9, <1>10, <1>11 DEF IInv

\* A registration starts a life no earlier write belongs to, and every timer call
\* that is outstanding is of an earlier one.
LEMMA RegisterKeeps ==
  ASSUME IInv, Register
  PROVE  IInv'
<1> DEFINE a == [notified |-> answered, acked |-> answered, armed |-> Never,
                 generation |-> 0, life |-> agent.life + 1]
           written == {changes[i].region : i \in DOMAIN changes}
           wait(r) == IF r \in Premises THEN Window[r] ELSE 0
           entries == {[region |-> r, due |-> time + wait(r)] : r \in written}
           given == Uncancelled(agent, timers)
<1>1. /\ agent \in AgentState /\ time \in Nat /\ told \in Nat /\ calls \subseteq Timer
      /\ timers \subseteq Timer /\ agent.life \in Nat /\ answered \in Nat /\ answered <= told
      /\ last \in Nat /\ Len(changes) \in Nat /\ told <= Len(changes) /\ last <= Len(changes)
      /\ DOMAIN changes = 1..Len(changes)
      /\ \A i \in 1..Len(changes) : changes[i] \in [region : Regions, at : Nat, life : Nat]
  <2>1. /\ Len(changes) \in Nat /\ DOMAIN changes = 1..Len(changes)
        /\ \A i \in 1..Len(changes) : changes[i] \in [region : Regions, at : Nat, life : Nat]
    BY LenProperties, ElementOfSeq DEF IInv, TypeOK
  <2> QED
    BY <2>1 DEF IInv, TypeOK, AgentState
<1>2. /\ Evaluate(a, entries, last, given)
      /\ UNCHANGED <<time, changes, last, answered, calls, closed>> /\ ~ closed
  BY DEF Register
<1>3. entries \in SUBSET Entry /\ \A x, y \in entries : x.region = y.region => x = y
  <2>1. \A r \in written : r \in Regions /\ time + wait(r) \in Nat
    BY <1>1, WindowsAreNat
  <2> QED
    BY <2>1 DEF Entry
<1>4. given \in SUBSET Timer /\ given \subseteq timers
  BY <1>1 DEF Uncancelled
<1>5. /\ a \in AgentState /\ a.life = agent.life + 1 /\ a.armed = Never
      /\ a.notified = answered /\ a.acked = answered /\ a.life > 0
  BY <1>1 DEF AgentState, Never, Timer
<1> HIDE DEF a, entries, given
<1>6. Arms(a, given \cup calls)
  <2>1. \A t \in timers \cup calls : 0 < t.life /\ t.life <= agent.life
    BY DEF IInv, ArmInv, Arms
  <2>2. \A t \in given \cup calls : t \in timers \cup calls /\ t.life \in Nat
    BY <1>1, <1>4 DEF Timer
  <2>3. \A t \in given \cup calls : 0 < t.life /\ t.life <= a.life /\ t.life # a.life
    BY <1>1, <1>5, <2>1, <2>2
  <2> QED
    BY <1>5, <2>3 DEF Arms
<1>7. /\ agent' \in AgentState /\ agent'.life = a.life /\ agent'.acked = a.acked
      /\ agent'.notified \in {a.notified, Larger(a.notified, last)}
      /\ told' \in {told, Larger(told, last)} /\ agent'.notified <= told'
      /\ timers' \subseteq Timer /\ Arms(agent', timers' \cup calls)
      /\ pending' \subseteq entries /\ Covered(agent', pending')
  BY <1>1, <1>2, <1>3, <1>4, <1>5, <1>6, EvaluateKeeps
<1>8. told' \in 0..Len(changes) /\ told <= told'
  BY <1>1, <1>7 DEF Larger
<1>9. TypeOK'
  <2>1. answered' \in 0..told' /\ agent'.acked <= answered'
    BY <1>1, <1>2, <1>5, <1>7, <1>8
  <2>2. /\ last' \in 0..Len(changes') /\ time' \in Nat /\ closed' \in BOOLEAN
        /\ changes' \in Seq([region : Regions, at : Nat, life : Nat])
    BY <1>1, <1>2 DEF IInv, TypeOK
  <2>3. pending' \subseteq Entry /\ calls' \subseteq Timer
        /\ \A x, y \in pending' : x.region = y.region => x = y
    BY <1>1, <1>2, <1>3, <1>7
  <2> QED
    BY <1>2, <1>7, <1>8, <2>1, <2>2, <2>3 DEF TypeOK
<1>10. ArmInv'
  BY <1>2, <1>7 DEF ArmInv
<1>11. KeptInv'
  <2>1. \A i \in DOMAIN changes : changes[i].life < agent'.life
    <3>1. \A i \in DOMAIN changes : changes[i].life <= agent.life /\ changes[i].life \in Nat
      BY <1>1 DEF IInv, KeptInv
    <3> QED
      BY <1>1, <1>5, <1>7, <3>1
  <2>2. \A i \in DOMAIN changes : changes[i].life \in Nat /\ agent'.life \in Nat
    BY <1>1, <1>5, <1>7
  <2> QED
    BY <1>2, <2>1, <2>2 DEF KeptInv
<1> QED
  BY <1>9, <1>10, <1>11 DEF IInv

\* What the other processes and the agent do raises cursors and adds to the board.
LEMMA OthersKeep ==
  ASSUME IInv,
         \/ \E r \in Regions : WriteElsewhere(r)
         \/ NotifyElsewhere \/ Tick
         \/ \E n \in 1..MaxSequence : Answer(n) \/ NoteAnswer(n)
  PROVE  IInv'
<1>1. /\ agent \in AgentState /\ time \in Nat /\ told \in Nat /\ answered \in Nat
      /\ agent.life \in Nat /\ agent.notified \in Nat /\ agent.acked \in Nat
      /\ agent.notified <= told /\ agent.acked <= answered /\ answered <= told
      /\ last \in Nat /\ Len(changes) \in Nat /\ told <= Len(changes) /\ last <= Len(changes)
      /\ DOMAIN changes = 1..Len(changes)
  <2>1. Len(changes) \in Nat /\ DOMAIN changes = 1..Len(changes)
    BY LenProperties DEF IInv, TypeOK
  <2> QED
    BY <2>1 DEF IInv, TypeOK, AgentState
<1>2. CASE \E r \in Regions : WriteElsewhere(r)
  <2>1. PICK r \in Regions : WriteElsewhere(r)
    BY <1>2
  <2>2. /\ changes' = Append(changes, [region |-> r, at |-> time, life |-> 0])
        /\ UNCHANGED <<time, last, told, answered, agent, pending, timers, calls, closed>>
    BY <2>1 DEF WriteElsewhere, Elsewhere
  <2>3. /\ changes' \in Seq([region : Regions, at : Nat, life : Nat])
        /\ Len(changes') = Len(changes) + 1
        /\ \A i \in DOMAIN changes : i \in DOMAIN changes' /\ changes'[i] = changes[i]
        /\ \A i \in DOMAIN changes' : i \in DOMAIN changes \/ i = Len(changes')
        /\ changes'[Len(changes')] = [region |-> r, at |-> time, life |-> 0]
    BY <1>1, <2>2, Appended DEF IInv
  <2>4. TypeOK'
    <3>1. last' \in 0..Len(changes') /\ told' \in 0..Len(changes')
      BY <1>1, <2>2, <2>3
    <3> QED
      BY <2>2, <2>3, <3>1 DEF IInv, TypeOK
  <2>5. ArmInv'
    BY <2>2 DEF IInv, ArmInv
  <2>6. KeptInv'
    <3> SUFFICES ASSUME NEW i \in DOMAIN changes'
                 PROVE  /\ changes'[i].life <= agent.life
                        /\ changes'[i].life = agent.life /\ agent.life > 0 =>
                             i <= last /\ (~ closed => Kept(i, agent, pending)')
      BY <2>2 DEF KeptInv
    <3>1. CASE i \in DOMAIN changes
      <4>1. changes'[i] = changes[i] /\ (Kept(i, agent, pending)' <=> Kept(i, agent, pending))
        BY <2>2, <2>3, <3>1 DEF Kept
      <4> QED
        BY <3>1, <4>1 DEF IInv, KeptInv
    <3>2. CASE i = Len(changes')
      BY <1>1, <2>3, <3>2
    <3> QED
      BY <2>3, <3>1, <3>2
  <2> QED
    BY <2>4, <2>5, <2>6 DEF IInv
<1>3. CASE NotifyElsewhere
  <2>1. /\ told' = Len(changes) /\ told < Len(changes)
        /\ UNCHANGED <<time, changes, last, answered, agent, pending, timers, calls, closed>>
    BY <1>3 DEF NotifyElsewhere
  <2>2. told' \in 0..Len(changes) /\ answered \in 0..told' /\ agent.notified <= told'
    BY <1>1, <2>1
  <2>3. TypeOK'
    BY <2>1, <2>2 DEF IInv, TypeOK
  <2> QED
    BY <2>1, <2>3 DEF IInv, ArmInv, KeptInv, Kept
<1>4. CASE Tick
  <2>1. time' = time + 1 /\ UNCHANGED <<changes, last, told, answered, agent, pending,
                                        timers, calls, closed>>
    BY <1>4 DEF Tick, record
  <2>2. TypeOK'
    BY <1>1, <2>1 DEF IInv, TypeOK
  <2> QED
    BY <2>1, <2>2 DEF IInv, ArmInv, KeptInv, Kept
<1>5. ASSUME NEW n \in 1..MaxSequence, Answer(n)
      PROVE  IInv'
  <2>1. /\ answered' = n /\ answered < n /\ n <= told /\ n \in Nat
        /\ UNCHANGED <<time, changes, last, told, agent, pending, timers, calls, closed>>
    BY <1>5 DEF Answer
  <2>2. answered' \in 0..told /\ agent.acked <= answered'
    BY <1>1, <2>1
  <2>3. TypeOK'
    BY <2>1, <2>2 DEF IInv, TypeOK
  <2> QED
    BY <2>1, <2>3 DEF IInv, ArmInv, KeptInv, Kept
<1>6. ASSUME NEW n \in 1..MaxSequence, NoteAnswer(n)
      PROVE  IInv'
  <2>1. /\ agent' = [agent EXCEPT !.acked = n] /\ agent.acked < n /\ n <= answered
        /\ UNCHANGED <<time, changes, last, told, answered, pending, timers, calls, closed>>
    BY <1>6 DEF NoteAnswer, record
  <2>2. /\ agent' \in AgentState /\ agent'.acked = n /\ n \in Nat
        /\ agent'.life = agent.life /\ agent'.notified = agent.notified
        /\ agent'.armed = agent.armed /\ agent'.generation = agent.generation
    BY <1>1, <2>1 DEF AgentState
  <2>3. TypeOK'
    <3>1. agent'.notified <= told' /\ agent'.acked <= answered'
      BY <1>1, <2>1, <2>2
    <3> QED
      BY <2>1, <2>2, <3>1 DEF IInv, TypeOK
  <2>4. ArmInv'
    BY <2>1, <2>2 DEF IInv, ArmInv, Arms, Covered
  <2>5. \A i \in DOMAIN changes : Kept(i, agent, pending) => Kept(i, agent, pending)'
    BY <1>1, <2>1, <2>2 DEF Kept
  <2>6. KeptInv'
    BY <2>1, <2>2, <2>5 DEF IInv, KeptInv
  <2> QED
    BY <2>3, <2>4, <2>6 DEF IInv
<1> QED
  BY <1>2, <1>3, <1>4, <1>5, <1>6

\* The clock begins a call: it is outstanding before and after.
LEMMA BeginKeeps ==
  ASSUME IInv, NEW t \in timers, Begin(t)
  PROVE  IInv'
<1>1. /\ timers' = timers \ {t} /\ calls' = calls \cup {t} /\ t \in timers
      /\ UNCHANGED <<time, changes, last, told, answered, agent, pending, closed>>
  BY DEF Begin, record
<1>2. timers' \cup calls' = timers \cup calls
  BY <1>1
<1>3. TypeOK'
  BY <1>1 DEF IInv, TypeOK
<1> QED
  BY <1>1, <1>2, <1>3 DEF IInv, ArmInv, KeptInv, Kept

\* A call closes the window it finds under its own generation, and no other.
LEMMA CloseWindowKeeps ==
  ASSUME IInv, NEW t \in calls, CloseWindow(t)
  PROVE  IInv'
<1> DEFINE done == [agent EXCEPT !.armed = Never, !.generation = @ + 1]
<1>1. /\ agent \in AgentState /\ told \in Nat /\ answered \in Nat /\ timers \subseteq Timer
      /\ calls \subseteq Timer /\ t \in calls
      /\ agent.life \in Nat /\ agent.notified \in Nat /\ agent.acked \in Nat
      /\ agent.notified <= told /\ agent.acked <= answered /\ answered <= told
      /\ last \in Nat /\ Len(changes) \in Nat /\ told <= Len(changes) /\ last <= Len(changes)
      /\ DOMAIN changes = 1..Len(changes)
  <2>1. Len(changes) \in Nat /\ DOMAIN changes = 1..Len(changes)
    BY LenProperties DEF IInv, TypeOK
  <2> QED
    BY <2>1 DEF IInv, TypeOK, AgentState
<1>2. calls' = calls \ {t} /\ UNCHANGED <<time, changes, last, answered, closed>>
  BY DEF CloseWindow
<1>3. /\ done \in AgentState /\ done.armed = Never /\ done.generation = agent.generation + 1
      /\ done.life = agent.life /\ done.notified = agent.notified /\ done.acked = agent.acked
  <2>1. Never \in Timer /\ agent.generation + 1 \in Nat
    BY <1>1 DEF Never, Timer, AgentState
  <2> QED
    BY <1>1, <2>1 DEF AgentState
<1> HIDE DEF done
<1>4. Arms(agent, timers \cup calls) /\ Covered(agent, pending)
  BY DEF IInv, ArmInv
<1>5. CASE ~ Current(t) /\ UNCHANGED <<told, agent, pending, timers>>
  <2>1. TypeOK'
    BY <1>2, <1>5 DEF IInv, TypeOK
  <2>2. closed => agent.armed = Never /\ pending = {}
    BY DEF IInv, ArmInv
  <2>3. agent.armed # Never => t # agent.armed
    BY <1>4, <1>5, <2>2 DEF Current, Arms
  <2>4. Arms(agent', timers' \cup calls')
    <3>1. timers' \cup calls' \subseteq timers \cup calls
      BY <1>2, <1>5
    <3>2. agent.armed # Never => agent.armed \in timers' \cup calls'
      BY <1>2, <1>4, <1>5, <2>3 DEF Arms
    <3> QED
      BY <1>4, <1>5, <3>1, <3>2 DEF Arms
  <2>5. ArmInv'
    BY <1>2, <1>4, <1>5, <2>2, <2>4 DEF ArmInv
  <2>6. KeptInv'
    BY <1>2, <1>5 DEF IInv, KeptInv, Kept
  <2> QED
    BY <2>1, <2>5, <2>6 DEF IInv
<1>6. CASE Current(t) /\ pending = {} /\ agent' = done /\ UNCHANGED <<told, pending, timers>>
  <2>1. TypeOK'
    <3>1. agent' \in AgentState /\ agent'.notified <= told' /\ agent'.acked <= answered'
      BY <1>1, <1>2, <1>3, <1>6
    <3> QED
      BY <1>2, <1>6, <3>1 DEF IInv, TypeOK
  <2>2. Arms(agent', timers' \cup calls')
    <3>1. ASSUME NEW u \in timers' \cup calls'
          PROVE  /\ 0 < u.life /\ u.life <= agent'.life
                 /\ u.life = agent'.life => u.generation < agent'.generation
      <4>1. /\ u \in Timer /\ 0 < u.life /\ u.life <= agent.life
            /\ u.life = agent.life => u.generation <= agent.generation
        BY <1>1, <1>2, <1>4, <1>6 DEF Arms
      <4>2. /\ agent'.life = agent.life /\ agent'.generation = agent.generation + 1
            /\ u.generation \in Nat /\ agent.generation \in Nat
        BY <1>1, <1>3, <1>6, <4>1 DEF AgentState, Timer
      <4> QED
        BY <4>1, <4>2
    <3>2. \A u \in timers' \cup calls' : u.generation \in Nat /\ agent'.generation \in Nat
      BY <1>1, <1>2, <1>3, <1>6 DEF AgentState, Timer
    <3> QED
      BY <1>3, <1>6, <3>1, <3>2 DEF Arms
  <2>3. ArmInv'
    BY <1>2, <1>3, <1>6, <2>2 DEF ArmInv, Covered
  <2>4. KeptInv'
    <3>1. \A i \in DOMAIN changes : Kept(i, agent, pending) => Kept(i, agent, pending)'
      BY <1>2, <1>3, <1>6 DEF Kept
    <3> QED
      BY <1>2, <1>3, <1>6, <3>1 DEF IInv, KeptInv
  <2> QED
    BY <2>1, <2>3, <2>4 DEF IInv
<1>7. CASE Current(t) /\ Dispatch(done, last, timers)
  <2>1. /\ pending' = {} /\ timers' \subseteq timers /\ told' = Larger(told, last)
        /\ agent' = [done EXCEPT !.notified = Larger(@, last)]
    BY <1>3, <1>7 DEF Dispatch, Disarmed, Uncancelled
  <2>2. Larger(agent.notified, last) \in Nat
    BY <1>1 DEF Larger
  <2>3. /\ agent' \in AgentState /\ agent'.armed = Never /\ agent'.life = agent.life
        /\ agent'.generation = agent.generation + 1 /\ agent'.acked = agent.acked
        /\ agent'.notified = Larger(agent.notified, last)
    BY <1>3, <2>1, <2>2 DEF AgentState
  <2>4. /\ told' \in 0..Len(changes) /\ told <= told' /\ agent'.notified <= told'
        /\ last <= agent'.notified
    BY <1>1, <2>1, <2>3 DEF Larger
  <2>5. TypeOK'
    <3>1. answered' \in 0..told' /\ agent'.acked <= answered'
      BY <1>1, <1>2, <2>3, <2>4
    <3> QED
      BY <1>2, <2>1, <2>3, <2>4, <3>1 DEF IInv, TypeOK
  <2>6. Arms(agent', timers' \cup calls')
    <3>1. ASSUME NEW u \in timers' \cup calls'
          PROVE  /\ 0 < u.life /\ u.life <= agent'.life
                 /\ u.life = agent'.life => u.generation < agent'.generation
      <4>1. /\ u \in Timer /\ 0 < u.life /\ u.life <= agent.life
            /\ u.life = agent.life => u.generation <= agent.generation
        BY <1>1, <1>2, <1>4, <2>1 DEF Arms
      <4>2. /\ agent'.life = agent.life /\ agent'.generation = agent.generation + 1
            /\ u.generation \in Nat /\ agent.generation \in Nat
        BY <1>1, <2>3, <4>1 DEF AgentState, Timer
      <4> QED
        BY <4>1, <4>2
    <3>2. \A u \in timers' \cup calls' : u.generation \in Nat /\ agent'.generation \in Nat
      BY <1>1, <1>2, <2>1, <2>3 DEF AgentState, Timer
    <3> QED
      BY <2>3, <3>1, <3>2 DEF Arms
  <2>7. ArmInv'
    BY <2>1, <2>3, <2>6 DEF ArmInv, Covered
  <2>8. KeptInv'
    <3> SUFFICES ASSUME NEW i \in DOMAIN changes
                 PROVE  /\ changes[i].life <= agent.life
                        /\ changes[i].life = agent.life /\ agent.life > 0 =>
                             i <= last /\ Kept(i, agent, pending)'
      BY <1>2, <2>3 DEF KeptInv
    <3>1. /\ changes[i].life <= agent.life
          /\ changes[i].life = agent.life /\ agent.life > 0 => i <= last
      BY DEF IInv, KeptInv
    <3>2. i <= last => i <= agent'.notified
      BY <1>1, <2>3, <2>4 DEF AgentState
    <3> QED
      BY <3>1, <3>2 DEF Kept
  <2> QED
    BY <2>5, <2>7, <2>8 DEF IInv
<1> QED
  BY <1>5, <1>6, <1>7 DEF CloseWindow, done

\* The run closes: what was armed is given up and nothing is pending.
LEMMA CloseKeeps ==
  ASSUME IInv, Close
  PROVE  IInv'
<1>1. /\ agent \in AgentState /\ timers \subseteq Timer /\ calls \subseteq Timer
  BY DEF IInv, TypeOK
<1>2. /\ closed' = TRUE /\ agent' = Disarmed(agent) /\ pending' = {}
      /\ timers' \subseteq timers
      /\ UNCHANGED <<time, changes, last, told, answered, calls>>
  BY DEF Close, record, Uncancelled
<1>3. /\ agent' \in AgentState /\ agent'.life = agent.life /\ agent'.acked = agent.acked
      /\ agent'.notified = agent.notified /\ agent'.armed = Never
      /\ agent'.generation =
           IF agent.armed = Never THEN agent.generation ELSE agent.generation + 1
  BY <1>1, <1>2, DisarmedKeeps
<1>4. TypeOK'
  BY <1>2, <1>3 DEF IInv, TypeOK
<1>5. ASSUME NEW t \in timers' \cup calls'
      PROVE  /\ 0 < t.life /\ t.life <= agent'.life
             /\ t.life = agent'.life => t.generation <= agent'.generation
             /\ ~ (t.life = agent'.life /\ t.generation = agent'.generation)
  <2>1. /\ 0 < t.life /\ t.life <= agent.life /\ t \in Timer
        /\ t.life = agent.life => t.generation <= agent.generation
        /\ t.life = agent.life /\ t.generation = agent.generation => t = agent.armed
    BY <1>1, <1>2 DEF IInv, ArmInv, Arms
  <2>2. t # Never
    BY <2>1 DEF Never
  <2> QED
    BY <1>1, <1>3, <2>1, <2>2 DEF AgentState, Timer
<1>6. ArmInv'
  BY <1>2, <1>3, <1>5 DEF ArmInv, Arms, Covered
<1>7. KeptInv'
  BY <1>2, <1>3 DEF IInv, KeptInv
<1> QED
  BY <1>4, <1>6, <1>7 DEF IInv

LEMMA IInvStep == IInv /\ [Next]_vars => IInv'
<1> SUFFICES ASSUME IInv, [Next]_vars PROVE IInv'
  OBVIOUS
<1>1. CASE \E r \in Regions : Write(r)
  BY <1>1, WriteKeeps
<1>2. CASE \/ \E r \in Regions : WriteElsewhere(r)
           \/ NotifyElsewhere \/ Tick
           \/ \E n \in 1..MaxSequence : Answer(n) \/ NoteAnswer(n)
  BY <1>2, OthersKeep
<1>3. CASE Register
  BY <1>3, RegisterKeeps
<1>4. CASE NotifyDue \/ Relay
  <2>1. agent.notified \in Nat /\ 0 \in Nat
    BY DEF IInv, TypeOK, AgentState
  <2> QED
    BY <1>4, <2>1, TakeTailKeeps DEF NotifyDue, Relay
<1>5. CASE Close
  BY <1>5, CloseKeeps
<1>6. CASE \E t \in timers : Begin(t)
  BY <1>6, BeginKeeps
<1>7. CASE \E t \in calls : CloseWindow(t)
  BY <1>7, CloseWindowKeeps
<1>8. CASE UNCHANGED vars
  BY <1>8 DEF vars, record, IInv, TypeOK, ArmInv, KeptInv, Kept
<1> QED
  BY <1>1, <1>2, <1>3, <1>4, <1>5, <1>6, <1>7, <1>8 DEF Next

LEMMA IInvHolds == Spec => []IInv
BY IInvInit, IInvStep, PTL DEF Spec

-----------------------------------------------------------------------------
(* The theorems.                                                           *)

\* Every variable has its type: one due instant a region, and cursors of the process
\* that are never ahead of the store's (_AgentState, _control.py:609-621).
THEOREM WindowTypeCorrect == Spec => []TypeOK
<1>1. IInv => TypeOK
  BY DEF IInv
<1> QED
  BY <1>1, IInvHolds, PTL

\* What is pending always has its timer: a process nobody polls still tells its agent
\* (_evaluate_dispatch_locked, _control.py:1578-1587).
THEOREM WindowsAreArmed == Spec => []PendingIsArmed
<1>1. IInv => PendingIsArmed
  BY DEF IInv, ArmInv, Arms, Covered, PendingIsArmed
<1> QED
  BY <1>1, IInvHolds, PTL

\* A write this process took is told by the instant its region's window passes, once
\* the calls that are due have run (docs/concepts/control.md:86).
THEOREM WritesAreToldByDue == Spec => []ToldByDue
<1>1. ASSUME IInv PROVE ToldByDue
  <2> SUFFICES ASSUME NEW i \in DOMAIN changes,
                      ~ closed, changes[i].life = agent.life, agent.life > 0,
                      changes[i].at + Window[changes[i].region] <= time,
                      \A t \in timers \cup calls : t.at > time
               PROVE  i <= told
    BY DEF ToldByDue
  <2>1. /\ agent.notified \in Nat /\ agent.acked \in Nat /\ told \in Nat /\ answered \in Nat
        /\ agent.notified <= told /\ agent.acked <= answered /\ answered <= told
        /\ time \in Nat /\ DOMAIN changes = 1..Len(changes) /\ Len(changes) \in Nat
        /\ changes[i] \in [region : Regions, at : Nat, life : Nat]
    <3>1. Len(changes) \in Nat /\ DOMAIN changes = 1..Len(changes)
      BY <1>1, LenProperties DEF IInv, TypeOK
    <3>2. changes[i] \in [region : Regions, at : Nat, life : Nat]
      BY <1>1, <3>1, ElementOfSeq DEF IInv, TypeOK
    <3> QED
      BY <1>1, <3>1, <3>2 DEF IInv, TypeOK, AgentState
  <2>2. Kept(i, agent, pending)
    BY <1>1 DEF IInv, KeptInv
  <2>3. ASSUME NEW x \in pending, x.region = changes[i].region,
               x.due <= changes[i].at + Window[x.region]
        PROVE  FALSE
    <3>1. agent.armed \in timers \cup calls /\ agent.armed.at <= x.due
      BY <1>1 DEF IInv, ArmInv, Arms, Covered
    <3>2. agent.armed.at \in Nat /\ x.due \in Nat /\ Window[x.region] \in Nat
      BY <1>1, WindowsAreNat DEF IInv, TypeOK, AgentState, Timer, Entry
    <3> QED
      BY SMTT(30), <2>1, <2>3, <3>1, <3>2
  <2> QED
    BY <2>1, <2>2, <2>3 DEF Kept
<1> QED
  BY <1>1, IInvHolds, PTL

\* A call that finds another window armed than its own, or none, changes nothing
\* while the registration stands (_close_window, _control.py:1702-1714).
THEOREM OwnStaleCallsAreHarmless == Spec => OwnStaleCallChangesNothing
<1> DEFINE Harmless == \A t \in calls \ calls' :
             t # agent.armed /\ t.life = agent.life => UNCHANGED <<told, agent, pending, timers>>
<1>1. ASSUME IInv, [Next]_vars
      PROVE  Harmless
  <2> SUFFICES ASSUME NEW t \in calls \ calls', t # agent.armed, t.life = agent.life
               PROVE  UNCHANGED <<told, agent, pending, timers>>
    OBVIOUS
  <2>1. CASE \E u \in calls : CloseWindow(u)
    <3>1. PICK u \in calls : CloseWindow(u)
      BY <2>1
    <3>2. u = t
      BY <3>1 DEF CloseWindow
    <3>3. ~ Current(t)
      BY <1>1 DEF IInv, ArmInv, Arms, Current
    <3> QED
      BY <3>1, <3>2, <3>3 DEF CloseWindow
  <2>2. CASE \E u \in timers : Begin(u)
    BY <2>2 DEF Begin
  <2>3. CASE ~ (\E u \in calls : CloseWindow(u)) /\ ~ (\E u \in timers : Begin(u))
    <3>1. calls' = calls
      BY <1>1, <2>3 DEF Next, vars, Write, WriteElsewhere, NotifyElsewhere, Answer, NoteAnswer,
         Register, NotifyDue, Relay, TakeTail, Tick, Close
    <3> QED
      BY <3>1
  <2> QED
    BY <2>1, <2>2, <2>3
<1>2. IInv /\ [Next]_vars => [Harmless]_vars
  BY <1>1
<1> QED
  BY <1>2, IInvHolds, PTL DEF Spec, OwnStaleCallChangesNothing
=============================================================================
