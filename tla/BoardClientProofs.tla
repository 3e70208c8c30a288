-------------------------- MODULE BoardClientProofs --------------------------
(***************************************************************************)
(* Theorems of BoardClient, for any callers, calls, attempts, keys and     *)
(* regions, and any network.                                               *)
(***************************************************************************)
EXTENDS BoardClient, FiniteSetTheorems, SequenceTheorems, WellFoundedInduction, TLAPS

Ops == {"write", "set_premise", "read_level", "read_board", "ack"}
ToWrite(request) == request.op \in {"write", "set_premise"}
Caller == [caller : Callers \cup {"nobody"}, turn : Nat]

\* What every request that is sent has, whichever operation it is of.
IsRequest(request) ==
  /\ DOMAIN request = DOMAIN Blank
  /\ request.op \in Ops
  /\ request.key \in Keys \cup {NoKey} /\ request.expected \in Nat /\ request.number \in Nat
  /\ ToWrite(request) => request.region \in Region
  /\ request.op = "ack" => request.agent \in Agents

BoardType ==
  /\ log \in Seq(Entry) /\ author \in Seq(Caller) /\ Len(author) = Len(log)
  /\ run \in {"open", "closed"} /\ holds \in BOOLEAN
  /\ notified \in [Agents -> Nat] /\ acked \in [Agents -> Nat]
  /\ \A a \in Agents : acked[a] <= notified[a] /\ notified[a] <= Len(log)

NetType ==
  \A m \in net :
    /\ m.by \in [caller : Callers, turn : Nat] /\ 1 <= m.by.turn
    /\ m.by.turn <= turn[m.by.caller]
    /\ IsRequest(m.request)

CallersType ==
  /\ attempt \in [Callers -> 0..Attempts] /\ turn \in [Callers -> 0..MaxCalls]
  /\ DOMAIN asked = Callers
  /\ \A c \in Callers : attempt[c] > 0 => IsRequest(asked[c]) /\ turn[c] > 0
  /\ NetType

TypeInv == BoardType /\ CallersType

\* Every entry is somebody's of a call that has been made.
AuthorsCalled ==
  \A i \in DOMAIN author :
    \/ author[i] = Nobody
    \/ /\ author[i].caller \in Callers /\ 1 <= author[i].turn
       /\ author[i].turn <= turn[author[i].caller]

\* What is on the way for one call has one key and one operation ...
OneRequest ==
  /\ \A m, n \in net : m.by = n.by => /\ m.request.key = n.request.key
                                      /\ m.request.op = n.request.op
  /\ \A m \in net, c \in Callers : m.by = By(c) => /\ m.request.key = asked[c].key
                                                  /\ m.request.op = asked[c].op

\* ... and what may not be sent again is on the way once.
SentOnce ==
  \A m, n \in net : m.by = n.by /\ ~ Repeatable(m.request) => m = n

\* What a call has written carries its key; and what is still on the way for it
\* then has one, which the store knows.
WrittenUnderKey ==
  /\ \A m \in net, i \in DOMAIN author :
       author[i] = m.by => Repeatable(m.request) /\ log[i].key = m.request.key
  /\ \A c \in Callers, i \in DOMAIN author :
       author[i] = By(c) /\ author[i] # Nobody => log[i].key = asked[c].key

OnceInv ==
  /\ AuthorsCalled /\ OneRequest /\ SentOnce /\ WrittenUnderKey /\ AtMostOnce

-----------------------------------------------------------------------------
(* Lemmas about the operators.                                             *)

LEMMA GreaterOfTwo ==
  ASSUME NEW a \in Nat, NEW b \in Nat
  PROVE  Max({a, b}) \in {a, b} /\ Max({a, b}) >= a /\ Max({a, b}) >= b
<1>1. CASE a >= b
  <2>1. a \in {a, b} /\ \A y \in {a, b} : a >= y
    BY <1>1
  <2> QED
    BY <2>1 DEF Max
<1>2. CASE b >= a
  <2>1. b \in {a, b} /\ \A y \in {a, b} : b >= y
    BY <1>2
  <2> QED
    BY <2>1 DEF Max
<1> QED
  BY <1>1, <1>2

\* A call is of a request, and what reads the next page asks for the same.
LEMMA CallsAreRequests ==
  ASSUME BoardType, NEW request \in Calls
  PROVE  IsRequest(request)
<1>1. \A l \in Levels, k \in Keys \cup {NoKey}, a \in Agents : IsRequest(WriteRequest(l, k, a))
  BY DEF WriteRequest, IsRequest, Blank, Ops, ToWrite, Region
<1>2. \A p \in Premises, k \in Keys \cup {NoKey}, a \in Agents, v \in Nat :
        IsRequest(PremiseRequest(p, k, a, v))
  BY DEF PremiseRequest, IsRequest, Blank, Ops, ToWrite, Region
<1>3. \A l, limit : IsRequest(LevelRequest(l, limit))
  BY DEF LevelRequest, IsRequest, Blank, Ops, ToWrite
<1>4. \A limit : IsRequest(BoardRequest(limit))
  BY DEF BoardRequest, IsRequest, Blank, Ops, ToWrite
<1>5. \A a \in Agents, n \in Nat : IsRequest(AckRequest(a, n))
  BY DEF AckRequest, IsRequest, Blank, Ops, ToWrite
<1>6. \A a \in Agents : \A n \in 1..notified[a] : n \in Nat
  BY DEF BoardType
<1>7. \A p \in Premises : \A v \in 0..WritesTo(p) : v \in Nat
  OBVIOUS
<1> QED
  BY <1>1, <1>2, <1>3, <1>4, <1>5, <1>6, <1>7 DEF Calls

LEMMA NextPageIsRequest ==
  ASSUME NEW request, IsRequest(request), NEW from
  PROVE  /\ IsRequest([request EXCEPT !.from = from])
         /\ [request EXCEPT !.from = from].key = request.key
         /\ [request EXCEPT !.from = from].op = request.op
  BY DEF IsRequest, Blank, ToWrite

\* Only a write whose key is not in the log is answered as one that was made.
LEMMA OnlyFreshWrites ==
  ASSUME NEW request, IsRequest(request), NEW answer \in Answers(request), answer.status = 201
  PROVE  ToWrite(request) /\ WithKey(request.key) = {}
<1>1. CASE request.op \in {"read_level", "read_board"}
  <2>1. answer = ReadReply(request)
    BY <1>1 DEF Answers
  <2>2. answer.status \in {200, 404}
    BY <2>1 DEF ReadReply, Status
  <2> QED
    BY <2>2
<1>2. CASE request.op = "ack"
  <2>1. answer = AckReply(request)
    BY <1>2 DEF Answers
  <2> QED
    BY <2>1 DEF AckReply, Status
<1>3. CASE ToWrite(request)
  <2>1. PICK admitted \in BOOLEAN : answer = WriteReply(request, admitted)
    BY <1>3 DEF Answers, ToWrite
  <2>2. Refusal(request, admitted).status \in {404, 410, 422, 0}
    BY DEF Refusal, Status
  <2>3. answer = StoreReply(request)
    BY <2>1, <2>2 DEF WriteReply
  <2>4. CASE WithKey(request.key) # {}
    BY <2>3, <2>4 DEF StoreReply, Status
  <2> QED
    BY <1>3, <2>4
<1> QED
  BY <1>1, <1>2, <1>3 DEF IsRequest, Ops, ToWrite

-----------------------------------------------------------------------------
(* Type correctness.                                                       *)

LEMMA TypeInit == Init0 => TypeInv
  BY AttemptsAtLeastOne
  DEF Init0, InitBoard, Init, TypeInv, BoardType, CallersType, NetType

LEMMA WriteKeepsBoard ==
  ASSUME BoardType, NEW request, NEW by \in Caller, Writes(request, by),
         request.region \in Region, request.key \in Keys \cup {NoKey}, request.expected \in Nat
  PROVE  BoardType'
<1>1. [region |-> request.region, key |-> request.key, expected |-> request.expected] \in Entry
  BY DEF Entry, Region
<1> QED
  BY <1>1 DEF BoardType, Writes, Extend

LEMMA HandleKeepsBoard ==
  ASSUME TypeInv, NEW m \in net, NEW answer \in Answers(m.request),
         Handle(m.request, m.by, answer)
  PROVE  BoardType'
<1>1. IsRequest(m.request) /\ m.by \in Caller
  BY DEF TypeInv, CallersType, NetType, Caller
<1>2. CASE answer.status = 201 /\ Writes(m.request, m.by)
  <2>1. m.request.region \in Region
    BY <1>1, <1>2, OnlyFreshWrites DEF IsRequest
  <2> QED
    BY <1>1, <1>2, <2>1, WriteKeepsBoard DEF TypeInv, IsRequest
<1>3. CASE m.request.number <= notified[m.request.agent] /\ Acknowledges(m.request)
  <2> DEFINE a == m.request.agent
             n == m.request.number
  <2>1. n \in Nat
    BY <1>1 DEF IsRequest
  <2>2. acked' = [acked EXCEPT ![a] = Max({acked[a], n})]
        /\ UNCHANGED <<log, author, run, holds, notified>>
    BY <1>3 DEF Acknowledges
  <2>3. ASSUME a \in Agents PROVE Max({acked[a], n}) \in Nat /\ Max({acked[a], n}) <= notified[a]
    <3>1. acked[a] \in Nat /\ acked[a] <= notified[a] /\ n <= notified[a] /\ notified[a] \in Nat
      BY <1>3, <2>3 DEF TypeInv, BoardType
    <3> HIDE DEF n
    <3>2. Max({acked[a], n}) \in {acked[a], n}
      BY <2>1, <3>1, GreaterOfTwo
    <3> QED
      BY <2>1, <3>1, <3>2
  <2> HIDE DEF a, n
  <2> QED
    BY <2>2, <2>3 DEF TypeInv, BoardType
<1>4. CASE UNCHANGED board
  BY <1>4 DEF board, TypeInv, BoardType
<1> QED
  BY <1>2, <1>3, <1>4 DEF Handle

\* What happens to the board without its callers.
LEMMA ElsewhereKeepsBoard ==
  ASSUME BoardType, Elsewhere
  PROVE  BoardType'
<1>1. ASSUME NEW r \in Region, WriteElsewhere(r) PROVE BoardType'
  <2> DEFINE v == IF r \in Levels THEN 0 ELSE WritesTo(r)
             entry == [region |-> r, key |-> NoKey, expected |-> v]
  <2>1. WritesTo(r) \in Nat
    <3>1. IsFiniteSet(DOMAIN log)
      BY FS_Interval DEF BoardType
    <3> QED
      BY <3>1, FS_Subset, FS_CardinalityType DEF WritesTo
  <2>2. entry \in Entry /\ Nobody \in Caller
    BY <2>1 DEF Entry, Region, Nobody, Caller
  <2>3. /\ log' = Append(log, entry) /\ author' = Append(author, Nobody)
        /\ UNCHANGED <<run, holds, notified, acked>>
    BY <1>1 DEF WriteElsewhere, Extend
  <2> HIDE DEF entry
  <2> QED
    BY <2>2, <2>3 DEF BoardType
<1>2. ASSUME NEW a \in Agents, Notify(a) PROVE BoardType'
  <2>1. Len(log) \in Nat
    BY DEF BoardType
  <2> QED
    BY <1>2, <2>1 DEF Notify, BoardType
<1>3. ASSUME CloseRun PROVE BoardType'
  <2>1. Len(log) \in Nat
    BY DEF BoardType
  <2> QED
    BY <1>3, <2>1 DEF CloseRun, BoardType
<1>4. ASSUME LetGo PROVE BoardType'
  <2>1. holds' \in BOOLEAN
    BY <1>4, Zenon DEF LetGo
  <2> QED
    BY <1>4, <2>1 DEF LetGo, BoardType
<1> QED
  BY <1>1, <1>2, <1>3, <1>4 DEF Elsewhere

\* A request that has arrived is on the way no longer.
LEMMA ArrivalKeepsCallers ==
  ASSUME CallersType, NEW m, NEW answer, Comes(m, answer)
  PROVE  CallersType' /\ net' \subseteq net /\ UNCHANGED <<asked, turn>>
  BY DEF CallersType, NetType, Comes

LEMMA CallKeepsCallers ==
  ASSUME TypeInv, NEW c \in Callers, NEW request \in Calls, Call(c, request)
  PROVE  CallersType' /\ UNCHANGED board
<1>1. IsRequest(request)
  BY CallsAreRequests DEF TypeInv
<1>2. /\ turn' = [turn EXCEPT ![c] = turn[c] + 1] /\ attempt' = [attempt EXCEPT ![c] = 1]
      /\ asked' = [asked EXCEPT ![c] = request] /\ turn[c] < MaxCalls
      /\ net' = net \cup {Sent(c, request, 1)} /\ UNCHANGED board
  BY DEF Call
<1>3. /\ turn \in [Callers -> 0..MaxCalls] /\ attempt \in [Callers -> 0..Attempts]
      /\ DOMAIN asked = Callers
  BY DEF TypeInv, CallersType
<1>4. turn' \in [Callers -> 0..MaxCalls] /\ attempt' \in [Callers -> 0..Attempts]
  BY <1>2, <1>3, AttemptsAtLeastOne
<1>5. /\ turn'[c] = turn[c] + 1 /\ turn[c] \in Nat
      /\ \A x \in Callers : turn[x] <= turn'[x] /\ turn[x] \in Nat /\ turn'[x] \in Nat
  BY <1>2, <1>3, AttemptsAtLeastOne
<1>6. \A x \in Callers : attempt'[x] > 0 => IsRequest(asked'[x]) /\ turn'[x] > 0
  BY <1>1, <1>2, <1>3, <1>5 DEF TypeInv, CallersType
<1>7. NetType'
  <2> SUFFICES ASSUME NEW m \in net'
               PROVE  /\ m.by \in [caller : Callers, turn : Nat] /\ 1 <= m.by.turn
                      /\ m.by.turn <= turn'[m.by.caller]
                      /\ IsRequest(m.request)
    BY DEF NetType
  <2>1. CASE m \in net
    BY <1>5, <2>1 DEF TypeInv, CallersType, NetType
  <2>2. CASE m = Sent(c, request, 1)
    BY <1>1, <1>5, <2>2 DEF Sent
  <2> QED
    BY <1>2, <2>1, <2>2
<1> QED
  BY <1>2, <1>3, <1>4, <1>6, <1>7 DEF CallersType

\* A caller that goes on sends its own request again, or the next page's.
LEMMA ProceedKeepsCallers ==
  ASSUME TypeInv, NEW c \in Callers, Proceed(c)
  PROVE  /\ CallersType' /\ UNCHANGED <<board, turn>>
         /\ asked'[c].key = asked[c].key /\ asked'[c].op = asked[c].op
         /\ \A x \in Callers \ {c} : asked'[x] = asked[x]
         /\ \/ net' = net
            \/ \E nth : net' = net \cup {Sent(c, asked'[c], nth)} /\ Repeatable(asked'[c])
<1>1. /\ turn \in [Callers -> 0..MaxCalls] /\ attempt \in [Callers -> 0..Attempts]
      /\ DOMAIN asked = Callers /\ Attempts \in Nat \ {0} /\ MaxCalls \in Nat
      /\ \A x \in Callers : attempt[x] > 0 => IsRequest(asked[x]) /\ turn[x] > 0
  BY AttemptsAtLeastOne DEF TypeInv, CallersType
<1>2. ASSUME UNCHANGED <<board, turn, asked, net>>, attempt' = [attempt EXCEPT ![c] = 0]
      PROVE  CallersType'
  BY <1>1, <1>2 DEF TypeInv, CallersType, NetType
<1>3. ASSUME NEW nth, NEW next, IsRequest(next), turn[c] > 0,
             net' = net \cup {Sent(c, next, nth)}, UNCHANGED turn
      PROVE  NetType'
  <2>1. /\ Sent(c, next, nth).by = [caller |-> c, turn |-> turn[c]]
        /\ Sent(c, next, nth).request = next /\ turn[c] \in Nat /\ 1 <= turn[c]
    BY <1>1, <1>3 DEF Sent
  <2> HIDE DEF Sent
  <2> QED
    BY <1>3, <2>1 DEF TypeInv, CallersType, NetType
<1>4. CASE SendAgain(c)
  <2>1. /\ attempt[c] > 0 /\ attempt[c] < Tries(asked[c])
        /\ attempt' = [attempt EXCEPT ![c] = attempt[c] + 1]
        /\ UNCHANGED <<board, asked, turn>>
        /\ net' = net \cup {Sent(c, asked[c], attempt[c] + 1)}
    BY <1>4 DEF SendAgain, Failed
  <2>2. Repeatable(asked[c]) /\ attempt[c] + 1 <= Attempts /\ attempt[c] \in Nat
    BY <1>1, <2>1 DEF Tries
  <2>3. attempt' \in [Callers -> 0..Attempts]
    BY <1>1, <2>1, <2>2
  <2>4. NetType'
    BY <1>1, <1>3, <2>1
  <2>5. CallersType'
    BY <1>1, <2>1, <2>3, <2>4 DEF CallersType
  <2> QED
    BY <2>1, <2>2, <2>5
<1>5. CASE GiveUp(c) \/ ReadAnswer(c)
  BY <1>2, <1>5 DEF GiveUp, ReadAnswer, Ends
<1>6. CASE ReadPage(c)
  <2> DEFINE next == [asked[c] EXCEPT !.from = NextPage(reply[c].page)]
  <2>1. CASE Follows(c)
    <3>1. /\ asked' = [asked EXCEPT ![c] = next] /\ attempt' = [attempt EXCEPT ![c] = 1]
          /\ UNCHANGED <<board, turn>> /\ net' = net \cup {Sent(c, next, 1)}
          /\ attempt[c] > 0 /\ asked[c].op \in {"read_level", "read_board"}
      BY <1>6, <2>1 DEF ReadPage, Arrived
    <3>2. IsRequest(next) /\ next.key = asked[c].key /\ next.op = asked[c].op
      BY <1>1, <3>1, NextPageIsRequest
    <3> HIDE DEF next
    <3>3. NetType'
      BY <1>1, <1>3, <3>1, <3>2
    <3>4. attempt' \in [Callers -> 0..Attempts]
      BY <1>1, <3>1
    <3>5. asked'[c] = next /\ \A x \in Callers \ {c} : asked'[x] = asked[x]
      BY <1>1, <3>1
    <3>6. \A x \in Callers : attempt'[x] > 0 => IsRequest(asked'[x]) /\ turn'[x] > 0
      BY <1>1, <3>1, <3>2, <3>5
    <3>7. CallersType'
      BY <1>1, <3>1, <3>3, <3>4, <3>6 DEF CallersType
    <3>8. Repeatable(next)
      BY <3>1, <3>2 DEF Repeatable
    <3> QED
      BY <3>1, <3>2, <3>5, <3>7, <3>8
  <2>2. CASE ~ Follows(c)
    BY <1>2, <1>6, <2>2 DEF ReadPage, Ends
  <2> QED
    BY <2>1, <2>2
<1> QED
  BY <1>4, <1>5, <1>6 DEF Proceed

LEMMA TypeStep == TypeInv /\ [Steps]_vars => TypeInv'
<1> SUFFICES ASSUME TypeInv, [Steps]_vars PROVE TypeInv'
  OBVIOUS
<1>1. ASSUME UNCHANGED board PROVE BoardType'
  BY <1>1 DEF board, TypeInv, BoardType
<1>2. ASSUME UNCHANGED callers PROVE CallersType'
  BY <1>2 DEF callers, TypeInv, CallersType, NetType
<1>3. ASSUME NEW m \in net, Answered(m) \/ Unheard(m) PROVE TypeInv'
  BY <1>3, HandleKeepsBoard, ArrivalKeepsCallers DEF Answered, Unheard, TypeInv
<1>4. ASSUME NEW m \in net, TurnedAway(m) PROVE TypeInv'
  BY <1>1, <1>4, ArrivalKeepsCallers DEF TurnedAway, TypeInv
<1>5. CASE Elsewhere
  BY <1>2, <1>5, ElsewhereKeepsBoard DEF Elsewhere, TypeInv
<1>6. ASSUME NEW c \in Callers, Proceed(c) \/ \E request \in Calls : Call(c, request)
      PROVE  TypeInv'
  BY <1>1, <1>6, CallKeepsCallers, ProceedKeepsCallers DEF TypeInv
<1>7. CASE UNCHANGED vars
  BY <1>1, <1>2, <1>7 DEF vars, TypeInv
<1> QED
  BY <1>3, <1>4, <1>5, <1>6, <1>7 DEF Steps, Network

\* Every reachable state of the callers, the network and the board has its type:
\* no call is sent more often than it may be.
THEOREM ClientTypeCorrect == ClientSpec => []TypeOK
<1>1. TypeInv => TypeOK
  <2> SUFFICES ASSUME TypeInv PROVE TypeOK
    OBVIOUS
  <2>1. \A a \in Agents : acked[a] \in 0..notified[a] /\ notified[a] <= Len(log)
    BY DEF TypeInv, BoardType
  <2> QED
    BY <2>1 DEF TypeInv, BoardType, CallersType, NetType, TypeOK
<1> QED
  BY <1>1, TypeInit, TypeStep, PTL DEF ClientSpec

-----------------------------------------------------------------------------
(* One call is at most one write.                                          *)

LEMMA OnceInit == Init0 => OnceInv
  BY DEF Init0, InitBoard, OnceInv, AuthorsCalled, OneRequest, SentOnce, WrittenUnderKey,
         AtMostOnce, Init

\* Nothing is written and nothing more is sent.
LEMMA QuietKeepsOnce ==
  ASSUME OnceInv, net' \subseteq net, UNCHANGED <<log, author, asked, turn>>
  PROVE  OnceInv'
<1>1. AuthorsCalled' /\ AtMostOnce'
  BY DEF OnceInv, AuthorsCalled, AtMostOnce
<1>2. OneRequest' /\ SentOnce'
  BY DEF OnceInv, OneRequest, SentOnce, By
<1>3. WrittenUnderKey'
  BY DEF OnceInv, WrittenUnderKey, By
<1> QED
  BY <1>1, <1>2, <1>3 DEF OnceInv

\* What a write adds to the log and to who made it.
LEMMA Added ==
  ASSUME BoardType, NEW entry, NEW by,
         log' = Append(log, entry), author' = Append(author, by)
  PROVE  /\ DOMAIN author = DOMAIN log /\ DOMAIN author = 1..Len(log)
         /\ DOMAIN author' = DOMAIN log' /\ DOMAIN author' = 1..(Len(log) + 1)
         /\ Len(log) \in Nat
         /\ log'[Len(log) + 1] = entry /\ author'[Len(log) + 1] = by
         /\ \A i \in DOMAIN author : log'[i] = log[i] /\ author'[i] = author[i]
  BY DEF BoardType

\* A request that is carried out is the first of its call that is: another would
\* have left its key in the log, or could not have been sent again.
LEMMA WriteKeepsOnce ==
  ASSUME TypeInv, OnceInv, NEW m \in net, ToWrite(m.request), WithKey(m.request.key) = {},
         Writes(m.request, m.by), net' = net \ {m}, UNCHANGED <<asked, turn>>
  PROVE  OnceInv'
<1> DEFINE entry == [region |-> m.request.region, key |-> m.request.key,
                     expected |-> m.request.expected]
           new == Len(log) + 1
<1>1. log' = Append(log, entry) /\ author' = Append(author, m.by) /\ BoardType
  BY DEF Writes, Extend, TypeInv
<1>2. entry.key = m.request.key
  OBVIOUS
<1>3. m.by.caller \in Callers /\ 1 <= m.by.turn /\ m.by.turn <= turn[m.by.caller] /\ m.by # Nobody
  BY DEF TypeInv, CallersType, NetType, Nobody
<1> HIDE DEF entry
<1>4. /\ DOMAIN author = DOMAIN log /\ DOMAIN author = 1..Len(log)
      /\ DOMAIN author' = DOMAIN log' /\ DOMAIN author' = 1..new /\ Len(log) \in Nat
      /\ log'[new] = entry /\ author'[new] = m.by
      /\ \A i \in DOMAIN author : log'[i] = log[i] /\ author'[i] = author[i]
  BY <1>1, Added
<1>5. \A i \in DOMAIN author : author[i] # m.by
  <2> SUFFICES ASSUME NEW i \in DOMAIN author, author[i] = m.by PROVE FALSE
    OBVIOUS
  <2>1. Repeatable(m.request) /\ log[i].key = m.request.key
    BY DEF OnceInv, WrittenUnderKey
  <2>2. i \in WithKey(m.request.key)
    BY <1>4, <2>1 DEF WithKey, Repeatable, ToWrite
  <2> QED
    BY <2>2
<1> HIDE DEF new
<1>6. \A i \in DOMAIN author' : i \in DOMAIN author \/ i = new
  BY <1>4 DEF new
<1>7. AuthorsCalled'
  BY <1>3, <1>4, <1>6 DEF OnceInv, AuthorsCalled
<1>8. OneRequest' /\ SentOnce'
  BY DEF OnceInv, OneRequest, SentOnce, By
<1>9. AtMostOnce'
  <2> SUFFICES ASSUME NEW i \in DOMAIN log', NEW j \in DOMAIN log',
                      author'[i] = author'[j], author'[i] # Nobody
               PROVE  i = j
    BY DEF AtMostOnce
  <2>1. CASE i \in DOMAIN author /\ j \in DOMAIN author
    BY <1>4, <2>1 DEF OnceInv, AtMostOnce
  <2>2. CASE i = new \/ j = new
    BY <1>4, <1>5, <1>6, <2>2
  <2> QED
    BY <1>4, <1>6, <2>1, <2>2
<1>10. \A n \in net' : n.by = m.by => Repeatable(n.request) /\ n.request.key = m.request.key
  <2> SUFFICES ASSUME NEW n \in net', n.by = m.by
               PROVE  Repeatable(n.request) /\ n.request.key = m.request.key
    OBVIOUS
  <2>1. n \in net /\ n # m
    OBVIOUS
  <2> QED
    BY <2>1 DEF OnceInv, OneRequest, SentOnce
<1>11. \A n \in net', i \in DOMAIN author' :
          author'[i] = n.by => Repeatable(n.request) /\ log'[i].key = n.request.key
  <2> SUFFICES ASSUME NEW n \in net', NEW i \in DOMAIN author', author'[i] = n.by
               PROVE  Repeatable(n.request) /\ log'[i].key = n.request.key
    OBVIOUS
  <2>1. CASE i \in DOMAIN author
    BY <1>4, <2>1 DEF OnceInv, WrittenUnderKey
  <2>2. CASE i = new
    BY <1>2, <1>4, <1>10, <2>2
  <2> QED
    BY <1>6, <2>1, <2>2
<1>12. \A c \in Callers, i \in DOMAIN author' :
          author'[i] = By(c) /\ author'[i] # Nobody => log'[i].key = asked[c].key
  <2> SUFFICES ASSUME NEW c \in Callers, NEW i \in DOMAIN author',
                      author'[i] = By(c), author'[i] # Nobody
               PROVE  log'[i].key = asked[c].key
    OBVIOUS
  <2>1. CASE i \in DOMAIN author
    BY <1>4, <2>1 DEF OnceInv, WrittenUnderKey
  <2>2. CASE i = new
    BY <1>2, <1>4, <2>2 DEF OnceInv, OneRequest
  <2> QED
    BY <1>6, <2>1, <2>2
<1>13. WrittenUnderKey'
  <2>1. \A c \in Callers : By(c)' = By(c) /\ asked'[c] = asked[c]
    BY DEF By
  <2> QED
    BY <1>11, <1>12, <2>1 DEF WrittenUnderKey, Repeatable
<1> QED
  BY <1>7, <1>8, <1>9, <1>13 DEF OnceInv

\* What others write is nobody's call.
LEMMA OthersKeepOnce ==
  ASSUME TypeInv, OnceInv, NEW entry, log' = Append(log, entry),
         author' = Append(author, Nobody), UNCHANGED <<net, asked, turn>>
  PROVE  OnceInv'
<1> DEFINE new == Len(log) + 1
<1>1. /\ DOMAIN author = DOMAIN log /\ DOMAIN author = 1..Len(log)
      /\ DOMAIN author' = DOMAIN log' /\ DOMAIN author' = 1..new /\ Len(log) \in Nat
      /\ author'[new] = Nobody
      /\ \A i \in DOMAIN author : log'[i] = log[i] /\ author'[i] = author[i]
  BY Added DEF TypeInv
<1>2. \A i \in DOMAIN author' :
        \/ i \in DOMAIN author /\ author'[i] = author[i] /\ log'[i] = log[i]
        \/ author'[i] = Nobody
  BY <1>1
<1>3. \A m \in net : m.by # Nobody
  BY DEF TypeInv, CallersType, NetType, Nobody
<1> HIDE DEF new
<1>4. AuthorsCalled'
  BY <1>1, <1>2 DEF OnceInv, AuthorsCalled
<1>5. OneRequest' /\ SentOnce'
  BY DEF OnceInv, OneRequest, SentOnce, By
<1>6. AtMostOnce'
  BY ZenonT(40), <1>1, <1>2 DEF OnceInv, AtMostOnce
<1>7. WrittenUnderKey'
  <2>1. \A m \in net, i \in DOMAIN author' :
          author'[i] = m.by => Repeatable(m.request) /\ log'[i].key = m.request.key
    BY ZenonT(40), <1>2, <1>3 DEF OnceInv, WrittenUnderKey
  <2>2. \A c \in Callers, i \in DOMAIN author' :
          author'[i] = By(c) /\ author'[i] # Nobody => log'[i].key = asked[c].key
    BY ZenonT(40), <1>2 DEF OnceInv, WrittenUnderKey
  <2>3. \A c \in Callers : By(c)' = By(c)
    BY DEF By
  <2> QED
    BY ZenonT(40), <2>1, <2>2, <2>3 DEF WrittenUnderKey, Repeatable
<1> QED
  BY <1>4, <1>5, <1>6, <1>7 DEF OnceInv

\* A new call has written nothing, and nothing is on the way for it.
LEMMA CallKeepsOnce ==
  ASSUME TypeInv, OnceInv, NEW c \in Callers, NEW request, Call(c, request)
  PROVE  OnceInv'
<1> DEFINE by == [caller |-> c, turn |-> turn[c] + 1]
           sent == Sent(c, request, 1)
<1>1. /\ turn' = [turn EXCEPT ![c] = turn[c] + 1] /\ asked' = [asked EXCEPT ![c] = request]
      /\ net' = net \cup {sent} /\ UNCHANGED <<log, author>>
  BY DEF Call, board
<1>2. turn \in [Callers -> Nat] /\ DOMAIN asked = Callers
  BY AttemptsAtLeastOne DEF TypeInv, CallersType
<1>3. /\ sent.by = by /\ sent.request = request
      /\ By(c)' = by /\ asked'[c] = request
      /\ \A x \in Callers \ {c} : By(x)' = By(x) /\ asked'[x] = asked[x]
      /\ \A x \in Callers : turn[x] <= turn'[x] /\ turn[x] \in Nat /\ turn'[x] \in Nat
  BY <1>1, <1>2 DEF Sent, By
<1>4. \A i \in DOMAIN author : author[i] # by
  <2> SUFFICES ASSUME NEW i \in DOMAIN author, author[i] = by PROVE FALSE
    OBVIOUS
  <2>1. author[i].turn = turn[c] + 1 /\ author[i].caller = c /\ turn[c] \in Nat
    BY <1>2
  <2>2. by # Nobody
    BY <1>2 DEF Nobody
  <2> QED
    BY <2>1, <2>2 DEF OnceInv, AuthorsCalled
<1>5. \A m \in net : m.by # by
  BY <1>2 DEF TypeInv, CallersType, NetType
<1>6. \A x \in Callers \ {c} : By(x) # by
  BY DEF By
<1> HIDE DEF by, sent
<1>7. AuthorsCalled'
  <2>1. \A i \in DOMAIN author :
          author[i] # Nobody => author[i].turn \in Nat /\ author[i].caller \in Callers
    <3>1. \A i \in DOMAIN author : author[i] \in Caller
      BY DEF TypeInv, BoardType
    <3> QED
      BY <3>1 DEF OnceInv, AuthorsCalled, Caller
  <2> QED
    BY <1>1, <1>3, <2>1 DEF OnceInv, AuthorsCalled
<1>8. OneRequest'
  <2>1. \A m, n \in net' : m.by = n.by => /\ m.request.key = n.request.key
                                          /\ m.request.op = n.request.op
    BY <1>1, <1>3, <1>5 DEF OnceInv, OneRequest
  <2>2. \A m \in net', x \in Callers : m.by = By(x)' => /\ m.request.key = asked'[x].key
                                                       /\ m.request.op = asked'[x].op
    BY <1>1, <1>3, <1>5, <1>6 DEF OnceInv, OneRequest
  <2> QED
    BY <2>1, <2>2 DEF OneRequest
<1>9. SentOnce'
  BY <1>1, <1>3, <1>5 DEF OnceInv, SentOnce, Repeatable
<1>10. AtMostOnce'
  BY <1>1 DEF OnceInv, AtMostOnce
<1>11. WrittenUnderKey'
  <2>1. \A m \in net', i \in DOMAIN author :
          author[i] = m.by => Repeatable(m.request) /\ log[i].key = m.request.key
    BY <1>1, <1>3, <1>4 DEF OnceInv, WrittenUnderKey
  <2>2. \A x \in Callers, i \in DOMAIN author :
          author[i] = By(x)' /\ author[i] # Nobody => log[i].key = asked'[x].key
    BY <1>3, <1>4 DEF OnceInv, WrittenUnderKey
  <2> QED
    BY <1>1, <2>1, <2>2 DEF WrittenUnderKey, Repeatable
<1> QED
  BY <1>7, <1>8, <1>9, <1>10, <1>11 DEF OnceInv

\* What is sent again of a call may be, and asks for the same write.
LEMMA ProceedKeepsOnce ==
  ASSUME TypeInv, OnceInv, NEW c \in Callers, Proceed(c)
  PROVE  OnceInv'
<1>1. /\ UNCHANGED <<log, author, turn>> /\ CallersType'
      /\ asked'[c].key = asked[c].key /\ asked'[c].op = asked[c].op
      /\ \A x \in Callers \ {c} : asked'[x] = asked[x]
  BY ProceedKeepsCallers DEF board
<1>2. \A m \in net' \ net :
        /\ m.by = By(c) /\ Repeatable(m.request)
        /\ m.request.key = asked[c].key /\ m.request.op = asked[c].op
  <2>1. ASSUME NEW nth, net' = net \cup {Sent(c, asked'[c], nth)}, Repeatable(asked'[c]),
               NEW m \in net' \ net
        PROVE  /\ m.by = By(c) /\ Repeatable(m.request)
               /\ m.request.key = asked[c].key /\ m.request.op = asked[c].op
    BY <1>1, <2>1 DEF Sent, By
  <2> QED
    BY <2>1, ProceedKeepsCallers
<1>3. \A x \in Callers : /\ By(x)' = By(x)
                         /\ asked'[x].key = asked[x].key /\ asked'[x].op = asked[x].op
  BY <1>1 DEF By
<1>4. \A m \in net' : m.by # Nobody
  BY <1>1 DEF CallersType, NetType, Nobody
<1>5. AuthorsCalled' /\ AtMostOnce'
  BY <1>1 DEF OnceInv, AuthorsCalled, AtMostOnce
<1>6. OneRequest'
  <2>1. \A m \in net', x \in Callers : m.by = By(x) => /\ m.request.key = asked[x].key
                                                      /\ m.request.op = asked[x].op
    <3>1. \A x \in Callers : By(x) = By(c) => x = c
      BY DEF By
    <3> QED
      BY <1>2, <3>1 DEF OnceInv, OneRequest
  <2>2. \A m, n \in net' : m.by = n.by => /\ m.request.key = n.request.key
                                          /\ m.request.op = n.request.op
    BY <1>2, <2>1 DEF OnceInv, OneRequest
  <2> QED
    BY <1>3, <2>1, <2>2 DEF OneRequest
<1>7. SentOnce'
  <2> SUFFICES ASSUME NEW m \in net', NEW n \in net', m.by = n.by, ~ Repeatable(m.request)
               PROVE  m = n
    BY DEF SentOnce, Repeatable
  <2>1. m \in net
    BY <1>2
  <2>2. m.request.key = n.request.key /\ m.request.op = n.request.op
    BY <1>6 DEF OneRequest
  <2>3. n \in net
    BY <1>2, <2>2 DEF Repeatable
  <2> QED
    BY <2>1, <2>3 DEF OnceInv, SentOnce
<1>8. WrittenUnderKey'
  <2>1. \A m \in net', i \in DOMAIN author :
          author[i] = m.by => Repeatable(m.request) /\ log[i].key = m.request.key
    BY <1>2, <1>4 DEF OnceInv, WrittenUnderKey
  <2>2. \A x \in Callers, i \in DOMAIN author :
          author[i] = By(x)' /\ author[i] # Nobody => log[i].key = asked'[x].key
    BY <1>3 DEF OnceInv, WrittenUnderKey
  <2> QED
    BY <1>1, <2>1, <2>2 DEF WrittenUnderKey, Repeatable
<1> QED
  BY <1>5, <1>6, <1>7, <1>8 DEF OnceInv

LEMMA OnceStep == TypeInv /\ OnceInv /\ [Steps]_vars => OnceInv'
<1> SUFFICES ASSUME TypeInv, OnceInv, [Steps]_vars PROVE OnceInv'
  OBVIOUS
<1>1. ASSUME NEW m \in net, NEW answer \in Answers(m.request), NEW heard,
             Handle(m.request, m.by, answer), Comes(m, heard)
      PROVE  OnceInv'
  <2>1. net' = net \ {m} /\ UNCHANGED <<asked, turn>>
    BY <1>1 DEF Comes
  <2>2. CASE answer.status = 201 /\ Writes(m.request, m.by)
    <3>1. IsRequest(m.request)
      BY DEF TypeInv, CallersType, NetType
    <3> QED
      BY <2>1, <2>2, <3>1, OnlyFreshWrites, WriteKeepsOnce
  <2>3. CASE Acknowledges(m.request) \/ UNCHANGED board
    BY <2>1, <2>3, QuietKeepsOnce DEF Acknowledges, board
  <2> QED
    BY <1>1, <2>2, <2>3 DEF Handle
<1>2. ASSUME NEW m \in net, TurnedAway(m) PROVE OnceInv'
  BY <1>2, QuietKeepsOnce DEF TurnedAway, Comes, board
<1>3. CASE Elsewhere
  <2>1. UNCHANGED <<net, asked, turn>>
    BY <1>3 DEF Elsewhere, callers
  <2>2. ASSUME NEW r \in Region, WriteElsewhere(r) PROVE OnceInv'
    BY <2>1, <2>2, OthersKeepOnce DEF WriteElsewhere, Extend
  <2>3. ASSUME (\E a \in Agents : Notify(a)) \/ CloseRun \/ LetGo PROVE OnceInv'
    BY <2>1, <2>3, QuietKeepsOnce DEF Notify, CloseRun, LetGo
  <2> QED
    BY <1>3, <2>2, <2>3 DEF Elsewhere
<1>4. ASSUME NEW c \in Callers, Proceed(c) \/ \E request \in Calls : Call(c, request)
      PROVE  OnceInv'
  BY <1>4, CallKeepsOnce, ProceedKeepsOnce
<1>5. CASE UNCHANGED vars
  BY <1>5, QuietKeepsOnce DEF vars, board, callers
<1> QED
  BY <1>1, <1>2, <1>3, <1>4, <1>5 DEF Steps, Network, Answered, Unheard

\* One call is at most one write, whatever the network loses, delays or answers in
\* vain, however often the call is sent again, and whatever others write.
THEOREM CallsWriteOnce == ClientSpec => []AtMostOnce
<1>1. OnceInv => AtMostOnce
  BY DEF OnceInv
<1>2. TypeInv /\ OnceInv /\ [Steps]_vars => (TypeInv /\ OnceInv)'
  BY TypeStep, OnceStep
<1> QED
  BY <1>1, <1>2, TypeInit, OnceInit, PTL DEF ClientSpec
-----------------------------------------------------------------------------
(* An answer is true of the record and stays true.                         *)

Reads == {"read_level", "read_board"}

\* What a call asks for was sensible when it was made: a version the premise has
\* had, a notification the agent was told of.  What is on the way asks for the same.
AskedInv ==
  /\ DOMAIN reply = Callers /\ DOMAIN told = Callers
  /\ \A c \in Callers :
       /\ asked[c] = Blank \/ IsRequest(asked[c])
       /\ ToWrite(asked[c]) => asked[c].expected <= WritesTo(asked[c].region)
       /\ asked[c].op = "ack" => run = "closed" \/ asked[c].number <= notified[asked[c].agent]
       /\ attempt[c] > 0 => told[c].kind = "none"
  /\ \A m \in net, c \in Callers :
       m.by = By(c) => /\ m.request.region = asked[c].region
                       /\ m.request.expected = asked[c].expected

\* A key is in the log once.
KeysOnce == \A i, j \in DOMAIN log : log[i].key = log[j].key /\ log[i].key # NoKey => i = j

\* A call of this caller has been made and has written nothing.
Unmade(c) == turn[c] > 0 /\ \A i \in DOMAIN author : author[i] # By(c)

\* What an answer claims: the write is the call's own; it carries its key; it lost to
\* a version that is there; it was refused, and no attempt is left on the way.
Made(c, number) == turn[c] > 0 /\ number \in DOMAIN author /\ author[number] = By(c)
Known(c, number) == number \in WithKey(asked[c].key)
Lost(c) ==
  /\ asked[c].region \in Premises /\ asked[c].expected < WritesTo(asked[c].region)
  /\ Unmade(c) /\ SameWrite(asked[c]) = {}
TurnedDown(c) ==
  asked[c].key = NoKey => Unmade(c) /\ \A m \in net : m.by # By(c)

Errors == {"none", "unknown_board", "run_closed", "wrong_region_kind", "not_permitted",
           "admission", "idempotency_key_reused", "conflict"}

ReplyTrue(c) ==
  /\ reply[c].error \in Errors
  /\ reply[c].status = 201 => Made(c, reply[c].number)
  /\ reply[c].status = 200 /\ asked[c].op \notin Reads => Known(c, reply[c].number)
  /\ reply[c].error = "conflict" => reply[c].status = 409 /\ Lost(c)
  /\ reply[c].status \in {410, 422} => TurnedDown(c)

ToldTrue(c) ==
  /\ told[c].kind = "written" => Made(c, told[c].number)
  /\ told[c].kind = "repeated" => Known(c, told[c].number)
  /\ told[c].kind = "conflict" => Lost(c)
  /\ told[c].kind = "rejected" => TurnedDown(c)
  /\ told[c].kind # "unknown_notification"

AnswerInv == AskedInv /\ KeysOnce /\ \A c \in Callers : ReplyTrue(c) /\ ToldTrue(c)

\* The claims of one caller's answers that a step leaves standing.
Stand(c) ==
  /\ \A number : Made(c, number) => Made(c, number)'
  /\ \A number : Known(c, number) => Known(c, number)'
  /\ Lost(c) => Lost(c)'
  /\ TurnedDown(c) => TurnedDown(c)'

\* A caller that still means the same write.
SameCall(c) ==
  /\ turn'[c] = turn[c]
  /\ asked'[c].op = asked[c].op /\ asked'[c].key = asked[c].key
  /\ asked'[c].region = asked[c].region /\ asked'[c].expected = asked[c].expected

LEMMA TruthStands ==
  ASSUME NEW c \in Callers, Stand(c), SameCall(c), ReplyTrue(c), ToldTrue(c)
  PROVE  /\ reply'[c] = reply[c] => ReplyTrue(c)'
         /\ told'[c] = told[c] => ToldTrue(c)'
<1>1. ASSUME reply'[c] = reply[c] PROVE ReplyTrue(c)'
  BY <1>1 DEF ReplyTrue, Stand, SameCall
<1>2. ASSUME told'[c] = told[c] PROVE ToldTrue(c)'
  BY <1>2 DEF ToldTrue, Stand
<1> QED
  BY <1>1, <1>2

\* A caller that has no answer claims nothing.
LEMMA NothingClaimed ==
  ASSUME NEW c \in Callers
  PROVE  /\ reply'[c] \in {NoReply, Unavailable} => ReplyTrue(c)'
         /\ told'[c].kind \in {"none", "read", "unreachable"} => ToldTrue(c)'
  BY DEF ReplyTrue, ToldTrue, NoReply, Unavailable, Status, Errors

LEMMA VersionsRise ==
  ASSUME BoardType, NEW entry, log' = Append(log, entry), NEW r
  PROVE  WritesTo(r) \in Nat /\ WritesTo(r)' \in Nat /\ WritesTo(r) <= WritesTo(r)'
<1> DEFINE before == {i \in DOMAIN log : log[i].region = r}
           after == {i \in DOMAIN log' : log'[i].region = r}
<1>1. /\ DOMAIN log = 1..Len(log) /\ Len(log) \in Nat /\ DOMAIN log' = 1..(Len(log) + 1)
      /\ \A i \in DOMAIN log : log'[i] = log[i]
  BY DEF BoardType
<1>2. before \subseteq after /\ after \subseteq DOMAIN log'
  BY <1>1
<1>3. IsFiniteSet(DOMAIN log')
  BY <1>1, FS_Interval
<1>4. IsFiniteSet(after) /\ IsFiniteSet(before)
  BY <1>2, <1>3, FS_Subset
<1>5. Cardinality(before) \in Nat /\ Cardinality(after) \in Nat
      /\ Cardinality(before) <= Cardinality(after)
  BY <1>2, <1>4, FS_Subset, FS_CardinalityType
<1> QED
  BY <1>5 DEF WritesTo

\* Nothing is written, and nothing is sent of this call.
LEMMA QuietStands ==
  ASSUME NEW c \in Callers, SameCall(c), UNCHANGED <<log, author>>,
         \A m \in net' \ net : m.by # By(c)
  PROVE  Stand(c)
<1>1. By(c)' = By(c)
  BY DEF By, SameCall
<1>2. Unmade(c)' <=> Unmade(c)
  BY <1>1 DEF Unmade, SameCall
<1>3. SameWrite(asked[c])' = SameWrite(asked[c]) /\ WithKey(asked[c].key)' = WithKey(asked[c].key)
  BY DEF SameWrite, WithKey, SameCall
<1>4. WritesTo(asked[c].region)' = WritesTo(asked[c].region)
  BY DEF WritesTo, SameCall
<1>5. \A number : Made(c, number) => Made(c, number)'
  BY <1>1 DEF Made, SameCall
<1>6. \A number : Known(c, number) => Known(c, number)'
  BY <1>3 DEF Known
<1>7. Lost(c) => Lost(c)'
  BY <1>2, <1>3, <1>4 DEF Lost, SameCall
<1>8. TurnedDown(c) => TurnedDown(c)'
  BY <1>1, <1>2 DEF TurnedDown, SameCall
<1> QED
  BY <1>5, <1>6, <1>7, <1>8 DEF Stand

\* One write, of a request on the way or of somebody else.
Adds(entry, by) ==
  /\ log' = Append(log, entry) /\ author' = Append(author, by)
  /\ entry.region \in Premises => entry.expected = WritesTo(entry.region)
  /\ \/ by = Nobody
     \/ \E m \in net : /\ m.by = by /\ m.request.region = entry.region
                       /\ m.request.expected = entry.expected

\* What lost, or was refused for good, is not written by a late attempt either: it
\* names a version that is past, or no attempt is left.
LEMMA WriteStands ==
  ASSUME TypeInv, AskedInv, NEW entry, NEW by, Adds(entry, by),
         NEW c \in Callers, SameCall(c), net' \subseteq net
  PROVE  Stand(c)
<1> DEFINE new == Len(log) + 1
<1>1. /\ DOMAIN author = DOMAIN log /\ DOMAIN author = 1..Len(log)
      /\ DOMAIN author' = DOMAIN log' /\ DOMAIN author' = 1..new /\ Len(log) \in Nat
      /\ log'[new] = entry /\ author'[new] = by
      /\ \A i \in DOMAIN author : log'[i] = log[i] /\ author'[i] = author[i]
  BY Added DEF TypeInv, Adds
<1> HIDE DEF new
<1>2. \A i \in DOMAIN author' : i \in DOMAIN author \/ i = new
  BY <1>1 DEF new
<1>3. By(c)' = By(c)
  BY DEF By, SameCall
<1>4. \A i \in DOMAIN author : i \in DOMAIN author'
  BY <1>1 DEF new
<1>5. \A number : Made(c, number) => Made(c, number)'
  BY <1>1, <1>3, <1>4 DEF Made, SameCall
<1>6. \A number : Known(c, number) => Known(c, number)'
  BY <1>1, <1>4 DEF Known, WithKey, SameCall
<1>7. WritesTo(asked[c].region) \in Nat /\ WritesTo(asked[c].region)' \in Nat
      /\ WritesTo(asked[c].region) <= WritesTo(asked[c].region)'
  <2>1. /\ WritesTo(asked[c].region) \in Nat
        /\ Cardinality({i \in DOMAIN log' : log'[i].region = asked[c].region}) \in Nat
        /\ WritesTo(asked[c].region)
             <= Cardinality({i \in DOMAIN log' : log'[i].region = asked[c].region})
    <3>1. \A r : /\ WritesTo(r) \in Nat
                 /\ Cardinality({i \in DOMAIN log' : log'[i].region = r}) \in Nat
                 /\ WritesTo(r) <= Cardinality({i \in DOMAIN log' : log'[i].region = r})
      BY VersionsRise DEF TypeInv, Adds, WritesTo
    <3> QED
      BY <3>1
  <2> QED
    BY <2>1 DEF WritesTo, SameCall
<1>8. by = By(c) /\ turn[c] > 0 => entry.region = asked[c].region
                                   /\ entry.expected = asked[c].expected
                                   /\ \E m \in net : m.by = By(c)
  BY DEF Adds, Nobody, By, AskedInv
<1>9. ASSUME Unmade(c), by # By(c) PROVE Unmade(c)'
  BY <1>1, <1>2, <1>3, <1>9 DEF Unmade, SameCall
<1>10. ASSUME Lost(c) PROVE Lost(c)'
  <2>1. /\ asked[c].region \in Premises /\ asked[c].expected < WritesTo(asked[c].region)
        /\ Unmade(c) /\ turn[c] > 0 /\ SameWrite(asked[c]) = {}
    BY <1>10 DEF Lost, Unmade
  <2>2. entry.region = asked[c].region => entry.expected # asked[c].expected
    <3>1. WritesTo(asked[c].region) # asked[c].expected
      BY <1>7, <2>1
    <3> QED
      BY <2>1, <3>1 DEF Adds
  <2>3. Unmade(c)'
    BY <1>8, <1>9, <2>1, <2>2
  <2>4. SameWrite(asked[c])' = {}
    <3> SUFFICES ASSUME NEW i \in SameWrite(asked[c])' PROVE FALSE
      OBVIOUS
    <3>1. /\ i \in DOMAIN log' /\ log'[i].key = asked[c].key /\ asked[c].key # NoKey
          /\ log'[i].region = asked[c].region /\ log'[i].expected = asked[c].expected
      BY DEF SameWrite, WithKey, SameCall
    <3>2. i \in DOMAIN log /\ log'[i] = log[i]
      BY <1>1, <1>2, <2>2, <3>1
    <3>3. i \in SameWrite(asked[c])
      BY <3>1, <3>2 DEF SameWrite, WithKey
    <3> QED
      BY <2>1, <3>3
  <2>5. asked'[c].expected < WritesTo(asked[c].region)'
    <3>1. asked[c].expected \in Nat
      BY DEF AskedInv, IsRequest, Blank
    <3> QED
      BY <1>7, <2>1, <3>1 DEF SameCall
  <2> QED
    BY <2>1, <2>3, <2>4, <2>5 DEF Lost, SameCall
<1>11. ASSUME TurnedDown(c) PROVE TurnedDown(c)'
  BY <1>3, <1>8, <1>9, <1>11 DEF TurnedDown, Unmade, SameCall
<1> QED
  BY <1>5, <1>6, <1>10, <1>11 DEF Stand

\* What each answer says of the record at the moment it is given.
Says(request, answer) ==
  /\ answer.error \in Errors \cup {"unknown_notification"}
  /\ answer.error = "unknown_notification" =>
       request.op = "ack" /\ run # "closed" /\ ~ (request.number <= notified[request.agent])
  /\ answer.status = 201 => /\ ToWrite(request) /\ WithKey(request.key) = {}
                            /\ answer.number = Len(log) + 1
  /\ answer.status = 200 /\ request.op \notin Reads => answer.number \in WithKey(request.key)
  /\ answer.error = "conflict" =>
       /\ answer.status = 409 /\ ToWrite(request) /\ WithKey(request.key) = {}
       /\ request.region \in Premises /\ WritesTo(request.region) # request.expected
  /\ answer.status \in {410, 422} => ToWrite(request)

LEMMA AnswerKinds ==
  ASSUME NEW request, IsRequest(request), KeysOnce, NEW answer \in Answers(request)
  PROVE  Says(request, answer)
<1>1. CASE request.op \in Reads
  <2>1. answer = ReadReply(request)
    BY <1>1 DEF Answers, Reads
  <2>2. answer.status \in {200, 404} /\ answer.error \in {"none", "wrong_region_kind"}
    BY <2>1 DEF ReadReply, Status
  <2> QED
    BY <1>1, <2>2 DEF Says, Errors
<1>2. CASE request.op = "ack"
  <2>1. answer = AckReply(request)
    BY <1>2 DEF Answers
  <2> QED
    BY <1>2, <2>1 DEF Says, AckReply, Status, Errors
<1>3. CASE ToWrite(request)
  <2>1. PICK admitted \in BOOLEAN : answer = WriteReply(request, admitted)
    BY <1>3 DEF Answers, ToWrite
  <2>2. CASE Refusal(request, admitted).status # 0
    <3>1. answer = Refusal(request, admitted)
      BY <2>1, <2>2 DEF WriteReply
    <3>2. /\ answer.status \in {404, 410, 422}
          /\ answer.error \in Errors \ {"conflict"}
      BY <2>2, <3>1 DEF Refusal, Status, Errors
    <3> QED
      BY <1>3, <3>2 DEF Says, Errors
  <2>3. CASE Refusal(request, admitted).status = 0
    <3>1. answer = StoreReply(request)
      BY <2>1, <2>3 DEF WriteReply
    <3>2. CASE WithKey(request.key) # {}
      <4>1. PICK i : i \in WithKey(request.key)
        BY <3>2
      <4>2. WithKey(request.key) = {i}
        BY <4>1 DEF WithKey, KeysOnce
      <4>3. Max(WithKey(request.key)) = i
        BY <4>2 DEF Max
      <4> QED
        BY <3>1, <3>2, <4>1, <4>3 DEF Says, StoreReply, Status, Errors
    <3>3. CASE WithKey(request.key) = {}
      BY <1>3, <3>1, <3>3 DEF Says, StoreReply, Status, Errors
    <3> QED
      BY <3>2, <3>3
  <2> QED
    BY <2>2, <2>3
<1> QED
  BY <1>1, <1>2, <1>3 DEF IsRequest, Ops, ToWrite, Reads

LEMMA CallsAreSensible ==
  ASSUME BoardType, NEW request \in Calls
  PROVE  /\ ToWrite(request) => request.expected <= WritesTo(request.region)
         /\ request.op = "ack" => request.number <= notified[request.agent]
<1>1. \A r : WritesTo(r) \in Nat
  <2>1. IsFiniteSet(DOMAIN log)
    BY FS_Interval DEF BoardType
  <2> QED
    BY <2>1, FS_Subset, FS_CardinalityType DEF WritesTo
<1>2. \A l, k, a : LET request_ == WriteRequest(l, k, a)
                   IN  request_.op = "write" /\ request_.expected = 0
  BY DEF WriteRequest, Blank
<1>3. \A p, k, a, v : LET request_ == PremiseRequest(p, k, a, v)
                      IN  /\ request_.op = "set_premise" /\ request_.expected = v
                          /\ request_.region = p
  BY DEF PremiseRequest, Blank
<1>4. /\ \A l, limit : LevelRequest(l, limit).op = "read_level"
      /\ \A limit : BoardRequest(limit).op = "read_board"
  BY DEF LevelRequest, BoardRequest, Blank
<1>5. \A a, n : LET request_ == AckRequest(a, n)
                IN  request_.op = "ack" /\ request_.number = n /\ request_.agent = a
  BY DEF AckRequest, Blank
<1>6. CASE \E l \in Levels, k \in Keys \cup {NoKey}, a \in Agents : request = WriteRequest(l, k, a)
  BY <1>1, <1>2, <1>6 DEF ToWrite
<1>7. CASE \E p \in Premises, k \in Keys \cup {NoKey}, a \in Agents :
             \E v \in 0..WritesTo(p) : request = PremiseRequest(p, k, a, v)
  BY <1>1, <1>3, <1>7 DEF ToWrite
<1>8. CASE request.op \in Reads
  BY <1>8 DEF ToWrite, Reads
<1>9. CASE \E a \in Agents : \E n \in 1..notified[a] : request = AckRequest(a, n)
  <2>1. \A a \in Agents : notified[a] \in Nat
    BY DEF BoardType
  <2> QED
    BY <1>5, <1>9, <2>1 DEF ToWrite
<1> QED
  BY <1>4, <1>6, <1>7, <1>8, <1>9 DEF Calls, Reads

\* The record stands still, or one write that was admitted is added to it.
Grows ==
  \/ UNCHANGED <<log, author>>
  \/ \E entry, by : Adds(entry, by) /\ Fresh(entry.key)

\* The callers stand still, and nothing is sent.
Listen == UNCHANGED <<asked, turn, attempt, told>> /\ net' \subseteq net

LEMMA GrowthStands ==
  ASSUME TypeInv, AskedInv, KeysOnce, Grows, Listen
  PROVE  /\ KeysOnce'
         /\ \A c \in Callers :
              /\ Stand(c) /\ SameCall(c)
              /\ WritesTo(asked[c].region) \in Nat /\ WritesTo(asked[c].region)' \in Nat
              /\ WritesTo(asked[c].region) <= WritesTo(asked[c].region)'
<1>1. \A c \in Callers : SameCall(c)
  BY DEF Listen, SameCall
<1>2. CASE UNCHANGED <<log, author>>
  <2>1. \A c \in Callers : Stand(c)
    BY <1>1, <1>2, QuietStands DEF Listen
  <2>2. \A c \in Callers : /\ WritesTo(asked[c].region) \in Nat
                           /\ WritesTo(asked[c].region)' = WritesTo(asked[c].region)
    <3>1. IsFiniteSet(DOMAIN log)
      BY FS_Interval DEF TypeInv, BoardType
    <3> QED
      BY <1>2, <3>1, FS_Subset, FS_CardinalityType DEF WritesTo, Listen
  <2>3. KeysOnce'
    BY <1>2 DEF KeysOnce
  <2> QED
    BY <1>1, <2>1, <2>2, <2>3
<1>3. ASSUME NEW entry, NEW by, Adds(entry, by), Fresh(entry.key)
      PROVE  /\ KeysOnce'
             /\ \A c \in Callers :
                  /\ Stand(c) /\ SameCall(c)
                  /\ WritesTo(asked[c].region) \in Nat /\ WritesTo(asked[c].region)' \in Nat
                  /\ WritesTo(asked[c].region) <= WritesTo(asked[c].region)'
  <2>1. \A c \in Callers : Stand(c)
    BY <1>1, <1>3, WriteStands DEF Listen
  <2>2. \A r : /\ WritesTo(r) \in Nat
               /\ Cardinality({i \in DOMAIN log' : log'[i].region = r}) \in Nat
               /\ WritesTo(r) <= Cardinality({i \in DOMAIN log' : log'[i].region = r})
    BY <1>3, VersionsRise DEF TypeInv, Adds, WritesTo
  <2>3. \A c \in Callers :
          WritesTo(asked[c].region)'
            = Cardinality({i \in DOMAIN log' : log'[i].region = asked[c].region})
    BY DEF WritesTo, Listen
  <2>4. KeysOnce'
    <3>1. /\ DOMAIN log = 1..Len(log) /\ DOMAIN log' = 1..(Len(log) + 1)
          /\ log'[Len(log) + 1] = entry /\ \A i \in DOMAIN log : log'[i] = log[i]
      BY <1>3, Added DEF Adds, TypeInv
    <3>2. \A i \in DOMAIN log' : i \in DOMAIN log \/ i = Len(log) + 1
      BY <3>1 DEF TypeInv, BoardType
    <3>3. \A i \in DOMAIN log : entry.key # NoKey => log[i].key # entry.key
      BY <1>3 DEF Fresh
    <3> QED
      BY <3>1, <3>2, <3>3 DEF KeysOnce
  <2> QED
    BY <1>1, <2>1, <2>2, <2>3, <2>4
<1> QED
  BY <1>2, <1>3 DEF Grows

\* What was sensible to ask stays so while the record grows and agents are told.
LEMMA AskedKept ==
  ASSUME TypeInv, AskedInv, KeysOnce, Grows, Listen, DOMAIN reply' = DOMAIN reply,
         run' = "closed" \/ (run' = run /\ \A a \in Agents : notified[a] <= notified'[a]),
         BoardType'
  PROVE  AskedInv'
<1>1. /\ UNCHANGED <<asked, turn, attempt, told>> /\ net' \subseteq net
      /\ DOMAIN reply' = Callers /\ DOMAIN told' = Callers
  BY DEF Listen, AskedInv
<1>2. ASSUME NEW c \in Callers
      PROVE  /\ asked'[c] = Blank \/ IsRequest(asked'[c])
             /\ ToWrite(asked'[c]) => asked'[c].expected <= WritesTo(asked[c].region)'
             /\ asked'[c].op = "ack" =>
                  run' = "closed" \/ asked'[c].number <= notified'[asked'[c].agent]
             /\ attempt'[c] > 0 => told'[c].kind = "none"
  <2>1. asked[c] = Blank \/ IsRequest(asked[c])
    BY DEF AskedInv
  <2>2. ToWrite(asked[c]) => asked[c].expected <= WritesTo(asked[c].region)'
    <3>1. asked[c].expected \in Nat
      BY <2>1 DEF Blank, IsRequest
    <3>2. /\ WritesTo(asked[c].region) \in Nat /\ WritesTo(asked[c].region)' \in Nat
          /\ WritesTo(asked[c].region) <= WritesTo(asked[c].region)'
      BY GrowthStands
    <3> QED
      BY <3>1, <3>2 DEF AskedInv
  <2>3. asked[c].op = "ack" => run' = "closed" \/ asked[c].number <= notified'[asked[c].agent]
    <3> SUFFICES ASSUME asked[c].op = "ack", run' # "closed"
                 PROVE  asked[c].number <= notified'[asked[c].agent]
      OBVIOUS
    <3>1. asked[c].agent \in Agents /\ asked[c].number \in Nat
      BY <2>1 DEF Blank, IsRequest
    <3>2. asked[c].number <= notified[asked[c].agent]
      BY DEF AskedInv
    <3>3. /\ notified[asked[c].agent] \in Nat /\ notified'[asked[c].agent] \in Nat
          /\ notified[asked[c].agent] <= notified'[asked[c].agent]
      BY <3>1 DEF TypeInv, BoardType
    <3> QED
      BY <3>1, <3>2, <3>3
  <2> QED
    BY <1>1, <2>1, <2>2, <2>3 DEF AskedInv
<1>3. \A m \in net', c \in Callers :
        m.by = By(c)' => /\ m.request.region = asked'[c].region
                         /\ m.request.expected = asked'[c].expected
  BY <1>1 DEF AskedInv, By
<1>4. \A c \in Callers : ToWrite(asked[c])' = ToWrite(asked[c])
  BY <1>1 DEF ToWrite
<1> QED
  BY <1>1, <1>2, <1>3 DEF AskedInv, IsRequest, ToWrite

LEMMA AnswerInit == Init0 => AnswerInv
<1> SUFFICES ASSUME Init0 PROVE AnswerInv
  OBVIOUS
<1>1. AskedInv
  BY DEF Init0, AskedInv, Blank, ToWrite, Outcome
<1>2. KeysOnce
  BY DEF Init0, InitBoard, Init, KeysOnce
<1>3. \A c \in Callers : ReplyTrue(c) /\ ToldTrue(c)
  BY DEF Init0, ReplyTrue, ToldTrue, NoReply, Status, Outcome, Errors
<1> QED
  BY <1>1, <1>2, <1>3 DEF AnswerInv

\* Being carried out is at most one write, and a 201 is the number it has.
LEMMA HandleGrows ==
  ASSUME TypeInv, KeysOnce, NEW m \in net, NEW answer \in Answers(m.request),
         Handle(m.request, m.by, answer)
  PROVE  /\ Grows /\ run' = run /\ notified' = notified
         /\ answer.status = 201 => /\ log' # log /\ answer.number \in DOMAIN author'
                                   /\ author'[answer.number] = m.by
         /\ answer.status # 201 => UNCHANGED <<log, author>>
<1> DEFINE entry == [region |-> m.request.region, key |-> m.request.key,
                     expected |-> m.request.expected]
<1>1. IsRequest(m.request)
  BY DEF TypeInv, CallersType, NetType
<1>2. CASE answer.status = 201 /\ Writes(m.request, m.by)
  <2>1. /\ log' = Append(log, entry) /\ author' = Append(author, m.by) /\ Fresh(entry.key)
        /\ entry.region \in Premises => entry.expected = WritesTo(entry.region)
        /\ run' = run /\ notified' = notified
    BY <1>2 DEF Writes, Extend
  <2>2. Adds(entry, m.by)
    BY <2>1 DEF Adds
  <2>3. answer.number = Len(log) + 1
    BY <1>1, <1>2, AnswerKinds DEF Says
  <2> HIDE DEF entry
  <2>4. /\ DOMAIN author' = 1..(Len(log) + 1) /\ author'[Len(log) + 1] = m.by
        /\ Len(log) \in Nat /\ Len(log') = Len(log) + 1
    BY <2>1, Added DEF TypeInv, BoardType
  <2>5. Len(log) + 1 \in DOMAIN author' /\ log' # log
    BY <2>4
  <2> QED
    BY <1>2, <2>1, <2>2, <2>3, <2>4, <2>5 DEF Grows
<1>3. CASE Acknowledges(m.request) /\ answer.status # 201
  BY <1>3 DEF Acknowledges, Grows
<1>4. CASE UNCHANGED board /\ answer.status # 201
  BY <1>4 DEF board, Grows
<1> QED
  BY <1>2, <1>3, <1>4 DEF Handle

\* An answer is true of the record when it is given ...
LEMMA AnswerIsTrue ==
  ASSUME TypeInv, OnceInv, AskedInv, KeysOnce, NEW m \in net,
         NEW answer \in Answers(m.request), Handle(m.request, m.by, answer), Listen,
         net' = net \ {m}, NEW c \in Callers, m.by = By(c), m.request = asked[c],
         reply'[c] = answer
  PROVE  ReplyTrue(c)'
<1>1. IsRequest(asked[c]) /\ turn[c] \in Nat /\ 1 <= turn[c]
  BY AttemptsAtLeastOne DEF TypeInv, CallersType, NetType, By
<1>2. /\ asked' = asked /\ turn' = turn /\ By(c)' = By(c) /\ By(c) # Nobody
  BY <1>1 DEF Listen, By, Nobody
<1>3. Says(asked[c], answer)
  <2>1. answer \in Answers(asked[c])
    OBVIOUS
  <2> QED
    BY <1>1, <2>1, AnswerKinds
<1>4. answer.error \in Errors
  BY <1>3 DEF AskedInv, Says
<1>5. answer.status = 201 => Made(c, answer.number)'
  BY <1>1, <1>2, HandleGrows DEF Made
<1>6. answer.status # 201 => UNCHANGED <<log, author>>
  BY HandleGrows
<1>7. answer.status = 200 /\ asked[c].op \notin Reads => Known(c, answer.number)'
  BY <1>2, <1>3, <1>6 DEF Known, WithKey, Says
<1>8. \A i \in DOMAIN author : author[i] = By(c) => /\ Repeatable(asked[c])
                                                    /\ log[i].key = asked[c].key
  BY DEF OnceInv, WrittenUnderKey
<1>9. ASSUME answer.error = "conflict" PROVE Lost(c)'
  <2>1. /\ ToWrite(asked[c]) /\ WithKey(asked[c].key) = {} /\ asked[c].region \in Premises
        /\ WritesTo(asked[c].region) # asked[c].expected /\ UNCHANGED <<log, author>>
    BY <1>3, <1>6, <1>9 DEF Says
  <2>2. asked[c].expected < WritesTo(asked[c].region)
    <3>1. asked[c].expected <= WritesTo(asked[c].region)
      BY <2>1 DEF AskedInv
    <3>2. asked[c].expected \in Nat
      BY <1>1 DEF IsRequest
    <3>3. WritesTo(asked[c].region) \in Nat
      <4>1. KeysOnce /\ Grows
        BY HandleGrows
      <4> QED
        BY <4>1, GrowthStands
    <3> QED
      BY <2>1, <3>1, <3>2, <3>3
  <2>3. Unmade(c)
    <3> SUFFICES ASSUME NEW i \in DOMAIN author, author[i] = By(c) PROVE FALSE
      BY <1>1 DEF Unmade
    <3>1. asked[c].key # NoKey /\ log[i].key = asked[c].key
      BY <1>8, <2>1 DEF Repeatable, ToWrite
    <3>2. i \in DOMAIN log
      BY DEF TypeInv, BoardType
    <3> QED
      BY <2>1, <3>1, <3>2 DEF WithKey
  <2>4. SameWrite(asked[c]) = {}
    BY <2>1 DEF SameWrite
  <2>5. Lost(c)
    BY <2>1, <2>2, <2>3, <2>4 DEF Lost
  <2>6. Stand(c)
    <3>1. SameCall(c)
      BY <1>2 DEF SameCall
    <3> QED
      BY <2>1, <3>1, QuietStands DEF Listen
  <2> QED
    BY <2>5, <2>6 DEF Stand
<1>10. ASSUME answer.status \in {410, 422} PROVE TurnedDown(c)'
  <2>1. ToWrite(asked[c]) /\ UNCHANGED <<log, author>>
    BY <1>3, <1>6, <1>10 DEF Says
  <2>2. ASSUME asked[c].key = NoKey
        PROVE  Unmade(c)' /\ \A n \in net' : n.by # By(c)
    <3>1. ~ Repeatable(asked[c])
      BY <2>1, <2>2 DEF Repeatable, ToWrite
    <3>2. \A n \in net' : n.by # By(c)
      BY <3>1 DEF OnceInv, SentOnce
    <3>3. \A i \in DOMAIN author : author[i] # By(c)
      BY <1>8, <3>1
    <3> QED
      BY <1>1, <1>2, <2>1, <3>2, <3>3 DEF Unmade
  <2> QED
    BY <1>2, <2>2 DEF TurnedDown
<1>11. answer.error = "conflict" => answer.status = 409
  BY <1>3 DEF Says
<1> QED
  BY <1>2, <1>4, <1>5, <1>7, <1>9, <1>10, <1>11 DEF ReplyTrue

\* ... and the caller that reads it claims no more than it says.
LEMMA ReadAnswerIsTrue ==
  ASSUME NEW c \in Callers, ReplyTrue(c), Stand(c), DOMAIN told = Callers, ReadAnswer(c)
  PROVE  ToldTrue(c)'
<1> DEFINE kind == Meaning(asked[c], reply[c])
<1>1. /\ told'[c] = Outcome(kind, reply[c].number)
      /\ asked[c].op \in Reads => reply[c].status # 200
  BY DEF ReadAnswer, Ends, Reads
<1>2. told'[c].kind = kind /\ told'[c].number = reply[c].number
  BY <1>1 DEF Outcome
<1>3. /\ kind = "written" => reply[c].status = 201
      /\ kind = "repeated" => reply[c].status = 200
      /\ kind = "conflict" => reply[c].error = "conflict"
      /\ kind = "rejected" => reply[c].status \in {410, 422}
      /\ kind # "unknown_notification"
  <2>1. reply[c].error \in Errors
    BY DEF ReplyTrue
  <2>2. CASE reply[c].status \in {200, 201, 204, 410, 422}
    BY <2>2 DEF Meaning
  <2>3. CASE reply[c].status \notin {200, 201, 204, 410, 422} /\ reply[c].error = "conflict"
    BY <2>3 DEF Meaning
  <2>4. CASE reply[c].status \notin {200, 201, 204, 410, 422} /\ reply[c].error # "conflict"
    <3>1. kind = reply[c].error
      BY <2>4 DEF Meaning
    <3> QED
      BY <2>1, <2>4, <3>1 DEF Errors
  <2> QED
    BY <2>2, <2>3, <2>4
<1> HIDE DEF kind
<1> QED
  BY <1>1, <1>2, <1>3 DEF ToldTrue, ReplyTrue, Stand

LEMMA ArrivalKeepsAnswers ==
  ASSUME TypeInv, OnceInv, AnswerInv, NEW m \in net, NEW answer \in Answers(m.request),
         Handle(m.request, m.by, answer), NEW heard \in {answer, Unavailable}, Comes(m, heard)
  PROVE  AnswerInv'
<1>1. /\ Listen /\ net' = net \ {m} /\ DOMAIN reply' = DOMAIN reply
      /\ \A c \in Callers : \/ reply'[c] = reply[c]
                            \/ m.by = By(c) /\ m.request = asked[c] /\ reply'[c] = heard
  BY DEF Comes, Listen
<1>2. AskedInv /\ KeysOnce /\ \A c \in Callers : ReplyTrue(c) /\ ToldTrue(c)
  BY DEF AnswerInv
<1>3. Grows /\ run' = run /\ notified' = notified
  BY <1>2, HandleGrows
<1>4. AskedInv'
  <2>1. BoardType'
    BY HandleKeepsBoard
  <2>2. \A a \in Agents : notified[a] <= notified'[a]
    BY <1>3 DEF TypeInv, BoardType
  <2> QED
    BY <1>1, <1>2, <1>3, <2>1, <2>2, AskedKept
<1>5. KeysOnce' /\ \A c \in Callers : Stand(c) /\ SameCall(c)
  BY <1>1, <1>2, <1>3, GrowthStands
<1>6. ASSUME NEW c \in Callers PROVE ReplyTrue(c)' /\ ToldTrue(c)'
  <2>1. ToldTrue(c)' /\ (reply'[c] = reply[c] => ReplyTrue(c)')
    BY <1>1, <1>2, <1>5, TruthStands DEF Listen
  <2>2. CASE m.by = By(c) /\ m.request = asked[c] /\ reply'[c] = answer
    <3>1. ReplyTrue(c)'
      BY <1>1, <1>2, <2>2, AnswerIsTrue
    <3> QED
      BY <2>1, <3>1
  <2>3. CASE reply'[c] = Unavailable
    BY <2>1, <2>3, NothingClaimed
  <2> QED
    BY <1>1, <2>1, <2>2, <2>3
<1> QED
  BY <1>4, <1>5, <1>6 DEF AnswerInv

\* What happens to the record without an answer to anybody of these.
LEMMA ListenersKeepAnswers ==
  ASSUME TypeInv, AnswerInv, Grows, Listen, BoardType',
         DOMAIN reply' = DOMAIN reply,
         \A c \in Callers : reply'[c] \in {reply[c], Unavailable},
         run' = "closed" \/ (run' = run /\ \A a \in Agents : notified[a] <= notified'[a])
  PROVE  AnswerInv'
<1>1. AskedInv /\ KeysOnce /\ \A c \in Callers : ReplyTrue(c) /\ ToldTrue(c)
  BY DEF AnswerInv
<1>2. AskedInv'
  BY <1>1, AskedKept
<1>3. KeysOnce' /\ \A c \in Callers : Stand(c) /\ SameCall(c)
  BY <1>1, GrowthStands
<1>4. ASSUME NEW c \in Callers PROVE ReplyTrue(c)' /\ ToldTrue(c)'
  <2>1. ToldTrue(c)' /\ (reply'[c] = reply[c] => ReplyTrue(c)')
    BY <1>1, <1>3, TruthStands DEF Listen
  <2>2. reply'[c] = Unavailable => ReplyTrue(c)'
    BY NothingClaimed
  <2> QED
    BY <2>1, <2>2
<1> QED
  BY <1>2, <1>3, <1>4 DEF AnswerInv

LEMMA ElsewhereKeepsAnswers ==
  ASSUME TypeInv, AnswerInv, Elsewhere
  PROVE  AnswerInv'
<1>1. /\ Listen /\ DOMAIN reply' = DOMAIN reply
      /\ \A c \in Callers : reply'[c] \in {reply[c], Unavailable}
  BY DEF Elsewhere, callers, Listen
<1>2. BoardType'
  BY ElsewhereKeepsBoard DEF TypeInv
<1>3. /\ \A a \in Agents : notified[a] \in Nat /\ notified[a] <= Len(log)
      /\ notified \in [Agents -> Nat] /\ Len(log) \in Nat
  BY DEF TypeInv, BoardType
<1>4. Grows /\ (run' = "closed" \/ (run' = run /\ \A a \in Agents : notified[a] <= notified'[a]))
  <2>1. ASSUME NEW r \in Region, WriteElsewhere(r)
        PROVE  Grows /\ run' = run /\ \A a \in Agents : notified[a] <= notified'[a]
    <3> DEFINE entry == [region |-> r, key |-> NoKey,
                         expected |-> IF r \in Levels THEN 0 ELSE WritesTo(r)]
    <3>1. /\ log' = Append(log, entry) /\ author' = Append(author, Nobody) /\ Fresh(entry.key)
          /\ entry.region \in Premises => entry.expected = WritesTo(entry.region)
          /\ run' = run /\ notified' = notified
      BY <2>1 DEF WriteElsewhere, Extend
    <3> HIDE DEF entry
    <3> QED
      BY <1>3, <3>1 DEF Adds, Grows
  <2>2. ASSUME NEW x \in Agents, Notify(x)
        PROVE  Grows /\ run' = run /\ \A a \in Agents : notified[a] <= notified'[a]
    BY <1>3, <2>2 DEF Notify, Grows
  <2>3. ASSUME CloseRun PROVE Grows /\ run' = "closed"
    BY <2>3 DEF CloseRun, Grows
  <2>4. ASSUME LetGo
        PROVE  Grows /\ run' = run /\ \A a \in Agents : notified[a] <= notified'[a]
    BY <1>3, <2>4 DEF LetGo, Grows
  <2> QED
    BY <2>1, <2>2, <2>3, <2>4 DEF Elsewhere
<1> QED
  BY <1>1, <1>2, <1>4, ListenersKeepAnswers

\* A new call claims nothing, and asks for what is sensible; the claims of the others
\* stand.
LEMMA CallKeepsAnswers ==
  ASSUME TypeInv, AnswerInv, NEW c \in Callers, NEW request \in Calls, Call(c, request)
  PROVE  AnswerInv'
<1> DEFINE sent == Sent(c, request, 1)
<1>1. /\ turn' = [turn EXCEPT ![c] = turn[c] + 1] /\ asked' = [asked EXCEPT ![c] = request]
      /\ net' = net \cup {sent} /\ attempt' = [attempt EXCEPT ![c] = 1]
      /\ reply' = [reply EXCEPT ![c] = NoReply]
      /\ told' = [told EXCEPT ![c] = Outcome("none", 0)]
      /\ UNCHANGED <<log, author, run, notified>>
  BY DEF Call, board
<1>2. /\ turn \in [Callers -> Nat] /\ DOMAIN asked = Callers
      /\ DOMAIN reply = Callers /\ DOMAIN told = Callers /\ DOMAIN attempt = Callers
      /\ AskedInv /\ KeysOnce /\ \A x \in Callers : ReplyTrue(x) /\ ToldTrue(x)
  BY AttemptsAtLeastOne DEF TypeInv, CallersType, AnswerInv, AskedInv
<1>3. /\ sent.by = By(c)' /\ sent.by.caller = c /\ sent.request = request
      /\ asked'[c] = request /\ reply'[c] = NoReply /\ told'[c].kind = "none"
      /\ turn'[c] = turn[c] + 1
  BY <1>1, <1>2 DEF Sent, By, Outcome
<1>4. \A m \in net : m.by # By(c)'
  <2>1. \A m \in net : m.by.caller = c => m.by.turn <= turn[c] /\ m.by.turn \in Nat
    BY DEF TypeInv, CallersType, NetType
  <2>2. By(c)'.caller = c /\ By(c)'.turn = turn[c] + 1 /\ turn[c] \in Nat
    BY <1>2, <1>3 DEF By
  <2> QED
    BY <2>1, <2>2
<1>5. \A x \in Callers \ {c} :
        /\ SameCall(x) /\ By(x)' = By(x) /\ By(x).caller = x /\ asked'[x] = asked[x]
        /\ reply'[x] = reply[x] /\ told'[x] = told[x] /\ attempt'[x] = attempt[x]
  BY <1>1, <1>2 DEF SameCall, By
<1> HIDE DEF sent
<1>6. AskedInv'
  <2>1. IsRequest(request)
    BY CallsAreRequests DEF TypeInv
  <2>2. /\ ToWrite(request) => request.expected <= WritesTo(request.region)
        /\ request.op = "ack" => request.number <= notified[request.agent]
    BY CallsAreSensible DEF TypeInv
  <2>3. \A x \in Callers :
          WritesTo(asked[x].region)' = Cardinality({i \in DOMAIN log : log[i].region = asked'[x].region})
    BY <1>1 DEF WritesTo
  <2>4. ASSUME NEW x \in Callers
        PROVE  /\ asked'[x] = Blank \/ IsRequest(asked'[x])
               /\ ToWrite(asked'[x]) => asked'[x].expected <= WritesTo(asked[x].region)'
               /\ asked'[x].op = "ack" =>
                    run' = "closed" \/ asked'[x].number <= notified'[asked'[x].agent]
               /\ attempt'[x] > 0 => told'[x].kind = "none"
    <3>1. CASE x = c
      <4>1. asked'[x] = request /\ told'[x].kind = "none"
        BY <1>3, <3>1
      <4>2. WritesTo(asked[x].region)' = WritesTo(request.region)
        BY <1>1, <4>1 DEF WritesTo
      <4>3. request.op = "ack" => request.number <= notified'[request.agent]
        BY <1>1, <2>2
      <4> QED
        BY <2>1, <2>2, <4>1, <4>2, <4>3
    <3>2. CASE x # c
      <4>1. /\ asked[x] = Blank \/ IsRequest(asked[x])
            /\ ToWrite(asked[x]) => asked[x].expected <= WritesTo(asked[x].region)
            /\ asked[x].op = "ack" => run = "closed" \/ asked[x].number <= notified[asked[x].agent]
            /\ attempt[x] > 0 => told[x].kind = "none"
        BY <1>2 DEF AskedInv
      <4>2. /\ asked'[x] = asked[x] /\ told'[x] = told[x] /\ attempt'[x] = attempt[x]
            /\ UNCHANGED <<run, notified, log>>
        BY <1>1, <1>5, <3>2
      <4>3. WritesTo(asked[x].region)' = WritesTo(asked[x].region)
        BY <4>2 DEF WritesTo
      <4> QED
        BY <4>1, <4>2, <4>3
    <3> QED
      BY <3>1, <3>2
  <2>5. \A m \in net', x \in Callers :
          m.by = By(x)' => /\ m.request.region = asked'[x].region
                           /\ m.request.expected = asked'[x].expected
    BY <1>1, <1>2, <1>3, <1>4, <1>5 DEF AskedInv
  <2>6. DOMAIN reply' = Callers /\ DOMAIN told' = Callers
    BY <1>1, <1>2
  <2> QED
    BY <2>4, <2>5, <2>6 DEF AskedInv, ToWrite, IsRequest
<1>7. KeysOnce'
  BY <1>1, <1>2 DEF KeysOnce
<1>8. ASSUME NEW x \in Callers PROVE ReplyTrue(x)' /\ ToldTrue(x)'
  <2>1. CASE x = c
    BY <1>3, <2>1, NothingClaimed
  <2>2. CASE x # c
    <3>1. \A m \in net' \ net : m.by # By(x)
      BY <1>1, <1>3, <1>5, <2>2
    <3>2. Stand(x) /\ SameCall(x)
      BY <1>1, <1>5, <2>2, <3>1, QuietStands
    <3> QED
      BY <1>2, <1>5, <2>2, <3>2, TruthStands
  <2> QED
    BY <2>1, <2>2
<1> QED
  BY <1>6, <1>7, <1>8 DEF AnswerInv

\* How a caller goes on: it sends the same again, asks for the next page, or is done.
LEMMA ProceedKinds ==
  ASSUME NEW c \in Callers, Proceed(c)
  PROVE  \/ /\ attempt[c] > 0 /\ asked' = asked
            /\ attempt' = [attempt EXCEPT ![c] = attempt[c] + 1]
            /\ reply' = [reply EXCEPT ![c] = NoReply] /\ told' = told
         \/ /\ attempt[c] > 0
            /\ \E from : asked' = [asked EXCEPT ![c] = [asked[c] EXCEPT !.from = from]]
            /\ attempt' = [attempt EXCEPT ![c] = 1]
            /\ reply' = [reply EXCEPT ![c] = NoReply] /\ told' = told
         \/ /\ asked' = asked
            /\ \/ ReadAnswer(c)
               \/ Ends(c, Outcome("unreachable", 0))
               \/ Ends(c, Outcome("read", 0))
<1>1. CASE SendAgain(c)
  BY <1>1 DEF SendAgain, Failed
<1>2. CASE GiveUp(c)
  BY <1>2 DEF GiveUp, Ends
<1>3. CASE ReadPage(c)
  <2>1. CASE Follows(c)
    <3> DEFINE next == [asked[c] EXCEPT !.from = NextPage(reply[c].page)]
    <3>1. /\ attempt[c] > 0 /\ asked' = [asked EXCEPT ![c] = next]
          /\ attempt' = [attempt EXCEPT ![c] = 1]
          /\ reply' = [reply EXCEPT ![c] = NoReply] /\ told' = told
      BY <1>3, <2>1 DEF ReadPage, Arrived
    <3> QED
      BY <3>1
  <2>2. CASE ~ Follows(c)
    BY <1>3, <2>2 DEF ReadPage, Ends
  <2> QED
    BY <2>1, <2>2
<1>4. CASE ReadAnswer(c)
  BY <1>4 DEF ReadAnswer, Ends
<1> QED
  BY <1>1, <1>2, <1>3, <1>4 DEF Proceed

\* A caller that goes on asks for the same, and claims nothing until it has read an
\* answer; what it then claims is what the answer says.
LEMMA ProceedKeepsAnswers ==
  ASSUME TypeInv, AnswerInv, NEW c \in Callers, Proceed(c)
  PROVE  AnswerInv'
<1>1. /\ DOMAIN reply = Callers /\ DOMAIN told = Callers /\ DOMAIN asked = Callers
      /\ DOMAIN attempt = Callers
      /\ AskedInv /\ KeysOnce /\ \A x \in Callers : ReplyTrue(x) /\ ToldTrue(x)
      /\ \A x \in Callers : attempt[x] > 0 => IsRequest(asked[x])
  BY DEF TypeInv, CallersType, AnswerInv, AskedInv
<1>2. /\ UNCHANGED <<log, author, run, notified, turn>>
      /\ \A x \in Callers \ {c} : asked'[x] = asked[x]
      /\ \A m \in net' \ net : m.by = By(c) /\ \E nth : m = Sent(c, asked'[c], nth)
  <2>1. /\ UNCHANGED <<board, turn>> /\ \A x \in Callers \ {c} : asked'[x] = asked[x]
        /\ \/ net' = net
           \/ \E nth : net' = net \cup {Sent(c, asked'[c], nth)}
    BY ProceedKeepsCallers
  <2> QED
    BY <2>1 DEF board, Sent, By
<1>3. \/ asked' = asked
      \/ \E from : /\ IsRequest(asked[c]) /\ asked'[c] = [asked[c] EXCEPT !.from = from]
                   /\ \A x \in Callers \ {c} : asked'[x] = asked[x]
  <2>1. ASSUME NEW from, attempt[c] > 0,
               asked' = [asked EXCEPT ![c] = [asked[c] EXCEPT !.from = from]]
        PROVE  /\ IsRequest(asked[c]) /\ asked'[c] = [asked[c] EXCEPT !.from = from]
               /\ \A x \in Callers \ {c} : asked'[x] = asked[x]
    BY <1>1, <2>1
  <2> QED
    BY <2>1, ProceedKinds
<1>4. /\ asked'[c] = Blank \/ IsRequest(asked'[c])
      /\ asked'[c].op = asked[c].op /\ asked'[c].key = asked[c].key
      /\ asked'[c].region = asked[c].region /\ asked'[c].expected = asked[c].expected
      /\ asked'[c].number = asked[c].number /\ asked'[c].agent = asked[c].agent
  <2>1. CASE asked' = asked
    BY <1>1, <2>1 DEF AskedInv
  <2>2. ASSUME NEW from, IsRequest(asked[c]), asked'[c] = [asked[c] EXCEPT !.from = from]
        PROVE  /\ IsRequest(asked'[c])
               /\ asked'[c].op = asked[c].op /\ asked'[c].key = asked[c].key
               /\ asked'[c].region = asked[c].region /\ asked'[c].expected = asked[c].expected
               /\ asked'[c].number = asked[c].number /\ asked'[c].agent = asked[c].agent
    BY <2>2, NextPageIsRequest DEF IsRequest, Blank
  <2> QED
    BY <1>3, <2>1, <2>2
<1>5. \A x \in Callers :
        /\ By(x)' = By(x) /\ SameCall(x) /\ By(x).caller = x
        /\ asked'[x] = Blank \/ IsRequest(asked'[x])
        /\ asked'[x].number = asked[x].number /\ asked'[x].agent = asked[x].agent
  BY <1>1, <1>2, <1>4 DEF By, SameCall, AskedInv
<1>6. /\ \A x \in Callers \ {c} :
           reply'[x] = reply[x] /\ told'[x] = told[x] /\ attempt'[x] = attempt[x]
      /\ reply'[c] = NoReply /\ DOMAIN reply' = Callers /\ DOMAIN told' = Callers
      /\ attempt'[c] = 0 \/ (told'[c] = told[c] /\ attempt[c] > 0)
      /\ \/ told'[c] = told[c] /\ attempt[c] > 0
         \/ ReadAnswer(c)
         \/ told'[c].kind \in {"unreachable", "read"}
  <2>1. ASSUME NEW outcome, Ends(c, outcome)
        PROVE  /\ \A x \in Callers \ {c} :
                    reply'[x] = reply[x] /\ told'[x] = told[x] /\ attempt'[x] = attempt[x]
               /\ reply'[c] = NoReply /\ DOMAIN reply' = Callers /\ DOMAIN told' = Callers
               /\ attempt'[c] = 0 /\ told'[c] = outcome
    BY <1>1, <2>1 DEF Ends
  <2>2. CASE /\ attempt[c] > 0 /\ \E nth : attempt' = [attempt EXCEPT ![c] = nth]
             /\ reply' = [reply EXCEPT ![c] = NoReply] /\ told' = told
    BY <1>1, <2>2
  <2>3. CASE ReadAnswer(c)
    BY <2>1, <2>3 DEF ReadAnswer
  <2>4. CASE Ends(c, Outcome("unreachable", 0)) \/ Ends(c, Outcome("read", 0))
    BY <2>1, <2>4 DEF Outcome
  <2> QED
    BY <2>2, <2>3, <2>4, ProceedKinds
<1>7. attempt'[c] > 0 => told'[c].kind = "none"
  BY <1>1, <1>6 DEF AskedInv
<1>8. \A x \in Callers : WritesTo(asked[x].region)' = WritesTo(asked[x].region)
  BY <1>2, <1>5 DEF WritesTo, SameCall
<1>9. AskedInv'
  <2>1. \A x \in Callers :
          /\ ToWrite(asked[x])' => asked'[x].expected <= WritesTo(asked[x].region)'
          /\ asked'[x].op = "ack" =>
               run' = "closed" \/ asked'[x].number <= notified'[asked'[x].agent]
    BY <1>1, <1>2, <1>5, <1>8 DEF AskedInv, SameCall, ToWrite
  <2>2. \A x \in Callers : attempt'[x] > 0 => told'[x].kind = "none"
    BY <1>1, <1>6, <1>7 DEF AskedInv
  <2>3. \A m \in net', x \in Callers :
          m.by = By(x)' => /\ m.request.region = asked'[x].region
                           /\ m.request.expected = asked'[x].expected
    <3>1. ASSUME NEW m \in net, NEW x \in Callers, m.by = By(x)'
          PROVE  /\ m.request.region = asked'[x].region
                 /\ m.request.expected = asked'[x].expected
      BY <1>1, <1>5, <3>1 DEF AskedInv, SameCall
    <3>2. ASSUME NEW m \in net' \ net, NEW x \in Callers, m.by = By(x)'
          PROVE  m.request = asked'[x]
      <4>1. x = c
        BY <1>2, <1>5, <3>2
      <4>2. m.request = asked'[c]
        BY <1>2, <3>2 DEF Sent
      <4> QED
        BY <4>1, <4>2
    <3> QED
      BY <3>1, <3>2
  <2> QED
    BY <1>5, <1>6, <2>1, <2>2, <2>3 DEF AskedInv, IsRequest, ToWrite
<1>10. KeysOnce'
  BY <1>1, <1>2 DEF KeysOnce
<1>11. ASSUME NEW x \in Callers \ {c} PROVE ReplyTrue(x)' /\ ToldTrue(x)'
  <2>1. \A m \in net' \ net : m.by # By(x)
    BY <1>2, <1>5
  <2>2. Stand(x)
    BY <1>2, <1>5, <2>1, QuietStands
  <2> QED
    BY <1>1, <1>5, <1>6, <2>2, TruthStands
<1>12. ReplyTrue(c)'
  BY <1>6, NothingClaimed
<1>13. ToldTrue(c)'
  <2>1. CASE ReadAnswer(c)
    <3>1. Stand(c)
      <4>1. net' = net
        BY <2>1 DEF ReadAnswer, Ends
      <4> QED
        BY <1>2, <1>5, <4>1, QuietStands
    <3> QED
      BY <1>1, <2>1, <3>1, ReadAnswerIsTrue
  <2>2. CASE told'[c].kind \in {"none", "read", "unreachable"}
    BY <2>2, NothingClaimed
  <2>3. CASE told'[c] = told[c] /\ attempt[c] > 0
    BY <1>1, <2>2, <2>3 DEF AskedInv
  <2> QED
    BY <1>6, <2>1, <2>2, <2>3
<1> QED
  BY <1>9, <1>10, <1>11, <1>12, <1>13 DEF AnswerInv

LEMMA AnswerStep == TypeInv /\ OnceInv /\ AnswerInv /\ [Steps]_vars => AnswerInv'
<1> SUFFICES ASSUME TypeInv, OnceInv, AnswerInv, [Steps]_vars PROVE AnswerInv'
  OBVIOUS
<1>1. \A a \in Agents : notified[a] \in Nat
  BY DEF TypeInv, BoardType
<1>2. ASSUME NEW m \in net, Answered(m) \/ Unheard(m) PROVE AnswerInv'
  BY <1>2, ArrivalKeepsAnswers DEF Answered, Unheard
<1>3. ASSUME NEW m \in net, TurnedAway(m) PROVE AnswerInv'
  <2>1. /\ Grows /\ Listen /\ DOMAIN reply' = DOMAIN reply
        /\ \A x \in Callers : reply'[x] \in {reply[x], Unavailable}
        /\ run' = run /\ notified' = notified
    BY <1>3 DEF TurnedAway, Comes, board, Grows, Listen
  <2>2. BoardType'
    BY <1>3 DEF TurnedAway, board, TypeInv, BoardType
  <2> QED
    BY <1>1, <2>1, <2>2, ListenersKeepAnswers
<1>4. CASE Elsewhere
  BY <1>4, ElsewhereKeepsAnswers
<1>5. ASSUME NEW c \in Callers, Proceed(c) \/ \E request \in Calls : Call(c, request)
      PROVE  AnswerInv'
  BY <1>5, CallKeepsAnswers, ProceedKeepsAnswers
<1>6. CASE UNCHANGED vars
  <2>1. /\ Grows /\ Listen /\ reply' = reply /\ run' = run /\ notified' = notified
    BY <1>6 DEF vars, board, callers, Grows, Listen
  <2>2. BoardType'
    BY <1>6 DEF vars, board, TypeInv, BoardType
  <2> QED
    BY <1>1, <2>1, <2>2, ListenersKeepAnswers
<1> QED
  BY <1>2, <1>3, <1>4, <1>5, <1>6 DEF Steps, Network

\* What an agent is told of its call is true of the record and stays true, for any
\* number of callers and attempts, whatever arrives late, twice or never: a write
\* that was made is there once and under its number, one that had been made carries
\* the key, one that lost is nowhere and no late attempt makes it, one that was
\* refused without a key is nowhere, and a notification that was issued is known.
THEOREM AnswersStayTrue == ClientSpec => []AnswersAreTrue
<1>1. TypeInv /\ OnceInv /\ AnswerInv => AnswersAreTrue
  <2> SUFFICES ASSUME TypeInv, OnceInv, AnswerInv, NEW c \in Callers
               PROVE  LET mine == {i \in DOMAIN log : author[i] = By(c)}
                      IN  /\ told[c].kind = "written" => mine = {told[c].number}
                          /\ told[c].kind = "repeated" => told[c].number \in WithKey(asked[c].key)
                          /\ told[c].kind = "conflict" => mine \cup SameWrite(asked[c]) = {}
                          /\ told[c].kind = "rejected" /\ asked[c].key = NoKey => mine = {}
                          /\ told[c].kind # "unknown_notification"
    BY DEF AnswersAreTrue
  <2> DEFINE mine == {i \in DOMAIN log : author[i] = By(c)}
  <2>1. ToldTrue(c) /\ DOMAIN log = DOMAIN author
    BY DEF AnswerInv, TypeInv, BoardType
  <2>2. told[c].kind = "written" => mine = {told[c].number}
    <3> SUFFICES ASSUME told[c].kind = "written" PROVE mine = {told[c].number}
      OBVIOUS
    <3>1. told[c].number \in mine /\ By(c) # Nobody
      BY <2>1 DEF ToldTrue, Made, By, Nobody
    <3>2. \A i, j \in mine : i = j
      BY <3>1 DEF OnceInv, AtMostOnce
    <3> QED
      BY <3>1, <3>2
  <2>3. told[c].kind = "conflict" => mine = {} /\ SameWrite(asked[c]) = {}
    BY <2>1 DEF ToldTrue, Lost, Unmade
  <2>4. told[c].kind = "rejected" /\ asked[c].key = NoKey => mine = {}
    BY <2>1 DEF ToldTrue, TurnedDown, Unmade
  <2> QED
    BY <2>1, <2>2, <2>3, <2>4 DEF ToldTrue, Known
<1>2. TypeInv /\ OnceInv /\ AnswerInv /\ [Steps]_vars => (TypeInv /\ OnceInv /\ AnswerInv)'
  BY TypeStep, OnceStep, AnswerStep
<1> QED
  BY <1>1, <1>2, TypeInit, OnceInit, AnswerInit, PTL DEF ClientSpec

-----------------------------------------------------------------------------
(* A read without a limit is one stretch of the record.                    *)

\* A bounded set of numbers that is not empty has a greatest one, and a least.
LEMMA MaxIsMember ==
  ASSUME NEW S \in SUBSET Nat, S # {}, NEW bound \in Nat, \A x \in S : x <= bound
  PROVE  Max(S) \in S /\ \A x \in S : x <= Max(S)
<1> DEFINE Above == {n \in Nat : \A x \in S : x <= n}
<1>1. PICK least \in Above : \A n \in Above : ~ (<<n, least>> \in OpToRel(<, Nat))
  <2>1. Above \subseteq Nat /\ Above # {}
    OBVIOUS
  <2> HIDE DEF Above
  <2> QED
    BY <2>1, NatLessThanWellFounded, WFMin
<1>2. \A n \in Above : ~ (n < least)
  BY <1>1 DEF OpToRel
<1>3. least \in Nat /\ \A x \in S : x <= least
  BY <1>1
<1>4. least \in S
  <2>1. SUFFICES ASSUME least \notin S PROVE FALSE
    OBVIOUS
  <2>2. PICK x \in S : TRUE
    OBVIOUS
  <2>3. x \in Nat /\ x < least
    BY <2>1, <2>2, <1>3
  <2>4. least - 1 \in Above
    BY <1>3, <2>1, <2>3
  <2> QED
    BY <1>2, <1>3, <2>3, <2>4
<1>5. \E x \in S : \A y \in S : x >= y
  BY <1>3, <1>4
<1> QED
  BY <1>5 DEF Max

LEMMA LeastIsMember ==
  ASSUME NEW S \in SUBSET Nat, S # {}
  PROVE  \E least \in S : \A x \in S : least <= x
<1>1. PICK least \in S : \A n \in S : ~ (<<n, least>> \in OpToRel(<, Nat))
  BY NatLessThanWellFounded, WFMin
<1>2. \A n \in S : ~ (n < least)
  BY <1>1 DEF OpToRel
<1>3. least \in Nat /\ \A n \in S : n \in Nat
  OBVIOUS
<1>4. \A n \in S : least <= n
  BY <1>2, <1>3
<1> QED
  BY <1>4

\* How many members of a set are below a number.
Rank(n, S) == Cardinality({m \in S : m < n})

\* Ranks tell the members of a set apart and follow their order.
LEMMA RanksRise ==
  ASSUME NEW S \in SUBSET Nat, IsFiniteSet(S), NEW n \in S
  PROVE  /\ Rank(n, S) \in Nat /\ Rank(n, S) < Cardinality(S)
         /\ \A m \in S : m < n => Rank(m, S) < Rank(n, S)
<1> DEFINE Below(x) == {m \in S : m < x}
<1>1. \A x : Below(x) \in SUBSET S /\ IsFiniteSet(Below(x)) /\ Cardinality(Below(x)) \in Nat
  <2>1. \A x : Below(x) \in SUBSET S
    OBVIOUS
  <2>2. \A x : IsFiniteSet(Below(x))
    BY <2>1, FS_Subset
  <2> QED
    BY <2>1, <2>2, FS_CardinalityType
<1>2. Cardinality(Below(n)) <= Cardinality(S) /\ Cardinality(S) \in Nat
      /\ (Cardinality(S) = Cardinality(Below(n)) => S = Below(n))
  BY <1>1, FS_Subset, FS_CardinalityType
<1>3. S # Below(n)
  OBVIOUS
<1>4. ASSUME NEW m \in S, m < n PROVE Cardinality(Below(m)) < Cardinality(Below(n))
  <2>1. Below(m) \in SUBSET Below(n) /\ Below(m) # Below(n)
    <3>1. m \in Nat /\ n \in Nat /\ \A x \in S : x \in Nat
      OBVIOUS
    <3>2. m \in Below(n) /\ m \notin Below(m)
      BY <1>4, <3>1
    <3>3. \A x \in S : x < m => x < n
      BY <1>4, <3>1
    <3> QED
      BY <3>2, <3>3
  <2> HIDE DEF Below
  <2>2. /\ Cardinality(Below(m)) <= Cardinality(Below(n))
        /\ (Cardinality(Below(n)) = Cardinality(Below(m)) => Below(n) = Below(m))
    BY <1>1, <2>1, FS_Subset
  <2> QED
    BY <1>1, <2>1, <2>2
<1>5. Rank(n, S) = Cardinality(Below(n)) /\ \A m \in S : Rank(m, S) = Cardinality(Below(m))
  BY DEF Rank
<1> HIDE DEF Below
<1> QED
  BY <1>1, <1>2, <1>3, <1>4, <1>5

\* A list of a set of numbers: each of them once, in their order.
Lists(f, S) ==
  /\ f \in Seq(Nat)
  /\ \A i, j \in DOMAIN f : i < j => f[i] < f[j]
  /\ \A n : n \in S <=> \E i \in DOMAIN f : f[i] = n

\* There is one: InOrder.
LEMMA InOrderLists ==
  ASSUME NEW S \in SUBSET Nat, IsFiniteSet(S)
  PROVE  Lists(InOrder(S), S)
<1> DEFINE k == Cardinality(S)
           rank == [n \in S |-> Rank(n, S)]
           f == InOrder(S)
<1>1. k \in Nat /\ IsFiniteSet(0..(k - 1)) /\ Cardinality(0..(k - 1)) = k
  <2>1. k \in Nat
    BY FS_CardinalityType
  <2> HIDE DEF k
  <2> QED
    BY <2>1, FS_Interval
<1>2. rank \in Injection(S, 0..(k - 1))
  <2>1. \A n \in S : /\ Rank(n, S) \in 0..(k - 1)
                     /\ \A m \in S : m < n => Rank(m, S) < Rank(n, S)
    <3>1. \A n \in S : /\ Rank(n, S) \in Nat /\ Rank(n, S) < k
                       /\ \A m \in S : m < n => Rank(m, S) < Rank(n, S)
      BY RanksRise
    <3> HIDE DEF k
    <3> QED
      BY <1>1, <3>1
  <2>2. rank \in [S -> 0..(k - 1)]
    BY <2>1
  <2>3. ASSUME NEW m \in S, NEW n \in S, m # n PROVE rank[m] # rank[n]
    <3>1. m < n \/ n < m
      BY <2>3
    <3>2. /\ Rank(m, S) \in 0..(k - 1) /\ Rank(n, S) \in 0..(k - 1)
          /\ Rank(m, S) < Rank(n, S) \/ Rank(n, S) < Rank(m, S)
      BY <2>1, <3>1
    <3> HIDE DEF k
    <3> QED
      BY <1>1, <3>2
  <2> HIDE DEF rank, k
  <2> QED
    BY <2>2, <2>3 DEF Injection, IsInjective
<1>3. rank \in Surjection(S, 0..(k - 1))
  <2> HIDE DEF rank
  <2> QED
    BY <1>1, <1>2, FS_Injection
<1>4. \A i \in 1..k : \E n \in S : Rank(n, S) = i - 1
  <2> HIDE DEF k
  <2> SUFFICES ASSUME NEW i \in 1..k PROVE \E n \in S : Rank(n, S) = i - 1
    OBVIOUS
  <2>1. i - 1 \in 0..(k - 1)
    BY <1>1
  <2>2. \E n \in S : rank[n] = i - 1
    <3> HIDE DEF rank
    <3> QED
      BY <1>3, <2>1 DEF Surjection
  <2> QED
    BY <2>2
<1>5. /\ f = [i \in 1..k |-> CHOOSE n \in S : Rank(n, S) = i - 1]
  BY DEF InOrder, Rank
<1>6. \A i \in 1..k : f[i] \in S /\ Rank(f[i], S) = i - 1
  <2> HIDE DEF f, k
  <2> QED
    BY <1>4, <1>5
<1>7. f \in Seq(Nat) /\ DOMAIN f = 1..k
  <2> HIDE DEF k
  <2>1. f \in [1..k -> Nat]
    BY <1>5, <1>6
  <2> HIDE DEF f
  <2> QED
    BY <1>1, <2>1, IsASeq
<1> HIDE DEF f, k
<1>8. ASSUME NEW i \in DOMAIN f, NEW j \in DOMAIN f, i < j PROVE f[i] < f[j]
  <2>1. /\ f[i] \in S /\ f[j] \in S /\ Rank(f[i], S) = i - 1 /\ Rank(f[j], S) = j - 1
        /\ i \in Nat /\ j \in Nat
    BY <1>1, <1>6, <1>7
  <2>2. ~ (f[j] < f[i]) /\ f[i] # f[j]
    <3>1. f[j] < f[i] => Rank(f[j], S) < Rank(f[i], S)
      BY <2>1, RanksRise
    <3> QED
      BY <1>8, <2>1, <3>1
  <2>3. f[i] \in Nat /\ f[j] \in Nat
    BY <2>1
  <2> QED
    BY <2>2, <2>3
<1>9. ASSUME NEW n \in S PROVE \E i \in DOMAIN f : f[i] = n
  <2>1. Rank(n, S) \in Nat /\ Rank(n, S) < k
    BY <1>9, RanksRise DEF k
  <2> DEFINE i == Rank(n, S) + 1
  <2>2. i \in 1..k /\ i - 1 = Rank(n, S)
    BY <1>1, <2>1
  <2> HIDE DEF i
  <2>3. f[i] \in S /\ Rank(f[i], S) = Rank(n, S)
    BY <1>6, <2>2
  <2>4. f[i] = n
    <3>1. f[i] < n => Rank(f[i], S) < Rank(n, S)
      BY <2>3, RanksRise
    <3>2. n < f[i] => Rank(n, S) < Rank(f[i], S)
      BY <2>3, RanksRise
    <3>3. n \in Nat /\ f[i] \in Nat
      BY <2>3
    <3> QED
      BY <2>1, <2>3, <3>1, <3>2, <3>3
  <2> QED
    BY <1>7, <2>2, <2>4
<1>10. Lists(f, S)
  BY <1>6, <1>7, <1>8, <1>9 DEF Lists
<1> QED
  BY <1>10 DEF f

\* There is no other.
LEMMA ListsAreInOrder ==
  ASSUME NEW S, NEW f, Lists(f, S)
  PROVE  f = InOrder(S)
<1> DEFINE k == Len(f)
<1>1. /\ k \in Nat /\ DOMAIN f = 1..k /\ f \in [1..k -> Nat] /\ S \in SUBSET Nat
      /\ \A i, j \in 1..k : i < j => f[i] < f[j]
      /\ \A n : n \in S <=> \E i \in 1..k : f[i] = n
  BY DEF Lists
<1> HIDE DEF k
<1>2. ASSUME NEW j \in 0..k, NEW T, \A n : n \in T <=> \E i \in 1..j : f[i] = n
      PROVE  IsFiniteSet(T) /\ Cardinality(T) = j
  <2> DEFINE g == [i \in 1..j |-> f[i]]
  <2>1. /\ j \in Nat /\ \A i \in 1..j : i \in 1..k /\ f[i] \in T
        /\ \A m, n \in 1..j : f[m] = f[n] => m = n
    <3>1. j \in Nat /\ \A i \in 1..j : i \in 1..k /\ f[i] \in T
      BY <1>1, <1>2
    <3>2. \A m, n \in 1..j : m < n => f[m] < f[n] /\ f[m] \in Nat /\ f[n] \in Nat
      BY <1>1, <3>1
    <3> QED
      BY <1>1, <3>1, <3>2
  <2>2. g \in [1..j -> T] /\ \A n \in T : \E i \in 1..j : g[i] = n
    BY <1>2, <2>1
  <2>3. \A m, n \in 1..j : g[m] = g[n] => m = n
    BY <2>1
  <2> HIDE DEF g
  <2>4. g \in Bijection(1..j, T)
    BY <2>2, <2>3 DEF Bijection, Injection, Surjection, IsInjective
  <2>5. ExistsBijection(1..j, T)
    BY <2>4 DEF ExistsBijection
  <2>6. IsFiniteSet(1..j) /\ Cardinality(1..j) = j
    BY <2>1, FS_Interval
  <2> QED
    BY <2>5, <2>6, FS_Bijection
<1>3. IsFiniteSet(S) /\ Cardinality(S) = k
  BY <1>1, <1>2
<1>4. ASSUME NEW i \in 1..k PROVE Rank(f[i], S) = i - 1
  <2> DEFINE T == {m \in S : m < f[i]}
  <2>1. i - 1 \in 0..k /\ i \in Nat
    BY <1>1
  <2>2. ASSUME NEW n PROVE n \in T <=> \E m \in 1..(i - 1) : f[m] = n
    <3>1. ASSUME NEW m \in 1..(i - 1), f[m] = n PROVE n \in T
      BY <1>1, <3>1
    <3>2. ASSUME n \in T PROVE \E m \in 1..(i - 1) : f[m] = n
      <4>1. PICK m \in 1..k : f[m] = n
        BY <1>1, <3>2
      <4>2. ~ (i < m) /\ i # m
        BY <1>1, <3>2, <4>1
      <4> QED
        BY <1>1, <4>1, <4>2
    <3> QED
      BY <3>1, <3>2
  <2> HIDE DEF T
  <2>3. Cardinality(T) = i - 1
    BY <1>2, <2>1, <2>2
  <2> QED
    BY <2>3 DEF Rank, T
<1>5. ASSUME NEW i \in 1..k PROVE (CHOOSE n \in S : Rank(n, S) = i - 1) = f[i]
  <2>1. f[i] \in S /\ Rank(f[i], S) = i - 1
    BY <1>1, <1>4
  <2>2. \A n \in S : Rank(n, S) = i - 1 => n = f[i]
    <3> SUFFICES ASSUME NEW n \in S, Rank(n, S) = i - 1 PROVE n = f[i]
      OBVIOUS
    <3>1. PICK j \in 1..k : f[j] = n
      BY <1>1
    <3>2. j - 1 = i - 1
      BY <1>4, <3>1
    <3> QED
      BY <1>1, <3>1, <3>2
  <2> QED
    BY <2>1, <2>2
<1>6. InOrder(S) = [i \in 1..k |-> CHOOSE n \in S : Rank(n, S) = i - 1]
  BY <1>3 DEF InOrder, Rank
<1> QED
  BY <1>1, <1>5, <1>6

\* The first of a set of numbers: what is left out is greater, and it is left out
\* only when there are enough without it.
LEMMA FirstAreLeast ==
  ASSUME NEW S \in SUBSET Nat, IsFiniteSet(S), NEW limit \in Nat \ {0}
  PROVE  /\ First(limit, S) \subseteq S
         /\ \A n \in First(limit, S), m \in S : m < n => m \in First(limit, S)
         /\ Cardinality(S) <= limit => First(limit, S) = S
         /\ S # {} => First(limit, S) # {}
         /\ Cardinality(First(limit, S)) < limit => First(limit, S) = S
<1> DEFINE F == First(limit, S)
<1>1. F = {n \in S : Rank(n, S) < limit}
  BY DEF First, Rank
<1>2. \A n \in S : /\ Rank(n, S) \in Nat /\ Rank(n, S) < Cardinality(S)
                   /\ \A m \in S : m < n => Rank(m, S) < Rank(n, S)
  BY RanksRise
<1>3. Cardinality(S) \in Nat
  BY FS_CardinalityType
<1> HIDE DEF F
<1>4. \A n \in F, m \in S : m < n => m \in F
  <2> SUFFICES ASSUME NEW n \in F, NEW m \in S, m < n PROVE m \in F
    OBVIOUS
  <2>1. n \in S /\ Rank(n, S) < limit
    BY <1>1
  <2>2. Rank(m, S) < Rank(n, S) /\ Rank(m, S) \in Nat /\ Rank(n, S) \in Nat
    BY <1>2, <2>1
  <2> QED
    BY <1>1, <2>1, <2>2
<1>5. ASSUME Cardinality(S) <= limit PROVE F = S
  <2>1. \A n \in S : Rank(n, S) < limit
    <3> SUFFICES ASSUME NEW n \in S PROVE Rank(n, S) < limit
      OBVIOUS
    <3>1. Rank(n, S) \in Nat /\ Rank(n, S) < Cardinality(S)
      BY <1>2
    <3> QED
      BY <1>3, <1>5, <3>1
  <2> QED
    BY <1>1, <2>1
<1>6. ASSUME NEW T \in SUBSET S, T # {} PROVE \E least \in T : \A x \in T : least <= x
  BY <1>6, LeastIsMember
<1>7. S # {} => F # {}
  <2> SUFFICES ASSUME S # {} PROVE F # {}
    OBVIOUS
  <2>1. PICK least \in S : \A x \in S : least <= x
    BY LeastIsMember
  <2>2. {m \in S : m < least} = {}
    <3>1. least \in Nat /\ \A m \in S : m \in Nat /\ least <= m
      BY <2>1
    <3>2. \A m \in S : ~ (m < least)
      BY <3>1
    <3> QED
      BY <3>2
  <2>3. Rank(least, S) = 0
    BY <2>2, FS_EmptySet DEF Rank
  <2> QED
    BY <1>1, <2>1, <2>3
<1>8. ASSUME Cardinality(F) < limit PROVE F = S
  <2> SUFFICES ASSUME S \ F # {} PROVE FALSE
    BY <1>1
  <2>1. PICK n \in S \ F : \A x \in S \ F : n <= x
    BY <1>6
  <2>2. {m \in S : m < n} \subseteq F
    <3> SUFFICES ASSUME NEW m \in S, m < n PROVE m \in F
      OBVIOUS
    <3>1. m \in Nat /\ n \in Nat
      OBVIOUS
    <3> QED
      BY <2>1, <3>1
  <2>3. IsFiniteSet(F) /\ Cardinality(F) \in Nat
    BY <1>1, FS_Subset, FS_CardinalityType
  <2>4. Rank(n, S) <= Cardinality(F)
    BY <2>2, <2>3, FS_Subset DEF Rank
  <2>5. Rank(n, S) \in Nat
    BY <1>2
  <2>6. Rank(n, S) < limit
    BY <1>8, <2>3, <2>4, <2>5
  <2> QED
    BY <1>1, <2>6
<1>9. F \subseteq S
  BY <1>1
<1>10. /\ F \subseteq S
       /\ \A n \in F, m \in S : m < n => m \in F
       /\ Cardinality(S) <= limit => F = S
       /\ S # {} => F # {}
       /\ Cardinality(F) < limit => F = S
  BY <1>4, <1>5, <1>7, <1>8, <1>9
<1> QED
  BY <1>10 DEF F

\* What the record holds of a region between two numbers.
Stretch(record, region, from, to) ==
  {n \in DOMAIN record : region \in {Whole, record[n].region} /\ from <= n /\ n <= to}

\* A page: all there was up to where it ends, which is its last entry, or the end of
\* the record when it says that no more is left.
IsPage(record, region, from, page, more, to) ==
  /\ page = Stretch(record, region, from, to)
  /\ more => to \in page

LEMMA PageIsStretch ==
  ASSUME BoardType, NEW request, request.limit = NoLimit, ReadReply(request).status = 200
  PROVE  \E to \in 0..Len(log) :
           /\ IsPage(log, request.region, request.from, ReadReply(request).page,
                     ReadReply(request).more, to)
           /\ ~ ReadReply(request).more => to = Len(log)
<1> DEFINE limit == IF DefaultLimit > MaxLimit THEN MaxLimit ELSE DefaultLimit
           N == {n \in InRegion(request.region) : n >= request.from}
           rows == First(OneMore(limit), N)
           page == First(limit, rows)
           more == Cardinality(rows) > limit
<1>1. ReadReply(request).page = page /\ ReadReply(request).more = more
  <2>1. \A p, m : /\ [Status(200, "none") EXCEPT !.page = p, !.more = m].page = p
                  /\ [Status(200, "none") EXCEPT !.page = p, !.more = m].more = m
    BY DEF Status
  <2>2. request.region \notin Premises
    BY DEF ReadReply, Status
  <2>3. ReadReply(request) = [Status(200, "none") EXCEPT !.page = page, !.more = more]
    BY <2>2, ZenonT(40) DEF ReadReply
  <2> HIDE DEF page, more
  <2> QED
    BY <2>1, <2>3
<1>2. limit \in Nat \ {0} /\ OneMore(limit) \in Nat \ {0} /\ OneMore(limit) = limit + 1
  BY PagesHoldSomething DEF OneMore
<1>3. /\ DOMAIN log = 1..Len(log) /\ Len(log) \in Nat /\ IsFiniteSet(DOMAIN log)
      /\ N \subseteq DOMAIN log
  BY FS_Interval DEF BoardType, InRegion
<1>4. N \in SUBSET Nat /\ IsFiniteSet(N)
  <2> HIDE DEF N
  <2> QED
    BY <1>3, FS_Subset
<1>5. \A n : n \in N <=> /\ n \in DOMAIN log /\ request.region \in {Whole, log[n].region}
                         /\ n >= request.from
  BY DEF InRegion
<1> HIDE DEF N, limit
<1>6. /\ rows \subseteq N
      /\ \A n \in rows, m \in N : m < n => m \in rows
      /\ Cardinality(rows) < limit + 1 => rows = N
  BY <1>2, <1>4, FirstAreLeast
<1>7. rows \in SUBSET Nat /\ IsFiniteSet(rows) /\ Cardinality(rows) \in Nat
  BY <1>4, <1>6, FS_Subset, FS_CardinalityType
<1> HIDE DEF rows
<1>8. /\ page \subseteq rows
      /\ \A n \in page, m \in rows : m < n => m \in page
      /\ Cardinality(rows) <= limit => page = rows
      /\ rows # {} => page # {}
  BY <1>2, <1>7, FirstAreLeast
<1> HIDE DEF page
<1>9. CASE ~ more
  <2>1. page = N
    BY <1>2, <1>6, <1>7, <1>8, <1>9
  <2>2. page = Stretch(log, request.region, request.from, Len(log))
    BY <1>3, <1>5, <2>1 DEF Stretch
  <2>3. Len(log) \in 0..Len(log)
    BY <1>3
  <2> HIDE DEF more
  <2> QED
    BY <1>1, <1>9, <2>2, <2>3 DEF IsPage
<1>10. CASE more
  <2>1. rows # {}
    BY <1>2, <1>10, FS_EmptySet
  <2>2. page \in SUBSET Nat /\ page # {} /\ \A n \in page : n \in N /\ n \in rows
    BY <1>6, <1>7, <1>8, <2>1
  <2>3. \A n \in page : n <= Len(log)
    BY <1>3, <2>2
  <2>4. PICK to \in page : \A n \in page : n <= to
    <3>1. Max(page) \in page /\ \A n \in page : n <= Max(page)
      BY <1>3, <2>2, <2>3, MaxIsMember
    <3> QED
      BY <3>1
  <2>5. to \in 0..Len(log)
    BY <1>3, <2>2, <2>3
  <2>6. ASSUME NEW n \in N, n <= to PROVE n \in page
    <3>1. n \in Nat /\ to \in Nat
      BY <1>4, <2>2
    <3>2. n < to => n \in rows
      BY <1>6, <2>2
    <3> QED
      BY <1>8, <2>6, <3>1, <3>2
  <2>7. page = Stretch(log, request.region, request.from, to)
    <3>1. \A n : n \in page <=> n \in N /\ n <= to
      BY <2>2, <2>4, <2>6
    <3>2. \A n : n \in page <=> n \in Stretch(log, request.region, request.from, to)
      <4>1. \A n \in N : n \in Nat
        BY <1>4
      <4>2. \A n : n \in N <=> /\ n \in DOMAIN log /\ request.region \in {Whole, log[n].region}
                               /\ request.from <= n
        BY <1>5
      <4> QED
        BY <3>1, <4>1, <4>2 DEF Stretch
    <3> QED
      BY <3>2
  <2> HIDE DEF more
  <2> QED
    BY <1>1, <1>10, <2>4, <2>5, <2>7 DEF IsPage
<1> QED
  BY <1>9, <1>10

\* What is written later comes after every stretch that was there.
LEMMA StretchStands ==
  ASSUME BoardType, Grows
  PROVE  /\ Len(log) \in Nat /\ Len(log') \in Nat /\ Len(log) <= Len(log')
         /\ \A region, from : \A to \in 0..Len(log) :
              Stretch(log', region, from, to) = Stretch(log, region, from, to)
<1>1. CASE UNCHANGED <<log, author>>
  BY <1>1 DEF BoardType
<1>2. ASSUME NEW entry, NEW by, Adds(entry, by)
      PROVE  /\ Len(log) \in Nat /\ Len(log') \in Nat /\ Len(log) <= Len(log')
             /\ \A region, from : \A to \in 0..Len(log) :
                  Stretch(log', region, from, to) = Stretch(log, region, from, to)
  <2>1. /\ DOMAIN log = 1..Len(log) /\ DOMAIN log' = 1..(Len(log) + 1) /\ Len(log) \in Nat
        /\ \A i \in DOMAIN log : log'[i] = log[i]
    BY <1>2, Added DEF Adds, BoardType
  <2>2. Len(log') = Len(log) + 1
    BY <1>2 DEF Adds, BoardType
  <2>3. ASSUME NEW region, NEW from, NEW to \in 0..Len(log)
        PROVE  Stretch(log', region, from, to) = Stretch(log, region, from, to)
    <3>1. \A n : n \in DOMAIN log' /\ n <= to <=> n \in DOMAIN log /\ n <= to
      BY <2>1
    <3>2. \A n : n \in Stretch(log', region, from, to) <=> n \in Stretch(log, region, from, to)
      BY <2>1, <3>1 DEF Stretch
    <3> QED
      BY <3>2 DEF Stretch
  <2> QED
    BY <2>1, <2>2, <2>3
<1> QED
  BY <1>1, <1>2 DEF Grows

\* Two lists, one after the other.
LEMMA ListsJoin ==
  ASSUME NEW f, NEW g, NEW A, NEW B, Lists(f, A), Lists(g, B), \A a \in A, b \in B : a < b
  PROVE  Lists(f \o g, A \cup B)
<1> DEFINE j == Len(f)
           k == Len(g)
           h == f \o g
<1>1. /\ f \in Seq(Nat) /\ g \in Seq(Nat) /\ j \in Nat /\ k \in Nat
      /\ DOMAIN f = 1..j /\ DOMAIN g = 1..k
      /\ \A i \in 1..j : f[i] \in A /\ f[i] \in Nat
      /\ \A i \in 1..k : g[i] \in B /\ g[i] \in Nat
  BY DEF Lists
<1>2. /\ h \in Seq(Nat) /\ DOMAIN h = 1..(j + k)
      /\ \A i \in 1..(j + k) : h[i] = IF i <= j THEN f[i] ELSE g[i - j]
  BY <1>1
<1> HIDE DEF j, k, h
<1>3. \A i \in 1..j : h[i] = f[i] /\ i \in 1..(j + k)
  BY <1>1, <1>2
<1>4. \A i \in 1..k : h[j + i] = g[i] /\ j + i \in 1..(j + k)
  BY <1>1, <1>2
<1>5. \A i \in 1..(j + k) : i \in 1..j \/ \E l \in 1..k : i = j + l
  <2> SUFFICES ASSUME NEW i \in 1..(j + k), i \notin 1..j PROVE \E l \in 1..k : i = j + l
    OBVIOUS
  <2>1. i - j \in 1..k /\ i = j + (i - j)
    BY <1>1
  <2> QED
    BY <2>1
<1>6. ASSUME NEW m \in 1..(j + k), NEW n \in 1..(j + k), m < n PROVE h[m] < h[n]
  <2>1. CASE m \in 1..j /\ n \in 1..j
    BY <1>1, <1>3, <1>6, <2>1 DEF Lists
  <2>2. ASSUME m \in 1..j, NEW l \in 1..k, n = j + l PROVE h[m] < h[n]
    BY <1>1, <1>3, <1>4, <2>2
  <2>3. ASSUME NEW p \in 1..k, NEW l \in 1..k, m = j + p, n = j + l PROVE h[m] < h[n]
    <3>1. p < l
      BY <1>1, <1>6, <2>3
    <3>2. g[p] < g[l]
      BY <1>1, <3>1 DEF Lists
    <3> QED
      BY <1>4, <2>3, <3>2
  <2>4. ASSUME NEW p \in 1..k, m = j + p, n \in 1..j PROVE FALSE
    BY <1>1, <1>6, <2>4
  <2> QED
    BY <1>5, <2>1, <2>2, <2>3, <2>4
<1>7. ASSUME NEW n PROVE n \in A \cup B <=> \E i \in 1..(j + k) : h[i] = n
  <2>1. n \in A <=> \E i \in 1..j : f[i] = n
    BY <1>1 DEF Lists
  <2>2. n \in B <=> \E i \in 1..k : g[i] = n
    BY <1>1 DEF Lists
  <2>3. ASSUME n \in A PROVE \E i \in 1..(j + k) : h[i] = n
    BY <1>3, <2>1, <2>3
  <2>4. ASSUME n \in B PROVE \E i \in 1..(j + k) : h[i] = n
    <3>1. PICK i \in 1..k : g[i] = n
      BY <2>2, <2>4
    <3> QED
      BY <1>4, <3>1
  <2>5. ASSUME NEW i \in 1..(j + k), h[i] = n PROVE n \in A \cup B
    BY <1>1, <1>3, <1>4, <1>5, <2>5
  <2> QED
    BY <2>3, <2>4, <2>5
<1>8. Lists(h, A \cup B)
  BY <1>2, <1>6, <1>7 DEF Lists
<1> QED
  BY <1>8 DEF h

\* A read without a limit, on its way from page to page.
Reading(c) == asked[c].op \in Reads /\ asked[c].limit = NoLimit /\ attempt[c] > 0

\* What a read has found is everything before the page it asks for; the page that has
\* come back goes on from there; and what it tells goes as far as the record did when
\* it began.
PageInv(c) ==
  /\ begun[c] \in 0..Len(log)
  /\ Reading(c) =>
       /\ asked[c].from \in 1..(Len(log) + 1)
       /\ Lists(found[c], Stretch(log, asked[c].region, 1, asked[c].from - 1))
       /\ reply[c].status = 200 =>
            \E to \in 0..Len(log) :
              /\ IsPage(log, asked[c].region, asked[c].from, reply[c].page, reply[c].more, to)
              /\ ~ reply[c].more => begun[c] <= to
  /\ told[c].kind = "read" /\ asked[c].limit = NoLimit =>
       \E end \in begun[c]..Len(log) :
         Lists(found[c], Stretch(log, asked[c].region, 1, end))

PagesInv == DOMAIN found = Callers /\ DOMAIN begun = Callers /\ \A c \in Callers : PageInv(c)

\* What a step does to a read that it does not take further.
Waits(c) ==
  /\ asked'[c] = asked[c] /\ begun'[c] = begun[c]
  /\ attempt'[c] > 0 => attempt[c] > 0 /\ found'[c] = found[c]
  /\ reply'[c] = reply[c] \/ reply'[c].status # 200
  /\ told'[c].kind = "read" => told'[c] = told[c] /\ found'[c] = found[c]

LEMMA PageStands ==
  ASSUME BoardType, Grows, NEW c \in Callers, PageInv(c), Waits(c)
  PROVE  PageInv(c)'
<1>1. /\ Len(log) \in Nat /\ Len(log') \in Nat /\ Len(log) <= Len(log')
      /\ \A region, from : \A to \in 0..Len(log) :
           Stretch(log', region, from, to) = Stretch(log, region, from, to)
  BY StretchStands
<1>2. begun'[c] \in 0..Len(log')
  BY <1>1 DEF PageInv, Waits
<1>3. ASSUME Reading(c)'
      PROVE  /\ asked'[c].from \in 1..(Len(log') + 1)
             /\ Lists(found'[c], Stretch(log', asked'[c].region, 1, asked'[c].from - 1))
             /\ reply'[c].status = 200 =>
                  \E to \in 0..Len(log') :
                    /\ IsPage(log', asked'[c].region, asked'[c].from, reply'[c].page,
                              reply'[c].more, to)
                    /\ ~ reply'[c].more => begun'[c] <= to
  <2>1. /\ Reading(c) /\ asked'[c] = asked[c] /\ found'[c] = found[c] /\ begun'[c] = begun[c]
        /\ reply'[c].status = 200 => reply'[c] = reply[c]
    BY <1>3 DEF Reading, Waits
  <2>2. /\ asked[c].from \in 1..(Len(log) + 1)
        /\ Lists(found[c], Stretch(log, asked[c].region, 1, asked[c].from - 1))
    BY <2>1 DEF PageInv
  <2>3. asked[c].from \in 1..(Len(log') + 1) /\ asked[c].from - 1 \in 0..Len(log)
    BY <1>1, <2>2
  <2>4. ASSUME reply'[c].status = 200
        PROVE  \E to \in 0..Len(log') :
                 /\ IsPage(log', asked[c].region, asked[c].from, reply[c].page, reply[c].more, to)
                 /\ ~ reply[c].more => begun[c] <= to
    <3>1. PICK to \in 0..Len(log) :
            /\ IsPage(log, asked[c].region, asked[c].from, reply[c].page, reply[c].more, to)
            /\ ~ reply[c].more => begun[c] <= to
      BY <2>1, <2>4 DEF PageInv
    <3>2. to \in 0..Len(log')
      BY <1>1
    <3>3. IsPage(log', asked[c].region, asked[c].from, reply[c].page, reply[c].more, to)
      BY <1>1, <3>1 DEF IsPage
    <3> QED
      BY <3>1, <3>2, <3>3
  <2> QED
    BY <1>1, <2>1, <2>2, <2>3, <2>4
<1>4. ASSUME told'[c].kind = "read", asked'[c].limit = NoLimit
      PROVE  \E end \in begun'[c]..Len(log') :
               Lists(found'[c], Stretch(log', asked'[c].region, 1, end))
  <2>1. asked'[c] = asked[c] /\ begun'[c] = begun[c] /\ told'[c] = told[c] /\ found'[c] = found[c]
    BY <1>4 DEF Waits
  <2>2. PICK end \in begun[c]..Len(log) : Lists(found[c], Stretch(log, asked[c].region, 1, end))
    BY <1>4, <2>1 DEF PageInv
  <2>3. end \in 0..Len(log) /\ end \in begun[c]..Len(log')
    BY <1>1, <2>2 DEF PageInv
  <2> QED
    BY <1>1, <2>1, <2>2, <2>3
<1> QED
  BY <1>2, <1>3, <1>4 DEF PageInv, Reading

\* The page that a read has asked for.
LEMMA AnswerIsPage ==
  ASSUME TypeInv, AnswerInv, PagesInv, NEW m \in net, NEW answer \in Answers(m.request),
         Handle(m.request, m.by, answer), Comes(m, answer), NEW c \in Callers,
         m.request = asked[c], Reading(c), reply'[c] = answer
  PROVE  PageInv(c)'
<1>1. answer = ReadReply(asked[c])
  BY DEF Answers, Reading, Reads
<1>2. answer.status # 201
  BY <1>1 DEF ReadReply, Status
<1>3. UNCHANGED <<log, author>>
  BY <1>2, HandleGrows DEF AnswerInv
<1>4. UNCHANGED <<asked, attempt, found, begun, told>>
  BY DEF Comes
<1>5. PageInv(c) /\ begun[c] \in 0..Len(log)
  BY DEF PagesInv, PageInv
<1>6. ASSUME answer.status = 200
      PROVE  \E to \in 0..Len(log) :
               /\ IsPage(log, asked[c].region, asked[c].from, answer.page, answer.more, to)
               /\ ~ answer.more => begun[c] <= to
  <2>1. asked[c].limit = NoLimit
    BY DEF Reading
  <2>2. PICK to \in 0..Len(log) :
          /\ IsPage(log, asked[c].region, asked[c].from, answer.page, answer.more, to)
          /\ ~ answer.more => to = Len(log)
    BY <1>1, <1>6, <2>1, PageIsStretch DEF TypeInv
  <2> QED
    BY <1>5, <2>2
<1> QED
  BY <1>3, <1>4, <1>5, <1>6 DEF PageInv, Reading

LEMMA ArrivalKeepsPages ==
  ASSUME TypeInv, AnswerInv, PagesInv, NEW m \in net, NEW answer \in Answers(m.request),
         Handle(m.request, m.by, answer), NEW heard \in {answer, Unavailable}, Comes(m, heard)
  PROVE  PagesInv'
<1>1. Grows
  BY HandleGrows DEF AnswerInv
<1>2. DOMAIN reply = Callers /\ BoardType
  BY DEF AnswerInv, AskedInv, TypeInv
<1>3. /\ UNCHANGED <<asked, attempt, turn, found, begun, told>>
      /\ \A c \in Callers : reply'[c] = reply[c] \/ (m.request = asked[c] /\ reply'[c] = heard)
  BY <1>2 DEF Comes
<1>4. ASSUME NEW c \in Callers PROVE PageInv(c)'
  <2>1. PageInv(c)
    BY DEF PagesInv
  <2>2. CASE reply'[c] = reply[c] \/ reply'[c].status # 200
    BY <1>1, <1>2, <1>3, <2>1, <2>2, PageStands DEF Waits
  <2>3. CASE m.request = asked[c] /\ reply'[c] = answer /\ heard = answer /\ Reading(c)
    BY <2>3, AnswerIsPage
  <2>4. CASE ~ Reading(c)
    <3>1. /\ Len(log) \in Nat /\ Len(log') \in Nat /\ Len(log) <= Len(log')
          /\ \A region, from : \A to \in 0..Len(log) :
               Stretch(log', region, from, to) = Stretch(log, region, from, to)
      BY <1>1, <1>2, StretchStands
    <3>2. ~ Reading(c)'
      BY <1>3, <2>4 DEF Reading
    <3>3. begun[c] \in 0..Len(log) /\ begun[c] \in 0..Len(log')
      BY <2>1, <3>1 DEF PageInv
    <3>4. ASSUME told[c].kind = "read", asked[c].limit = NoLimit
          PROVE  \E end \in begun[c]..Len(log') :
                   Lists(found[c], Stretch(log', asked[c].region, 1, end))
      <4>1. PICK end \in begun[c]..Len(log) :
              Lists(found[c], Stretch(log, asked[c].region, 1, end))
        BY <2>1, <3>4 DEF PageInv
      <4>2. end \in 0..Len(log) /\ end \in begun[c]..Len(log')
        BY <3>1, <3>3
      <4> QED
        BY <3>1, <4>1, <4>2
    <3> QED
      BY <1>3, <3>2, <3>3, <3>4 DEF PageInv
  <2>5. Unavailable.status # 200
    BY DEF Unavailable, Status
  <2> QED
    BY <1>3, <2>2, <2>3, <2>4, <2>5
<1> QED
  BY <1>3, <1>4 DEF PagesInv, Comes

\* A call begins at the first entry, with the page that nothing precedes.
LEMMA CallsBeginAtOne ==
  ASSUME NEW request \in Calls
  PROVE  request.from = 1
<1>1. \A l, k, a : WriteRequest(l, k, a).from = 1
  BY DEF WriteRequest, Blank
<1>2. \A p, k, a, v : PremiseRequest(p, k, a, v).from = 1
  BY DEF PremiseRequest, Blank
<1>3. \A l, limit : LevelRequest(l, limit).from = 1 /\ BoardRequest(limit).from = 1
  BY DEF LevelRequest, BoardRequest, Blank
<1>4. \A a, n : AckRequest(a, n).from = 1
  BY DEF AckRequest, Blank
<1> QED
  BY <1>1, <1>2, <1>3, <1>4 DEF Calls

\* A new read has found nothing, and asks for the first page.
LEMMA CallKeepsPages ==
  ASSUME TypeInv, AnswerInv, PagesInv, NEW c \in Callers, NEW request \in Calls,
         Call(c, request)
  PROVE  PagesInv'
<1>1. /\ asked' = [asked EXCEPT ![c] = request] /\ attempt' = [attempt EXCEPT ![c] = 1]
      /\ found' = [found EXCEPT ![c] = <<>>] /\ begun' = [begun EXCEPT ![c] = Len(log)]
      /\ reply' = [reply EXCEPT ![c] = NoReply]
      /\ told' = [told EXCEPT ![c] = Outcome("none", 0)]
      /\ UNCHANGED <<log, author>>
  BY DEF Call, board
<1>2. /\ DOMAIN asked = Callers /\ DOMAIN attempt = Callers /\ DOMAIN found = Callers
      /\ DOMAIN begun = Callers /\ DOMAIN reply = Callers /\ DOMAIN told = Callers
      /\ BoardType
  BY DEF TypeInv, CallersType, AnswerInv, AskedInv, PagesInv
<1>3. PageInv(c)'
  <2>1. /\ asked'[c] = request /\ found'[c] = <<>> /\ begun'[c] = Len(log)
        /\ reply'[c] = NoReply /\ told'[c].kind = "none" /\ log' = log
    BY <1>1, <1>2 DEF Outcome
  <2>2. request.from = 1
    BY CallsBeginAtOne
  <2>3. Len(log) \in Nat
    BY <1>2 DEF BoardType
  <2>4. Stretch(log, request.region, 1, 0) = {}
    BY <2>3 DEF Stretch, BoardType, TypeInv
  <2>5. Lists(<<>>, Stretch(log, request.region, 1, 1 - 1))
    BY <2>4 DEF Lists
  <2>6. NoReply.status # 200
    BY DEF NoReply, Status
  <2> QED
    BY <2>1, <2>2, <2>3, <2>5, <2>6 DEF PageInv
<1>4. ASSUME NEW x \in Callers \ {c} PROVE PageInv(x)'
  <2>1. Waits(x) /\ Grows /\ PageInv(x)
    BY <1>1, <1>2 DEF Waits, Grows, PagesInv
  <2> QED
    BY <1>2, <2>1, PageStands
<1> QED
  BY <1>1, <1>2, <1>3, <1>4 DEF PagesInv

\* Up to a page and the page are one stretch.
LEMMA StretchesJoin ==
  ASSUME BoardType, NEW region, NEW from \in 1..(Len(log) + 1), NEW to \in 0..Len(log),
         NEW end \in 0..Len(log), end = IF from <= to THEN to ELSE from - 1
  PROVE  /\ Stretch(log, region, 1, from - 1) \cup Stretch(log, region, from, to)
              = Stretch(log, region, 1, end)
         /\ \A m \in Stretch(log, region, 1, from - 1), n \in Stretch(log, region, from, to) :
              m < n
<1>1. DOMAIN log = 1..Len(log) /\ Len(log) \in Nat
  BY DEF BoardType
<1>2. \A n \in DOMAIN log :
        ((1 <= n /\ n <= from - 1) \/ (from <= n /\ n <= to)) <=> n <= end
  BY <1>1
<1>3. \A n \in DOMAIN log : 1 <= n
  BY <1>1
<1>4. \A n : n \in Stretch(log, region, 1, from - 1) \cup Stretch(log, region, from, to)
               <=> n \in Stretch(log, region, 1, end)
  BY <1>2, <1>3 DEF Stretch
<1>5. Stretch(log, region, 1, from - 1) \cup Stretch(log, region, from, to)
        = Stretch(log, region, 1, end)
  BY <1>4
<1>6. ASSUME NEW m \in Stretch(log, region, 1, from - 1), NEW n \in Stretch(log, region, from, to)
      PROVE  m < n
  <2>1. m \in 1..Len(log) /\ n \in 1..Len(log) /\ m <= from - 1 /\ from <= n
    BY <1>1 DEF Stretch
  <2> QED
    BY <1>1, <2>1
<1> QED
  BY <1>5, <1>6

\* A page is read: it goes on from what was found, and either there is more after its
\* last entry, or it ends where the record did, and not before the call began.
LEMMA ReadPageKeepsPage ==
  ASSUME TypeInv, AnswerInv, PagesInv, NEW c \in Callers, ReadPage(c), asked[c].limit = NoLimit
  PROVE  PageInv(c)'
<1>1. /\ attempt[c] > 0 /\ asked[c].op \in Reads /\ reply[c].status = 200
      /\ found' = [found EXCEPT ![c] = found[c] \o InOrder(reply[c].page)]
      /\ UNCHANGED <<board, begun>>
  BY DEF ReadPage, Arrived, Reads, Ends
<1>2. /\ DOMAIN asked = Callers /\ DOMAIN attempt = Callers /\ DOMAIN found = Callers
      /\ DOMAIN reply = Callers /\ DOMAIN told = Callers
      /\ BoardType /\ log' = log
  BY <1>1 DEF TypeInv, CallersType, AnswerInv, AskedInv, PagesInv, board
<1>3. DOMAIN log = 1..Len(log) /\ Len(log) \in Nat /\ IsFiniteSet(DOMAIN log)
  <2>1. DOMAIN log = 1..Len(log) /\ Len(log) \in Nat
    BY <1>2 DEF BoardType
  <2> QED
    BY <2>1, FS_Interval
<1> DEFINE from == asked[c].from
           region == asked[c].region
           page == reply[c].page
           more == reply[c].more
<1>4. PageInv(c) /\ Reading(c) /\ begun[c] \in 0..Len(log)
  BY <1>1 DEF PagesInv, PageInv, Reading
<1>5. /\ from \in 1..(Len(log) + 1)
      /\ Lists(found[c], Stretch(log, region, 1, from - 1))
  BY <1>4 DEF PageInv
<1>6. PICK to \in 0..Len(log) : /\ IsPage(log, region, from, page, more, to)
                                /\ ~ more => begun[c] <= to
  BY <1>1, <1>4 DEF PageInv
<1> DEFINE end == IF from <= to THEN to ELSE from - 1
<1> HIDE DEF from, region, page, more
<1>7. end \in 0..Len(log) /\ to <= end /\ (from <= to => end = to)
  BY <1>3, <1>5, <1>6
<1> HIDE DEF end
<1>8. Lists(found'[c], Stretch(log, region, 1, end))
  <2>1. page = Stretch(log, region, from, to) /\ page \subseteq DOMAIN log
    BY <1>6 DEF IsPage, Stretch
  <2>2. page \in SUBSET Nat /\ IsFiniteSet(page)
    BY <1>3, <2>1, FS_Subset
  <2>3. Lists(InOrder(page), page)
    BY <2>2, InOrderLists
  <2>4. /\ Stretch(log, region, 1, from - 1) \cup page = Stretch(log, region, 1, end)
        /\ \A m \in Stretch(log, region, 1, from - 1), n \in page : m < n
    BY <1>2, <1>5, <1>6, <1>7, <2>1, StretchesJoin DEF end
  <2>5. Lists(found[c] \o InOrder(page), Stretch(log, region, 1, from - 1) \cup page)
    BY <1>5, <2>3, <2>4, ListsJoin
  <2>6. found'[c] = found[c] \o InOrder(page)
    BY <1>1, <1>2 DEF page
  <2> QED
    BY <2>4, <2>5, <2>6
<1>9. CASE Follows(c)
  <2> DEFINE next == [asked[c] EXCEPT !.from = NextPage(page)]
  <2>1. /\ asked' = [asked EXCEPT ![c] = next] /\ reply' = [reply EXCEPT ![c] = NoReply]
        /\ told' = told
    BY <1>9 DEF ReadPage, page
  <2>2. IsRequest(asked[c])
    BY <1>1 DEF TypeInv, CallersType
  <2>3. next.from = NextPage(page) /\ next.region = region
    BY <2>2 DEF IsRequest, Blank, region
  <2>4. to \in page /\ from <= to /\ \A n \in page : n <= to /\ n \in Nat
    <3>1. to \in page
      BY <1>6, <1>9 DEF Follows, IsPage, more
    <3> QED
      BY <1>3, <1>6, <3>1 DEF IsPage, Stretch
  <2>5. NextPage(page) = to + 1
    <3>1. page \in SUBSET Nat /\ page # {} /\ to \in Nat
      BY <2>4
    <3>2. Max(page) \in page /\ \A n \in page : n <= Max(page)
      BY <2>4, <3>1, MaxIsMember
    <3>3. Max(page) <= to /\ to <= Max(page) /\ Max(page) \in Nat
      BY <2>4, <3>2
    <3>4. Max(page) = to
      BY <3>1, <3>3
    <3> QED
      BY <3>4 DEF NextPage
  <2> HIDE DEF next
  <2>6. asked'[c] = next /\ reply'[c] = NoReply /\ told'[c] = told[c]
    BY <1>2, <2>1
  <2>7. next.from \in 1..(Len(log) + 1) /\ next.from - 1 = end
    BY <1>3, <1>6, <1>7, <2>3, <2>4, <2>5
  <2>8. told'[c].kind # "read" /\ reply'[c].status # 200
    BY <1>1, <2>6 DEF AnswerInv, AskedInv, NoReply, Status
  <2> QED
    BY <1>1, <1>2, <1>4, <1>8, <2>3, <2>6, <2>7, <2>8 DEF PageInv
<1>10. CASE ~ Follows(c)
  <2>1. Ends(c, Outcome("read", 0))
    BY <1>10 DEF ReadPage
  <2>2. /\ asked' = asked /\ attempt'[c] = 0 /\ begun' = begun
    BY <1>2, <2>1 DEF Ends
  <2>3. ~ more
    <3>1. more => page # {}
      BY <1>6 DEF IsPage
    <3> QED
      BY <1>10, <3>1 DEF Follows, more, page
  <2>4. end \in begun[c]..Len(log)
    BY <1>3, <1>4, <1>6, <1>7, <2>3
  <2>5. ~ Reading(c)'
    BY <2>2 DEF Reading
  <2> QED
    BY <1>2, <1>4, <1>8, <2>2, <2>4, <2>5 DEF PageInv, region
<1> QED
  BY <1>9, <1>10

\* A caller that goes on.
LEMMA ProceedKeepsPages ==
  ASSUME TypeInv, AnswerInv, PagesInv, NEW c \in Callers, Proceed(c)
  PROVE  PagesInv'
<1>1. /\ DOMAIN asked = Callers /\ DOMAIN attempt = Callers /\ DOMAIN found = Callers
      /\ DOMAIN begun = Callers /\ DOMAIN reply = Callers /\ DOMAIN told = Callers
      /\ BoardType
  BY DEF TypeInv, CallersType, AnswerInv, AskedInv, PagesInv
<1>2. /\ begun' = begun /\ UNCHANGED board /\ DOMAIN found' = Callers /\ Grows
      /\ \A x \in Callers \ {c} : /\ asked'[x] = asked[x] /\ found'[x] = found[x]
                                  /\ attempt'[x] = attempt[x] /\ reply'[x] = reply[x]
                                  /\ told'[x] = told[x]
  BY <1>1 DEF Proceed, SendAgain, GiveUp, ReadPage, ReadAnswer, Ends, board, Grows
<1>3. ASSUME NEW x \in Callers, Waits(x) PROVE PageInv(x)'
  BY <1>1, <1>2, <1>3, PageStands DEF PagesInv
<1>4. NoReply.status # 200
  BY DEF NoReply, Status
<1>5. ASSUME SendAgain(c) PROVE PageInv(c)'
  BY <1>1, <1>3, <1>4, <1>5 DEF SendAgain, Failed, Waits
<1>6. ASSUME GiveUp(c) PROVE PageInv(c)'
  BY <1>1, <1>3, <1>4, <1>6 DEF GiveUp, Ends, Outcome, Waits
<1>7. ASSUME ReadAnswer(c) PROVE PageInv(c)'
  <2>1. Meaning(asked[c], reply[c]) # "read"
    <3>1. reply[c].error \in Errors
      BY DEF AnswerInv, ReplyTrue
    <3> QED
      BY <3>1 DEF Meaning, Errors
  <2>2. told'[c].kind # "read" /\ attempt'[c] = 0 /\ reply'[c] = NoReply /\ asked' = asked
    BY <1>1, <1>7, <2>1 DEF ReadAnswer, Ends, Outcome
  <2> QED
    BY <1>2, <1>3, <1>4, <2>2 DEF Waits
<1>8. ASSUME ReadPage(c) PROVE PageInv(c)'
  <2>1. CASE asked[c].limit = NoLimit
    BY <1>8, <2>1, ReadPageKeepsPage
  <2>2. CASE asked[c].limit # NoLimit
    <3>1. asked' = asked
      BY <1>8, <2>2 DEF ReadPage, Follows, Ends
    <3>2. ~ Reading(c)' /\ asked'[c].limit # NoLimit
      BY <2>2, <3>1 DEF Reading
    <3>3. begun'[c] \in 0..Len(log')
      BY <1>2 DEF PagesInv, PageInv, board
    <3> QED
      BY <3>2, <3>3 DEF PageInv
  <2> QED
    BY <2>1, <2>2
<1>9. PageInv(c)'
  BY <1>5, <1>6, <1>7, <1>8 DEF Proceed
<1>10. ASSUME NEW x \in Callers \ {c} PROVE PageInv(x)'
  BY <1>2, <1>3 DEF Waits
<1> QED
  BY <1>1, <1>2, <1>9, <1>10 DEF PagesInv

LEMMA PagesInit == Init0 => PagesInv
<1> SUFFICES ASSUME Init0, NEW c \in Callers PROVE PageInv(c)
  BY DEF Init0, PagesInv
<1>1. begun[c] = 0 /\ log = <<>> /\ attempt[c] = 0 /\ told[c].kind = "none"
  BY DEF Init0, InitBoard, Init, Outcome
<1> QED
  BY <1>1 DEF PageInv, Reading

LEMMA PagesStep == TypeInv /\ AnswerInv /\ PagesInv /\ [Steps]_vars => PagesInv'
<1> SUFFICES ASSUME TypeInv, AnswerInv, PagesInv, [Steps]_vars PROVE PagesInv'
  OBVIOUS
<1>1. ASSUME Grows, UNCHANGED <<asked, attempt, found, begun, told>>,
             \A c \in Callers : reply'[c] \in {reply[c], Unavailable}
      PROVE  PagesInv'
  <2>1. Unavailable.status # 200
    BY DEF Unavailable, Status
  <2>2. ASSUME NEW c \in Callers PROVE PageInv(c)'
    <3>1. Waits(c) /\ PageInv(c) /\ BoardType
      BY <1>1, <2>1 DEF Waits, PagesInv, TypeInv
    <3> QED
      BY <1>1, <3>1, PageStands
  <2> QED
    BY <1>1, <2>2 DEF PagesInv
<1>2. ASSUME NEW m \in net, Answered(m) \/ Unheard(m) PROVE PagesInv'
  BY <1>2, ArrivalKeepsPages DEF Answered, Unheard
<1>3. ASSUME NEW m \in net, TurnedAway(m) PROVE PagesInv'
  <2>1. Grows /\ \A c \in Callers : reply'[c] \in {reply[c], Unavailable}
    BY <1>3 DEF TurnedAway, Comes, board, Grows, AnswerInv, AskedInv
  <2> QED
    BY <1>1, <1>3, <2>1 DEF TurnedAway, Comes
<1>4. CASE Elsewhere
  <2>1. Grows
    <3>1. ASSUME NEW r \in Region, WriteElsewhere(r) PROVE Grows
      <4> DEFINE entry == [region |-> r, key |-> NoKey,
                           expected |-> IF r \in Levels THEN 0 ELSE WritesTo(r)]
      <4>1. /\ log' = Append(log, entry) /\ author' = Append(author, Nobody)
            /\ Fresh(entry.key)
            /\ entry.region \in Premises => entry.expected = WritesTo(entry.region)
        BY <3>1 DEF WriteElsewhere, Extend
      <4> HIDE DEF entry
      <4> QED
        BY <4>1 DEF Adds, Grows
    <3> QED
      BY <1>4, <3>1 DEF Elsewhere, Notify, CloseRun, LetGo, Grows
  <2> QED
    BY <1>1, <1>4, <2>1 DEF Elsewhere, callers
<1>5. ASSUME NEW c \in Callers, Proceed(c) \/ \E request \in Calls : Call(c, request)
      PROVE  PagesInv'
  BY <1>5, CallKeepsPages, ProceedKeepsPages
<1>6. CASE UNCHANGED vars
  BY <1>1, <1>6 DEF vars, board, callers, Grows
<1> QED
  BY <1>2, <1>3, <1>4, <1>5, <1>6 DEF Steps, Network

\* A read without a limit that has ended told one stretch of the record, every entry of
\* the region once and in order, from the first to one that is no earlier than the last
\* there was when the read began: for any sizes of page, any region, whatever is written
\* between its pages, and however often a page is asked for or answered.
THEOREM PagesStayWhole == ClientSpec => []PagesAreWhole
<1>1. TypeInv /\ PagesInv => PagesAreWhole
  <2> SUFFICES ASSUME TypeInv, PagesInv, NEW c \in Callers,
                      told[c].kind = "read", asked[c].limit = NoLimit
               PROVE  \E end \in begun[c]..Len(log) :
                        found[c] = InOrder({n \in InRegion(asked[c].region) : n <= end})
    BY DEF PagesAreWhole
  <2>1. PICK end \in begun[c]..Len(log) :
          Lists(found[c], Stretch(log, asked[c].region, 1, end))
    BY DEF PagesInv, PageInv
  <2>2. found[c] = InOrder(Stretch(log, asked[c].region, 1, end))
    BY <2>1, ListsAreInOrder
  <2>3. \A n \in DOMAIN log : 1 <= n
    BY DEF TypeInv, BoardType
  <2>4. Stretch(log, asked[c].region, 1, end) = {n \in InRegion(asked[c].region) : n <= end}
    BY <2>3 DEF Stretch, InRegion
  <2> QED
    BY <2>2, <2>4
<1>2. TypeInv /\ OnceInv /\ AnswerInv /\ PagesInv /\ [Steps]_vars
        => (TypeInv /\ OnceInv /\ AnswerInv /\ PagesInv)'
  BY TypeStep, OnceStep, AnswerStep, PagesStep
<1> QED
  BY <1>1, <1>2, TypeInit, OnceInit, AnswerInit, PagesInit, PTL DEF ClientSpec
=============================================================================
