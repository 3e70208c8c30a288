----------------------------- MODULE BoardClient ----------------------------
(***************************************************************************)
(* BoardClient and AsyncBoardClient (agent.py) and the network between     *)
(* them and BoardService.  A call sends a request, and sends it again when *)
(* it is safe to: a request that timed out may still arrive, late or       *)
(* never, and one that arrived may have been answered in vain.             *)
(***************************************************************************)
EXTENDS BoardService

CONSTANTS
  Callers,     \* calls are made one at a time by each
  Operations,  \* the operations called
  Attempts,    \* how often a call that may be sent again is sent
  MaxCalls,    \* bound: calls of each caller
  MaxLog       \* bound: writes to the board

ASSUME AttemptsAtLeastOne == Attempts \in Nat \ {0} /\ MaxCalls \in Nat

VARIABLES
  asked,    \* each caller's call, whatever page or attempt it is at
  attempt,  \* the attempt it waits for an answer to, 0 between its calls
  turn,     \* how many calls it has made
  found,    \* what a read has found so far, in the order it was found
  begun,    \* history: the length of the log when the call began
  reply,    \* the answer that has come back to the attempt
  told,     \* the outcome of its last call
  net       \* the requests that have not arrived, and may never

callers == <<asked, attempt, turn, found, begun, reply, told, net>>
vars == <<board, callers>>

NoReply == Status(0, "none")
Unavailable == Status(503, "none")
Outcome(kind, number) == [kind |-> kind, number |-> number]

By(c) == [caller |-> c, turn |-> turn[c]]
Sent(c, request, nth) == [by |-> [caller |-> c, turn |-> turn'[c]],
                          attempt |-> nth, request |-> request]

TypeOK ==
  /\ Len(author) = Len(log) /\ run \in {"open", "closed"} /\ holds \in BOOLEAN
  /\ \A a \in Agents : acked[a] \in 0..notified[a] /\ notified[a] <= Len(log)
  /\ attempt \in [Callers -> 0..Attempts]
  /\ turn \in [Callers -> 0..MaxCalls]
  /\ \A m \in net : m.by.turn <= turn[m.by.caller]

-----------------------------------------------------------------------------
(* Building a call.                                                        *)

WriteRequest(level, key, agent) ==
  [Blank EXCEPT !.op = "write", !.region = level, !.key = key, !.agent = agent]
PremiseRequest(premise, key, agent, version) ==
  [Blank EXCEPT !.op = "set_premise", !.region = premise, !.key = key, !.agent = agent,
                !.expected = version]
LevelRequest(level, limit) ==
  [Blank EXCEPT !.op = "read_level", !.region = level, !.limit = limit]
BoardRequest(limit) == [Blank EXCEPT !.op = "read_board", !.limit = limit]
AckRequest(agent, number) == [Blank EXCEPT !.op = "ack", !.agent = agent, !.number = number]

\* What is asked of a premise names a version of it that the agent has read, and
\* what is acknowledged is something the agent was told.
Calls ==
  {WriteRequest(l, k, a) : l \in Levels, k \in Keys \cup {NoKey}, a \in Agents}
    \cup (UNION {{PremiseRequest(p, k, a, v) : k \in Keys \cup {NoKey}, a \in Agents,
                                               v \in 0..WritesTo(p)} : p \in Premises})
    \cup {LevelRequest(l, limit) : l \in Levels, limit \in {NoLimit, MaxLimit}}
    \cup {BoardRequest(limit) : limit \in {NoLimit, MaxLimit}}
    \cup UNION {{AckRequest(a, n) : n \in 1..notified[a]} : a \in Agents}

\* Mutant of Repeatable: every call is sent again.
AlwaysRepeatable(request) == TRUE

\* Whether sending it a second time is safe: a key is what makes a write so.
Repeatable(request) == request.op \in {"write", "set_premise"} => request.key # NoKey

Tries(request) == IF Repeatable(request) THEN Attempts ELSE 1

Call(c, request) ==
  /\ attempt[c] = 0 /\ turn[c] < MaxCalls /\ request.op \in Operations
  /\ asked' = [asked EXCEPT ![c] = request]
  /\ turn' = [turn EXCEPT ![c] = @ + 1]
  /\ net' = net \cup {Sent(c, request, 1)}
  /\ attempt' = [attempt EXCEPT ![c] = 1]
  /\ found' = [found EXCEPT ![c] = <<>>]
  /\ begun' = [begun EXCEPT ![c] = Len(log)]
  /\ reply' = [reply EXCEPT ![c] = NoReply]
  /\ told' = [told EXCEPT ![c] = Outcome("none", 0)]
  /\ UNCHANGED board

-----------------------------------------------------------------------------
(* The network and the service.                                            *)

\* The answer goes to the attempt that waits for it, or to nobody.
Comes(m, answer) ==
  /\ net' = net \ {m}
  /\ reply' = IF /\ m.by = By(m.by.caller) /\ m.attempt = attempt[m.by.caller]
                 /\ m.request = asked[m.by.caller]
              THEN [reply EXCEPT ![m.by.caller] = answer] ELSE reply
  /\ UNCHANGED <<asked, attempt, turn, found, begun, told>>

Room(answer) == answer.status = 201 => Len(log) < MaxLog

\* A request arrives, and is answered.
Answered(m) ==
  \E answer \in Answers(m.request) :
    Room(answer) /\ Handle(m.request, m.by, answer) /\ Comes(m, answer)

\* It is carried out and the answer is an error of the way back, or of the
\* process after the write.
Unheard(m) ==
  \E answer \in Answers(m.request) :
    Room(answer) /\ Handle(m.request, m.by, answer) /\ Comes(m, Unavailable)

\* A gateway or the process answers that it cannot, and nothing is carried out.
TurnedAway(m) == Comes(m, Unavailable) /\ UNCHANGED board

-----------------------------------------------------------------------------
(* _send, and what the call makes of an answer, in BoardClient and, with   *)
(* an await before each request, in AsyncBoardClient.                      *)

\* _again: 503 stands for 408, 425 and 429 too, which are sent again alike.
Again(status) == status >= 500

\* Nothing came back in time (an HTTPError), or what did is worth another attempt.
Failed(c) == attempt[c] > 0 /\ (reply[c] = NoReply \/ Again(reply[c].status))

\* Mutant of SendAgain: one attempt too many.
SendOnceMore(c) ==
  /\ Failed(c) /\ attempt[c] <= Tries(asked[c])
  /\ attempt' = [attempt EXCEPT ![c] = @ + 1]
  /\ reply' = [reply EXCEPT ![c] = NoReply]
  /\ UNCHANGED <<board, asked, turn, found, begun, told>>
  /\ net' = net \cup {Sent(c, asked[c], attempt[c] + 1)}

\* Mutant of SendAgain: the attempts are not counted.
SendUncounted(c) ==
  /\ Failed(c) /\ attempt[c] < Tries(asked[c])
  /\ reply' = [reply EXCEPT ![c] = NoReply]
  /\ UNCHANGED <<board, asked, attempt, turn, found, begun, told>>
  /\ net' = net \cup {Sent(c, asked[c], attempt[c])}

SendAgain(c) ==
  /\ Failed(c) /\ attempt[c] < Tries(asked[c])
  /\ attempt' = [attempt EXCEPT ![c] = @ + 1]
  /\ reply' = [reply EXCEPT ![c] = NoReply]
  /\ UNCHANGED <<board, asked, turn, found, begun, told>>
  /\ net' = net \cup {Sent(c, asked[c], attempt[c] + 1)}

Ends(c, outcome) ==
  /\ attempt' = [attempt EXCEPT ![c] = 0]
  /\ reply' = [reply EXCEPT ![c] = NoReply]
  /\ told' = [told EXCEPT ![c] = outcome]
  /\ UNCHANGED <<board, asked, turn, begun, net>>

GiveUp(c) ==
  /\ Failed(c) /\ attempt[c] = Tries(asked[c])
  /\ Ends(c, Outcome("unreachable", 0))
  /\ found' = [found EXCEPT ![c] = <<>>]

Arrived(c) == attempt[c] > 0 /\ reply[c] # NoReply /\ ~ Again(reply[c].status)

NextPage(page) == Max(page) + 1

\* A read without a limit follows the pages to the last.
Follows(c) ==
  asked[c].limit = NoLimit /\ reply[c].more /\ reply[c].page # {}

ReadPage(c) ==
  /\ Arrived(c) /\ asked[c].op \in {"read_level", "read_board"} /\ reply[c].status = 200
  /\ found' = [found EXCEPT ![c] = @ \o InOrder(reply[c].page)]
  /\ IF Follows(c)
     THEN LET next == [asked[c] EXCEPT !.from = NextPage(reply[c].page)]
          IN  /\ asked' = [asked EXCEPT ![c] = next]
              /\ attempt' = [attempt EXCEPT ![c] = 1]
              /\ reply' = [reply EXCEPT ![c] = NoReply]
              /\ UNCHANGED <<board, turn, begun, told>>
              /\ net' = net \cup {Sent(c, next, 1)}
     ELSE Ends(c, Outcome("read", 0))

\* _write_outcome and _premise_outcome, and what _refuse raises.
Meaning(request, answer) ==
  CASE answer.status = 201 -> "written"
    [] answer.status = 200 -> "repeated"
    [] answer.status = 204 -> "acknowledged"
    [] answer.status \in {410, 422} -> "rejected"
    [] answer.error = "conflict" -> "conflict"
    [] OTHER -> answer.error

ReadAnswer(c) ==
  /\ Arrived(c) /\ (asked[c].op \in {"read_level", "read_board"} => reply[c].status # 200)
  /\ Ends(c, Outcome(Meaning(asked[c], reply[c]), reply[c].number))
  /\ found' = [found EXCEPT ![c] = <<>>]

-----------------------------------------------------------------------------
Init0 ==
  /\ InitBoard
  /\ asked = [c \in Callers |-> Blank] /\ attempt = [c \in Callers |-> 0]
  /\ turn = [c \in Callers |-> 0] /\ found = [c \in Callers |-> <<>>]
  /\ begun = [c \in Callers |-> 0] /\ reply = [c \in Callers |-> NoReply]
  /\ told = [c \in Callers |-> Outcome("none", 0)]
  /\ net = {}

Proceed(c) == SendAgain(c) \/ GiveUp(c) \/ ReadPage(c) \/ ReadAnswer(c)

Elsewhere ==
  /\ \/ \E r \in Region : Len(log) < MaxLog /\ WriteElsewhere(r)
     \/ \E a \in Agents : Notify(a)
     \/ CloseRun \/ LetGo
  /\ UNCHANGED callers

Network ==
  \E m \in net : Answered(m) \/ Unheard(m) \/ TurnedAway(m)

Steps ==
  \/ \E c \in Callers : Proceed(c) \/ \E request \in Calls : Call(c, request)
  \/ Network \/ Elsewhere

Fairness == \A c \in Callers : WF_vars(Proceed(c))

ClientSpec == Init0 /\ [][Steps]_vars /\ Fairness

-----------------------------------------------------------------------------
(* What an agent can rely on.                                              *)

\* One call is at most one write, whatever was sent again, late or in vain: with a
\* key because the store recognises it, without one because it is sent once.
AtMostOnce ==
  \A i, j \in DOMAIN log : author[i] = author[j] /\ author[i] # Nobody => i = j

\* What one key has written of one version of one premise.
SameWrite(request) ==
  {i \in WithKey(request.key) :
     log[i].region = request.region /\ log[i].expected = request.expected}

\* An answer is true of the record and stays true, with attempts of the same call
\* still on the way: a write that was made is there under its number, one that
\* had been made carries the call's key, one that lost is nowhere, so that the
\* agent may read the premise and decide again, and a notification that was
\* issued is never unknown, though the run closes before its answer arrives.
AnswersAreTrue ==
  \A c \in Callers :
    LET mine == {i \in DOMAIN log : author[i] = By(c)}
    IN  /\ told[c].kind = "written" => mine = {told[c].number}
        /\ told[c].kind = "repeated" => told[c].number \in WithKey(asked[c].key)
        /\ told[c].kind = "conflict" => mine \cup SameWrite(asked[c]) = {}
        /\ told[c].kind = "rejected" /\ asked[c].key = NoKey => mine = {}
        /\ told[c].kind # "unknown_notification"

\* A read without a limit is one stretch of the record without a gap or a
\* duplicate, as long as the record was when the read began at least, while
\* others write between its pages and pages are asked for twice.
PagesAreWhole ==
  \A c \in Callers :
    told[c].kind = "read" /\ asked[c].limit = NoLimit =>
      \E end \in begun[c]..Len(log) :
        found[c] = InOrder({n \in InRegion(asked[c].region) : n <= end})

\* A write that is told that the run refused it is not on the board: what the
\* refusal of a second attempt says of the first.
RejectedIsNotWritten ==
  \A c \in Callers :
    told[c].kind = "rejected" => \A i \in DOMAIN log : author[i] # By(c)

\* Every call comes to an end, though nothing ever answers it.
EveryCallReturns ==
  \A c \in Callers : attempt[c] > 0 ~> attempt[c] = 0
=============================================================================
