---------------------------- MODULE BoardService ----------------------------
(***************************************************************************)
(* BoardService (server.py): what one process answers to a request that an *)
(* agent sent over HTTP, from the record of a board, its run, and whether  *)
(* this process holds the run.  The record is the log that every store     *)
(* promises (BoardRecord); a premise's version is how often it was         *)
(* written.  Requests that BoardClient cannot build are left out (400, 405 *)
(* and the paths no operation takes), and so are read_regions and          *)
(* read_premise, whose answers nothing here depends on.                    *)
(***************************************************************************)
EXTENDS BoardRecord, SequencesExt

CONSTANTS
  Agents,
  MayWrite,      \* the regions each agent declared that it writes to
  DefaultLimit,  \* DEFAULT_LIMIT: how many a page holds when nothing is asked
  MaxLimit       \* MAX_LIMIT: how many it holds at most

ASSUME PagesHoldSomething == DefaultLimit \in Nat \ {0} /\ MaxLimit \in Nat \ {0}

VARIABLES
  author,    \* history: whose call made each entry of the log
  run,       \* "open" or "closed"
  holds,     \* control_for answers with the run, in this process
  notified,  \* how far each agent was told, 0 without a row
  acked      \* how far it has answered

board == <<log, author, run, holds, notified, acked>>

Region == Levels \cup Premises
Nobody == [caller |-> "nobody", turn |-> 0]
Whole == "whole"     \* what read_board reads
NoLimit == 0         \* a request without the query parameter

\* A request: the operation, its path's variables, its query or body.
Blank == [op |-> "none", region |-> Whole, key |-> NoKey, expected |-> 0,
          from |-> 1, limit |-> NoLimit, agent |-> "none", number |-> 0]

\* A reply: a status and, by the operation, an error's name, a number, a page.
Status(status, error) ==
  [status |-> status, error |-> error, number |-> 0, page |-> {}, more |-> FALSE]

-----------------------------------------------------------------------------
(* Reads, which any process with the store answers.                        *)

InRegion(region) == {i \in DOMAIN log : region \in {Whole, log[i].region}}

\* The first `limit` of a set of numbers.
First(limit, numbers) ==
  {n \in numbers : Cardinality({m \in numbers : m < n}) < limit}

\* A set of numbers as the list of them in their order, each at its rank.
InOrder(numbers) ==
  [i \in 1..Cardinality(numbers) |->
     CHOOSE n \in numbers : Cardinality({m \in numbers : m < n}) = i - 1]

\* Mutant of OneMore: the store is asked for what the caller wanted.
AsMany(limit) == limit

\* One past what the caller wanted, to answer has_more without a second read.
OneMore(limit) == limit + 1

\* The page is trimmed to its limit, and says whether that left anything out.
ReadReply(request) ==
  LET asked == IF request.limit = NoLimit THEN DefaultLimit ELSE request.limit
      limit == IF asked > MaxLimit THEN MaxLimit ELSE asked
      found == First(OneMore(limit), {n \in InRegion(request.region) : n >= request.from})
  IN  IF request.region \in Premises
      THEN Status(404, "wrong_region_kind")
      ELSE [Status(200, "none") EXCEPT !.page = First(limit, found),
                                       !.more = Cardinality(found) > limit]

-----------------------------------------------------------------------------
(* Writes, through the control component of the run: Control.write and     *)
(* Control.set_premise up to the store, then what the store does.          *)

Takes(op) == IF op = "write" THEN Levels ELSE Premises

\* What is decided before the store is asked; `admitted` is the admission rule's
\* verdict.  A run that has closed refuses before anything of the write is read:
\* _refuse_region, and the gate before sequencing once more.  What an agent may write
\* and what the rule says is asked in write and set_premise, in between.
Refusal(request, admitted) ==
  IF ~ holds THEN Status(404, "unknown_board")
  ELSE IF run = "closed" THEN Status(410, "run_closed")
  ELSE IF request.region \notin Takes(request.op) THEN Status(404, "wrong_region_kind")
  ELSE IF request.op = "write" /\ request.region \notin MayWrite[request.agent]
       THEN Status(422, "not_permitted")
  ELSE IF ~ admitted THEN Status(422, "admission")
  ELSE Status(0, "none")

WithKey(key) == {i \in DOMAIN log : log[i].key = key /\ key # NoKey}

\* Mutant of StoreReply: the version is compared before the key is looked up.
VersionFirst(request) ==
  IF request.region \in Premises /\ WritesTo(request.region) # request.expected
  THEN Status(409, "conflict")
  ELSE IF WithKey(request.key) # {}
  THEN [Status(200, "none") EXCEPT !.number = Max(WithKey(request.key))]
  ELSE [Status(201, "none") EXCEPT !.number = Len(log) + 1]

\* The key first, then the version, then the next number.
StoreReply(request) ==
  IF WithKey(request.key) # {}
  THEN LET first == Max(WithKey(request.key))
       IN  IF log[first].region # request.region
           THEN Status(409, "idempotency_key_reused")
           ELSE [Status(200, "none") EXCEPT !.number = first]
  ELSE IF request.region \in Premises /\ WritesTo(request.region) # request.expected
  THEN Status(409, "conflict")
  ELSE [Status(201, "none") EXCEPT !.number = Len(log) + 1]

WriteReply(request, admitted) ==
  IF Refusal(request, admitted).status # 0
  THEN Refusal(request, admitted) ELSE StoreReply(request)

\* An answer to what was never said is refused, unless the run has closed and the
\* close has wiped what was.
AckReply(request) ==
  IF ~ holds THEN Status(404, "unknown_board")
  ELSE IF request.number <= notified[request.agent] \/ run = "closed"
  THEN Status(204, "none") ELSE Status(404, "unknown_notification")

-----------------------------------------------------------------------------
(* Answering a request, and what else happens to the board.                *)

\* What a request may be answered with as things stand (_answering).
Answers(request) ==
  CASE request.op \in {"read_level", "read_board"} -> {ReadReply(request)}
    [] request.op = "ack" -> {AckReply(request)}
    [] request.op \in {"write", "set_premise"} ->
         {WriteReply(request, admitted) : admitted \in BOOLEAN}

Writes(request, by) ==
  /\ Extend([region |-> request.region, key |-> request.key, expected |-> request.expected])
  /\ author' = Append(author, by)
  /\ UNCHANGED <<run, holds, notified, acked>>

Acknowledges(request) ==
  /\ acked' = [acked EXCEPT ![request.agent] = Max({@, request.number})]
  /\ UNCHANGED <<log, author, run, holds, notified>>

\* The service carries out a request, and its answer is `reply`.
Handle(request, by, reply) ==
  \/ reply.status = 201 /\ Writes(request, by)
  \/ /\ reply.status = 204 /\ request.number <= notified[request.agent]
     /\ Acknowledges(request)
  \/ /\ reply.status # 201
     /\ reply.status = 204 => request.number > notified[request.agent]
     /\ UNCHANGED board

\* The application, or an agent of another process, writes.
WriteElsewhere(region) ==
  /\ run = "open"
  /\ Extend([region |-> region, key |-> NoKey,
             expected |-> IF region \in Levels THEN 0 ELSE WritesTo(region)])
  /\ author' = Append(author, Nobody)
  /\ UNCHANGED <<run, holds, notified, acked>>

\* An agent is told of the board as far as it has been written.
Notify(agent) ==
  /\ run = "open"
  /\ notified' = [notified EXCEPT ![agent] = Len(log)]
  /\ UNCHANGED <<log, author, run, holds, acked>>

\* A deadline or the application closes the run, and wipes the agents' rows.
CloseRun ==
  /\ run = "open"
  /\ run' = "closed"
  /\ notified' = [a \in Agents |-> 0] /\ acked' = [a \in Agents |-> 0]
  /\ UNCHANGED <<log, author, holds>>

\* The application drops the run (on_closed), or requests reach a process that
\* never held it.
LetGo == holds /\ holds' = FALSE /\ UNCHANGED <<log, author, run, notified, acked>>

InitBoard ==
  /\ Init /\ author = <<>>
  /\ run = "open" /\ holds = TRUE
  /\ notified = [a \in Agents |-> 0] /\ acked = [a \in Agents |-> 0]
=============================================================================
