------------------------------ MODULE MCControl -----------------------------
(***************************************************************************)
(* Instances of Control for TLC.                                           *)
(***************************************************************************)
EXTENDS Control

\* Every agent subscribes to every region.
WantsAll == [a \in Agents |-> Levels \cup Premises]

\* The board is created, every process serves it, and the run stays open: the
\* states in which notifications can be lost.  Nothing brings a closed run
\* back (LateStart is FALSE), so the steps left out make none of them.
Serving ==
  /\ regions = Region
  /\ sequence = 0 /\ changes = <<>> /\ keys = <<>> /\ answers = {}
  /\ levels = [l \in Levels |-> <<>>] /\ premises = [p \in Premises |-> 0]
  /\ run = [state |-> "open", idle |-> Idle, wall |-> Wall, unfinished |-> {}]
  /\ now = 0
  /\ roster = {} /\ declaration = [a \in Agents |-> NoDeclaration]
  /\ notified = [a \in Agents |-> 0] /\ acked = [a \in Agents |-> 0]
  /\ outbox = [a \in Agents |-> {}] /\ sent = [a \in Agents |-> 0] /\ cleared = 0
  /\ up = Controls
  /\ last = [c \in Controls |-> 0]
  /\ held = [c \in Controls |-> NoHeld]
  /\ outcome = [c \in Controls |-> "none"]
  /\ wallDue = [c \in Controls |-> Wall]
  /\ idleDue = [c \in Controls |-> Idle]
  /\ asked = [c \in Controls |-> FALSE]
  /\ pc = [c \in Controls |-> Waiting]
  /\ answering = {} /\ touching = {}
  /\ flight = {} /\ sweep = NoSweep
  /\ received = [a \in Agents |-> {}] /\ crashes = 0
  /\ served = [c \in Controls |-> 0]

\* No clock ticks and nothing closes here, so the push of the idle deadline that
\* ends a call changes nothing another step reads: it is taken before the next
\* call of any process.
DeliveryNext ==
  \/ \E c \in touching : CheckCompletion(c)
  \/ \E c \in Controls :
       /\ touching = {}
       /\ \/ Crash(c)
          \/ (Writing(c) \/ Waking(c) \/ Registering(c)) /\ Room
  \/ Answering \/ Delivering

DeliverySpec == Serving /\ [][DeliveryNext]_vars

\* The same with a process that relays: c crashes at most once before it lasts.
RelaySpec == DeliverySpec /\ \A c \in Reaching : Relayed(c)

SweptSpec == Spec /\ Swept

\* Two processes serving one board that take writes and close the run, without
\* a sweep: what their own timers and gates do.
ReplicasNext ==
  \/ \E c \in Controls : (Writing(c) /\ Room) \/ Closing(c)
  \/ Tick

ReplicasSpec == Serving /\ [][ReplicasNext]_vars
=============================================================================
