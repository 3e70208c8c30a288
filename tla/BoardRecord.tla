----------------------------- MODULE BoardRecord ----------------------------
(***************************************************************************)
(* What a store promises of one board's record, however it keeps it: one   *)
(* totally ordered log that grows by one write at a time; a premise is     *)
(* replaced only by a write that names the version it replaces; an         *)
(* idempotency key writes at most once.  A deletion takes the whole log.   *)
(***************************************************************************)
EXTENDS Naturals, Sequences, FiniteSets

CONSTANTS Levels, Premises, Keys, NoKey

VARIABLE log

Entry == [region : Levels \cup Premises, expected : Nat, key : Keys \cup {NoKey}]

\* How many writes to a region the log holds: a premise's version.
WritesTo(region) == Cardinality({i \in DOMAIN log : log[i].region = region})

Fresh(key) == \A i \in DOMAIN log : key = NoKey \/ log[i].key # key

Extend(entry) ==
  /\ Fresh(entry.key)
  /\ entry.region \in Premises => entry.expected = WritesTo(entry.region)
  /\ log' = Append(log, entry)

Clear == log' = <<>>

Init == log = <<>>

Next == \/ Clear
        \/ /\ Len(log') = Len(log) + 1
           /\ log'[Len(log')] \in Entry
           /\ Extend(log'[Len(log')])

Spec == Init /\ [][Next]_log
=============================================================================
