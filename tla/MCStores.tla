------------------------------ MODULE MCStores ------------------------------
(***************************************************************************)
(* The three stores over one set of tables and one set of requests: a      *)
(* behaviour is one engine's from its start to its end, and is about       *)
(* either the record or the run, so that each is explored completely.      *)
(***************************************************************************)
EXTENDS SharedTables, TLC

CONSTANTS Engines, Topics, ProcessOf, c1, c2

VARIABLES engine, topic, held, stale

P == INSTANCE PostgresStore
M == INSTANCE MongoStore
S == INSTANCE SqliteStore

TwoProcesses == (c1 :> "one") @@ (c2 :> "two")

\* The callers' processes are told apart by nothing but their names.
Symmetry == Permutations(Callers)

\* About the record: writes, declarations and deletions, while the run and the
\* agents stay as they are.  About the run: closing, answering and deleting, while
\* the one level is written to without keys.
OnTopic ==
  CASE topic = "record" ->
         /\ run'.era = run.era
         /\ outbox' = outbox \/ contributions' # contributions
         /\ \A a \in DOMAIN progress' : a \in DOMAIN progress /\ progress'[a] = progress[a]
         /\ \A c \in Callers : call'[c].op \in {"none", "write", "declare", "delete"}
    [] topic = "run" ->
         \A c \in Callers : call'[c].region \notin Premises /\ call'[c].key = NoKey

Init ==
  /\ engine \in Engines /\ topic \in Topics
  /\ CASE engine = "postgres" -> P!Init /\ stale = [c \in Callers |-> FALSE]
       [] engine = "mongo" -> M!Init /\ held = [c \in Callers |-> {}]
       [] engine = "sqlite" -> S!Init /\ held = [c \in Callers |-> {}]
                                      /\ stale = [c \in Callers |-> FALSE]

Next ==
  /\ UNCHANGED <<engine, topic>>
  /\ \/ engine = "postgres" /\ P!Next /\ UNCHANGED stale
     \/ engine = "mongo" /\ M!Next /\ UNCHANGED held
     \/ engine = "sqlite" /\ S!Next /\ UNCHANGED <<held, stale>>
  /\ OnTopic

allvars == <<shared, engine, topic, held, stale>>
Spec == Init /\ [][Next]_allvars

\* ConflictIsFinal where the key and the version are read in one snapshot: each of
\* PostgresStore's two statements sees what has committed by then, and SqliteStore's
\* come before the transaction that writes.
ConflictIsFinalInOneSnapshot ==
  [][engine = "mongo" => \A c \in Callers : ~ LosesToItself(c)]_allvars

\* OneFirstAnswer where the row is read under its lock or in the update itself:
\* SqliteStore reads it before the transaction that raises it.
OneFirstAnswerOfServers ==
  [][engine # "sqlite" => \A c \in Callers : FirstRaises(c)]_allvars
=============================================================================
