----------------------------- MODULE Migrations -----------------------------
(***************************************************************************)
(* The runner of the schema migrations (server/src/database/migrate.ts),   *)
(* which every container runs before the server: one at a time under the   *)
(* database's GET_LOCK, statement by statement, with a history of the      *)
(* files it is through with; containers stop and start, and files change.  *)
(***************************************************************************)
EXTENDS Integers, FiniteSets

CONSTANTS
  Runners,      \* containers
  SqlFiles,        \* migrations: 1..n, in the order of their names
  Statements,   \* how many statements each has
  Atomic,       \* the files that are one transaction
  Guarded,      \* the files that leave alone what is there already (IF NOT EXISTS)
  MaxDeploys,   \* bound on the changes of a file
  NoRunner      \* nobody

ASSUME MigrationsAssumption ==
  /\ SqlFiles \subseteq Nat \ {0} /\ IsFiniteSet(SqlFiles)
  /\ Statements \in [SqlFiles -> Nat \ {0}] /\ Atomic \subseteq SqlFiles /\ Guarded \subseteq SqlFiles
  /\ MaxDeploys \in Nat /\ NoRunner \notin Runners

VARIABLES
  hasDatabase,  \* the database is there
  schema,       \* per file and statement: the text whose object is in the database
  history,      \* schema_migrations: per file the text recorded, 0 for none
  texts,        \* per file: its text, as a number
  lockOwner,    \* of GET_LOCK
  runner,       \* per container: [stage, file, next, files, known]
  deploys

migrationVars == <<hasDatabase, schema, history, texts, lockOwner, runner, deploys>>

\* No object, one that is older than the history and may have any definition, and the
\* first text of a file; a changed text has statements about the same objects.
Nothing == 0
Earlier == 1
First == 2

StatementsOf(f) == 1..Statements[f]
NothingKnown == [f \in SqlFiles |-> 0]
NotStarted == [stage |-> "down", file |-> 0, next |-> 1, files |-> NothingKnown, known |-> NothingKnown]

\* What a database can hold of file f, with or without its row in the history: objects
\* that the statements of a guarded file will find, nothing that counts for the others.
Found(f, recorded) ==
  [StatementsOf(f) -> (IF recorded THEN {First} ELSE {Nothing}) \cup (IF f \in Guarded THEN {Earlier} ELSE {})]

\* None, or a database that the runner has been through up to file n: before its first
\* time it may have any of the tables and no history.
MigrationsInit ==
  /\ hasDatabase \in BOOLEAN
  /\ \E n \in 0..Cardinality(SqlFiles) :
       /\ n > 0 => hasDatabase
       /\ history = [f \in SqlFiles |-> IF f <= n THEN First ELSE 0]
       /\ schema \in [SqlFiles -> UNION {Found(f, recorded) : f \in SqlFiles, recorded \in BOOLEAN}]
       /\ \A f \in SqlFiles : schema[f] \in Found(f, f <= n)
  /\ ~hasDatabase => \A f \in SqlFiles : \A n \in StatementsOf(f) : schema[f][n] = Nothing
  /\ texts = [f \in SqlFiles |-> First] /\ lockOwner = NoRunner
  /\ runner = [r \in Runners |-> NotStarted] /\ deploys = 0

Phase(r, stage) == runner[r].stage = stage
Goes(r, stage) == runner' = [runner EXCEPT ![r].stage = stage]
Recorded(f) == history[f] # 0

\* loadMigrationFiles and connect, which makes the database if there is none.
Connects(r) ==
  /\ Phase(r, "down")
  /\ runner' = [runner EXCEPT ![r] = [NotStarted EXCEPT !.stage = "waiting", !.files = texts]]
  /\ hasDatabase' = TRUE
  /\ UNCHANGED <<schema, history, texts, lockOwner, deploys>>

\* MUTANT of AcquireLock: the timeout is taken for the lock.
LockOrTimeout(r) ==
  /\ Phase(r, "waiting")
  /\ lockOwner' = r /\ Goes(r, "reading")
  /\ UNCHANGED <<hasDatabase, schema, history, texts, deploys>>

\* GET_LOCK, or its timeout.
AcquireLock(r) ==
  /\ Phase(r, "waiting")
  /\ IF lockOwner = NoRunner THEN lockOwner' = r /\ Goes(r, "reading")
                             ELSE UNCHANGED lockOwner /\ Goes(r, "failed")
  /\ UNCHANGED <<hasDatabase, schema, history, texts, deploys>>

\* ensureHistoryTable and readApplied, under the lock.
ReadApplied(r) ==
  /\ Phase(r, "reading")
  /\ runner' = [runner EXCEPT ![r].stage = "choosing", ![r].known = history]
  /\ UNCHANGED <<hasDatabase, schema, history, texts, lockOwner, deploys>>

Left(r) == {f \in SqlFiles : f > runner[r].file}

\* The next file: known and unchanged ones are passed over, a changed one is the end.
Chooses(r) ==
  /\ Phase(r, "choosing")
  /\ \/ Left(r) = {} /\ Goes(r, "done")
     \/ \E f \in Left(r) :
          LET known == runner[r].known[f]
          IN  /\ \A g \in Left(r) : f <= g
              /\ runner' = [runner EXCEPT ![r].file = f, ![r].next = 1,
                                          ![r].stage = IF known = 0 THEN "applying"
                                                       ELSE IF known # runner[r].files[f] THEN "failed" ELSE @]
  /\ UNCHANGED <<hasDatabase, schema, history, texts, lockOwner, deploys>>

\* An object after a statement of text about it: CREATE TABLE IF NOT EXISTS and its like
\* keep one that is there, whatever its definition.
InForce(f, was, text) == IF f \in Guarded /\ was # Nothing THEN was ELSE text

\* The statements of f that are in force with its n-th: it alone, or, in a transaction,
\* all of them with the last, the COMMIT.
Together(f, n) == IF f \notin Atomic THEN {n} ELSE IF n = Statements[f] THEN StatementsOf(f) ELSE {}

AfterStatement(f, n, text) ==
  [m \in StatementsOf(f) |-> IF m \in Together(f, n) THEN InForce(f, schema[f][m], text) ELSE schema[f][m]]

\* MUTANT of Executes: a statement that fails is passed over.
ExecutesOrSkips(r) ==
  LET f == runner[r].file n == runner[r].next
  IN  /\ Phase(r, "applying") /\ n <= Statements[f]
      /\ schema' \in {schema, [schema EXCEPT ![f] = AfterStatement(f, n, runner[r].files[f])]}
      /\ runner' = [runner EXCEPT ![r].next = n + 1]
      /\ UNCHANGED <<hasDatabase, history, texts, lockOwner, deploys>>

\* applyMigration, a statement.
Executes(r) ==
  LET f == runner[r].file n == runner[r].next
  IN  /\ Phase(r, "applying") /\ n <= Statements[f]
      /\ \/ /\ schema' = [schema EXCEPT ![f] = AfterStatement(f, n, runner[r].files[f])]
            /\ runner' = [runner EXCEPT ![r].next = n + 1]
         \/ Goes(r, "failed") /\ UNCHANGED schema
      /\ UNCHANGED <<hasDatabase, history, texts, lockOwner, deploys>>

\* The file is recorded after its last statement.
Records(r) ==
  LET f == runner[r].file
  IN  /\ Phase(r, "applying") /\ runner[r].next > Statements[f]
      /\ \/ history' = [history EXCEPT ![f] = runner[r].files[f]] /\ Goes(r, "choosing")
         \/ Goes(r, "failed") /\ UNCHANGED history
      /\ UNCHANGED <<hasDatabase, schema, texts, lockOwner, deploys>>

\* The lock is given back, and the server starts or the container is started again.
Exits(r) ==
  /\ runner[r].stage \in {"done", "failed"}
  /\ runner' = [runner EXCEPT ![r] = IF Phase(r, "done") THEN [@ EXCEPT !.stage = "serving"] ELSE NotStarted]
  /\ lockOwner' = IF lockOwner = r THEN NoRunner ELSE lockOwner
  /\ UNCHANGED <<hasDatabase, schema, history, texts, deploys>>

\* A container is killed, and with its connection what it holds.
Killed(r) ==
  /\ ~Phase(r, "down")
  /\ runner' = [runner EXCEPT ![r] = NotStarted]
  /\ lockOwner' = IF lockOwner = r THEN NoRunner ELSE lockOwner
  /\ UNCHANGED <<hasDatabase, schema, history, texts, deploys>>

\* A release with another text of a file.
Deploys(f) ==
  /\ deploys < MaxDeploys /\ deploys' = deploys + 1
  /\ texts' = [texts EXCEPT ![f] = @ + 1]
  /\ UNCHANGED <<hasDatabase, schema, history, lockOwner, runner>>

Migrates(r) == AcquireLock(r) \/ ReadApplied(r) \/ Chooses(r) \/ Executes(r) \/ Records(r) \/ Exits(r)

MigrationsNext ==
  \/ \E r \in Runners : Connects(r) \/ Migrates(r) \/ Killed(r)
  \/ \E f \in SqlFiles : Deploys(f)

-----------------------------------------------------------------------------
(* Properties.                                                             *)

Texts == 0..(First + MaxDeploys)

MigrationsTypeOK ==
  /\ hasDatabase \in BOOLEAN /\ \A f \in SqlFiles : schema[f] \in [StatementsOf(f) -> Texts]
  /\ history \in [SqlFiles -> Texts] /\ lockOwner \in Runners \cup {NoRunner}
  /\ \A r \in Runners : runner[r].stage \in {"down", "waiting", "reading", "choosing", "applying", "done", "failed", "serving"}

\* Two containers never change the schema at once: who is past the lock holds it.
OneMigrates ==
  \A r \in Runners : runner[r].stage \in {"reading", "choosing", "applying", "done"} => lockOwner = r

\* An object of another text than the recorded one: a guarded statement has found it,
\* older than the history, or left by an earlier try with a text that was changed since.
LeftAlone(f, n) == f \in Guarded /\ (schema[f][n] = Earlier \/ texts[f] > First)

\* What is recorded has been done, each of its statements, and so has all that comes
\* before it: a crash or an error between two statements leaves at most one file half
\* done, the one after the recorded ones.  Its objects are those of the recorded text,
\* but for what a guarded statement leaves alone.
HistoryTrue ==
  \A f \in SqlFiles : \A n \in StatementsOf(f) :
    /\ Recorded(f) => schema[f][n] # Nothing /\ (schema[f][n] = history[f] \/ LeftAlone(f, n))
    /\ Recorded(f) \/ schema[f][n] >= First => \A g \in SqlFiles : g < f => Recorded(g)

\* A server runs on the texts of its own release, all of them.
ServedOnOwnSchema ==
  \A r \in Runners : Phase(r, "serving") => \A f \in SqlFiles : history[f] = runner[r].files[f]

MigrationSound == OneMigrates /\ HistoryTrue /\ ServedOnOwnSchema
=============================================================================
