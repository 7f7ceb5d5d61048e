------------------------------ MODULE Retention ------------------------------
(***************************************************************************)
(* The cleaning of old messages (server/src/chat/chat.service.ts): a first *)
(* timer, then an interval, and runs that delete in batches, each with the *)
(* cutoff of the moment it began to delete.  Runs may overlap.             *)
(***************************************************************************)
EXTENDS Integers, FiniteSets

CONSTANTS
  Rows,        \* messages, each posted once
  Runs,        \* runs of the cleaning
  DeleteBatch  \* MESSAGE_RETENTION_DELETE_BATCH

ASSUME RetentionAssumption == IsFiniteSet(Rows) /\ DeleteBatch \in Nat \ {0}

VARIABLES
  message, \* "none", "young", "old" or "deleted"
  texts,   \* messages with a translation
  timers,  \* those of "first" and "interval" that are set
  up,      \* the module was neither started ("no") nor destroyed ("down")
  cleanup  \* per run: [stage, cut], the messages older than its cutoff

retentionVars == <<message, texts, timers, up, cleanup>>

RetentionInit ==
  /\ message = [m \in Rows |-> "none"] /\ texts = {} /\ timers = {} /\ up = "no"
  /\ cleanup = [r \in Runs |-> [stage |-> "idle", cut |-> {}]]

Old == {m \in Rows : message[m] = "old"}

\* With a valid CHAT_RETENTION_DAYS only; nothing is deleted by default.
OnModuleInit(configured) ==
  /\ up = "no" /\ up' = "yes"
  /\ timers' = IF configured THEN {"first"} ELSE {}
  /\ UNCHANGED <<message, texts, cleanup>>

\* MUTANT of OnModuleDestroy: the interval goes on.
DestroysFirst ==
  /\ up = "yes" /\ up' = "down" /\ timers' = timers \ {"first"}
  /\ UNCHANGED <<message, texts, cleanup>>

\* A run that has begun goes on.
OnModuleDestroy ==
  /\ up = "yes" /\ up' = "down" /\ timers' = {}
  /\ UNCHANGED <<message, texts, cleanup>>

\* The first timer sets the interval; the interval stays.
TimerFires(r) ==
  /\ timers # {} /\ cleanup[r].stage = "idle"
  /\ timers' = {"interval"}
  /\ cleanup' = [cleanup EXCEPT ![r].stage = "counting"]
  /\ UNCHANGED <<message, texts, up>>

\* The count is for the log; deleteOldMessages takes a cutoff of its own.
Counts(r) ==
  /\ cleanup[r].stage = "counting"
  /\ cleanup' = [cleanup EXCEPT ![r] = [stage |-> "deleting", cut |-> Old]]
  /\ UNCHANGED <<message, texts, timers, up>>

\* MUTANT of Enough: a full batch is taken for the last one.
EnoughDeleted(gone) == Cardinality(gone) <= DeleteBatch

Enough(gone) == Cardinality(gone) < DeleteBatch

\* One DELETE ... LIMIT; the translations go with their messages.
Deletes(r) ==
  /\ cleanup[r].stage = "deleting"
  /\ LET left == cleanup[r].cut \cap Old
         most == IF Cardinality(left) < DeleteBatch THEN Cardinality(left) ELSE DeleteBatch
     IN  \E gone \in SUBSET left :
           /\ Cardinality(gone) = most
           /\ message' = [m \in Rows |-> IF m \in gone THEN "deleted" ELSE message[m]]
           /\ texts' = texts \ gone
           /\ cleanup' = IF Enough(gone) THEN [cleanup EXCEPT ![r].stage = "done"] ELSE cleanup
  /\ UNCHANGED <<timers, up>>

\* A query rejects: the next run tries again.
CleanupFails(r) ==
  /\ cleanup[r].stage \in {"counting", "deleting"}
  /\ cleanup' = [cleanup EXCEPT ![r].stage = "failed"]
  /\ UNCHANGED <<message, texts, timers, up>>

Posted(m) ==
  /\ message[m] = "none" /\ message' = [message EXCEPT ![m] = "young"]
  /\ texts' \in {texts, texts \cup {m}}
  /\ UNCHANGED <<timers, up, cleanup>>

Ages(m) ==
  /\ message[m] = "young" /\ message' = [message EXCEPT ![m] = "old"]
  /\ UNCHANGED <<texts, timers, up, cleanup>>

RetentionNext ==
  \/ \E configured \in BOOLEAN : OnModuleInit(configured)
  \/ OnModuleDestroy
  \/ \E r \in Runs : TimerFires(r) \/ Counts(r) \/ Deletes(r) \/ CleanupFails(r)
  \/ \E m \in Rows : Posted(m) \/ Ages(m)

-----------------------------------------------------------------------------
(* Properties.                                                             *)

\* Every variable of the retention has its type.
RetentionTypeOK ==
  /\ message \in [Rows -> {"none", "young", "old", "deleted"}] /\ texts \subseteq Rows
  /\ timers \subseteq {"first", "interval"} /\ up \in {"no", "yes", "down"}
  /\ cleanup \in [Runs -> [stage : {"idle", "counting", "deleting", "done", "failed"}, cut : SUBSET Rows]]

\* A run that ends well leaves nothing of what was old when it began to delete, however
\* many batches that took and whatever another run deleted meanwhile; a deleted message
\* leaves no translation; and a module that is shut down begins no run any more.
RetentionComplete ==
  /\ \A r \in Runs : cleanup[r].stage = "done" => cleanup[r].cut \cap Old = {}
  /\ \A m \in texts : message[m] \in {"young", "old"}
  /\ up = "down" => timers = {}
=============================================================================
