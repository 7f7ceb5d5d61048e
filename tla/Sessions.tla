------------------------------ MODULE Sessions ------------------------------
(***************************************************************************)
(* The sessions of one account in the database                             *)
(* (server/src/auth/refresh-tokens.service.ts, auth.service.ts): one row   *)
(* per device, written by statements of several requests in any order.     *)
(***************************************************************************)
EXTENDS Integers, FiniteSets

CONSTANTS
  Logins,       \* requests that open a session (login, signup)
  Refreshes,    \* requests that rotate one
  MaxSessions   \* MAX_SESSIONS_PER_USER

ASSUME SessionsAssumption == MaxSessions \in Nat \ {0} /\ IsFiniteSet(Logins)

VARIABLES
  rows,     \* refresh_tokens: [id, jti, expired]
  lastId,   \* the auto-increment of the table
  lastJti,  \* randomUUID: a number not used before
  given,    \* the tokens that were handed out, with the row each was for
  login,    \* the progress of each login
  rotation, \* the progress of each refresh
  leftover  \* ids of rows whose login failed before it cleaned up

sessionsVars == <<rows, lastId, lastJti, given, login, rotation, leftover>>

NoLogin == [stage |-> "idle", id |-> 0, surplus |-> {}]
NoRotation == [stage |-> "idle", jti |-> 0, id |-> 0]

SessionsInit ==
  /\ rows = {} /\ lastId = 0 /\ lastJti = 0 /\ given = {}
  /\ login = [l \in Logins |-> NoLogin]
  /\ rotation = [r \in Refreshes |-> NoRotation]
  /\ leftover = {}

Ids(set) == {row.id : row \in set}
Holding(jti) == {row \in rows : row.jti = jti}
Newer(row, set) == {other \in set : other.id > row.id}

-----------------------------------------------------------------------------
(* issue.                                                                  *)

IssuePurges(l) ==
  /\ login[l].stage = "idle"
  /\ rows' = {row \in rows : ~row.expired}
  /\ login' = [login EXCEPT ![l].stage = "purged"]
  /\ UNCHANGED <<lastId, lastJti, given, rotation, leftover>>

IssueInserts(l) ==
  /\ login[l].stage = "purged"
  /\ lastId' = lastId + 1 /\ lastJti' = lastJti + 1
  /\ rows' = rows \cup {[id |-> lastId', jti |-> lastJti', expired |-> FALSE]}
  /\ login' = [login EXCEPT ![l] = [stage |-> "inserted", id |-> lastId', surplus |-> {}]]
  /\ UNCHANGED <<given, rotation, leftover>>

\* MUTANT of Surplus: the rows are read in ascending order.
SurplusNewest(set) == {row.id : row \in {r \in set : Cardinality(set) - Cardinality(Newer(r, set)) > MaxSessions}}

\* MUTANT of Surplus: one session more stays.
SurplusLate(set) == {row.id : row \in {r \in set : Cardinality(Newer(r, set)) > MaxSessions}}

\* The ids behind the MaxSessions newest.
Surplus(set) == {row.id : row \in {r \in set : Cardinality(Newer(r, set)) >= MaxSessions}}

IssueFinds(l) ==
  /\ login[l].stage = "inserted"
  /\ login' = [login EXCEPT ![l].stage = "found", ![l].surplus = Surplus(rows)]
  /\ UNCHANGED <<rows, lastId, lastJti, given, rotation, leftover>>

\* The surplus is deleted and the token is handed out.  A row that has gone since
\* it was counted leaves its token without a session.
IssuePrunes(l) ==
  /\ login[l].stage = "found"
  /\ rows' = {row \in rows : row.id \notin login[l].surplus}
  /\ given' = given \cup {[jti |-> row.jti, id |-> row.id] : row \in {r \in rows : r.id = login[l].id}}
  /\ leftover' = leftover \ login[l].surplus
  /\ login' = [login EXCEPT ![l] = [NoLogin EXCEPT !.stage = "done"]]
  /\ UNCHANGED <<lastId, lastJti, rotation>>

\* A query fails after the row was inserted: the login answers 500.
IssueFails(l) ==
  /\ login[l].stage \in {"inserted", "found"}
  /\ leftover' = leftover \cup {login[l].id}
  /\ login' = [login EXCEPT ![l] = [NoLogin EXCEPT !.stage = "done"]]
  /\ UNCHANGED <<rows, lastId, lastJti, given, rotation>>

-----------------------------------------------------------------------------
(* rotate, revoke, and time.                                               *)

RotateReads(r, jti) ==
  /\ rotation[r].stage = "idle"
  /\ \E row \in Holding(jti) :
       /\ ~row.expired
       /\ rotation' = [rotation EXCEPT ![r] = [stage |-> "found", jti |-> jti, id |-> row.id]]
  /\ UNCHANGED <<rows, lastId, lastJti, given, login, leftover>>

\* MUTANT of RotateWrites: the new token is inserted as a row of its own.
RotateInserts(r) ==
  /\ rotation[r].stage = "found"
  /\ lastJti' = lastJti + 1 /\ lastId' = lastId + 1
  /\ rows' = {row \in rows : row.id # rotation[r].id}
               \cup {[id |-> lastId', jti |-> lastJti', expired |-> FALSE]}
  /\ given' = given \cup {[jti |-> lastJti', id |-> lastId']}
  /\ rotation' = [rotation EXCEPT ![r].stage = "done"]
  /\ UNCHANGED <<login, leftover>>

\* MUTANT of RotateWrites: the rows of the account are updated, not the one.
RotateAll(r) ==
  /\ rotation[r].stage = "found"
  /\ lastJti' = lastJti + 1
  /\ rows' = {[row EXCEPT !.jti = lastJti', !.expired = FALSE] : row \in rows}
  /\ given' = given \cup {[jti |-> lastJti', id |-> rotation[r].id]}
  /\ rotation' = [rotation EXCEPT ![r].stage = "done"]
  /\ UNCHANGED <<lastId, login, leftover>>

\* The row is updated by its id, whatever token it holds now; a row that has gone
\* is updated without effect, and the answer is the same.
RotateWrites(r) ==
  /\ rotation[r].stage = "found"
  /\ lastJti' = lastJti + 1
  /\ rows' = {IF row.id = rotation[r].id THEN [row EXCEPT !.jti = lastJti', !.expired = FALSE]
              ELSE row : row \in rows}
  /\ given' = given \cup {[jti |-> lastJti', id |-> rotation[r].id]}
  /\ rotation' = [rotation EXCEPT ![r].stage = "done"]
  /\ UNCHANGED <<lastId, login, leftover>>

\* logout revokes the row of the token it is shown.
Revoke(jti) ==
  /\ Holding(jti) # {}
  /\ rows' = rows \ Holding(jti)
  /\ leftover' = leftover \ Ids(Holding(jti))
  /\ UNCHANGED <<lastId, lastJti, given, login, rotation>>

\* Seven days pass for a row.
RowExpires(row) ==
  /\ ~row.expired
  /\ rows' = (rows \ {row}) \cup {[row EXCEPT !.expired = TRUE]}
  /\ UNCHANGED <<lastId, lastJti, given, login, rotation, leftover>>

SessionsNext ==
  \/ \E l \in Logins : IssuePurges(l) \/ IssueInserts(l) \/ IssueFinds(l) \/ IssuePrunes(l) \/ IssueFails(l)
  \/ \E r \in Refreshes : RotateWrites(r) \/ \E token \in given : RotateReads(r, token.jti)
  \/ \E token \in given : Revoke(token.jti)
  \/ \E row \in rows : RowExpires(row)

-----------------------------------------------------------------------------
(* Properties.                                                             *)

\* Every variable of the sessions has its type.
SessionsTypeOK ==
  /\ \A row \in rows : row.id \in 1..lastId /\ row.jti \in 1..lastJti /\ row.expired \in BOOLEAN
  /\ login \in [Logins -> [stage : {"idle", "purged", "inserted", "found", "done"},
                           id : 0..lastId, surplus : SUBSET (1..lastId)]]
  /\ rotation \in [Refreshes -> [stage : {"idle", "found", "done"}, jti : 0..lastJti, id : 0..lastId]]
  /\ leftover \subseteq 1..lastId

\* The account never has more sessions than the cap, but for the logins that have
\* not cleaned up yet and those that failed before they could: the counts and the
\* deletions of concurrent logins, without a transaction, do not leave one over.
SessionsCapped ==
  Cardinality(rows) <= MaxSessions + Cardinality(leftover \cap Ids(rows))
    + Cardinality({l \in Logins : login[l].stage \in {"inserted", "found"}})

\* One row holds one token and one token names one row: no rotation or login makes
\* a second session of a device.
OneRowPerToken ==
  \A row, other \in rows : row # other => row.id # other.id /\ row.jti # other.jti

\* A session is pushed out by newer ones only: the row a login deletes had at least
\* the cap of rows behind it that were made after it.
OldestPushedOut ==
  [][\A l \in Logins : IssuePrunes(l) =>
       \A row \in rows \ rows' : Cardinality({id \in 1..lastId : id > row.id}) >= MaxSessions]_sessionsVars

\* A refresh keeps a device's place among the sessions: it makes no row and a row
\* it does not concern stays as it is, also when the row was revoked meanwhile.
RotationKeepsRows ==
  [][lastJti' # lastJti /\ Cardinality(rows') <= Cardinality(rows) => Ids(rows') = Ids(rows)]_sessionsVars

\* The rows of an account stay sound under concurrent logins and refreshes.
TokensSound == []SessionsCapped /\ []OneRowPerToken /\ OldestPushedOut /\ RotationKeepsRows
=============================================================================
