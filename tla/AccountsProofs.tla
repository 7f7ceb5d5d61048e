--------------------------- MODULE AccountsProofs ---------------------------
(***************************************************************************)
(* The sessions of an account stay sound for any number of logins and      *)
(* refreshes at the same time and any cap, and what limits the attempts    *)
(* at an account, the calls of a provider and the events of a socket does  *)
(* so for any limits and windows.  Who is listed as online, what is shown  *)
(* of the list and what the chat says about it agree, for any users,       *)
(* connections and edits of accounts.  The session of a browser lasts, for *)
(* any number of requests, logins and tokens.                              *)
(***************************************************************************)
EXTENDS MCAccounts, Counting

-----------------------------------------------------------------------------
(* The sessions.                                                            *)

SessionsSpec == SessionsInit /\ [][SessionsNext]_sessionsVars

RowIds == Ids(rows)
Active == {l \in Logins : login[l].stage \in {"inserted", "found"}}
ActiveIds == {login[l].id : l \in Active}
IdsUpTo(n) == {id \in RowIds : id <= n}

Progress == [stage : {"idle", "purged", "inserted", "found", "done"}, id : Nat, surplus : SUBSET Nat]
Rotations == [stage : {"idle", "found", "done"}, jti : Nat, id : Nat]

Typed ==
  /\ lastId \in Nat /\ lastJti \in Nat /\ leftover \subseteq Nat
  /\ rows \subseteq [id : 1..lastId, jti : 1..lastJti, expired : BOOLEAN]
  /\ login \in [Logins -> Progress] /\ rotation \in [Refreshes -> Rotations]

\* What a login is about to do: the rows it will leave, of those that are not newer
\* than its own, are within the cap, and those it will delete are behind the cap.
Counted(l) ==
  /\ login[l].id <= lastId
  /\ login[l].stage = "found" =>
       /\ Cardinality(IdsUpTo(login[l].id) \ login[l].surplus) <= MaxSessions
       /\ \A id \in login[l].surplus : lastId - id >= MaxSessions

\* The rows whose logins are over: they, and all that are as old, are within the cap.
Settled ==
  \E n \in 0..lastId :
    Cardinality(IdsUpTo(n)) <= MaxSessions /\ RowIds \ (leftover \cup ActiveIds) \subseteq IdsUpTo(n)

SessionsInv == Typed /\ OneRowPerToken /\ (\A l \in Active : Counted(l)) /\ Settled

-----------------------------------------------------------------------------
(* About sets of rows.                                                     *)

\* Rows are as many as their ids.
LEMMA RowsAndIds ==
  ASSUME Typed, OneRowPerToken, NEW set \in SUBSET rows
  PROVE  /\ IsFiniteSet(set) /\ IsFiniteSet(Ids(set)) /\ Ids(set) \subseteq 1..lastId
         /\ Cardinality(set) = Cardinality(Ids(set)) /\ Cardinality(set) \in Nat
<1>1. Ids(set) \subseteq 1..lastId
  BY DEF Typed, Ids
<1>2. IsFiniteSet(Ids(set))
  <2>1. IsFiniteSet(1..lastId)
    BY FS_Interval DEF Typed
  <2> QED BY <1>1, <2>1, FS_Subset
<1> DEFINE f == [row \in set |-> row.id]
<1>3. f \in Injection(set, Ids(set)) /\ f \in Surjection(set, Ids(set))
  BY DEF Injection, Surjection, IsInjective, Ids, OneRowPerToken
<1>4. IsFiniteSet(set) /\ Cardinality(set) = Cardinality(Ids(set))
  BY <1>2, <1>3, FS_Injection
<1> QED BY <1>1, <1>2, <1>4, FS_CardinalityType

\* Fewer ids are no more.
LEMMA FewerIds ==
  ASSUME NEW S, NEW T, IsFiniteSet(T), S \subseteq T
  PROVE  IsFiniteSet(S) /\ Cardinality(S) \in Nat /\ Cardinality(T) \in Nat /\ Cardinality(S) <= Cardinality(T)
BY FS_Subset, FS_CardinalityType

LEMMA IdsFinite == ASSUME Typed, OneRowPerToken PROVE IsFiniteSet(RowIds) /\ RowIds \subseteq 1..lastId /\ RowIds \subseteq Nat
<1>1. IsFiniteSet(RowIds) /\ RowIds \subseteq 1..lastId
  BY RowsAndIds DEF RowIds
<1> QED BY <1>1 DEF Typed

\* What a change of the rows that adds none does to the counts.
LEMMA CountsShrink ==
  ASSUME Typed, OneRowPerToken, RowIds' \subseteq RowIds, NEW n, NEW S, NEW T, T \subseteq S
  PROVE  /\ IdsUpTo(n)' \subseteq IdsUpTo(n)
         /\ Cardinality(IdsUpTo(n)') <= MaxSessions \/ ~(Cardinality(IdsUpTo(n)) <= MaxSessions)
         /\ Cardinality(IdsUpTo(n)' \ S) <= MaxSessions \/ ~(Cardinality(IdsUpTo(n) \ T) <= MaxSessions)
<1>1. IdsUpTo(n)' \subseteq IdsUpTo(n) /\ IdsUpTo(n)' \ S \subseteq IdsUpTo(n) \ T
  BY DEF IdsUpTo
<1>2. IsFiniteSet(IdsUpTo(n)) /\ IsFiniteSet(IdsUpTo(n) \ T)
  BY IdsFinite, FewerIds DEF IdsUpTo
<1>3. /\ Cardinality(IdsUpTo(n)') \in Nat /\ Cardinality(IdsUpTo(n)) \in Nat
      /\ Cardinality(IdsUpTo(n)') <= Cardinality(IdsUpTo(n))
  BY <1>1, <1>2, FewerIds
<1>4. /\ Cardinality(IdsUpTo(n)' \ S) \in Nat /\ Cardinality(IdsUpTo(n) \ T) \in Nat
      /\ Cardinality(IdsUpTo(n)' \ S) <= Cardinality(IdsUpTo(n) \ T)
  BY <1>1, <1>2, FewerIds
<1> QED BY <1>1, <1>3, <1>4, SessionsAssumption

\* The steps that leave the logins under way alone and add no row.
LEMMA QuietStep ==
  ASSUME SessionsInv, Typed', OneRowPerToken', lastId' = lastId, RowIds' \subseteq RowIds,
         leftover \cap RowIds' \subseteq leftover', Active' = Active,
         \A l \in Active : login'[l] = login[l]
  PROVE  SessionsInv'
<1>1. ActiveIds' = ActiveIds
  BY DEF ActiveIds
<1>2. ASSUME NEW l \in Active PROVE Counted(l)'
  BY <1>2, CountsShrink DEF SessionsInv, Counted
<1>3. Settled'
  <2>1. PICK n \in 0..lastId :
          Cardinality(IdsUpTo(n)) <= MaxSessions /\ RowIds \ (leftover \cup ActiveIds) \subseteq IdsUpTo(n)
    BY DEF SessionsInv, Settled
  <2>2. Cardinality(IdsUpTo(n)') <= MaxSessions
    BY <2>1, CountsShrink DEF SessionsInv
  <2>3. RowIds' \ (leftover' \cup ActiveIds') \subseteq IdsUpTo(n)'
    BY <1>1, <2>1 DEF IdsUpTo
  <2> QED BY <2>2, <2>3 DEF Settled
<1> QED BY <1>2, <1>3 DEF SessionsInv

-----------------------------------------------------------------------------
(* The steps of the other requests.                                        *)

LEMMA PurgesStep == ASSUME SessionsInv, NEW l \in Logins, IssuePurges(l) PROVE SessionsInv'
<1>1. /\ login[l].stage = "idle" /\ rows' = {row \in rows : ~row.expired}
      /\ login' = [login EXCEPT ![l].stage = "purged"] /\ login \in [Logins -> Progress]
      /\ UNCHANGED <<lastId, lastJti, rotation, leftover>>
  BY DEF IssuePurges, SessionsInv, Typed
<1>2. [login[l] EXCEPT !.stage = "purged"] \in Progress
  BY <1>1 DEF Progress
<1>3. login' = [login EXCEPT ![l] = [login[l] EXCEPT !.stage = "purged"]]
  BY <1>1
<1>4. Typed' /\ OneRowPerToken'
  BY <1>1, <1>2, <1>3 DEF SessionsInv, Typed, OneRowPerToken
<1>5. RowIds' \subseteq RowIds
  BY <1>1 DEF RowIds, Ids
<1>6. /\ \A k \in Logins \ {l} : login'[k] = login[k]
      /\ login[l].stage = "idle" /\ login'[l].stage = "purged"
  BY <1>1 DEF Progress
<1>7. Active' = Active /\ \A k \in Active : login'[k] = login[k]
  BY <1>6 DEF Active
<1> QED BY <1>1, <1>4, <1>5, <1>7, QuietStep

LEMMA RevokesStep == ASSUME SessionsInv, NEW jti, Revoke(jti) PROVE SessionsInv'
<1>1. /\ rows' = rows \ Holding(jti) /\ leftover' = leftover \ Ids(Holding(jti))
      /\ Holding(jti) \subseteq rows /\ UNCHANGED <<lastId, lastJti, login, rotation>>
  BY DEF Revoke, Holding
<1>2. Typed' /\ OneRowPerToken'
  BY <1>1 DEF SessionsInv, Typed, OneRowPerToken
<1>3. RowIds' \subseteq RowIds /\ leftover \cap RowIds' \subseteq leftover'
  BY <1>1 DEF RowIds, Ids, SessionsInv, OneRowPerToken
<1>4. Active' = Active /\ \A k \in Active : login'[k] = login[k]
  BY <1>1 DEF Active
<1> QED BY <1>1, <1>2, <1>3, <1>4, QuietStep

LEMMA ExpiresStep == ASSUME SessionsInv, NEW row \in rows, RowExpires(row) PROVE SessionsInv'
<1> DEFINE old == [row EXCEPT !.expired = TRUE]
<1>1. /\ rows' = (rows \ {row}) \cup {old} /\ UNCHANGED <<lastId, lastJti, login, rotation, leftover>>
      /\ row \in [id : 1..lastId, jti : 1..lastJti, expired : BOOLEAN]
  BY DEF RowExpires, SessionsInv, Typed
<1>2. /\ old \in [id : 1..lastId, jti : 1..lastJti, expired : BOOLEAN]
      /\ old.id = row.id /\ old.jti = row.jti
  BY <1>1
<1> HIDE DEF old
<1>3. Typed' /\ OneRowPerToken'
  BY <1>1, <1>2 DEF SessionsInv, Typed, OneRowPerToken
<1>4. RowIds' \subseteq RowIds
  BY <1>1, <1>2 DEF RowIds, Ids
<1>5. Active' = Active /\ \A k \in Active : login'[k] = login[k]
  BY <1>1 DEF Active
<1> QED BY <1>1, <1>3, <1>4, <1>5, QuietStep

LEMMA ReadsStep == ASSUME SessionsInv, NEW r \in Refreshes, NEW jti, RotateReads(r, jti) PROVE SessionsInv'
<1>1. PICK row \in rows : rotation' = [rotation EXCEPT ![r] = [stage |-> "found", jti |-> jti, id |-> row.id]]
                          /\ row.jti = jti
  BY DEF RotateReads, Holding
<1>2. UNCHANGED <<rows, lastId, lastJti, login, leftover>>
  BY DEF RotateReads
<1>3. [stage |-> "found", jti |-> jti, id |-> row.id] \in Rotations
  BY <1>1 DEF SessionsInv, Typed, Rotations
<1>4. Typed' /\ OneRowPerToken'
  BY <1>1, <1>2, <1>3 DEF SessionsInv, Typed, OneRowPerToken
<1>5. RowIds' = RowIds /\ Active' = Active /\ \A k \in Active : login'[k] = login[k]
  BY <1>2 DEF Active, RowIds, Ids
<1> QED BY <1>2, <1>4, <1>5, QuietStep

\* A number that was not used.
LEMMA NewNumber ==
  ASSUME NEW n \in Nat
  PROVE  /\ n + 1 \in Nat /\ 1..n \subseteq 1..(n + 1) /\ n + 1 \in 1..(n + 1)
         /\ n + 1 \notin 1..n
OBVIOUS

\* An update of a row keeps its id, and the new token is one that was not there.
LEMMA WriteKeepsIds ==
  ASSUME Typed, OneRowPerToken, NEW r \in Refreshes, RotateWrites(r)
  PROVE  RowIds' = RowIds /\ Typed' /\ OneRowPerToken'
<1> DEFINE id == rotation[r].id
           new == [row \in rows |-> IF row.id = id THEN [row EXCEPT !.jti = lastJti', !.expired = FALSE] ELSE row]
           Rows == [id : 1..lastId, jti : 1..lastJti', expired : BOOLEAN]
<1>1. /\ rows' = {new[row] : row \in rows} /\ lastJti' = lastJti + 1
      /\ rotation' = [rotation EXCEPT ![r].stage = "done"] /\ UNCHANGED <<lastId, login, leftover>>
  BY Zenon DEF RotateWrites
<1>2. /\ lastId \in Nat /\ lastJti \in Nat /\ rotation \in [Refreshes -> Rotations]
      /\ rows \subseteq [id : 1..lastId, jti : 1..lastJti, expired : BOOLEAN]
  BY DEF Typed
<1>3. 1..lastJti \subseteq 1..lastJti' /\ lastJti' \in 1..lastJti' /\ lastJti' \notin 1..lastJti /\ lastJti' \in Nat
  BY <1>1, <1>2, NewNumber, Zenon
<1>4. ASSUME NEW row \in rows
      PROVE  /\ new[row] \in Rows /\ new[row].id = row.id
             /\ new[row].jti = (IF row.id = id THEN lastJti' ELSE row.jti)
             /\ row.jti # lastJti'
  <2>1. row \in [id : 1..lastId, jti : 1..lastJti, expired : BOOLEAN]
    BY <1>2
  <2>2. row \in Rows /\ row.jti # lastJti'
    BY <1>3, <2>1
  <2>3. new[row] = IF row.id = id THEN [row EXCEPT !.jti = lastJti', !.expired = FALSE] ELSE row
    BY DEF new
  <2> HIDE DEF new
  <2> QED BY <1>3, <2>2, <2>3
<1> HIDE DEF new, id
<1>5. RowIds' = RowIds
  <2>1. RowIds' = {row.id : row \in rows'}
    BY DEF RowIds, Ids
  <2> QED BY <1>1, <1>4, <2>1 DEF RowIds, Ids
<1>6. OneRowPerToken'
  <2> SUFFICES ASSUME NEW a \in rows, NEW b \in rows, new[a] # new[b]
               PROVE  new[a].id # new[b].id /\ new[a].jti # new[b].jti
    BY <1>1 DEF OneRowPerToken
  <2>1. a # b
    OBVIOUS
  <2>2. a.id # b.id /\ a.jti # b.jti
    BY <2>1 DEF OneRowPerToken
  <2> QED BY <1>4, <2>2
<1>7. Typed'
  <2>1. [rotation[r] EXCEPT !.stage = "done"] \in Rotations
    BY <1>2 DEF Rotations
  <2>2. rotation' = [rotation EXCEPT ![r] = [rotation[r] EXCEPT !.stage = "done"]]
    BY <1>1
  <2>3. rotation' \in [Refreshes -> Rotations]
    BY <1>2, <2>1, <2>2
  <2>4. rows' \subseteq Rows
    BY <1>1, <1>4
  <2> QED BY <1>1, <1>2, <1>3, <2>3, <2>4 DEF Typed
<1> QED BY <1>5, <1>6, <1>7

LEMMA WritesStep == ASSUME SessionsInv, NEW r \in Refreshes, RotateWrites(r) PROVE SessionsInv'
<1>1. RowIds' = RowIds /\ Typed' /\ OneRowPerToken' /\ UNCHANGED <<lastId, login, leftover>>
  BY WriteKeepsIds, Zenon DEF SessionsInv, RotateWrites
<1>2. Active' = Active /\ \A k \in Active : login'[k] = login[k]
  BY <1>1 DEF Active
<1> QED BY <1>1, <1>2, QuietStep

-----------------------------------------------------------------------------
(* The steps of a login.                                                   *)

LEMMA InsertsStep == ASSUME SessionsInv, NEW l \in Logins, IssueInserts(l) PROVE SessionsInv'
<1> DEFINE row == [id |-> lastId', jti |-> lastJti', expired |-> FALSE]
           new == [stage |-> "inserted", id |-> lastId', surplus |-> {}]
<1>1. /\ login[l].stage = "purged" /\ lastId' = lastId + 1 /\ lastJti' = lastJti + 1
      /\ rows' = rows \cup {row} /\ login' = [login EXCEPT ![l] = new]
      /\ UNCHANGED <<rotation, leftover>>
  BY DEF IssueInserts
<1>2. /\ lastId \in Nat /\ lastJti \in Nat /\ login \in [Logins -> Progress]
      /\ rows \subseteq [id : 1..lastId, jti : 1..lastJti, expired : BOOLEAN]
  BY DEF SessionsInv, Typed
<1>3. /\ 1..lastId \subseteq 1..lastId' /\ lastId' \in 1..lastId' /\ lastId' \notin 1..lastId /\ lastId' \in Nat
      /\ 1..lastJti \subseteq 1..lastJti' /\ lastJti' \in 1..lastJti' /\ lastJti' \notin 1..lastJti
      /\ lastJti' \in Nat
  BY <1>1, <1>2, NewNumber
<1>4. row \in [id : 1..lastId', jti : 1..lastJti', expired : BOOLEAN] /\ row.id = lastId' /\ row.jti = lastJti'
  BY <1>3
<1>5. new \in Progress /\ new.stage = "inserted" /\ new.id = lastId'
  BY <1>3 DEF Progress
<1> HIDE DEF row, new
<1>6. login'[l] = new /\ \A k \in Logins \ {l} : login'[k] = login[k]
  BY <1>1, <1>2
<1>7. Active' = Active \cup {l} /\ l \notin Active
  BY <1>1, <1>5, <1>6 DEF Active
<1>8. Typed'
  BY <1>1, <1>2, <1>3, <1>4, <1>5 DEF SessionsInv, Typed
<1>9. OneRowPerToken'
  BY <1>1, <1>2, <1>3, <1>4 DEF SessionsInv, OneRowPerToken
<1>10. RowIds' = RowIds \cup {lastId'} /\ lastId' \in ActiveIds' /\ ActiveIds \subseteq ActiveIds'
  <2>1. RowIds' = RowIds \cup {lastId'}
    BY <1>1, <1>4 DEF RowIds, Ids
  <2>2. ActiveIds' = {login'[k].id : k \in Active'}
    BY DEF ActiveIds
  <2>3. Active \subseteq Logins \ {l}
    BY <1>7 DEF Active
  <2> QED BY <1>5, <1>6, <1>7, <2>1, <2>2, <2>3 DEF ActiveIds
<1>11. ASSUME NEW n \in Nat, n <= lastId PROVE IdsUpTo(n)' = IdsUpTo(n)
  <2>1. ~(lastId' <= n)
    BY <1>1, <1>2, <1>11
  <2> QED BY <1>10, <2>1 DEF IdsUpTo
<1>12. ASSUME NEW k \in Active PROVE Counted(k)'
  <2>1. k # l /\ k \in Logins /\ login'[k] = login[k] /\ login[k].id \in Nat /\ login[k].surplus \subseteq Nat
    BY <1>2, <1>6, <1>7 DEF Active, Progress
  <2>2. login[k].id <= lastId
    BY <1>12 DEF SessionsInv, Counted
  <2>3. IdsUpTo(login[k].id)' = IdsUpTo(login[k].id)
    <3>1. \A n \in Nat : n <= lastId => IdsUpTo(n)' = IdsUpTo(n)
      BY <1>11
    <3> QED BY <2>1, <2>2, <3>1 DEF IdsUpTo
  <2>4. \A id \in Nat : lastId - id >= MaxSessions => lastId' - id >= MaxSessions
    BY <1>1, <1>2, SessionsAssumption
  <2>5. login[k].id <= lastId'
    BY <1>1, <1>2, <2>1, <2>2
  <2> QED BY <1>12, <2>1, <2>3, <2>4, <2>5 DEF SessionsInv, Counted
<1>13. Counted(l)'
  <2>1. lastId' <= lastId'
    BY <1>3
  <2> QED BY <1>5, <1>6, <2>1 DEF Counted
<1>14. Settled'
  <2>1. PICK n \in 0..lastId :
          Cardinality(IdsUpTo(n)) <= MaxSessions /\ RowIds \ (leftover \cup ActiveIds) \subseteq IdsUpTo(n)
    BY DEF SessionsInv, Settled
  <2>2. n \in Nat /\ n <= lastId /\ n \in 0..lastId'
    BY <1>1, <1>2
  <2>3. IdsUpTo(n)' = IdsUpTo(n)
    BY <1>11, <2>2
  <2>4. RowIds' \ (leftover' \cup ActiveIds') \subseteq IdsUpTo(n)'
    BY <1>1, <1>10, <2>1, <2>3
  <2> QED BY <2>1, <2>2, <2>3, <2>4 DEF Settled
<1> QED BY <1>7, <1>8, <1>9, <1>12, <1>13, <1>14 DEF SessionsInv

\* The rows that are not behind the cap are within it.
LEMMA WithinCap ==
  ASSUME Typed, OneRowPerToken
  PROVE  Cardinality(RowIds \ Surplus(rows)) <= MaxSessions
<1> DEFINE kept == RowIds \ Surplus(rows)
<1>1. kept \subseteq RowIds /\ kept \in SUBSET Nat /\ IsFiniteSet(kept)
  BY IdsFinite, FewerIds
<1>2. CASE kept = {}
  BY <1>2, FS_EmptySet, SessionsAssumption
<1>3. CASE kept # {}
  <2>1. PICK least \in kept : \A n \in kept : least <= n
    BY <1>1, <1>3, MinOf
  <2>2. PICK row \in rows : row.id = least
    BY <1>1 DEF RowIds, Ids
  <2>3. Newer(row, rows) \subseteq rows
    BY DEF Newer
  <2>4. /\ Cardinality(Newer(row, rows)) = Cardinality(Ids(Newer(row, rows)))
        /\ Cardinality(Newer(row, rows)) \in Nat /\ IsFiniteSet(Ids(Newer(row, rows)))
    BY <2>3, RowsAndIds
  <2>5. ~(Cardinality(Newer(row, rows)) >= MaxSessions)
    BY <2>2 DEF Surplus
  <2>6. kept \ {least} \subseteq Ids(Newer(row, rows))
    <3> SUFFICES ASSUME NEW n \in kept, n # least PROVE n \in Ids(Newer(row, rows))
      OBVIOUS
    <3>1. PICK other \in rows : other.id = n
      BY <1>1 DEF RowIds, Ids
    <3>2. n \in Nat /\ least \in Nat /\ least <= n
      BY <1>1, <2>1
    <3>3. n > least
      BY ONLY <3>2, n # least
    <3> QED BY <2>2, <3>1, <3>3 DEF Newer, Ids
  <2>7. Cardinality(kept \ {least}) <= Cardinality(Ids(Newer(row, rows)))
    BY <2>4, <2>6, FewerIds
  <2>8. Cardinality(kept \ {least}) = Cardinality(kept) - 1 /\ Cardinality(kept) \in Nat
    BY <1>1, FS_RemoveElement, FS_CardinalityType
  <2> HIDE DEF kept
  <2>9. Cardinality(kept) <= MaxSessions
    BY <2>4, <2>5, <2>7, <2>8, SessionsAssumption
  <2> QED BY <2>9 DEF kept
<1> QED BY <1>2, <1>3

\* What is behind the cap has as many ids after it.
LEMMA BehindCap ==
  ASSUME Typed, OneRowPerToken, NEW id \in Surplus(rows)
  PROVE  id \in Nat /\ lastId - id >= MaxSessions
<1>1. PICK row \in rows : row.id = id /\ Cardinality(Newer(row, rows)) >= MaxSessions
  BY DEF Surplus
<1>2. lastId \in Nat /\ id \in 1..lastId
  BY <1>1 DEF Typed
<1>3. Newer(row, rows) \subseteq rows
  BY DEF Newer
<1>4. /\ Cardinality(Newer(row, rows)) = Cardinality(Ids(Newer(row, rows)))
      /\ Ids(Newer(row, rows)) \subseteq 1..lastId /\ Cardinality(Newer(row, rows)) \in Nat
  BY <1>3, RowsAndIds
<1>5. Ids(Newer(row, rows)) \subseteq (id + 1)..lastId
  <2> SUFFICES ASSUME NEW n \in Ids(Newer(row, rows)) PROVE n \in (id + 1)..lastId
    OBVIOUS
  <2>1. n \in 1..lastId
    BY <1>4
  <2>2. n > id
    BY <1>1 DEF Ids, Newer
  <2> QED BY ONLY <1>2, <2>1, <2>2
<1>6. IsFiniteSet((id + 1)..lastId) /\ Cardinality((id + 1)..lastId) = lastId - id
  <2>1. id + 1 \in Int /\ lastId \in Int /\ (id + 1 > lastId => lastId - id = 0)
    BY <1>2
  <2>2. lastId - (id + 1) + 1 = lastId - id
    BY <1>2
  <2> QED BY <2>1, <2>2, FS_Interval
<1>7. Cardinality(Ids(Newer(row, rows))) <= lastId - id
  BY <1>5, <1>6, FewerIds
<1> QED BY <1>1, <1>2, <1>4, <1>7, SessionsAssumption

LEMMA FindsStep == ASSUME SessionsInv, NEW l \in Logins, IssueFinds(l) PROVE SessionsInv'
<1> DEFINE new == [login[l] EXCEPT !.stage = "found", !.surplus = Surplus(rows)]
<1>1. /\ login[l].stage = "inserted" /\ login \in [Logins -> Progress]
      /\ login' = [login EXCEPT ![l].stage = "found", ![l].surplus = Surplus(rows)]
      /\ UNCHANGED <<rows, lastId, lastJti, rotation, leftover>>
  BY DEF IssueFinds, SessionsInv, Typed
<1>2. Surplus(rows) \subseteq Nat /\ \A id \in Surplus(rows) : lastId - id >= MaxSessions
  BY BehindCap DEF SessionsInv
<1>3. new \in Progress /\ new.stage = "found" /\ new.id = login[l].id /\ new.surplus = Surplus(rows)
  BY <1>1, <1>2 DEF Progress
<1>4. login' = [login EXCEPT ![l] = new]
  BY ONLY <1>1, l \in Logins DEF Progress
<1> HIDE DEF new
<1>5. login'[l] = new /\ \A k \in Logins \ {l} : login'[k] = login[k]
  BY <1>1, <1>4
<1>6. Typed' /\ OneRowPerToken'
  BY <1>1, <1>3, <1>4 DEF SessionsInv, Typed, OneRowPerToken
<1>7. /\ Active' = Active /\ l \in Active /\ RowIds' = RowIds /\ \A n : IdsUpTo(n)' = IdsUpTo(n)
      /\ \A k \in Active : login'[k].id = login[k].id
  BY <1>1, <1>3, <1>5 DEF Active, RowIds, Ids, IdsUpTo
<1>8. ActiveIds' = ActiveIds
  BY <1>7 DEF ActiveIds
<1>9. ASSUME NEW k \in Active, k # l PROVE Counted(k)'
  <2>1. login'[k] = login[k]
    BY <1>5, <1>9 DEF Active
  <2> QED BY <1>1, <1>7, <1>9, <2>1 DEF SessionsInv, Counted
<1>10. Counted(l)'
  <2>1. IdsUpTo(login[l].id) \ Surplus(rows) \subseteq RowIds \ Surplus(rows)
    BY DEF IdsUpTo
  <2>2. IsFiniteSet(RowIds \ Surplus(rows))
    BY IdsFinite, FewerIds DEF SessionsInv
  <2>3. /\ Cardinality(IdsUpTo(login[l].id) \ Surplus(rows)) <= Cardinality(RowIds \ Surplus(rows))
        /\ Cardinality(IdsUpTo(login[l].id) \ Surplus(rows)) \in Nat
        /\ Cardinality(RowIds \ Surplus(rows)) \in Nat /\ MaxSessions \in Nat
    BY <2>1, <2>2, FewerIds, SessionsAssumption
  <2>4. Cardinality(IdsUpTo(login[l].id) \ Surplus(rows)) <= MaxSessions
    BY <2>3, WithinCap DEF SessionsInv
  <2>5. login[l].id <= lastId
    BY <1>7 DEF SessionsInv, Counted
  <2> QED BY <1>1, <1>2, <1>3, <1>5, <1>7, <2>4, <2>5 DEF Counted
<1>11. Settled'
  BY <1>1, <1>7, <1>8 DEF SessionsInv, Settled
<1> QED BY <1>6, <1>7, <1>9, <1>10, <1>11 DEF SessionsInv

\* The end of a login, which leaves the account alone or prunes it.
LEMMA EndTypes ==
  ASSUME Typed, NEW l \in Logins, login' = [login EXCEPT ![l] = [NoLogin EXCEPT !.stage = "done"]]
  PROVE  /\ login' \in [Logins -> Progress] /\ Active' = Active \ {l}
         /\ \A k \in Logins \ {l} : login'[k] = login[k]
<1> DEFINE new == [NoLogin EXCEPT !.stage = "done"]
<1>1. new \in Progress /\ new.stage = "done" /\ login' = [login EXCEPT ![l] = new]
  BY DEF NoLogin, Progress
<1> HIDE DEF new
<1>2. /\ login' \in [Logins -> Progress] /\ login'[l] = new
      /\ \A k \in Logins \ {l} : login'[k] = login[k]
  BY <1>1 DEF Typed
<1>3. Active' = Active \ {l}
  BY <1>1, <1>2 DEF Active
<1> QED BY <1>2, <1>3

LEMMA PrunesStep == ASSUME SessionsInv, NEW l \in Logins, IssuePrunes(l) PROVE SessionsInv'
<1>0. PICK mine, gone : mine = login[l].id /\ gone = login[l].surplus
  OBVIOUS
<1>1. /\ login[l].stage = "found" /\ rows' = {row \in rows : row.id \notin gone}
      /\ leftover' = leftover \ gone /\ login' = [login EXCEPT ![l] = [NoLogin EXCEPT !.stage = "done"]]
      /\ UNCHANGED <<lastId, lastJti, rotation>>
  BY <1>0 DEF IssuePrunes
<1>2. /\ login' \in [Logins -> Progress] /\ Active' = Active \ {l} /\ l \in Active
      /\ \A k \in Logins \ {l} : login'[k] = login[k]
  BY <1>1, EndTypes DEF SessionsInv, Active
<1>3. Typed' /\ OneRowPerToken'
  BY <1>1, <1>2 DEF SessionsInv, Typed, OneRowPerToken
<1>4. RowIds' = RowIds \ gone
  BY <1>1 DEF RowIds, Ids
<1>5. ActiveIds \subseteq ActiveIds' \cup {mine}
  <2>1. ActiveIds' = {login'[k].id : k \in Active'}
    BY DEF ActiveIds
  <2>2. ASSUME NEW k \in Active PROVE login[k].id \in ActiveIds' \/ login[k].id = mine
    <3>1. CASE k = l
      BY <1>0, <3>1
    <3>2. CASE k # l
      <4>1. k \in Active' /\ login'[k] = login[k]
        BY <1>2, <3>2 DEF Active
      <4> QED BY <2>1, <4>1
    <3> QED BY <3>1, <3>2
  <2> QED BY <2>2 DEF ActiveIds
<1>6. ASSUME NEW k \in Active' PROVE Counted(k)'
  <2>1. k \in Active /\ login'[k] = login[k]
    BY <1>2, <1>6 DEF Active
  <2>2. Typed /\ OneRowPerToken /\ Counted(k) /\ RowIds' \subseteq RowIds /\ lastId' = lastId
    BY <1>1, <1>4, <2>1 DEF SessionsInv
  <2> PICK id, surplus : id = login[k].id /\ surplus = login[k].surplus
    OBVIOUS
  <2>3. Cardinality(IdsUpTo(id)' \ surplus) <= MaxSessions \/ ~(Cardinality(IdsUpTo(id) \ surplus) <= MaxSessions)
    BY <2>2, CountsShrink
  <2> QED BY <2>1, <2>2, <2>3 DEF Counted
<1>7. /\ mine <= lastId /\ mine \in Nat /\ lastId \in Nat
      /\ Cardinality(IdsUpTo(mine) \ gone) <= MaxSessions
  BY <1>0, <1>1, <1>2 DEF SessionsInv, Counted, Typed, Progress
<1>8. PICK n \in 0..lastId :
        Cardinality(IdsUpTo(n)) <= MaxSessions /\ RowIds \ (leftover \cup ActiveIds) \subseteq IdsUpTo(n)
  BY DEF SessionsInv, Settled
<1>9. RowIds' \ (leftover' \cup ActiveIds') \subseteq IdsUpTo(n) \cup {mine}
  BY <1>1, <1>4, <1>5, <1>8
<1>10. n \in Nat /\ RowIds' \subseteq Nat
  BY <1>4, <1>8, IdsFinite DEF SessionsInv
<1>11. CASE mine <= n
  <2>1. Cardinality(IdsUpTo(n)') <= MaxSessions
    BY <1>4, <1>8, CountsShrink DEF SessionsInv
  <2>2. RowIds' \ (leftover' \cup ActiveIds') \subseteq IdsUpTo(n)'
    BY <1>9, <1>11 DEF IdsUpTo
  <2> QED BY <1>1, <1>3, <1>6, <1>8, <2>1, <2>2 DEF SessionsInv, Settled
<1>12. CASE ~(mine <= n)
  <2>1. IdsUpTo(mine)' = IdsUpTo(mine) \ gone
    BY <1>4 DEF IdsUpTo
  <2>2. ASSUME NEW id \in RowIds' \ (leftover' \cup ActiveIds') PROVE id <= mine
    <3>1. id = mine \/ id <= n
      BY <1>9, <2>2 DEF IdsUpTo
    <3>2. id \in Nat
      BY <1>10, <2>2
    <3> QED BY <1>7, <1>10, <1>12, <3>1, <3>2
  <2>3. RowIds' \ (leftover' \cup ActiveIds') \subseteq IdsUpTo(mine)'
    <3>1. IdsUpTo(mine)' = {id \in RowIds' : id <= mine}
      BY <1>4, <2>1 DEF IdsUpTo
    <3> QED BY <2>2, <3>1
  <2>4. mine \in 0..lastId'
    BY <1>1, <1>7
  <2> QED BY <1>3, <1>6, <1>7, <2>1, <2>3, <2>4 DEF SessionsInv, Settled
<1> QED BY <1>11, <1>12

LEMMA FailsStep == ASSUME SessionsInv, NEW l \in Logins, IssueFails(l) PROVE SessionsInv'
<1>1. /\ login[l].stage \in {"inserted", "found"} /\ leftover' = leftover \cup {login[l].id}
      /\ login' = [login EXCEPT ![l] = [NoLogin EXCEPT !.stage = "done"]]
      /\ UNCHANGED <<rows, lastId, lastJti, rotation>>
  BY DEF IssueFails
<1>2. /\ login' \in [Logins -> Progress] /\ Active' = Active \ {l} /\ login[l].id \in Nat
      /\ \A k \in Logins \ {l} : login'[k] = login[k]
  BY <1>1, EndTypes DEF SessionsInv, Typed, Progress
<1>3. Typed' /\ OneRowPerToken' /\ RowIds' = RowIds /\ \A n : IdsUpTo(n)' = IdsUpTo(n)
  BY <1>1, <1>2 DEF SessionsInv, Typed, OneRowPerToken, RowIds, Ids, IdsUpTo
<1>4. leftover \cup ActiveIds \subseteq leftover' \cup ActiveIds'
  <2>1. ActiveIds' = {login'[k].id : k \in Active'}
    BY DEF ActiveIds
  <2> QED BY <1>1, <1>2, <2>1 DEF ActiveIds, Active
<1>5. ASSUME NEW k \in Active' PROVE Counted(k)'
  <2>1. k \in Active /\ login'[k] = login[k]
    BY <1>2, <1>5 DEF Active
  <2> QED BY <1>1, <1>3, <2>1 DEF SessionsInv, Counted
<1>6. Settled'
  BY <1>1, <1>3, <1>4 DEF SessionsInv, Settled
<1> QED BY <1>3, <1>5, <1>6 DEF SessionsInv

-----------------------------------------------------------------------------
(* What follows.                                                           *)

LEMMA SessionsStart == SessionsInit => SessionsInv
<1> SUFFICES ASSUME SessionsInit PROVE SessionsInv
  OBVIOUS
<1>1. NoLogin \in Progress /\ NoRotation \in Rotations
  BY DEF NoLogin, Progress, NoRotation, Rotations
<1>2. Typed /\ OneRowPerToken
  BY <1>1 DEF SessionsInit, Typed, OneRowPerToken
<1>3. Active = {} /\ RowIds = {} /\ IdsUpTo(0) = {}
  BY DEF SessionsInit, Active, NoLogin, RowIds, Ids, IdsUpTo
<1>4. Cardinality({}) <= MaxSessions /\ 0 \in 0..lastId
  BY FS_EmptySet, SessionsAssumption DEF SessionsInit
<1> QED BY <1>2, <1>3, <1>4 DEF SessionsInv, Settled

LEMMA SessionsStep == SessionsInv /\ [SessionsNext]_sessionsVars => SessionsInv'
<1> SUFFICES ASSUME SessionsInv, [SessionsNext]_sessionsVars PROVE SessionsInv'
  OBVIOUS
<1>1. ASSUME NEW l \in Logins,
             IssuePurges(l) \/ IssueInserts(l) \/ IssueFinds(l) \/ IssuePrunes(l) \/ IssueFails(l)
      PROVE  SessionsInv'
  BY <1>1, PurgesStep, InsertsStep, FindsStep, PrunesStep, FailsStep
<1>2. ASSUME NEW r \in Refreshes, RotateWrites(r) \/ \E token \in given : RotateReads(r, token.jti)
      PROVE  SessionsInv'
  BY <1>2, WritesStep, ReadsStep
<1>3. ASSUME NEW token \in given, Revoke(token.jti) PROVE SessionsInv'
  BY <1>3, RevokesStep
<1>4. ASSUME NEW row \in rows, RowExpires(row) PROVE SessionsInv'
  BY <1>4, ExpiresStep
<1>5. CASE UNCHANGED sessionsVars
  <2>1. UNCHANGED <<rows, lastId, lastJti, login, rotation, leftover>>
    BY <1>5 DEF sessionsVars
  <2>2. Typed' /\ OneRowPerToken' /\ RowIds' = RowIds /\ Active' = Active
    BY <2>1 DEF SessionsInv, Typed, OneRowPerToken, RowIds, Ids, Active
  <2> QED BY <2>1, <2>2, QuietStep
<1> QED BY <1>1, <1>2, <1>3, <1>4, <1>5 DEF SessionsNext

\* The invariant of the sessions: whose login is over is within the cap together with
\* all that is as old, whatever logins, refreshes, logouts and failures overlap.
THEOREM SessionsKeepInv == SessionsSpec => []SessionsInv
BY SessionsStart, SessionsStep, PTL DEF SessionsSpec

\* Together no more than one by one.
LEMMA Together ==
  ASSUME NEW S, NEW T, IsFiniteSet(S), IsFiniteSet(T)
  PROVE  IsFiniteSet(S \cup T) /\ Cardinality(S \cup T) <= Cardinality(S) + Cardinality(T)
<1>1. /\ IsFiniteSet(S \cup T) /\ IsFiniteSet(S \cap T)
      /\ Cardinality(S \cup T) = Cardinality(S) + Cardinality(T) - Cardinality(S \cap T)
  BY FS_Union, FS_Intersection
<1>2. Cardinality(S) \in Nat /\ Cardinality(T) \in Nat /\ Cardinality(S \cap T) \in Nat
  BY <1>1, FS_CardinalityType
<1> QED BY <1>1, <1>2

\* At any time: the rows whose login is over, the others' and the left over ones.
LEMMA CapOfInv == SessionsInv => SessionsCapped
<1> SUFFICES ASSUME SessionsInv PROVE SessionsCapped
  OBVIOUS
<1>1. PICK n \in 0..lastId :
        Cardinality(IdsUpTo(n)) <= MaxSessions /\ RowIds \ (leftover \cup ActiveIds) \subseteq IdsUpTo(n)
  BY DEF SessionsInv, Settled
<1> DEFINE left == leftover \cap RowIds
<1>2. IsFiniteSet(RowIds) /\ IsFiniteSet(Active)
  BY IdsFinite, FewerIds, SessionsAssumption DEF SessionsInv, Active
<1>3. IsFiniteSet(ActiveIds) /\ Cardinality(ActiveIds) <= Cardinality(Active)
  <2> DEFINE f == [l \in Active |-> login[l].id]
  <2>1. f \in Surjection(Active, ActiveIds)
    BY DEF Surjection, ActiveIds
  <2> HIDE DEF f
  <2> QED BY <1>2, <2>1, FS_Surjection
<1>4. /\ IsFiniteSet(IdsUpTo(n)) /\ IsFiniteSet(left) /\ IsFiniteSet(IdsUpTo(n) \cup left)
      /\ IsFiniteSet((IdsUpTo(n) \cup left) \cup ActiveIds)
  BY <1>2, <1>3, FewerIds, Together DEF IdsUpTo
<1>5. /\ Cardinality(IdsUpTo(n) \cup left) <= Cardinality(IdsUpTo(n)) + Cardinality(left)
      /\ Cardinality((IdsUpTo(n) \cup left) \cup ActiveIds) <= Cardinality(IdsUpTo(n) \cup left) + Cardinality(ActiveIds)
  BY <1>3, <1>4, Together
<1>6. RowIds \subseteq (IdsUpTo(n) \cup left) \cup ActiveIds
  BY <1>1
<1>7. Cardinality(RowIds) <= Cardinality((IdsUpTo(n) \cup left) \cup ActiveIds)
  BY <1>4, <1>6, FewerIds
<1>8. /\ Cardinality(RowIds) \in Nat /\ Cardinality(IdsUpTo(n)) \in Nat /\ Cardinality(left) \in Nat
      /\ Cardinality(IdsUpTo(n) \cup left) \in Nat /\ Cardinality(ActiveIds) \in Nat /\ Cardinality(Active) \in Nat
      /\ Cardinality((IdsUpTo(n) \cup left) \cup ActiveIds) \in Nat /\ MaxSessions \in Nat
  BY <1>2, <1>3, <1>4, FS_CardinalityType, SessionsAssumption
<1>9. Cardinality(RowIds) <= MaxSessions + Cardinality(left) + Cardinality(Active)
  BY ONLY <1>1, <1>3, <1>5, <1>7, <1>8
<1>10. Cardinality(rows) = Cardinality(RowIds)
  BY RowsAndIds DEF SessionsInv, RowIds
<1> QED BY <1>9, <1>10 DEF SessionsCapped, Active, RowIds

\* A login deletes what was behind the cap when it looked, and that still is.
LEMMA PrunesOldest ==
  SessionsInv /\ [SessionsNext]_sessionsVars =>
    [\A l \in Logins : IssuePrunes(l) =>
       \A row \in rows \ rows' : Cardinality({id \in 1..lastId : id > row.id}) >= MaxSessions]_sessionsVars
<1> SUFFICES ASSUME SessionsInv, NEW l \in Logins, IssuePrunes(l), NEW row \in rows \ rows'
             PROVE  Cardinality({id \in 1..lastId : id > row.id}) >= MaxSessions
  OBVIOUS
<1>1. l \in Active /\ row.id \in login[l].surplus /\ login[l].stage = "found"
  BY DEF IssuePrunes, Active
<1>2. lastId - row.id >= MaxSessions /\ lastId \in Nat /\ row.id \in 1..lastId
  BY <1>1 DEF SessionsInv, Counted, Typed
<1>3. {id \in 1..lastId : id > row.id} = (row.id + 1)..lastId
  BY <1>2
<1>4. Cardinality((row.id + 1)..lastId) = lastId - row.id
  <2>1. row.id + 1 \in Int /\ lastId \in Int /\ (row.id + 1 > lastId => lastId - row.id = 0)
    BY <1>2
  <2>2. lastId - (row.id + 1) + 1 = lastId - row.id
    BY <1>2
  <2> QED BY <2>1, <2>2, FS_Interval
<1> QED BY <1>2, <1>3, <1>4

\* A new token comes with a row of its own or keeps every row.
LEMMA RotationKeeps ==
  SessionsInv /\ [SessionsNext]_sessionsVars =>
    [lastJti' # lastJti /\ Cardinality(rows') <= Cardinality(rows) => Ids(rows') = Ids(rows)]_sessionsVars
<1> SUFFICES ASSUME SessionsInv, SessionsNext, lastJti' # lastJti, Cardinality(rows') <= Cardinality(rows)
             PROVE  Ids(rows') = Ids(rows)
  BY DEF sessionsVars
<1>1. (\E l \in Logins : IssueInserts(l)) \/ (\E r \in Refreshes : RotateWrites(r))
  BY DEF SessionsNext, IssuePurges, IssueFinds, IssuePrunes, IssueFails, RotateReads, Revoke, RowExpires
<1>2. ASSUME NEW r \in Refreshes, RotateWrites(r) PROVE Ids(rows') = Ids(rows)
  BY <1>2, WriteKeepsIds DEF SessionsInv, RowIds, Ids
<1>3. ASSUME NEW l \in Logins, IssueInserts(l) PROVE FALSE
  <2> DEFINE row == [id |-> lastId', jti |-> lastJti', expired |-> FALSE]
  <2>1. rows' = rows \cup {row} /\ row.id = lastId + 1
    BY <1>3 DEF IssueInserts
  <2> HIDE DEF row
  <2>2. row \notin rows
    <3>1. lastId + 1 \notin 1..lastId
      BY NewNumber DEF SessionsInv, Typed
    <3> QED BY <2>1, <3>1 DEF SessionsInv, Typed
  <2>3. IsFiniteSet(rows) /\ Cardinality(rows) \in Nat
    BY RowsAndIds DEF SessionsInv
  <2>4. Cardinality(rows') = Cardinality(rows) + 1
    BY <2>1, <2>2, <2>3, FS_AddElement
  <2> QED BY <2>3, <2>4
<1> QED BY <1>1, <1>2, <1>3

\* The rows of an account stay sound under any logins, refreshes, logouts and failures
\* at once: within the cap but for logins under way or failed, one row per token, only
\* rows behind the cap are pushed out, and a refresh keeps every row in its place
\* (refresh-tokens.service.ts).
THEOREM SessionsSound == SessionsSpec => TokensSound
<1>1. SessionsInv => OneRowPerToken
  BY DEF SessionsInv
<1> QED
  BY <1>1, CapOfInv, PrunesOldest, RotationKeeps, SessionsKeepInv, PTL
  DEF SessionsSpec, TokensSound, OldestPushedOut, RotationKeepsRows

-----------------------------------------------------------------------------
(* Who made the attempts at an account.                                    *)

\* who names the address of each attempt of s: by[ip] ends no earlier than an attempt
\* of ip that still counts, and behind AccountLimit attempts that count nobody comes twice.
Spread(who, s, by, x) ==
  /\ who \in [DOMAIN s -> Ips]
  /\ \A i \in DOMAIN s : s[i] > x => by[who[i]] # <<>> /\ Last(by[who[i]]) >= s[i]
  /\ \A i, j, k \in DOMAIN s : s[i] > x /\ i + AccountLimit <= j /\ j < k => who[j] # who[k]

\* All addresses together have no more than the share of the account and one each.
LEMMA SpreadBounds ==
  ASSUME NEW n \in Nat, NEW s \in Moments(n), NEW x \in Int, NEW who, NEW by, Spread(who, s, by, x)
  PROVE  Len(Later(s, x)) <= AccountLimit + Cardinality(Ips)
<1>1. s \in Seq(Nat) /\ Len(s) \in Nat /\ DOMAIN s = 1..Len(s)
  BY DEF Moments
<1>2. AccountLimit \in Nat /\ Cardinality(Ips) \in Nat /\ IsFiniteSet(Ips)
  BY RateLimitsAssumption, FS_CardinalityType
<1> DEFINE t == Later(s, x)
<1>3. PICK r : DropsTo(t, s, r) /\ \A k \in DOMAIN s : s[k] > x <=> k >= r
  BY LaterIs
<1> HIDE DEF t
<1>4. Len(t) \in Nat /\ r \in Nat /\ Len(t) = Len(s) - r + 1 /\ r \in 1..Len(s) + 1
  BY <1>1, <1>3 DEF DropsTo
<1> SUFFICES ASSUME Len(t) > AccountLimit + Cardinality(Ips) PROVE FALSE
  <2>1. ~(Len(t) > AccountLimit + Cardinality(Ips))
    OBVIOUS
  <2> QED BY <1>2, <1>4, <2>1 DEF t
<1> DEFINE first == r + AccountLimit
           behind == first..Len(s)
<1>5. first \in Nat /\ Len(s) - first + 1 > Cardinality(Ips) /\ first <= Len(s) /\ r \in 1..Len(s)
  BY <1>1, <1>2, <1>4
<1>6. behind \subseteq DOMAIN s /\ \A j \in behind : j \in Nat /\ r + AccountLimit <= j
  BY <1>1, <1>2, <1>4
<1>7. IsFiniteSet(behind) /\ Cardinality(Ips) < Cardinality(behind)
  <2> HIDE DEF first
  <2>1. IsFiniteSet(behind) /\ Cardinality(behind) = IF first > Len(s) THEN 0 ELSE Len(s) - first + 1
    BY <1>1, <1>5, FS_Interval
  <2>2. Cardinality(behind) = Len(s) - first + 1
    BY <1>1, <1>5, <2>1
  <2> QED BY <1>5, <2>1, <2>2
<1>8. s[r] > x
  <2>1. r \in DOMAIN s /\ r >= r
    BY <1>1, <1>5
  <2> QED BY <1>3, <2>1
<1> HIDE DEF behind, first
<1> DEFINE f == [j \in behind |-> who[j]]
<1>9. f \in [behind -> Ips]
  BY <1>6 DEF Spread
<1>10. PICK j \in behind, k \in behind : j # k /\ f[j] = f[k]
  <2> HIDE DEF f
  <2> QED BY <1>2, <1>7, <1>9, FS_PigeonHole
<1>11. who[j] = who[k]
  BY <1>10
<1>12. r \in DOMAIN s /\ j \in DOMAIN s /\ k \in DOMAIN s
  BY <1>1, <1>5, <1>6
<1>13. CASE j < k
  BY <1>6, <1>8, <1>11, <1>12, <1>13 DEF Spread
<1>14. CASE k < j
  BY <1>6, <1>8, <1>11, <1>12, <1>14 DEF Spread
<1>15. j < k \/ k < j
  <2>1. j \in Nat /\ k \in Nat /\ j # k
    BY <1>6, <1>10
  <2> QED BY <2>1
<1> QED BY <1>13, <1>14, <1>15

\* One more attempt is let through: the account is not full, or the address has no part in it.
LEMMA SpreadGrows ==
  ASSUME NEW n \in Nat, NEW s \in Moments(n), NEW x \in Int, x < n,
         NEW who, NEW by, Spread(who, s, by, x), NEW ip \in Ips, NEW next,
         next[ip] # <<>>, Last(next[ip]) = n,
         \A other \in Ips : other # ip => next[other] = by[other],
         Len(Later(s, x)) > AccountLimit => ~(by[ip] # <<>> /\ Last(by[ip]) > x),
         \A other \in Ips : by[other] # <<>> => Last(by[other]) \in Nat
  PROVE  \E grown : Spread(grown, Append(Later(s, x), n), next, x)
<1>1. s \in Seq(Nat) /\ Len(s) \in Nat /\ DOMAIN s = 1..Len(s) /\ \A i \in DOMAIN s : s[i] \in Nat /\ s[i] <= n
  BY DEF Moments
<1>2. AccountLimit \in Nat
  BY RateLimitsAssumption
<1> DEFINE t == Later(s, x)
<1>3. PICK r : DropsTo(t, s, r) /\ \A k \in DOMAIN s : s[k] > x <=> k >= r
  BY LaterIs
<1> HIDE DEF t
<1>4. /\ t \in Seq(Nat) /\ Len(t) \in Nat /\ DOMAIN t = 1..Len(t) /\ r \in Nat /\ r >= 1
      /\ \A i \in 1..Len(t) : r - 1 + i \in DOMAIN s /\ t[i] = s[r - 1 + i] /\ s[r - 1 + i] > x
  <2>1. t \in Seq(Nat) /\ Len(t) \in Nat /\ DOMAIN t = 1..Len(t) /\ r \in Nat /\ r >= 1 /\ Len(t) = Len(s) - r + 1
    BY <1>1, <1>3 DEF DropsTo
  <2>2. ASSUME NEW i \in 1..Len(t) PROVE r - 1 + i \in DOMAIN s /\ t[i] = s[r - 1 + i] /\ s[r - 1 + i] > x
    <3>1. r - 1 + i \in DOMAIN s /\ r - 1 + i >= r
      <4>1. i \in Nat /\ i >= 1 /\ i <= Len(s) - r + 1
        BY <2>1
      <4>2. r - 1 + i \in 1..Len(s) /\ r - 1 + i >= r
        <5>1. Len(s) \in Nat
          BY <1>1
        <5> QED BY <2>1, <4>1, <5>1
      <4> QED BY <1>1, <4>2
    <3>2. s[r - 1 + i] > x
      <4>1. PICK j \in DOMAIN s : j = r - 1 + i
        BY <3>1
      <4> QED BY <1>3, <3>1, <4>1
    <3>3. t[i] = s[r - 1 + i]
      BY <1>3, <2>1 DEF DropsTo
    <3> QED BY <3>1, <3>2, <3>3
  <2> QED BY <2>1, <2>2
<1> DEFINE a == Append(t, n)
           grown == [i \in 1..Len(t) + 1 |-> IF i = Len(t) + 1 THEN ip ELSE who[r - 1 + i]]
<1>5. /\ DOMAIN a = 1..Len(t) + 1 /\ a[Len(t) + 1] = n /\ \A i \in 1..Len(t) : a[i] = t[i]
      /\ \A i \in 1..Len(t) + 1 : i = Len(t) + 1 \/ i \in 1..Len(t)
  BY <1>4
<1>6. grown[Len(t) + 1] = ip /\ \A i \in 1..Len(t) : grown[i] = who[r - 1 + i]
  BY <1>4
<1>7. \A i \in 1..Len(t) : who[r - 1 + i] \in Ips /\ by[who[r - 1 + i]] # <<>> /\ Last(by[who[r - 1 + i]]) >= t[i]
  BY <1>1, <1>4 DEF Spread
<1>8. grown \in [DOMAIN a -> Ips]
  BY <1>5, <1>7
<1> HIDE DEF a, grown
<1>9. ASSUME NEW i \in DOMAIN a, a[i] > x PROVE next[grown[i]] # <<>> /\ Last(next[grown[i]]) >= a[i]
  <2>1. CASE i = Len(t) + 1
    BY <1>5, <1>6, <2>1
  <2>2. CASE i \in 1..Len(t)
    <3>1. CASE who[r - 1 + i] = ip
      <4>1. grown[i] = ip /\ a[i] = s[r - 1 + i] /\ r - 1 + i \in DOMAIN s
        BY <1>4, <1>5, <1>6, <2>2, <3>1
      <4>2. s[r - 1 + i] <= n /\ s[r - 1 + i] \in Nat
        BY <1>1, <4>1
      <4> QED BY <4>1, <4>2
    <3>2. CASE who[r - 1 + i] # ip
      <4>1. next[grown[i]] = by[who[r - 1 + i]]
        BY <1>6, <1>7, <2>2, <3>2
      <4> QED BY <1>5, <1>7, <2>2, <4>1
    <3> QED BY <3>1, <3>2
  <2> QED BY <1>5, <2>1, <2>2
<1>10. ASSUME NEW i \in DOMAIN a, NEW j \in DOMAIN a, NEW k \in DOMAIN a, i + AccountLimit <= j, j < k
       PROVE  grown[j] # grown[k]
  <2>1. i \in Nat /\ j \in Nat /\ k \in Nat /\ i \in 1..Len(t) /\ j \in 1..Len(t) /\ Len(t) >= j /\ j > AccountLimit
    BY <1>2, <1>4, <1>5, <1>10
  <2>2. CASE k = Len(t) + 1
    <3>1. Len(t) > AccountLimit
      BY <1>2, <1>4, <2>1
    <3>2. ~(by[ip] # <<>> /\ Last(by[ip]) > x)
      BY <3>1 DEF t
    <3>3. by[who[r - 1 + j]] # <<>> /\ Last(by[who[r - 1 + j]]) >= t[j] /\ t[j] > x /\ t[j] \in Nat
          /\ Last(by[who[r - 1 + j]]) \in Nat
      BY <1>1, <1>4, <1>7, <2>1
    <3>4. Last(by[who[r - 1 + j]]) > x
      BY <3>3
    <3>5. who[r - 1 + j] # ip
      BY <3>2, <3>3, <3>4
    <3> QED BY <1>6, <2>1, <2>2, <3>5
  <2>3. CASE k \in 1..Len(t)
    <3>1. r - 1 + i + AccountLimit <= r - 1 + j /\ r - 1 + j < r - 1 + k
      BY <1>2, <1>4, <1>10, <2>1
    <3>2. who[r - 1 + j] # who[r - 1 + k]
      BY <1>4, <2>1, <2>3, <3>1 DEF Spread
    <3> QED BY <1>6, <2>1, <2>3, <3>2
  <2> QED BY <1>5, <2>2, <2>3
<1>11. Spread(grown, a, next, x)
  BY <1>8, <1>9, <1>10 DEF Spread
<1> QED BY <1>11 DEF a, t

\* What is spread stays so while time passes.
LEMMA SpreadLasts ==
  ASSUME NEW n \in Nat, NEW s \in Moments(n), NEW x \in Int, NEW y \in Int, x <= y,
         NEW who, NEW by, Spread(who, s, by, x)
  PROVE  Spread(who, s, by, y)
<1>1. \A i \in DOMAIN s : s[i] \in Nat /\ (s[i] > y => s[i] > x)
  BY DEF Moments
<1> QED BY <1>1 DEF Spread

-----------------------------------------------------------------------------
(* The Map of attempts and its sweeps.                                     *)

Edge == now - Window

Used(map) == {k \in Keys : map[k] # <<>>}

\* There are finitely many keys, and fewer used ones are no more.
LEMMA FiniteKeys ==
  /\ IsFiniteSet(Keys)
  /\ \A map : Size(map) = Cardinality(Used(map)) /\ Size(map) \in Nat /\ IsFiniteSet(Used(map))
  /\ \A map, less : Used(less) \subseteq Used(map) => Size(less) <= Size(map)
<1>1. IsFiniteSet(Keys)
  <2>1. IsFiniteSet(Accounts \X Ips)
    BY RateLimitsAssumption, FS_Product
  <2> QED BY <2>1, RateLimitsAssumption, FS_Union DEF Keys, Pairs
<1>2. ASSUME NEW map PROVE Size(map) = Cardinality(Used(map)) /\ Size(map) \in Nat /\ IsFiniteSet(Used(map))
  <2>1. Size(map) = Cardinality(Used(map)) /\ Used(map) \subseteq Keys
    BY DEF Size, Used
  <2>2. IsFiniteSet(Used(map))
    BY <1>1, <2>1, FS_Subset
  <2> QED BY <2>1, <2>2, FS_CardinalityType
<1>3. ASSUME NEW map, NEW less, Used(less) \subseteq Used(map) PROVE Size(less) <= Size(map)
  BY <1>2, <1>3, FS_Subset
<1> QED BY <1>1, <1>2, <1>3

LEMMA Sizes ==
  /\ SweepFloor \in Nat /\ SweepFloor >= 1 /\ MaxKeys \in Nat
  /\ MaxKeys \div 2 \in Nat /\ (MaxKeys \div 2) * 2 <= MaxKeys
  /\ \A m \in Nat : /\ Larger(SweepFloor, m) \in Nat /\ m <= Larger(SweepFloor, m)
                    /\ \A l \in Nat : l * 2 <= m => l < Larger(SweepFloor, m)
                    /\ \A l \in Nat : m <= l => Larger(SweepFloor, m) <= Larger(SweepFloor, l)
<1>1. SweepFloor \in Nat /\ SweepFloor >= 1 /\ MaxKeys \in Nat
  BY RateLimitsAssumption
<1>2. MaxKeys \div 2 \in Nat /\ (MaxKeys \div 2) * 2 <= MaxKeys
  BY <1>1
<1>3. ASSUME NEW m \in Nat
      PROVE  /\ Larger(SweepFloor, m) \in Nat /\ m <= Larger(SweepFloor, m)
             /\ \A l \in Nat : l * 2 <= m => l < Larger(SweepFloor, m)
             /\ \A l \in Nat : m <= l => Larger(SweepFloor, m) <= Larger(SweepFloor, l)
  BY <1>1 DEF Larger
<1> QED BY <1>1, <1>2, <1>3

\* A sweep leaves the attempts at a key or takes them all; it takes some that count
\* only in an eviction, and the next one comes before there is too much.
LEMMA SweepDoes ==
  ASSUME sweepAt \in Nat, sweepAt <= Larger(SweepFloor, 2 * MaxKeys), evicted \in Nat,
         NEW S, NEW map \in [Keys -> S], <<>> \in S, Sweep(map)
  PROVE  /\ attempts' \in [Keys -> S] /\ sweepAt' \in Nat /\ evicted' \in Nat
         /\ \A k \in Keys : attempts'[k] = map[k] \/ attempts'[k] = <<>>
         /\ evicted' = 0 => /\ evicted = 0
                            /\ \A k \in Keys : \/ attempts'[k] = map[k]
                                               \/ /\ map[k] # <<>> /\ Last(map[k]) <= Edge
                                                  /\ attempts'[k] = <<>>
         /\ Size(attempts') < sweepAt' /\ sweepAt' <= Larger(SweepFloor, 2 * MaxKeys)
<1> DEFINE left == Unexpired(map)
<1>1. /\ left \in [Keys -> S]
      /\ \A k \in Keys : left[k] = map[k] \/ (map[k] # <<>> /\ Last(map[k]) <= Edge /\ left[k] = <<>>)
  BY DEF Unexpired, Edge
<1>2. CASE Size(map) < sweepAt /\ attempts' = map /\ UNCHANGED <<sweepAt, evicted>>
  BY <1>2
<1>3. CASE /\ Size(map) >= sweepAt /\ Size(left) <= MaxKeys
           /\ attempts' = left
           /\ sweepAt' = Larger(SweepFloor, Size(left) * 2)
           /\ UNCHANGED evicted
  <2> HIDE DEF left
  <2>1. Size(left) \in Nat /\ Size(left) * 2 \in Nat /\ 2 * MaxKeys \in Nat /\ Size(left) * 2 <= 2 * MaxKeys
    <3>1. Size(left) \in Nat /\ MaxKeys \in Nat /\ Size(left) <= MaxKeys
      BY <1>3, FiniteKeys, RateLimitsAssumption
    <3> QED BY <3>1
  <2>2. sweepAt' \in Nat /\ Size(left) < sweepAt' /\ sweepAt' <= Larger(SweepFloor, 2 * MaxKeys)
    BY <1>3, <2>1, Sizes
  <2>3. Size(attempts') < sweepAt'
    BY <1>3, <2>2
  <2>4. attempts' \in [Keys -> S] /\ evicted' = evicted /\ \A k \in Keys : attempts'[k] = left[k]
    BY <1>1, <1>3
  <2>5. \A k \in Keys : \/ attempts'[k] = map[k]
                        \/ map[k] # <<>> /\ Last(map[k]) <= Edge /\ attempts'[k] = <<>>
    BY <1>1, <2>4
  <2> QED BY <2>2, <2>3, <2>4, <2>5
<1>4. CASE /\ Size(map) >= sweepAt /\ Size(left) > MaxKeys /\ evicted < MaxEvictions
           /\ \E drop \in Oldest(left, Size(left) - MaxKeys \div 2) :
                attempts' = [k \in Keys |-> IF k \in drop THEN <<>> ELSE left[k]]
           /\ sweepAt' = Larger(SweepFloor, (MaxKeys \div 2) * 2)
           /\ evicted' = evicted + 1
  <2> HIDE DEF left
  <2>1. PICK drop \in Oldest(left, Size(left) - MaxKeys \div 2) :
          attempts' = [k \in Keys |-> IF k \in drop THEN <<>> ELSE left[k]]
    BY <1>4
  <2>2. drop \subseteq Used(left) /\ Cardinality(drop) = Size(left) - MaxKeys \div 2
    BY DEF Oldest, Used
  <2> DEFINE after == [k \in Keys |-> IF k \in drop THEN <<>> ELSE left[k]]
  <2>3. Used(after) = Used(left) \ drop
    BY DEF Used
  <2>4. \A k \in Keys : (after[k] = map[k] \/ after[k] = <<>>) /\ after[k] \in S
    BY <1>1
  <2>5. after \in [Keys -> S]
    BY <2>4
  <2> HIDE DEF after
  <2>6. Size(after) = MaxKeys \div 2
    <3>1. IsFiniteSet(Used(left)) /\ Size(left) = Cardinality(Used(left)) /\ Size(left) \in Nat
      BY FiniteKeys
    <3>2. Cardinality(Used(left) \ drop) = Cardinality(Used(left)) - Cardinality(Used(left) \cap drop)
      BY <3>1, FS_Difference
    <3>3. Used(left) \cap drop = drop
      BY <2>2
    <3>4. Size(after) = Size(left) - (Size(left) - MaxKeys \div 2)
      BY <2>2, <2>3, <3>1, <3>2, <3>3, FiniteKeys
    <3> QED BY <3>1, <3>4, Sizes
  <2>7. (MaxKeys \div 2) * 2 \in Nat /\ 2 * MaxKeys \in Nat /\ (MaxKeys \div 2) * 2 <= 2 * MaxKeys
    BY Sizes
  <2>8. sweepAt' \in Nat /\ MaxKeys \div 2 < sweepAt' /\ sweepAt' <= Larger(SweepFloor, 2 * MaxKeys)
    BY <1>4, <2>7, Sizes
  <2>9. attempts' = after
    BY <2>1 DEF after
  <2>10. Size(attempts') < sweepAt'
    BY <2>6, <2>8, <2>9
  <2>11. evicted' \in Nat /\ evicted' # 0
    BY <1>4
  <2> QED BY <2>4, <2>5, <2>8, <2>9, <2>10, <2>11
<1> QED BY <1>2, <1>3, <1>4 DEF Sweep

-----------------------------------------------------------------------------
(* The login throttle.                                                     *)

LoginTyped ==
  /\ now \in Nat /\ sweepAt \in Nat /\ evicted \in Nat
  /\ attempts \in [Keys -> Moments(now)] /\ tried \in [Keys -> Moments(now)]

SmallMap == Size(attempts) < sweepAt /\ sweepAt <= Larger(SweepFloor, 2 * MaxKeys)

Counts(s, x) == s # <<>> /\ Last(s) > x

\* An attempt that counts was let through: the last one at its key.
Recorded == \A k \in Keys : Counts(attempts[k], Edge) => tried[k] # <<>> /\ Last(tried[k]) = Last(attempts[k])

\* Nothing that counts was forgotten.
Complete == \A k \in Keys : Later(attempts[k], Edge) = Later(tried[k], Edge)

OfAccount(map, a) == [ip \in Ips |-> map[<<a, ip>>]]

Shares ==
  \A a \in Accounts :
    /\ \A ip \in Ips : Len(Later(tried[<<a, ip>>], Edge)) <= PairLimit
    /\ \E who : Spread(who, tried[a], OfAccount(tried, a), Edge)

LoginInv == LoginTyped /\ SmallMap /\ Recorded /\ (evicted = 0 => Complete /\ Shares)

\* What recent leaves, with one attempt more.
LEMMA Pushed ==
  ASSUME NEW n \in Nat, NEW s \in Moments(n), NEW x \in Int, x < n
  PROVE  /\ Append(Later(s, x), n) \in Moments(n) /\ Append(Later(s, x), n) # <<>>
         /\ Last(Append(Later(s, x), n)) = n
         /\ Len(Append(Later(s, x), n)) = Len(Later(s, x)) + 1
         /\ Later(Append(Later(s, x), n), x) = Append(Later(s, x), n)
<1> DEFINE t == Later(s, x)
<1>1. t \in Moments(n) /\ Later(t, x) = t
  <2>1. Later(s, x) \in Moments(n)
    BY LaterFacts
  <2>2. Later(Later(s, x), x) = Later(s, x)
    BY LaterAgain
  <2> QED BY <2>1, <2>2
<1> HIDE DEF t
<1>2. /\ Append(t, n) \in Moments(n) /\ Append(t, n) # <<>> /\ Last(Append(t, n)) = n
      /\ Len(Append(t, n)) = Len(t) + 1 /\ \A y \in Int : y < n => Later(Append(t, n), y) = Append(Later(t, y), n)
  <2>1. n <= n
    OBVIOUS
  <2> QED BY <1>1, <2>1, LaterAppend
<1>3. Later(Append(t, n), x) = Append(t, n)
  BY <1>1, <1>2
<1> QED BY <1>2, <1>3 DEF t

\* The keys of an account and of an address at it are apart from each other and from all others.
LEMMA KeysApart ==
  ASSUME NEW a \in Accounts, NEW ip \in Ips
  PROVE  /\ a \in Keys /\ <<a, ip>> \in Keys /\ <<a, ip>> \in Pairs /\ a # <<a, ip>>
         /\ \A b \in Accounts : b # <<a, ip>> /\ \A jp \in Ips : b # <<a, jp>> /\ a # <<b, jp>>
<1>1. \A b, c \in Accounts, jp \in Ips : b # <<c, jp>>
  BY RateLimitsAssumption
<1>2. a \in Keys /\ <<a, ip>> \in Keys /\ <<a, ip>> \in Pairs
  BY DEF Keys, Pairs
<1> QED BY <1>1, <1>2

LEMMA Edges == ASSUME now \in Nat PROVE Edge \in Int /\ Edge < now
BY RateLimitsAssumption DEF Edge

LEMMA RecentIs == \A s : Recent(s) = Later(s, Edge)
BY DEF Recent, Later, Edge

LEMMA TriedKeeps ==
  ASSUME LoginInv, NEW a \in Accounts, NEW ip \in Ips, LoginTried(a, ip)
  PROVE  LoginInv'
<1> DEFINE p == <<a, ip>>
           x == Edge
           map == [attempts EXCEPT ![a] = Append(Recent(@), now), ![<<a, ip>>] = Append(Recent(@), now)]
<1>1. x \in Int /\ x < now /\ now' = now /\ Edge' = x /\ now \in Nat
  BY Edges DEF LoginInv, LoginTyped, LoginTried, Edge
<1>2. a \in Keys /\ p \in Keys /\ a # p
  BY KeysApart
<1>3. attempts \in [Keys -> Moments(now)] /\ tried \in [Keys -> Moments(now)]
  BY DEF LoginInv, LoginTyped
<1> HIDE DEF x
<1>4. /\ DOMAIN map = Keys
      /\ map[a] = Append(Later(attempts[a], x), now) /\ map[p] = Append(Later(attempts[p], x), now)
      /\ \A k \in Keys \ {a, p} : map[k] = attempts[k]
  <2> HIDE <1>1
  <2> QED BY <1>2, <1>3, RecentIs DEF x
<1>5. /\ DOMAIN tried' = Keys
      /\ tried'[a] = Append(Later(tried[a], x), now) /\ tried'[p] = Append(Later(tried[p], x), now)
      /\ \A k \in Keys \ {a, p} : tried'[k] = tried[k]
  <2>1. tried' = [tried EXCEPT ![a] = Append(Recent(@), now), ![<<a, ip>>] = Append(Recent(@), now)]
    BY DEF LoginTried
  <2> HIDE <1>1
  <2> QED BY <1>2, <1>3, <2>1, RecentIs DEF x
<1>6. Sweep(map) /\ ~Blocked(a, ip)
  BY DEF LoginTried
<1> HIDE DEF map, p
<1>7. ASSUME NEW k \in {a, p}
      PROVE  /\ k \in Keys /\ map[k] = Append(Later(attempts[k], x), now) /\ tried'[k] = Append(Later(tried[k], x), now)
             /\ map[k] \in Moments(now) /\ map[k] # <<>> /\ Last(map[k]) = now /\ Later(map[k], x) = map[k]
             /\ tried'[k] \in Moments(now) /\ tried'[k] # <<>> /\ Last(tried'[k]) = now /\ Later(tried'[k], x) = tried'[k]
             /\ Len(tried'[k]) = Len(Later(tried[k], x)) + 1
  <2>1. /\ k \in Keys /\ map[k] = Append(Later(attempts[k], x), now) /\ tried'[k] = Append(Later(tried[k], x), now)
        /\ attempts[k] \in Moments(now) /\ tried[k] \in Moments(now)
    BY <1>2, <1>3, <1>4, <1>5
  <2>2. map[k] \in Moments(now) /\ map[k] # <<>> /\ Last(map[k]) = now /\ Later(map[k], x) = map[k]
    <3>1. PICK s \in Moments(now) : s = attempts[k]
      BY <2>1
    <3>2. /\ Append(Later(s, x), now) \in Moments(now) /\ Append(Later(s, x), now) # <<>>
          /\ Last(Append(Later(s, x), now)) = now
          /\ Len(Append(Later(s, x), now)) = Len(Later(s, x)) + 1
          /\ Later(Append(Later(s, x), now), x) = Append(Later(s, x), now)
      BY <1>1, Pushed
    <3> QED BY <2>1, <3>1, <3>2
  <2>3. /\ tried'[k] \in Moments(now) /\ tried'[k] # <<>> /\ Last(tried'[k]) = now /\ Later(tried'[k], x) = tried'[k]
        /\ Len(tried'[k]) = Len(Later(tried[k], x)) + 1
    <3>1. PICK s \in Moments(now) : s = tried[k]
      BY <2>1
    <3>2. /\ Append(Later(s, x), now) \in Moments(now) /\ Append(Later(s, x), now) # <<>>
          /\ Last(Append(Later(s, x), now)) = now
          /\ Len(Append(Later(s, x), now)) = Len(Later(s, x)) + 1
          /\ Later(Append(Later(s, x), now), x) = Append(Later(s, x), now)
      BY <1>1, Pushed
    <3> QED BY <2>1, <3>1, <3>2
  <2> QED BY <2>1, <2>2, <2>3
<1>8. map \in [Keys -> Moments(now)] /\ tried' \in [Keys -> Moments(now)]
  <2>1. map = [k \in Keys |-> map[k]] /\ tried' = [k \in Keys |-> tried'[k]]
    <3>1. map = [k \in DOMAIN map |-> map[k]]
      BY DEF map
    <3>2. tried' = [k \in DOMAIN tried' |-> tried'[k]]
      BY DEF LoginTried
    <3> QED BY <1>4, <1>5, <3>1, <3>2
  <2>2. \A k \in Keys : map[k] \in Moments(now) /\ tried'[k] \in Moments(now)
    BY <1>3, <1>4, <1>5, <1>7
  <2> QED BY <2>1, <2>2
<1>9. /\ attempts' \in [Keys -> Moments(now)] /\ sweepAt' \in Nat /\ evicted' \in Nat
      /\ \A k \in Keys : attempts'[k] = map[k] \/ attempts'[k] = <<>>
      /\ evicted' = 0 => /\ evicted = 0
                         /\ \A k \in Keys : \/ attempts'[k] = map[k]
                                            \/ map[k] # <<>> /\ Last(map[k]) <= x /\ attempts'[k] = <<>>
      /\ Size(attempts') < sweepAt' /\ sweepAt' <= Larger(SweepFloor, 2 * MaxKeys)
  <2>1. sweepAt \in Nat /\ evicted \in Nat /\ sweepAt <= Larger(SweepFloor, 2 * MaxKeys)
    BY DEF LoginInv, LoginTyped, SmallMap
  <2>2. <<>> \in Moments(now)
    BY <1>1, NoMoments
  <2> QED BY <1>6, <1>8, <2>1, <2>2, SweepDoes DEF x
<1>10. LoginTyped'
  BY <1>1, <1>8, <1>9 DEF LoginTyped
<1>11. SmallMap'
  BY <1>9 DEF SmallMap
<1>12. Recorded'
  <2> SUFFICES ASSUME NEW k \in Keys, attempts'[k] # <<>>, Last(attempts'[k]) > x
               PROVE  tried'[k] # <<>> /\ Last(tried'[k]) = Last(attempts'[k])
    BY <1>1 DEF Recorded, Counts
  <2>1. attempts'[k] = map[k]
    BY <1>9
  <2>2. CASE k \in {a, p}
    BY <1>7, <2>1, <2>2
  <2>3. CASE k \notin {a, p}
    <3>1. attempts'[k] = attempts[k] /\ tried'[k] = tried[k]
      BY <1>4, <1>5, <2>1, <2>3
    <3> QED BY <3>1 DEF LoginInv, Recorded, Counts, x
  <2> QED BY <2>2, <2>3
<1>13. ASSUME evicted' = 0 PROVE Complete'
  <2> SUFFICES ASSUME NEW k \in Keys PROVE Later(attempts'[k], x) = Later(tried'[k], x)
    BY <1>1 DEF Complete
  <2>1. Later(attempts[k], x) = Later(tried[k], x)
    BY <1>9, <1>13 DEF LoginInv, Complete, x
  <2>2. Later(map[k], x) = Later(tried'[k], x)
    <3>1. CASE k \in {a, p}
      BY <1>7, <2>1, <3>1
    <3>2. CASE k \notin {a, p}
      BY <1>4, <1>5, <2>1, <3>2
    <3> QED BY <3>1, <3>2
  <2>3. CASE attempts'[k] = map[k]
    BY <2>2, <2>3
  <2>4. CASE map[k] # <<>> /\ Last(map[k]) <= x /\ attempts'[k] = <<>>
    <3>1. map[k] \in Moments(now) /\ ~(Last(map[k]) > x)
      <4>1. map[k] \in Moments(now) /\ Last(map[k]) \in Nat
        BY <1>8, <2>4 DEF Moments, Last
      <4> QED BY <1>1, <2>4, <4>1
    <3>2. Later(map[k], x) = <<>>
      BY <1>1, <3>1, LaterFacts
    <3>3. Later(<<>>, x) = <<>>
      BY <1>1, NoMoments
    <3> QED BY <2>2, <2>4, <3>2, <3>3
  <2> QED BY <1>9, <1>13, <2>3, <2>4
<1>14. ASSUME evicted' = 0 PROVE Shares'
  <2>1. Complete /\ Shares
    BY <1>9, <1>14 DEF LoginInv
  <2>2. Len(Later(attempts[p], x)) < PairLimit /\ (Len(Later(attempts[a], x)) < AccountLimit \/ Len(Later(attempts[p], x)) < 1)
    <3>1. ~(Hits(p) >= PairLimit) /\ ~(Hits(a) >= AccountLimit /\ Hits(p) >= 1)
      BY <1>6 DEF Blocked, p
    <3>2. Hits(p) = Len(Later(attempts[p], x)) /\ Hits(a) = Len(Later(attempts[a], x))
      BY RecentIs DEF Hits, x
    <3>3. Len(Later(attempts[p], x)) \in Nat /\ Len(Later(attempts[a], x)) \in Nat
      BY <1>1, <1>2, <1>3, LaterFacts, ListOf
    <3>4. PairLimit \in Nat /\ AccountLimit \in Nat
      BY RateLimitsAssumption
    <3> QED BY <3>1, <3>2, <3>3, <3>4
  <2>3. Later(attempts[p], x) = Later(tried[p], x) /\ Later(attempts[a], x) = Later(tried[a], x)
    BY <1>2, <2>1 DEF Complete, x
  <2>4. ASSUME NEW b \in Accounts, NEW jp \in Ips PROVE Len(Later(tried'[<<b, jp>>], x)) <= PairLimit
    <3>1. <<b, jp>> \in Keys /\ <<b, jp>> # a
      BY KeysApart
    <3>2. CASE <<b, jp>> = p
      <4>1. Len(Later(tried'[p], x)) = Len(Later(tried[p], x)) + 1
        BY <1>7
      <4>2. Len(Later(tried[p], x)) \in Nat /\ PairLimit \in Nat
        BY <1>1, <1>2, <1>3, LaterFacts, ListOf, RateLimitsAssumption
      <4> QED BY <2>2, <2>3, <3>2, <4>1, <4>2
    <3>3. CASE <<b, jp>> # p
      <4>1. tried'[<<b, jp>>] = tried[<<b, jp>>]
        BY <1>5, <3>1, <3>3
      <4> QED BY <2>1, <4>1 DEF Shares, x
    <3> QED BY <3>2, <3>3
  <2>5. ASSUME NEW b \in Accounts, b # a PROVE \E who : Spread(who, tried'[b], OfAccount(tried', b), x)
    <3>1. b \in Keys /\ b # p
      BY KeysApart DEF p
    <3>2. \A jp \in Ips : <<b, jp>> \in Keys /\ <<b, jp>> # a /\ <<b, jp>> # p
      BY <2>5, KeysApart DEF p
    <3>3. tried'[b] = tried[b] /\ \A jp \in Ips : tried'[<<b, jp>>] = tried[<<b, jp>>]
      BY <1>5, <2>5, <3>1, <3>2
    <3>4. OfAccount(tried', b) = OfAccount(tried, b)
      BY <3>3 DEF OfAccount
    <3> QED BY <2>1, <3>3, <3>4 DEF Shares, x
  <2>6. \E who : Spread(who, tried'[a], OfAccount(tried', a), x)
    <3> DEFINE by == OfAccount(tried, a)
               next == OfAccount(tried', a)
    <3>1. PICK who : Spread(who, tried[a], by, x)
      BY <2>1 DEF Shares, x
    <3>2. next[ip] = tried'[p] /\ by[ip] = tried[p]
      BY DEF OfAccount, p
    <3>3. \A other \in Ips : other # ip => next[other] = by[other]
      <4> SUFFICES ASSUME NEW other \in Ips, other # ip PROVE tried'[<<a, other>>] = tried[<<a, other>>]
        BY DEF OfAccount
      <4>1. <<a, other>> \in Keys /\ <<a, other>> # a /\ <<a, other>> # p
        BY KeysApart DEF p
      <4> QED BY <1>5, <4>1
    <3>4. \A other \in Ips : by[other] # <<>> => Last(by[other]) \in Nat
      <4> SUFFICES ASSUME NEW other \in Ips, tried[<<a, other>>] # <<>> PROVE Last(tried[<<a, other>>]) \in Nat
        BY DEF OfAccount
      <4>1. <<a, other>> \in Keys
        BY KeysApart
      <4>2. tried[<<a, other>>] \in Seq(Nat)
        BY <1>3, <4>1 DEF Moments
      <4> QED BY <4>2 DEF Last
    <3>5. Len(Later(tried[a], x)) > AccountLimit => ~(by[ip] # <<>> /\ Last(by[ip]) > x)
      <4> SUFFICES ASSUME Len(Later(tried[a], x)) > AccountLimit, tried[p] # <<>>, Last(tried[p]) > x PROVE FALSE
        BY <3>2
      <4>1. Len(Later(tried[a], x)) \in Nat /\ Len(Later(tried[p], x)) \in Nat /\ Later(tried[p], x) # <<>>
        BY <1>1, <1>2, <1>3, LaterFacts, ListOf
      <4>2. Len(Later(tried[p], x)) >= 1
        BY <1>1, <1>2, <1>3, <4>1, LaterFacts, ListEmpty, ListOf
      <4>3. AccountLimit \in Nat
        BY RateLimitsAssumption
      <4> QED BY <2>2, <2>3, <4>1, <4>2, <4>3
    <3>6. next[ip] # <<>> /\ Last(next[ip]) = now
      BY <1>7, <3>2
    <3>7. tried[a] \in Moments(now)
      BY <1>2, <1>3
    <3> HIDE DEF by, next
    <3>8. \E grown : Spread(grown, Append(Later(tried[a], x), now), next, x)
      BY <1>1, <3>1, <3>3, <3>4, <3>5, <3>6, <3>7, SpreadGrows
    <3> QED BY <1>5, <3>8 DEF next
  <2> QED BY <1>1, <2>4, <2>5, <2>6 DEF Shares
<1> QED BY <1>10, <1>11, <1>12, <1>13, <1>14 DEF LoginInv

\* A refusal only drops what has left the window.
LEMMA RefusedKeeps ==
  ASSUME LoginInv, NEW a \in Accounts, NEW ip \in Ips, LoginRefused(a, ip)
  PROVE  LoginInv'
<1> DEFINE p == <<a, ip>>
           x == Edge
<1>1. x \in Int /\ now \in Nat /\ now' = now /\ Edge' = x
  BY Edges DEF LoginInv, LoginTyped, LoginRefused, Edge
<1>2. a \in Keys /\ p \in Keys /\ a # p
  BY KeysApart
<1>3. attempts \in [Keys -> Moments(now)] /\ tried \in [Keys -> Moments(now)]
  BY DEF LoginInv, LoginTyped
<1>4. UNCHANGED <<sweepAt, tried, evicted>>
  BY DEF LoginRefused
<1> HIDE DEF x
<1>5. DOMAIN attempts' = Keys /\ \A k \in Keys : attempts'[k] = attempts[k] \/ attempts'[k] = Later(attempts[k], x)
  <2>1. attempts' = [attempts EXCEPT ![a] = Recent(@), ![<<a, ip>>] = Recent(@)]
    BY DEF LoginRefused
  <2> HIDE <1>1
  <2> QED BY <1>2, <1>3, <2>1, RecentIs DEF x
<1>6. ASSUME NEW k \in Keys
      PROVE  /\ attempts'[k] \in Moments(now) /\ Later(attempts'[k], x) = Later(attempts[k], x)
             /\ attempts'[k] # <<>> => attempts[k] # <<>> /\ Last(attempts'[k]) = Last(attempts[k])
  <2>1. attempts[k] \in Moments(now)
    BY <1>3
  <2>2. /\ Later(attempts[k], x) \in Moments(now) /\ Later(Later(attempts[k], x), x) = Later(attempts[k], x)
        /\ Later(attempts[k], x) # <<>> => attempts[k] # <<>> /\ Last(Later(attempts[k], x)) = Last(attempts[k])
    BY <1>1, <2>1, LaterFacts, LaterAgain
  <2> QED BY <1>5, <2>1, <2>2
<1>7. attempts' \in [Keys -> Moments(now)]
  <2>1. attempts' = [k \in DOMAIN attempts' |-> attempts'[k]]
    BY DEF LoginRefused
  <2> QED BY <1>5, <1>6, <2>1
<1>8. LoginTyped'
  BY <1>1, <1>3, <1>4, <1>7 DEF LoginInv, LoginTyped
<1>9. SmallMap'
  <2>1. Used(attempts') \subseteq Used(attempts)
    BY <1>6 DEF Used
  <2>2. Size(attempts') <= Size(attempts) /\ Size(attempts') \in Nat /\ Size(attempts) \in Nat
    BY <2>1, FiniteKeys
  <2>3. Size(attempts) < sweepAt /\ sweepAt \in Nat /\ sweepAt <= Larger(SweepFloor, 2 * MaxKeys) /\ sweepAt' = sweepAt
    BY <1>4 DEF LoginInv, LoginTyped, SmallMap
  <2>4. Size(attempts') < sweepAt'
    BY <2>2, <2>3
  <2> QED BY <2>3, <2>4 DEF SmallMap
<1>10. Recorded'
  <2> SUFFICES ASSUME NEW k \in Keys, attempts'[k] # <<>>, Last(attempts'[k]) > x
               PROVE  tried[k] # <<>> /\ Last(tried[k]) = Last(attempts'[k])
    BY <1>1, <1>4 DEF Recorded, Counts
  <2> QED BY <1>6 DEF LoginInv, Recorded, Counts, x
<1>11. ASSUME evicted' = 0 PROVE Complete' /\ Shares'
  <2>1. Complete /\ Shares
    BY <1>4, <1>11 DEF LoginInv
  <2>2. Complete'
    <3> SUFFICES ASSUME NEW k \in Keys PROVE Later(attempts'[k], x) = Later(tried[k], x)
      BY <1>1, <1>4 DEF Complete
    <3> QED BY <1>6, <2>1 DEF Complete, x
  <2>3. Shares'
    BY <1>1, <1>4, <2>1 DEF Shares, x, OfAccount
  <2> QED BY <2>2, <2>3
<1> QED BY <1>8, <1>9, <1>10, <1>11 DEF LoginInv

\* A list of no attempts is spread whatever the addresses did.
LEMMA SpreadNothing == \A by, x : Spread(<<>>, <<>>, by, x)
BY DEF Spread

LEMMA SucceededKeeps ==
  ASSUME LoginInv, NEW a \in Accounts, NEW ip \in Ips, LoginSucceeded(a, ip)
  PROVE  LoginInv'
<1> DEFINE p == <<a, ip>>
           x == Edge
<1>1. x \in Int /\ now \in Nat /\ now' = now /\ Edge' = x
  BY Edges DEF LoginInv, LoginTyped, LoginSucceeded, Edge
<1>2. a \in Keys /\ p \in Keys /\ a # p
  BY KeysApart
<1>3. attempts \in [Keys -> Moments(now)] /\ tried \in [Keys -> Moments(now)]
  BY DEF LoginInv, LoginTyped
<1>4. UNCHANGED <<sweepAt, evicted>>
  BY DEF LoginSucceeded
<1>5. <<>> \in Moments(now) /\ Later(<<>>, x) = <<>>
  BY <1>1, NoMoments
<1> HIDE DEF x
<1>6. /\ attempts' \in [Keys -> Moments(now)] /\ tried' \in [Keys -> Moments(now)]
      /\ attempts'[a] = <<>> /\ attempts'[p] = <<>> /\ tried'[a] = <<>> /\ tried'[p] = <<>>
      /\ \A k \in Keys \ {a, p} : attempts'[k] = attempts[k] /\ tried'[k] = tried[k]
  <2>1. /\ attempts' = [attempts EXCEPT ![a] = <<>>, ![p] = <<>>]
        /\ tried' = [tried EXCEPT ![a] = <<>>, ![p] = <<>>]
    BY DEF LoginSucceeded
  <2> HIDE DEF p
  <2> QED BY <1>2, <1>3, <1>5, <2>1
<1>7. LoginTyped'
  BY <1>1, <1>4, <1>6 DEF LoginInv, LoginTyped
<1> HIDE DEF p
<1>8. SmallMap'
  <2>1. Used(attempts') \subseteq Used(attempts)
    BY <1>6 DEF Used
  <2>2. Size(attempts') <= Size(attempts) /\ Size(attempts') \in Nat /\ Size(attempts) \in Nat
    BY <2>1, FiniteKeys
  <2>3. Size(attempts) < sweepAt /\ sweepAt \in Nat /\ sweepAt <= Larger(SweepFloor, 2 * MaxKeys) /\ sweepAt' = sweepAt
    BY <1>4 DEF LoginInv, LoginTyped, SmallMap
  <2>4. Size(attempts') < sweepAt'
    BY <2>2, <2>3
  <2> QED BY <2>3, <2>4 DEF SmallMap
<1>9. Recorded'
  <2> SUFFICES ASSUME NEW k \in Keys, attempts'[k] # <<>>, Last(attempts'[k]) > x
               PROVE  tried'[k] # <<>> /\ Last(tried'[k]) = Last(attempts'[k])
    BY <1>1 DEF Recorded, Counts
  <2>1. attempts'[k] = attempts[k] /\ tried'[k] = tried[k]
    BY <1>6
  <2> QED BY <2>1 DEF LoginInv, Recorded, Counts, x
<1>10. ASSUME evicted' = 0 PROVE Complete' /\ Shares'
  <2>1. Complete /\ Shares
    BY <1>4, <1>10 DEF LoginInv
  <2>2. Complete'
    <3> SUFFICES ASSUME NEW k \in Keys PROVE Later(attempts'[k], x) = Later(tried'[k], x)
      BY <1>1 DEF Complete
    <3>1. CASE k \in {a, p}
      BY <1>6, <3>1
    <3>2. CASE k \notin {a, p}
      BY <1>6, <2>1, <3>2 DEF Complete, x
    <3> QED BY <3>1, <3>2
  <2>3. ASSUME NEW b \in Accounts, NEW jp \in Ips PROVE Len(Later(tried'[<<b, jp>>], x)) <= PairLimit
    <3>1. <<b, jp>> \in Keys
      BY KeysApart
    <3>2. CASE <<b, jp>> \in {a, p}
      <4>1. Later(tried'[<<b, jp>>], x) = <<>>
        BY <1>5, <1>6, <3>2
      <4>2. PairLimit >= 0
        BY RateLimitsAssumption
      <4> QED BY <4>1, <4>2
    <3>3. CASE <<b, jp>> \notin {a, p}
      <4>1. tried'[<<b, jp>>] = tried[<<b, jp>>]
        BY <1>6, <3>1, <3>3
      <4> QED BY <2>1, <4>1 DEF Shares, x
    <3> QED BY <3>2, <3>3
  <2>4. ASSUME NEW b \in Accounts PROVE \E who : Spread(who, tried'[b], OfAccount(tried', b), x)
    <3>1. CASE b = a
      BY <1>6, <3>1, SpreadNothing
    <3>2. CASE b # a
      <4>1. b \in Keys /\ b # p /\ \A jp \in Ips : <<b, jp>> \in Keys /\ <<b, jp>> # a /\ <<b, jp>> # p
        BY <3>2, KeysApart DEF p
      <4>2. tried'[b] = tried[b] /\ \A jp \in Ips : tried'[<<b, jp>>] = tried[<<b, jp>>]
        BY <1>6, <3>2, <4>1
      <4>3. OfAccount(tried', b) = OfAccount(tried, b)
        BY <4>2 DEF OfAccount
      <4> QED BY <2>1, <4>2, <4>3 DEF Shares, x
    <3> QED BY <3>1, <3>2
  <2>5. Shares'
    BY <1>1, <2>3, <2>4 DEF Shares
  <2> QED BY <2>2, <2>5
<1> QED BY <1>7, <1>8, <1>9, <1>10 DEF LoginInv

LEMMA TimeKeepsLogins ==
  ASSUME LoginInv, TimePasses
  PROVE  LoginInv'
<1> DEFINE x == Edge
           y == Edge'
           n == now
<1>1. x \in Int /\ y \in Int /\ x <= y /\ n \in Nat /\ n <= n + 1 /\ n + 1 \in Nat /\ now' = n + 1
  BY RateLimitsAssumption DEF LoginInv, LoginTyped, TimePasses, Tick, Edge
<1>2. UNCHANGED <<attempts, sweepAt, tried, evicted>>
  BY DEF TimePasses, loginVars
<1>3. attempts \in [Keys -> Moments(n)] /\ tried \in [Keys -> Moments(n)]
  BY DEF LoginInv, LoginTyped
<1> HIDE DEF x, y, n
<1>4. Moments(n) \subseteq Moments(n + 1)
  BY <1>1, NoMoments
<1>5. LoginTyped'
  <2>1. attempts \in [Keys -> Moments(n + 1)] /\ tried \in [Keys -> Moments(n + 1)]
    BY <1>3, <1>4
  <2> QED BY <1>1, <1>2, <2>1 DEF LoginInv, LoginTyped
<1>6. SmallMap'
  BY <1>2 DEF LoginInv, SmallMap, Size
<1>7. Recorded'
  <2> SUFFICES ASSUME NEW k \in Keys, attempts[k] # <<>>, Last(attempts[k]) > y
               PROVE  tried[k] # <<>> /\ Last(tried[k]) = Last(attempts[k])
    BY <1>2 DEF Recorded, Counts, y
  <2>1. Last(attempts[k]) \in Nat
    BY <1>3 DEF Moments, Last
  <2>2. Last(attempts[k]) > x
    BY <1>1, <2>1
  <2> QED BY <2>2 DEF LoginInv, Recorded, Counts, x
<1>8. ASSUME evicted' = 0 PROVE Complete' /\ Shares'
  <2>1. Complete /\ Shares
    BY <1>2, <1>8 DEF LoginInv
  <2>2. Complete'
    <3> SUFFICES ASSUME NEW k \in Keys PROVE Later(attempts[k], y) = Later(tried[k], y)
      BY <1>2 DEF Complete, y
    <3>1. Later(attempts[k], x) = Later(tried[k], x)
      BY <2>1 DEF Complete, x
    <3>2. Later(Later(attempts[k], x), y) = Later(attempts[k], y) /\ Later(Later(tried[k], x), y) = Later(tried[k], y)
      BY <1>1, <1>3, LaterAgain
    <3> QED BY <3>1, <3>2
  <2>3. ASSUME NEW b \in Accounts, NEW jp \in Ips PROVE Len(Later(tried[<<b, jp>>], y)) <= PairLimit
    <3>1. <<b, jp>> \in Keys
      BY KeysApart
    <3>2. tried[<<b, jp>>] \in Moments(n)
      BY <1>3, <3>1
    <3>3. Len(Later(tried[<<b, jp>>], x)) <= PairLimit
      BY <2>1 DEF Shares, x
    <3>4. /\ Len(Later(tried[<<b, jp>>], y)) <= Len(Later(tried[<<b, jp>>], x))
          /\ Len(Later(tried[<<b, jp>>], y)) \in Nat /\ Len(Later(tried[<<b, jp>>], x)) \in Nat
      BY <1>1, <3>2, LaterAgain, LaterFacts, ListOf
    <3>5. PairLimit \in Nat
      BY RateLimitsAssumption
    <3> QED BY <3>3, <3>4, <3>5
  <2>4. ASSUME NEW b \in Accounts PROVE \E who : Spread(who, tried[b], OfAccount(tried, b), y)
    <3>1. PICK who : Spread(who, tried[b], OfAccount(tried, b), x)
      BY <2>1 DEF Shares, x
    <3>2. tried[b] \in Moments(n)
      BY <1>3, KeysApart DEF Keys
    <3>3. Spread(who, tried[b], OfAccount(tried, b), y)
      BY <1>1, <3>1, <3>2, SpreadLasts
    <3> QED BY <3>3
  <2>5. Shares'
    BY <1>2, <2>3, <2>4 DEF Shares, OfAccount, y
  <2> QED BY <2>2, <2>5
<1> QED BY <1>5, <1>6, <1>7, <1>8 DEF LoginInv

\* A key whose recent attempts are some has a recorded one that counts.
LEMMA LoginsHold ==
  ASSUME LoginInv
  PROVE  LoginWithinLimits /\ StrangerMayTry /\ KeysBounded
<1> DEFINE x == Edge
<1>1. x \in Int /\ now \in Nat
  BY Edges DEF LoginInv, LoginTyped
<1>2. attempts \in [Keys -> Moments(now)] /\ tried \in [Keys -> Moments(now)]
  BY DEF LoginInv, LoginTyped
<1>3. LoginWithinLimits
  <2> SUFFICES ASSUME ~(evicted > 0), NEW a \in Accounts
               PROVE  /\ Len(Later(tried[a], x)) <= AccountLimit + Cardinality(Ips)
                      /\ \A ip \in Ips : Len(Later(tried[<<a, ip>>], x)) <= PairLimit
    BY RecentIs DEF LoginWithinLimits
  <2>1. Shares
    <3>1. evicted = 0
      BY DEF LoginInv, LoginTyped
    <3> QED BY <3>1 DEF LoginInv
  <2>2. PICK who : Spread(who, tried[a], OfAccount(tried, a), x)
    BY <2>1 DEF Shares
  <2>3. tried[a] \in Moments(now)
    BY <1>2 DEF Keys
  <2> HIDE DEF x
  <2>4. Len(Later(tried[a], x)) <= AccountLimit + Cardinality(Ips)
    BY <1>1, <2>2, <2>3, SpreadBounds
  <2> QED BY <2>1, <2>4 DEF Shares, x
<1>4. StrangerMayTry
  <2> SUFFICES ASSUME NEW a \in Accounts, NEW ip \in Ips, Blocked(a, ip)
               PROVE  Later(tried[<<a, ip>>], x) # <<>>
    BY RecentIs DEF StrangerMayTry
  <2> DEFINE p == <<a, ip>>
  <2>1. p \in Keys /\ attempts[p] \in Moments(now) /\ tried[p] \in Moments(now)
    BY <1>2, KeysApart
  <2>2. Len(Later(attempts[p], x)) >= 1
    <3>1. Len(Later(attempts[p], x)) \in Nat /\ Later(attempts[p], x) \in Seq(Nat)
      BY <1>1, <2>1, LaterFacts, ListOf
    <3>2. Len(Later(attempts[p], x)) >= PairLimit \/ Len(Later(attempts[p], x)) >= 1
      BY RecentIs DEF Blocked, Hits
    <3>3. PairLimit \in Nat /\ PairLimit >= 1
      BY RateLimitsAssumption
    <3> QED BY <3>1, <3>2, <3>3
  <2> HIDE DEF p, x
  <2>3. Later(attempts[p], x) # <<>>
    BY <2>2
  <2>4. attempts[p] # <<>> /\ Last(attempts[p]) > x
    BY <1>1, <2>1, <2>3, LaterFacts
  <2>5. tried[p] # <<>> /\ Last(tried[p]) = Last(attempts[p])
    BY <2>1, <2>4 DEF LoginInv, Recorded, Counts, x
  <2>6. Later(tried[p], x) # <<>>
    BY <1>1, <2>1, <2>4, <2>5, LaterFacts
  <2> QED BY <2>6 DEF p
<1>5. KeysBounded
  <2>1. Size(attempts) < sweepAt /\ sweepAt \in Nat /\ sweepAt <= Larger(SweepFloor, 2 * MaxKeys)
    BY DEF LoginInv, LoginTyped, SmallMap
  <2>2. Size(attempts) \in Nat /\ Larger(SweepFloor, 2 * MaxKeys) \in Nat
    <3>1. MaxKeys \in Nat /\ 2 * MaxKeys \in Nat
      BY RateLimitsAssumption
    <3> QED BY <3>1, FiniteKeys, Sizes
  <2> QED BY <2>1, <2>2 DEF KeysBounded
<1> QED BY <1>3, <1>4, <1>5

-----------------------------------------------------------------------------
(* The calls of the provider.                                              *)

Promises == [at : Nat, by : {"nobody", "caller", "all"}]

\* A caller refused for its own calls comes back when its oldest leaves the window,
\* and one refused for everybody's no later than that.
PromiseKept(c) ==
  /\ promise[c].by = "caller" =>
       /\ provider[c] # <<>> /\ Len(provider[c]) = CallerLimit
       /\ promise[c].at = Head(provider[c]) + Window
  /\ promise[c].by = "all" /\ now < promise[c].at =>
       /\ total # <<>> /\ Len(total) >= GlobalLimit
       /\ promise[c].at <= Head(total) + Window

ProviderInv ==
  /\ now \in Nat /\ total \in Moments(now)
  /\ provider \in [Callers -> Moments(now)] /\ promise \in [Callers -> Promises]
  /\ \A c \in Callers : Len(provider[c]) <= CallerLimit /\ PromiseKept(c)

\* The time of a refusal is when the oldest call leaves the window.
LEMMA ComesBack ==
  ASSUME now \in Nat, NEW s \in Moments(now), s # <<>>, Head(s) > Edge
  PROVE  now + ComeBack(s) = Head(s) + Window /\ now + ComeBack(s) \in Nat
<1>1. Head(s) \in Nat /\ Window \in Nat
  BY RateLimitsAssumption DEF Moments
<1>2. Head(s) + Window - now >= 1
  BY <1>1 DEF Edge
<1>3. ComeBack(s) = Head(s) + Window - now
  BY <1>1, <1>2 DEF ComeBack, Larger
<1> QED BY <1>1, <1>3

LEMMA CallKeeps ==
  ASSUME ProviderInv, NEW c \in Callers, Called(c)
  PROVE  ProviderInv'
<1> DEFINE x == Edge
           own == Later(provider[c], x)
           all == Later(total, x)
<1>1. x \in Int /\ x < now /\ now \in Nat /\ now' = now
  BY Edges DEF ProviderInv, Called
<1>2. /\ total \in Moments(now) /\ provider \in [Callers -> Moments(now)] /\ promise \in [Callers -> Promises]
      /\ \A b \in Callers : Len(provider[b]) <= CallerLimit /\ PromiseKept(b)
  BY DEF ProviderInv
<1>3. CallerLimit \in Nat /\ CallerLimit >= 1 /\ GlobalLimit \in Nat /\ GlobalLimit >= 1 /\ Window \in Nat
  BY RateLimitsAssumption
<1>4. \/ /\ Len(own) < CallerLimit /\ Len(all) < GlobalLimit
         /\ provider' = [provider EXCEPT ![c] = Append(own, now)]
         /\ total' = Append(all, now)
         /\ promise' = [promise EXCEPT ![c] = NoPromise]
      \/ /\ Len(own) >= CallerLimit
         /\ provider' = [provider EXCEPT ![c] = own] /\ total' = all
         /\ promise' = [promise EXCEPT ![c] = [at |-> now + ComeBack(own), by |-> "caller"]]
      \/ /\ Len(own) < CallerLimit /\ Len(all) >= GlobalLimit
         /\ provider' = [provider EXCEPT ![c] = own] /\ total' = all
         /\ promise' = [promise EXCEPT ![c] = [at |-> now + ComeBack(all), by |-> "all"]]
  BY RecentIs DEF Called
<1> HIDE DEF x
<1>5. /\ own \in Moments(now) /\ Len(own) \in Nat /\ Len(own) <= Len(provider[c]) /\ Len(provider[c]) \in Nat
      /\ own # <<>> => Head(own) > x
  BY <1>1, <1>2, LaterFacts, ListOf DEF Moments
<1>6. /\ all \in Moments(now) /\ Len(all) \in Nat /\ (all # <<>> => Head(all) > x)
      /\ total # <<>> /\ Head(total) > x => all = total
  BY <1>1, <1>2, LaterFacts, ListOf
<1>7. \A b \in Callers : promise[b].by = "all" /\ now < promise[b].at =>
                           total # <<>> /\ Len(all) >= GlobalLimit /\ all = total
  <2> SUFFICES ASSUME NEW b \in Callers, promise[b].by = "all", now < promise[b].at
               PROVE  total # <<>> /\ Len(all) >= GlobalLimit /\ all = total
    OBVIOUS
  <2>1. total # <<>> /\ Len(total) >= GlobalLimit /\ promise[b].at <= Head(total) + Window
    BY <1>2 DEF PromiseKept
  <2>2. promise[b].at \in Int /\ Head(total) \in Nat
    BY <1>2, <2>1 DEF Promises, Moments
  <2>3. Head(total) > x
    BY <1>1, <1>3, <2>1, <2>2 DEF x, Edge
  <2> QED BY <1>6, <2>1, <2>3
<1>8. /\ Append(own, now) \in Moments(now) /\ Append(all, now) \in Moments(now)
      /\ Len(Append(own, now)) = Len(own) + 1
  <2>1. now <= now
    BY <1>1
  <2> HIDE DEF own, all
  <2> QED BY <1>1, <1>5, <1>6, <2>1, LaterAppend
<1> HIDE DEF own, all
<1>9. CASE /\ Len(own) < CallerLimit /\ Len(all) < GlobalLimit
           /\ provider' = [provider EXCEPT ![c] = Append(own, now)]
           /\ total' = Append(all, now)
           /\ promise' = [promise EXCEPT ![c] = NoPromise]
  <2>1. total' \in Moments(now') /\ provider' \in [Callers -> Moments(now')]
    BY <1>1, <1>2, <1>8, <1>9
  <2>2. promise' \in [Callers -> Promises]
    BY <1>2, <1>9 DEF Promises, NoPromise
  <2>3. Len(provider'[c]) <= CallerLimit
    BY <1>2, <1>3, <1>5, <1>8, <1>9
  <2>4. promise'[c].by = "nobody"
    BY <1>2, <1>9 DEF NoPromise
  <2>5. ASSUME NEW b \in Callers, b # c
        PROVE  Len(provider'[b]) <= CallerLimit /\ PromiseKept(b)'
    <3>1. provider'[b] = provider[b] /\ promise'[b] = promise[b]
      BY <1>2, <1>9, <2>5
    <3>2. ~(promise[b].by = "all" /\ now < promise[b].at)
      BY <1>3, <1>6, <1>7, <1>9
    <3> QED BY <1>1, <1>2, <3>1, <3>2 DEF PromiseKept
  <2>6. PromiseKept(c)'
    BY <2>4 DEF PromiseKept
  <2> QED BY <1>1, <2>1, <2>2, <2>3, <2>5, <2>6 DEF ProviderInv
<1>10. ASSUME provider' = [provider EXCEPT ![c] = own], total' = all
       PROVE  /\ total' \in Moments(now') /\ provider' \in [Callers -> Moments(now')]
              /\ \A b \in Callers : Len(provider'[b]) <= CallerLimit
              /\ \A b \in Callers : b # c /\ promise'[b] = promise[b] => PromiseKept(b)'
  <2>1. total' \in Moments(now') /\ provider' \in [Callers -> Moments(now')]
    BY <1>1, <1>2, <1>5, <1>6, <1>10
  <2>2. Len(provider'[c]) <= CallerLimit
    BY <1>2, <1>3, <1>5, <1>10
  <2>3. \A b \in Callers : b # c => provider'[b] = provider[b]
    BY <1>2, <1>10
  <2>4. ASSUME NEW b \in Callers, b # c, promise'[b] = promise[b] PROVE PromiseKept(b)'
    BY <1>1, <1>2, <1>7, <1>10, <2>3, <2>4 DEF PromiseKept
  <2> QED BY <1>2, <2>1, <2>2, <2>3, <2>4
<1>11. CASE /\ Len(own) >= CallerLimit
            /\ provider' = [provider EXCEPT ![c] = own] /\ total' = all
            /\ promise' = [promise EXCEPT ![c] = [at |-> now + ComeBack(own), by |-> "caller"]]
  <2>1. own # <<>> /\ Len(own) = CallerLimit
    BY <1>2, <1>3, <1>5, <1>11
  <2>2. now + ComeBack(own) = Head(own) + Window /\ now + ComeBack(own) \in Nat
    BY <1>1, <1>5, <2>1, ComesBack DEF x
  <2>3. promise' \in [Callers -> Promises]
    BY <1>2, <1>11, <2>2 DEF Promises
  <2>4. provider'[c] = own /\ promise'[c].by = "caller" /\ promise'[c].at = Head(own) + Window
    BY <1>2, <1>11, <2>2
  <2>5. PromiseKept(c)'
    BY <2>1, <2>4 DEF PromiseKept
  <2>6. \A b \in Callers : b # c => promise'[b] = promise[b]
    BY <1>2, <1>11
  <2> QED BY <1>1, <1>10, <1>11, <2>3, <2>5, <2>6 DEF ProviderInv
<1>12. CASE /\ Len(own) < CallerLimit /\ Len(all) >= GlobalLimit
            /\ provider' = [provider EXCEPT ![c] = own] /\ total' = all
            /\ promise' = [promise EXCEPT ![c] = [at |-> now + ComeBack(all), by |-> "all"]]
  <2>1. all # <<>>
    BY <1>3, <1>6, <1>12
  <2>2. now + ComeBack(all) = Head(all) + Window /\ now + ComeBack(all) \in Nat
    BY <1>1, <1>6, <2>1, ComesBack DEF x
  <2>3. promise' \in [Callers -> Promises]
    BY <1>2, <1>12, <2>2 DEF Promises
  <2>4. promise'[c].by = "all" /\ promise'[c].at = Head(all) + Window /\ Head(all) + Window \in Int
    BY <1>2, <1>12, <2>2
  <2>5. Head(all) + Window <= Head(all) + Window
    BY <2>4
  <2>6. PromiseKept(c)'
    BY <1>12, <2>1, <2>4, <2>5 DEF PromiseKept
  <2>7. \A b \in Callers : b # c => promise'[b] = promise[b]
    BY <1>2, <1>12
  <2> QED BY <1>1, <1>10, <1>12, <2>3, <2>6, <2>7 DEF ProviderInv
<1> QED BY <1>4, <1>9, <1>11, <1>12

LEMMA TimeKeepsPromises ==
  ASSUME ProviderInv, TimePasses
  PROVE  ProviderInv'
<1> DEFINE n == now
<1>1. n \in Nat /\ n + 1 \in Nat /\ now' = n + 1 /\ UNCHANGED <<provider, total, promise>>
  BY DEF ProviderInv, TimePasses, Tick, providerVars
<1>2. Moments(n) \subseteq Moments(n + 1)
  <2>1. n <= n + 1
    BY <1>1
  <2> HIDE DEF n
  <2> QED BY <1>1, <2>1, NoMoments
<1>3. total \in Moments(n + 1) /\ provider \in [Callers -> Moments(n + 1)]
  BY <1>2 DEF ProviderInv
<1>4. ASSUME NEW c \in Callers PROVE PromiseKept(c)'
  <2>1. promise[c].at \in Int
    BY DEF ProviderInv, Promises
  <2>2. now' < promise[c].at => now < promise[c].at
    BY <1>1, <2>1
  <2> QED BY <1>1, <2>2 DEF ProviderInv, PromiseKept
<1> QED BY <1>1, <1>3, <1>4 DEF ProviderInv

LEMMA PromisesHold == ASSUME ProviderInv PROVE PromiseExact
<1> SUFFICES ASSUME NEW c \in Callers
             PROVE  /\ promise[c].by = "caller" =>
                         (now >= promise[c].at <=> Len(Later(provider[c], Edge)) < CallerLimit)
                    /\ promise[c].by = "all" /\ now < promise[c].at => Len(Later(total, Edge)) >= GlobalLimit
  BY RecentIs DEF PromiseExact
<1> DEFINE x == Edge
<1>1. x \in Int /\ now \in Nat /\ x = now - Window /\ Window \in Nat /\ CallerLimit \in Nat
  BY Edges, RateLimitsAssumption DEF ProviderInv, Edge
<1> HIDE DEF x
<1>2. provider[c] \in Moments(now) /\ total \in Moments(now) /\ promise[c].at \in Int
  BY DEF ProviderInv, Promises
<1>3. ASSUME promise[c].by = "caller" PROVE now >= promise[c].at <=> Len(Later(provider[c], x)) < CallerLimit
  <2>1. provider[c] # <<>> /\ Len(provider[c]) = CallerLimit /\ promise[c].at = Head(provider[c]) + Window
    BY <1>3 DEF ProviderInv, PromiseKept
  <2>2. Head(provider[c]) \in Nat
    BY <1>2, <2>1 DEF Moments
  <2>3. CASE Head(provider[c]) > x
    <3>1. Later(provider[c], x) = provider[c]
      BY <1>1, <1>2, <2>1, <2>3, LaterFacts
    <3>2. ~(now >= promise[c].at)
      BY <1>1, <2>1, <2>2, <2>3
    <3>3. ~(Len(Later(provider[c], x)) < CallerLimit)
      BY <1>1, <2>1, <3>1
    <3> QED BY <3>2, <3>3
  <2>4. CASE Head(provider[c]) <= x
    <3>1. Len(Later(provider[c], x)) < CallerLimit
      BY <1>1, <1>2, <2>1, <2>4, LaterFacts
    <3>2. now >= promise[c].at
      BY <1>1, <2>1, <2>2, <2>4
    <3> QED BY <3>1, <3>2
  <2> QED BY <1>1, <2>2, <2>3, <2>4
<1>4. ASSUME promise[c].by = "all", now < promise[c].at PROVE Len(Later(total, x)) >= GlobalLimit
  <2>1. total # <<>> /\ Len(total) >= GlobalLimit /\ promise[c].at <= Head(total) + Window
    BY <1>4 DEF ProviderInv, PromiseKept
  <2>2. Head(total) \in Nat
    BY <1>2, <2>1 DEF Moments
  <2>3. Head(total) > x
    BY <1>1, <1>2, <1>4, <2>1, <2>2
  <2>4. Later(total, x) = total
    BY <1>1, <1>2, <2>1, <2>3, LaterFacts
  <2> QED BY <2>1, <2>4
<1> QED BY <1>3, <1>4 DEF x

-----------------------------------------------------------------------------
(* The events of a socket, and all of it.                                  *)

EventsInv ==
  /\ now \in Nat /\ events \in [EventSockets -> Moments(now)]
  /\ \A s \in EventSockets : Len(events[s]) <= EventLimit

LEMMA RecentEventsAre ==
  ASSUME now \in Nat, NEW s \in Moments(now)
  PROVE  /\ RecentEvents(s) = Later(s, Edge - 1) /\ RecentEvents(s) \in Moments(now)
         /\ Len(RecentEvents(s)) \in Nat /\ Len(RecentEvents(s)) <= Len(s) /\ Len(s) \in Nat
<1>1. Edge \in Int /\ Edge - 1 \in Int
  BY Edges
<1>2. \A i \in DOMAIN s : s[i] >= Edge <=> s[i] > Edge - 1
  <2>1. \A i \in DOMAIN s : s[i] \in Nat
    BY DEF Moments
  <2> QED BY <1>1, <2>1
<1>3. RecentEvents(s) = Later(s, Edge - 1)
  <2>1. {i \in DOMAIN s : s[i] >= Edge} = {i \in DOMAIN s : s[i] > Edge - 1}
    BY <1>2
  <2> QED BY <2>1 DEF RecentEvents, Later, Edge
<1>4. Later(s, Edge - 1) \in Moments(now) /\ Later(s, Edge - 1) \in Seq(Nat) /\ Len(Later(s, Edge - 1)) <= Len(s)
  BY <1>1, LaterFacts
<1>5. Len(s) \in Nat
  BY DEF Moments
<1> QED BY <1>3, <1>4, <1>5, ListOf

LEMMA EventsKeep ==
  ASSUME EventsInv, NEW s \in EventSockets, EventPassed(s) \/ EventRefused(s) \/ Cleanup(s)
  PROVE  EventsInv'
<1> DEFINE kept == RecentEvents(events[s])
<1>1. now \in Nat /\ now' = now /\ EventLimit \in Nat /\ events \in [EventSockets -> Moments(now)]
  BY RateLimitsAssumption DEF EventsInv, EventPassed, EventRefused, Cleanup
<1>2. kept \in Moments(now) /\ Len(kept) \in Nat /\ Len(kept) <= EventLimit
  <2>1. kept \in Moments(now) /\ Len(kept) \in Nat /\ Len(kept) <= Len(events[s]) /\ Len(events[s]) \in Nat
    BY <1>1, RecentEventsAre
  <2>2. Len(events[s]) <= EventLimit
    BY DEF EventsInv
  <2> QED BY <1>1, <2>1, <2>2
<1>3. Append(kept, now) \in Moments(now) /\ Len(Append(kept, now)) = Len(kept) + 1 /\ <<>> \in Moments(now)
  <2>1. now <= now
    BY <1>1
  <2> HIDE DEF kept
  <2> QED BY <1>1, <1>2, <2>1, LaterAppend, NoMoments
<1>4. PICK next \in Moments(now) : Len(next) <= EventLimit /\ events' = [events EXCEPT ![s] = next]
  <2>1. CASE EventPassed(s)
    <3>1. Len(kept) < EventLimit /\ events' = [events EXCEPT ![s] = Append(kept, now)]
      BY <2>1 DEF EventPassed
    <3>2. Len(Append(kept, now)) <= EventLimit
      BY <1>1, <1>2, <1>3, <3>1
    <3> QED BY <1>3, <3>1, <3>2
  <2>2. CASE EventRefused(s)
    BY <1>2, <2>2 DEF EventRefused
  <2>3. CASE Cleanup(s)
    <3>1. Len(<<>>) <= EventLimit
      BY <1>1
    <3> QED BY <1>3, <2>3, <3>1 DEF Cleanup
  <2> QED BY <2>1, <2>2, <2>3
<1> QED BY <1>1, <1>4 DEF EventsInv

LEMMA TimeKeepsEvents == ASSUME EventsInv, TimePasses PROVE EventsInv'
<1> DEFINE n == now
<1>1. n \in Nat /\ n + 1 \in Nat /\ n <= n + 1 /\ now' = n + 1 /\ events' = events
  BY DEF EventsInv, TimePasses, Tick
<1> HIDE DEF n
<1>2. Moments(n) \subseteq Moments(n + 1)
  BY <1>1, NoMoments
<1> QED BY <1>1, <1>2 DEF EventsInv, n

LEMMA EventsHold == ASSUME EventsInv PROVE EventsWithinLimit
<1> SUFFICES ASSUME NEW s \in EventSockets PROVE Len(RecentEvents(events[s])) <= EventLimit
  BY DEF EventsWithinLimit
<1>1. Len(RecentEvents(events[s])) \in Nat /\ Len(RecentEvents(events[s])) <= Len(events[s]) /\ Len(events[s]) \in Nat
  BY RecentEventsAre DEF EventsInv
<1>2. Len(events[s]) <= EventLimit /\ EventLimit \in Nat
  BY RateLimitsAssumption DEF EventsInv
<1> QED BY <1>1, <1>2

LimitsInv == LoginInv /\ ProviderInv /\ EventsInv

LEMMA LimitsBegin == LimitsInit => LimitsInv
<1> SUFFICES ASSUME LimitsInit PROVE LimitsInv
  OBVIOUS
<1>1. now = 1 /\ now \in Nat /\ <<>> \in Moments(now) /\ Edge \in Int /\ Later(<<>>, Edge) = <<>>
  <2>1. now = 1 /\ now \in Nat
    BY DEF LimitsInit
  <2> QED BY <2>1, Edges, NoMoments
<1>2. LoginInv
  <2>1. attempts = [k \in Keys |-> <<>>] /\ tried = [k \in Keys |-> <<>>] /\ sweepAt = SweepFloor /\ evicted = 0
    BY DEF LimitsInit
  <2>2. LoginTyped
    BY <1>1, <2>1, Sizes DEF LoginTyped
  <2>3. SmallMap
    <3>1. Used(attempts) = {} /\ Size(attempts) = Cardinality(Used(attempts))
      BY <2>1, FiniteKeys DEF Used
    <3>2. Size(attempts) = 0
      BY <3>1, FS_EmptySet
    <3>3. sweepAt <= Larger(SweepFloor, 2 * MaxKeys)
      BY <2>1, RateLimitsAssumption DEF Larger
    <3> QED BY <2>1, <3>2, <3>3, Sizes DEF SmallMap
  <2>4. Recorded
    BY <2>1 DEF Recorded, Counts
  <2>5. Complete
    BY <2>1 DEF Complete
  <2>6. Shares
    <3> SUFFICES ASSUME NEW a \in Accounts
                 PROVE  /\ \A ip \in Ips : Len(Later(tried[<<a, ip>>], Edge)) <= PairLimit
                        /\ \E who : Spread(who, tried[a], OfAccount(tried, a), Edge)
      BY DEF Shares
    <3>1. tried[a] = <<>> /\ \A ip \in Ips : tried[<<a, ip>>] = <<>>
      BY <2>1, KeysApart DEF Keys, Pairs
    <3>2. \E who : Spread(who, tried[a], OfAccount(tried, a), Edge)
      BY <3>1, SpreadNothing
    <3>3. ASSUME NEW ip \in Ips PROVE Len(Later(tried[<<a, ip>>], Edge)) <= PairLimit
      BY <1>1, <3>1, RateLimitsAssumption
    <3> QED BY <3>2, <3>3
  <2> QED BY <2>2, <2>3, <2>4, <2>5, <2>6 DEF LoginInv
<1>3. ProviderInv
  BY <1>1, RateLimitsAssumption DEF LimitsInit, ProviderInv, PromiseKept, Promises, NoPromise
<1>4. EventsInv
  BY <1>1, RateLimitsAssumption DEF LimitsInit, EventsInv
<1> QED BY <1>2, <1>3, <1>4 DEF LimitsInv

\* What a step leaves alone keeps its part of the invariant.
LEMMA OthersKeep ==
  /\ LoginInv /\ UNCHANGED <<now, loginVars>> => LoginInv'
  /\ ProviderInv /\ UNCHANGED <<now, providerVars>> => ProviderInv'
  /\ EventsInv /\ UNCHANGED <<now, events>> => EventsInv'
<1>1. LoginInv /\ UNCHANGED <<now, loginVars>> => LoginInv'
  BY DEF LoginInv, LoginTyped, SmallMap, Recorded, Complete, Shares, Edge, Counts, OfAccount, Size, loginVars
<1>2. ProviderInv /\ UNCHANGED <<now, providerVars>> => ProviderInv'
  BY DEF ProviderInv, PromiseKept, providerVars
<1>3. EventsInv /\ UNCHANGED <<now, events>> => EventsInv'
  BY DEF EventsInv
<1> QED BY <1>1, <1>2, <1>3

LEMMA LimitsKept == LimitsInv /\ [LimitsNext]_limitVars => LimitsInv'
<1> SUFFICES ASSUME LimitsInv, [LimitsNext]_limitVars PROVE LimitsInv'
  OBVIOUS
<1> USE DEF LimitsInv
<1>1. CASE TimePasses
  BY <1>1, TimeKeepsLogins, TimeKeepsPromises, TimeKeepsEvents
<1>2. CASE LoginNext
  <2>1. PICK a \in Accounts, ip \in Ips : LoginTried(a, ip) \/ LoginRefused(a, ip) \/ LoginSucceeded(a, ip)
    BY <1>2 DEF LoginNext
  <2>2. UNCHANGED <<now, providerVars, events>>
    BY <2>1 DEF LoginTried, LoginRefused, LoginSucceeded
  <2>3. LoginInv'
    BY <2>1, TriedKeeps, RefusedKeeps, SucceededKeeps
  <2> QED BY <2>2, <2>3, OthersKeep
<1>3. CASE ProviderNext
  <2>1. PICK c \in Callers : Called(c)
    BY <1>3 DEF ProviderNext
  <2>2. UNCHANGED <<now, loginVars, events>>
    BY <2>1 DEF Called
  <2> QED BY <2>1, <2>2, CallKeeps, OthersKeep
<1>4. CASE EventNext
  <2>1. PICK s \in EventSockets : EventPassed(s) \/ EventRefused(s) \/ Cleanup(s)
    BY <1>4 DEF EventNext
  <2>2. UNCHANGED <<now, loginVars, providerVars>>
    BY <2>1 DEF EventPassed, EventRefused, Cleanup
  <2> QED BY <2>1, <2>2, EventsKeep, OthersKeep
<1>5. CASE UNCHANGED limitVars
  BY <1>5, OthersKeep DEF limitVars
<1> QED BY <1>1, <1>2, <1>3, <1>4, <1>5 DEF LimitsNext

\* The limits limit, forgive when they promise and stay small, for any number of
\* accounts, addresses, callers and sockets, any limits and any window.
THEOREM LimitsAreKept == LimitsSpec => []LimitsHold
<1>1. LimitsInv => LimitsHold
  BY LoginsHold, PromisesHold, EventsHold DEF LimitsInv, LimitsHold
<1> QED BY <1>1, LimitsBegin, LimitsKept, PTL DEF LimitsSpec

-----------------------------------------------------------------------------
(* Who is online.                                                          *)

PresenceSpec == PresenceInit /\ [][PresenceNext]_presenceVars

States == [stage : {"off", "lookup", "found", "left", "snapshot", "online"},
           user : Users, role : Roles \cup {"gone"}]
Trackers == [known : SUBSET Users, started : BOOLEAN, joined : SUBSET Users, left : SUBSET Users,
             timer : BOOLEAN]

PresenceTyped ==
  /\ account \in [Users -> Roles \cup {"gone"}] /\ edit \in [stage : {"idle", "kick"}, user : Users]
  /\ sock \in [Sockets -> States] /\ onlineMap \in [Sockets -> Roles \cup {"none"}]
  /\ emitting \in BOOLEAN /\ tracker \in Trackers

\* A kick that is to come, or one that came while the account was looked up.
Excused(s) == s \in missed \/ (edit.stage = "kick" /\ edit.user = sock[s].user)

\* A role that is out of date, listed or on its way to be, is excused.
Honest(s) ==
  /\ onlineMap[s] # "none" => sock[s].stage \in {"snapshot", "online"}
  /\ onlineMap[s] # "none" /\ onlineMap[s] # account[sock[s].user] => Excused(s)
  /\ sock[s].stage = "found" /\ sock[s].role # account[sock[s].user] => Excused(s)

\* A tracker that has not started has nothing to tell.
Tracks == MessagesAddUp /\ (~tracker.started => tracker.joined = {} /\ tracker.left = {})

PresenceInv == PresenceTyped /\ (\A s \in Sockets : Honest(s)) /\ OnlineFollows /\ Tracks

-----------------------------------------------------------------------------
(* The browser: what its chat tells adds up.                               *)

LEMMA EmitsStep == ASSUME PresenceInv, EmitOnline PROVE PresenceInv'
<1>1. UNCHANGED <<account, edit, sock, onlineMap, missed>> /\ emitting' = FALSE
  BY DEF EmitOnline
<1>2. \A s \in Sockets : Honest(s)'
  BY <1>1 DEF PresenceInv, Honest, Excused
<1>3. Nicknames' = Nicknames /\ Listed' = Listed /\ Nicknames \subseteq Users
  BY <1>1 DEF Nicknames, Listed, PresenceInv, PresenceTyped, States
<1>4. OnlineFollows'
  <2> SUFFICES ASSUME Viewer \in Listed PROVE users' = Nicknames
    BY <1>3 DEF OnlineFollows
  <2>1. sock[Viewer].stage \in {"snapshot", "online"}
    BY PresenceAssumption DEF PresenceInv, Honest, Listed
  <2>2. Connected(Viewer)
    BY <2>1 DEF Connected
  <2> QED BY <2>2 DEF EmitOnline
<1>5. tracker' \in Trackers /\ Tracks'
  <2>1. CASE UNCHANGED browserVars
    BY <2>1 DEF browserVars, PresenceInv, PresenceTyped, Tracks, MessagesAddUp
  <2>2. ASSUME NEW names \in SUBSET Users, ~tracker.started, told' = names,
               tracker' = [tracker EXCEPT !.started = TRUE, !.known = names]
        PROVE  tracker' \in Trackers /\ Tracks'
    BY <2>2 DEF PresenceInv, PresenceTyped, Trackers, Tracks, MessagesAddUp
  <2>4. CASE ~Connected(Viewer)
    BY <2>1, <2>4 DEF EmitOnline
  <2>5. CASE Connected(Viewer) /\ ~tracker.started
    BY <1>3, <2>2, <2>5, Zenon DEF EmitOnline, Update
  <2>6. CASE Connected(Viewer) /\ tracker.started
    <3>1. PICK names, joined, left :
             /\ names = Nicknames
             /\ joined = (tracker.joined \ (tracker.known \ names)) \cup ((names \ tracker.known) \ tracker.left)
             /\ left = (tracker.left \ (names \ tracker.known)) \cup ((tracker.known \ names) \ tracker.joined)
      OBVIOUS
    <3>2. /\ tracker' = [tracker EXCEPT !.known = names, !.joined = joined, !.left = left,
                                        !.timer = tracker.timer \/ joined \cup left # {}]
          /\ told' = told
      BY <2>6, <3>1 DEF EmitOnline, Update
    <3>3. tracker \in Trackers /\ names \in SUBSET Users
      BY <1>3, <3>1 DEF PresenceInv, PresenceTyped
    <3>4. joined \in SUBSET Users /\ left \in SUBSET Users
      BY <3>1, <3>3 DEF Trackers
    <3>5. /\ tracker'.known = names /\ tracker'.joined = joined /\ tracker'.left = left
          /\ tracker'.timer = (tracker.timer \/ joined \cup left # {}) /\ tracker'.started = tracker.started
          /\ tracker' \in Trackers
      BY <3>2, <3>3, <3>4, Zenon DEF Trackers
    <3>6. /\ tracker.known = (told \cup tracker.joined) \ tracker.left
          /\ tracker.joined \cap told = {} /\ tracker.left \subseteq told
      BY <2>6 DEF PresenceInv, Tracks, MessagesAddUp
    <3>7. names = (told \cup joined) \ left /\ joined \cap told = {} /\ left \subseteq told
      BY <3>1, <3>6
    <3> QED BY <2>6, <3>2, <3>5, <3>7 DEF Tracks, MessagesAddUp
  <2> QED BY <2>4, <2>5, <2>6
<1> QED BY <1>1, <1>2, <1>4, <1>5 DEF PresenceInv, PresenceTyped

LEMMA TellsStep == ASSUME PresenceInv, Flush \/ Remount PROVE PresenceInv'
<1>1. UNCHANGED <<account, edit, sock, onlineMap, emitting, users, missed>>
  BY DEF Flush, Remount
<1>2. \A s \in Sockets : Honest(s)'
  BY <1>1 DEF PresenceInv, Honest, Excused
<1>3. OnlineFollows'
  BY <1>1 DEF PresenceInv, OnlineFollows, Listed, Nicknames
<1>4. CASE Flush
  <2>1. /\ tracker' = [tracker EXCEPT !.timer = FALSE, !.joined = {}, !.left = {}] /\ tracker \in Trackers
        /\ told' = (told \cup tracker.joined) \ tracker.left
    BY <1>4 DEF Flush, PresenceInv, PresenceTyped
  <2>2. /\ tracker' \in Trackers /\ tracker'.known = tracker.known /\ tracker'.started = tracker.started
        /\ tracker'.joined = {} /\ tracker'.left = {}
    BY <2>1 DEF Trackers
  <2>3. Tracks'
    BY <2>1, <2>2 DEF PresenceInv, Tracks, MessagesAddUp
  <2> QED BY <1>1, <1>2, <1>3, <2>2, <2>3 DEF PresenceInv, PresenceTyped
<1>5. CASE Remount
  <2>1. tracker' \in Trackers /\ Tracks'
    BY <1>5 DEF Remount, NewTracker, Trackers, Tracks, MessagesAddUp
  <2> QED BY <1>1, <1>2, <1>3, <2>1 DEF PresenceInv, PresenceTyped
<1> QED BY <1>4, <1>5

-----------------------------------------------------------------------------
(* The server.                                                             *)

\* A step of one connection, which may enter or leave the list, and then has the list
\* emitted.
LEMMA SocketStep ==
  ASSUME PresenceInv, NEW s \in Sockets, NEW new \in States, NEW m \in Roles \cup {"none"},
         sock' = [sock EXCEPT ![s] = new], onlineMap' = [onlineMap EXCEPT ![s] = m],
         missed \ {s} \subseteq missed', UNCHANGED <<account, edit, browserVars>>,
         emitting' \in BOOLEAN,
         emitting' \/ (m = "none" /\ onlineMap[s] = "none" /\ emitting' = emitting)
                   \/ (m = onlineMap[s] /\ new.user = sock[s].user /\ emitting' = emitting),
         Honest(s)'
  PROVE  PresenceInv'
<1>1. PresenceTyped' /\ sock'[s] = new /\ onlineMap'[s] = m
      /\ \A q \in Sockets \ {s} : sock'[q] = sock[q] /\ onlineMap'[q] = onlineMap[q]
  BY DEF PresenceInv, PresenceTyped, browserVars
<1>2. ASSUME NEW q \in Sockets PROVE Honest(q)'
  <2>1. CASE q # s
    <3>1. /\ sock'[q] = sock[q] /\ onlineMap'[q] = onlineMap[q] /\ (q \in missed => q \in missed')
          /\ UNCHANGED <<account, edit>> /\ Honest(q)
      BY <1>1, <2>1 DEF PresenceInv
    <3> QED BY <3>1 DEF Honest, Excused
  <2> QED BY <2>1
<1>3. OnlineFollows'
  <2>1. CASE emitting'
    BY <2>1 DEF OnlineFollows
  <2>2. CASE /\ emitting' = emitting
             /\ \/ m = "none" /\ onlineMap[s] = "none"
                \/ m = onlineMap[s] /\ new.user = sock[s].user
    <3>1. Listed' = Listed
      BY <1>1, <2>2 DEF Listed
    <3>2. \A q \in Listed : sock'[q].user = sock[q].user
      BY <1>1, <2>2 DEF Listed
    <3>3. Nicknames' = Nicknames
      BY <3>1, <3>2 DEF Nicknames
    <3>4. users' = users
      BY DEF browserVars
    <3> QED BY <2>2, <3>1, <3>3, <3>4 DEF PresenceInv, OnlineFollows
  <2> QED BY <2>1, <2>2
<1>4. Tracks'
  BY DEF PresenceInv, Tracks, MessagesAddUp, browserVars
<1> QED BY <1>1, <1>2, <1>3, <1>4 DEF PresenceInv

LEMMA OffIsState == Off \in States /\ Off.role = "gone" /\ Off.stage = "off"
  BY PresenceAssumption DEF Off, States

LEMMA ConnectStep == ASSUME PresenceInv, NEW s \in Sockets, Connect(s) PROVE PresenceInv'
<1>1. PICK u \in Users : sock' = [sock EXCEPT ![s] = [stage |-> "lookup", user |-> u, role |-> "gone"]]
  BY DEF Connect
<1> DEFINE new == [stage |-> "lookup", user |-> u, role |-> "gone"]
<1>2. new \in States /\ new.stage = "lookup"
  BY DEF States
<1>3. onlineMap[s] = "none" /\ onlineMap \in [Sockets -> Roles \cup {"none"}] /\ sock \in [Sockets -> States]
  BY DEF Connect, PresenceInv, Honest, PresenceTyped
<1>4. UNCHANGED <<account, edit, onlineMap, emitting, browserVars>> /\ missed' = missed \ {s}
  BY DEF Connect
<1>5. onlineMap' = [onlineMap EXCEPT ![s] = "none"] /\ sock'[s] = new
  BY <1>1, <1>3, <1>4
<1>6. Honest(s)'
  BY <1>2, <1>3, <1>4, <1>5 DEF Honest
<1>7. emitting' \in BOOLEAN
  BY <1>4 DEF PresenceInv, PresenceTyped
<1> HIDE DEF new
<1>8. sock' = [sock EXCEPT ![s] = new]
  BY <1>1 DEF new
<1> QED BY <1>2, <1>3, <1>4, <1>5, <1>6, <1>7, <1>8, SocketStep

LEMMA LookupReadsStep == ASSUME PresenceInv, NEW s \in Sockets, LookupReads(s) PROVE PresenceInv'
<1>1. UNCHANGED <<account, edit, onlineMap, emitting, browserVars, missed>>
  BY DEF LookupReads
<1>2. /\ onlineMap[s] = "none" /\ onlineMap \in [Sockets -> Roles \cup {"none"}]
      /\ sock \in [Sockets -> States] /\ account \in [Users -> Roles \cup {"gone"}] /\ emitting \in BOOLEAN
  BY DEF LookupReads, PresenceInv, Honest, PresenceTyped
<1>3. PICK new : new = [sock[s] EXCEPT !.stage = "found", !.role = account[sock[s].user]]
  OBVIOUS
<1>4. sock' = [sock EXCEPT ![s] = new] /\ new \in States /\ new.role = account[new.user]
  <2>1. sock[s] \in States /\ sock[s].user \in Users /\ account[sock[s].user] \in Roles \cup {"gone"}
    BY <1>2 DEF States
  <2>2. new \in States /\ new.role = account[new.user]
    BY <1>3, <2>1 DEF States
  <2>3. sock' = [sock EXCEPT ![s].stage = "found", ![s].role = account[sock[s].user]]
    BY DEF LookupReads
  <2>4. sock' = [sock EXCEPT ![s] = new]
    BY ONLY <1>2, <1>3, <2>1, <2>3, s \in Sockets DEF States
  <2> QED BY <2>2, <2>4
<1>5. onlineMap' = [onlineMap EXCEPT ![s] = "none"] /\ sock'[s] = new
  BY <1>1, <1>2, <1>4
<1>6. Honest(s)'
  BY <1>1, <1>2, <1>4, <1>5 DEF Honest
<1> QED BY <1>1, <1>2, <1>4, <1>5, <1>6, SocketStep

\* A connection that is off, or whose client left, is not listed.
LEMMA LeavesStep ==
  ASSUME PresenceInv, NEW s \in Sockets, NEW new \in States, new.stage \in {"off", "left"}, new.role = "gone",
         sock' = [sock EXCEPT ![s] = new], onlineMap' = [onlineMap EXCEPT ![s] = "none"],
         UNCHANGED <<account, edit, missed, browserVars>>,
         emitting' = TRUE \/ (onlineMap[s] = "none" /\ emitting' = emitting)
  PROVE  PresenceInv'
<1>1. sock'[s] = new /\ onlineMap'[s] = "none" /\ emitting' \in BOOLEAN
  BY DEF PresenceInv, PresenceTyped
<1>2. Honest(s)'
  BY <1>1 DEF Honest
<1> QED BY <1>1, <1>2, SocketStep DEF Roles

LEMMA LookupResumesStep == ASSUME PresenceInv, NEW s \in Sockets, LookupResumes(s) PROVE PresenceInv'
<1>1. UNCHANGED <<account, edit, browserVars, missed>>
  BY DEF LookupResumes
<1>2. /\ onlineMap[s] = "none" /\ onlineMap \in [Sockets -> Roles \cup {"none"}]
      /\ sock \in [Sockets -> States] /\ onlineMap = [onlineMap EXCEPT ![s] = "none"]
  BY DEF LookupResumes, PresenceInv, Honest, PresenceTyped
<1>3. CASE /\ sock' = [sock EXCEPT ![s] = Off] /\ onlineMap' = onlineMap
           /\ emitting' = TRUE \/ emitting' = emitting
  BY <1>1, <1>2, <1>3, OffIsState, LeavesStep
<1>4. CASE /\ sock[s].stage = "found" /\ sock[s].role # "gone"
           /\ onlineMap' = [onlineMap EXCEPT ![s] = sock[s].role]
           /\ emitting' = TRUE
           /\ sock' = [sock EXCEPT ![s].stage = "snapshot"]
  <2>1. PICK new : new = [sock[s] EXCEPT !.stage = "snapshot"]
    OBVIOUS
  <2>2. /\ sock' = [sock EXCEPT ![s] = new] /\ new \in States /\ new.stage = "snapshot"
        /\ new.user = sock[s].user /\ sock[s].role \in Roles
    BY <1>2, <1>4, <2>1 DEF States
  <2>3. sock'[s] = new /\ onlineMap'[s] = sock[s].role
    BY <1>2, <1>4, <2>2
  <2>4. Honest(s)'
    BY <1>1, <1>4, <2>2, <2>3 DEF PresenceInv, Honest, Excused
  <2> QED BY <1>1, <1>4, <2>2, <2>4, SocketStep
<1> QED BY <1>3, <1>4 DEF LookupResumes

LEMMA SnapshotSentStep == ASSUME PresenceInv, NEW s \in Sockets, SnapshotSent(s) PROVE PresenceInv'
<1>1. UNCHANGED <<account, edit, onlineMap, emitting, browserVars, missed>>
  BY DEF SnapshotSent
<1>2. /\ sock \in [Sockets -> States] /\ emitting \in BOOLEAN
      /\ onlineMap[s] \in Roles \cup {"none"} /\ onlineMap' = [onlineMap EXCEPT ![s] = onlineMap[s]]
  BY <1>1 DEF PresenceInv, PresenceTyped
<1>3. PICK new : new = [sock[s] EXCEPT !.stage = "online"]
  OBVIOUS
<1>4. /\ sock' = [sock EXCEPT ![s] = new] /\ new \in States /\ new.stage = "online"
      /\ new.user = sock[s].user
  BY <1>2, <1>3 DEF SnapshotSent, States
<1>5. Honest(s)'
  BY <1>1, <1>2, <1>4 DEF PresenceInv, Honest, Excused
<1> QED BY <1>1, <1>2, <1>4, <1>5, SocketStep

LEMMA LeaveStep ==
  ASSUME PresenceInv, NEW s \in Sockets, SnapshotFails(s) \/ Disconnect(s) PROVE PresenceInv'
<1>1. UNCHANGED <<account, edit, browserVars, missed>>
  BY DEF SnapshotFails, Disconnect
<1>2. onlineMap' = [onlineMap EXCEPT ![s] = "none"] /\ emitting' = TRUE
  BY DEF SnapshotFails, Disconnect, Leave, PresenceInv, PresenceTyped
<1>3. CASE sock' = [sock EXCEPT ![s] = Off]
  BY <1>1, <1>2, <1>3, OffIsState, LeavesStep
<1>4. CASE sock' = [sock EXCEPT ![s] = [sock[s] EXCEPT !.stage = "left", !.role = "gone"]]
  <2>1. PICK new : new = [sock[s] EXCEPT !.stage = "left", !.role = "gone"]
    OBVIOUS
  <2>2. new \in States /\ new.stage = "left" /\ new.role = "gone"
    BY <2>1 DEF PresenceInv, PresenceTyped, States
  <2> QED BY <1>1, <1>2, <1>4, <2>1, <2>2, LeavesStep
<1> QED BY <1>3, <1>4 DEF SnapshotFails, Disconnect

-----------------------------------------------------------------------------
(* Accounts.                                                               *)

LEMMA EditStep == ASSUME PresenceInv, NEW u \in Users, EditAccount(u) PROVE PresenceInv'
<1>1. UNCHANGED <<sock, onlineMap, emitting, browserVars, missed>> /\ edit.stage = "idle"
  BY DEF EditAccount, NoEdit
<1>2. PICK to \in {"member", "admin", "gone"} : account' = [account EXCEPT ![u] = to]
  BY DEF EditAccount
<1>3. edit' = [stage |-> "kick", user |-> u]
  BY DEF EditAccount
<1>4. PresenceTyped'
  BY <1>1, <1>2, <1>3 DEF PresenceInv, PresenceTyped, Roles, browserVars
<1>5. \A v \in Users \ {u} : account'[v] = account[v]
  BY <1>2 DEF PresenceInv, PresenceTyped
<1>6. ASSUME NEW s \in Sockets PROVE Honest(s)'
  <2>1. sock[s].user \in Users /\ Honest(s) /\ (Excused(s) => s \in missed)
    BY <1>1 DEF PresenceInv, PresenceTyped, States, Excused
  <2>2. Excused(s)' \/ (sock[s].user # u)
    BY <1>1, <1>3 DEF Excused
  <2>3. s \in missed => Excused(s)'
    BY <1>1 DEF Excused
  <2>4. sock'[s] = sock[s] /\ onlineMap'[s] = onlineMap[s]
    BY <1>1
  <2> QED BY <1>5, <2>1, <2>2, <2>3, <2>4 DEF Honest
<1>7. OnlineFollows' /\ Tracks'
  BY <1>1 DEF PresenceInv, OnlineFollows, Listed, Nicknames, Tracks, MessagesAddUp, browserVars
<1> QED BY <1>4, <1>6, <1>7 DEF PresenceInv

LEMMA KickStep == ASSUME PresenceInv, KickUser PROVE PresenceInv'
<1>1. UNCHANGED <<account, browserVars>> /\ edit' = NoEdit
  BY DEF KickUser
<1>2. PICK kicked : kicked = SocketsOf(edit.user)
  OBVIOUS
<1>3. /\ sock' = [s \in Sockets |-> IF s \in kicked THEN Off ELSE sock[s]]
      /\ onlineMap' = [s \in Sockets |-> IF s \in kicked THEN "none" ELSE onlineMap[s]]
      /\ emitting' = (emitting \/ kicked # {})
      /\ missed' = (missed \ kicked) \cup
           {s \in Sockets \ kicked : sock[s].stage = "found" /\ sock[s].user = edit.user}
  BY <1>2 DEF KickUser, Leave
<1>4. PresenceTyped'
  <2>1. NoEdit \in [stage : {"idle", "kick"}, user : Users]
    BY PresenceAssumption DEF NoEdit
  <2> QED BY <1>1, <1>3, <2>1, OffIsState DEF PresenceInv, PresenceTyped, browserVars
<1>5. ASSUME NEW s \in Sockets PROVE Honest(s)'
  <2>1. CASE s \in kicked
    BY <1>3, <2>1, OffIsState DEF Honest
  <2>2. CASE s \notin kicked
    <3>1. sock'[s] = sock[s] /\ onlineMap'[s] = onlineMap[s] /\ account' = account /\ Honest(s)
      BY <1>1, <1>3, <2>2 DEF PresenceInv
    <3>2. s \in missed => Excused(s)'
      BY <1>3, <2>2 DEF Excused
    <3>3. onlineMap[s] # "none" => sock[s].user # edit.user
      BY <1>2, <2>2 DEF SocketsOf, Listed
    <3>4. sock[s].stage = "found" /\ sock[s].user = edit.user => Excused(s)'
      BY <1>3, <2>2 DEF Excused
    <3> QED BY <3>1, <3>2, <3>3, <3>4 DEF Honest, Excused
  <2> QED BY <2>1, <2>2
<1>6. OnlineFollows'
  <2>1. CASE kicked = {}
    <3>1. sock' = sock /\ onlineMap' = onlineMap /\ emitting' = emitting /\ users' = users
      BY <1>1, <1>3, <2>1 DEF PresenceInv, PresenceTyped, browserVars
    <3> QED BY <3>1 DEF PresenceInv, OnlineFollows, Listed, Nicknames
  <2>2. CASE kicked # {}
    BY <1>3, <2>2 DEF OnlineFollows
  <2> QED BY <2>1, <2>2
<1>7. Tracks'
  BY <1>1 DEF PresenceInv, Tracks, MessagesAddUp, browserVars
<1> QED BY <1>4, <1>5, <1>6, <1>7 DEF PresenceInv

-----------------------------------------------------------------------------
(* The theorems.                                                           *)

LEMMA PresenceStart == PresenceInit => PresenceInv
<1> SUFFICES ASSUME PresenceInit PROVE PresenceInv
  OBVIOUS
<1>1. PresenceTyped
  BY PresenceAssumption, OffIsState DEF PresenceInit, PresenceTyped, NoEdit, NewTracker, Trackers
<1>2. \A s \in Sockets : Honest(s)
  BY OffIsState DEF PresenceInit, Honest
<1>3. OnlineFollows /\ Tracks
  BY DEF PresenceInit, OnlineFollows, Listed, Tracks, MessagesAddUp, NewTracker
<1> QED BY <1>1, <1>2, <1>3 DEF PresenceInv

LEMMA PresenceStep == PresenceInv /\ [PresenceNext]_presenceVars => PresenceInv'
<1> SUFFICES ASSUME PresenceInv, [PresenceNext]_presenceVars PROVE PresenceInv'
  OBVIOUS
<1>1. CASE UNCHANGED presenceVars
  <2>1. UNCHANGED <<account, edit, edits, sock, onlineMap, emitting, users, tracker, told, missed>>
    BY <1>1 DEF presenceVars
  <2>2. \A s \in Sockets : Honest(s)'
    BY <2>1 DEF PresenceInv, Honest, Excused
  <2> QED BY <2>1, <2>2 DEF PresenceInv, PresenceTyped, OnlineFollows, Listed, Nicknames, Tracks, MessagesAddUp
<1>2. CASE KickUser
  BY <1>2, KickStep
<1>3. CASE EmitOnline
  BY <1>3, EmitsStep
<1>4. CASE Flush \/ Remount
  BY <1>4, TellsStep
<1>5. CASE \E u \in Users : EditAccount(u)
  BY <1>5, EditStep
<1>6. ASSUME NEW s \in Sockets,
             \/ Connect(s) \/ LookupReads(s) \/ LookupResumes(s)
             \/ SnapshotSent(s) \/ SnapshotFails(s) \/ Disconnect(s)
      PROVE  PresenceInv'
  <2>1. CASE Connect(s)
    BY <2>1, ConnectStep
  <2>2. CASE LookupReads(s)
    BY <2>2, LookupReadsStep
  <2>3. CASE LookupResumes(s)
    BY <2>3, LookupResumesStep
  <2>4. CASE SnapshotSent(s)
    BY <2>4, SnapshotSentStep
  <2>5. CASE SnapshotFails(s) \/ Disconnect(s)
    BY <2>5, LeaveStep
  <2> QED BY <1>6, <2>1, <2>2, <2>3, <2>4, <2>5
<1> QED BY <1>1, <1>2, <1>3, <1>4, <1>5, <1>6 DEF PresenceNext

\* The invariant of the presence: lists, what is shown and told of them, and what excuses
\* a role that is out of date (realtime.gateway.ts, systemMessages.js).
THEOREM PresenceKeepsInv == PresenceSpec => []PresenceInv
<1>1. PresenceInit => PresenceInv
  BY PresenceStart
<1>2. PresenceInv /\ [PresenceNext]_presenceVars => PresenceInv'
  BY PresenceStep
<1> QED BY <1>1, <1>2, PTL DEF PresenceSpec

\* Nobody is listed who is not connected, the viewer sees who is listed once the list was
\* emitted, his chat adds up, and a stale role is one whose kick came during the lookup.
THEOREM PresenceAgrees == PresenceSpec => []PresenceTrue
<1>1. PresenceInv => PresenceTrue
  BY DEF PresenceInv, PresenceTrue, OnlyConnectedListed, StaleOnlyIfMissed, Listed, Honest, Excused, Tracks
<1> QED BY <1>1, PresenceKeepsInv, PTL

-----------------------------------------------------------------------------
(* The session of a browser, for any number of requests, logins and tokens.  *)

ApiSpec == ApiInit /\ [][ApiNext]_apiVars

RequestTypes == [stage : {"none", "sent", "waiting", "again"}, good : BOOLEAN]
RefreshTypes == [stage : {"none", "sent", "found", "answered"}, old : Nat, row : Nat, next : Nat]
LogoutTypes == [stage : {"none", "sent", "cleared"}, good : BOOLEAN, old : Nat]
SocketTypes == [stage : {"none", "connecting", "up", "parked"}, good : BOOLEAN, retried : BOOLEAN, timer : BOOLEAN]

ServerTyped ==
  /\ held \in [1..MaxLogins -> Nat] /\ logins \in Nat /\ jtis \in Nat
  /\ banned \in BOOLEAN /\ mislaid \in BOOLEAN
  /\ cookie \in [access : BOOLEAN, refresh : Nat]

TabsTyped ==
  /\ page \in [Tabs -> {"in", "loading", "out"}]
  /\ request \in [Tabs -> [Slots -> RequestTypes]]
  /\ refresh \in [Tabs -> RefreshTypes] /\ logout \in [Tabs -> LogoutTypes] /\ socket \in [Tabs -> SocketTypes]

\* Of a tab, by its page p, requests q, refresh r, logout l and socket s: who waits has a
\* refresh, a request that is sent again has the new cookie, and a page that loads has one
\* request and nothing else.
Own(p, q, r, l, s) ==
  /\ (\E i \in Slots : q[i].stage = "waiting") \/ s.stage = "parked" => r.stage # "none"
  /\ \A i \in Slots : q[i].stage = "again" => q[i].good
  /\ (r.stage = "none" => r = NoRefresh) /\ (l.stage = "none" => l = NoLogout)
  /\ r.stage # "answered" => r.next = 0
  /\ p = "loading" =>
       /\ s.stage = "none" /\ l.stage = "none"
       /\ \A i, j \in Slots : i # j => q[i].stage = "none" \/ q[j].stage = "none"
       /\ r.stage # "none" => \A i \in Slots : q[i].stage \in {"none", "waiting"}

\* Token k is the one of a row of h.
HasRow(h, k) == k # 0 /\ \E n \in 1..MaxLogins : h[n] = k

\* Whoever is in, or comes in by the cookies c, has them by a login that lasts.
Inside(c, p, q) ==
  \/ p = "in" \/ c.access
  \/ p = "loading" /\ \E i \in Slots : q[i].stage \in {"sent", "again"} /\ q[i].good

\* The cookies are those of a row, or the refresh under way will bring such.
KeptBy(h, c, p, q, r, l) ==
  /\ r.stage = "none" \/ l.stage = "none"
  /\ r.stage = "found" => r.row \in 1..MaxLogins /\ h[r.row] = r.old /\ r.old # 0
  /\ r.stage = "answered" /\ r.next # 0 => HasRow(h, r.next)
  /\ l.stage = "sent" => HasRow(h, c.refresh)
  /\ l.stage = "none" /\ Inside(c, p, q) =>
       /\ r.stage \in {"none", "sent"} => HasRow(h, c.refresh)
       /\ r.stage = "sent" => r.old = c.refresh
       /\ r.stage = "answered" => r.next # 0

Kept(t) == Tabs = {t} /\ ~banned /\ ~mislaid => KeptBy(held, cookie, page[t], request[t], refresh[t], logout[t])

ApiInv ==
  /\ ServerTyped /\ TabsTyped
  /\ \A t \in Tabs : Own(page[t], request[t], refresh[t], logout[t], socket[t])
  /\ \A t \in Tabs : Kept(t)

LEMMA NothingTyped ==
  /\ NoRequest \in RequestTypes /\ NoRefresh \in RefreshTypes /\ NoLogout \in LogoutTypes /\ NoSocket \in SocketTypes
  /\ NoRequest.stage = "none" /\ NoRefresh.stage = "none" /\ NoLogout.stage = "none" /\ NoSocket.stage = "none"
  /\ NoRefresh.next = 0
BY DEF NoRequest, NoRefresh, NoLogout, NoSocket, RequestTypes, RefreshTypes, LogoutTypes, SocketTypes

LEMMA ApiStart == ApiInit => ApiInv
<1> SUFFICES ASSUME ApiInit PROVE ApiInv
  OBVIOUS
<1>1. ServerTyped /\ TabsTyped
  BY NothingTyped, ApiAssumption DEF ApiInit, ServerTyped, TabsTyped
<1>2. ASSUME NEW t \in Tabs
      PROVE  Own(page[t], request[t], refresh[t], logout[t], socket[t]) /\ Kept(t)
  <2>1. /\ page[t] = "out" /\ refresh[t] = NoRefresh /\ logout[t] = NoLogout /\ socket[t] = NoSocket
        /\ \A i \in Slots : request[t][i] = NoRequest
        /\ ~cookie.access
    BY DEF ApiInit
  <2> QED BY <2>1, NothingTyped DEF Own, Kept, KeptBy, Inside
<1> QED BY <1>1, <1>2 DEF ApiInv

\* What happens in one tab is of no concern to the others.
OneTab(t) ==
  \A u \in Tabs \ {t} : /\ page'[u] = page[u] /\ request'[u] = request[u] /\ refresh'[u] = refresh[u]
                        /\ logout'[u] = logout[u] /\ socket'[u] = socket[u]

LEMMA InOneTab ==
  ASSUME ApiInv, NEW t \in Tabs, OneTab(t), ServerTyped', TabsTyped',
         NEW p, NEW q, NEW r, NEW l, NEW s, Own(p, q, r, l, s),
         page'[t] = p, request'[t] = q, refresh'[t] = r, logout'[t] = l, socket'[t] = s,
         (Tabs = {t} /\ ~banned' /\ ~mislaid') => KeptBy(held', cookie', p, q, r, l)
  PROVE  ApiInv'
<1>1. ASSUME NEW u \in Tabs PROVE Own(page'[u], request'[u], refresh'[u], logout'[u], socket'[u])
  BY <1>1 DEF ApiInv, OneTab
<1>2. ASSUME NEW u \in Tabs, Tabs = {u}, ~banned', ~mislaid'
      PROVE  KeptBy(held', cookie', page'[u], request'[u], refresh'[u], logout'[u])
  <2>1. u = t
    BY <1>2
  <2> QED BY <1>2, <2>1
<1> QED BY <1>1, <1>2 DEF ApiInv, Kept

\* What is known of a tab before a step.
LEMMA TabKnown ==
  ASSUME ApiInv, NEW t \in Tabs
  PROVE  /\ Own(page[t], request[t], refresh[t], logout[t], socket[t]) /\ Kept(t)
         /\ page[t] \in {"in", "loading", "out"} /\ request[t] \in [Slots -> RequestTypes]
         /\ refresh[t] \in RefreshTypes /\ logout[t] \in LogoutTypes /\ socket[t] \in SocketTypes
         /\ \A p, q, r, l, s : page[t] = p /\ request[t] = q /\ refresh[t] = r /\ logout[t] = l /\ socket[t] = s
              => Own(p, q, r, l, s) /\ (Tabs = {t} /\ ~banned /\ ~mislaid => KeptBy(held, cookie, p, q, r, l))
BY DEF ApiInv, TabsTyped, Kept

\* The refresh of a tab under way is no other than the one its requests wait for.
LEMMA JoinsIs ==
  ASSUME ApiInv, NEW t \in Tabs, Joins(t)
  PROVE  /\ refresh'[t].stage # "none" /\ refresh'[t] \in RefreshTypes /\ refresh' \in [Tabs -> RefreshTypes]
         /\ refresh'[t] = refresh[t] \/ (refresh[t].stage = "none" /\ refresh'[t].stage = "sent" /\ refresh'[t].old = cookie.refresh /\ refresh'[t].next = 0)
         /\ \A u \in Tabs \ {t} : refresh'[u] = refresh[u]
         /\ mislaid' \in BOOLEAN /\ (mislaid => mislaid')
         /\ refresh[t].stage = "none" /\ ~mislaid' => logout[t].stage = "none"
<1>1. refresh \in [Tabs -> RefreshTypes] /\ mislaid \in BOOLEAN /\ cookie.refresh \in Nat /\ logout[t] \in LogoutTypes
      /\ (refresh[t].stage = "none" => refresh[t] = NoRefresh) /\ (logout[t].stage = "none" => logout[t] = NoLogout)
  BY TabKnown DEF ApiInv, ServerTyped, TabsTyped, Own
<1>2. CASE refresh[t] # NoRefresh
  BY <1>1, <1>2 DEF Joins
<1>3. CASE refresh[t] = NoRefresh
  <2>1. PICK n : n = [NoRefresh EXCEPT !.stage = "sent", !.old = cookie.refresh]
    OBVIOUS
  <2>2. n \in RefreshTypes /\ n.stage = "sent" /\ n.old = cookie.refresh /\ n.next = 0
    BY <1>1, <2>1, NothingTyped DEF RefreshTypes, NoRefresh
  <2>3. refresh' = [refresh EXCEPT ![t] = n] /\ mislaid' = (mislaid \/ logout[t] # NoLogout)
    BY <1>3, <2>1 DEF Joins
  <2>4. refresh'[t] = n /\ refresh[t].stage = "none" /\ refresh' \in [Tabs -> RefreshTypes]
    BY <1>1, <1>3, <2>2, <2>3, NothingTyped
  <2>5. ~mislaid' => logout[t].stage = "none"
    BY <2>3, NothingTyped
  <2>6. mislaid' \in BOOLEAN /\ (mislaid => mislaid')
    BY <1>1, <2>3
  <2> QED BY <2>2, <2>3, <2>4, <2>5, <2>6
<1> QED BY <1>2, <1>3

LEMMA LoginStep == ASSUME ApiInv, NEW t \in Tabs, Login(t) PROVE ApiInv'
<1>1. PICK k \in Nat, n \in 1..MaxLogins : k = jtis' /\ k # 0 /\ n = logins' /\ held' = [held EXCEPT ![n] = k]
  <2>1. logins' = logins + 1 /\ jtis' = jtis + 1 /\ logins < MaxLogins /\ held' = [held EXCEPT ![logins'] = jtis']
        /\ logins \in Nat /\ jtis \in Nat
    BY DEF Login, ApiInv, ServerTyped
  <2>2. logins' \in 1..MaxLogins /\ jtis' \in Nat /\ jtis' # 0
    BY <2>1, ApiAssumption
  <2> QED BY <2>1, <2>2
<1>2. PICK s : s = [NoSocket EXCEPT !.stage = "connecting"]
  OBVIOUS
<1>3. s \in SocketTypes /\ s.stage = "connecting"
  BY <1>2, NothingTyped DEF SocketTypes, NoSocket
<1>3a. PICK c : c = [access |-> TRUE, refresh |-> k]
  OBVIOUS
<1>4. c = cookie' /\ c \in [access : BOOLEAN, refresh : Nat] /\ c.refresh = k
  BY <1>1, <1>3a DEF Login
<1>5. /\ page' = [page EXCEPT ![t] = "in"] /\ socket' = [socket EXCEPT ![t] = s]
      /\ mislaid' = (\E u \in Tabs : refresh[u] # NoRefresh \/ logout[u] # NoLogout)
      /\ UNCHANGED <<banned, request, refresh, logout>>
  BY <1>2 DEF Login, Enters
<1>6. ServerTyped' /\ TabsTyped'
  <2>1. held' \in [1..MaxLogins -> Nat] /\ logins' \in Nat
    BY <1>1 DEF ApiInv, ServerTyped
  <2>2. mislaid' \in BOOLEAN /\ banned' \in BOOLEAN
    BY <1>5 DEF ApiInv, ServerTyped
  <2> QED BY <1>1, <1>3, <1>4, <1>5, <2>1, <2>2 DEF ApiInv, ServerTyped, TabsTyped
<1>7. page'[t] = "in" /\ socket'[t] = s /\ OneTab(t)
  BY <1>5 DEF ApiInv, TabsTyped, OneTab
<1>8. Own("in", request[t], refresh[t], logout[t], s)
  BY <1>3, TabKnown DEF Own
<1>9. ASSUME ~mislaid' PROVE KeptBy(held', c, "in", request[t], refresh[t], logout[t])
  <2>1. refresh[t] = NoRefresh /\ logout[t] = NoLogout
    BY <1>5, <1>9
  <2>2. HasRow(held', k)
    BY <1>1 DEF ApiInv, ServerTyped, HasRow
  <2> QED BY <1>4, <2>1, <2>2, NothingTyped DEF KeptBy
<1> QED BY <1>4, <1>5, <1>6, <1>7, <1>8, <1>9, InOneTab

LEMMA ReloadStep == ASSUME ApiInv, NEW t \in Tabs, Reload(t) PROVE ApiInv'
<1>1. PICK q : q = [s \in Slots |-> IF s = CHOOSE u \in Slots : TRUE THEN [stage |-> "sent", good |-> cookie.access] ELSE NoRequest]
  OBVIOUS
<1>2. /\ page[t] # "loading" /\ logout[t] = NoLogout
      /\ page' = [page EXCEPT ![t] = "loading"] /\ request' = [request EXCEPT ![t] = q]
      /\ socket' = [socket EXCEPT ![t] = NoSocket] /\ refresh' = [refresh EXCEPT ![t] = NoRefresh]
      /\ mislaid' = (mislaid \/ refresh[t] # NoRefresh)
      /\ UNCHANGED <<logins, banned, cookie, logout>>
  BY <1>1 DEF Reload
<1>3. PICK one : one = CHOOSE u \in Slots : TRUE
  OBVIOUS
<1>4. /\ q \in [Slots -> RequestTypes]
      /\ \A i \in Slots : q[i].stage \in {"none", "sent"} /\ (i # one => q[i].stage = "none")
      /\ \A i \in Slots : q[i].stage = "sent" => q[i].good = cookie.access
  <2>1. PICK n : n = [stage |-> "sent", good |-> cookie.access]
    OBVIOUS
  <2>2. n \in RequestTypes /\ n.stage = "sent" /\ n.good = cookie.access
    BY <2>1 DEF ApiInv, ServerTyped, RequestTypes
  <2>3. q = [s \in Slots |-> IF s = one THEN n ELSE NoRequest]
    BY <1>1, <1>3, <2>1
  <2> QED BY <2>2, <2>3, NothingTyped
<1>5. jtis' \in Nat /\ held' \in [1..MaxLogins -> Nat] /\ (refresh[t] = NoRefresh => held' = held)
  <2>1. CASE UNCHANGED <<held, jtis>>
    BY <2>1 DEF ApiInv, ServerTyped
  <2>2. ASSUME refresh[t].stage \in {"sent", "found"}, jtis' = jtis + 1, NEW n \in Live, held' = [held EXCEPT ![n] = jtis']
        PROVE  jtis' \in Nat /\ held' \in [1..MaxLogins -> Nat] /\ refresh[t] # NoRefresh
    BY <2>2, NothingTyped DEF ApiInv, ServerTyped, Live
  <2> QED BY <2>1, <2>2 DEF Reload
<1>6. ServerTyped' /\ TabsTyped'
  <2>1. mislaid' \in BOOLEAN
    BY <1>2 DEF ApiInv, ServerTyped
  <2> QED BY <1>2, <1>4, <1>5, <2>1, NothingTyped DEF ApiInv, ServerTyped, TabsTyped
<1>7. page'[t] = "loading" /\ request'[t] = q /\ refresh'[t] = NoRefresh /\ socket'[t] = NoSocket /\ logout'[t] = NoLogout /\ OneTab(t)
  BY <1>2 DEF ApiInv, TabsTyped, OneTab
<1>8. Own("loading", q, NoRefresh, NoLogout, NoSocket)
  BY <1>4, NothingTyped DEF Own
<1>9. ASSUME Tabs = {t}, ~banned', ~mislaid' PROVE KeptBy(held', cookie', "loading", q, NoRefresh, NoLogout)
  <2>1. refresh[t] = NoRefresh /\ held' = held /\ cookie' = cookie /\ ~banned /\ ~mislaid
    BY <1>2, <1>5, <1>9
  <2>2. Inside(cookie, "loading", q) => cookie.access
    BY <1>4 DEF Inside
  <2>3. cookie.access => HasRow(held, cookie.refresh)
    BY <1>2, <1>9, <2>1, TabKnown, NothingTyped DEF Kept, KeptBy, Inside
  <2> QED BY <2>1, <2>2, <2>3, NothingTyped DEF KeptBy
<1> QED BY <1>6, <1>7, <1>8, <1>9, InOneTab

LEMMA LogoutStartsStep == ASSUME ApiInv, NEW t \in Tabs, LogoutStarts(t) PROVE ApiInv'
<1>1. PICK l : l = [stage |-> "sent", good |-> cookie.access, old |-> cookie.refresh]
  OBVIOUS
<1>2. l \in LogoutTypes /\ l.stage = "sent"
  BY <1>1 DEF ApiInv, ServerTyped, LogoutTypes
<1>3. /\ page[t] = "in" /\ logout[t] = NoLogout /\ socket' = [socket EXCEPT ![t] = NoSocket]
      /\ logout' = [logout EXCEPT ![t] = l] /\ mislaid' = (mislaid \/ refresh[t] # NoRefresh)
      /\ UNCHANGED <<held, logins, jtis, banned, cookie, page, request, refresh>>
  BY <1>1 DEF LogoutStarts, serverVars
<1>4. ServerTyped' /\ TabsTyped'
  <2>1. mislaid' \in BOOLEAN
    BY <1>3 DEF ApiInv, ServerTyped
  <2> QED BY <1>2, <1>3, <2>1, NothingTyped DEF ApiInv, ServerTyped, TabsTyped
<1>5. logout'[t] = l /\ socket'[t] = NoSocket /\ OneTab(t)
  BY <1>3 DEF ApiInv, TabsTyped, OneTab
<1>6. Own("in", request[t], refresh[t], l, NoSocket)
  BY <1>2, TabKnown, NothingTyped DEF Own
<1>7. ASSUME Tabs = {t}, ~banned', ~mislaid' PROVE KeptBy(held', cookie', "in", request[t], refresh[t], l)
  <2>1. refresh[t] = NoRefresh /\ held' = held /\ cookie' = cookie /\ ~banned /\ ~mislaid
    BY <1>3, <1>7
  <2>2. HasRow(held, cookie.refresh)
    BY <1>3, <1>7, <2>1, TabKnown, NothingTyped DEF Kept, KeptBy, Inside
  <2> QED BY <1>2, <2>1, <2>2, NothingTyped DEF KeptBy
<1> QED BY <1>3, <1>4, <1>5, <1>6, <1>7, InOneTab

LEMMA LogoutServedStep == ASSUME ApiInv, NEW t \in Tabs, LogoutServed(t) PROVE ApiInv'
<1>1. PICK l : l = [logout[t] EXCEPT !.stage = "cleared"]
  OBVIOUS
<1>2. l \in LogoutTypes /\ l.stage = "cleared" /\ logout[t].stage = "sent"
  BY <1>1, TabKnown DEF LogoutTypes, LogoutServed
<1>3. logout' = [logout EXCEPT ![t] = l] /\ UNCHANGED <<logins, jtis, banned, cookie, page, request, refresh, socket, mislaid>>
  BY <1>1 DEF LogoutServed
<1>4. held' \in [1..MaxLogins -> Nat]
  BY DEF LogoutServed, ApiInv, ServerTyped
<1>5. ServerTyped' /\ TabsTyped'
  BY <1>2, <1>3, <1>4 DEF ApiInv, ServerTyped, TabsTyped
<1>6. logout'[t] = l /\ OneTab(t)
  BY <1>3 DEF ApiInv, TabsTyped, OneTab
<1>7. Own(page[t], request[t], refresh[t], l, socket[t])
  BY <1>2, TabKnown DEF Own
<1>8. ASSUME Tabs = {t}, ~banned', ~mislaid' PROVE KeptBy(held', cookie', page[t], request[t], refresh[t], l)
  <2>1. refresh[t].stage = "none"
    BY <1>2, <1>3, <1>8, TabKnown DEF Kept, KeptBy
  <2> QED BY <1>2, <2>1 DEF KeptBy
<1> QED BY <1>3, <1>5, <1>6, <1>7, <1>8, InOneTab

LEMMA LogoutEndsStep == ASSUME ApiInv, NEW t \in Tabs, LogoutEnds(t) PROVE ApiInv'
<1>1. /\ logout[t].stage \in {"sent", "cleared"} /\ logout' = [logout EXCEPT ![t] = NoLogout]
      /\ page' = [page EXCEPT ![t] = "out"] /\ socket' = [socket EXCEPT ![t] = NoSocket]
      /\ UNCHANGED <<held, logins, jtis, banned, request, refresh, mislaid>>
  BY DEF LogoutEnds, serverVars
<1>2. PICK c : /\ c = cookie' /\ c \in [access : BOOLEAN, refresh : Nat]
               /\ c = cookie \/ ~c.access
               /\ logout[t].stage = "cleared" => ~c.access
  <2>1. CASE cookie' = [access |-> FALSE, refresh |-> 0]
    <3>1. PICK d : d = [access |-> FALSE, refresh |-> 0]
      OBVIOUS
    <3>2. d = cookie' /\ d \in [access : BOOLEAN, refresh : Nat] /\ ~d.access
      BY <2>1, <3>1
    <3> QED BY <3>2
  <2>2. CASE logout[t].stage = "sent" /\ cookie' = cookie
    BY <2>2 DEF ApiInv, ServerTyped
  <2> QED BY <2>1, <2>2 DEF LogoutEnds
<1>3. ServerTyped' /\ TabsTyped'
  BY <1>1, <1>2, NothingTyped DEF ApiInv, ServerTyped, TabsTyped
<1>4. logout'[t] = NoLogout /\ page'[t] = "out" /\ socket'[t] = NoSocket /\ OneTab(t)
  BY <1>1 DEF ApiInv, TabsTyped, OneTab
<1>5. Own("out", request[t], refresh[t], NoLogout, NoSocket)
  BY TabKnown, NothingTyped DEF Own
<1>6. ASSUME Tabs = {t}, ~banned', ~mislaid' PROVE KeptBy(held', c, "out", request[t], refresh[t], NoLogout)
  <2>1. refresh[t].stage = "none" /\ (logout[t].stage = "sent" => HasRow(held, cookie.refresh)) /\ held' = held
    BY <1>1, <1>6, TabKnown DEF Kept, KeptBy
  <2> QED BY <1>1, <1>2, <2>1, NothingTyped DEF KeptBy, Inside
<1> QED BY <1>1, <1>2, <1>3, <1>4, <1>5, <1>6, InOneTab


\* One request of a tab takes another stage.
Takes(t, s, n) == request' = [request EXCEPT ![t][s] = n]

LEMMA OneRequest ==
  ASSUME ApiInv, NEW t \in Tabs, NEW s \in Slots, NEW n \in RequestTypes, Takes(t, s, n)
  PROVE  /\ request' \in [Tabs -> [Slots -> RequestTypes]]
         /\ \A u \in Tabs \ {t} : request'[u] = request[u]
         /\ request'[t][s] = n
         /\ \A i \in Slots \ {s} : request'[t][i] = request[t][i]
BY DEF ApiInv, TabsTyped, Takes

LEMMA RefreshReadsStep == ASSUME ApiInv, NEW t \in Tabs, RefreshReads(t) PROVE ApiInv'
<1>1. /\ refresh[t].stage = "sent" /\ refresh[t].next = 0 /\ refresh[t] \in RefreshTypes
      /\ UNCHANGED <<held, logins, jtis, banned, cookie, page, request, logout, socket, mislaid>>
  BY TabKnown DEF RefreshReads, serverVars, Own
<1>2. PICK r \in RefreshTypes :
        /\ refresh' = [refresh EXCEPT ![t] = r] /\ r.stage \in {"found", "answered"} /\ r.next = 0
        /\ r.stage = "found" => r.row \in 1..MaxLogins /\ held[r.row] = r.old /\ r.old # 0
        /\ r.stage = "answered" => \A n \in Live : held[n] # refresh[t].old
  <2>1. ASSUME NEW n \in Live, held[n] = refresh[t].old, refresh' = [refresh EXCEPT ![t].stage = "found", ![t].row = n]
        PROVE  \E r \in RefreshTypes :
                 /\ refresh' = [refresh EXCEPT ![t] = r] /\ r.stage = "found" /\ r.next = 0
                 /\ r.row \in 1..MaxLogins /\ held[r.row] = r.old /\ r.old # 0
    <3>1. PICK r : r = [refresh[t] EXCEPT !.stage = "found", !.row = n]
      OBVIOUS
    <3>2. n \in 1..MaxLogins /\ n \in Nat /\ held[n] # 0
      BY <2>1, ApiAssumption DEF Live
    <3>3. r \in RefreshTypes /\ r.stage = "found" /\ r.next = 0 /\ r.row = n /\ r.old = refresh[t].old
      BY <1>1, <3>1, <3>2 DEF RefreshTypes
    <3>4. refresh' = [refresh EXCEPT ![t] = r]
      BY <2>1, <3>1 DEF ApiInv, TabsTyped
    <3> QED BY <2>1, <3>2, <3>3, <3>4
  <2>2. ASSUME \A n \in Live : held[n] # refresh[t].old, refresh' = [refresh EXCEPT ![t].stage = "answered"]
        PROVE  \E r \in RefreshTypes : refresh' = [refresh EXCEPT ![t] = r] /\ r.stage = "answered" /\ r.next = 0
    <3>1. PICK r : r = [refresh[t] EXCEPT !.stage = "answered"]
      OBVIOUS
    <3>2. r \in RefreshTypes /\ r.stage = "answered" /\ r.next = 0
      BY <1>1, <3>1 DEF RefreshTypes
    <3>3. refresh' = [refresh EXCEPT ![t] = r]
      BY <2>2, <3>1 DEF ApiInv, TabsTyped
    <3> QED BY <3>2, <3>3
  <2> QED BY <2>1, <2>2 DEF RefreshReads
<1>3. ServerTyped' /\ TabsTyped'
  BY <1>1, <1>2 DEF ApiInv, ServerTyped, TabsTyped
<1>4. refresh'[t] = r /\ OneTab(t)
  BY <1>1, <1>2 DEF ApiInv, TabsTyped, OneTab
<1>5. Own(page[t], request[t], r, logout[t], socket[t])
  BY <1>1, <1>2, TabKnown DEF Own
<1>6. ASSUME Tabs = {t}, ~banned', ~mislaid' PROVE KeptBy(held', cookie', page[t], request[t], r, logout[t])
  <2>1. KeptBy(held, cookie, page[t], request[t], refresh[t], logout[t])
    BY <1>1, <1>6, TabKnown
  <2>2. r.stage = "answered" => ~HasRow(held, refresh[t].old)
    BY <1>2 DEF HasRow, Live
  <2> QED BY <1>1, <1>2, <2>1, <2>2 DEF KeptBy
<1> QED BY <1>1, <1>3, <1>4, <1>5, <1>6, InOneTab

LEMMA RefreshWritesStep == ASSUME ApiInv, NEW t \in Tabs, RefreshWrites(t) PROVE ApiInv'
<1>1. PICK k \in Nat : k = jtis' /\ k # 0 /\ held' = [held EXCEPT ![refresh[t].row] = IF @ = 0 THEN 0 ELSE k]
  <2>1. jtis' \in Nat /\ jtis' # 0
    BY DEF RefreshWrites, ApiInv, ServerTyped
  <2> QED BY <2>1 DEF RefreshWrites
<1>2. PICK next \in Nat : next = (IF banned THEN 0 ELSE k)
  BY <1>1
<1>3. PICK r : r = [refresh[t] EXCEPT !.stage = "answered", !.next = next]
  OBVIOUS
<1>4. r \in RefreshTypes /\ r.stage = "answered" /\ r.next = next /\ refresh[t].stage = "found"
  BY <1>3, TabKnown DEF RefreshTypes, RefreshWrites
<1>5. /\ refresh' = [refresh EXCEPT ![t] = r]
      /\ UNCHANGED <<logins, banned, cookie, page, request, logout, socket, mislaid>>
  BY <1>1, <1>2, <1>3 DEF RefreshWrites, ApiInv, TabsTyped
<1>6. held' \in [1..MaxLogins -> Nat]
  BY <1>1 DEF ApiInv, ServerTyped
<1>7. ServerTyped' /\ TabsTyped'
  BY <1>1, <1>4, <1>5, <1>6 DEF ApiInv, ServerTyped, TabsTyped
<1>8. refresh'[t] = r /\ OneTab(t)
  BY <1>5 DEF ApiInv, TabsTyped, OneTab
<1>9. Own(page[t], request[t], r, logout[t], socket[t])
  BY <1>4, TabKnown DEF Own
<1>10. ASSUME Tabs = {t}, ~banned', ~mislaid' PROVE KeptBy(held', cookie', page[t], request[t], r, logout[t])
  <2>1. KeptBy(held, cookie, page[t], request[t], refresh[t], logout[t]) /\ next = k
    BY <1>2, <1>5, <1>10, TabKnown
  <2>2. refresh[t].row \in 1..MaxLogins /\ held[refresh[t].row] # 0 /\ logout[t].stage = "none"
    BY <1>4, <2>1 DEF KeptBy
  <2>3. HasRow(held', k)
    BY <1>1, <2>2 DEF HasRow, ApiInv, ServerTyped
  <2> QED BY <1>1, <1>4, <2>1, <2>2, <2>3 DEF KeptBy
<1> QED BY <1>5, <1>7, <1>8, <1>9, <1>10, InOneTab

LEMMA RefreshSucceedsStep == ASSUME ApiInv, NEW t \in Tabs, RefreshSucceeds(t) PROVE ApiInv'
<1>1. /\ refresh[t].stage = "answered" /\ refresh[t].next # 0 /\ refresh[t].next \in Nat
      /\ refresh' = [refresh EXCEPT ![t] = NoRefresh]
      /\ UNCHANGED <<held, logins, jtis, banned, page, logout, mislaid>>
  BY TabKnown DEF RefreshSucceeds, serverVars, RefreshTypes
<1>2. PICK c : c = [access |-> TRUE, refresh |-> refresh[t].next]
  OBVIOUS
<1>3. c = cookie' /\ c \in [access : BOOLEAN, refresh : Nat] /\ c.refresh = refresh[t].next
  BY <1>1, <1>2 DEF RefreshSucceeds
<1>4. PICK n : n = [stage |-> "again", good |-> TRUE]
  OBVIOUS
<1>5. n \in RequestTypes /\ n.stage = "again" /\ n.good
  BY <1>4 DEF RequestTypes
<1>6. PICK q : q = [i \in Slots |-> IF request[t][i].stage = "waiting" THEN n ELSE request[t][i]]
  OBVIOUS
<1>7. request' = [request EXCEPT ![t] = q] /\ q \in [Slots -> RequestTypes]
  BY <1>4, <1>5, <1>6, TabKnown DEF RefreshSucceeds, ApiInv, TabsTyped
<1>8. PICK k : k = (IF socket[t].stage = "parked" THEN "connecting" ELSE socket[t].stage)
  OBVIOUS
<1>9. PICK s : s = [socket[t] EXCEPT !.stage = k]
  OBVIOUS
<1>10. s \in SocketTypes /\ s.stage = k
  BY <1>8, <1>9, TabKnown DEF SocketTypes
<1>11. socket' = [socket EXCEPT ![t] = s]
  BY <1>8, <1>9 DEF RefreshSucceeds, ApiInv, TabsTyped
<1>12. ServerTyped' /\ TabsTyped'
  BY <1>1, <1>3, <1>7, <1>10, <1>11, NothingTyped DEF ApiInv, ServerTyped, TabsTyped
<1>13. request'[t] = q /\ refresh'[t] = NoRefresh /\ socket'[t] = s /\ OneTab(t)
  BY <1>1, <1>7, <1>11 DEF ApiInv, TabsTyped, OneTab
<1>14. \A i \in Slots : /\ q[i].stage # "waiting" /\ (q[i].stage = "again" => q[i].good)
                        /\ request[t][i].stage = "none" => q[i].stage = "none"
  BY <1>5, <1>6, TabKnown DEF Own
<1>15. Own(page[t], q, NoRefresh, logout[t], s)
  BY <1>8, <1>10, <1>14, TabKnown, NothingTyped DEF Own
<1>16. ASSUME Tabs = {t}, ~banned', ~mislaid' PROVE KeptBy(held', c, page[t], q, NoRefresh, logout[t])
  <2>1. HasRow(held, refresh[t].next) /\ logout[t].stage = "none"
    BY <1>1, <1>16, TabKnown DEF Kept, KeptBy
  <2> QED BY <1>1, <1>3, <2>1, NothingTyped DEF KeptBy
<1> QED BY <1>1, <1>3, <1>12, <1>13, <1>15, <1>16, InOneTab

\* The requests that waited for a refresh end with it.
LEMMA FailedIs ==
  ASSUME ApiInv, NEW t \in Tabs, request' = Failed(t)
  PROVE  /\ request' \in [Tabs -> [Slots -> RequestTypes]]
         /\ \A u \in Tabs \ {t} : request'[u] = request[u]
         /\ \A i \in Slots : /\ request'[t][i].stage # "waiting"
                             /\ request'[t][i] = request[t][i] \/ request'[t][i].stage = "none"
<1>1. PICK q : q = [i \in Slots |-> IF request[t][i].stage = "waiting" THEN NoRequest ELSE request[t][i]]
  OBVIOUS
<1>2. request' = [request EXCEPT ![t] = q] /\ q \in [Slots -> RequestTypes]
  BY <1>1, TabKnown, NothingTyped DEF Failed, ApiInv, TabsTyped
<1> QED BY <1>1, <1>2, TabKnown, NothingTyped DEF ApiInv, TabsTyped

LEMMA RefreshFailsStep == ASSUME ApiInv, NEW t \in Tabs, RefreshFails(t) PROVE ApiInv'
<1>1. /\ refresh[t].stage = "answered" /\ refresh[t].next = 0
      /\ refresh' = [refresh EXCEPT ![t] = NoRefresh] /\ request' = Failed(t)
      /\ page' = [page EXCEPT ![t] = "out"] /\ socket' = [socket EXCEPT ![t] = NoSocket]
      /\ UNCHANGED <<held, logins, jtis, banned, cookie, logout, mislaid>>
  BY DEF RefreshFails, Expires, serverVars
<1>2. PICK q : q = request'[t]
  OBVIOUS
<1>3. ServerTyped' /\ TabsTyped'
  BY <1>1, FailedIs, NothingTyped DEF ApiInv, ServerTyped, TabsTyped
<1>4. page'[t] = "out" /\ refresh'[t] = NoRefresh /\ socket'[t] = NoSocket /\ OneTab(t)
  BY <1>1, FailedIs DEF ApiInv, TabsTyped, OneTab
<1>5. Own("out", q, NoRefresh, logout[t], NoSocket)
  <2>1. \A i \in Slots : q[i].stage # "waiting" /\ (q[i] = request[t][i] \/ q[i].stage = "none")
    BY <1>1, <1>2, FailedIs
  <2>2. \A i \in Slots : request[t][i].stage = "again" => request[t][i].good
    BY TabKnown DEF Own
  <2>3. logout[t].stage = "none" => logout[t] = NoLogout
    BY TabKnown DEF Own
  <2> QED BY <2>1, <2>2, <2>3, NothingTyped DEF Own
<1>6. ASSUME Tabs = {t}, ~banned', ~mislaid' PROVE KeptBy(held', cookie', "out", q, NoRefresh, logout[t])
  <2>1. KeptBy(held, cookie, page[t], request[t], refresh[t], logout[t])
    BY <1>1, <1>6, TabKnown
  <2>2. logout[t].stage = "none" /\ ~cookie.access
    BY <1>1, <2>1 DEF KeptBy, Inside
  <2> QED BY <1>1, <2>2, NothingTyped DEF KeptBy, Inside
<1> QED BY <1>1, <1>2, <1>3, <1>4, <1>5, <1>6, InOneTab

LEMMA RefreshLostStep == ASSUME ApiInv, NEW t \in Tabs, RefreshLost(t) PROVE ApiInv'
<1>1. /\ refresh' = [refresh EXCEPT ![t] = NoRefresh] /\ request' = Failed(t) /\ mislaid' = TRUE
      /\ page' = [page EXCEPT ![t] = "out"] /\ socket' = [socket EXCEPT ![t] = NoSocket]
      /\ UNCHANGED <<logins, banned, cookie, logout>>
  BY DEF RefreshLost, Expires
<1>2. PICK q : q = request'[t]
  OBVIOUS
<1>3. held' \in [1..MaxLogins -> Nat] /\ jtis' \in Nat
  BY DEF RefreshLost, ApiInv, ServerTyped
<1>4. ServerTyped' /\ TabsTyped'
  BY <1>1, <1>3, FailedIs, NothingTyped DEF ApiInv, ServerTyped, TabsTyped
<1>5. page'[t] = "out" /\ refresh'[t] = NoRefresh /\ socket'[t] = NoSocket /\ OneTab(t)
  BY <1>1, FailedIs DEF ApiInv, TabsTyped, OneTab
<1>6. Own("out", q, NoRefresh, logout[t], NoSocket)
  <2>1. \A i \in Slots : q[i].stage # "waiting" /\ (q[i] = request[t][i] \/ q[i].stage = "none")
    BY <1>1, <1>2, FailedIs
  <2>2. \A i \in Slots : request[t][i].stage = "again" => request[t][i].good
    BY TabKnown DEF Own
  <2>3. logout[t].stage = "none" => logout[t] = NoLogout
    BY TabKnown DEF Own
  <2> QED BY <2>1, <2>2, <2>3, NothingTyped DEF Own
<1> QED BY <1>1, <1>2, <1>4, <1>5, <1>6, InOneTab


LEMMA SendsStep == ASSUME ApiInv, NEW t \in Tabs, NEW s \in Slots, Sends(t, s) PROVE ApiInv'
<1>1. PICK n : n = [stage |-> "sent", good |-> cookie.access]
  OBVIOUS
<1>2. n \in RequestTypes /\ n.stage = "sent"
  BY <1>1 DEF ApiInv, ServerTyped, RequestTypes
<1>3. /\ page[t] = "in" /\ request' = [request EXCEPT ![t][s] = n]
      /\ UNCHANGED <<held, logins, jtis, banned, cookie, page, refresh, logout, socket, mislaid>>
  BY <1>1 DEF Sends, serverVars
<1>4. PICK q : q = request'[t]
  OBVIOUS
<1>5. /\ request' \in [Tabs -> [Slots -> RequestTypes]] /\ \A u \in Tabs \ {t} : request'[u] = request[u]
      /\ q[s] = n /\ \A i \in Slots \ {s} : q[i] = request[t][i]
  <2>1. n \in RequestTypes /\ Takes(t, s, n)
    BY <1>2, <1>3 DEF Takes
  <2>2. /\ request' \in [Tabs -> [Slots -> RequestTypes]] /\ \A u \in Tabs \ {t} : request'[u] = request[u]
        /\ request'[t][s] = n /\ \A i \in Slots \ {s} : request'[t][i] = request[t][i]
    BY <2>1, OneRequest
  <2> QED BY <1>4, <2>2
<1>6. ServerTyped' /\ TabsTyped' /\ OneTab(t)
  BY <1>3, <1>5 DEF ApiInv, ServerTyped, TabsTyped, OneTab
<1>7. Own("in", q, refresh[t], logout[t], socket[t])
  <2>1. (\E i \in Slots : q[i].stage = "waiting") => \E i \in Slots : request[t][i].stage = "waiting"
    BY <1>2, <1>5
  <2>2. \A i \in Slots : q[i].stage = "again" => q[i].good
    BY <1>2, <1>5, TabKnown DEF Own
  <2> QED BY <2>1, <2>2, TabKnown DEF Own
<1>8. ASSUME Tabs = {t}, ~banned', ~mislaid' PROVE KeptBy(held', cookie', "in", q, refresh[t], logout[t])
  BY <1>3, <1>8, TabKnown DEF Kept, KeptBy, Inside
<1> QED BY <1>3, <1>4, <1>6, <1>7, <1>8, InOneTab

LEMMA AnsweredStep == ASSUME ApiInv, NEW t \in Tabs, NEW s \in Slots, Answered(t, s) PROVE ApiInv'
<1>1. /\ request[t][s].stage \in {"sent", "again"} /\ request[t][s].good /\ ~banned
      /\ request' = [request EXCEPT ![t][s] = NoRequest]
      /\ UNCHANGED <<held, logins, jtis, banned, cookie, refresh, logout, mislaid>>
  BY DEF Answered, serverVars
<1>2. PICK p, k : /\ p = page'[t] /\ k = socket'[t] /\ p \in {"in", "out"} /\ k \in SocketTypes
                  /\ page' = [page EXCEPT ![t] = p] /\ socket' = [socket EXCEPT ![t] = k]
                  /\ k.stage = "parked" => socket[t].stage = "parked"
                  /\ IF page[t] = "loading" THEN p = "in" ELSE p = page[t]
  <2>1. CASE page[t] = "loading"
    <3>1. PICK k : k = [NoSocket EXCEPT !.stage = "connecting"]
      OBVIOUS
    <3>2. k \in SocketTypes /\ k.stage = "connecting"
      BY <3>1, NothingTyped DEF SocketTypes
    <3>3. page' = [page EXCEPT ![t] = "in"] /\ socket' = [socket EXCEPT ![t] = k]
      BY <2>1, <3>1 DEF Answered, Enters
    <3>4. page'[t] = "in" /\ socket'[t] = k
      BY <3>3 DEF ApiInv, TabsTyped
    <3> QED BY <2>1, <3>2, <3>3, <3>4
  <2>2. CASE page[t] # "loading"
    <3>1. page' = page /\ socket' = socket
      BY <2>2 DEF Answered
    <3>2. page' = [page EXCEPT ![t] = page[t]] /\ socket' = [socket EXCEPT ![t] = socket[t]]
      BY <3>1 DEF ApiInv, TabsTyped
    <3> QED BY <2>2, <3>1, <3>2, TabKnown
  <2> QED BY <2>1, <2>2
<1>3. PICK q : q = request'[t]
  OBVIOUS
<1>4. /\ request' \in [Tabs -> [Slots -> RequestTypes]] /\ \A u \in Tabs \ {t} : request'[u] = request[u]
      /\ q[s] = NoRequest /\ \A i \in Slots \ {s} : q[i] = request[t][i]
  <2>1. NoRequest \in RequestTypes /\ Takes(t, s, NoRequest)
    BY <1>1, NothingTyped DEF Takes
  <2>2. /\ request' \in [Tabs -> [Slots -> RequestTypes]] /\ \A u \in Tabs \ {t} : request'[u] = request[u]
        /\ request'[t][s] = NoRequest /\ \A i \in Slots \ {s} : request'[t][i] = request[t][i]
    BY <2>1, OneRequest
  <2> QED BY <1>3, <2>2
<1>5. ServerTyped' /\ TabsTyped' /\ OneTab(t)
  BY <1>1, <1>2, <1>4 DEF ApiInv, ServerTyped, TabsTyped, OneTab
<1>6. Own(p, q, refresh[t], logout[t], k)
  <2>1. (\E i \in Slots : q[i].stage = "waiting") => \E i \in Slots : request[t][i].stage = "waiting"
    BY <1>4, NothingTyped
  <2>2. \A i \in Slots : q[i].stage = "again" => q[i].good
    BY <1>4, NothingTyped, TabKnown DEF Own
  <2> QED BY <1>2, <2>1, <2>2, TabKnown DEF Own
<1>7. ASSUME Tabs = {t}, ~banned', ~mislaid' PROVE KeptBy(held', cookie', p, q, refresh[t], logout[t])
  <2>1. KeptBy(held, cookie, page[t], request[t], refresh[t], logout[t])
    BY <1>1, <1>7, TabKnown
  <2>2. Inside(cookie, p, q) => Inside(cookie, page[t], request[t])
    BY <1>1, <1>2 DEF Inside
  <2> QED BY <1>1, <2>1, <2>2 DEF KeptBy
<1> QED BY <1>1, <1>2, <1>3, <1>5, <1>6, <1>7, InOneTab

LEMMA UnansweredStep == ASSUME ApiInv, NEW t \in Tabs, NEW s \in Slots, Unanswered(t, s) PROVE ApiInv'
<1>1. /\ request' = [request EXCEPT ![t][s] = NoRequest]
      /\ UNCHANGED <<held, logins, jtis, banned, cookie, refresh, logout, socket, mislaid>>
  BY DEF Unanswered, serverVars
<1>2. PICK p : /\ p = page'[t] /\ page' = [page EXCEPT ![t] = p] /\ p \in {"in", "out"}
               /\ p = "in" => page[t] = "in"
  BY TabKnown DEF Unanswered, ApiInv, TabsTyped
<1>3. PICK q : q = request'[t]
  OBVIOUS
<1>4. /\ request' \in [Tabs -> [Slots -> RequestTypes]] /\ \A u \in Tabs \ {t} : request'[u] = request[u]
      /\ q[s] = NoRequest /\ \A i \in Slots \ {s} : q[i] = request[t][i]
  <2>1. NoRequest \in RequestTypes /\ Takes(t, s, NoRequest)
    BY <1>1, NothingTyped DEF Takes
  <2>2. /\ request' \in [Tabs -> [Slots -> RequestTypes]] /\ \A u \in Tabs \ {t} : request'[u] = request[u]
        /\ request'[t][s] = NoRequest /\ \A i \in Slots \ {s} : request'[t][i] = request[t][i]
    BY <2>1, OneRequest
  <2> QED BY <1>3, <2>2
<1>5. ServerTyped' /\ TabsTyped' /\ OneTab(t)
  BY <1>1, <1>2, <1>4 DEF ApiInv, ServerTyped, TabsTyped, OneTab
<1>6. Own(p, q, refresh[t], logout[t], socket[t])
  <2>1. (\E i \in Slots : q[i].stage = "waiting") => \E i \in Slots : request[t][i].stage = "waiting"
    BY <1>4, NothingTyped
  <2>2. \A i \in Slots : q[i].stage = "again" => q[i].good
    BY <1>4, NothingTyped, TabKnown DEF Own
  <2> QED BY <1>2, <2>1, <2>2, TabKnown DEF Own
<1>7. ASSUME Tabs = {t}, ~banned', ~mislaid' PROVE KeptBy(held', cookie', p, q, refresh[t], logout[t])
  <2>1. KeptBy(held, cookie, page[t], request[t], refresh[t], logout[t])
    BY <1>1, <1>7, TabKnown
  <2>2. Inside(cookie, p, q) => Inside(cookie, page[t], request[t])
    BY <1>2 DEF Inside
  <2> QED BY <1>1, <2>1, <2>2 DEF KeptBy
<1> QED BY <1>1, <1>2, <1>3, <1>5, <1>6, <1>7, InOneTab

LEMMA RefusedWaits ==
  ASSUME ApiInv, NEW t \in Tabs, NEW s \in Slots, Refused(t, s), request[t][s].stage = "sent" PROVE ApiInv'
<1>1. PICK n : n = [request[t][s] EXCEPT !.stage = "waiting"]
  OBVIOUS
<1>2. n \in RequestTypes /\ n.stage = "waiting"
  BY <1>1, TabKnown DEF RequestTypes
<1>3. /\ request' = [request EXCEPT ![t][s] = n] /\ Joins(t)
      /\ UNCHANGED <<held, logins, jtis, banned, cookie, page, logout, socket>>
  BY <1>1 DEF Refused, serverVars, ApiInv, TabsTyped
<1>4. PICK q, r : q = request'[t] /\ r = refresh'[t]
  OBVIOUS
<1>5. /\ request' \in [Tabs -> [Slots -> RequestTypes]] /\ \A u \in Tabs \ {t} : request'[u] = request[u]
      /\ q[s] = n /\ \A i \in Slots \ {s} : q[i] = request[t][i]
  <2>1. n \in RequestTypes /\ Takes(t, s, n)
    BY <1>2, <1>3 DEF Takes
  <2>2. /\ request' \in [Tabs -> [Slots -> RequestTypes]] /\ \A u \in Tabs \ {t} : request'[u] = request[u]
        /\ request'[t][s] = n /\ \A i \in Slots \ {s} : request'[t][i] = request[t][i]
    BY <2>1, OneRequest
  <2> QED BY <1>4, <2>2
<1>6. /\ r.stage # "none" /\ refresh' \in [Tabs -> RefreshTypes]
      /\ \/ r = refresh[t] /\ refresh[t].stage # "none"
         \/ refresh[t].stage = "none" /\ r.stage = "sent" /\ r.old = cookie.refresh /\ r.next = 0
      /\ \A u \in Tabs \ {t} : refresh'[u] = refresh[u]
      /\ mislaid' \in BOOLEAN /\ (mislaid => mislaid')
      /\ refresh[t].stage = "none" /\ ~mislaid' => logout[t].stage = "none"
  BY <1>3, <1>4, JoinsIs
<1>7. ServerTyped' /\ TabsTyped' /\ OneTab(t)
  BY <1>3, <1>5, <1>6 DEF ApiInv, ServerTyped, TabsTyped, OneTab
<1>8. Own(page[t], q, r, logout[t], socket[t])
  <2>1. \A i \in Slots : q[i].stage = "again" => q[i].good
    BY <1>2, <1>5, TabKnown DEF Own
  <2>2. r.stage # "answered" => r.next = 0
    BY <1>6, TabKnown DEF Own
  <2>3. ASSUME page[t] = "loading"
        PROVE  /\ socket[t].stage = "none" /\ logout[t].stage = "none"
               /\ \A i, j \in Slots : i # j => q[i].stage = "none" \/ q[j].stage = "none"
               /\ \A i \in Slots : q[i].stage \in {"none", "waiting"}
    <3>1. \A i \in Slots \ {s} : request[t][i].stage = "none"
      BY <2>3, TabKnown DEF Own
    <3> QED BY <1>2, <1>5, <2>3, <3>1, TabKnown DEF Own
  <2> QED BY <1>6, <2>1, <2>2, <2>3, TabKnown DEF Own
<1>9. ASSUME Tabs = {t}, ~banned', ~mislaid' PROVE KeptBy(held', cookie', page[t], q, r, logout[t])
  <2>1. KeptBy(held, cookie, page[t], request[t], refresh[t], logout[t])
    BY <1>3, <1>6, <1>9, TabKnown
  <2>2. Inside(cookie, page[t], q) => Inside(cookie, page[t], request[t])
    BY <1>2, <1>5 DEF Inside
  <2> QED BY <1>3, <1>6, <1>9, <2>1, <2>2 DEF KeptBy
<1> QED BY <1>3, <1>4, <1>7, <1>8, <1>9, InOneTab

LEMMA RefusedTwice ==
  ASSUME ApiInv, NEW t \in Tabs, NEW s \in Slots, Refused(t, s), request[t][s].stage # "sent" PROVE ApiInv' /\ banned
<1>1. /\ request[t][s].stage = "again" /\ request' = [request EXCEPT ![t][s] = NoRequest]
      /\ page' = [page EXCEPT ![t] = "out"] /\ socket' = [socket EXCEPT ![t] = NoSocket]
      /\ UNCHANGED <<held, logins, jtis, banned, cookie, refresh, logout, mislaid>>
  BY DEF Refused, Expires, serverVars
<1>2. banned
  BY <1>1, TabKnown DEF Refused, Own
<1>3. PICK q : q = request'[t]
  OBVIOUS
<1>4. /\ request' \in [Tabs -> [Slots -> RequestTypes]] /\ \A u \in Tabs \ {t} : request'[u] = request[u]
      /\ q[s] = NoRequest /\ \A i \in Slots \ {s} : q[i] = request[t][i]
  <2>1. NoRequest \in RequestTypes /\ Takes(t, s, NoRequest)
    BY <1>1, NothingTyped DEF Takes
  <2>2. /\ request' \in [Tabs -> [Slots -> RequestTypes]] /\ \A u \in Tabs \ {t} : request'[u] = request[u]
        /\ request'[t][s] = NoRequest /\ \A i \in Slots \ {s} : request'[t][i] = request[t][i]
    BY <2>1, OneRequest
  <2> QED BY <1>3, <2>2
<1>5. ServerTyped' /\ TabsTyped' /\ OneTab(t) /\ page'[t] = "out" /\ socket'[t] = NoSocket
  BY <1>1, <1>4, NothingTyped DEF ApiInv, ServerTyped, TabsTyped, OneTab
<1>6. Own("out", q, refresh[t], logout[t], NoSocket)
  <2>1. (\E i \in Slots : q[i].stage = "waiting") => \E i \in Slots : request[t][i].stage = "waiting"
    BY <1>4, NothingTyped
  <2>2. \A i \in Slots : q[i].stage = "again" => q[i].good
    BY <1>4, NothingTyped, TabKnown DEF Own
  <2> QED BY <2>1, <2>2, TabKnown, NothingTyped DEF Own
<1> QED BY <1>1, <1>2, <1>3, <1>5, <1>6, InOneTab

LEMMA SocketMoves ==
  ASSUME ApiInv, NEW t \in Tabs, SocketOpens(t) \/ SocketStable(t) \/ SocketDrops(t) PROVE ApiInv'
<1>1. UNCHANGED <<held, logins, jtis, banned, cookie, page, request, refresh, logout, mislaid>>
  BY DEF SocketOpens, SocketStable, SocketDrops, serverVars
<1>2. PICK k \in SocketTypes : /\ socket' = [socket EXCEPT ![t] = k]
                               /\ k.stage = "parked" => socket[t].stage = "parked"
                               /\ socket[t].stage = "none" => k.stage = "none"
  <2>1. CASE SocketOpens(t)
    <3>1. PICK k : k = [socket[t] EXCEPT !.stage = "up", !.good = cookie.access, !.timer = TRUE]
      OBVIOUS
    <3>2. k \in SocketTypes /\ k.stage = "up"
      BY <3>1, TabKnown DEF SocketTypes, ApiInv, ServerTyped
    <3>3. socket' = [socket EXCEPT ![t] = k] /\ socket[t].stage = "connecting"
      BY <2>1, <3>1 DEF SocketOpens, ApiInv, TabsTyped
    <3> QED BY <3>2, <3>3
  <2>2. CASE SocketStable(t)
    <3>1. PICK k : k = [socket[t] EXCEPT !.timer = FALSE, !.retried = FALSE]
      OBVIOUS
    <3>2. k \in SocketTypes /\ k.stage = socket[t].stage
      BY <3>1, TabKnown DEF SocketTypes
    <3>3. socket' = [socket EXCEPT ![t] = k]
      BY <2>2, <3>1 DEF SocketStable, ApiInv, TabsTyped
    <3> QED BY <3>2, <3>3
  <2>3. CASE SocketDrops(t)
    <3>1. PICK k : k = [socket[t] EXCEPT !.stage = "connecting", !.good = FALSE]
      OBVIOUS
    <3>2. k \in SocketTypes /\ k.stage = "connecting"
      BY <3>1, TabKnown DEF SocketTypes
    <3>3. socket' = [socket EXCEPT ![t] = k] /\ socket[t].stage = "up"
      BY <2>3, <3>1 DEF SocketDrops, ApiInv, TabsTyped
    <3> QED BY <3>2, <3>3
  <2> QED BY <2>1, <2>2, <2>3
<1>3. ServerTyped' /\ TabsTyped' /\ OneTab(t) /\ socket'[t] = k
  BY <1>1, <1>2 DEF ApiInv, ServerTyped, TabsTyped, OneTab
<1>4. Own(page[t], request[t], refresh[t], logout[t], k)
  BY <1>2, TabKnown DEF Own
<1>5. ASSUME Tabs = {t}, ~banned', ~mislaid' PROVE KeptBy(held', cookie', page[t], request[t], refresh[t], logout[t])
  BY <1>1, <1>5, TabKnown
<1> QED BY <1>1, <1>3, <1>4, <1>5, InOneTab

LEMMA CutOffStep ==
  ASSUME ApiInv, NEW t \in Tabs, CutOff(t), UNCHANGED <<serverVars, cookie, request, logout>> PROVE ApiInv'
<1>1. UNCHANGED <<held, logins, jtis, banned, cookie, request, logout>> /\ socket[t].stage = "up"
  BY DEF serverVars, CutOff
<1>2. CASE socket[t].retried
  <2>1. page' = [page EXCEPT ![t] = "out"] /\ socket' = [socket EXCEPT ![t] = NoSocket] /\ UNCHANGED <<refresh, mislaid>>
    BY <1>2 DEF CutOff, Expires
  <2>2. ServerTyped' /\ TabsTyped' /\ OneTab(t) /\ page'[t] = "out" /\ socket'[t] = NoSocket
    BY <1>1, <2>1, NothingTyped DEF ApiInv, ServerTyped, TabsTyped, OneTab
  <2>3. Own("out", request[t], refresh[t], logout[t], NoSocket)
    BY TabKnown, NothingTyped DEF Own
  <2>4. ASSUME Tabs = {t}, ~banned', ~mislaid' PROVE KeptBy(held', cookie', "out", request[t], refresh[t], logout[t])
    <3>1. KeptBy(held, cookie, page[t], request[t], refresh[t], logout[t])
      BY <1>1, <2>1, <2>4, TabKnown
    <3> QED BY <1>1, <3>1 DEF KeptBy, Inside
  <2> QED BY <1>1, <2>1, <2>2, <2>3, <2>4, InOneTab
<1>3. CASE ~socket[t].retried
  <2>1. PICK k : k = [NoSocket EXCEPT !.stage = "parked", !.retried = TRUE]
    OBVIOUS
  <2>2. k \in SocketTypes /\ k.stage = "parked"
    BY <2>1, NothingTyped DEF SocketTypes
  <2>3. socket' = [socket EXCEPT ![t] = k] /\ Joins(t) /\ page' = page
    BY <1>3, <2>1 DEF CutOff
  <2>4. PICK r : r = refresh'[t]
    OBVIOUS
  <2>5. /\ r.stage # "none" /\ refresh' \in [Tabs -> RefreshTypes]
        /\ \/ r = refresh[t] /\ refresh[t].stage # "none"
           \/ refresh[t].stage = "none" /\ r.stage = "sent" /\ r.old = cookie.refresh /\ r.next = 0
        /\ \A u \in Tabs \ {t} : refresh'[u] = refresh[u]
        /\ mislaid' \in BOOLEAN /\ (mislaid => mislaid')
        /\ refresh[t].stage = "none" /\ ~mislaid' => logout[t].stage = "none"
    BY <2>3, <2>4, JoinsIs
  <2>6. ServerTyped' /\ TabsTyped' /\ OneTab(t) /\ socket'[t] = k
    BY <1>1, <2>2, <2>3, <2>5 DEF ApiInv, ServerTyped, TabsTyped, OneTab
  <2>7. Own(page[t], request[t], r, logout[t], k)
    BY <1>1, <2>2, <2>5, TabKnown DEF Own
  <2>8. ASSUME Tabs = {t}, ~banned', ~mislaid' PROVE KeptBy(held', cookie', page[t], request[t], r, logout[t])
    <3>1. KeptBy(held, cookie, page[t], request[t], refresh[t], logout[t])
      BY <1>1, <2>5, <2>8, TabKnown
    <3> QED BY <1>1, <2>5, <2>8, <3>1 DEF KeptBy
  <2> QED BY <1>1, <2>3, <2>4, <2>6, <2>7, <2>8, InOneTab
<1> QED BY <1>2, <1>3

LEMMA BanStep == ASSUME ApiInv, Ban PROVE ApiInv'
<1>1. banned' = TRUE /\ UNCHANGED <<logins, jtis, cookie, page, request, refresh, logout, socket, mislaid>>
  BY DEF Ban
<1>2. held' \in [1..MaxLogins -> Nat]
  BY DEF Ban
<1> QED BY <1>1, <1>2 DEF ApiInv, ServerTyped, TabsTyped, Kept

LEMMA ExpiryStep == ASSUME ApiInv, AccessExpires PROVE ApiInv'
<1>1. UNCHANGED <<held, logins, jtis, banned, page, request, refresh, logout, socket, mislaid>>
  BY DEF AccessExpires, serverVars
<1>2. PICK c : c = [cookie EXCEPT !.access = FALSE]
  OBVIOUS
<1>3. c = cookie' /\ c \in [access : BOOLEAN, refresh : Nat] /\ ~c.access /\ c.refresh = cookie.refresh
  BY <1>2 DEF AccessExpires, ApiInv, ServerTyped
<1>4. ServerTyped' /\ TabsTyped'
  BY <1>1, <1>3 DEF ApiInv, ServerTyped, TabsTyped
<1>5. ASSUME NEW t \in Tabs PROVE Own(page[t], request[t], refresh[t], logout[t], socket[t])'
  BY <1>1, TabKnown
<1>6. ASSUME NEW t \in Tabs PROVE Kept(t)'
  BY <1>1, <1>3, TabKnown DEF Kept, KeptBy, Inside
<1> QED BY <1>4, <1>5, <1>6 DEF ApiInv

LEMMA ApiStep == ASSUME ApiInv, [ApiNext]_apiVars PROVE ApiInv'
<1>1. CASE Ban \/ AccessExpires
  BY <1>1, BanStep, ExpiryStep
<1>2. ASSUME NEW t \in Tabs,
             \/ Login(t) \/ Reload(t) \/ LogoutStarts(t) \/ LogoutServed(t) \/ LogoutEnds(t)
             \/ RefreshReads(t) \/ RefreshWrites(t) \/ RefreshSucceeds(t) \/ RefreshFails(t) \/ RefreshLost(t)
      PROVE  ApiInv'
  BY <1>2, LoginStep, ReloadStep, LogoutStartsStep, LogoutServedStep, LogoutEndsStep, RefreshReadsStep,
     RefreshWritesStep, RefreshSucceedsStep, RefreshFailsStep, RefreshLostStep
<1>3. ASSUME NEW t \in Tabs, SocketOpens(t) \/ SocketStable(t) \/ SocketDrops(t) PROVE ApiInv'
  BY <1>3, SocketMoves
<1>4. ASSUME NEW t \in Tabs, Rejects(t) \/ Kicks(t) PROVE ApiInv'
  <2>1. CutOff(t) /\ UNCHANGED <<serverVars, cookie, request, logout>>
    BY <1>4 DEF Rejects, Kicks
  <2> QED BY <2>1, CutOffStep
<1>5. ASSUME NEW t \in Tabs, NEW s \in Slots, Sends(t, s) \/ Answered(t, s) \/ Unanswered(t, s) \/ Refused(t, s)
      PROVE  ApiInv'
  BY <1>5, SendsStep, AnsweredStep, UnansweredStep, RefusedWaits, RefusedTwice
<1>6. CASE UNCHANGED apiVars
  BY <1>6 DEF apiVars, ApiInv, ServerTyped, TabsTyped, Kept
<1> QED BY <1>1, <1>2, <1>3, <1>4, <1>5, <1>6 DEF ApiNext

LEMMA ApiIsSound == ApiInv => SessionKept /\ WaitersHaveRefresh
<1> SUFFICES ASSUME ApiInv, NEW t \in Tabs
             PROVE  /\ Tabs = {t} /\ page[t] = "in" /\ ~banned /\ ~mislaid /\ refresh[t] = NoRefresh /\ logout[t] = NoLogout
                         => cookie.refresh \in {held[n] : n \in Live}
                    /\ (\E s \in Slots : request[t][s].stage = "waiting") \/ socket[t].stage = "parked" => refresh[t] # NoRefresh
  BY DEF SessionKept, WaitersHaveRefresh
<1>1. ASSUME Tabs = {t}, page[t] = "in", ~banned, ~mislaid, refresh[t] = NoRefresh, logout[t] = NoLogout
      PROVE  cookie.refresh \in {held[n] : n \in Live}
  <2>1. HasRow(held, cookie.refresh)
    BY <1>1, TabKnown, NothingTyped DEF Kept, KeptBy, Inside
  <2> QED BY <2>1 DEF HasRow, Live
<1>2. (\E s \in Slots : request[t][s].stage = "waiting") \/ socket[t].stage = "parked" => refresh[t] # NoRefresh
  BY TabKnown, NothingTyped DEF Own
<1> QED BY <1>1, <1>2

\* The steps that show the login, and why.
LEMMA ExpelledFor ==
  ASSUME ApiInv, [ApiNext]_apiVars, NEW t \in Tabs, Tabs = {t}, page[t] = "in", page'[t] = "out", logout[t] = NoLogout
  PROVE  banned \/ mislaid' \/ (socket[t].stage = "up" /\ socket[t].retried)
<1>1. CASE RefreshFails(t)
  <2> SUFFICES ASSUME ~banned, ~mislaid PROVE FALSE
    BY <1>1 DEF RefreshFails
  <2>1. KeptBy(held, cookie, page[t], request[t], refresh[t], logout[t])
    BY TabKnown
  <2> QED BY <1>1, <2>1, NothingTyped DEF KeptBy, Inside, RefreshFails
<1>2. CASE RefreshLost(t)
  BY <1>2 DEF RefreshLost
<1>3. CASE Rejects(t) \/ Kicks(t)
  BY <1>3 DEF Rejects, Kicks, CutOff
<1>4. CASE LogoutEnds(t)
  BY <1>4, NothingTyped DEF LogoutEnds
<1>5. ASSUME NEW s \in Slots, Refused(t, s) PROVE banned
  <2>1. request[t][s].stage # "sent"
    BY <1>5 DEF Refused
  <2> QED BY <1>5, <2>1, RefusedTwice
<1>6. page' = page \/ page'[t] \in {"in", "loading"} \/ RefreshFails(t) \/ RefreshLost(t) \/ Rejects(t) \/ Kicks(t) \/ LogoutEnds(t)
        \/ \E s \in Slots : Refused(t, s)
  <2>1. CASE Ban \/ AccessExpires \/ UNCHANGED apiVars
    BY <2>1 DEF Ban, AccessExpires, apiVars
  <2>2. CASE Login(t) \/ Reload(t) \/ LogoutStarts(t) \/ LogoutServed(t)
    BY <2>2 DEF Login, Enters, Reload, LogoutStarts, LogoutServed, ApiInv, TabsTyped
  <2>3. CASE RefreshReads(t) \/ RefreshWrites(t) \/ RefreshSucceeds(t) \/ SocketOpens(t) \/ SocketStable(t) \/ SocketDrops(t)
    BY <2>3 DEF RefreshReads, RefreshWrites, RefreshSucceeds, SocketOpens, SocketStable, SocketDrops
  <2>4. ASSUME NEW s \in Slots, Sends(t, s) \/ Answered(t, s) \/ Unanswered(t, s) PROVE page' = page
    BY <2>4 DEF Sends, Answered, Unanswered
  <2> QED BY <2>1, <2>2, <2>3, <2>4 DEF ApiNext
<1> QED BY <1>1, <1>2, <1>3, <1>4, <1>5, <1>6

\* The session of a browser lasts as long as the account: with one tab the refresh
\* cookie stays the token of a row, nobody waits for a refresh that was not asked for,
\* and nobody is sent to the login without cause.
THEOREM SessionIsKept == ApiSpec => SessionLasts
<1>1. ApiInv /\ [ApiNext]_apiVars =>
        [\A t \in Tabs : Tabs = {t} /\ page[t] = "in" /\ page'[t] = "out" /\ logout[t] = NoLogout =>
           banned \/ mislaid' \/ (socket[t].stage = "up" /\ socket[t].retried)]_apiVars
  BY ExpelledFor
<1>2. ApiInv /\ [ApiNext]_apiVars => ApiInv'
  BY ApiStep
<1> QED BY <1>1, <1>2, ApiStart, ApiIsSound, PTL DEF ApiSpec, SessionLasts, NotExpelled
-----------------------------------------------------------------------------
(* The types: what bounds the numbers and names what the sets may hold.      *)

\* Rows and tokens that are remembered were given out before.
SessionBounds ==
  /\ leftover \subseteq 1..lastId
  /\ \A l \in Logins :
       /\ login[l].id \in 0..lastId /\ login[l].surplus \subseteq 1..lastId
       /\ login[l].stage \in {"inserted", "found"} => login[l].id # 0
  /\ \A r \in Refreshes : rotation[r].jti \in 0..lastJti /\ rotation[r].id \in 0..lastId

LEMMA SessionBoundsStart == SessionsInit => SessionBounds
BY DEF SessionsInit, SessionBounds, NoLogin, NoRotation

LEMMA SessionLoginsBound ==
  ASSUME SessionsInv, SessionBounds, NEW l \in Logins, NEW new \in Progress,
         login' = [login EXCEPT ![l] = new], UNCHANGED rotation,
         lastId' \in Nat, lastJti' \in Nat, lastId <= lastId', lastJti <= lastJti',
         leftover' \subseteq 1..lastId', new.id \in 0..lastId', new.surplus \subseteq 1..lastId',
         new.stage \in {"inserted", "found"} => new.id # 0
  PROVE  SessionBounds'
<1>1. lastId \in Nat /\ lastJti \in Nat /\ login \in [Logins -> Progress]
  BY DEF SessionsInv, Typed
<1>2. 0..lastId \subseteq 0..lastId' /\ 1..lastId \subseteq 1..lastId' /\ 0..lastJti \subseteq 0..lastJti'
  BY <1>1
<1>3. ASSUME NEW k \in Logins
      PROVE  /\ login'[k].id \in 0..lastId' /\ login'[k].surplus \subseteq 1..lastId'
             /\ login'[k].stage \in {"inserted", "found"} => login'[k].id # 0
  <2>1. CASE k = l
    BY <1>1, <2>1
  <2>2. CASE k # l
    <3>1. login'[k] = login[k]
      BY <1>1, <2>2
    <3> QED BY <1>2, <3>1 DEF SessionBounds
  <2> QED BY <2>1, <2>2
<1>4. ASSUME NEW r \in Refreshes PROVE rotation'[r].jti \in 0..lastJti' /\ rotation'[r].id \in 0..lastId'
  BY <1>2 DEF SessionBounds
<1> QED BY <1>3, <1>4 DEF SessionBounds

LEMMA SessionBoundsStep == ASSUME SessionsInv, SessionBounds, [SessionsNext]_sessionsVars PROVE SessionBounds'
<1>1. /\ lastId \in Nat /\ lastJti \in Nat /\ login \in [Logins -> Progress] /\ rotation \in [Refreshes -> Rotations]
      /\ rows \subseteq [id : 1..lastId, jti : 1..lastJti, expired : BOOLEAN]
      /\ leftover \subseteq 1..lastId
  BY DEF SessionsInv, Typed, SessionBounds
<1> DEFINE Same == lastId' \in Nat /\ lastJti' \in Nat /\ lastId <= lastId' /\ lastJti <= lastJti' /\ 1..lastId' = 1..lastId /\ 0..lastId' = 0..lastId
<1>5. UNCHANGED <<lastId, lastJti>> => Same
  BY <1>1
<1> HIDE DEF Same
<1>2. ASSUME NEW l \in Logins,
             IssuePurges(l) \/ IssueInserts(l) \/ IssueFinds(l) \/ IssuePrunes(l) \/ IssueFails(l)
      PROVE  SessionBounds'
  <2>1. PICK own \in Progress : own = login[l]
    BY <1>1
  <2>2. own.id \in 0..lastId /\ own.surplus \subseteq 1..lastId /\ (own.stage \in {"inserted", "found"} => own.id # 0)
    BY <2>1 DEF SessionBounds
  <2>3. CASE IssuePurges(l)
    <3>1. PICK new : new = [own EXCEPT !.stage = "purged"]
      OBVIOUS
    <3>2. new \in Progress /\ new.stage = "purged" /\ new.id = own.id /\ new.surplus = own.surplus
      BY <3>1 DEF Progress
    <3>3. login' = [login EXCEPT ![l] = new] /\ UNCHANGED <<rotation, lastId, lastJti, leftover>>
      BY <1>1, <2>1, <2>3, <3>1 DEF IssuePurges
    <3>4. Same /\ leftover' \subseteq 1..lastId' /\ new.id \in 0..lastId' /\ new.surplus \subseteq 1..lastId'
      BY <1>1, <1>5, <2>2, <3>2, <3>3 DEF Same
    <3>5. rotation' = rotation
      BY <3>3
    <3> QED BY <2>2, <3>2, <3>3, <3>4, <3>5, SessionLoginsBound DEF Same
  <2>4. CASE IssueInserts(l)
    <3>1. PICK new : new = [stage |-> "inserted", id |-> lastId + 1, surplus |-> {}]
      OBVIOUS
    <3>2. new \in Progress /\ new.id = lastId + 1 /\ new.surplus = {} /\ lastId + 1 \in 0..lastId + 1 /\ new.id # 0
      BY <1>1, <3>1 DEF Progress
    <3>3. /\ login' = [login EXCEPT ![l] = new] /\ UNCHANGED <<rotation, leftover>>
          /\ lastId' = lastId + 1 /\ lastJti' = lastJti + 1
      BY <2>4, <3>1 DEF IssueInserts
    <3>4. lastId' \in Nat /\ lastJti' \in Nat /\ lastId <= lastId' /\ lastJti <= lastJti' /\ leftover' \subseteq 1..lastId'
      BY <1>1, <3>3
    <3> QED BY <3>2, <3>3, <3>4, SessionLoginsBound
  <2>5. CASE IssueFinds(l)
    <3>1. Surplus(rows) \subseteq 1..lastId
      BY <1>1 DEF Surplus
    <3>2. PICK new : new = [own EXCEPT !.stage = "found", !.surplus = Surplus(rows)]
      OBVIOUS
    <3>3. new \in Progress /\ new.id = own.id /\ new.surplus = Surplus(rows)
      <4>1. Surplus(rows) \in SUBSET Nat
        BY <1>1, <3>1
      <4> QED BY <3>2, <4>1 DEF Progress
    <3>4. login' = [login EXCEPT ![l] = new] /\ UNCHANGED <<rotation, lastId, lastJti, leftover>> /\ own.stage = "inserted"
      BY <1>1, <2>1, <2>5, <3>2 DEF IssueFinds
    <3>5. Same /\ leftover' \subseteq 1..lastId' /\ new.id \in 0..lastId' /\ new.id # 0 /\ new.surplus \subseteq 1..lastId'
      BY <1>1, <1>5, <2>2, <3>1, <3>3, <3>4 DEF Same
    <3>6. rotation' = rotation
      BY <3>4
    <3> QED BY <3>3, <3>4, <3>5, <3>6, SessionLoginsBound DEF Same
  <2>6. CASE IssuePrunes(l) \/ IssueFails(l)
    <3>1. PICK new : new = [NoLogin EXCEPT !.stage = "done"]
      OBVIOUS
    <3>2. new \in Progress /\ new.id = 0 /\ new.surplus = {} /\ new.stage = "done"
      BY <3>1 DEF Progress, NoLogin
    <3>3. login' = [login EXCEPT ![l] = new] /\ UNCHANGED <<rotation, lastId, lastJti>>
      BY <2>6, <3>1 DEF IssuePrunes, IssueFails
    <3>4. leftover' \subseteq 1..lastId
      <4>1. CASE IssuePrunes(l)
        BY <1>1, <4>1 DEF IssuePrunes
      <4>2. CASE IssueFails(l)
        <5>1. own.id \in 1..lastId
          BY <1>1, <2>1, <2>2, <4>2 DEF IssueFails
        <5> QED BY <1>1, <2>1, <4>2, <5>1 DEF IssueFails
      <4> QED BY <2>6, <4>1, <4>2
    <3>5. Same /\ leftover' \subseteq 1..lastId' /\ new.id \in 0..lastId' /\ new.surplus \subseteq 1..lastId'
      BY <1>1, <1>5, <3>2, <3>3, <3>4 DEF Same
    <3>6. rotation' = rotation
      BY <3>3
    <3> QED BY <3>2, <3>3, <3>5, <3>6, SessionLoginsBound DEF Same
  <2> QED BY <1>2, <2>3, <2>4, <2>5, <2>6
<1>3. ASSUME NEW r \in Refreshes, RotateWrites(r) \/ \E token \in given : RotateReads(r, token.jti)
      PROVE  SessionBounds'
  <2>1. UNCHANGED <<login, leftover, lastId>> /\ lastJti' \in {lastJti, lastJti + 1}
    BY <1>3 DEF RotateWrites, RotateReads
  <2>2. 0..lastJti \subseteq 0..lastJti'
    BY <1>1, <2>1
  <2>3. PICK new : /\ rotation' = [rotation EXCEPT ![r] = new]
                   /\ new.jti \in 0..lastJti' /\ new.id \in 0..lastId
    <3>1. CASE RotateWrites(r)
      <4>1. PICK own \in Rotations : own = rotation[r]
        BY <1>1
      <4>2. PICK new : new = [own EXCEPT !.stage = "done"]
        OBVIOUS
      <4>3. rotation' = [rotation EXCEPT ![r] = new]
        BY <1>1, <3>1, <4>1, <4>2 DEF RotateWrites
      <4>4. new.jti = own.jti /\ new.id = own.id
        BY <4>2 DEF Rotations
      <4>5. own.jti \in 0..lastJti /\ own.id \in 0..lastId
        BY <4>1 DEF SessionBounds
      <4> QED BY <2>2, <4>3, <4>4, <4>5
    <3>2. ASSUME NEW token \in given, RotateReads(r, token.jti)
          PROVE  \E new : /\ rotation' = [rotation EXCEPT ![r] = new]
                          /\ new.jti \in 0..lastJti' /\ new.id \in 0..lastId
      <4>1. PICK row \in rows : /\ row.jti = token.jti
                                /\ rotation' = [rotation EXCEPT ![r] = [stage |-> "found", jti |-> token.jti, id |-> row.id]]
        BY <3>2 DEF RotateReads, Holding
      <4>2. row.jti \in 0..lastJti /\ row.id \in 0..lastId
        BY <1>1
      <4>3. PICK new : new = [stage |-> "found", jti |-> token.jti, id |-> row.id]
        OBVIOUS
      <4>4. new.jti = row.jti /\ new.id = row.id /\ rotation' = [rotation EXCEPT ![r] = new]
        BY <4>1, <4>3
      <4> QED BY <2>2, <4>2, <4>4
    <3> QED BY <1>3, <3>1, <3>2
  <2>4. ASSUME NEW k \in Refreshes PROVE rotation'[k].jti \in 0..lastJti' /\ rotation'[k].id \in 0..lastId'
    <3>1. CASE k = r
      BY <1>1, <2>1, <2>3, <3>1
    <3>2. CASE k # r
      <4>1. rotation'[k] = rotation[k]
        BY <1>1, <2>3, <3>2
      <4> QED BY <2>1, <2>2, <4>1 DEF SessionBounds
    <3> QED BY <3>1, <3>2
  <2> QED BY <2>1, <2>4 DEF SessionBounds
<1>4. ASSUME \/ \E token \in given : Revoke(token.jti)
             \/ \E row \in rows : RowExpires(row)
             \/ UNCHANGED sessionsVars
      PROVE  SessionBounds'
  <2>1. UNCHANGED <<login, rotation, lastId, lastJti>> /\ leftover' \subseteq leftover
    BY <1>4 DEF Revoke, RowExpires, sessionsVars
  <2> QED BY <2>1 DEF SessionBounds
<1> QED BY <1>2, <1>3, <1>4 DEF SessionsNext

LEMMA SessionTypes == ASSUME SessionsInv, SessionBounds PROVE SessionsTypeOK
<1>1. \A row \in rows : row.id \in 1..lastId /\ row.jti \in 1..lastJti /\ row.expired \in BOOLEAN
  BY DEF SessionsInv, Typed
<1>2. login \in [Logins -> [stage : {"idle", "purged", "inserted", "found", "done"}, id : 0..lastId, surplus : SUBSET (1..lastId)]]
  <2>1. login \in [Logins -> Progress]
    BY DEF SessionsInv, Typed
  <2>2. ASSUME NEW l \in Logins
        PROVE  login[l] \in [stage : {"idle", "purged", "inserted", "found", "done"}, id : 0..lastId, surplus : SUBSET (1..lastId)]
    <3>1. login[l] \in Progress /\ login[l].id \in 0..lastId /\ login[l].surplus \subseteq 1..lastId
      BY <2>1 DEF SessionBounds
    <3> QED BY <3>1 DEF Progress
  <2> QED BY <2>1, <2>2
<1>3. rotation \in [Refreshes -> [stage : {"idle", "found", "done"}, jti : 0..lastJti, id : 0..lastId]]
  <2>1. rotation \in [Refreshes -> Rotations]
    BY DEF SessionsInv, Typed
  <2>2. ASSUME NEW r \in Refreshes
        PROVE  rotation[r] \in [stage : {"idle", "found", "done"}, jti : 0..lastJti, id : 0..lastId]
    <3>1. rotation[r] \in Rotations /\ rotation[r].jti \in 0..lastJti /\ rotation[r].id \in 0..lastId
      BY <2>1 DEF SessionBounds
    <3> QED BY <3>1 DEF Rotations
  <2> QED BY <2>1, <2>2
<1> QED BY <1>1, <1>2, <1>3 DEF SessionsTypeOK, SessionBounds

\* Rows, cookies and answers hold tokens that were given out.
ApiBounds ==
  /\ logins \in 0..MaxLogins /\ jtis \in 0..MaxJti
  /\ held \in [1..MaxLogins -> 0..jtis] /\ cookie.refresh \in 0..jtis
  /\ \A t \in Tabs : refresh[t].next \in 0..jtis /\ refresh[t].old \in 0..jtis /\ logout[t].old \in 0..jtis

LEMMA ApiBoundsStart == ApiInit => ApiBounds
<1> SUFFICES ASSUME ApiInit PROVE ApiBounds
  OBVIOUS
<1>1. jtis = 0 /\ logins = 0 /\ held = [n \in 1..MaxLogins |-> 0]
  BY DEF ApiInit
<1>2. cookie.refresh = 0 /\ \A t \in Tabs : refresh[t].next = 0 /\ refresh[t].old = 0 /\ logout[t].old = 0
  BY DEF ApiInit, NoRefresh, NoLogout
<1> QED BY <1>1, <1>2, ApiAssumption DEF ApiBounds

\* A row takes a new token or none.
LEMMA HeldBound ==
  ASSUME NEW n \in Nat, NEW h \in [1..MaxLogins -> 0..n], NEW i, NEW x \in 0..(n + 1)
  PROVE  [h EXCEPT ![i] = x] \in [1..MaxLogins -> 0..(n + 1)]
<1>1. \A k \in 1..MaxLogins : h[k] \in 0..(n + 1)
  BY Z3
<1> QED BY <1>1

\* The tokens that were given out are those that the rows may hold.
Issued ==
  /\ logins' \in 0..MaxLogins /\ jtis' \in 0..MaxJti /\ held' \in [1..MaxLogins -> 0..jtis']
  /\ 0..jtis \subseteq 0..jtis'

LEMMA Issues ==
  ASSUME ApiInv, ApiBounds, logins' = logins
  PROVE  /\ held' = held /\ jtis' = jtis => Issued
         /\ jtis' = jtis /\ (\E zero : held' = [n \in 1..MaxLogins |-> IF n \in zero THEN 0 ELSE held[n]]) => Issued
         /\ jtis < MaxJti /\ jtis' = jtis + 1 /\ (\E i : \E x \in 0..jtis' : held' = [held EXCEPT ![i] = x]) => Issued
<1>1. /\ jtis \in Nat /\ MaxJti \in Nat /\ jtis <= MaxJti /\ jtis \in 0..MaxJti /\ logins' \in 0..MaxLogins
      /\ held \in [1..MaxLogins -> 0..jtis]
  BY ApiAssumption DEF ApiBounds
<1>2. held' = held /\ jtis' = jtis => Issued
  BY <1>1 DEF Issued
<1>3. ASSUME jtis' = jtis, NEW zero, held' = [n \in 1..MaxLogins |-> IF n \in zero THEN 0 ELSE held[n]]
      PROVE  Issued
  BY <1>1, <1>3 DEF Issued
<1>4. ASSUME jtis < MaxJti, jtis' = jtis + 1, NEW i, NEW x \in 0..jtis', held' = [held EXCEPT ![i] = x] PROVE Issued
  <2>1. held' \in [1..MaxLogins -> 0..(jtis + 1)]
    BY <1>1, <1>4, HeldBound
  <2>2. jtis' \in 0..MaxJti /\ 0..jtis \subseteq 0..jtis'
    BY <1>1, <1>4
  <2> QED BY <1>1, <1>4, <2>1, <2>2 DEF Issued
<1> QED BY <1>2, <1>3, <1>4

\* What a tab does keeps the bounds if the tokens that it and the browser hold were given out.
LEMMA TabBound ==
  ASSUME ApiBounds, Issued, NEW t \in Tabs, cookie'.refresh \in 0..jtis',
         \A u \in Tabs \ {t} : refresh'[u] = refresh[u] /\ logout'[u] = logout[u],
         refresh'[t].next \in 0..jtis', refresh'[t].old \in 0..jtis', logout'[t].old \in 0..jtis'
  PROVE  ApiBounds'
BY DEF ApiBounds, Issued

LEMMA ApiBoundsStep == ASSUME ApiInv, ApiBounds, [ApiNext]_apiVars PROVE ApiBounds'
<1>1. /\ refresh \in [Tabs -> RefreshTypes] /\ logout \in [Tabs -> LogoutTypes] /\ cookie \in [access : BOOLEAN, refresh : Nat]
      /\ held \in [1..MaxLogins -> Nat] /\ jtis \in Nat /\ logins \in Nat
  BY DEF ApiInv, ServerTyped, TabsTyped
<1>2. /\ cookie.refresh \in 0..jtis
      /\ \A t \in Tabs : refresh[t].next \in 0..jtis /\ refresh[t].old \in 0..jtis /\ logout[t].old \in 0..jtis
  BY DEF ApiBounds
<1>3. NoRefresh.next = 0 /\ NoRefresh.old = 0 /\ NoLogout.old = 0 /\ 0 \in 0..jtis
  BY <1>1 DEF NoRefresh, NoLogout
<1>4. ASSUME NEW t \in Tabs, Login(t) PROVE ApiBounds'
  <2>1. /\ logins < MaxLogins /\ jtis < MaxJti /\ logins' = logins + 1 /\ jtis' = jtis + 1
        /\ held' = [held EXCEPT ![logins'] = jtis'] /\ cookie' = [access |-> TRUE, refresh |-> jtis']
        /\ UNCHANGED <<refresh, logout>>
    BY <1>4 DEF Login
  <2>2. logins' \in 0..MaxLogins /\ jtis' \in 0..MaxJti /\ jtis' \in 0..jtis' /\ 0..jtis \subseteq 0..jtis'
    BY <1>1, <2>1, ApiAssumption
  <2>3. held' \in [1..MaxLogins -> 0..(jtis + 1)]
    BY <1>1, <2>1, <2>2, HeldBound DEF ApiBounds
  <2>4. cookie'.refresh \in 0..jtis'
    BY <2>1, <2>2
  <2> QED BY <1>2, <2>1, <2>2, <2>3, <2>4, TabBound DEF Issued
<1>5. ASSUME logins' = logins, Issued, cookie'.refresh \in 0..jtis', UNCHANGED <<refresh, logout>> PROVE ApiBounds'
  BY <1>5, <1>2 DEF ApiBounds, Issued
<1>6. ASSUME NEW t \in Tabs, NEW r, Issued, cookie'.refresh \in 0..jtis', logout' = logout,
             refresh' = [refresh EXCEPT ![t] = r], r.next \in 0..jtis', r.old \in 0..jtis'
      PROVE  ApiBounds'
  <2>1. refresh'[t] = r /\ (\A u \in Tabs \ {t} : refresh'[u] = refresh[u]) /\ logout'[t].old \in 0..jtis'
    BY <1>1, <1>2, <1>6 DEF Issued
  <2> QED BY <1>6, <2>1, TabBound
<1>7. ASSUME NEW t \in Tabs, NEW l, Issued, cookie'.refresh \in 0..jtis', refresh' = refresh,
             logout' = [logout EXCEPT ![t] = l], l.old \in 0..jtis'
      PROVE  ApiBounds'
  <2>1. logout'[t] = l /\ (\A u \in Tabs \ {t} : logout'[u] = logout[u]) /\ refresh'[t].next \in 0..jtis' /\ refresh'[t].old \in 0..jtis'
    BY <1>1, <1>2, <1>7 DEF Issued
  <2> QED BY <1>7, <2>1, TabBound
<1>8. UNCHANGED serverVars => Issued /\ logins' = logins /\ jtis' = jtis
  BY Issues DEF serverVars
<1>9. ASSUME NEW t \in Tabs, Reload(t) \/ RefreshLost(t) PROVE ApiBounds'
  <2>1. refresh' = [refresh EXCEPT ![t] = NoRefresh] /\ UNCHANGED <<logins, cookie, logout>>
    BY <1>9 DEF Reload, RefreshLost
  <2>2. \/ held' = held /\ jtis' = jtis
        \/ jtis < MaxJti /\ jtis' = jtis + 1 /\ \E i : held' = [held EXCEPT ![i] = jtis']
    BY <1>9 DEF Reload, RefreshLost
  <2>3. jtis' \in 0..jtis' /\ 0..jtis \subseteq 0..jtis'
    BY <1>1, <2>2
  <2>4. Issued
    BY <2>1, <2>2, <2>3, Issues
  <2> QED BY <1>2, <1>3, <1>6, <2>1, <2>3, <2>4
<1>10. ASSUME NEW t \in Tabs, LogoutStarts(t) PROVE ApiBounds'
  <2>1. PICK l : l = [stage |-> "sent", good |-> cookie.access, old |-> cookie.refresh]
    OBVIOUS
  <2>2. l.old = cookie.refresh /\ logout' = [logout EXCEPT ![t] = l] /\ UNCHANGED <<serverVars, cookie, refresh>>
    BY <1>10, <2>1 DEF LogoutStarts
  <2> QED BY <1>2, <1>7, <1>8, <2>2
<1>11. ASSUME NEW t \in Tabs, LogoutServed(t) PROVE ApiBounds'
  <2>1. PICK l : l = [logout[t] EXCEPT !.stage = "cleared"]
    OBVIOUS
  <2>2. l.old = logout[t].old /\ logout' = [logout EXCEPT ![t] = l]
    BY <1>1, <1>11, <2>1 DEF LogoutServed, LogoutTypes
  <2>3. UNCHANGED <<logins, jtis, cookie, refresh>>
    BY <1>11 DEF LogoutServed
  <2>4. \E zero : held' = [n \in 1..MaxLogins |-> IF n \in zero THEN 0 ELSE held[n]]
    <3>1. PICK zero : zero = {n \in 1..MaxLogins : held[n] = logout[t].old}
      OBVIOUS
    <3>2. held' = [n \in 1..MaxLogins |-> IF n \in zero THEN 0 ELSE held[n]]
      BY <1>11, <3>1 DEF LogoutServed
    <3> QED BY <3>2
  <2> QED BY <1>2, <1>7, <2>2, <2>3, <2>4, Issues
<1>12. ASSUME NEW t \in Tabs, LogoutEnds(t) PROVE ApiBounds'
  <2>1. logout' = [logout EXCEPT ![t] = NoLogout] /\ UNCHANGED <<serverVars, refresh>> /\ cookie'.refresh \in {0, cookie.refresh}
    BY <1>12 DEF LogoutEnds
  <2> QED BY <1>2, <1>3, <1>7, <1>8, <2>1
<1>13. ASSUME NEW t \in Tabs, RefreshReads(t) PROVE ApiBounds'
  <2>1. PICK r : refresh' = [refresh EXCEPT ![t] = r] /\ r.next = refresh[t].next /\ r.old = refresh[t].old
    <3>1. ASSUME NEW n, refresh' = [refresh EXCEPT ![t].stage = "found", ![t].row = n]
          PROVE  \E r : refresh' = [refresh EXCEPT ![t] = r] /\ r.next = refresh[t].next /\ r.old = refresh[t].old
      <4>1. PICK r : r = [refresh[t] EXCEPT !.stage = "found", !.row = n]
        OBVIOUS
      <4>2. r.next = refresh[t].next /\ r.old = refresh[t].old
        BY <1>1, <4>1 DEF RefreshTypes
      <4>3. refresh' = [refresh EXCEPT ![t] = r]
        BY <1>1, <3>1, <4>1
      <4> QED BY <4>2, <4>3
    <3>2. ASSUME refresh' = [refresh EXCEPT ![t].stage = "answered"]
          PROVE  \E r : refresh' = [refresh EXCEPT ![t] = r] /\ r.next = refresh[t].next /\ r.old = refresh[t].old
      <4>1. PICK r : r = [refresh[t] EXCEPT !.stage = "answered"]
        OBVIOUS
      <4>2. r.next = refresh[t].next /\ r.old = refresh[t].old
        BY <1>1, <4>1 DEF RefreshTypes
      <4>3. refresh' = [refresh EXCEPT ![t] = r]
        BY <1>1, <3>2, <4>1
      <4> QED BY <4>2, <4>3
    <3> QED BY <1>13, <3>1, <3>2 DEF RefreshReads
  <2>2. UNCHANGED <<serverVars, cookie, logout>>
    BY <1>13 DEF RefreshReads
  <2> QED BY <1>2, <1>6, <1>8, <2>1, <2>2
<1>14. ASSUME NEW t \in Tabs, RefreshWrites(t) PROVE ApiBounds'
  <2>1. jtis < MaxJti /\ jtis' = jtis + 1 /\ UNCHANGED <<logins, cookie, logout>>
    BY <1>14 DEF RefreshWrites
  <2>2. jtis' \in 0..jtis' /\ 0 \in 0..jtis' /\ 0..jtis \subseteq 0..jtis'
    BY <1>1, <2>1
  <2>3. PICK x : x = (IF held[refresh[t].row] = 0 THEN 0 ELSE jtis')
    OBVIOUS
  <2>4. x \in 0..jtis' /\ held' = [held EXCEPT ![refresh[t].row] = x]
    BY <1>14, <2>2, <2>3 DEF RefreshWrites
  <2>5. PICK next : next = (IF banned THEN 0 ELSE jtis')
    OBVIOUS
  <2>6. PICK r : r = [refresh[t] EXCEPT !.stage = "answered", !.next = next]
    OBVIOUS
  <2>7. refresh' = [refresh EXCEPT ![t] = r] /\ r.next = next /\ r.old = refresh[t].old
    BY <1>1, <1>14, <2>5, <2>6 DEF RefreshWrites, RefreshTypes
  <2>8. Issued
    BY <2>1, <2>4, Issues
  <2> QED BY <1>2, <1>6, <2>1, <2>2, <2>5, <2>7, <2>8
<1>15. ASSUME NEW t \in Tabs, RefreshSucceeds(t) \/ RefreshFails(t) PROVE ApiBounds'
  <2>1. refresh' = [refresh EXCEPT ![t] = NoRefresh] /\ UNCHANGED <<serverVars, logout>> /\ cookie'.refresh \in {cookie.refresh, refresh[t].next}
    BY <1>15 DEF RefreshSucceeds, RefreshFails
  <2> QED BY <1>2, <1>3, <1>6, <1>8, <2>1
<1>16. ASSUME NEW t \in Tabs, Rejects(t) \/ Kicks(t) \/ \E s \in Slots : Refused(t, s) PROVE ApiBounds'
  <2>1. UNCHANGED <<serverVars, cookie, logout>> /\ (Joins(t) \/ UNCHANGED refresh)
    BY <1>16 DEF Rejects, Kicks, CutOff, Refused
  <2>2. CASE UNCHANGED refresh
    BY <1>2, <1>5, <1>8, <2>1, <2>2
  <2>3. CASE Joins(t)
    <3>1. (\A u \in Tabs \ {t} : refresh'[u] = refresh[u]) /\
          (refresh'[t] = refresh[t] \/ (refresh'[t].old = cookie.refresh /\ refresh'[t].next = 0))
      BY <2>3, JoinsIs
    <3> QED BY <1>2, <1>3, <1>8, <2>1, <3>1, TabBound
  <2> QED BY <2>1, <2>2, <2>3
<1>17. ASSUME \/ \E t \in Tabs : SocketOpens(t) \/ SocketStable(t) \/ SocketDrops(t)
              \/ \E t \in Tabs, s \in Slots : Sends(t, s) \/ Answered(t, s) \/ Unanswered(t, s)
              \/ AccessExpires \/ UNCHANGED apiVars
       PROVE  ApiBounds'
  <2>1. UNCHANGED <<serverVars, refresh, logout>> /\ cookie'.refresh = cookie.refresh
    <3>1. AccessExpires => cookie'.refresh = cookie.refresh
      <4>1. PICK c : c = [cookie EXCEPT !.access = FALSE]
        OBVIOUS
      <4> QED BY <1>1, <4>1 DEF AccessExpires
    <3> QED BY <1>17, <3>1 DEF SocketOpens, SocketStable, SocketDrops, Sends, Answered, Unanswered, AccessExpires, apiVars, serverVars
  <2> QED BY <1>2, <1>5, <1>8, <2>1
<1>18. CASE Ban
  <2>1. UNCHANGED <<logins, jtis, cookie, refresh, logout>> /\ held' = [n \in 1..MaxLogins |-> 0]
    BY <1>18 DEF Ban
  <2>2. held' = [n \in 1..MaxLogins |-> IF n \in 1..MaxLogins THEN 0 ELSE held[n]]
    BY <2>1
  <2> QED BY <1>2, <1>5, <2>1, <2>2, Issues
<1> QED BY <1>4, <1>9, <1>10, <1>11, <1>12, <1>13, <1>14, <1>15, <1>16, <1>17, <1>18 DEF ApiNext

LEMMA ApiTypes == ASSUME ApiInv, ApiBounds PROVE ApiTypeOK
<1>1. cookie \in [access : BOOLEAN, refresh : 0..jtis]
  BY DEF ApiInv, ServerTyped, ApiBounds
<1>2. ASSUME NEW t \in Tabs
      PROVE  refresh[t].stage \in {"none", "sent", "found", "answered"} /\ logout[t].stage \in {"none", "sent", "cleared"}
  BY TabKnown DEF RefreshTypes, LogoutTypes
<1> QED BY <1>1, <1>2 DEF ApiInv, ServerTyped, TabsTyped, ApiBounds, ApiTypeOK, RequestTypes, SocketTypes

\* Who is shown and told of are users, and who was missed is a connection.
PresenceBounds == edits \in 0..MaxEdits /\ users \subseteq Users /\ told \subseteq Users /\ missed \subseteq Sockets

LEMMA PresenceBoundsStart == PresenceInit => PresenceBounds
BY PresenceAssumption DEF PresenceInit, PresenceBounds

LEMMA PresenceBoundsStep == ASSUME PresenceInv, PresenceBounds, [PresenceNext]_presenceVars PROVE PresenceBounds'
<1>1. Nicknames \subseteq Users /\ tracker.joined \subseteq Users
  BY DEF Nicknames, Listed, PresenceInv, PresenceTyped, States, Trackers
<1>2. edits' = edits \/ (edits < MaxEdits /\ edits' = edits + 1)
  BY DEF PresenceNext, presenceVars, KickUser, EmitOnline, Flush, Remount, EditAccount, Connect, LookupReads,
         LookupResumes, SnapshotSent, SnapshotFails, Disconnect
<1>3. users' \in {users, Nicknames} /\ told' \in {told, Nicknames, {}, (told \cup tracker.joined) \ tracker.left}
  BY DEF PresenceNext, presenceVars, browserVars, KickUser, EmitOnline, Flush, Remount, EditAccount, Connect, LookupReads,
         LookupResumes, SnapshotSent, SnapshotFails, Disconnect
<1>4. missed' \subseteq missed \cup Sockets
  BY DEF PresenceNext, presenceVars, KickUser, EmitOnline, Flush, Remount, EditAccount, Connect, LookupReads,
         LookupResumes, SnapshotSent, SnapshotFails, Disconnect
<1>5. edits' \in 0..MaxEdits
  BY <1>2, PresenceAssumption DEF PresenceBounds
<1> QED BY <1>1, <1>3, <1>4, <1>5 DEF PresenceBounds

LEMMA PresenceTypes == ASSUME PresenceInv, PresenceBounds PROVE PresenceTypeOK
BY DEF PresenceInv, PresenceTyped, PresenceBounds, PresenceTypeOK, States, Trackers

\* What the windows hold are moments of the clock.
Times == Seq(1..MaxTime)

LimitBounds ==
  /\ now \in 1..MaxTime /\ evicted \in 0..MaxEvictions
  /\ attempts \in [Keys -> Times] /\ tried \in [Keys -> Times]
  /\ provider \in [Callers -> Times] /\ total \in Times /\ events \in [EventSockets -> Times]

LEMMA LimitBoundsStart == LimitsInit => LimitBounds
BY RateLimitsAssumption DEF LimitsInit, LimitBounds, Times

LEMMA LeftIn ==
  ASSUME NEW S, NEW s \in Seq(S), s \in Seq(Nat), NEW places \in SUBSET DOMAIN s
  PROVE  FromFirst(s, places) \in Seq(S)
<1>1. PICK t, r : t = FromFirst(s, places) /\ DropsTo(t, s, r)
  BY FirstPlace
<1>2. PICK n \in Nat : n = Len(s) /\ \A i \in 1..n : s[i] \in S
  OBVIOUS
<1>3. t \in Seq(Nat) /\ Len(t) \in Nat /\ r \in 1..n + 1 /\ Len(t) = n - r + 1 /\ \A j \in 1..Len(t) : t[j] = s[r - 1 + j]
  BY <1>1, <1>2 DEF DropsTo
<1>4. ASSUME NEW j \in 1..Len(t) PROVE t[j] \in S
  <2>1. r - 1 + j \in 1..n /\ t[j] = s[r - 1 + j]
    BY <1>2, <1>3
  <2> QED BY <1>2, <2>1
<1> QED BY <1>1, <1>3, <1>4

LEMMA TimesLeft ==
  ASSUME now \in 1..MaxTime, NEW s \in Times
  PROVE  /\ Recent(s) \in Times /\ RecentEvents(s) \in Times /\ <<>> \in Times
         /\ Append(Recent(s), now) \in Times /\ Append(RecentEvents(s), now) \in Times
<1>1. ASSUME NEW places \in SUBSET DOMAIN s PROVE FromFirst(s, places) \in Times
  <2>1. PICK S : S = 1..MaxTime /\ s \in Seq(S)
    BY DEF Times
  <2>2. s \in Seq(Nat)
    BY RateLimitsAssumption DEF Times
  <2>3. FromFirst(s, places) \in Seq(S)
    BY ONLY <2>1, <2>2, places \in SUBSET DOMAIN s, LeftIn
  <2> QED BY <2>1, <2>3 DEF Times
<1>2. Recent(s) \in Times
  <2>1. {i \in DOMAIN s : s[i] > now - Window} \in SUBSET DOMAIN s
    OBVIOUS
  <2> QED BY <1>1, <2>1 DEF Recent
<1>3. RecentEvents(s) \in Times
  <2>1. {i \in DOMAIN s : s[i] >= now - Window} \in SUBSET DOMAIN s
    OBVIOUS
  <2> QED BY <1>1, <2>1 DEF RecentEvents
<1>4. ASSUME NEW t \in Times PROVE Append(t, now) \in Times
  BY DEF Times
<1> QED BY <1>2, <1>3, <1>4 DEF Times

LEMMA LimitBoundsStep == ASSUME LimitsInv, LimitBounds, [LimitsNext]_limitVars PROVE LimitBounds'
<1>1. /\ now \in 1..MaxTime /\ evicted \in 0..MaxEvictions
      /\ attempts \in [Keys -> Times] /\ tried \in [Keys -> Times]
      /\ provider \in [Callers -> Times] /\ total \in Times /\ events \in [EventSockets -> Times]
  BY DEF LimitBounds
<1>2. /\ <<>> \in Times
      /\ \A s \in Times : /\ Recent(s) \in Times /\ RecentEvents(s) \in Times
                          /\ Append(Recent(s), now) \in Times /\ Append(RecentEvents(s), now) \in Times
  BY <1>1, TimesLeft
<1>3. CASE TimePasses
  <2>1. now' \in 1..MaxTime /\ UNCHANGED <<attempts, tried, evicted, provider, total, events>>
    BY <1>1, <1>3, RateLimitsAssumption DEF TimePasses, Tick, loginVars, providerVars
  <2> QED BY <1>1, <2>1 DEF LimitBounds
<1>4. ASSUME NEW a \in Accounts, NEW ip \in Ips, LoginTried(a, ip) \/ LoginRefused(a, ip) \/ LoginSucceeded(a, ip)
      PROVE  LimitBounds'
  <2>1. UNCHANGED <<now, provider, total, events>>
    BY <1>4 DEF LoginTried, LoginRefused, LoginSucceeded, providerVars
  <2>2. a \in Keys /\ <<a, ip>> \in Keys
    BY KeysApart
  <2> HIDE <1>4
  <2>3. ASSUME LoginTried(a, ip) PROVE attempts' \in [Keys -> Times] /\ tried' \in [Keys -> Times] /\ evicted' \in 0..MaxEvictions
    <3>1. PICK map : map = [attempts EXCEPT ![a] = Append(Recent(@), now), ![<<a, ip>>] = Append(Recent(@), now)]
      OBVIOUS
    <3>2. Sweep(map) /\ tried' = [tried EXCEPT ![a] = Append(Recent(@), now), ![<<a, ip>>] = Append(Recent(@), now)]
      BY <2>3, <3>1 DEF LoginTried
    <3>3. map \in [Keys -> Times] /\ tried' \in [Keys -> Times]
      BY <1>1, <1>2, <2>2, <3>1, <3>2
    <3>4. evicted \in Nat /\ sweepAt \in Nat /\ sweepAt <= Larger(SweepFloor, 2 * MaxKeys)
      BY DEF LimitsInv, LoginInv, LoginTyped, SmallMap
    <3>5. attempts' \in [Keys -> Times] /\ evicted' \in Nat
      BY <1>2, <3>2, <3>3, <3>4, SweepDoes
    <3>6. evicted' = evicted \/ (evicted < MaxEvictions /\ evicted' = evicted + 1)
      BY <3>2 DEF Sweep
    <3> QED BY <1>1, <3>3, <3>4, <3>5, <3>6, RateLimitsAssumption
  <2>4. ASSUME LoginRefused(a, ip) PROVE attempts' \in [Keys -> Times] /\ tried' = tried /\ evicted' = evicted
    BY <1>1, <1>2, <2>2, <2>4 DEF LoginRefused
  <2>5. ASSUME LoginSucceeded(a, ip) PROVE attempts' \in [Keys -> Times] /\ tried' \in [Keys -> Times] /\ evicted' = evicted
    BY <1>1, <1>2, <2>2, <2>5 DEF LoginSucceeded
  <2>6. attempts' \in [Keys -> Times] /\ tried' \in [Keys -> Times] /\ evicted' \in 0..MaxEvictions
    BY <1>1, <1>4, <2>3, <2>4, <2>5
  <2> QED BY <1>1, <2>1, <2>6 DEF LimitBounds
<1>5. ASSUME NEW c \in Callers, Called(c) PROVE LimitBounds'
  <2>1. UNCHANGED <<now, evicted, attempts, tried, events>>
    BY <1>5 DEF Called, loginVars
  <2>2. provider[c] \in Times /\ Recent(provider[c]) \in Times /\ Append(Recent(provider[c]), now) \in Times
        /\ Recent(total) \in Times /\ Append(Recent(total), now) \in Times
    BY <1>1, <1>2
  <2>3. /\ total' \in {Recent(total), Append(Recent(total), now)}
        /\ \E new \in {Recent(provider[c]), Append(Recent(provider[c]), now)} : provider' = [provider EXCEPT ![c] = new]
    BY <1>5 DEF Called
  <2>4. provider' \in [Callers -> Times] /\ total' \in Times
    BY <1>1, <2>2, <2>3
  <2> QED BY <1>1, <2>1, <2>4 DEF LimitBounds
<1>6. ASSUME NEW s \in EventSockets, EventPassed(s) \/ EventRefused(s) \/ Cleanup(s) PROVE LimitBounds'
  <2>1. UNCHANGED <<now, evicted, attempts, tried, provider, total>>
    BY <1>6 DEF EventPassed, EventRefused, Cleanup, loginVars, providerVars
  <2>2. events[s] \in Times /\ RecentEvents(events[s]) \in Times /\ Append(RecentEvents(events[s]), now) \in Times
    BY <1>1, <1>2
  <2>3. \E new \in {RecentEvents(events[s]), Append(RecentEvents(events[s]), now), <<>>} : events' = [events EXCEPT ![s] = new]
    BY <1>6 DEF EventPassed, EventRefused, Cleanup
  <2>4. events' \in [EventSockets -> Times]
    BY <1>1, <1>2, <2>2, <2>3
  <2> QED BY <1>1, <2>1, <2>4 DEF LimitBounds
<1>7. CASE UNCHANGED limitVars
  BY <1>7 DEF limitVars, loginVars, providerVars, LimitBounds
<1> QED BY <1>3, <1>4, <1>5, <1>6, <1>7 DEF LimitsNext, LoginNext, ProviderNext, EventNext

LEMMA LimitTypes == ASSUME LimitsInv, LimitBounds PROVE LimitsTypeOK
<1>1. sweepAt \in Nat
  BY DEF LimitsInv, LoginInv, LoginTyped
<1>2. \A c \in Callers : promise[c].at \in Nat /\ promise[c].by \in {"nobody", "caller", "all"}
  BY DEF LimitsInv, ProviderInv, Promises
<1> QED BY <1>1, <1>2 DEF LimitsTypeOK, LimitBounds, Times

-----------------------------------------------------------------------------
(* Together, as the bundle runs them.                                       *)

AccountsInv ==
  /\ SessionsInv /\ SessionBounds /\ ApiInv /\ ApiBounds
  /\ PresenceInv /\ PresenceBounds /\ LimitsInv /\ LimitBounds

LEMMA PartsOfAccounts ==
  [Next]_vars => /\ [SessionsNext]_sessionsVars /\ [ApiNext]_apiVars
                 /\ [PresenceNext]_presenceVars /\ [LimitsNext]_limitVars
<1> SUFFICES ASSUME [Next]_vars
             PROVE  /\ [SessionsNext]_sessionsVars /\ [ApiNext]_apiVars
                    /\ [PresenceNext]_presenceVars /\ [LimitsNext]_limitVars
  OBVIOUS
<1>1. CASE UNCHANGED vars
  BY <1>1 DEF vars
<1>2. CASE Next
  BY <1>2 DEF Next, Limits, LimitsNext
<1> QED BY <1>1, <1>2

LEMMA AccountsStart == Init => AccountsInv
BY SessionsStart, SessionBoundsStart, ApiStart, ApiBoundsStart, PresenceStart, PresenceBoundsStart, LimitsBegin,
   LimitBoundsStart DEF Init, AccountsInv

LEMMA AccountsStep == AccountsInv /\ [Next]_vars => AccountsInv'
BY PartsOfAccounts, SessionsStep, SessionBoundsStep, ApiStep, ApiBoundsStep, PresenceStep, PresenceBoundsStep,
   LimitsKept, LimitBoundsStep DEF AccountsInv

\* In every part of the bundle the variables have their types, the lists of who is online
\* agree with who is, the limits limit, and the sessions of the server and of a browser
\* are sound and last.
THEOREM AccountsAreSound == Spec => [](TypeOK /\ PresenceTrue /\ LimitsHold) /\ TokensSound /\ SessionLasts
<1>1. AccountsInv => TypeOK
  BY SessionTypes, ApiTypes, PresenceTypes, LimitTypes DEF AccountsInv, TypeOK
<1>2. AccountsInv => PresenceTrue
  BY DEF AccountsInv, PresenceInv, PresenceTrue, OnlyConnectedListed, StaleOnlyIfMissed, Listed, Honest, Excused, Tracks
<1>3. AccountsInv => LimitsHold
  BY LoginsHold, PromisesHold, EventsHold DEF AccountsInv, LimitsInv, LimitsHold
<1>4. Init => SessionsInit /\ ApiInit
  BY DEF Init
<1>5. Spec => SessionsSpec /\ ApiSpec
  BY <1>4, PartsOfAccounts, PTL DEF Spec, SessionsSpec, ApiSpec
<1> QED BY <1>1, <1>2, <1>3, <1>5, AccountsStart, AccountsStep, SessionsSound, SessionIsKept, PTL DEF Spec
=============================================================================
