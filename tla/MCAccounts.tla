----------------------------- MODULE MCAccounts -----------------------------
(***************************************************************************)
(* A small instance of what concerns an account: its sessions on the       *)
(* server, the session as a browser sees it, who is online, and the limits *)
(* on what it may do.  They share no state, so a behaviour runs one of     *)
(* them (part) while the others stay where they began.                     *)
(***************************************************************************)
EXTENDS Sessions, ApiSession, Presence, RateLimits

VARIABLE part

vars == <<sessionsVars, apiVars, presenceVars, limitVars, part>>

Init ==
  /\ SessionsInit /\ ApiInit /\ PresenceInit /\ LimitsInit
  /\ part \in {"sessions", "browser", "presence", "logins", "provider", "events"}
  /\ part # "presence" => account = [u \in Users |-> "member"]

Limits == UNCHANGED <<sessionsVars, apiVars, presenceVars>>

Next ==
  /\ UNCHANGED part
  /\ \/ part = "sessions" /\ SessionsNext /\ UNCHANGED <<apiVars, presenceVars, limitVars>>
     \/ part = "browser" /\ ApiNext /\ UNCHANGED <<sessionsVars, presenceVars, limitVars>>
     \/ part = "presence" /\ PresenceNext /\ UNCHANGED <<sessionsVars, apiVars, limitVars>>
     \/ part = "logins" /\ (TimePasses \/ LoginNext) /\ Limits
     \/ part = "provider" /\ (TimePasses \/ ProviderNext) /\ Limits
     \/ part = "events" /\ (TimePasses \/ EventNext) /\ Limits

Spec == Init /\ [][Next]_vars /\ ApiFairness

\* Every variable has its type.
TypeOK == SessionsTypeOK /\ ApiTypeOK /\ PresenceTypeOK /\ LimitsTypeOK
=============================================================================
