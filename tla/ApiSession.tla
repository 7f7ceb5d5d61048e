----------------------------- MODULE ApiSession -----------------------------
(***************************************************************************)
(* The session as one browser sees it (web/src/api/index.js, App.jsx, the  *)
(* logout handlers): tabs share the cookies, each tab shares one refresh   *)
(* among its requests and its socket, and gives the session up when the    *)
(* refresh fails.  The server is its rows of this browser                  *)
(* (server/src/auth) and the check of a connecting socket.                 *)
(***************************************************************************)
EXTENDS Integers, FiniteSets

CONSTANTS
  Tabs, Slots,  \* a tab has so many requests under way
  MaxLogins,    \* bound on the logins of the browser
  MaxJti        \* bound on the tokens issued

ASSUME ApiAssumption == MaxLogins \in Nat \ {0} /\ MaxJti \in Nat \ {0}

VARIABLES
  held,      \* refresh_tokens: the token each login's row holds now, 0 when it has none
  logins, jtis,  \* how many logins and tokens there were
  banned,    \* the account is deleted
  cookie,    \* access: a token that is valid; refresh: the refresh token or 0
  page,      \* per tab: "in" (store.user), "loading" (getMe under way) or "out"
  request,   \* the requests: their stage and whether their access token was valid
  refresh,   \* refreshPromise, with the progress of the request on the server
  logout,    \* the progress of /auth/logout
  socket,    \* the singleton socket, with _socketAuthRetried and its stable timer
  mislaid    \* an answer with new cookies was lost or overtaken since the last login

apiVars == <<held, logins, jtis, banned, cookie, page, request, refresh, logout, socket, mislaid>>

NoRequest == [stage |-> "none", good |-> FALSE]
NoRefresh == [stage |-> "none", old |-> 0, row |-> 0, next |-> 0]
NoLogout == [stage |-> "none", good |-> FALSE, old |-> 0]
NoSocket == [stage |-> "none", good |-> FALSE, retried |-> FALSE, timer |-> FALSE]

ApiInit ==
  /\ held = [n \in 1..MaxLogins |-> 0] /\ logins = 0 /\ jtis = 0 /\ banned = FALSE
  /\ cookie = [access |-> FALSE, refresh |-> 0]
  /\ page = [t \in Tabs |-> "out"]
  /\ request = [t \in Tabs |-> [s \in Slots |-> NoRequest]]
  /\ refresh = [t \in Tabs |-> NoRefresh]
  /\ logout = [t \in Tabs |-> NoLogout]
  /\ socket = [t \in Tabs |-> NoSocket]
  /\ mislaid = FALSE

serverVars == <<held, logins, jtis, banned>>
Live == {n \in 1..MaxLogins : held[n] # 0}

\* The store has a user: the components mount and useSocket connects.
Enters(t) ==
  /\ page' = [page EXCEPT ![t] = "in"]
  /\ socket' = [socket EXCEPT ![t] = [NoSocket EXCEPT !.stage = "connecting"]]

\* auth:expired, as App.jsx handles it: disconnectSocket and clearUser.
Expires(t) ==
  /\ page' = [page EXCEPT ![t] = "out"]
  /\ socket' = [socket EXCEPT ![t] = NoSocket]

-----------------------------------------------------------------------------
(* Entering and leaving.                                                   *)

\* /auth/login: a new row, and both cookies.
Login(t) ==
  /\ page[t] = "out" /\ ~banned /\ logins < MaxLogins /\ jtis < MaxJti
  /\ logins' = logins + 1 /\ jtis' = jtis + 1
  /\ held' = [held EXCEPT ![logins'] = jtis']
  /\ cookie' = [access |-> TRUE, refresh |-> jtis']
  /\ Enters(t)
  /\ mislaid' = \E tab \in Tabs : refresh[tab] # NoRefresh \/ logout[tab] # NoLogout
  /\ UNCHANGED <<banned, request, refresh, logout>>

\* The tab is reloaded: all it remembers is lost, and the answers it waits for.
\* The server may finish a rotation nobody hears of.
Reload(t) ==
  /\ page[t] # "loading" /\ logout[t] = NoLogout
  /\ page' = [page EXCEPT ![t] = "loading"]
  /\ request' = [request EXCEPT ![t] = [s \in Slots |->
                   IF s = CHOOSE u \in Slots : TRUE THEN [stage |-> "sent", good |-> cookie.access]
                   ELSE NoRequest]]
  /\ socket' = [socket EXCEPT ![t] = NoSocket]
  /\ refresh' = [refresh EXCEPT ![t] = NoRefresh]
  /\ \/ UNCHANGED <<held, jtis>>
     \/ /\ refresh[t].stage \in {"sent", "found"} /\ jtis < MaxJti
        /\ jtis' = jtis + 1
        /\ \E n \in Live : /\ IF refresh[t].stage = "sent" THEN held[n] = refresh[t].old
                              ELSE n = refresh[t].row
                           /\ held' = [held EXCEPT ![n] = jtis']
  /\ mislaid' = (mislaid \/ refresh[t] # NoRefresh)
  /\ UNCHANGED <<logins, banned, cookie, logout>>

\* handleLogout of UserPopover and CommandPalette: the socket goes first.
LogoutStarts(t) ==
  /\ page[t] = "in" /\ logout[t] = NoLogout
  /\ socket' = [socket EXCEPT ![t] = NoSocket]
  /\ logout' = [logout EXCEPT ![t] = [stage |-> "sent", good |-> cookie.access, old |-> cookie.refresh]]
  /\ mislaid' = (mislaid \/ refresh[t] # NoRefresh)
  /\ UNCHANGED <<serverVars, cookie, page, request, refresh>>

\* The server lets it through with a valid access token only, and revokes the row
\* of the refresh token it was shown.
LogoutServed(t) ==
  /\ logout[t].stage = "sent" /\ logout[t].good /\ ~banned
  /\ held' = [n \in 1..MaxLogins |-> IF held[n] = logout[t].old THEN 0 ELSE held[n]]
  /\ logout' = [logout EXCEPT ![t].stage = "cleared"]
  /\ UNCHANGED <<logins, jtis, banned, cookie, page, request, refresh, socket, mislaid>>

\* The answer, or the 401 or the failure the handler ignores; then clearUser.
LogoutEnds(t) ==
  /\ \/ logout[t].stage = "cleared" /\ cookie' = [access |-> FALSE, refresh |-> 0]
     \/ logout[t].stage = "sent" /\ (~logout[t].good \/ banned) /\ UNCHANGED cookie
  /\ logout' = [logout EXCEPT ![t] = NoLogout]
  /\ page' = [page EXCEPT ![t] = "out"]
  /\ socket' = [socket EXCEPT ![t] = NoSocket]
  /\ UNCHANGED <<serverVars, request, refresh, mislaid>>

-----------------------------------------------------------------------------
(* refreshSession: POST /auth/refresh.                                     *)

\* MUTANT of Joins: every caller starts a refresh of its own.
JoinsNot(t) ==
  /\ refresh' = [refresh EXCEPT ![t] = [NoRefresh EXCEPT !.stage = "sent", !.old = cookie.refresh]]
  /\ UNCHANGED mislaid

\* The caller joins the refresh under way, or starts it.
Joins(t) ==
  IF refresh[t] # NoRefresh THEN UNCHANGED <<refresh, mislaid>>
  ELSE /\ refresh' = [refresh EXCEPT ![t] =
                        [NoRefresh EXCEPT !.stage = "sent", !.old = cookie.refresh]]
       /\ mislaid' = (mislaid \/ logout[t] # NoLogout)

\* rotate finds the row of the token, or the answer is 401.
RefreshReads(t) ==
  /\ refresh[t].stage = "sent"
  /\ \/ \E n \in Live : /\ held[n] = refresh[t].old
                        /\ refresh' = [refresh EXCEPT ![t].stage = "found", ![t].row = n]
     \/ /\ \A n \in Live : held[n] # refresh[t].old
        /\ refresh' = [refresh EXCEPT ![t].stage = "answered"]
  /\ UNCHANGED <<serverVars, cookie, page, request, logout, socket, mislaid>>

\* The row takes a new token if it is still there; a deleted account is refused.
RefreshWrites(t) ==
  /\ refresh[t].stage = "found" /\ jtis < MaxJti
  /\ jtis' = jtis + 1
  /\ held' = [held EXCEPT ![refresh[t].row] = IF @ = 0 THEN 0 ELSE jtis']
  /\ refresh' = [refresh EXCEPT ![t].stage = "answered", ![t].next = IF banned THEN 0 ELSE jtis']
  /\ UNCHANGED <<logins, banned, cookie, page, request, logout, socket, mislaid>>

\* The requests that waited are sent again, with the new cookie; a socket that the
\* server had cut off connects again.
RefreshSucceeds(t) ==
  /\ refresh[t].stage = "answered" /\ refresh[t].next # 0
  /\ cookie' = [access |-> TRUE, refresh |-> refresh[t].next]
  /\ refresh' = [refresh EXCEPT ![t] = NoRefresh]
  /\ request' = [request EXCEPT ![t] = [s \in Slots |->
                   IF @[s].stage = "waiting" THEN [stage |-> "again", good |-> TRUE] ELSE @[s]]]
  /\ socket' = [socket EXCEPT ![t].stage = IF @ = "parked" THEN "connecting" ELSE @]
  /\ UNCHANGED <<serverVars, page, logout, mislaid>>

\* A request that failed while the page loads shows the login.
Failed(t) == [request EXCEPT ![t] = [s \in Slots |-> IF @[s].stage = "waiting" THEN NoRequest ELSE @[s]]]

RefreshFails(t) ==
  /\ refresh[t].stage = "answered" /\ refresh[t].next = 0
  /\ refresh' = [refresh EXCEPT ![t] = NoRefresh]
  /\ request' = Failed(t)
  /\ Expires(t)
  /\ UNCHANGED <<serverVars, cookie, logout, mislaid>>

\* The network fails, or API_TIMEOUT_MS pass: the tab gives up, whatever the server
\* did or will do with the request.
RefreshLost(t) ==
  /\ refresh[t] # NoRefresh
  /\ refresh' = [refresh EXCEPT ![t] = NoRefresh]
  /\ \/ UNCHANGED <<held, jtis>>
     \/ /\ refresh[t].stage = "found" /\ held[refresh[t].row] # 0 /\ jtis < MaxJti
        /\ jtis' = jtis + 1
        /\ held' = [held EXCEPT ![refresh[t].row] = jtis']
  /\ request' = Failed(t)
  /\ mislaid' = TRUE
  /\ Expires(t)
  /\ UNCHANGED <<logins, banned, cookie, logout>>

-----------------------------------------------------------------------------
(* apiFetch.                                                               *)

Sends(t, s) ==
  /\ page[t] = "in" /\ request[t][s] = NoRequest
  /\ request' = [request EXCEPT ![t][s] = [stage |-> "sent", good |-> cookie.access]]
  /\ UNCHANGED <<serverVars, cookie, page, refresh, logout, socket, mislaid>>

\* The request is served, or fails for reasons of its own.  getMe brings the user.
Answered(t, s) ==
  /\ request[t][s].stage \in {"sent", "again"} /\ request[t][s].good /\ ~banned
  /\ request' = [request EXCEPT ![t][s] = NoRequest]
  /\ IF page[t] = "loading" THEN Enters(t) ELSE UNCHANGED <<page, socket>>
  /\ UNCHANGED <<serverVars, cookie, refresh, logout, mislaid>>

\* A request that is not answered in time fails; so does getMe.
Unanswered(t, s) ==
  /\ request[t][s].stage \in {"sent", "again"}
  /\ request' = [request EXCEPT ![t][s] = NoRequest]
  /\ IF page[t] = "loading" THEN page' = [page EXCEPT ![t] = "out"] ELSE UNCHANGED page
  /\ UNCHANGED <<serverVars, cookie, refresh, logout, socket, mislaid>>

\* MUTANT of Refused: a 401 ends the session without a refresh.
RefusedOutright(t, s) ==
  /\ request[t][s].stage \in {"sent", "again"} /\ (~request[t][s].good \/ banned)
  /\ request' = [request EXCEPT ![t][s] = NoRequest]
  /\ Expires(t) /\ UNCHANGED <<refresh, mislaid>>
  /\ UNCHANGED <<serverVars, cookie, logout>>

\* MUTANT of Refused: a request that was sent again waits for a refresh once more.
RefusedForever(t, s) ==
  /\ request[t][s].stage \in {"sent", "again"} /\ (~request[t][s].good \/ banned)
  /\ request' = [request EXCEPT ![t][s] = [stage |-> "again", good |-> FALSE]]
  /\ Joins(t) /\ UNCHANGED <<page, socket>>
  /\ UNCHANGED <<serverVars, cookie, logout>>

\* 401: the first time it waits for the refresh, the second time the session is over.
Refused(t, s) ==
  /\ ~request[t][s].good \/ banned
  /\ \/ /\ request[t][s].stage = "sent"
        /\ request' = [request EXCEPT ![t][s].stage = "waiting"]
        /\ Joins(t)
        /\ UNCHANGED <<page, socket>>
     \/ /\ request[t][s].stage = "again"
        /\ request' = [request EXCEPT ![t][s] = NoRequest]
        /\ Expires(t)
        /\ UNCHANGED <<refresh, mislaid>>
  /\ UNCHANGED <<serverVars, cookie, logout>>

-----------------------------------------------------------------------------
(* The socket: connectSocket and its handlers.                             *)

\* 'connect': the server has the cookie of the handshake; the stable timer starts.
SocketOpens(t) ==
  /\ socket[t].stage = "connecting"
  /\ socket' = [socket EXCEPT ![t].stage = "up", ![t].good = cookie.access, ![t].timer = TRUE]
  /\ UNCHANGED <<serverVars, cookie, page, request, refresh, logout, mislaid>>

SocketStable(t) ==
  /\ socket[t].timer
  /\ socket' = [socket EXCEPT ![t].timer = FALSE, ![t].retried = FALSE]
  /\ UNCHANGED <<serverVars, cookie, page, request, refresh, logout, mislaid>>

\* The transport drops: socket.io connects again by itself, the timer goes on.
SocketDrops(t) ==
  /\ socket[t].stage = "up"
  /\ socket' = [socket EXCEPT ![t].stage = "connecting", ![t].good = FALSE]
  /\ UNCHANGED <<serverVars, cookie, page, request, refresh, logout, mislaid>>

\* MUTANT of CutOff: the socket waits for the next request to find out.
CutOffQuietly(t) ==
  /\ socket[t].stage = "up"
  /\ socket' = [socket EXCEPT ![t].stage = "parked", ![t].timer = FALSE]
  /\ UNCHANGED <<page, refresh, mislaid>>

\* 'io server disconnect': one refresh, unless one was tried and the connection was
\* not stable since.
CutOff(t) ==
  /\ socket[t].stage = "up"
  /\ \/ /\ socket[t].retried
        /\ Expires(t)
        /\ UNCHANGED <<refresh, mislaid>>
     \/ /\ ~socket[t].retried
        /\ socket' = [socket EXCEPT ![t] = [NoSocket EXCEPT !.stage = "parked", !.retried = TRUE]]
        /\ Joins(t)
        /\ UNCHANGED page

\* A gateway disconnects a socket whose cookie or account is not valid.
Rejects(t) ==
  /\ ~socket[t].good \/ banned
  /\ CutOff(t)
  /\ UNCHANGED <<serverVars, cookie, request, logout>>

\* kickUser after a change of the user's role.
Kicks(t) ==
  /\ socket[t].good /\ ~banned
  /\ CutOff(t)
  /\ UNCHANGED <<serverVars, cookie, request, logout>>

-----------------------------------------------------------------------------
(* The account and time.                                                   *)

\* banUser removes the user, and the rows with it.
Ban ==
  /\ ~banned /\ logins > 0
  /\ banned' = TRUE
  /\ held' = [n \in 1..MaxLogins |-> 0]
  /\ UNCHANGED <<logins, jtis, cookie, page, request, refresh, logout, socket, mislaid>>

\* The access token expires after its hour: not again before a request that was sent
\* with the new one is answered.
AccessExpires ==
  /\ cookie.access
  /\ \A t \in Tabs, s \in Slots : request[t][s].stage # "again"
  /\ cookie' = [cookie EXCEPT !.access = FALSE]
  /\ UNCHANGED <<serverVars, page, request, refresh, logout, socket, mislaid>>

ApiNext ==
  \/ Ban \/ AccessExpires
  \/ \E t \in Tabs :
       \/ Login(t) \/ Reload(t) \/ LogoutStarts(t) \/ LogoutServed(t) \/ LogoutEnds(t)
       \/ RefreshReads(t) \/ RefreshWrites(t) \/ RefreshSucceeds(t) \/ RefreshFails(t) \/ RefreshLost(t)
       \/ SocketOpens(t) \/ SocketStable(t) \/ SocketDrops(t) \/ Rejects(t) \/ Kicks(t)
       \/ \E s \in Slots : Sends(t, s) \/ Answered(t, s) \/ Unanswered(t, s) \/ Refused(t, s)

\* A request is answered or given up after API_TIMEOUT_MS, a cut socket connects
\* again by itself, and a connection that lasts is looked at by the server.
ApiFairness ==
  \A t \in Tabs :
    /\ WF_apiVars(RefreshReads(t) \/ RefreshWrites(t) \/ RefreshLost(t) \/ RefreshSucceeds(t) \/ RefreshFails(t))
    /\ WF_apiVars(LogoutServed(t) \/ LogoutEnds(t))
    /\ WF_apiVars(SocketOpens(t)) /\ SF_apiVars(Rejects(t))
    /\ \A s \in Slots : WF_apiVars(Answered(t, s) \/ Unanswered(t, s) \/ Refused(t, s))

-----------------------------------------------------------------------------
(* Properties.                                                             *)

\* Every variable of the session has its type.
ApiTypeOK ==
  /\ held \in [1..MaxLogins -> 0..jtis] /\ logins \in 0..MaxLogins /\ jtis \in 0..MaxJti
  /\ banned \in BOOLEAN /\ mislaid \in BOOLEAN
  /\ cookie \in [access : BOOLEAN, refresh : 0..jtis]
  /\ page \in [Tabs -> {"in", "loading", "out"}]
  /\ request \in [Tabs -> [Slots -> [stage : {"none", "sent", "waiting", "again"}, good : BOOLEAN]]]
  /\ \A t \in Tabs :
       /\ refresh[t].stage \in {"none", "sent", "found", "answered"}
       /\ logout[t].stage \in {"none", "sent", "cleared"}
       /\ socket[t] \in [stage : {"none", "connecting", "up", "parked"}, good : BOOLEAN,
                         retried : BOOLEAN, timer : BOOLEAN]

\* With one tab, the browser never loses its session: while nothing is under way and
\* no answer was lost, the refresh cookie is the token of a row, however many
\* requests and the socket found the access token expired at the same time.
SessionKept ==
  \A t \in Tabs :
    Tabs = {t} /\ page[t] = "in" /\ ~banned /\ ~mislaid
      /\ refresh[t] = NoRefresh /\ logout[t] = NoLogout => cookie.refresh \in {held[n] : n \in Live}

\* Nobody is sent to the login without cause: the account is gone, an answer with new
\* cookies was lost, or the server cut the socket off twice in a row.
NotExpelled ==
  [][\A t \in Tabs :
       Tabs = {t} /\ page[t] = "in" /\ page'[t] = "out" /\ logout[t] = NoLogout =>
         banned \/ mislaid' \/ (socket[t].stage = "up" /\ socket[t].retried)]_apiVars

\* A request never waits for a refresh that nobody asked for.
WaitersHaveRefresh ==
  \A t \in Tabs : (\E s \in Slots : request[t][s].stage = "waiting") \/ socket[t].stage = "parked"
                    => refresh[t] # NoRefresh

\* Every request comes to an end, also one that is sent again after the refresh: no
\* request goes round between 401 and refresh.
RequestsEnd == \A t \in Tabs, s \in Slots : request[t][s] # NoRequest ~> request[t][s] = NoRequest

\* A tab whose account was deleted leaves the application, without a request of its
\* own: its socket is turned away and the refresh that follows is refused.
BannedLeaves == \A t \in Tabs : banned /\ page[t] = "in" ~> page[t] # "in"

\* The session of a browser lasts as long as the account.
SessionLasts == []SessionKept /\ []WaitersHaveRefresh /\ NotExpelled

\* Nothing goes round for ever: requests end, and a tab of a dead account leaves.
SessionSettles == RequestsEnd /\ BannedLeaves
=============================================================================
