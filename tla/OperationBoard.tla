--------------------------- MODULE OperationBoard ---------------------------
(* The live operation board: the gateway that keeps the drawing and the     *)
(* participants in memory, the browsers' socket hook that keeps a replica   *)
(* of them, and the socket between the two.  A browser has one connection   *)
(* at a time; what it sends is buffered while the connection is down, what  *)
(* is in flight when a connection breaks is lost.                           *)
EXTENDS Naturals, Sequences

CONSTANTS
    Browsers,       \* the browsers, each with one socket
    Admins,         \* those whose account is admin or developer
    Strokes,        \* the drawable elements, records [id, bytes]
    Images,         \* the uploaded background images
    Grid,           \* the grid background
    MaxElements,    \* MAX_OPERATION_ELEMENTS, MAX_ELEMENTS of the hook
    MaxBytes,       \* MAX_OPERATION_ELEMENTS_BYTES
    RateLimits,     \* TRUE when a join or a leave may be refused by its rate rule
    MaxSent,        \* bound: messages of one browser not yet received
    MaxInbox,       \* bound: messages to one browser before more are produced
    MaxSessions     \* bound: lives of the server process

\* The sizes of the elements and the limits are numbers; administrators have browsers.
ASSUME BoardAssumption ==
    /\ \A e \in Strokes : e.bytes \in Nat
    /\ MaxElements \in Nat /\ MaxBytes \in Nat /\ MaxSessions \in Nat \ {0}
    /\ Admins \subseteq Browsers

VARIABLES
    board,          \* the live drawing
    participants,   \* the role of each browser on the board, also its room
    joining,        \* the browsers whose join awaits the account lookup
    armed,          \* TRUE while the presence timer is pending
    session,        \* sessionId of this life of the server
    link,           \* the connection of each browser, as the gateway sees it
    sent,           \* each browser's join and leave not yet received
    inbox,          \* the events not yet delivered to each browser
    tab             \* each browser's board tab: the hook's state

boardVars == <<board, participants, joining, armed, session, link, sent, inbox, tab>>

-----------------------------------------------------------------------------
Roles == {"out", "viewer", "drawer"}

Backgrounds == Images \cup {Grid}

ElementsBytes(elements) ==
    LET bytes[i \in 0..Len(elements)] == IF i = 0 THEN 0 ELSE bytes[i-1] + elements[i].bytes
    IN  bytes[Len(elements)]

\* The elements at some places, in their order.
Picked(elements, places) ==
    LET picked[i \in 0..Len(elements)] ==
            IF i = 0 THEN <<>>
            ELSE IF i \in places THEN Append(picked[i-1], elements[i]) ELSE picked[i-1]
    IN  picked[Len(elements)]

WithId(elements, id) == Picked(elements, {i \in DOMAIN elements : elements[i].id = id})
WithoutId(elements, id) == Picked(elements, {i \in DOMAIN elements : elements[i].id # id})

Drawings == UNION {[1..n -> Strokes] : n \in 0..MaxElements}

\* What validateOperationElements accepts.
ValidElements == {es \in Drawings : ElementsBytes(es) <= MaxBytes}

EmptyBoard == [elements |-> <<>>, bytes |-> 0, background |-> Grid]

SnapshotFor(b, who) ==
    [type |-> "state", elements |-> board.elements, background |-> board.background,
     who |-> who, canDraw |-> who[b] = "drawer", session |-> session]

NoOne == [b \in Browsers |-> "out"]

ClosedTab == [open |-> FALSE, elements |-> <<>>, background |-> Grid,
              who |-> NoOne, canDraw |-> FALSE, session |-> 0]

MountedTab == [ClosedTab EXCEPT !.open = TRUE]

-----------------------------------------------------------------------------
(* The hook's handlers.                                                     *)

HandleState(t, m) == [t EXCEPT !.elements = m.elements, !.background = m.background,
                               !.who = m.who, !.canDraw = m.canDraw, !.session = m.session]

HandlePresence(b, t, m) ==
    [t EXCEPT !.who = m.who,
              !.canDraw = IF m.who[b] = "out" THEN @ ELSE m.who[b] = "drawer"]

\* MUTANT of LastOf: keeps one element too few.
LastButOne(n, s) == SubSeq(s, IF Len(s) >= n THEN Len(s) - n + 2 ELSE 1, Len(s))

LastOf(n, s) == SubSeq(s, IF Len(s) > n THEN Len(s) - n + 1 ELSE 1, Len(s))

HandleAdd(t, m) == [t EXCEPT !.elements = LastOf(MaxElements, Append(@, m.element))]

HandleRemove(t, m) == [t EXCEPT !.elements = WithoutId(@, m.id)]

HandleBoardReplace(t, m) ==
    [t EXCEPT !.elements = m.elements, !.background = m.background]

\* A closed tab has unsubscribed from every event.
Handle(b, t, m) ==
    IF ~t.open THEN t
    ELSE CASE m.type = "state"      -> HandleState(t, m)
           [] m.type = "presence"   -> HandlePresence(b, t, m)
           [] m.type = "add"        -> HandleAdd(t, m)
           [] m.type = "remove"     -> HandleRemove(t, m)
           [] m.type = "clear"      -> [t EXCEPT !.elements = <<>>]
           [] m.type = "background" -> [t EXCEPT !.background = m.background]
           [] m.type = "replace"    -> HandleBoardReplace(t, m)

-----------------------------------------------------------------------------
(* The browser.                                                             *)

OpenTab(b) ==
    /\ ~tab[b].open
    /\ Len(sent[b]) < MaxSent /\ Len(inbox[b]) < MaxInbox
    /\ tab' = [tab EXCEPT ![b] = MountedTab]
    /\ sent' = [sent EXCEPT ![b] = Append(@, "join")]
    /\ UNCHANGED <<board, participants, joining, armed, session, link, inbox>>

CloseTab(b) ==
    /\ tab[b].open
    /\ Len(sent[b]) < MaxSent
    /\ tab' = [tab EXCEPT ![b] = ClosedTab]
    /\ sent' = [sent EXCEPT ![b] = Append(@, "leave")]
    /\ UNCHANGED <<board, participants, joining, armed, session, link, inbox>>

\* The buffered events go out first, then the hook's connect handler joins again.
Connect(b) ==
    /\ link[b] = "down"
    /\ link' = [link EXCEPT ![b] = "looking"]
    /\ sent' = [sent EXCEPT ![b] = IF tab[b].open THEN Append(@, "join") ELSE @]
    /\ UNCHANGED <<board, participants, joining, armed, session, inbox, tab>>

Deliver(b) ==
    /\ inbox[b] # <<>>
    /\ tab' = [tab EXCEPT ![b] = Handle(b, @, Head(inbox[b]))]
    /\ inbox' = [inbox EXCEPT ![b] = Tail(@)]
    /\ UNCHANGED <<board, participants, joining, armed, session, link, sent>>

-----------------------------------------------------------------------------
(* The gateway: connections, joins and leaves.                              *)

\* MUTANT of Drop: a join that awaits the lookup survives its connection.
DropForgetsJoin(b) ==
    /\ link[b] # "down"
    /\ link' = [link EXCEPT ![b] = "down"]
    /\ participants' = [participants EXCEPT ![b] = "out"]
    /\ armed' = (armed \/ participants[b] # "out")
    /\ sent' = [sent EXCEPT ![b] = <<>>]
    /\ inbox' = [inbox EXCEPT ![b] = <<>>]
    /\ UNCHANGED <<board, joining, session, tab>>

\* A connection breaks, or its lookup finds no account; handleDisconnect.
Drop(b) ==
    /\ link[b] # "down"
    /\ link' = [link EXCEPT ![b] = "down"]
    /\ participants' = [participants EXCEPT ![b] = "out"]
    /\ armed' = (armed \/ participants[b] # "out")
    /\ joining' = joining \ {b}
    /\ sent' = [sent EXCEPT ![b] = <<>>]
    /\ inbox' = [inbox EXCEPT ![b] = <<>>]
    /\ UNCHANGED <<board, session, tab>>

JoinedBy(b) == IF b \in Admins THEN "drawer" ELSE "viewer"

\* The part of handleJoin after its await.
Join(b) ==
    LET who == [participants EXCEPT ![b] = JoinedBy(b)] IN
    /\ participants' = who
    /\ inbox' = [inbox EXCEPT ![b] = Append(@, SnapshotFor(b, who))]
    /\ armed' = TRUE

\* MUTANT of LookedUp: the lookup ends without the join that awaited it.
LookedUpOnly(b) ==
    /\ link[b] = "looking"
    /\ link' = [link EXCEPT ![b] = "ready"]
    /\ joining' = joining \ {b}
    /\ UNCHANGED <<board, participants, armed, session, sent, inbox, tab>>

\* The lookup all gateways share ends; joins that awaited it go on.  Several
\* joins of one browser resume together and send the same snapshot: one is kept.
LookedUp(b) ==
    /\ link[b] = "looking"
    /\ link' = [link EXCEPT ![b] = "ready"]
    /\ joining' = joining \ {b}
    /\ IF b \in joining THEN Join(b) ELSE UNCHANGED <<participants, inbox, armed>>
    /\ UNCHANGED <<board, session, sent, tab>>

Received(b, event) ==
    /\ link[b] # "down"
    /\ sent[b] # <<>> /\ Head(sent[b]) = event
    /\ sent' = [sent EXCEPT ![b] = Tail(@)]
    /\ UNCHANGED <<board, session, link, tab>>

HandleJoin(b) ==
    /\ Received(b, "join")
    /\ IF link[b] = "ready"
         THEN Join(b) /\ UNCHANGED joining
         ELSE joining' = joining \cup {b} /\ UNCHANGED <<participants, inbox, armed>>

HandleLeave(b) ==
    /\ Received(b, "leave")
    /\ participants' = [participants EXCEPT ![b] = "out"]
    /\ armed' = (armed \/ participants[b] # "out")
    /\ UNCHANGED <<joining, inbox>>

\* checkRate refuses a join or a leave.
RateLimited(b) ==
    /\ RateLimits
    /\ \E event \in {"join", "leave"} : Received(b, event)
    /\ UNCHANGED <<participants, joining, armed, inbox>>

-----------------------------------------------------------------------------
(* The gateway: drawing, permissions and presence.                          *)

Room == {b \in Browsers : participants[b] # "out"}

BroadcastToRoom(m) ==
    /\ \A b \in Room : Len(inbox[b]) < MaxInbox
    /\ inbox' = [b \in Browsers |-> IF b \in Room THEN Append(inbox[b], m) ELSE inbox[b]]

\* A request can still arrive from a tab that is open, or was when it left.
Asking(b) == link[b] # "down" /\ (tab[b].open \/ sent[b] # <<>>)

CanClientDraw(b) == Asking(b) /\ participants[b] = "drawer"

CanClientManage(b) == Asking(b) /\ participants[b] # "out" /\ b \in Admins

notDrawing == <<participants, joining, armed, session, link, sent, tab>>

\* MUTANT of HandleElementAdd: the number of elements is not limited.
AddUnlimited(b, e) ==
    /\ CanClientDraw(b)
    /\ board.bytes + e.bytes <= MaxBytes
    /\ board' = [board EXCEPT !.elements = Append(@, e), !.bytes = @ + e.bytes]
    /\ BroadcastToRoom([type |-> "add", element |-> e])
    /\ UNCHANGED notDrawing

HandleElementAdd(b, e) ==
    /\ CanClientDraw(b)
    /\ Len(board.elements) < MaxElements
    /\ board.bytes + e.bytes <= MaxBytes
    /\ board' = [board EXCEPT !.elements = Append(@, e), !.bytes = @ + e.bytes]
    /\ BroadcastToRoom([type |-> "add", element |-> e])
    /\ UNCHANGED notDrawing

\* MUTANT of Without: the bytes of only one element are given back.
WithoutBytesOfOne(id) ==
    LET gone == WithId(board.elements, id)
    IN  [board EXCEPT !.elements = WithoutId(@, id),
                      !.bytes = IF gone = <<>> THEN @ ELSE @ - Head(gone).bytes]

\* Every element with that id goes, and the bytes of each of them.
Without(id) ==
    LET removedBytes == ElementsBytes(WithId(board.elements, id))
    IN  [board EXCEPT !.elements = WithoutId(@, id),
                      !.bytes = IF @ > removedBytes THEN @ - removedBytes ELSE 0]

HandleElementRemove(b, id) ==
    /\ CanClientDraw(b)
    /\ board' = Without(id)
    /\ BroadcastToRoom([type |-> "remove", id |-> id])
    /\ UNCHANGED notDrawing

HandleClear(b) ==
    /\ CanClientManage(b)
    /\ board' = [board EXCEPT !.elements = <<>>, !.bytes = 0]
    /\ BroadcastToRoom([type |-> "clear"])
    /\ UNCHANGED notDrawing

HandleBackgroundUpdate(b, bg) ==
    /\ CanClientManage(b)
    /\ board' = [board EXCEPT !.background = bg]
    /\ BroadcastToRoom([type |-> "background", background |-> bg])
    /\ UNCHANGED notDrawing

HandleReplace(b, es, bg) ==
    /\ CanClientManage(b)
    /\ board' = [elements |-> es, bytes |-> ElementsBytes(es), background |-> bg]
    /\ BroadcastToRoom([type |-> "replace", elements |-> es, background |-> bg])
    /\ UNCHANGED notDrawing

\* MUTANT of HandlePermissionUpdate: nobody is told of the permission.
PermissionUntold(b, p, canDraw) ==
    LET next == IF p \in Admins \/ canDraw THEN "drawer" ELSE "viewer" IN
    /\ CanClientManage(b)
    /\ participants[p] # "out" /\ participants[p] # next
    /\ participants' = [participants EXCEPT ![p] = next]
    /\ UNCHANGED <<board, joining, armed, session, link, sent, inbox, tab>>

HandlePermissionUpdate(b, p, canDraw) ==
    LET next == IF p \in Admins \/ canDraw THEN "drawer" ELSE "viewer" IN
    /\ CanClientManage(b)
    /\ participants[p] # "out" /\ participants[p] # next
    /\ participants' = [participants EXCEPT ![p] = next]
    /\ armed' = TRUE
    /\ UNCHANGED <<board, joining, session, link, sent, inbox, tab>>

\* Whether a participant's chat is open is only told to the others.
HandleChatOpen(b) ==
    /\ Asking(b) /\ participants[b] # "out"
    /\ armed' = TRUE
    /\ UNCHANGED <<board, participants, joining, session, link, sent, inbox, tab>>

PresenceFires ==
    /\ armed
    /\ armed' = FALSE
    /\ BroadcastToRoom([type |-> "presence", who |-> participants])
    /\ UNCHANGED <<board, participants, joining, session, link, sent, tab>>

\* The process ends and another starts: the live board was only in memory.
BoardRestart ==
    /\ session < MaxSessions
    /\ session' = session + 1
    /\ board' = EmptyBoard /\ participants' = NoOne
    /\ joining' = {} /\ armed' = FALSE
    /\ link' = [b \in Browsers |-> "down"]
    /\ sent' = [b \in Browsers |-> IF link[b] = "down" THEN sent[b] ELSE <<>>]
    /\ inbox' = [b \in Browsers |-> <<>>]
    /\ UNCHANGED tab

-----------------------------------------------------------------------------
BoardInit ==
    /\ board = EmptyBoard /\ participants = NoOne
    /\ joining = {} /\ armed = FALSE /\ session = 1
    /\ link = [b \in Browsers |-> "down"]
    /\ sent = [b \in Browsers |-> <<>>]
    /\ inbox = [b \in Browsers |-> <<>>]
    /\ tab = [b \in Browsers |-> ClosedTab]

Receive(b) == HandleJoin(b) \/ HandleLeave(b) \/ RateLimited(b)

Draw(b) ==
    \/ \E e \in Strokes : HandleElementAdd(b, e) \/ HandleElementRemove(b, e.id)
    \/ HandleClear(b)
    \/ \E bg \in Backgrounds : \/ HandleBackgroundUpdate(b, bg)
                               \/ \E es \in ValidElements : HandleReplace(b, es, bg)

BoardNext ==
    \/ \E b \in Browsers :
        \/ OpenTab(b) \/ CloseTab(b) \/ Connect(b) \/ Deliver(b)
        \/ Drop(b) \/ LookedUp(b) \/ Receive(b)
        \/ Draw(b) \/ HandleChatOpen(b)
        \/ \E p \in Browsers, canDraw \in BOOLEAN : HandlePermissionUpdate(b, p, canDraw)
    \/ PresenceFires
    \/ BoardRestart

\* A received event is handled, a lookup ends, an event sent arrives, unless
\* the connection breaks first.  Nothing makes people draw or look.
BoardFairness == \A b \in Browsers : WF_boardVars(Receive(b)) /\ WF_boardVars(LookedUp(b)) /\ WF_boardVars(Deliver(b))

BoardSpec == BoardInit /\ [][BoardNext]_boardVars /\ BoardFairness

-----------------------------------------------------------------------------
(* Properties.                                                              *)

\* The variables keep their types.
BoardTypeOK ==
    /\ board \in [elements : Drawings, bytes : Nat, background : Backgrounds]
    /\ participants \in [Browsers -> Roles]
    /\ joining \subseteq Browsers /\ armed \in BOOLEAN /\ session \in 1..MaxSessions
    /\ link \in [Browsers -> {"down", "looking", "ready"}]
    /\ \A b \in Browsers : \A i \in DOMAIN sent[b] : sent[b][i] \in {"join", "leave"}

\* Who is on the board is connected and known, and only a join of a lasting
\* connection awaits its lookup: neither a right to draw nor a join survives
\* the connection it came on, wherever the connection breaks.
BoardOfConnected ==
    /\ \A b \in Browsers : participants[b] # "out" => link[b] = "ready"
    /\ \A b \in joining : link[b] = "looking"

\* A tab after it has handled the events.
After(b, t, events) ==
    LET after[i \in 0..Len(events)] == IF i = 0 THEN t ELSE Handle(b, after[i-1], events[i])
    IN  after[Len(events)]

\* What a tab will show once everything on its way has arrived.
Settled(b) == After(b, tab[b], inbox[b])

\* The gateway has answered the tab's join, and nothing it sent is pending.
Following(b) ==
    /\ tab[b].open /\ participants[b] # "out"
    /\ sent[b] = <<>> /\ b \notin joining
    /\ Settled(b).session # 0

\* A tab the gateway counts as a participant loses no edit: applying the
\* events on their way to its drawing gives exactly the live drawing, also
\* when it joined, left, reconnected or lived through a restart in between.
ReplicaFollows ==
    \A b \in Browsers : Following(b) =>
        /\ Settled(b).elements = board.elements
        /\ Settled(b).background = board.background
        /\ Settled(b).session = session

\* With no presence broadcast pending, such a tab is about to show who is on
\* the board and whether it may draw: the coalesced broadcasts miss no change.
PresenceFollows ==
    ~armed => \A b \in Browsers : Following(b) =>
        /\ Settled(b).who = participants
        /\ Settled(b).canDraw = (participants[b] = "drawer")

\* The running byte count is the size of the drawing, however it was edited,
\* so that neither limit is passed and no room is lost for good.
BoardBounded ==
    /\ Len(board.elements) <= MaxElements
    /\ board.bytes = ElementsBytes(board.elements)
    /\ board.bytes <= MaxBytes

\* An open tab whose connection lasts gets the board, even when its join
\* arrived while its account was still being looked up.
TabJoins ==
    \A b \in Browsers :
        tab[b].open /\ link[b] # "down" ~>
            tab[b].session = session \/ ~tab[b].open \/ link[b] = "down"

\* Who has left the tab is off the board: once its leave was handled, a
\* browser without the tab is no participant and gets no drawing event.
NoGhost ==
    \A b \in Browsers :
        ~tab[b].open /\ sent[b] = <<>> /\ b \notin joining => participants[b] = "out"
=============================================================================
