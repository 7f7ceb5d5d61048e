----------------------------- MODULE MCBrowser ------------------------------
(***************************************************************************)
(* A small instance of one browser: what makes a countdown heard together  *)
(* (the clock, the players, the probes by which the server sets the start, *)
(* the march time of the user), the input line of the chat, the page of a  *)
(* board and the canvas of the operation board.  They share no state, so a *)
(* behaviour runs one of them (part) while the others stay where they      *)
(* began.                                                                  *)
(***************************************************************************)
EXTENDS ClockSync, SpeechPlayer, ReadyNegotiation, Composer, MarchSettings, BoardPage,
        DrawingCanvas

CONSTANT s1

VARIABLE part

vars == <<clockVars, playerVars, negotiationVars, composerVars, marchVars,
          translationVars, formVars, canvasVars, part>>

\* Answers that take their time on the way back.
SlowWayBack == {<<0, 2>>}

\* Two captains, a second apart.
TwoCaptains == {<<1, 0>>, <<2, 1>>}
ColdWords == {<<"number", 2>>, <<"captain", 1>>}
Offsets == {-1, 0, 1}

Init ==
  /\ part \in {"clock", "tabs", "countdown", "rally", "countdown estimates", "rally estimates", "probes", "line", "march",
              "posts", "form", "canvas"}
  /\ ClockInit
  /\ PlayerInit(IF part \in {"rally", "rally estimates"} THEN "rally" ELSE "countdown",
                IF part \in {"countdown", "rally"} THEN ColdWords ELSE {})
  /\ NegotiationInit /\ (part # "probes" => connected = 0)
  /\ ComposerInit /\ BoardPageInit /\ CanvasInit
  /\ MarchInit /\ (part # "march" => saved = Unset /\ kept = Unset)

Keep(p, v) == part \notin p => UNCHANGED v

\* With a second call of syncTime() and one failure, or with a second tab and two.
OneTab == told' = 0 /\ failures' <= 1
OneCall == \A s \in Syncs : s # s1 => ~sync'[s].on

\* The clock of the device is disturbed, or the estimate moves.
Undisturbed == budget'.pauses = 0 /\ budget'.failed = 0
LittleMoves ==
  /\ budget'.moves <= 1 /\ personal' = 0
  /\ kind = "rally" => budget'.pauses = 0 \/ budget'.failed = 0

\* One element of the canvas at a time.
OneElement == added'.what # Nothing => draft' = Nothing

Next ==
  /\ UNCHANGED part
  /\ \/ part = "clock" /\ ClockNext /\ OneTab
     \/ part = "tabs" /\ ClockNext /\ OneCall
     \/ part \in {"countdown", "rally"} /\ PlayerNext /\ LittleMoves
     \/ part \in {"countdown estimates", "rally estimates"} /\ PlayerNext /\ Undisturbed
     \/ part = "probes" /\ NegotiationNext
     \/ part = "line" /\ ComposerNext
     \/ part = "march" /\ MarchNext
     \/ part = "posts" /\ TranslationNext
     \/ part = "form" /\ FormNext
     \/ part = "canvas" /\ CanvasNext /\ OneElement
  /\ Keep({"clock", "tabs"}, clockVars) /\ Keep({"countdown", "rally", "countdown estimates", "rally estimates"}, playerVars)
  /\ Keep({"probes"}, negotiationVars) /\ Keep({"line"}, composerVars) /\ Keep({"march"}, marchVars)
  /\ Keep({"posts"}, translationVars) /\ Keep({"form"}, formVars) /\ Keep({"canvas"}, canvasVars)

Spec == Init /\ [][Next]_vars /\ ClockFairness /\ NegotiationFairness /\ ComposerFairness

-----------------------------------------------------------------------------
\* The browser speaks with the server's clock: its estimate is near unless it spans a
\* jump and its timers end with the session; what is spoken is what the last schedule
\* asked for, all of it, in its second, or nothing; the start leaves nineteen of twenty
\* the time to get ready; the departure that is spoken is the one that was saved, or
\* else that of this device; a message, and a post with its pictures, stays in its form
\* until it has been received, and one is waited for at a time; a translated post is in
\* the language of the page; and a stroke is drawn as the pointer went, short enough for
\* the server.
BrowserSound ==
  /\ TimersOfSession /\ ClockNear
  /\ SpokenInTime /\ NothingSkipped /\ SilentWhenHidden /\ FollowsClock
  /\ GraceCovers /\ NobodyWaitedFor
  /\ NothingVanishes /\ OneAwaited
  /\ MarchAgrees
  /\ InItsLanguage /\ DraftKept /\ StrokeKept

Open == (user /\ shownState # "synced") \/ (asked # -1 /\ grace = -1) \/ sending

\* Whoever is logged in comes to have an estimate or leaves, through failures and through
\* a logout and a login in the middle of a startup; a start is decided; a message is
\* acknowledged or given up.  And when the device clock is left alone the estimate comes
\* near and stays so, even after one that was measured across a jump.
BrowserSettles == (Open ~> ~Open) /\ ClockSettles

\* Every variable has its type.
TypeOK == ClockTypeOK /\ PlayerTypeOK /\ NegotiationTypeOK /\ ComposerTypeOK /\ MarchTypeOK /\ BoardPageTypeOK /\ CanvasTypeOK
=============================================================================
