--------------------------- MODULE TranslationSync ---------------------------
(***************************************************************************)
(* How the viewer's browser keeps its messages translated                  *)
(* (web/src/chat/translationSync.js), with the part of the store it works  *)
(* on (web/src/store/index.js) and the events and settings that reach it   *)
(* (web/src/hooks/useSocket.js, components/Chat/useOlderTranslations.js).  *)
(* b is the browser; the operators on it are the functions of the source,  *)
(* and those that may start a request at once or later return a set.       *)
(***************************************************************************)
EXTENDS ChatServer, Lists, SequencesExt

CONSTANTS
  ScanItems,  \* HISTORY_FIRST_BATCH_COUNT
  BatchItems, \* BATCH_MAX_ITEMS
  Retries,    \* the length of RETRY_DELAYS_MS
  MaxChanges, \* bound on the changes of a setting
  MaxDrops    \* bound on the times the connection breaks

ASSUME SyncAssumption ==
  {ScanItems, BatchItems} \subseteq Nat \ {0} /\ Retries \in Nat /\ MaxChanges \in Nat /\ MaxDrops \in Nat

VARIABLES
  b,       \* the browser
  setting, \* the language and the switch of the user interface
  answer,  \* of POST /translate/batch for the batch in flight: [translated, failed], or Unset
  changes, drops

syncVars == <<b, setting, answer, changes, drops>>

NewBrowser ==
  [my |-> Unset, auto |-> FALSE, connected |-> FALSE,
   wait |-> {}, retry |-> {}, tries |-> [m \in Messages |-> 0], cand |-> <<>>, timer |-> FALSE, flight |-> <<>>, told |-> {},
   shown |-> {}, tr |-> [m \in Messages |-> {}], pending |-> {}, failed |-> {}]

SyncInit ==
  /\ b = NewBrowser
  /\ setting \in [lang : Langs, on : BOOLEAN]
  /\ answer = Unset /\ changes = 0 /\ drops = 0

Reported(lang, on) == IF on THEN lang ELSE Off

-----------------------------------------------------------------------------
(* The functions of createTranslationSync.                                 *)

HasMine(s, m) == s.my \in s.tr[m]
Eligible(s, m) == m \in s.shown /\ s.my \notin ViewerSkips[m] /\ ~HasMine(s, m)
Active(s) == s.auto /\ s.my # Unset
InOrder(ids) == Those([m \in Messages |-> m], ids)

\* takeBatch: the candidates that go out, with those that lost their right dropped
\* on the way.
Wanted(s) == Those(s.cand, {m \in Messages : Eligible(s, m)})
Batch(s) == LET all == Wanted(s) IN SubSeq(all, 1, IF Len(all) < BatchItems THEN Len(all) ELSE BatchItems)
Kept(s) ==
  LET all == Wanted(s)
      next == CHOOSE i \in 1..Len(s.cand) : s.cand[i] = all[BatchItems + 1]
  IN  IF Len(all) <= BatchItems THEN <<>> ELSE SubSeq(s.cand, next, Len(s.cand))

RunBatch(s) ==
  IF ~Active(s) \/ s.flight # <<>> THEN s
  ELSE LET kept == Kept(s)
       IN  [s EXCEPT !.cand = kept, !.flight = Batch(s),
                     !.pending = @ \ {m \in Range(s.cand) \ Range(kept) : ~Eligible(s, m)}]

\* MUTANT of ScheduleBatch: a timer is only set by the first candidate.
ScheduleOnce(s, delay) ==
  IF s.flight # <<>> \/ Len(s.cand) # 1 THEN {s}
  ELSE {[s EXCEPT !.timer = TRUE]} \cup (IF delay THEN {} ELSE {RunBatch([s EXCEPT !.timer = FALSE])})

\* The batch goes out at once or when the timer ends: without a delay, and a second
\* after the last one, it is time.
ScheduleBatch(s, delay) ==
  IF s.flight # <<>> \/ s.cand = <<>> THEN {s}
  ELSE {[s EXCEPT !.timer = TRUE]} \cup (IF delay THEN {} ELSE {RunBatch([s EXCEPT !.timer = FALSE])})

Enqueue(s, ids, delay) ==
  LET fresh == {m \in ids : m \notin Range(s.cand) \cup Range(s.flight) /\ Eligible(s, m)}
  IN  IF ~Active(s) \/ fresh = {} THEN {s}
      ELSE ScheduleBatch([s EXCEPT !.wait = @ \ fresh, !.cand = @ \o InOrder(fresh), !.pending = @ \cup fresh], delay)

\* MUTANT of Newest: the others are taken.
Oldest(ids) == {m \in ids : Cardinality({n \in ids : n < m}) < ScanItems}

Newest(ids) == {m \in ids : Cardinality({n \in ids : n > m}) < ScanItems}

\* The rest is left to the scrolling.
ScanStore(s) == Enqueue(s, Newest({m \in s.shown : Eligible(s, m)}), TRUE)

ResetWork(s) ==
  [s EXCEPT !.wait = {}, !.retry = {}, !.tries = [m \in Messages |-> 0], !.cand = <<>>, !.timer = FALSE,
            !.flight = <<>>, !.told = {}]

\* MUTANT of ScheduleRetries: what has failed for good is not told to the store.
RetriesOnly(s, ids) ==
  [s EXCEPT !.tries = [m \in Messages |-> IF m \in ids /\ @[m] < Retries THEN @[m] + 1 ELSE @[m]],
            !.retry = @ \cup {m \in ids : s.tries[m] < Retries}]

\* One more try later, or the mark that asks the user.
ScheduleRetries(s, ids) ==
  LET final == {m \in ids : s.tries[m] >= Retries}
  IN  [s EXCEPT !.tries = [m \in Messages |-> IF m \in final THEN 0 ELSE IF m \in ids THEN @[m] + 1 ELSE @[m]],
                !.retry = @ \cup (ids \ final),
                !.failed = @ \cup final, !.pending = @ \ final]

-----------------------------------------------------------------------------
(* The store: setChatHistory and appendChatMessage.                        *)

\* mergeChatMessages and pruneTranslationState: what no message is shown for goes.
Merged(s, ms, has) ==
  LET shown == s.shown \cup ms
  IN  [s EXCEPT !.shown = shown,
                !.tr = [m \in Messages |-> IF m \in shown THEN @[m] \cup {l \in Langs : <<m, l>> \in has} ELSE {}],
                !.pending = @ \cap shown, !.failed = @ \cap shown]

-----------------------------------------------------------------------------
(* Its public functions, called by useSocket.                              *)

\* The socket is connected: the server looks the account up while the browser reports
\* its language and scans what it shows.
Connect ==
  /\ link.stage = "off"
  /\ link' = [NoLink EXCEPT !.stage = "lookup"]
  /\ reports' = Append(reports, Reported(setting.lang, setting.on))
  /\ b' \in ScanStore([ResetWork(b) EXCEPT !.my = setting.lang, !.auto = setting.on, !.connected = TRUE, !.pending = {}])
  /\ answer' = Unset
  /\ UNCHANGED <<row, stored, job, elsewhere, entry, early, inbox, setting, changes, drops>>

\* Events and reports that are on their way are lost; the browser is not told.
Drop ==
  /\ link.stage # "off" /\ drops < MaxDrops
  /\ link' = NoLink /\ entry' = Unset /\ early' = Unset /\ reports' = <<>> /\ inbox' = <<>>
  /\ drops' = drops + 1
  /\ UNCHANGED <<row, stored, job, elsewhere, b, setting, answer, changes>>

\* MUTANT of OnHistory: it does not look for what is missing.
OnHistoryOnly(event) ==
  LET s    == Merged(b, event.read, event.has)
      here == {m \in s.wait : HasMine(s, m)}
  IN  {[s EXCEPT !.wait = @ \ here, !.pending = @ \ here]}

OnHistory(event) ==
  LET s    == Merged(b, event.read, event.has)
      here == {m \in s.wait : HasMine(s, m)}
  IN  ScanStore([s EXCEPT !.wait = @ \ here, !.pending = @ \ here])

\* A live message waits for the server's translation.
OnMessage(event) ==
  LET s == Merged(b, {event.m}, {})
  IN  {IF Active(s) /\ Eligible(s, event.m)
       THEN [s EXCEPT !.wait = @ \cup {event.m}, !.pending = @ \cup {event.m}] ELSE s}

\* MUTANT of OnPushed: a failed translation ends the wait, and nothing follows.
OnPushedOnly(event) ==
  LET m == event.m
      s == [b EXCEPT !.tr[m] = @ \cup event.has]
  IN  {IF s.my = Unset THEN s
       ELSE IF s.my \in event.has \/ event.has \cup event.failed = {}
            THEN [s EXCEPT !.wait = @ \ {m}, !.retry = @ \ {m}, !.pending = @ \ {m}, !.told = @ \cup {m}]
            ELSE [s EXCEPT !.wait = @ \ {m}]}

\* The server's translation: mine, mine failed, or none for anybody.
OnPushed(event) ==
  LET m == event.m
      s == [b EXCEPT !.tr[m] = @ \cup event.has]
  IN  {IF s.my = Unset THEN s
       ELSE IF s.my \in event.has
            THEN [s EXCEPT !.wait = @ \ {m}, !.retry = @ \ {m}, !.tries[m] = 0, !.pending = @ \ {m},
                           !.cand = Those(@, Messages \ {m})]
       ELSE IF s.my \in event.failed
            THEN [s EXCEPT !.wait = @ \ {m}, !.retry = IF s.auto THEN @ \cup {m} ELSE @]
       ELSE IF event.has = {} /\ event.failed = {}
            THEN [s EXCEPT !.wait = @ \ {m}, !.pending = @ \ {m}, !.told = @ \cup {m}]
       ELSE s}

Receive ==
  /\ inbox # <<>>
  /\ inbox' = Tail(inbox)
  /\ LET e == Head(inbox)
     IN  \/ e.event = "chat:message" /\ b' \in OnMessage(e)
         \/ e.event = "chat:translation" /\ b' \in OnPushed(e)
         \/ e.event = "chat:history" /\ b' \in OnHistory(e)
         \/ e.event = "chat:system" /\ UNCHANGED b
  /\ UNCHANGED <<row, stored, job, elsewhere, connectionVars, setting, answer, changes, drops>>

\* MUTANT of Follow: the work for the setting before goes on.
FollowOn(lang, on) ==
  ScanStore([b EXCEPT !.my = lang, !.auto = on, !.pending = {}, !.failed = {}])

\* onLanguageChange and onAutoTranslateChange: everything starts over.
Follow(lang, on) ==
  ScanStore([ResetWork(b) EXCEPT !.my = lang, !.auto = on, !.pending = {}, !.failed = {}])

Change ==
  /\ changes < MaxChanges
  /\ setting' \in [lang : Langs, on : BOOLEAN] \ {setting}
  /\ setting'.lang = setting.lang \/ setting'.on = setting.on
  /\ IF setting'.lang # setting.lang THEN b' \in Follow(setting'.lang, b.auto) ELSE b' \in Follow(b.my, setting'.on)
  /\ reports' = IF b.connected THEN Append(reports, Reported(b'.my, b'.auto)) ELSE reports
  /\ answer' = Unset /\ changes' = changes + 1
  /\ UNCHANGED <<row, stored, job, elsewhere, link, entry, early, inbox, drops>>

\* onScrolledToOlder: useOlderTranslations found them on the screen.
Scrolled ==
  /\ \E seen \in SUBSET b.shown : b' \in Enqueue(b, seen \ (b.wait \cup b.retry), FALSE)
  /\ UNCHANGED <<chatVars, setting, answer, changes, drops>>

\* The button of a message that has failed.
Retry(m) ==
  /\ m \in b.failed /\ b.auto /\ ~HasMine(b, m)
  /\ b' \in Enqueue([b EXCEPT !.failed = @ \ {m}, !.tries[m] = 0, !.retry = @ \ {m}], {m}, FALSE)
  /\ UNCHANGED <<chatVars, setting, answer, changes, drops>>

\* selectDisplay: what is shown of a message, the translation before the failure and
\* the failure before the spinner.
Display(m) ==
  IF ~b.auto THEN "original"
  ELSE IF HasMine(b, m) THEN "translated"
  ELSE IF m \in b.failed THEN "failed"
  ELSE IF m \in b.pending THEN "pending" ELSE "original"

-----------------------------------------------------------------------------
(* Timers.                                                                 *)

WaitEnds(m) ==
  /\ m \in b.wait
  /\ b' \in Enqueue([b EXCEPT !.wait = @ \ {m}], {m}, FALSE)
  /\ UNCHANGED <<chatVars, setting, answer, changes, drops>>

RetryEnds(m) ==
  /\ m \in b.retry
  /\ b' \in Enqueue([b EXCEPT !.retry = @ \ {m}], {m}, FALSE)
  /\ UNCHANGED <<chatVars, setting, answer, changes, drops>>

BatchTimerEnds ==
  /\ b.timer
  /\ b' = RunBatch([b EXCEPT !.timer = FALSE])
  /\ UNCHANGED <<chatVars, setting, answer, changes, drops>>

-----------------------------------------------------------------------------
(* The batch in flight: TranslateController.translateBatch and its answer. *)

\* What the server skips it says nothing more about; of the others there are the rows and
\* what the engine makes, and the rest is failed.
BatchTranslates ==
  LET asked == {m \in Range(b.flight) : b.my \notin ServerSkips[m]}
      there == {m \in asked : <<m, b.my>> \in stored}
  IN  /\ b.flight # <<>> /\ answer = Unset
      /\ \E fresh \in SUBSET (asked \ there) :
           /\ stored' \in {stored, stored \cup (fresh \X {b.my})}
           /\ answer' = [translated |-> there \cup fresh, failed |-> asked \ (there \cup fresh)]
      /\ UNCHANGED <<row, job, elsewhere, connectionVars, inbox, b, setting, changes, drops>>

\* settle: what is neither translated nor failed is done quietly.
Settle(s, translated, failed) ==
  LET done == Range(s.flight) \ failed
  IN  ScheduleRetries([s EXCEPT !.tr = [m \in Messages |-> @[m] \cup (IF m \in translated THEN {s.my} ELSE {})],
                                !.tries = [m \in Messages |-> IF m \in done THEN 0 ELSE @[m]],
                                !.pending = @ \ done, !.told = @ \cup (done \ translated)],
                      failed)

\* MUTANT of Settled: the candidates that arrived meanwhile are left to the next event.
SettledOnly == {[Settle(b, answer.translated, answer.failed) EXCEPT !.flight = <<>>]}

\* The finally lets the next batch go.
Settled == ScheduleBatch([Settle(b, answer.translated, answer.failed) EXCEPT !.flight = <<>>], FALSE)

\* fail: a 429, of the limits or of the queue, or no answer at all.
Failed == ScheduleBatch([ScheduleRetries(b, Range(b.flight)) EXCEPT !.flight = <<>>], FALSE)

Answered ==
  /\ b.flight # <<>>
  /\ \/ answer # Unset /\ b' \in Settled
     \/ b' \in Failed
  /\ answer' = Unset
  /\ UNCHANGED <<chatVars, setting, changes, drops>>

-----------------------------------------------------------------------------
WireNext ==
  \/ ServerSteps /\ UNCHANGED syncVars
  \/ \E m \in Messages : \/ Send(m) /\ UNCHANGED syncVars
                         \/ \E l \in Langs : OthersTranslate(m, l) /\ UNCHANGED syncVars
                         \/ WaitEnds(m) \/ RetryEnds(m) \/ Retry(m)
  \/ Connect \/ Drop \/ Receive \/ Change \/ Scrolled \/ BatchTimerEnds
  \/ BatchTranslates \/ Answered

\* Queries, timers, requests and events end; nobody is made to press a button.
WireFairness ==
  /\ WF_chatVars(ServerSteps)
  /\ WF_<<b, inbox>>(Receive) /\ WF_b(BatchTimerEnds)
  /\ WF_<<b, answer, stored>>(BatchTranslates \/ Answered)
  /\ \A m \in Messages : WF_b(WaitEnds(m) \/ RetryEnds(m))

-----------------------------------------------------------------------------
(* Properties.                                                             *)

Sought(m) == m \in b.wait \cup b.retry \cup Range(b.cand) \cup Range(b.flight)

\* Every variable of the chat has its type.
WireTypeOK ==
  /\ ChatTypeOK
  /\ b.wait \cup b.retry \cup b.shown \cup b.pending \cup b.failed \cup b.told \subseteq Messages
  /\ b.tries \in [Messages -> 0..Retries] /\ b.tr \in [Messages -> SUBSET Langs]
  /\ IsInjective(b.cand) /\ Range(b.cand) \cap Range(b.flight) = {}
  /\ Len(b.flight) <= BatchItems
  /\ answer # Unset => /\ b.flight # <<>> /\ answer \in [translated : SUBSET Range(b.flight), failed : SUBSET Range(b.flight)]
                       /\ answer.translated \cap answer.failed = {}

\* No spinner turns for nothing: a message that is marked as being translated waits for
\* the server, for a retry, for its batch or for the answer to it.
SpinnersBacked == \A m \in Messages : Display(m) = "pending" => Sought(m)

\* Candidates are never forgotten: there is a timer, or a batch whose end will see them.
CandidatesMove == b.cand # <<>> => b.flight # <<>> \/ b.timer

\* Those after m that a scan may have preferred to it.
Preferred(m) == {n \in b.shown : n > m /\ b.my \notin ViewerSkips[n]}

\* What the viewer would like to read and cannot has a spinner or the mark of a failure,
\* or the server has said since the last reset that there is nothing to translate, or
\* there are so many newer ones that only scrolling there asks for it.
MissingIsSought ==
  Active(b) => \A m \in Messages :
    Eligible(b, m) => \/ Display(m) \in {"pending", "failed"} \/ m \in b.told
                      \/ Cardinality(Preferred(m)) >= ScanItems

\* Between the history and the live messages none falls through: once both have
\* arrived, the viewer shows everything that was published.
NoMessageLost ==
  link.stage = "online" /\ inbox = <<>> =>
    \A m \in Saved : job[m].stage # "saved" => m \in b.shown

\* The server translates into the language the viewer has set, even when it was
\* reported before the connection was registered.
LanguageFollows ==
  entry # Unset /\ reports = <<>> => entry = Reported(setting.lang, setting.on)

\* Whatever arrives in whatever order, the viewer sees every message, sees it translated
\* or knows that it is not, and is known by the language of the interface.
ViewerServed == SpinnersBacked /\ CandidatesMove /\ MissingIsSought /\ NoMessageLost /\ LanguageFollows
=============================================================================
