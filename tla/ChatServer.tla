----------------------------- MODULE ChatServer -----------------------------
(***************************************************************************)
(* The chat of the server (server/src/chat/chat.gateway.ts,                *)
(* chat.service.ts) with the translation of its messages                   *)
(* (server/src/translate/chat-translation.service.ts,                      *)
(* message-translations.service.ts), as one browser, the viewer, meets it. *)
(* The other users send messages and have languages of their own.  A text  *)
(* is what matters of it: the languages that the server, and those that    *)
(* the browser, do not have it translated into, and the languages there is *)
(* a translation for.                                                      *)
(***************************************************************************)
EXTENDS Integers, FiniteSets, Sequences

CONSTANTS
  LastMessage, \* messages are numbered from 1 in the order of their time
  Langs,       \* TARGET_LANGS
  ServerSkips, \* per message: the one it is in for the server; all, if it sees no letters
  ViewerSkips, \* the same for the browser, which looks at other characters
  AccountLang, \* the language of the viewer's account
  Off,         \* automatic translation is off: null as a target language
  Unset        \* undefined

ASSUME ChatAssumption ==
  LastMessage \in Nat /\ {ServerSkips, ViewerSkips} \subseteq [1..LastMessage -> SUBSET Langs] /\ AccountLang \in Langs /\ Off \notin Langs /\ Unset \notin Langs \cup {Off}

Messages == 1..LastMessage

VARIABLES
  row,       \* messages in the database: "none" or "saved"
  stored,    \* message_translations: <<message, language>>
  job,       \* per message: how far handleMessage and translateAndPush are
  elsewhere, \* target languages of the other connected users
  link,      \* the viewer's connection: its stage, and what its history has read
  entry,     \* connectedUsers of the viewer: its target language, or Unset
  early,     \* pendingTargetLang
  reports,   \* chat:language on its way to the server
  inbox      \* events on their way to the viewer

chatVars == <<row, stored, job, elsewhere, link, entry, early, reports, inbox>>
connectionVars == <<link, entry, early, reports>>

NoJob == [stage |-> "none", targets |-> {}]
NoLink == [stage |-> "off", read |-> {}, langs |-> {}]

\* The first messages may be gone already: they are kept for some days.
ChatInit ==
  /\ row = [m \in Messages |-> "none"] /\ stored = {}
  /\ \E gone \in 0..LastMessage : job = [m \in Messages |-> [NoJob EXCEPT !.stage = IF m <= gone THEN "done" ELSE "none"]]
  /\ elsewhere \in {{}, {AccountLang}}
  /\ link = NoLink /\ entry = Unset /\ early = Unset
  /\ reports = <<>> /\ inbox = <<>>

OnlineTargetLangs == elsewhere \cup ({entry} \cap Langs)
Saved == {m \in Messages : row[m] = "saved"}
StoredFor(m) == {l \in Langs : <<m, l>> \in stored}

\* MUTANT of Emitted: only a viewer that has its history is sent anything.
EmittedToOnline(event) == IF link.stage # "online" THEN inbox ELSE Append(inbox, event)

Emitted(event) == IF link.stage = "off" THEN inbox ELSE Append(inbox, event)
Pushed(m, has, missing) ==
  Emitted([event |-> "chat:translation", m |-> m, has |-> has, failed |-> missing])

-----------------------------------------------------------------------------
(* handleMessage and translateAndPush.                                     *)

\* A message that passes the checks of handleMessage is saved.  One that is refused,
\* or whose insert fails, changes nothing.
Send(m) ==
  /\ job[m] = NoJob /\ \A n \in 1..(m - 1) : job[n] # NoJob
  /\ row' = [row EXCEPT ![m] = "saved"]
  /\ job' = [job EXCEPT ![m].stage = "saved"]
  /\ UNCHANGED <<stored, elsewhere, connectionVars, inbox>>

\* It is emitted, and translateForMessage takes the languages of this moment.  With
\* none the empty translation follows at once.
Publish(m) ==
  /\ job[m].stage = "saved"
  /\ LET targets == OnlineTargetLangs \ ServerSkips[m]
         message == Emitted([event |-> "chat:message", m |-> m])
     IN  IF targets = {}
         THEN /\ job' = [job EXCEPT ![m].stage = "done"]
              /\ inbox' = IF link.stage = "off" THEN inbox
                          ELSE Append(message, [event |-> "chat:translation", m |-> m, has |-> {}, failed |-> {}])
         ELSE /\ job' = [job EXCEPT ![m] = [stage |-> "asking", targets |-> targets]]
              /\ inbox' = message
  /\ UNCHANGED <<row, stored, elsewhere, connectionVars>>

\* What translateForMessage awaits: the rows there are, which a failing query leaves
\* empty; the queue and the engine, which give all, some or none of the others;
\* upsertMany, which swallows its failure.  Then the push says what is missing.
Translate(m) ==
  /\ job[m].stage = "asking"
  /\ \E existing \in {{}, StoredFor(m) \cap job[m].targets} :
       \E fresh \in SUBSET (job[m].targets \ existing) :
         /\ stored' \in {stored, stored \cup ({m} \X fresh)}
         /\ inbox' = Pushed(m, existing \cup fresh, (job[m].targets \ existing) \ fresh)
  /\ job' = [job EXCEPT ![m] = [stage |-> "done", targets |-> {}]]
  /\ UNCHANGED <<row, elsewhere, connectionVars>>

\* The batches of other browsers fill the table as well.
OthersTranslate(m, l) ==
  /\ row[m] = "saved" /\ l \notin ServerSkips[m]
  /\ stored' = stored \cup {<<m, l>>}
  /\ UNCHANGED <<row, job, elsewhere, connectionVars, inbox>>

-----------------------------------------------------------------------------
(* The connection of the viewer: handleConnection, chat:language.          *)

\* MUTANT of Register: the report that came before is forgotten.
RegisterByAccount ==
  /\ link.stage = "lookup"
  /\ entry' = AccountLang /\ early' = Unset
  /\ link' = [link EXCEPT !.stage = "reading", !.langs = {AccountLang}]
  /\ UNCHANGED <<row, stored, job, elsewhere, reports, inbox>>

\* The lookup of the account is over.
Register ==
  /\ link.stage = "lookup"
  /\ entry' = (IF early = Unset THEN AccountLang ELSE early) /\ early' = Unset
  /\ link' = [link EXCEPT !.stage = "reading", !.langs = {entry'} \cap Langs]
  /\ UNCHANGED <<row, stored, job, elsewhere, reports, inbox>>

\* The languages are taken between the two queries of the history: those of everybody,
\* and the one the viewer was registered with.
HistoryReads ==
  /\ link.stage = "reading"
  /\ link' = [stage |-> "attaching", read |-> Saved, langs |-> link.langs \cup OnlineTargetLangs]
  /\ UNCHANGED <<row, stored, job, elsewhere, entry, early, reports, inbox>>

\* attachHistory, which a failing query leaves empty.
HistoryAttaches ==
  /\ link.stage = "attaching"
  /\ \E known \in {{}, stored} :
       inbox' = Append(inbox, [event |-> "chat:history", read |-> link.read,
                               has |-> {t \in known : t[1] \in link.read /\ t[2] \in link.langs}])
  /\ link' = [NoLink EXCEPT !.stage = "online"]
  /\ UNCHANGED <<row, stored, job, elsewhere, entry, early, reports>>

\* The first query failed: the viewer is told, and stays connected.
HistoryFails ==
  /\ link.stage = "reading"
  /\ inbox' = Append(inbox, [event |-> "chat:system"])
  /\ link' = [NoLink EXCEPT !.stage = "bare"]
  /\ UNCHANGED <<row, stored, job, elsewhere, entry, early, reports>>

\* MUTANT of HandleLanguage: a report before the registration is dropped.
HandleLanguageLater ==
  /\ link.stage # "off" /\ reports # <<>>
  /\ entry' = IF entry = Unset THEN Unset ELSE Head(reports)
  /\ reports' = Tail(reports)
  /\ UNCHANGED <<row, stored, job, elsewhere, link, early, inbox>>

HandleLanguage ==
  /\ link.stage # "off" /\ reports # <<>>
  /\ IF entry = Unset THEN early' = Head(reports) /\ UNCHANGED entry
                      ELSE entry' = Head(reports) /\ UNCHANGED early
  /\ reports' = Tail(reports)
  /\ UNCHANGED <<row, stored, job, elsewhere, link, inbox>>

\* What the server does by itself, one message or query at a time.
ServerSteps ==
  \/ Register \/ HistoryReads \/ HistoryAttaches \/ HistoryFails \/ HandleLanguage
  \/ \E m \in Messages : Publish(m) \/ Translate(m)

-----------------------------------------------------------------------------
ChatTypeOK ==
  /\ row \in [Messages -> {"none", "saved"}] /\ stored \subseteq Messages \X Langs
  /\ job \in [Messages -> [stage : {"none", "saved", "asking", "done"}, targets : SUBSET Langs]]
  /\ elsewhere \subseteq Langs
  /\ link \in [stage : {"off", "lookup", "reading", "attaching", "online", "bare"}, read : SUBSET Messages, langs : SUBSET Langs]
  /\ entry \in Langs \cup {Off, Unset} /\ early \in Langs \cup {Off, Unset}
  /\ \A i \in 1..Len(reports) : reports[i] \in Langs \cup {Off}
  /\ entry = Unset <=> link.stage \in {"off", "lookup"}
=============================================================================
