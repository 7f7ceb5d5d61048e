------------------------------- MODULE MCChat -------------------------------
(***************************************************************************)
(* A small instance of the chat and of what translates for it, and of what *)
(* else is about texts, the cutting of the migrations.  The parts          *)
(* share no state, so a behaviour runs one of them (part) while the others *)
(* stay where they began.  The chat as a viewer meets it is run with one   *)
(* difficulty at a time: the settings change, the connection breaks, more  *)
(* than one message is to be translated.                                   *)
(***************************************************************************)
EXTENDS TranslationSync, TranslationQueue, TranslateEngine, PostTranslation, Retention, Texts

VARIABLE part

-----------------------------------------------------------------------------
(* What translates on the server, and what cleans up after it: the queue   *)
(* in front of the provider, the engine, the translation of posts, the     *)
(* detection of scripts and the retention of messages.  By themselves they *)
(* take their steps in any order.                                          *)

pipelineVars == <<queueVars, engineVars, postVars, text, retentionVars>>

PipelineInit == QueueInit /\ EngineInit /\ PostInit /\ ScriptsInit /\ RetentionInit

PipelineNext ==
  /\ [QueueNext]_queueVars /\ [EngineNext]_engineVars /\ [PostNext]_postVars
  /\ [NextText]_text /\ [RetentionNext]_retentionVars

PipelineSpec == PipelineInit /\ [][PipelineNext]_pipelineVars

-----------------------------------------------------------------------------
(* The values of constants.                                                *)

\* Two messages: of digits and a multiplication sign, which is a Latin letter only for the
\* browser; and in the language of the account for both.
SkippedByServer == <<Langs, {AccountLang}>>
SkippedByViewer == <<{AccountLang}, {AccountLang}>>

Char(server, letter, web) == [server |-> server, letter |-> letter, web |-> web]

\* A letter of each script that both know; one of Thai, and a digit; the signs of
\* multiplication, of the kana dot and of the long kana; full width Latin, the sign that
\* repeats a Han character, half width hangul; the Roman eight, circled kana, and the
\* Cyrillic sign of thousands.
SomeCharacters ==
  {Char(k, TRUE, k) : k \in Scripted} \cup {Char("none", TRUE, "none"), Char("none", FALSE, "none")}
  \cup {Char("none", FALSE, "latin"), Char("none", FALSE, "kana"), Char("none", TRUE, "kana")}
  \cup {Char("latin", TRUE, "none"), Char("han", TRUE, "none"), Char("hangul", TRUE, "none")}
  \cup {Char("latin", FALSE, "none"), Char("kana", FALSE, "none"), Char("cyrillic", FALSE, "cyrillic")}

-----------------------------------------------------------------------------
(* The chat and the pipeline.                                              *)

wireVars == <<chatVars, syncVars>>
vars == <<wireVars, pipelineVars, sql, part>>

Other == CHOOSE l \in Langs : l # AccountLang

\* A viewer whose interface is in any language, to whom the second message is sent, or in
\* another than that of the account, to whom either is.
FirstMessage ==
  /\ SyncInit /\ ChatInit
  /\ part = "settings" => elsewhere = {} /\ job[1] # NoJob
  /\ part = "drops" => setting = [lang |-> Other, on |-> TRUE] /\ elsewhere = {AccountLang}
  /\ part \notin {"settings", "drops"} =>
       setting = [lang |-> AccountLang, on |-> TRUE] /\ elsewhere = {} /\ job = [m \in Messages |-> NoJob]

\* The history has the last two messages, and neither is translated.
TwoInHistory ==
  /\ row = [m \in Messages |-> IF m > LastMessage - 2 THEN "saved" ELSE "none"] /\ stored = {}
  /\ job = [m \in Messages |-> [NoJob EXCEPT !.stage = "done"]]
  /\ elsewhere = {} /\ link = [NoLink EXCEPT !.stage = "online"] /\ entry = Other /\ early = Unset
  /\ reports = <<>> /\ inbox = <<[event |-> "chat:history", read |-> Saved, has |-> {}]>>
  /\ setting = [lang |-> Other, on |-> TRUE] /\ answer = Unset /\ changes = 0 /\ drops = 0
  /\ b = [NewBrowser EXCEPT !.my = Other, !.auto = TRUE, !.connected = TRUE]

Init ==
  /\ part \in {"settings", "drops", "batches", "queue", "engine", "posts", "scripts", "retention", "sql"}
  /\ IF part = "batches" THEN TwoInHistory ELSE FirstMessage
  /\ PipelineInit /\ SqlInit
  /\ (part # "engine" => kind = "multi" /\ SizeOf(<<1>>) = Budget)

OneMessage == Cardinality({m \in Messages : row'[m] = "saved"}) <= 1

Keep(p, v) == part \notin p => UNCHANGED v

Next ==
  /\ UNCHANGED part
  /\ \/ part = "settings" /\ WireNext /\ OneMessage /\ UNCHANGED drops
     \/ part = "drops" /\ WireNext /\ OneMessage /\ UNCHANGED changes
     \/ part = "batches" /\ WireNext /\ UNCHANGED <<changes, drops>>
     \/ part = "queue" /\ QueueNext
     \/ part = "engine" /\ EngineNext
     \/ part = "posts" /\ PostNext
     \/ part = "scripts" /\ NextText /\ Cardinality(text') <= 4
     \/ part = "retention" /\ RetentionNext
     \/ part = "sql" /\ Types
  /\ Keep({"settings", "drops", "batches"}, wireVars) /\ Keep({"queue"}, queueVars) /\ Keep({"engine"}, engineVars)
  /\ Keep({"posts"}, postVars) /\ Keep({"scripts"}, text) /\ Keep({"retention"}, retentionVars) /\ Keep({"sql"}, sql)

Spec == Init /\ [][Next]_vars /\ WireFairness /\ QueueFairness /\ EngineFairness /\ PostFairness

-----------------------------------------------------------------------------
Unfinished(m) == Display(m) = "pending" \/ InLine \/ EngineBusy \/ PostsOpen

\* What is being translated comes to an end.  A spinner of a message gives way to the
\* translation or to the mark that asks the user, as the settings and the connection
\* change finitely often; who is let into the queue comes to run; a request to the
\* engine is cut into smaller calls only finitely often; who asks for a post is
\* answered or refused.
TranslationsEnd == \A m \in Messages : Unfinished(m) ~> ~Unfinished(m)

\* Every variable of the pipeline has its type.
PipelineTypeOK ==
  QueueTypeOK /\ EngineTypeOK /\ PostTypeOK /\ RetentionTypeOK /\ text \subseteq Characters

\* The calls of the engine are within the limits of the queue and of the model, made
\* once for all who ask for the same, and for the same texts wherever that is decided;
\* and what is deleted is deleted completely.
PipelineSound ==
  SlotsExact /\ WindowWithinLimit /\ EngineSound /\ OneCallPerText /\ LatelyUsedKept /\ ScriptsAgree /\ RetentionComplete

\* Every variable has its type.
TypeOK == WireTypeOK /\ PipelineTypeOK
=============================================================================
