-------------------------- MODULE PostTranslation --------------------------
(***************************************************************************)
(* The translation of a single post or notice, POST /translate             *)
(* (server/src/translate/translate.controller.ts, translate.service.ts,    *)
(* translation-cache.service.ts, translations/translations.service.ts): a  *)
(* memory of recent translations, a table behind it, and one call to the   *)
(* engine for everybody who asks for the same text at the same time.       *)
(***************************************************************************)
EXTENDS Lists, SequencesExt

CONSTANTS
  Asks,      \* requests, each made once
  Texts,     \* a text with the language it is wanted in: the key of the caches
  MemoryMax, \* TRANSLATION_MEMORY_CACHE_MAX
  NoAsk      \* no request: a text that has no entry in pending

ASSUME PostAssumption == IsFiniteSet(Texts) /\ MemoryMax \in 1..Cardinality(Texts) /\ NoAsk \notin Asks

VARIABLES
  ask,     \* per request: [stage, text, on], on the request whose call it waits for
  memory,  \* the keys of the Map, in the order of their last use
  expired, \* those of them whose time is over
  table,   \* the rows of translations
  pending, \* per text: the request that owns the call under way
  since    \* per text: those that were used since it was, or all

postVars == <<ask, memory, expired, table, pending, since>>

NotAsked == [stage |-> "idle", text |-> CHOOSE t \in Texts : TRUE, on |-> NoAsk]

PostInit ==
  /\ ask = [a \in Asks |-> NotAsked]
  /\ memory = <<>> /\ expired = {} /\ table = {}
  /\ pending = [t \in Texts |-> NoAsk] /\ since = [t \in Texts |-> Texts]

At(a, stage) == ask[a].stage = stage
Goes(a, stage) == ask' = [ask EXCEPT ![a].stage = stage]

-----------------------------------------------------------------------------
(* The memory of TranslationCacheService.                                  *)

MemoryWithout(t) == Those(memory, Texts \ {t})

\* MUTANT of Remembered: the latest is dropped, not the oldest.
RememberedFirst(t) ==
  LET all == Append(MemoryWithout(t), t)
  IN  IF Len(all) > MemoryMax THEN Front(all) ELSE all

\* writeMemory: the oldest goes when it is full.
Remembered(t) ==
  LET all == Append(MemoryWithout(t), t)
  IN  IF Len(all) > MemoryMax THEN Tail(all) ELSE all

Used(t) == since' = [k \in Texts |-> IF k = t THEN {} ELSE since[k] \cup {t}]
Write(t) ==
  /\ memory' = Remembered(t) /\ expired' = (expired \ {t}) \cap Range(Remembered(t))
  /\ Used(t)

-----------------------------------------------------------------------------
(* The request.                                                            *)

\* A hit moves the text to the end; one whose time is over is forgotten.
AskFor(a, t) ==
  /\ At(a, "idle")
  /\ \/ /\ t \in Range(memory) \ expired
        /\ memory' = Append(MemoryWithout(t), t)
        /\ ask' = [ask EXCEPT ![a] = [stage |-> "answered", text |-> t, on |-> NoAsk]]
        /\ Used(t) /\ UNCHANGED expired
     \/ /\ t \notin Range(memory) \ expired
        /\ memory' = MemoryWithout(t) /\ expired' = expired \ {t}
        /\ since' = IF t \in expired THEN [since EXCEPT ![t] = Texts] ELSE since
        /\ ask' = [ask EXCEPT ![a] = [stage |-> "looking", text |-> t, on |-> NoAsk]]
  /\ UNCHANGED <<table, pending>>

\* consumeRequest says no.
Limited(a) == At(a, "idle") /\ Goes(a, "refused") /\ UNCHANGED <<memory, expired, table, pending, since>>

\* The row is read, or the query fails.
Looks(a) ==
  /\ At(a, "looking")
  /\ Goes(a, IF ask[a].text \in table THEN "found" ELSE "missing") \/ Goes(a, "refused")
  /\ UNCHANGED <<memory, expired, table, pending, since>>

FoundIt(a) ==
  /\ At(a, "found")
  /\ Write(ask[a].text) /\ Goes(a, "answered")
  /\ UNCHANGED <<table, pending>>

\* Somebody's call for the same text is under way.
Joins(a) ==
  /\ At(a, "missing") /\ pending[ask[a].text] # NoAsk
  /\ ask' = [ask EXCEPT ![a].stage = "waiting", ![a].on = pending[ask[a].text]]
  /\ UNCHANGED <<memory, expired, table, pending, since>>

\* It is the first: the provider is called, unless consumeProviderMiss says no.
Misses(a) ==
  /\ At(a, "missing") /\ pending[ask[a].text] = NoAsk
  /\ \/ /\ ask' = [ask EXCEPT ![a].stage = "calling", ![a].on = a]
        /\ pending' = [pending EXCEPT ![ask[a].text] = a]
     \/ Goes(a, "refused") /\ UNCHANGED pending
  /\ UNCHANGED <<memory, expired, table, since>>

\* The memory has the text before the table is written.
EngineAnswers(a) ==
  /\ At(a, "calling")
  /\ Write(ask[a].text) /\ Goes(a, "storing")
  /\ UNCHANGED <<table, pending>>

\* MUTANT of CallOver: a call that failed keeps its entry in pending.
CallOverOnSuccess(a, stage) ==
  /\ ask' = [b \in Asks |-> IF ask[b].on = a THEN [ask[b] EXCEPT !.stage = stage, !.on = NoAsk] ELSE ask[b]]
  /\ pending' = IF stage = "answered" THEN [pending EXCEPT ![ask[a].text] = NoAsk] ELSE pending

\* The finally of the call, and the answer of all who waited for it.
CallOver(a, stage) ==
  /\ ask' = [b \in Asks |-> IF ask[b].on = a THEN [ask[b] EXCEPT !.stage = stage, !.on = NoAsk] ELSE ask[b]]
  /\ pending' = [pending EXCEPT ![ask[a].text] = NoAsk]

EngineFails(a) ==
  /\ At(a, "calling") /\ CallOver(a, "refused")
  /\ UNCHANGED <<memory, expired, table, since>>

\* A row that cannot be written costs nobody the answer.
Stored(a) ==
  /\ At(a, "storing") /\ CallOver(a, "answered")
  /\ table' \in {table, table \cup {ask[a].text}}
  /\ UNCHANGED <<memory, expired, since>>

Expires(t) ==
  /\ t \in Range(memory) \ expired
  /\ expired' = expired \cup {t}
  /\ UNCHANGED <<ask, memory, table, pending, since>>

PostSteps(a) ==
  Looks(a) \/ FoundIt(a) \/ Joins(a) \/ Misses(a) \/ EngineAnswers(a) \/ EngineFails(a) \/ Stored(a)

PostNext ==
  \/ \E a \in Asks : Limited(a) \/ PostSteps(a) \/ \E t \in Texts : AskFor(a, t)
  \/ \E t \in Texts : Expires(t)

\* Queries and the engine answer.
PostFairness == WF_postVars(\E a \in Asks : PostSteps(a))

-----------------------------------------------------------------------------
(* Properties.                                                             *)

\* Every variable of the posts has its type.
PostTypeOK ==
  /\ ask \in [Asks -> [stage : {"idle", "looking", "found", "missing", "waiting", "calling",
                                "storing", "answered", "refused"}, text : Texts, on : Asks \cup {NoAsk}]]
  /\ IsInjective(memory) /\ Range(memory) \subseteq Texts /\ Len(memory) <= MemoryMax
  /\ expired \subseteq Range(memory) /\ table \subseteq Texts
  /\ pending \in [Texts -> Asks \cup {NoAsk}]

UnderWay(t) == {a \in Asks : ask[a].text = t /\ ask[a].stage \in {"calling", "storing"}}

\* One call at a time for a text, known to pending as long as it is under way and no
\* longer, and whoever waits, waits for that call.
OneCallPerText ==
  /\ \A t \in Texts : UnderWay(t) = {pending[t]} \ {NoAsk}
  /\ \A a \in Asks : At(a, "waiting") => ask[a].on \in UnderWay(ask[a].text)

\* What was used lately is there: a text stays in the memory until its time is over or
\* as many others as it holds have been used since.
LatelyUsedKept ==
  \A t \in Texts : Cardinality(since[t]) < MemoryMax => t \in Range(memory)

\* Somebody waits for an answer.
PostsOpen == \E a \in Asks : ask[a].stage \notin {"idle", "answered", "refused"}
=============================================================================
