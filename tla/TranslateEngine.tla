-------------------------- MODULE TranslateEngine --------------------------
(***************************************************************************)
(* One request to the translation engine                                   *)
(* (server/src/translate/translate-engine.service.ts): a text into several *)
(* languages ("multi") or several texts into one ("batch").  Its parts,    *)
(* the languages or the texts, are cut into calls whose answers fit the    *)
(* output of the model; an answer that was cut off or is not JSON makes    *)
(* calls of fewer parts.  A size is the estimate of a part's tokens.       *)
(***************************************************************************)
EXTENDS Lists, SequencesExt

CONSTANTS
  PartCount, \* the parts are numbered in the order of the request
  Sizes,     \* what estimateTokens may give
  Budget     \* MAX_OUTPUT_TOKENS_CAP - OUTPUT_TOKENS_OVERHEAD

ASSUME EngineAssumption ==
  PartCount \in Nat \ {0} /\ Sizes \subseteq Nat \ {0} /\ Budget \in Nat \ {0}

Parts == 1..PartCount

VARIABLES
  kind,     \* "multi" or "batch"
  size,     \* per part
  todo,     \* calls still to be made, in order: [parts, retry]
  given,    \* parts with a text
  tried,    \* parts the model was asked for
  calls,    \* how many have been made
  engineAt  \* "asked", "calling", "done" or "thrown"

engineVars == <<kind, size, todo, given, tried, calls, engineAt>>

SizeOf(parts) == Total(size, parts)

-----------------------------------------------------------------------------
(* Cutting the request into calls.                                         *)

\* translateMulti: every language takes what the text takes.
PerCall == LET fit == Budget \div size[1] IN IF fit < 1 THEN 1 ELSE fit
LanguageChunks ==
  [i \in 1..((PartCount + PerCall - 1) \div PerCall) |->
     SubSeq([p \in Parts |-> p], (i - 1) * PerCall + 1, IF i * PerCall < PartCount THEN i * PerCall ELSE PartCount)]

\* MUTANT of Taken: the text that no longer fits is still taken along.
TakenLate(chunks, p) ==
  IF chunks = <<>> \/ SizeOf(Last(chunks)) > Budget
  THEN Append(chunks, <<p>>)
  ELSE Append(Front(chunks), Append(Last(chunks), p))

\* translateBatch: a text goes into the chunk before it while that fits.
Taken(chunks, p) ==
  IF chunks = <<>> \/ SizeOf(Last(chunks)) + size[p] > Budget
  THEN Append(chunks, <<p>>)
  ELSE Append(Front(chunks), Append(Last(chunks), p))

TextChunks ==
  LET upTo[p \in 0..PartCount] == IF p = 0 THEN <<>> ELSE Taken(upTo[p - 1], p)
  IN  upTo[PartCount]

EngineInit ==
  /\ kind \in {"multi", "batch"}
  /\ size \in [Parts -> Sizes] /\ (kind = "multi" => Cardinality(Range(size)) <= 1)
  /\ todo = <<>> /\ given = {} /\ tried = {} /\ calls = 0 /\ engineAt = "asked"

Chunked ==
  /\ engineAt = "asked"
  /\ LET chunks == IF kind = "multi" THEN LanguageChunks ELSE TextChunks
     IN  todo' = [i \in DOMAIN chunks |-> [parts |-> chunks[i], retry |-> TRUE]]
  /\ engineAt' = "calling"
  /\ UNCHANGED <<kind, size, given, tried, calls>>

-----------------------------------------------------------------------------
(* What an answer makes of the first call.                                 *)

OneCall(parts, retry) == [parts |-> parts, retry |-> retry]

\* Two halves for languages, the larger one first.
Halves(parts) ==
  LET mid == (Len(parts) + 1) \div 2
  IN  <<OneCall(SubSeq(parts, 1, mid), TRUE), OneCall(SubSeq(parts, mid + 1, Len(parts)), TRUE)>>

\* MUTANT of PerItem: a text that is alone may be tried for ever.
PerItemAgain(parts) == [i \in DOMAIN parts |-> OneCall(<<parts[i]>>, TRUE)]

\* splitPerItem: one call for each text, which is not tried again.
PerItem(parts) == [i \in DOMAIN parts |-> OneCall(<<parts[i]>>, FALSE)]

Follows(next, parts) ==
  /\ todo' = next \o Tail(todo) /\ given' = given \cup parts
  /\ tried' = tried \cup Range(Head(todo).parts) /\ calls' = calls + 1
  /\ UNCHANGED <<kind, size, engineAt>>

\* The schema asks for every part; what is missing or empty is not given.
Answers ==
  \E parts \in SUBSET Range(Head(todo).parts) : Follows(<<>>, parts)

\* isIncomplete: it was cut off at max_output_tokens.  A part that was alone is given up.
CutShort ==
  LET parts == Head(todo).parts
  IN  Follows(IF Len(parts) = 1 THEN <<>>
              ELSE IF kind = "multi" THEN Halves(parts) ELSE PerItem(parts), {})

\* The engine throws: whatever was given goes with it.
Throws ==
  /\ todo' = <<>> /\ given' = {} /\ tried' = tried \cup Range(Head(todo).parts) /\ calls' = calls + 1 /\ engineAt' = "thrown"
  /\ UNCHANGED <<kind, size>>

\* An answer that is not JSON: texts are tried once more, one by one.
NotJson ==
  IF kind = "multi" THEN Throws
  ELSE Follows(IF Head(todo).retry THEN PerItem(Head(todo).parts) ELSE <<>>, {})

\* An error of the provider, a 429 or a timeout is thrown as well.
CallEnds ==
  /\ engineAt = "calling" /\ todo # <<>>
  /\ Answers \/ CutShort \/ NotJson \/ Throws

Returns ==
  /\ engineAt = "calling" /\ todo = <<>>
  /\ engineAt' = "done"
  /\ UNCHANGED <<kind, size, todo, given, tried, calls>>

EngineNext == Chunked \/ CallEnds \/ Returns

\* The provider has thirty seconds for each call.
EngineFairness == WF_engineVars(CallEnds \/ Returns)

-----------------------------------------------------------------------------
(* Properties.                                                             *)

ToCome == UNION {Range(todo[i].parts) : i \in DOMAIN todo}

\* Every variable of the engine has its type.
EngineTypeOK ==
  /\ size \in [Parts -> Sizes] /\ given \subseteq tried /\ tried \subseteq Parts
  /\ \A i \in DOMAIN todo : Range(todo[i].parts) \subseteq Parts /\ todo[i].parts # <<>>
  /\ engineAt \in {"asked", "calling", "done", "thrown"}

\* No part is asked for in two of the calls to come, or again once it is given, and
\* none is passed over: what the caller counts as failed was asked for.
EachOnce ==
  /\ \A i, j \in DOMAIN todo : i # j => Range(todo[i].parts) \cap Range(todo[j].parts) = {}
  /\ ToCome \cap given = {}
  /\ engineAt = "calling" => tried \cup ToCome = Parts
  /\ engineAt = "done" => tried = Parts

\* A call of several parts never asks for more than the model may put out.
CallsFit == \A i \in DOMAIN todo : Len(todo[i].parts) > 1 => SizeOf(todo[i].parts) <= Budget

\* However often answers are cut off or broken, two calls per part are enough.
CallsBounded == calls <= 2 * PartCount

\* The engine asks for every part and never twice for one it has, within its means.
EngineSound == EachOnce /\ CallsFit /\ CallsBounded

EngineBusy == engineAt = "calling"
=============================================================================
