----------------------------- MODULE BoardPage -----------------------------
(***************************************************************************)
(* The page of a board (web/src/components/Community/Board.jsx): posts     *)
(* that are translated when the reader asks, in the language of that       *)
(* moment, and the form in which a post is written while its pictures are  *)
(* uploaded.  Answers may come after the language has been switched, or    *)
(* after the form has been changed or sent once more.                      *)
(***************************************************************************)
EXTENDS Naturals, FiniteSets

CONSTANTS
  Posts, Languages, First,  \* what is on the board; languages, First among them
  Texts, NoText,            \* what a user writes; the empty form
  MaxPictures,              \* pictures of one post
  MaxPosts, MaxChanges      \* how often the user posts, and changes something

ASSUME BoardPageAssumption ==
  First \in Languages /\ NoText \notin Texts /\ {MaxPictures, MaxPosts, MaxChanges} \subseteq Nat

VARIABLES
  lang,        \* the language of the page
  translations, translating, translateFailed,
  asks,        \* translations under way: post and language
  switched,    \* the language has been switched while one was under way
  \* the form
  content, imageUrls, uploadingImg, posting,
  attempts,    \* presses of the button or Ctrl+Enter: number, text, pictures, stage
  written,     \* what the user wrote last
  chosen,      \* pictures that were uploaded and not removed
  overtaken,   \* the form has been changed while a post was under way
  changes

translationVars == <<lang, translations, translating, translateFailed, asks, switched>>
formVars == <<content, imageUrls, uploadingImg, posting, attempts, written, chosen, overtaken, changes>>

NoLanguage == "none"

BoardPageInit ==
  /\ lang = First /\ asks = {} /\ switched = FALSE
  /\ translations = [p \in Posts |-> NoLanguage]
  /\ translating = [p \in Posts |-> FALSE] /\ translateFailed = [p \in Posts |-> FALSE]
  /\ content = NoText /\ imageUrls = {} /\ uploadingImg = FALSE /\ posting = FALSE
  /\ attempts = {} /\ written = NoText /\ chosen = {} /\ overtaken = FALSE /\ changes = 0

-----------------------------------------------------------------------------
\* MUTANT of Reset: the texts stay.
ResetFailures == translateFailed' = [p \in Posts |-> FALSE] /\ UNCHANGED translations

\* What was translated is forgotten with its language.
Reset == translations' = [p \in Posts |-> NoLanguage] /\ translateFailed' = [p \in Posts |-> FALSE]

SwitchesLanguage ==
  /\ \E l \in Languages \ {lang} : lang' = l
  /\ Reset /\ switched' = (switched \/ asks # {})
  /\ UNCHANGED <<translating, asks>>

\* MUTANT of MayAsk: what is under way is asked once more.
MayAskAgain(p) == translations[p] = NoLanguage

\* There is no text yet and none under way.
MayAsk(p) == translations[p] = NoLanguage /\ ~translating[p]

\* handleTranslate.
AsksTranslation(p) ==
  /\ MayAsk(p) /\ asks' = asks \cup {[post |-> p, lang |-> lang]}
  /\ translating' = [translating EXCEPT ![p] = TRUE]
  /\ translateFailed' = [translateFailed EXCEPT ![p] = FALSE]
  /\ UNCHANGED <<lang, translations, switched>>

\* The text, or no text, whatever has happened to the page since.
TranslationArrives(a, text) ==
  /\ asks' = asks \ {a} /\ translating' = [translating EXCEPT ![a.post] = FALSE]
  /\ translations' = IF text THEN [translations EXCEPT ![a.post] = a.lang] ELSE translations
  /\ translateFailed' = IF text THEN translateFailed ELSE [translateFailed EXCEPT ![a.post] = TRUE]
  /\ UNCHANGED <<lang, switched>>

TranslationNext ==
  \/ SwitchesLanguage \/ \E p \in Posts : AsksTranslation(p)
  \/ \E a \in asks : \E text \in BOOLEAN : TranslationArrives(a, text)

-----------------------------------------------------------------------------
UnderWay == \E k \in attempts : k.stage \in {"sent", "accepted"}
Changed == changes < MaxChanges /\ changes' = changes + 1 /\ overtaken' = (overtaken \/ UnderWay)

Writes(t) ==
  /\ Changed /\ content' = t /\ written' = t
  /\ UNCHANGED <<imageUrls, uploadingImg, posting, attempts, chosen>>

\* MUTANT of MayChoose: without the limit.
MayChooseMore == ~uploadingImg

\* One file at a time, and no more than a post may have.
MayChoose == ~uploadingImg /\ Cardinality(imageUrls) < MaxPictures

\* handleImageSelect.
Chooses ==
  /\ MayChoose /\ uploadingImg' = TRUE
  /\ UNCHANGED <<content, imageUrls, posting, attempts, written, chosen, overtaken, changes>>

\* MUTANT of Uploaded: the form of the moment when the file was chosen is written back.
UploadedAlone(i) == {i}

\* The picture is added to those of this moment.
Uploaded(i) == imageUrls \cup {i}

\* The upload ends; a picture is known by the number of the change that ended it.
UploadEnds(stored) ==
  /\ uploadingImg /\ Changed /\ uploadingImg' = FALSE
  /\ imageUrls' = IF stored THEN Uploaded(changes') ELSE imageUrls
  /\ chosen' = IF stored THEN chosen \cup {changes'} ELSE chosen
  /\ UNCHANGED <<content, posting, attempts, written>>

RemovesImage(i) ==
  /\ i \in imageUrls /\ Changed /\ imageUrls' = imageUrls \ {i} /\ chosen' = chosen \ {i}
  /\ UNCHANGED <<content, uploadingImg, posting, attempts, written>>

\* handlePost: by the button unless a post is under way, or by Ctrl+Enter at any time.
Publishes(byKey) ==
  /\ content # NoText /\ (byKey \/ ~posting) /\ Cardinality(attempts) < MaxPosts
  /\ posting' = TRUE
  /\ attempts' = attempts \cup
       {[n |-> Cardinality(attempts), text |-> content, pictures |-> imageUrls, stage |-> "sent"]}
  /\ UNCHANGED <<content, imageUrls, uploadingImg, written, chosen, overtaken, changes>>

Moved(k, stage) == attempts' = (attempts \ {k}) \cup {[k EXCEPT !.stage = stage]}

Accepts(k) ==
  /\ k.stage = "sent" /\ Moved(k, "accepted")
  /\ UNCHANGED <<content, imageUrls, uploadingImg, posting, written, chosen, overtaken, changes>>

\* The form is emptied, whatever stands in it by then.
PostEnds(k) ==
  /\ k.stage = "accepted" /\ Moved(k, "done")
  /\ content' = NoText /\ imageUrls' = {} /\ posting' = FALSE
  /\ UNCHANGED <<uploadingImg, written, chosen, overtaken, changes>>

\* MUTANT of Remains: the form is emptied in any case.
RemainsEmpty == content' = NoText /\ imageUrls' = {}

Remains == UNCHANGED <<content, imageUrls>>

\* It is refused, or the answer is lost after it has been accepted.
PostFails(k) ==
  /\ k.stage \in {"sent", "accepted"} /\ Moved(k, IF k.stage = "sent" THEN "refused" ELSE "lost")
  /\ Remains /\ posting' = FALSE
  /\ UNCHANGED <<uploadingImg, written, chosen, overtaken, changes>>

FormNext ==
  \/ Chooses \/ \E t \in Texts \cup {NoText} : Writes(t)
  \/ \E stored \in BOOLEAN : UploadEnds(stored)
  \/ \E i \in imageUrls : RemovesImage(i)
  \/ \E byKey \in BOOLEAN : Publishes(byKey)
  \/ \E k \in attempts : Accepts(k) \/ PostEnds(k) \/ PostFails(k)

-----------------------------------------------------------------------------
BoardPageTypeOK ==
  /\ lang \in Languages /\ translations \in [Posts -> Languages \cup {NoLanguage}]
  /\ translating \in [Posts -> BOOLEAN] /\ translateFailed \in [Posts -> BOOLEAN]
  /\ {content, written} \subseteq Texts \cup {NoText}
  /\ imageUrls \cup chosen \subseteq 1..changes /\ changes \in 0..MaxChanges

\* A text on the page is in the language of the page, unless that was switched while the
\* translation was under way; it is asked for once at a time, and what has come did not fail.
InItsLanguage ==
  \A p \in Posts :
    /\ switched \/ translations[p] \in {NoLanguage, lang}
    /\ Cardinality({a \in asks : a.post = p}) = IF translating[p] THEN 1 ELSE 0
    /\ translateFailed[p] => translations[p] = NoLanguage

\* What a user has written, and the pictures that were uploaded for it, stand in the form
\* until a post with them has been accepted, unless the form was changed in the meantime;
\* and a post never has more pictures than it may.
DraftKept ==
  LET stored == {k \in attempts : k.stage \in {"accepted", "lost", "done"}}
      emptied == {k \in attempts : k.stage = "done"}
  IN /\ overtaken \/ content = written \/ (content = NoText /\ \E k \in emptied : k.text = written)
     /\ overtaken \/ chosen \subseteq imageUrls \cup UNION {k.pictures : k \in stored}
     /\ \A k \in attempts : Cardinality(k.pictures) <= MaxPictures
=============================================================================
