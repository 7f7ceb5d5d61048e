-------------------------------- MODULE Texts --------------------------------
(***************************************************************************)
(* Two algorithms about texts, against what they have to agree with.       *)
(*                                                                         *)
(* Which language a text is certainly written in: the server               *)
(* (server/src/translate/script-detect.ts) and the browser                 *)
(* (web/src/chat/script.js) decide it for themselves, the one by the       *)
(* script and the letters that Unicode knows, the other by ranges of       *)
(* characters.  A character is what each of them takes it for, and a text  *)
(* is the characters that occur in it.                                     *)
(*                                                                         *)
(* How the text of a migration is cut into statements                      *)
(* (server/src/database/sql-statements.ts): two automata that go through   *)
(* the characters, against what MySQL takes for strings and comments.  A   *)
(* character is one of those that matter, "x" for a letter, "n" for blanks.*)
(***************************************************************************)
EXTENDS Integers, FiniteSets, SequencesExt

CONSTANTS
  Characters,  \* what the server and the browser take characters for
  MaxText      \* bound on the length of a text of SQL

\* The keys of RE and of SCRIPT_RANGES.
Scripted == {"hangul", "kana", "han", "cyrillic", "latin"}

ASSUME TextAssumption ==
  /\ MaxText \in Nat
  /\ Characters \subseteq [server : Scripted \cup {"none"}, letter : BOOLEAN, web : Scripted \cup {"none"}]

VARIABLES
  text,  \* the characters of a text
  sql    \* the text of a migration

-----------------------------------------------------------------------------
(* Scripts.                                                                *)

ScriptsInit == text = {}

\* A character more or less.
NextText == \E c \in Characters : text' = (text \ {c}) \cup ({c} \ text)

-----------------------------------------------------------------------------
(* The server.                                                             *)

HasLetters == \E c \in text : c.letter
Matched == {c.server : c \in text} \ {"none"}

\* Han next to kana is Japanese, and no kind of its own.
Kinds == Matched \ (IF "kana" \in Matched THEN {"han"} ELSE {})

Named(kinds) ==
  IF kinds = {"hangul"} THEN "ko" ELSE IF kinds = {"kana"} THEN "ja"
  ELSE IF kinds = {"cyrillic"} THEN "ru" ELSE IF kinds = {"han"} THEN "han" ELSE "latin"

ServerScript ==
  IF ~HasLetters THEN "none" ELSE IF Cardinality(Kinds) # 1 THEN "mixed" ELSE Named(Kinds)

-----------------------------------------------------------------------------
(* The browser.                                                            *)

Counted == {c.web : c \in text} \ {"none"}

\* MUTANT of WebScript: han has to be in the text.
WebScriptStrict ==
  IF Counted = {} THEN "none"
  ELSE IF Cardinality(Counted) = 1 /\ Counted # {"kana"} THEN Named(Counted)
  ELSE IF Counted = {"kana", "han"} THEN "ja" ELSE "mixed"

WebScript ==
  IF Counted = {} THEN "none"
  ELSE IF Cardinality(Counted) = 1 /\ Counted # {"kana"} THEN Named(Counted)
  ELSE IF Counted \subseteq {"kana", "han"} THEN "ja" ELSE "mixed"

-----------------------------------------------------------------------------
Unambiguous(script) == IF script \in {"ko", "ja", "ru"} THEN script ELSE "null"

-----------------------------------------------------------------------------
\* A character that both take for the same, and for a letter if for one of a script.
Alike(c) == c.server = c.web /\ (c.server # "none" => c.letter)
KnownToBrowser(c) == c.server \in {"none", c.web}

\* The two decide alike where their characters are alike: what the one does not
\* translate the other does not ask for, and the other way round.
AgreeOnLetters ==
  (\A c \in text : Alike(c)) =>
    /\ Unambiguous(ServerScript) = Unambiguous(WebScript)
    /\ Counted # {} => ServerScript = WebScript
    /\ WebScript # "none" => HasLetters

\* The browser counts signs for letters that the server knows for none, and so may leave
\* out a language that the server does not, or ask for one that it leaves out; but they
\* never leave out different languages, unless of letters beyond the browser's ranges.
NeverContradict ==
  (\A c \in text : KnownToBrowser(c)) =>
    "null" \in {Unambiguous(ServerScript), Unambiguous(WebScript)} \/ Unambiguous(ServerScript) = Unambiguous(WebScript)

ScriptsAgree == AgreeOnLetters /\ NeverContradict

-----------------------------------------------------------------------------
(* The text of a migration.                                                *)

Quotes == {"quote", "tick"}
Letters == Quotes \cup {"x", "n", "escape", ";", "-", "#", "/", "*", "!"}

SqlInit == sql = <<>>
Types == Len(sql) < MaxText /\ \E c \in Letters : sql' = Append(sql, c)

CharAt(s, i) == IF i \in DOMAIN s THEN s[i] ELSE "end"
Pair(s, i, a, b) == CharAt(s, i) = a /\ CharAt(s, i + 1) = b

\* isCommentDashEnd: the dashes are followed by a blank or the end.
IsCommentDashEnd(s, i) == CharAt(s, i) \in {"n", "end"}
OpensLine(s, i) == CharAt(s, i) = "#" \/ (Pair(s, i, "-", "-") /\ IsCommentDashEnd(s, i + 2))

-----------------------------------------------------------------------------
(* The automata: a mode and whether the next character was already read.   *)

Begin == [mode |-> "code", skip |-> FALSE, cuts |-> {}, kept |-> FALSE]

\* MUTANT of LeavesQuote: the backslash escapes in names, too.
LeavesQuoteEscaped(s, i, a) ==
  IF (CharAt(s, i) = "escape" /\ i < Len(s)) \/ Pair(s, i, a.mode, a.mode) THEN [a EXCEPT !.skip = TRUE]
  ELSE IF CharAt(s, i) = a.mode THEN [a EXCEPT !.mode = "code"] ELSE a

\* In a string or a name: an escape and a doubled quote are passed over.
LeavesQuote(s, i, a) ==
  IF (CharAt(s, i) = "escape" /\ a.mode # "tick" /\ i < Len(s)) \/ Pair(s, i, a.mode, a.mode) THEN [a EXCEPT !.skip = TRUE]
  ELSE IF CharAt(s, i) = a.mode THEN [a EXCEPT !.mode = "code"] ELSE a

\* What both do with character i; a cut matters to the first, what is kept to the second.
Reads(s, i, a) ==
  CASE a.skip -> [a EXCEPT !.skip = FALSE]
    [] ~a.skip /\ a.mode = "code" ->
         IF OpensLine(s, i) THEN [a EXCEPT !.mode = "line"]
         ELSE IF Pair(s, i, "/", "*") THEN [a EXCEPT !.mode = "block", !.skip = TRUE, !.kept = @ \/ CharAt(s, i + 2) = "!"]
         ELSE [a EXCEPT !.mode = IF s[i] \in Quotes THEN s[i] ELSE @, !.cuts = IF s[i] = ";" THEN @ \cup {i} ELSE @,
                        !.kept = @ \/ s[i] # "n"]
    [] ~a.skip /\ a.mode = "line" -> IF s[i] = "n" THEN [a EXCEPT !.mode = "code"] ELSE a
    [] ~a.skip /\ a.mode = "block" -> IF Pair(s, i, "*", "/") THEN [a EXCEPT !.mode = "code", !.skip = TRUE] ELSE a
    [] OTHER -> LeavesQuote(s, i, [a EXCEPT !.kept = TRUE])

Scan(s) == FoldLeft(LAMBDA a, i : Reads(s, i, a), Begin, [i \in DOMAIN s |-> i])

\* The pieces between the cuts, without the blanks around them.
SplitSqlStatements(s) == LET cuts == Scan(s).cuts \cup {0, Len(s) + 1}
                         IN  {p \in cuts \X cuts : p[1] < p[2] /\ \A c \in cuts : c <= p[1] \/ p[2] <= c}
Trimmed(s, p) == LET solid == {i \in DOMAIN s : p[1] < i /\ i < p[2] /\ s[i] # "n"}
                 IN  IF solid = {} THEN <<>>
                     ELSE SubSeq(s, CHOOSE i \in solid : \A j \in solid : i <= j, CHOOSE i \in solid : \A j \in solid : j <= i)

\* stripComments finds something in it.
PushStatement(s, p) == Scan(Trimmed(s, p)).kept

-----------------------------------------------------------------------------
(* The reference: a text is a row of tokens, each as long as its grammar says. *)

\* Where the string or name that begins at i ends.
QuoteEnd(s, i) ==
  LET close[k \in (i + 1)..(Len(s) + 2)] ==
        IF k > Len(s) THEN Len(s)
        ELSE IF s[k] = "escape" /\ s[i] # "tick" THEN close[k + 2]
        ELSE IF s[k] # s[i] THEN close[k + 1]
        ELSE IF CharAt(s, k + 1) = s[i] THEN close[k + 2] ELSE k
  IN  close[i + 1]

First(ends, s) == IF ends = {} THEN Len(s) ELSE CHOOSE k \in ends : \A j \in ends : k <= j

TokenEnd(s, i) ==
  IF s[i] \in Quotes THEN QuoteEnd(s, i)
  ELSE IF OpensLine(s, i) THEN First({k \in DOMAIN s : k > i /\ s[k] = "n"}, s)
  ELSE IF Pair(s, i, "/", "*") THEN First({k \in DOMAIN s : k >= i + 3 /\ Pair(s, k - 1, "*", "/")}, s)
  ELSE i

\* Where the tokens begin.
Tokens(s) ==
  LET from[i \in 1..(Len(s) + 1)] == IF i > Len(s) THEN {} ELSE {i} \cup from[TokenEnd(s, i) + 1]
  IN  from[1]

\* A token that MySQL executes; the comment with an exclamation mark is one.
Executable(s, i) == s[i] # "n" /\ ~OpensLine(s, i) /\ (Pair(s, i, "/", "*") => CharAt(s, i + 2) = "!")

-----------------------------------------------------------------------------
(* Properties.                                                             *)

\* The text is cut at the semicolons that are tokens, and at no other.
CutsRight == Scan(sql).cuts = {i \in Tokens(sql) : sql[i] = ";"}

\* A piece is executed if and only if there is something to execute in it; two dashes
\* right before the semicolon are the exception: alone they are dropped like a comment.
DropsRight ==
  \A p \in SplitSqlStatements(sql) :
    LET executed == {i \in Tokens(sql) : p[1] < i /\ i < p[2] /\ Executable(sql, i)}
        dashes == Pair(sql, p[2] - 2, "-", "-") /\ executed = {p[2] - 2, p[2] - 1}
    IN  PushStatement(sql, p) <=> executed # {} /\ ~dashes

SqlSound == CutsRight /\ DropsRight
=============================================================================
