------------------------------ MODULE Composer ------------------------------
(***************************************************************************)
(* The input line of the chat (components/Chat/useChatComposer.js in the   *)
(* browser): a message leaves it only when the server has acknowledged it; *)
(* an acknowledgement may be lost or come after the time allowed for it.   *)
(***************************************************************************)
EXTENDS Naturals, FiniteSets

CONSTANTS
  Messages,    \* texts that can be sent
  TooLong,     \* one over CHAT_MAX_CHARS
  Blank,       \* nothing but white space
  MaxSends, MaxEdits

ASSUME ComposerAssumption == MaxSends \in Nat /\ MaxEdits \in Nat

VARIABLES
  input,       \* the line
  typed,       \* what the user wrote last
  composing,   \* an input method is choosing characters
  sending, error,
  attempt,     \* per send: "none", "sent", "accepted", "refused" or "lost", which the line
               \* waits for; "late", given up with the server still to take it; "settled"
  raw,         \* what it sent
  received,    \* sends that the server has broadcast
  edits

composerVars == <<input, typed, composing, sending, error, attempt, raw, received, edits>>

Sends == 1..MaxSends
Line == Messages \cup {TooLong, Blank}

ComposerInit ==
  /\ input = Blank /\ typed = Blank /\ composing = FALSE /\ sending = FALSE /\ error = "none"
  /\ attempt = [k \in Sends |-> "none"] /\ raw = [k \in Sends |-> Blank] /\ received = {} /\ edits = 0

\* handleChange, before, while and after a message is sent.
Types(t) ==
  /\ t # input /\ edits < MaxEdits /\ edits' = edits + 1
  /\ input' = t /\ typed' = t /\ error' = "none"
  /\ UNCHANGED <<composing, sending, attempt, raw, received>>

Composes ==
  /\ composing' = ~composing
  /\ UNCHANGED <<input, typed, sending, error, attempt, raw, received, edits>>

Used == Cardinality({k \in Sends : attempt[k] # "none"})

\* MUTANT of MaySend: while a message is on its way too.
MaySendAnyTime == input # Blank

MaySend == ~sending /\ input # Blank

\* Enter, which is the input method's while it composes: sendMessage.
Enters(online) ==
  /\ ~composing /\ MaySend
  /\ CASE input = TooLong -> error' = "invalid" /\ UNCHANGED <<sending, attempt, raw>>
       [] input # TooLong /\ ~online -> error' = "offline" /\ UNCHANGED <<sending, attempt, raw>>
       [] OTHER ->
            /\ Used < MaxSends
            /\ sending' = TRUE /\ error' = "none"
            /\ attempt' = [attempt EXCEPT ![Used + 1] = "sent"] /\ raw' = [raw EXCEPT ![Used + 1] = input]
  /\ UNCHANGED <<input, typed, composing, received, edits>>

\* The server broadcasts the message, or refuses it, and answers; or the connection takes
\* the message or its answer away.
ServerTakes(k) ==
  /\ attempt[k] = "sent"
  /\ \/ /\ received' = received \cup {k}
        /\ \E a \in {"accepted", "lost"} : attempt' = [attempt EXCEPT ![k] = a]
     \/ UNCHANGED received /\ \E a \in {"refused", "lost"} : attempt' = [attempt EXCEPT ![k] = a]
  /\ UNCHANGED <<input, typed, composing, sending, error, raw, edits>>

\* After the time is up it may still be taken, from the buffer of the socket even, and
\* whatever the line does by then; finish does nothing for its answer.
TakenLate(k) ==
  /\ attempt[k] = "late" /\ received' = received \cup {k}
  /\ attempt' = [attempt EXCEPT ![k] = "settled"]
  /\ UNCHANGED <<input, typed, composing, sending, error, raw, edits>>

\* MUTANT of Cleared: whatever stands there by now.
ClearedAnyway(k) == Blank

\* What has been written in the meantime is left alone.
Cleared(k) == IF input = raw[k] THEN Blank ELSE input

\* finish, the first time.
Finishes(k, reason, becomes) ==
  /\ attempt' = [attempt EXCEPT ![k] = becomes] /\ sending' = FALSE /\ error' = reason
  /\ input' = IF reason = "none" THEN Cleared(k) ELSE input
  /\ UNCHANGED <<typed, composing, raw, received, edits>>

AckArrives(k) ==
  \/ attempt[k] = "accepted" /\ Finishes(k, "none", "settled")
  \/ attempt[k] = "refused" /\ \E reason \in {"rate_limit", "failed"} : Finishes(k, reason, "settled")

WaitedFor(k) == attempt[k] \in {"sent", "accepted", "refused", "lost"}
GivenUp(k) == IF attempt[k] = "sent" THEN "late" ELSE "settled"

\* MUTANT of TimesOut: the time limit counts as a success.
TimesOutAsSent(k) == WaitedFor(k) /\ Finishes(k, "none", GivenUp(k))

\* MUTANT of TimesOut: nobody looks at the clock.
TimesOutNever(k) == WaitedFor(k) /\ FALSE /\ Finishes(k, "failed", GivenUp(k))

TimesOut(k) == WaitedFor(k) /\ Finishes(k, "failed", GivenUp(k))

ComposerNext ==
  \/ \E t \in Line : Types(t)
  \/ Composes
  \/ \E online \in BOOLEAN : Enters(online)
  \/ \E k \in Sends : ServerTakes(k) \/ TakenLate(k) \/ AckArrives(k) \/ TimesOut(k)

\* The timer of a message fires.
ComposerFairness == WF_composerVars(\E k \in Sends : TimesOut(k))

-----------------------------------------------------------------------------
ComposerTypeOK ==
  /\ {input, typed} \subseteq Line /\ composing \in BOOLEAN /\ sending \in BOOLEAN
  /\ error \in {"none", "invalid", "offline", "rate_limit", "failed"}
  /\ attempt \in [Sends -> {"none", "sent", "accepted", "refused", "lost", "late", "settled"}]
  /\ received \subseteq Sends /\ edits \in 0..MaxEdits

\* What the user wrote stands in the line until the server has it, whatever was lost,
\* refused or late, and whatever was sent before.
NothingVanishes == input = typed \/ (input = Blank /\ \E k \in received : raw[k] = typed)

\* The same press of a key does not send twice: the line waits for one message at a time,
\* which is the newest, and does not wait for nothing.  An older one that the server may
\* still take is one that the user was told of as failed.
OneAwaited ==
  /\ \A k \in Sends : WaitedFor(k) => sending /\ \A later \in Sends : later > k => attempt[later] = "none"
  /\ sending => \E k \in Sends : WaitedFor(k)
=============================================================================
