------------------------------ MODULE ChatProofs ------------------------------
(***************************************************************************)
(* A message that was published is shown to a viewer that is connected, or *)
(* is on its way to it.  What the viewer would have translated has a       *)
(* spinner that something works on, the mark of a failure, the word of the *)
(* server that there is nothing to translate, or so many newer ones after  *)
(* it that the scan did not reach it: for any messages, whatever languages *)
(* the server and the browser leave out for each, and any losses and       *)
(* limits.  At the end the chat and the pipeline as MCChat runs them.      *)
(***************************************************************************)
EXTENDS PipelineProofs

-----------------------------------------------------------------------------
(* The browser: what is being translated.                                   *)

Browsers ==
  [my : Langs \cup {Unset}, auto : BOOLEAN, connected : BOOLEAN,
   wait : SUBSET Messages, retry : SUBSET Messages, tries : [Messages -> 0..Retries], cand : Seq(Messages),
   timer : BOOLEAN, flight : Seq(Messages), told : SUBSET Messages,
   shown : SUBSET Messages, tr : [Messages -> SUBSET Langs], pending : SUBSET Messages, failed : SUBSET Messages]

\* The lists and the sets of a browser have something for m to come.
Seeks(s, m) == m \in s.wait \cup s.retry \cup Range(s.cand) \cup Range(s.flight)

\* After m there are so many that may be translated that a scan need not reach it.
Crowded(shown, my, m) == Cardinality({n \in shown : n > m /\ my \notin ViewerSkips[n]}) >= ScanItems

\* Messages of E are about to be looked at, and may lack what the others have.
Sound(s, E) ==
  /\ ~Active(s) => s.pending = {} /\ s.cand = <<>> /\ s.flight = <<>>
  /\ \A m \in Messages : m \in s.pending \cup s.failed \cup Range(s.cand) \cup Range(s.flight)
                           => m \in s.shown /\ s.my \notin ViewerSkips[m]
  /\ OnceEach(s.cand) /\ Range(s.cand) \cap Range(s.flight) = {} /\ Len(s.flight) <= BatchItems
  /\ \A m \in Messages \ E : m \in s.pending /\ ~HasMine(s, m) /\ m \notin s.failed => Seeks(s, m)
  /\ \A m \in Messages : m \in Range(s.cand) \cup Range(s.flight) /\ Eligible(s, m) => m \in s.pending \cup s.told
  /\ Active(s) => \A m \in Messages \ E :
       Eligible(s, m) => m \in s.pending \cup s.failed \cup s.told \/ Crowded(s.shown, s.my, m)
  /\ s.my = Unset => s.failed = {}
Moves(s) == s.cand # <<>> => s.flight # <<>> \/ s.timer

\* What queueing a message leaves alone: the store but for the spinners, and a batch that
\* is in flight.
Frame(s, t) ==
  /\ t.my = s.my /\ t.auto = s.auto /\ t.connected = s.connected /\ t.shown = s.shown
  /\ s.flight # <<>> => t.flight = s.flight

\* A batch is made of the first candidates that may go, and those after it are kept: any
\* other has lost its right.
LEMMA BatchSplit ==
  ASSUME NEW s \in Browsers, OnceEach(s.cand)
  PROVE  /\ Kept(s) \in Seq(Messages) /\ Batch(s) \in Seq(Messages) /\ Len(Batch(s)) <= BatchItems
         /\ OnceEach(Kept(s)) /\ Range(Kept(s)) \subseteq Range(s.cand) /\ Range(Batch(s)) \subseteq Range(s.cand)
         /\ Range(Kept(s)) \cap Range(Batch(s)) = {}
         /\ \A m \in Range(s.cand) : Eligible(s, m) => m \in Range(Kept(s)) \cup Range(Batch(s))
         /\ Batch(s) = <<>> => Kept(s) = <<>>
<1>1. PICK list : list = s.cand
  OBVIOUS
<1>2. PICK able : able = {m \in Messages : Eligible(s, m)}
  OBVIOUS
<1>3. PICK all : all = Wanted(s)
  OBVIOUS
<1>4. list \in Seq(Messages) /\ OnceEach(list) /\ Len(list) \in Nat
  BY <1>1 DEF Browsers
<1>5. all = Those(list, able)
  BY <1>1, <1>2, <1>3 DEF Wanted
<1>6. all \in Seq(Messages) /\ Sifted(all, list, able, Len(list))
  BY <1>4, <1>5, ThoseSifted
<1>7. PICK place : Sifts(place, all, list, able, Len(list))
  BY <1>6 DEF Sifted
<1>8. /\ \A k \in 1..Len(all) : place[k] \in 1..Len(list) /\ all[k] = list[place[k]]
      /\ \A k, l \in 1..Len(all) : k < l => place[k] < place[l]
      /\ \A i \in 1..Len(list) : list[i] \in able => \E k \in 1..Len(all) : place[k] = i
      /\ Len(all) \in Nat
  BY <1>6, <1>7 DEF Sifts
<1>9. BatchItems \in Nat /\ BatchItems >= 1
  BY SyncAssumption
<1>10. PICK most : most = IF Len(all) < BatchItems THEN Len(all) ELSE BatchItems
  OBVIOUS
<1>11. most \in 0..Len(all) /\ most <= BatchItems
  BY <1>8, <1>9, <1>10
<1>12. Batch(s) = SubSeq(all, 1, most)
  BY <1>3, <1>10 DEF Batch
<1>13. /\ Batch(s) \in Seq(Messages) /\ Len(Batch(s)) = most
       /\ \A k \in 1..most : Batch(s)[k] = all[k]
  BY <1>6, <1>8, <1>11, <1>12
<1>14. \A x : x \in Range(Batch(s)) <=> \E k \in 1..most : all[k] = x
  BY <1>13, InRange
<1>15. \A x : x \in Range(s.cand) <=> \E i \in 1..Len(list) : list[i] = x
  BY <1>1, <1>4, InRange
<1>16. Range(Batch(s)) \subseteq Range(s.cand)
  BY <1>8, <1>11, <1>14, <1>15
<1>17. \A m \in Range(s.cand) : Eligible(s, m) => \E k \in 1..Len(all) : all[k] = m /\ list[place[k]] = m
  <2> SUFFICES ASSUME NEW m \in Range(s.cand), Eligible(s, m)
               PROVE  \E k \in 1..Len(all) : all[k] = m /\ list[place[k]] = m
    OBVIOUS
  <2>1. PICK i \in 1..Len(list) : list[i] = m
    BY <1>15
  <2>2. m \in able
    BY <1>2, <1>4, <2>1
  <2> QED BY <1>8, <2>1, <2>2
<1>18. CASE Len(all) <= BatchItems
  <2>1. Kept(s) = <<>> /\ most = Len(all)
    BY <1>3, <1>8, <1>9, <1>10, <1>18 DEF Kept
  <2>2. Range(<<>>) = {} /\ Kept(s) \in Seq(Messages) /\ OnceEach(<<>>)
    BY <2>1 DEF Range, OnceEach
  <2>3. \A m \in Range(s.cand) : Eligible(s, m) => m \in Range(Batch(s))
    BY <1>14, <1>17, <2>1
  <2> QED BY <1>11, <1>13, <1>16, <2>1, <2>2, <2>3
<1>19. CASE Len(all) > BatchItems
  <2>1. BatchItems + 1 \in 1..Len(all) /\ most = BatchItems
    BY <1>8, <1>9, <1>10, <1>19
  <2>2. PICK next : next = CHOOSE i \in 1..Len(s.cand) : s.cand[i] = Wanted(s)[BatchItems + 1]
    OBVIOUS
  <2>3. next \in 1..Len(list) /\ list[next] = all[BatchItems + 1]
    <3>1. \E i \in 1..Len(s.cand) : s.cand[i] = Wanted(s)[BatchItems + 1]
      BY <1>1, <1>3, <1>8, <2>1
    <3> QED BY <1>1, <1>3, <2>2, <3>1
  <2>4. next = place[BatchItems + 1]
    BY <1>4, <1>8, <2>1, <2>3 DEF OnceEach
  <2>5. Kept(s) = SubSeq(list, next, Len(list))
    <3>1. ~(Len(Wanted(s)) <= BatchItems)
      BY <1>3, <1>8, <1>9, <1>19
    <3>2. Kept(s) = SubSeq(s.cand, next, Len(s.cand))
      BY <2>2, <3>1 DEF Kept
    <3> QED BY <1>1, <3>2
  <2>6. /\ Kept(s) \in Seq(Messages) /\ Len(Kept(s)) = Len(list) - next + 1
        /\ \A k \in 1..(Len(list) - next + 1) : Kept(s)[k] = list[next + k - 1]
    BY <1>4, <2>3, <2>5
  <2>7. \A x : x \in Range(Kept(s)) <=> \E i \in next..Len(list) : list[i] = x
    <3>1. \A x : x \in Range(Kept(s)) <=> \E k \in 1..(Len(list) - next + 1) : list[next + k - 1] = x
      BY <2>6, InRange
    <3>2. \A k \in 1..(Len(list) - next + 1) : next + k - 1 \in next..Len(list)
      BY <1>4, <2>3
    <3>3. \A i \in next..Len(list) : i - next + 1 \in 1..(Len(list) - next + 1) /\ next + (i - next + 1) - 1 = i
      BY <1>4, <2>3
    <3> QED BY <3>1, <3>2, <3>3
  <2>8. OnceEach(Kept(s))
    <3>1. \A k \in 1..(Len(list) - next + 1) : next + k - 1 \in 1..Len(list)
      BY <1>4, <2>3
    <3>2. \A k, l \in 1..(Len(list) - next + 1) : Kept(s)[k] = Kept(s)[l] => next + k - 1 = next + l - 1
      <4>1. \A i, j \in 1..Len(list) : list[i] = list[j] => i = j
        BY <1>4 DEF OnceEach
      <4> QED BY <2>6, <3>1, <4>1, Zenon
    <3>3. \A k, l \in 1..(Len(list) - next + 1) : next + k - 1 = next + l - 1 => k = l
      BY <1>4, <2>3
    <3> QED BY <2>6, <3>2, <3>3 DEF OnceEach
  <2>9. Range(Kept(s)) \subseteq Range(s.cand)
    BY <1>4, <1>15, <2>3, <2>7
  <2>10. \A k \in 1..most : place[k] < next
    BY <1>8, <1>9, <2>1, <2>4
  <2>11. Range(Kept(s)) \cap Range(Batch(s)) = {}
    <3> SUFFICES ASSUME NEW x, x \in Range(Kept(s)), x \in Range(Batch(s)) PROVE FALSE
      OBVIOUS
    <3>1. PICK k \in 1..most : all[k] = x
      BY <1>14
    <3>2. PICK i \in next..Len(list) : list[i] = x
      BY <2>7
    <3>3. place[k] \in 1..Len(list) /\ list[place[k]] = x /\ place[k] < next
      BY <1>8, <1>11, <2>10, <3>1
    <3> QED BY <1>4, <2>3, <3>2, <3>3 DEF OnceEach
  <2>12. \A m \in Range(s.cand) : Eligible(s, m) => m \in Range(Kept(s)) \cup Range(Batch(s))
    <3> SUFFICES ASSUME NEW m \in Range(s.cand), Eligible(s, m) PROVE m \in Range(Kept(s)) \cup Range(Batch(s))
      OBVIOUS
    <3>1. PICK k \in 1..Len(all) : all[k] = m /\ list[place[k]] = m
      BY <1>17
    <3>2. CASE k <= most
      BY <1>8, <1>14, <3>1, <3>2
    <3>3. CASE k > most
      <4>1. k = BatchItems + 1 \/ BatchItems + 1 < k
        BY <1>8, <1>9, <2>1, <3>3
      <4>2. place[k] \in next..Len(list)
        BY <1>8, <2>1, <2>3, <2>4, <4>1
      <4> QED BY <2>7, <3>1, <4>2
    <3> QED BY <1>8, <1>11, <3>2, <3>3
  <2>13. Batch(s) # <<>>
    BY <1>9, <1>13, <2>1
  <2> QED BY <1>11, <1>13, <1>16, <2>6, <2>8, <2>9, <2>11, <2>12, <2>13
<1> QED BY <1>8, <1>9, <1>18, <1>19

\* Sending a batch loses nobody who is still to be translated.
LEMMA RunBatchSound ==
  ASSUME NEW s \in Browsers, NEW E, Sound(s, E)
  PROVE  /\ RunBatch(s) \in Browsers /\ Sound(RunBatch(s), E) /\ Frame(s, RunBatch(s))
         /\ RunBatch(s).cand # <<>> => RunBatch(s).flight # <<>>
<1>1. CASE ~Active(s) \/ s.flight # <<>>
  <2>1. RunBatch(s) = s
    BY <1>1 DEF RunBatch
  <2> QED BY <1>1, <2>1 DEF Sound, Frame
<1>2. CASE Active(s) /\ s.flight = <<>>
  <2>1. PICK kept : kept = Kept(s)
    OBVIOUS
  <2>2. PICK batch : batch = Batch(s)
    OBVIOUS
  <2>3. PICK gone : gone = {m \in Range(s.cand) \ Range(kept) : ~Eligible(s, m)}
    OBVIOUS
  <2>4. PICK t : t = [s EXCEPT !.cand = kept, !.flight = batch, !.pending = @ \ gone]
    OBVIOUS
  <2>5. RunBatch(s) = t
    BY <1>2, <2>1, <2>2, <2>3, <2>4 DEF RunBatch
  <2>6. /\ kept \in Seq(Messages) /\ batch \in Seq(Messages) /\ Len(batch) <= BatchItems
        /\ OnceEach(kept) /\ Range(kept) \subseteq Range(s.cand) /\ Range(batch) \subseteq Range(s.cand)
        /\ Range(kept) \cap Range(batch) = {}
        /\ \A m \in Range(s.cand) : Eligible(s, m) => m \in Range(kept) \cup Range(batch)
        /\ batch = <<>> => kept = <<>>
    BY <2>1, <2>2, BatchSplit DEF Sound
  <2>7. t \in Browsers
    BY <2>4, <2>6 DEF Browsers
  <2>8. /\ t.my = s.my /\ t.auto = s.auto /\ t.connected = s.connected /\ t.shown = s.shown /\ t.tr = s.tr
        /\ t.failed = s.failed /\ t.told = s.told /\ t.wait = s.wait /\ t.retry = s.retry
        /\ t.cand = kept /\ t.flight = batch /\ t.pending = s.pending \ gone
    BY <2>4 DEF Browsers
  <2>9. /\ Active(t) /\ \A m : (HasMine(t, m) <=> HasMine(s, m)) /\ (Eligible(t, m) <=> Eligible(s, m))
    BY <1>2, <2>8 DEF Active, HasMine, Eligible
  <2>10. Range(s.flight) = {} /\ Range(s.cand) \subseteq Messages
    BY <1>2, InRange DEF Range, Browsers
  <2>11. \A m \in Messages : m \in t.pending \cup t.failed \cup Range(t.cand) \cup Range(t.flight)
                               => m \in t.shown /\ t.my \notin ViewerSkips[m]
    BY <2>6, <2>8 DEF Sound
  <2>12. \A m \in Messages \ E : m \in t.pending /\ ~HasMine(t, m) /\ m \notin t.failed => Seeks(t, m)
    <3> SUFFICES ASSUME NEW m \in Messages \ E, m \in t.pending, ~HasMine(t, m), m \notin t.failed
                 PROVE  Seeks(t, m)
      OBVIOUS
    <3>1. Seeks(s, m) /\ m \in s.pending /\ Eligible(s, m)
      BY <2>8, <2>9 DEF Sound, Eligible
    <3> QED BY <2>3, <2>6, <2>8, <2>10, <3>1 DEF Seeks
  <2>13. \A m \in Messages : m \in Range(t.cand) \cup Range(t.flight) /\ Eligible(t, m) => m \in t.pending \cup t.told
    <3> SUFFICES ASSUME NEW m \in Messages, m \in Range(t.cand) \cup Range(t.flight), Eligible(t, m)
                 PROVE  m \in t.pending \cup t.told
      OBVIOUS
    <3>1. m \in Range(s.cand) /\ Eligible(s, m)
      BY <2>6, <2>8, <2>9
    <3>2. m \in s.pending \cup s.told
      BY <3>1 DEF Sound
    <3> QED BY <2>3, <2>8, <3>1, <3>2
  <2>14. \A m \in Messages \ E : Eligible(t, m) => m \in t.pending \cup t.failed \cup t.told \/ Crowded(t.shown, t.my, m)
    BY <1>2, <2>3, <2>8, <2>9 DEF Sound
  <2>15. t.my = Unset => t.failed = {}
    BY <2>8 DEF Sound
  <2>16. Sound(t, E)
    BY <2>6, <2>8, <2>9, <2>11, <2>12, <2>13, <2>14, <2>15 DEF Sound
  <2> QED BY <1>2, <2>5, <2>6, <2>7, <2>8, <2>16 DEF Frame
<1> QED BY <1>1, <1>2

\* With the timer or without, no candidate is left alone.
LEMMA ScheduleBatchSound ==
  ASSUME NEW s \in Browsers, NEW E, Sound(s, E), NEW delay, NEW t \in ScheduleBatch(s, delay)
  PROVE  t \in Browsers /\ Sound(t, E) /\ Moves(t) /\ Frame(s, t)
<1>1. CASE s.flight # <<>> \/ s.cand = <<>>
  <2>1. t = s
    BY <1>1 DEF ScheduleBatch
  <2> QED BY <1>1, <2>1 DEF Moves, Frame
<1>2. CASE ~(s.flight # <<>> \/ s.cand = <<>>)
  <2>1. PICK u : u \in {[s EXCEPT !.timer = TRUE], [s EXCEPT !.timer = FALSE]}
                 /\ ((t = u /\ u = [s EXCEPT !.timer = TRUE]) \/ t = RunBatch(u))
    BY <1>2 DEF ScheduleBatch
  <2>2. PICK on \in BOOLEAN : u = [s EXCEPT !.timer = on]
    BY <2>1
  <2>3. u \in Browsers /\ (u = [s EXCEPT !.timer = TRUE] => u.timer)
    BY <2>2 DEF Browsers
  <2>4. /\ u.my = s.my /\ u.auto = s.auto /\ u.connected = s.connected /\ u.shown = s.shown /\ u.tr = s.tr
        /\ u.failed = s.failed /\ u.told = s.told /\ u.wait = s.wait /\ u.retry = s.retry
        /\ u.cand = s.cand /\ u.flight = s.flight /\ u.pending = s.pending
    BY <2>2 DEF Browsers
  <2>5. Sound(u, E) /\ Frame(s, u)
    BY <2>4 DEF Sound, Frame, Active, HasMine, Eligible, Seeks
  <2>6. CASE t = u /\ u = [s EXCEPT !.timer = TRUE]
    BY <2>3, <2>5, <2>6 DEF Moves
  <2>7. CASE t = RunBatch(u)
    <3>1. t \in Browsers /\ Sound(t, E) /\ Frame(u, t) /\ (t.cand # <<>> => t.flight # <<>>)
      BY <2>3, <2>5, <2>7, RunBatchSound
    <3> QED BY <2>4, <3>1 DEF Moves, Frame
  <2> QED BY <2>1, <2>6, <2>7
<1> QED BY <1>1, <1>2

\* A set of messages in the order of their time.
LEMMA InOrderMembers ==
  ASSUME NEW ids \in SUBSET Messages
  PROVE  InOrder(ids) \in Seq(Messages) /\ Range(InOrder(ids)) = ids /\ OnceEach(InOrder(ids))
<1>1. PICK list : list = [m \in Messages |-> m]
  BY Zenon
<1>2. LastMessage \in Nat /\ Messages = 1..LastMessage
  BY ChatAssumption DEF Messages
<1>3. list \in Seq(Messages) /\ Len(list) = LastMessage /\ \A m \in 1..LastMessage : list[m] = m
  BY <1>1, <1>2
<1>4. OnceEach(list) /\ Range(list) = Messages
  <2>1. \A x : x \in Range(list) <=> \E i \in 1..Len(list) : list[i] = x
    BY <1>3, InRange
  <2> QED BY <1>2, <1>3, <2>1, Zenon DEF OnceEach
<1>5. Those(list, ids) \in Seq(Messages) /\ Range(Those(list, ids)) = Range(list) \cap ids /\ OnceEach(Those(list, ids))
  BY <1>3, <1>4, ThoseMembers
<1> QED BY <1>1, <1>4, <1>5 DEF InOrder

\* Two lists of different messages make one.
LEMMA JoinedLists ==
  ASSUME NEW T, NEW list \in Seq(T), NEW more \in Seq(T), OnceEach(list), OnceEach(more), Range(list) \cap Range(more) = {}
  PROVE  list \o more \in Seq(T) /\ OnceEach(list \o more) /\ Range(list \o more) = Range(list) \cup Range(more)
<1>1. PICK both : both = list \o more
  OBVIOUS
<1>2. PICK n \in Nat : n = Len(list)
  OBVIOUS
<1>3. PICK k \in Nat : k = Len(more)
  OBVIOUS
<1>4. /\ both \in Seq(T) /\ Len(both) = n + k
      /\ \A i \in 1..n : both[i] = list[i] /\ i \in 1..(n+k)
      /\ \A i \in 1..k : both[n + i] = more[i] /\ n + i \in 1..(n+k)
  BY <1>1, <1>2, <1>3
<1>5. \A i \in 1..(n+k) : i \in 1..n \/ (i - n \in 1..k /\ i = n + (i - n))
  OBVIOUS
<1>6. /\ \A x : x \in Range(both) <=> \E i \in 1..(n+k) : both[i] = x
      /\ \A x : x \in Range(list) <=> \E i \in 1..n : list[i] = x
      /\ \A x : x \in Range(more) <=> \E i \in 1..k : more[i] = x
  <2>1. \A x : x \in Range(both) <=> \E i \in 1..Len(both) : both[i] = x
    <3>1. both \in Seq(T)
      BY <1>4
    <3> QED BY <3>1, InRange
  <2>2. \A x : x \in Range(list) <=> \E i \in 1..Len(list) : list[i] = x
    BY InRange
  <2>3. \A x : x \in Range(more) <=> \E i \in 1..Len(more) : more[i] = x
    BY InRange
  <2> QED BY <1>2, <1>3, <1>4, <2>1, <2>2, <2>3
<1>7. Range(both) = Range(list) \cup Range(more)
  <2>1. ASSUME NEW x, x \in Range(both) PROVE x \in Range(list) \cup Range(more)
    <3>1. PICK i \in 1..(n+k) : both[i] = x
      BY <1>6, <2>1
    <3>2. CASE i \in 1..n
      BY <1>4, <1>6, <3>1, <3>2
    <3>3. CASE i - n \in 1..k /\ i = n + (i - n)
      <4>1. PICK j \in 1..k : i = n + j
        BY <3>3
      <4>2. more[j] = x
        BY <1>4, <3>1, <4>1
      <4> QED BY <1>6, <4>2
    <3> QED BY <1>5, <3>2, <3>3
  <2>2. ASSUME NEW x, x \in Range(list) \cup Range(more) PROVE x \in Range(both)
    BY <1>4, <1>6, <2>2
  <2> QED BY <2>1, <2>2
<1>8. OnceEach(both)
  <2> SUFFICES ASSUME NEW i \in 1..(n+k), NEW j \in 1..(n+k), both[i] = both[j] PROVE i = j
    BY <1>4 DEF OnceEach
  <2>1. CASE i \in 1..n /\ j \in 1..n
    BY <1>2, <1>4, <2>1 DEF OnceEach
  <2>2. CASE i - n \in 1..k /\ j - n \in 1..k
    <3>1. both[i] = more[i - n] /\ both[j] = more[j - n]
      BY <1>4, <1>5, <2>2
    <3>2. i - n = j - n
      BY <1>3, <2>2, <3>1 DEF OnceEach
    <3> QED BY <3>2
  <2>3. ASSUME NEW p \in 1..n, NEW q \in 1..k PROVE both[p] # both[n + q]
    <3>1. both[p] \in Range(list) /\ both[n + q] \in Range(more)
      BY <1>4, <1>6
    <3> QED BY <3>1
  <2> QED BY <1>5, <2>1, <2>2, <2>3
<1> QED BY <1>1, <1>4, <1>7, <1>8

\* What is queued waits for a batch, and whoever was to be looked at is accounted for.
LEMMA EnqueueSound ==
  ASSUME NEW s \in Browsers, NEW ids \in SUBSET Messages, Sound(s, ids), Moves(s),
         NEW delay, NEW t \in Enqueue(s, ids, delay)
  PROVE  t \in Browsers /\ Sound(t, {}) /\ Moves(t) /\ Frame(s, t)
<1>1. PICK fresh : fresh = {m \in ids : m \notin Range(s.cand) \cup Range(s.flight) /\ Eligible(s, m)}
  OBVIOUS
<1>2. CASE ~Active(s) \/ fresh = {}
  <2>1. t = s
    BY <1>1, <1>2 DEF Enqueue
  <2>2. \A m \in ids : m \in s.pending /\ ~HasMine(s, m) => Seeks(s, m)
    <3> SUFFICES ASSUME NEW m \in ids, m \in s.pending, ~HasMine(s, m) PROVE Seeks(s, m)
      OBVIOUS
    <3>1. Active(s) /\ Eligible(s, m)
      BY DEF Sound, Eligible
    <3> QED BY <1>1, <1>2, <3>1 DEF Seeks
  <2>3. Active(s) => \A m \in ids : Eligible(s, m) => m \in s.pending \cup s.failed \cup s.told \/ Crowded(s.shown, s.my, m)
    <3> SUFFICES ASSUME Active(s), NEW m \in ids, Eligible(s, m) PROVE m \in s.pending \cup s.failed \cup s.told \/ Crowded(s.shown, s.my, m)
      OBVIOUS
    <3>1. m \in Range(s.cand) \cup Range(s.flight)
      BY <1>1, <1>2
    <3> QED BY <3>1 DEF Sound
  <2>4. Sound(s, {})
    BY <2>2, <2>3 DEF Sound
  <2> QED BY <2>1, <2>4 DEF Frame
<1>3. CASE Active(s) /\ fresh # {}
  <2>1. PICK new : new = InOrder(fresh)
    OBVIOUS
  <2>2. PICK u : u = [s EXCEPT !.wait = @ \ fresh, !.cand = @ \o new, !.pending = @ \cup fresh]
    OBVIOUS
  <2>3. t \in ScheduleBatch(u, delay)
    BY <1>1, <1>3, <2>1, <2>2 DEF Enqueue
  <2>4. fresh \in SUBSET Messages /\ new \in Seq(Messages) /\ Range(new) = fresh /\ OnceEach(new)
    BY <1>1, <2>1, InOrderMembers
  <2>5. s.cand \in Seq(Messages) /\ OnceEach(s.cand) /\ Range(s.cand) \cap Range(new) = {}
    BY <1>1, <2>4 DEF Sound, Browsers
  <2>6. s.cand \o new \in Seq(Messages) /\ OnceEach(s.cand \o new) /\ Range(s.cand \o new) = Range(s.cand) \cup fresh
    BY <2>4, <2>5, JoinedLists
  <2>7. u \in Browsers
    BY <2>2, <2>4, <2>6 DEF Browsers
  <2>8. /\ u.my = s.my /\ u.auto = s.auto /\ u.connected = s.connected /\ u.shown = s.shown /\ u.tr = s.tr
        /\ u.failed = s.failed /\ u.told = s.told /\ u.wait = s.wait \ fresh /\ u.retry = s.retry
        /\ u.cand = s.cand \o new /\ u.flight = s.flight /\ u.pending = s.pending \cup fresh
    BY <2>2 DEF Browsers
  <2>9. /\ Active(u) /\ \A m : (HasMine(u, m) <=> HasMine(s, m)) /\ (Eligible(u, m) <=> Eligible(s, m))
    BY <1>3, <2>8 DEF Active, HasMine, Eligible
  <2>10. Range(u.cand) = Range(s.cand) \cup fresh /\ Range(u.flight) = Range(s.flight)
    BY <2>6, <2>8
  <2>11. \A m \in fresh : m \in s.shown /\ s.my \notin ViewerSkips[m] /\ ~HasMine(s, m) /\ m \notin Range(s.flight)
    BY <1>1 DEF Eligible
  <2>12. \A m \in Messages : m \in u.pending \cup u.failed \cup Range(u.cand) \cup Range(u.flight)
                               => m \in u.shown /\ u.my \notin ViewerSkips[m]
    BY <2>8, <2>10, <2>11 DEF Sound
  <2>13. OnceEach(u.cand) /\ Range(u.cand) \cap Range(u.flight) = {} /\ Len(u.flight) <= BatchItems
    BY <2>6, <2>8, <2>10, <2>11 DEF Sound
  <2>14. \A m \in Messages : m \in u.pending /\ ~HasMine(u, m) /\ m \notin u.failed => Seeks(u, m)
    <3> SUFFICES ASSUME NEW m \in Messages, m \in u.pending, ~HasMine(u, m), m \notin u.failed PROVE Seeks(u, m)
      OBVIOUS
    <3>1. CASE m \in fresh
      BY <2>10, <3>1 DEF Seeks
    <3>2. CASE m \notin fresh /\ m \in ids
      <4>1. Eligible(s, m)
        BY <2>8, <2>9, <3>2 DEF Sound, Eligible
      <4> QED BY <1>1, <2>10, <3>2, <4>1 DEF Seeks
    <3>3. CASE m \notin fresh /\ m \notin ids
      <4>1. Seeks(s, m)
        BY <2>8, <2>9, <3>3 DEF Sound
      <4> QED BY <2>8, <2>10, <3>3, <4>1 DEF Seeks
    <3> QED BY <3>1, <3>2, <3>3
  <2>15. \A m \in Messages : m \in Range(u.cand) \cup Range(u.flight) /\ Eligible(u, m) => m \in u.pending \cup u.told
    BY <2>8, <2>9, <2>10 DEF Sound
  <2>16. \A m \in Messages : Eligible(u, m) => m \in u.pending \cup u.failed \cup u.told \/ Crowded(u.shown, u.my, m)
    <3> SUFFICES ASSUME NEW m \in Messages, Eligible(u, m) PROVE m \in u.pending \cup u.failed \cup u.told \/ Crowded(u.shown, u.my, m)
      OBVIOUS
    <3>1. CASE m \in ids
      <4>1. m \in fresh \/ m \in Range(s.cand) \cup Range(s.flight)
        BY <1>1, <2>9, <3>1
      <4> QED BY <2>8, <2>10, <2>15, <4>1
    <3>2. CASE m \notin ids
      BY <1>3, <2>8, <2>9, <3>2 DEF Sound
    <3> QED BY <3>1, <3>2
  <2>17. u.my = Unset => u.failed = {}
    BY <2>8 DEF Sound
  <2>18. Sound(u, {})
    BY <2>9, <2>12, <2>13, <2>14, <2>15, <2>16, <2>17 DEF Sound
  <2>19. t \in Browsers /\ Sound(t, {}) /\ Moves(t) /\ Frame(u, t)
    BY <2>3, <2>7, <2>18, ScheduleBatchSound
  <2> QED BY <2>8, <2>19 DEF Frame
<1> QED BY <1>2, <1>3

\* With more messages there are no fewer after m.
LEMMA MoreCrowded ==
  ASSUME NEW S, NEW T \in SUBSET Messages, S \subseteq T, NEW my, NEW m \in Messages, Crowded(S, my, m)
  PROVE  Crowded(T, my, m)
<1>1. PICK few : few = {n \in S : n > m /\ my \notin ViewerSkips[n]}
  OBVIOUS
<1>2. PICK many : many = {n \in T : n > m /\ my \notin ViewerSkips[n]}
  OBVIOUS
<1>3. IsFiniteSet(Messages) /\ few \subseteq many /\ many \subseteq Messages
  <2>1. IsFiniteSet(1..LastMessage)
    BY ChatAssumption, FS_Interval
  <2> QED BY <1>1, <1>2, <2>1 DEF Messages
<1>4. IsFiniteSet(many)
  BY <1>3, FS_Subset
<1>5. Cardinality(few) <= Cardinality(many) /\ Cardinality(few) \in Nat /\ Cardinality(many) \in Nat
  BY <1>3, <1>4, FS_Subset, FS_CardinalityType
<1>6. ScanItems \in Nat /\ Cardinality(few) >= ScanItems
  BY <1>1, SyncAssumption DEF Crowded
<1>7. Cardinality(many) >= ScanItems
  BY <1>5, <1>6
<1> QED BY <1>2, <1>7 DEF Crowded

\* What a scan leaves out has that many after it.
LEMMA ScanLeavesOut ==
  ASSUME NEW s \in Browsers, NEW m \in Messages, Eligible(s, m), m \notin Newest({n \in s.shown : Eligible(s, n)})
  PROVE  Crowded(s.shown, s.my, m)
<1>1. PICK ids : ids = {n \in s.shown : Eligible(s, n)}
  OBVIOUS
<1>2. PICK after : after = {n \in ids : n > m}
  OBVIOUS
<1>3. PICK many : many = {n \in s.shown : n > m /\ s.my \notin ViewerSkips[n]}
  OBVIOUS
<1>4. m \in ids /\ s.shown \subseteq Messages
  BY <1>1 DEF Eligible, Browsers
<1>5. ~(Cardinality(after) < ScanItems)
  BY <1>1, <1>2, <1>4 DEF Newest
<1>6. IsFiniteSet(Messages) /\ after \subseteq many /\ many \subseteq Messages
  <2>1. IsFiniteSet(1..LastMessage)
    BY ChatAssumption, FS_Interval
  <2> QED BY <1>1, <1>2, <1>3, <1>4, <2>1 DEF Messages, Eligible
<1>7. IsFiniteSet(many)
  BY <1>6, FS_Subset
<1>8. Cardinality(after) <= Cardinality(many) /\ Cardinality(after) \in Nat /\ Cardinality(many) \in Nat
  BY <1>6, <1>7, FS_Subset, FS_CardinalityType
<1>9. Cardinality(many) >= ScanItems
  BY <1>5, <1>8, SyncAssumption
<1> QED BY <1>3, <1>9 DEF Crowded

\* A spinner has something for m to come.
Backed(s, m) == m \in s.pending /\ ~HasMine(s, m) /\ m \notin s.failed => Seeks(s, m)

\* A scan of what is shown accounts for everybody.
LEMMA ScanSound ==
  ASSUME NEW s \in Browsers, Sound(s, Messages), \A m \in Messages : Backed(s, m), Moves(s), NEW t \in ScanStore(s)
  PROVE  t \in Browsers /\ Sound(t, {}) /\ Moves(t) /\ Frame(s, t)
<1>1. PICK all : all = {m \in s.shown : Eligible(s, m)}
  OBVIOUS
<1>2. PICK ids : ids = Newest(all)
  OBVIOUS
<1>3. ids \in SUBSET Messages /\ t \in Enqueue(s, ids, TRUE)
  BY <1>1, <1>2 DEF Browsers, ScanStore, Newest
<1>4. \A m \in Messages \ ids : Eligible(s, m) => Crowded(s.shown, s.my, m)
  BY <1>1, <1>2, ScanLeavesOut
<1>5. Sound(s, ids)
  BY <1>4 DEF Sound, Backed
<1> QED BY <1>3, <1>5, EnqueueSound

\* What is shown of a store and what is not: a message that is merged may be new.
LEMMA MergedSound ==
  ASSUME NEW s \in Browsers, Sound(s, {}), Moves(s), NEW ms \in SUBSET Messages, NEW has
  PROVE  /\ Merged(s, ms, has) \in Browsers /\ Sound(Merged(s, ms, has), ms) /\ Moves(Merged(s, ms, has))
         /\ \A m \in Messages : Backed(Merged(s, ms, has), m)
         /\ Merged(s, ms, has).shown = s.shown \cup ms /\ Merged(s, ms, has).my = s.my
         /\ Merged(s, ms, has).auto = s.auto /\ Merged(s, ms, has).connected = s.connected
         /\ Merged(s, ms, has).flight = s.flight
<1>1. PICK shown : shown = s.shown \cup ms
  OBVIOUS
<1>2. PICK tr : tr = [m \in Messages |-> IF m \in shown THEN s.tr[m] \cup {l \in Langs : <<m, l>> \in has} ELSE {}]
  OBVIOUS
<1>3. PICK t : t = [s EXCEPT !.shown = shown, !.tr = tr, !.pending = @ \cap shown, !.failed = @ \cap shown]
  OBVIOUS
<1>4. Merged(s, ms, has) = t
  BY <1>1, <1>2, <1>3 DEF Merged
<1>5. /\ shown \in SUBSET Messages /\ tr \in [Messages -> SUBSET Langs]
      /\ \A m \in shown : s.tr[m] \subseteq tr[m]
  BY <1>1, <1>2 DEF Browsers
<1>6. t \in Browsers
  BY <1>3, <1>5 DEF Browsers
<1>7. /\ t.my = s.my /\ t.auto = s.auto /\ t.connected = s.connected /\ t.shown = s.shown \cup ms /\ t.tr = tr
      /\ t.failed = s.failed \cap shown /\ t.told = s.told /\ t.wait = s.wait /\ t.retry = s.retry
      /\ t.cand = s.cand /\ t.flight = s.flight /\ t.pending = s.pending \cap shown /\ t.timer = s.timer
  BY <1>1, <1>3 DEF Browsers
<1>8. s.pending \cup s.failed \cup Range(s.cand) \cup Range(s.flight) \subseteq s.shown
  <2>1. Range(s.cand) \subseteq Messages /\ Range(s.flight) \subseteq Messages
    BY InRange DEF Browsers
  <2>2. s.pending \subseteq Messages /\ s.failed \subseteq Messages
    BY DEF Browsers
  <2> QED BY <2>1, <2>2 DEF Sound
<1>9. t.pending = s.pending /\ t.failed = s.failed
  BY <1>1, <1>7, <1>8
<1>10. \A m \in Messages : /\ m \in s.shown /\ Eligible(t, m) => Eligible(s, m)
                           /\ m \in s.shown /\ ~HasMine(t, m) => ~HasMine(s, m)
  BY <1>1, <1>5, <1>7 DEF Eligible, HasMine
<1>13. \A m \in Messages : Backed(t, m)
  BY <1>7, <1>8, <1>9, <1>10 DEF Sound, Seeks, Backed
<1>11. Sound(t, ms)
  <2>1. \A m \in Messages \ ms : Eligible(t, m) => m \in s.shown
    BY <1>7 DEF Eligible
  <2>9. \A m \in Messages : Crowded(s.shown, s.my, m) => Crowded(t.shown, t.my, m)
    BY <1>6, <1>7, MoreCrowded DEF Browsers
  <2>2. ~Active(t) => t.pending = {} /\ t.cand = <<>> /\ t.flight = <<>>
    BY <1>7, <1>9 DEF Sound, Active
  <2>3. Active(t) => \A m \in Messages \ ms : Eligible(t, m) => m \in t.pending \cup t.failed \cup t.told \/ Crowded(t.shown, t.my, m)
    BY <1>7, <1>9, <1>10, <2>1, <2>9 DEF Sound, Active
  <2>4. \A m \in Messages \ ms : m \in t.pending /\ ~HasMine(t, m) /\ m \notin t.failed => Seeks(t, m)
    BY <1>13 DEF Backed
  <2>5. \A m \in Messages : m \in Range(t.cand) \cup Range(t.flight) /\ Eligible(t, m) => m \in t.pending \cup t.told
    BY <1>7, <1>8, <1>9, <1>10 DEF Sound
  <2>6. \A m \in Messages : m \in t.pending \cup t.failed \cup Range(t.cand) \cup Range(t.flight)
                              => m \in t.shown /\ t.my \notin ViewerSkips[m]
    BY <1>7, <1>9 DEF Sound
  <2>7. t.my = Unset => t.failed = {}
    BY <1>7, <1>9 DEF Sound
  <2>8. OnceEach(t.cand) /\ Range(t.cand) \cap Range(t.flight) = {} /\ Len(t.flight) <= BatchItems
    BY <1>7 DEF Sound
  <2> QED BY <2>2, <2>3, <2>4, <2>5, <2>6, <2>7, <2>8 DEF Sound
<1>12. Moves(t)
  BY <1>7 DEF Moves
<1> QED BY <1>4, <1>6, <1>7, <1>11, <1>12, <1>13

\* The history: what it shows is looked at.
LEMMA HistorySound ==
  ASSUME b \in Browsers, Sound(b, {}), Moves(b), NEW e, e.read \in SUBSET Messages, NEW t \in OnHistory(e)
  PROVE  /\ t \in Browsers /\ Sound(t, {}) /\ Moves(t) /\ t.shown = b.shown \cup e.read
         /\ t.my = b.my /\ t.auto = b.auto /\ t.connected = b.connected /\ (b.flight # <<>> => t.flight = b.flight)
<1>1. PICK s : s = Merged(b, e.read, e.has)
  OBVIOUS
<1>2. PICK here : here = {m \in s.wait : HasMine(s, m)}
  OBVIOUS
<1>3. PICK u : u = [s EXCEPT !.wait = @ \ here, !.pending = @ \ here]
  OBVIOUS
<1>4. t \in ScanStore(u)
  BY <1>1, <1>2, <1>3 DEF OnHistory
<1>5. /\ s \in Browsers /\ Sound(s, e.read) /\ Moves(s) /\ \A m \in Messages : Backed(s, m)
      /\ s.shown = b.shown \cup e.read /\ s.my = b.my /\ s.auto = b.auto /\ s.connected = b.connected /\ s.flight = b.flight
  BY <1>1, MergedSound
<1>6. u \in Browsers
  BY <1>3, <1>5 DEF Browsers
<1>7. /\ u.my = s.my /\ u.auto = s.auto /\ u.connected = s.connected /\ u.shown = s.shown /\ u.tr = s.tr
      /\ u.failed = s.failed /\ u.told = s.told /\ u.wait = s.wait \ here /\ u.retry = s.retry
      /\ u.cand = s.cand /\ u.flight = s.flight /\ u.pending = s.pending \ here /\ u.timer = s.timer
  BY <1>3, <1>5 DEF Browsers
<1>8. /\ Active(u) <=> Active(s)
      /\ \A m : (HasMine(u, m) <=> HasMine(s, m)) /\ (Eligible(u, m) <=> Eligible(s, m))
      /\ \A m : Eligible(s, m) => m \notin here
  BY <1>2, <1>7 DEF Active, HasMine, Eligible
<1>9. Sound(u, Messages) /\ Moves(u)
  BY <1>5, <1>7, <1>8 DEF Sound, Moves
<1>10. \A m \in Messages : Backed(u, m)
  BY <1>2, <1>5, <1>7, <1>8 DEF Backed, Seeks
<1> QED BY <1>4, <1>5, <1>6, <1>7, <1>9, <1>10, ScanSound DEF Frame

\* A live message waits.
LEMMA MessageSound ==
  ASSUME b \in Browsers, Sound(b, {}), Moves(b), NEW e, e.m \in Messages, NEW t \in OnMessage(e)
  PROVE  /\ t \in Browsers /\ Sound(t, {}) /\ Moves(t) /\ t.shown = b.shown \cup {e.m}
         /\ t.my = b.my /\ t.auto = b.auto /\ t.connected = b.connected /\ t.flight = b.flight
<1>1. PICK m \in Messages : m = e.m
  OBVIOUS
<1>2. PICK s : s = Merged(b, {m}, {})
  OBVIOUS
<1>3. /\ s \in Browsers /\ Sound(s, {m}) /\ Moves(s)
      /\ s.shown = b.shown \cup {m} /\ s.my = b.my /\ s.auto = b.auto /\ s.connected = b.connected /\ s.flight = b.flight
  <2>1. {m} \in SUBSET Messages
    OBVIOUS
  <2> QED BY <1>2, <2>1, MergedSound, Zenon
<1>4. t = IF Active(s) /\ Eligible(s, m) THEN [s EXCEPT !.wait = @ \cup {m}, !.pending = @ \cup {m}] ELSE s
  BY <1>1, <1>2 DEF OnMessage
<1>5. CASE ~(Active(s) /\ Eligible(s, m))
  <2>1. t = s
    BY <1>4, <1>5
  <2>2. ~(m \in s.pending /\ ~HasMine(s, m))
    BY <1>3, <1>5 DEF Sound, Eligible
  <2>3. Sound(s, {})
    BY <1>3, <1>5, <2>2 DEF Sound
  <2> QED BY <1>1, <1>3, <2>1, <2>3
<1>6. CASE Active(s) /\ Eligible(s, m)
  <2>1. t = [s EXCEPT !.wait = @ \cup {m}, !.pending = @ \cup {m}]
    BY <1>4, <1>6
  <2>2. t \in Browsers
    BY <1>3, <2>1 DEF Browsers
  <2>3. /\ t.my = s.my /\ t.auto = s.auto /\ t.connected = s.connected /\ t.shown = s.shown /\ t.tr = s.tr
        /\ t.failed = s.failed /\ t.told = s.told /\ t.wait = s.wait \cup {m} /\ t.retry = s.retry
        /\ t.cand = s.cand /\ t.flight = s.flight /\ t.pending = s.pending \cup {m} /\ t.timer = s.timer
    BY <1>3, <2>1 DEF Browsers
  <2>4. /\ Active(t) /\ m \in s.shown /\ s.my \notin ViewerSkips[m]
        /\ \A n : (HasMine(t, n) <=> HasMine(s, n)) /\ (Eligible(t, n) <=> Eligible(s, n))
    BY <1>6, <2>3 DEF Active, HasMine, Eligible
  <2>5. \A n \in Messages : n \in t.pending /\ ~HasMine(t, n) /\ n \notin t.failed => Seeks(t, n)
    BY <1>3, <2>3, <2>4 DEF Sound, Seeks
  <2>6. Sound(t, {}) /\ Moves(t)
    <3>1. \A n \in Messages : n \in t.pending \cup t.failed \cup Range(t.cand) \cup Range(t.flight)
                                => n \in t.shown /\ t.my \notin ViewerSkips[n]
      BY <1>3, <2>3, <2>4 DEF Sound
    <3>2. OnceEach(t.cand) /\ Range(t.cand) \cap Range(t.flight) = {} /\ Len(t.flight) <= BatchItems /\ Moves(t)
      BY <1>3, <2>3 DEF Sound, Moves
    <3>3. \A n \in Messages : n \in Range(t.cand) \cup Range(t.flight) /\ Eligible(t, n) => n \in t.pending \cup t.told
      BY <1>3, <2>3, <2>4 DEF Sound
    <3>4. \A n \in Messages : Eligible(t, n) => n \in t.pending \cup t.failed \cup t.told \/ Crowded(t.shown, t.my, n)
      BY <1>3, <1>6, <2>3, <2>4 DEF Sound
    <3>5. t.my = Unset => t.failed = {}
      BY <1>3, <2>3 DEF Sound
    <3> QED BY <2>4, <2>5, <3>1, <3>2, <3>3, <3>4, <3>5 DEF Sound
  <2> QED BY <1>1, <1>3, <2>2, <2>3, <2>6
<1> QED BY <1>5, <1>6

\* The candidates without one of them.
LEMMA CandWithout ==
  ASSUME NEW s \in Browsers, OnceEach(s.cand), NEW m
  PROVE  /\ Those(s.cand, Messages \ {m}) \in Seq(Messages) /\ OnceEach(Those(s.cand, Messages \ {m}))
         /\ Range(Those(s.cand, Messages \ {m})) = Range(s.cand) \ {m}
         /\ s.cand = <<>> => Those(s.cand, Messages \ {m}) = <<>>
<1>1. PICK list, rest : list = s.cand /\ rest = Messages \ {m}
  OBVIOUS
<1>2. list \in Seq(Messages) /\ OnceEach(list)
  BY <1>1 DEF Browsers
<1>3. PICK out : out = Those(list, rest)
  OBVIOUS
<1>4. /\ out \in Seq(Messages) /\ Len(out) \in 0..Len(list) /\ OnceEach(out)
      /\ Range(out) = Range(list) \cap rest
  BY <1>2, <1>3, ThoseMembers
<1>5. Range(list) \subseteq Messages
  BY <1>2, InRange
<1>6. Range(out) = Range(list) \ {m} /\ (list = <<>> => out = <<>>)
  BY <1>1, <1>4, <1>5
<1> QED BY <1>1, <1>3, <1>4, <1>6

\* The server's translation.
LEMMA PushedSound ==
  ASSUME b \in Browsers, Sound(b, {}), Moves(b), NEW e, e.m \in Messages, e.has \in SUBSET Langs, NEW t \in OnPushed(e)
  PROVE  /\ t \in Browsers /\ Sound(t, {}) /\ Moves(t) /\ t.shown = b.shown
         /\ t.my = b.my /\ t.auto = b.auto /\ t.connected = b.connected /\ t.flight = b.flight
<1>1. PICK m \in Messages : m = e.m
  OBVIOUS
<1>2. PICK tr : tr = [b.tr EXCEPT ![m] = @ \cup e.has]
  OBVIOUS
<1>3. PICK s : s = [b EXCEPT !.tr = tr]
  OBVIOUS
<1>4. /\ tr \in [Messages -> SUBSET Langs] /\ tr[m] = b.tr[m] \cup e.has
      /\ \A n \in Messages : b.tr[n] \subseteq tr[n] /\ (n # m => tr[n] = b.tr[n])
  BY <1>2 DEF Browsers
<1>5. s \in Browsers
  BY <1>3, <1>4 DEF Browsers
<1>6. /\ s.my = b.my /\ s.auto = b.auto /\ s.connected = b.connected /\ s.shown = b.shown /\ s.tr = tr
      /\ s.failed = b.failed /\ s.told = b.told /\ s.wait = b.wait /\ s.retry = b.retry
      /\ s.cand = b.cand /\ s.flight = b.flight /\ s.pending = b.pending /\ s.timer = b.timer
  BY <1>3 DEF Browsers
<1>7. /\ Active(s) <=> Active(b)
      /\ \A n \in Messages : (HasMine(b, n) => HasMine(s, n)) /\ (Eligible(s, n) => Eligible(b, n))
  BY <1>4, <1>6 DEF Active, HasMine, Eligible
<1>8. Sound(s, {}) /\ Moves(s)
  BY <1>6, <1>7 DEF Sound, Moves, Seeks
<1>9. s = [b EXCEPT !.tr[m] = @ \cup e.has]
  BY <1>2, <1>3 DEF Browsers
<1>10. CASE s.my = Unset
  <2>1. t = s
    BY <1>1, <1>9, <1>10 DEF OnPushed
  <2> QED BY <1>5, <1>6, <1>8, <2>1
<1>11. CASE s.my # Unset /\ s.my \in e.has
  <2>1. PICK tries : tries = [s.tries EXCEPT ![m] = 0]
    OBVIOUS
  <2>2. PICK cand : cand = Those(s.cand, Messages \ {m})
    OBVIOUS
  <2>3. PICK u : u = [s EXCEPT !.wait = @ \ {m}, !.retry = @ \ {m}, !.tries = tries, !.pending = @ \ {m}, !.cand = cand]
    OBVIOUS
  <2>4. t = u
    <3>1. t = [s EXCEPT !.wait = @ \ {m}, !.retry = @ \ {m}, !.tries[m] = 0, !.pending = @ \ {m},
                        !.cand = Those(@, Messages \ {m})]
      BY <1>1, <1>9, <1>11 DEF OnPushed
    <3> QED BY <2>1, <2>2, <2>3, <3>1, <1>5 DEF Browsers
  <2>5. /\ cand \in Seq(Messages) /\ OnceEach(cand) /\ Range(cand) = Range(s.cand) \ {m}
        /\ s.cand = <<>> => cand = <<>>
    BY <1>5, <1>8, <2>2, CandWithout DEF Sound
  <2>6. tries \in [Messages -> 0..Retries]
    BY <1>5, <2>1, SyncAssumption DEF Browsers
  <2>7. u \in Browsers
    BY <1>5, <2>3, <2>5, <2>6 DEF Browsers
  <2>8. /\ u.my = s.my /\ u.auto = s.auto /\ u.connected = s.connected /\ u.shown = s.shown /\ u.tr = s.tr
        /\ u.failed = s.failed /\ u.told = s.told /\ u.wait = s.wait \ {m} /\ u.retry = s.retry \ {m}
        /\ u.cand = cand /\ u.flight = s.flight /\ u.pending = s.pending \ {m} /\ u.timer = s.timer
    BY <1>5, <2>3 DEF Browsers
  <2>9. /\ HasMine(u, m) /\ (Active(u) <=> Active(s))
        /\ \A n : (HasMine(u, n) <=> HasMine(s, n)) /\ (Eligible(u, n) <=> Eligible(s, n))
    BY <1>4, <1>6, <1>11, <2>8 DEF Active, HasMine, Eligible
  <2>10. Sound(u, {})
    <3>1. \A n \in Messages : n \in u.pending /\ ~HasMine(u, n) /\ n \notin u.failed => Seeks(u, n)
      BY <1>8, <2>5, <2>8, <2>9 DEF Sound, Seeks
    <3>2. \A n \in Messages : Eligible(u, n) => n # m
      BY <2>9 DEF Eligible
    <3>3. \A n \in Messages : n \in u.pending \cup u.failed \cup Range(u.cand) \cup Range(u.flight)
                                => n \in u.shown /\ u.my \notin ViewerSkips[n]
      BY <1>8, <2>5, <2>8 DEF Sound
    <3>4. OnceEach(u.cand) /\ Range(u.cand) \cap Range(u.flight) = {} /\ Len(u.flight) <= BatchItems
      BY <1>8, <2>5, <2>8 DEF Sound
    <3>5. \A n \in Messages : n \in Range(u.cand) \cup Range(u.flight) /\ Eligible(u, n) => n \in u.pending \cup u.told
      BY <1>8, <2>5, <2>8, <2>9, <3>2 DEF Sound
    <3>6. Active(u) => \A n \in Messages : Eligible(u, n) => n \in u.pending \cup u.failed \cup u.told \/ Crowded(u.shown, u.my, n)
      BY <1>8, <2>8, <2>9, <3>2 DEF Sound
    <3>7. ~Active(u) => u.pending = {} /\ u.cand = <<>> /\ u.flight = <<>>
      BY <1>8, <2>5, <2>8, <2>9 DEF Sound
    <3> QED BY <1>11, <2>8, <3>1, <3>3, <3>4, <3>5, <3>6, <3>7 DEF Sound
  <2> QED BY <1>6, <1>8, <2>4, <2>5, <2>7, <2>8, <2>10 DEF Moves
<1>12. CASE s.my # Unset /\ s.my \notin e.has /\ (s.my \in e.failed \/ (e.has = {} /\ e.failed = {}))
  <2>1. PICK retry \in SUBSET Messages : retry = IF s.my \in e.failed /\ s.auto THEN s.retry \cup {m} ELSE s.retry
    BY <1>5 DEF Browsers
  <2>2. PICK none \in BOOLEAN : none = (s.my \notin e.failed /\ e.has = {} /\ e.failed = {})
    OBVIOUS
  <2>3. PICK lost : lost = IF none THEN {m} ELSE {}
    OBVIOUS
  <2>4. PICK done : done = IF s.my \in e.failed \/ none THEN {m} ELSE {}
    OBVIOUS
  <2>5. PICK u : u = [s EXCEPT !.wait = @ \ done, !.retry = retry, !.pending = @ \ lost, !.told = @ \cup lost]
    OBVIOUS
  <2>6. t = u
    <3>1. t = IF s.my \in e.failed
               THEN [s EXCEPT !.wait = @ \ {m}, !.retry = IF s.auto THEN @ \cup {m} ELSE @]
              ELSE IF e.has = {} /\ e.failed = {}
               THEN [s EXCEPT !.wait = @ \ {m}, !.pending = @ \ {m}, !.told = @ \cup {m}]
              ELSE s
      BY <1>1, <1>9, <1>12 DEF OnPushed
    <3>2. CASE s.my \in e.failed
      BY <1>5, <2>1, <2>2, <2>3, <2>4, <2>5, <3>1, <3>2 DEF Browsers
    <3>3. CASE ~(s.my \in e.failed) /\ none
      BY <1>5, <2>1, <2>2, <2>3, <2>4, <2>5, <3>1, <3>3 DEF Browsers
    <3> QED BY <1>12, <2>2, <3>2, <3>3
  <2>7. lost \subseteq {m} /\ done \subseteq {m} /\ (m \in done => m \in lost \/ m \in retry \/ ~s.auto) /\ s.retry \subseteq retry
    BY <2>1, <2>2, <2>3, <2>4
  <2>8. u \in Browsers
    BY <1>5, <2>5, <2>7 DEF Browsers
  <2>9. /\ u.my = s.my /\ u.auto = s.auto /\ u.connected = s.connected /\ u.shown = s.shown /\ u.tr = s.tr
        /\ u.failed = s.failed /\ u.told = s.told \cup lost /\ u.wait = s.wait \ done /\ u.retry = retry
        /\ u.cand = s.cand /\ u.flight = s.flight /\ u.pending = s.pending \ lost /\ u.timer = s.timer
    BY <1>5, <2>5 DEF Browsers
  <2>10. /\ Active(u) <=> Active(s)
         /\ \A n : (HasMine(u, n) <=> HasMine(s, n)) /\ (Eligible(u, n) <=> Eligible(s, n))
    BY <2>9 DEF Active, HasMine, Eligible
  <2>11. \A n \in Messages : n \in u.pending /\ ~HasMine(u, n) /\ n \notin u.failed => Seeks(u, n)
    <3> SUFFICES ASSUME NEW n \in Messages, n \in u.pending, ~HasMine(u, n), n \notin u.failed PROVE Seeks(u, n)
      OBVIOUS
    <3>1. Seeks(s, n) /\ Active(s) /\ n \notin lost
      BY <1>8, <2>9, <2>10 DEF Sound
    <3>2. n \in done => n \in retry
      BY <2>7, <3>1 DEF Active
    <3> QED BY <2>7, <2>9, <3>1, <3>2 DEF Seeks
  <2>12. \A n \in Messages : n \in u.pending \cup u.failed \cup Range(u.cand) \cup Range(u.flight)
                               => n \in u.shown /\ u.my \notin ViewerSkips[n]
    BY <1>8, <2>9 DEF Sound
  <2>13. OnceEach(u.cand) /\ Range(u.cand) \cap Range(u.flight) = {} /\ Len(u.flight) <= BatchItems /\ Moves(u)
    BY <1>8, <2>9 DEF Sound, Moves
  <2>14. \A n \in Messages : n \in Range(u.cand) \cup Range(u.flight) /\ Eligible(u, n) => n \in u.pending \cup u.told
    BY <1>8, <2>9, <2>10 DEF Sound
  <2>15. Active(u) => \A n \in Messages : Eligible(u, n) => n \in u.pending \cup u.failed \cup u.told \/ Crowded(u.shown, u.my, n)
    BY <1>8, <2>9, <2>10 DEF Sound
  <2>16. ~Active(u) => u.pending = {} /\ u.cand = <<>> /\ u.flight = <<>>
    BY <1>8, <2>9, <2>10 DEF Sound
  <2>17. Sound(u, {})
    BY <1>12, <2>9, <2>11, <2>12, <2>13, <2>14, <2>15, <2>16 DEF Sound
  <2> QED BY <1>6, <2>6, <2>8, <2>9, <2>13, <2>17
<1>13. CASE s.my # Unset /\ s.my \notin e.has /\ s.my \notin e.failed /\ ~(e.has = {} /\ e.failed = {})
  <2>1. t = IF s.my \in e.failed
             THEN [s EXCEPT !.wait = @ \ {m}, !.retry = IF s.auto THEN @ \cup {m} ELSE @]
            ELSE IF e.has = {} /\ e.failed = {}
             THEN [s EXCEPT !.wait = @ \ {m}, !.pending = @ \ {m}, !.told = @ \cup {m}]
            ELSE s
    BY <1>1, <1>9, <1>13 DEF OnPushed
  <2>2. t = s
    BY <1>13, <2>1
  <2> QED BY <1>5, <1>6, <1>8, <2>2
<1> QED BY <1>10, <1>11, <1>12, <1>13

\* What was in flight and did not come back is tried once more, or has failed.
LEMMA RetriesSound ==
  ASSUME NEW s \in Browsers, Sound(s, {}), s.flight # <<>>, NEW ids \in SUBSET Range(s.flight),
         \A m \in Range(s.flight) \ ids : HasMine(s, m) \/ m \notin s.pending,
         NEW t \in ScheduleBatch([ScheduleRetries(s, ids) EXCEPT !.flight = <<>>], FALSE)
  PROVE  /\ t \in Browsers /\ Sound(t, {}) /\ Moves(t) /\ t.shown = s.shown
         /\ t.my = s.my /\ t.auto = s.auto /\ t.connected = s.connected
<1>1. PICK final : final = {m \in ids : s.tries[m] >= Retries}
  OBVIOUS
<1>2. PICK tries : tries = [m \in Messages |-> IF m \in final THEN 0 ELSE IF m \in ids THEN s.tries[m] + 1 ELSE s.tries[m]]
  OBVIOUS
<1>3. PICK u : u = [s EXCEPT !.tries = tries, !.retry = @ \cup (ids \ final),
                             !.failed = @ \cup final, !.pending = @ \ final, !.flight = <<>>]
  OBVIOUS
<1>4. [ScheduleRetries(s, ids) EXCEPT !.flight = <<>>] = u
  BY <1>1, <1>2, <1>3 DEF ScheduleRetries, Browsers
<1>5. ids \subseteq Messages /\ final \subseteq ids /\ Range(s.flight) \subseteq Messages
  BY <1>1, InRange DEF Browsers
<1>6. tries \in [Messages -> 0..Retries]
  <2>1. Retries \in Nat /\ \A m \in Messages : s.tries[m] \in 0..Retries
    BY SyncAssumption DEF Browsers
  <2>2. \A m \in ids \ final : s.tries[m] + 1 \in 0..Retries
    BY <1>1, <1>5, <2>1
  <2> QED BY <1>2, <2>1, <2>2
<1>7. u \in Browsers
  <2>1. /\ s.retry \cup (ids \ final) \in SUBSET Messages /\ s.failed \cup final \in SUBSET Messages
        /\ s.pending \ final \in SUBSET Messages /\ <<>> \in Seq(Messages)
    BY <1>5 DEF Browsers
  <2> QED BY <1>3, <1>6, <2>1 DEF Browsers
<1>8. /\ u.my = s.my /\ u.auto = s.auto /\ u.connected = s.connected /\ u.shown = s.shown /\ u.tr = s.tr
      /\ u.failed = s.failed \cup final /\ u.told = s.told /\ u.wait = s.wait /\ u.retry = s.retry \cup (ids \ final)
      /\ u.cand = s.cand /\ u.flight = <<>> /\ u.pending = s.pending \ final /\ u.timer = s.timer
  BY <1>3 DEF Browsers
<1>9. /\ Active(s) /\ Active(u) /\ \A n : (HasMine(u, n) <=> HasMine(s, n)) /\ (Eligible(u, n) <=> Eligible(s, n))
  <2>1. Active(s)
    BY DEF Sound
  <2> QED BY <1>8, <2>1 DEF Active, HasMine, Eligible
<1>10. Range(u.flight) = {} /\ Len(u.flight) <= BatchItems
  BY <1>8, SyncAssumption DEF Range
<1>11. \A m \in Messages : m \in u.pending \cup u.failed \cup Range(u.cand) \cup Range(u.flight)
                             => m \in u.shown /\ u.my \notin ViewerSkips[m]
  BY <1>5, <1>8, <1>10 DEF Sound
<1>12. \A m \in Messages : m \in u.pending /\ ~HasMine(u, m) /\ m \notin u.failed => Seeks(u, m)
  <2> SUFFICES ASSUME NEW m \in Messages, m \in u.pending, ~HasMine(u, m), m \notin u.failed PROVE Seeks(u, m)
    OBVIOUS
  <2>1. Seeks(s, m) /\ m \notin final
    BY <1>8, <1>9 DEF Sound
  <2>2. m \in Range(s.flight) => m \in ids
    BY <1>8, <1>9
  <2> QED BY <1>8, <2>1, <2>2 DEF Seeks
<1>13. \A m \in Messages : m \in Range(u.cand) \cup Range(u.flight) /\ Eligible(u, m) => m \in u.pending \cup u.told
  <2> SUFFICES ASSUME NEW m \in Messages, m \in Range(s.cand), Eligible(s, m) PROVE m \in u.pending \cup u.told
    BY <1>8, <1>9, <1>10
  <2>1. m \notin final
    BY <1>5 DEF Sound
  <2> QED BY <1>8, <2>1 DEF Sound
<1>14. \A m \in Messages : Eligible(u, m) => m \in u.pending \cup u.failed \cup u.told \/ Crowded(u.shown, u.my, m)
  BY <1>8, <1>9 DEF Sound
<1>15. OnceEach(u.cand) /\ Range(u.cand) \cap Range(u.flight) = {} /\ u.my # Unset
  BY <1>8, <1>9, <1>10 DEF Sound, Active
<1>16. Sound(u, {})
  BY <1>9, <1>10, <1>11, <1>12, <1>13, <1>14, <1>15 DEF Sound
<1>17. t \in ScheduleBatch(u, FALSE)
  BY <1>4
<1>18. t \in Browsers /\ Sound(t, {}) /\ Moves(t) /\ Frame(u, t)
  BY <1>7, <1>16, <1>17, ScheduleBatchSound
<1> QED BY <1>8, <1>18 DEF Frame

\* The answer to a batch: what has its translation, and what is done without.
LEMMA SettledSound ==
  ASSUME b \in Browsers, Sound(b, {}), b.flight # <<>>, answer.failed \in SUBSET Range(b.flight), NEW t \in Settled
  PROVE  /\ t \in Browsers /\ Sound(t, {}) /\ Moves(t) /\ t.shown = b.shown
         /\ t.my = b.my /\ t.auto = b.auto /\ t.connected = b.connected
<1>0. PICK got, ids : got = answer.translated /\ ids = answer.failed
  OBVIOUS
<1>13. PICK done : done = Range(b.flight) \ ids
  OBVIOUS
<1>1. PICK tr : tr = [m \in Messages |-> b.tr[m] \cup (IF m \in got THEN {b.my} ELSE {})]
  OBVIOUS
<1>2. PICK tries : tries = [m \in Messages |-> IF m \in done THEN 0 ELSE b.tries[m]]
  OBVIOUS
<1>3. PICK s : s = [b EXCEPT !.tr = tr, !.tries = tries, !.pending = @ \ done, !.told = @ \cup (done \ got)]
  OBVIOUS
<1>4. Settle(b, got, ids) = ScheduleRetries(s, ids)
  <2>1. s = [b EXCEPT !.tr = [m \in Messages |-> @[m] \cup (IF m \in got THEN {b.my} ELSE {})],
                      !.tries = [m \in Messages |-> IF m \in done THEN 0 ELSE @[m]],
                      !.pending = @ \ done, !.told = @ \cup (done \ got)]
    BY <1>1, <1>2, <1>3
  <2> QED BY <1>13, <2>1, Zenon DEF Settle
<1>5. t \in ScheduleBatch([ScheduleRetries(s, ids) EXCEPT !.flight = <<>>], FALSE)
  BY <1>0, <1>4 DEF Settled
<1>6. Active(b) /\ b.my \in Langs
  BY DEF Sound, Active, Browsers
<1>7. /\ tr \in [Messages -> SUBSET Langs] /\ tries \in [Messages -> 0..Retries]
      /\ \A m \in Messages : b.tr[m] \subseteq tr[m] /\ (m \in got => b.my \in tr[m])
  BY <1>1, <1>2, <1>6, SyncAssumption DEF Browsers
<1>14. Range(b.flight) \subseteq Messages /\ done \subseteq Messages
  BY <1>13, InRange DEF Browsers
<1>15. b.told \cup (done \ got) \in SUBSET Messages /\ b.pending \ done \in SUBSET Messages
  BY <1>14 DEF Browsers
<1>8. s \in Browsers
  BY <1>3, <1>7, <1>15 DEF Browsers
<1>9. /\ s.my = b.my /\ s.auto = b.auto /\ s.connected = b.connected /\ s.shown = b.shown /\ s.tr = tr
      /\ s.failed = b.failed /\ s.told = b.told \cup (done \ got) /\ s.wait = b.wait /\ s.retry = b.retry
      /\ s.cand = b.cand /\ s.flight = b.flight /\ s.pending = b.pending \ done /\ s.timer = b.timer
  BY <1>3 DEF Browsers
<1>10. /\ Active(s)
       /\ \A m \in Messages : /\ HasMine(b, m) => HasMine(s, m)
                              /\ Eligible(s, m) => Eligible(b, m) /\ m \notin got
  BY <1>6, <1>7, <1>9 DEF Active, HasMine, Eligible
<1>16. \A m \in Messages : m \in b.pending \cup b.told /\ Eligible(s, m) => m \in s.pending \cup s.told
  BY <1>9, <1>10
<1>11. Sound(s, {})
  <2>1. \A m \in Messages : m \in s.pending /\ ~HasMine(s, m) /\ m \notin s.failed => Seeks(s, m)
    BY <1>9, <1>10 DEF Sound, Seeks
  <2>2. \A m \in Messages : m \in s.pending \cup s.failed \cup Range(s.cand) \cup Range(s.flight)
                              => m \in s.shown /\ s.my \notin ViewerSkips[m]
    BY <1>9 DEF Sound
  <2>3. \A m \in Messages : m \in Range(s.cand) \cup Range(s.flight) /\ Eligible(s, m) => m \in s.pending \cup s.told
    BY <1>9, <1>10, <1>16 DEF Sound
  <2>4. \A m \in Messages : Eligible(s, m) => m \in s.pending \cup s.failed \cup s.told \/ Crowded(s.shown, s.my, m)
    BY <1>6, <1>9, <1>10, <1>16 DEF Sound
  <2>5. OnceEach(s.cand) /\ Range(s.cand) \cap Range(s.flight) = {} /\ Len(s.flight) <= BatchItems /\ s.my # Unset
    BY <1>6, <1>9 DEF Sound, Active
  <2> QED BY <1>10, <2>1, <2>2, <2>3, <2>4, <2>5 DEF Sound
<1>12. /\ ids \in SUBSET Range(s.flight) /\ s.flight # <<>>
       /\ \A m \in Range(s.flight) \ ids : HasMine(s, m) \/ m \notin s.pending
  BY <1>0, <1>9, <1>13
<1>17. /\ t \in Browsers /\ Sound(t, {}) /\ Moves(t) /\ t.shown = s.shown
       /\ t.my = s.my /\ t.auto = s.auto /\ t.connected = s.connected
  BY <1>5, <1>8, <1>11, <1>12, RetriesSound
<1> QED BY <1>9, <1>17

LEMMA FailedSound ==
  ASSUME b \in Browsers, Sound(b, {}), b.flight # <<>>, NEW t \in Failed
  PROVE  /\ t \in Browsers /\ Sound(t, {}) /\ Moves(t) /\ t.shown = b.shown
         /\ t.my = b.my /\ t.auto = b.auto /\ t.connected = b.connected
<1>1. PICK ids : ids = Range(b.flight)
  OBVIOUS
<1>2. t \in ScheduleBatch([ScheduleRetries(b, ids) EXCEPT !.flight = <<>>], FALSE)
  BY <1>1 DEF Failed
<1> QED BY <1>1, <1>2, RetriesSound

-----------------------------------------------------------------------------
(* The steps of the browser.                                                *)

BatchAnswers(flight) ==
  {a \in [translated : SUBSET Range(flight), failed : SUBSET Range(flight)] : a.translated \cap a.failed = {}}
Answering == answer # Unset => b.flight # <<>> /\ answer \in BatchAnswers(b.flight)
BrowserInv == b \in Browsers /\ Sound(b, {}) /\ Moves(b) /\ Answering
Same(s, t) == t.my = s.my /\ t.auto = s.auto /\ t.connected = s.connected

\* A message that is taken from where it waited, or whose failure is forgotten, is looked
\* at again.
LEMMA AgainSound ==
  ASSUME b \in Browsers, Sound(b, {}), Moves(b), NEW m \in Messages, NEW u \in Browsers, Same(b, u),
         u.shown = b.shown, u.tr = b.tr, u.told = b.told, u.cand = b.cand, u.flight = b.flight,
         u.pending = b.pending, u.timer = b.timer, b.wait \ {m} \subseteq u.wait, b.retry \ {m} \subseteq u.retry,
         b.failed \ {m} \subseteq u.failed, u.failed \subseteq b.failed
  PROVE  Sound(u, {m}) /\ Moves(u)
<1>1. /\ Active(u) <=> Active(b)
      /\ \A n : (HasMine(u, n) <=> HasMine(b, n)) /\ (Eligible(u, n) <=> Eligible(b, n))
  BY DEF Same, Active, HasMine, Eligible
<1>2. \A n \in Messages \ {m} : n \in u.pending /\ ~HasMine(u, n) /\ n \notin u.failed => Seeks(u, n)
  <2> SUFFICES ASSUME NEW n \in Messages \ {m}, n \in u.pending, ~HasMine(u, n), n \notin u.failed PROVE Seeks(u, n)
    OBVIOUS
  <2>1. Seeks(b, n)
    BY <1>1 DEF Sound
  <2> QED BY <2>1 DEF Seeks
<1>3. \A n \in Messages : n \in u.pending \cup u.failed \cup Range(u.cand) \cup Range(u.flight)
                            => n \in u.shown /\ u.my \notin ViewerSkips[n]
  BY DEF Sound, Same
<1>4. OnceEach(u.cand) /\ Range(u.cand) \cap Range(u.flight) = {} /\ Len(u.flight) <= BatchItems
  BY DEF Sound
<1>5. \A n \in Messages : n \in Range(u.cand) \cup Range(u.flight) /\ Eligible(u, n) => n \in u.pending \cup u.told
  BY <1>1 DEF Sound
<1>6. Active(u) => \A n \in Messages \ {m} : Eligible(u, n) => n \in u.pending \cup u.failed \cup u.told \/ Crowded(u.shown, u.my, n)
  BY <1>1 DEF Sound, Same
<1>7. ~Active(u) => u.pending = {} /\ u.cand = <<>> /\ u.flight = <<>>
  BY <1>1 DEF Sound
<1>8. u.my = Unset => u.failed = {}
  BY DEF Sound, Same
<1>9. Sound(u, {m})
  BY <1>2, <1>3, <1>4, <1>5, <1>6, <1>7, <1>8 DEF Sound
<1> QED BY <1>9 DEF Moves

\* A browser that starts over looks at everything.
LEMMA ResetSound ==
  ASSUME NEW u \in Browsers, u.cand = <<>>, u.flight = <<>>, u.pending = {},
         \A m \in u.failed : m \in u.shown /\ u.my \notin ViewerSkips[m], u.my = Unset => u.failed = {}
  PROVE  Sound(u, Messages) /\ Moves(u) /\ \A m \in Messages : Backed(u, m)
<1>1. Range(<<>>) = {} /\ Len(<<>>) <= BatchItems /\ OnceEach(<<>>)
  BY SyncAssumption DEF Range, OnceEach
<1>2. \A m \in Messages : m \in u.pending \cup u.failed \cup Range(u.cand) \cup Range(u.flight) => m \in u.failed
  BY <1>1
<1>3. \A m \in Messages : m \notin Range(u.cand) \cup Range(u.flight)
  BY <1>1
<1> QED BY <1>1, <1>2, <1>3 DEF Sound, Moves, Backed

\* The steps that look at one message again.
LEMMA WaitEndsStep ==
  ASSUME BrowserInv, NEW m \in Messages, WaitEnds(m) \/ RetryEnds(m) \/ Retry(m)
  PROVE  BrowserInv' /\ Same(b, b') /\ b'.shown = b.shown
<1> DEFINE w == [b EXCEPT !.wait = @ \ {m}]
           r == [b EXCEPT !.retry = @ \ {m}]
           f == [b EXCEPT !.failed = @ \ {m}, !.tries[m] = 0, !.retry = @ \ {m}]
<1>1. PICK u \in {w, r, f} : b' \in Enqueue(u, {m}, FALSE)
  BY DEF WaitEnds, RetryEnds, Retry
<1>2. [b.tries EXCEPT ![m] = 0] \in [Messages -> 0..Retries] /\ b \in Browsers
  BY SyncAssumption DEF Browsers, BrowserInv
<1>3. /\ u \in Browsers /\ Same(b, u)
      /\ u.shown = b.shown /\ u.tr = b.tr /\ u.told = b.told /\ u.cand = b.cand /\ u.flight = b.flight
      /\ u.pending = b.pending /\ u.timer = b.timer /\ b.wait \ {m} \subseteq u.wait /\ b.retry \ {m} \subseteq u.retry
      /\ b.failed \ {m} \subseteq u.failed /\ u.failed \subseteq b.failed
  <2>1. CASE u = w
    BY <1>2, <2>1 DEF Browsers, Same
  <2>2. CASE u = r
    BY <1>2, <2>2 DEF Browsers, Same
  <2>3. CASE u = f
    <3>1. PICK tries : tries = [b.tries EXCEPT ![m] = 0]
      OBVIOUS
    <3>2. u = [b EXCEPT !.failed = @ \ {m}, !.tries = tries, !.retry = @ \ {m}]
      BY <1>2, <2>3, <3>1 DEF Browsers
    <3> QED BY <1>2, <3>1, <3>2 DEF Browsers, Same
  <2> QED BY <1>1, <2>1, <2>2, <2>3
<1> HIDE DEF w, r, f
<1>4. Sound(u, {m}) /\ Moves(u)
  BY <1>3, AgainSound DEF BrowserInv
<1>5. b' \in Browsers /\ Sound(b', {}) /\ Moves(b') /\ Frame(u, b')
  <2>1. \A t \in Enqueue(u, {m}, FALSE) : t \in Browsers /\ Sound(t, {}) /\ Moves(t) /\ Frame(u, t)
    BY <1>3, <1>4, EnqueueSound
  <2> QED BY <1>1, <2>1
<1>6. answer' = answer
  BY DEF WaitEnds, RetryEnds, Retry
<1>7. Same(b, b') /\ b'.shown = b.shown /\ (b.flight # <<>> => b'.flight = b.flight)
  BY <1>3, <1>5 DEF Frame, Same
<1>8. Answering'
  BY <1>6, <1>7 DEF Answering, BrowserInv
<1> QED BY <1>5, <1>7, <1>8 DEF BrowserInv

LEMMA ScrolledStep ==
  ASSUME BrowserInv, Scrolled \/ BatchTimerEnds
  PROVE  BrowserInv' /\ Same(b, b') /\ b'.shown = b.shown
<1>1. answer' = answer
  BY DEF Scrolled, BatchTimerEnds
<1>2. b' \in Browsers /\ Sound(b', {}) /\ Moves(b') /\ Frame(b, b')
  <2>1. CASE Scrolled
    <3>1. PICK seen \in SUBSET b.shown : b' \in Enqueue(b, seen \ (b.wait \cup b.retry), FALSE)
      BY <2>1 DEF Scrolled
    <3>2. PICK ids : ids = seen \ (b.wait \cup b.retry)
      OBVIOUS
    <3>3. ids \in SUBSET Messages
      BY <3>2 DEF BrowserInv, Browsers
    <3>4. Sound(b, ids)
      BY DEF Sound, BrowserInv
    <3>5. \A t \in Enqueue(b, ids, FALSE) : t \in Browsers /\ Sound(t, {}) /\ Moves(t) /\ Frame(b, t)
      BY <3>3, <3>4, EnqueueSound DEF BrowserInv
    <3> QED BY <3>1, <3>2, <3>5
  <2>2. CASE BatchTimerEnds
    <3>1. PICK u : u = [b EXCEPT !.timer = FALSE]
      OBVIOUS
    <3>2. b' = RunBatch(u)
      BY <2>2, <3>1 DEF BatchTimerEnds
    <3>3. u \in Browsers
      BY <3>1 DEF BrowserInv, Browsers
    <3>4. /\ u.my = b.my /\ u.auto = b.auto /\ u.connected = b.connected /\ u.shown = b.shown /\ u.tr = b.tr
          /\ u.failed = b.failed /\ u.told = b.told /\ u.wait = b.wait /\ u.retry = b.retry
          /\ u.cand = b.cand /\ u.flight = b.flight /\ u.pending = b.pending
      BY <3>1 DEF BrowserInv, Browsers
    <3>5. Sound(u, {}) /\ Frame(b, u)
      BY <3>4 DEF Sound, Frame, Active, HasMine, Eligible, Seeks, BrowserInv
    <3>6. /\ RunBatch(u) \in Browsers /\ Sound(RunBatch(u), {}) /\ Frame(u, RunBatch(u))
          /\ RunBatch(u).cand # <<>> => RunBatch(u).flight # <<>>
      BY <3>3, <3>5, RunBatchSound
    <3> QED BY <3>2, <3>4, <3>6 DEF Moves, Frame
  <2> QED BY <2>1, <2>2
<1>3. Same(b, b') /\ b'.shown = b.shown /\ (b.flight # <<>> => b'.flight = b.flight)
  BY <1>2 DEF Frame, Same
<1>4. Answering'
  BY <1>1, <1>3 DEF Answering, BrowserInv
<1> QED BY <1>2, <1>3, <1>4 DEF BrowserInv

LEMMA AnsweredStep ==
  ASSUME BrowserInv, Answered
  PROVE  BrowserInv' /\ Same(b, b') /\ b'.shown = b.shown
<1>1. b.flight # <<>> /\ answer' = Unset
  BY DEF Answered
<1>2. \A t \in Failed : /\ t \in Browsers /\ Sound(t, {}) /\ Moves(t) /\ t.shown = b.shown /\ Same(b, t)
  BY <1>1, FailedSound DEF BrowserInv, Same
<1>3. answer # Unset => \A t \in Settled : /\ t \in Browsers /\ Sound(t, {}) /\ Moves(t) /\ t.shown = b.shown /\ Same(b, t)
  BY <1>1, SettledSound DEF BrowserInv, Same, Answering, BatchAnswers
<1>4. b' \in Browsers /\ Sound(b', {}) /\ Moves(b') /\ b'.shown = b.shown /\ Same(b, b')
  BY <1>2, <1>3 DEF Answered
<1>5. Answering'
  BY <1>1 DEF Answering
<1> QED BY <1>4, <1>5 DEF BrowserInv

Events ==
  [event : {"chat:message"}, m : Messages]
  \cup [event : {"chat:translation"}, m : Messages, has : SUBSET Langs, failed : SUBSET Langs]
  \cup [event : {"chat:history"}, read : SUBSET Messages, has : SUBSET (Messages \X Langs)]
  \cup [event : {"chat:system"}]

LEMMA EventFields ==
  ASSUME NEW e \in Events
  PROVE  /\ e.event \in {"chat:message", "chat:translation", "chat:history", "chat:system"}
         /\ e.event = "chat:message" => e.m \in Messages
         /\ e.event = "chat:translation" => e.m \in Messages /\ e.has \in SUBSET Langs
         /\ e.event = "chat:history" => e.read \in SUBSET Messages
BY DEF Events

\* What arrives is shown or taken note of.
LEMMA ReceiveStep ==
  ASSUME BrowserInv, inbox \in Seq(Events), Receive
  PROVE  /\ BrowserInv' /\ Same(b, b') /\ b.shown \subseteq b'.shown
         /\ inbox[1].event = "chat:message" => inbox[1].m \in b'.shown
         /\ inbox[1].event = "chat:history" => inbox[1].read \subseteq b'.shown
<1>1. PICK e \in Events : e = inbox[1] /\ e = Head(inbox)
  BY DEF Receive
<1>2. /\ e.event \in {"chat:message", "chat:translation", "chat:history", "chat:system"}
      /\ e.event = "chat:message" => e.m \in Messages
      /\ e.event = "chat:translation" => e.m \in Messages /\ e.has \in SUBSET Langs
      /\ e.event = "chat:history" => e.read \in SUBSET Messages
  BY EventFields
<1>3. answer' = answer
  BY DEF Receive
<1>4. /\ b' \in Browsers /\ Sound(b', {}) /\ Moves(b') /\ Same(b, b') /\ (b.flight # <<>> => b'.flight = b.flight)
      /\ b.shown \subseteq b'.shown
      /\ e.event = "chat:message" => e.m \in b'.shown
      /\ e.event = "chat:history" => e.read \subseteq b'.shown
  <2>1. CASE e.event = "chat:message" /\ b' \in OnMessage(e)
    <3>1. \A t \in OnMessage(e) : /\ t \in Browsers /\ Sound(t, {}) /\ Moves(t) /\ t.shown = b.shown \cup {e.m}
                                  /\ t.my = b.my /\ t.auto = b.auto /\ t.connected = b.connected /\ t.flight = b.flight
      BY <1>2, <2>1, MessageSound DEF BrowserInv
    <3> QED BY <2>1, <3>1 DEF Same
  <2>2. CASE e.event = "chat:translation" /\ b' \in OnPushed(e)
    <3>1. \A t \in OnPushed(e) : /\ t \in Browsers /\ Sound(t, {}) /\ Moves(t) /\ t.shown = b.shown
                                 /\ t.my = b.my /\ t.auto = b.auto /\ t.connected = b.connected /\ t.flight = b.flight
      BY <1>2, <2>2, PushedSound DEF BrowserInv
    <3> QED BY <2>2, <3>1 DEF Same
  <2>3. CASE e.event = "chat:history" /\ b' \in OnHistory(e)
    <3>1. \A t \in OnHistory(e) : /\ t \in Browsers /\ Sound(t, {}) /\ Moves(t) /\ t.shown = b.shown \cup e.read
                                  /\ t.my = b.my /\ t.auto = b.auto /\ t.connected = b.connected
                                  /\ b.flight # <<>> => t.flight = b.flight
      BY <1>2, <2>3, HistorySound DEF BrowserInv
    <3> QED BY <2>3, <3>1 DEF Same
  <2>4. CASE e.event = "chat:system" /\ b' = b
    BY <2>4 DEF BrowserInv, Same
  <2> QED BY <1>1, <2>1, <2>2, <2>3, <2>4 DEF Receive
<1>5. Answering'
  BY <1>3, <1>4 DEF Answering, BrowserInv
<1> QED BY <1>1, <1>4, <1>5 DEF BrowserInv

Told == IF reports # <<>> THEN reports[Len(reports)] ELSE IF entry # Unset THEN entry ELSE early
FollowsInv ==
  /\ b.connected => b.my = setting.lang /\ b.auto = setting.on
  /\ b.my \in {Unset, setting.lang}
  /\ link.stage # "off" => b.connected /\ Told = Reported(setting.lang, setting.on)

Settings == [lang : Langs, on : BOOLEAN]

\* The browser connects.
LEMMA ConnectStep ==
  ASSUME BrowserInv, b.my \in {Unset, setting.lang}, setting \in Settings, Connect
  PROVE  /\ BrowserInv' /\ b'.shown = b.shown
         /\ b'.my = setting.lang /\ b'.auto = setting.on /\ b'.connected
<1>0. PICK tries, lang, on : tries = [m \in Messages |-> 0] /\ lang = setting.lang /\ on = setting.on
  OBVIOUS
<1>1. PICK u : u = [b EXCEPT !.wait = {}, !.retry = {}, !.tries = tries, !.cand = <<>>, !.timer = FALSE,
                             !.flight = <<>>, !.told = {}, !.my = lang, !.auto = on,
                             !.connected = TRUE, !.pending = {}]
  OBVIOUS
<1>2. [ResetWork(b) EXCEPT !.my = setting.lang, !.auto = setting.on, !.connected = TRUE, !.pending = {}] = u
  BY <1>0, <1>1 DEF ResetWork, BrowserInv, Browsers
<1>3. b' \in ScanStore(u) /\ answer' = Unset
  BY <1>2 DEF Connect
<1>4. lang \in Langs /\ on \in BOOLEAN /\ lang # Unset
  BY <1>0, ChatAssumption DEF Settings
<1>5. tries \in [Messages -> 0..Retries] /\ <<>> \in Seq(Messages) /\ {} \in SUBSET Messages
  BY <1>0, SyncAssumption
<1>6. u \in Browsers
  BY <1>1, <1>4, <1>5, Zenon DEF BrowserInv, Browsers
<1>7. /\ u.my = setting.lang /\ u.auto = setting.on /\ u.connected /\ u.shown = b.shown /\ u.failed = b.failed
      /\ u.cand = <<>> /\ u.flight = <<>> /\ u.pending = {} /\ u.my # Unset
  BY <1>0, <1>1, <1>4 DEF BrowserInv, Browsers
<1>8. \A m \in u.failed : m \in u.shown /\ u.my \notin ViewerSkips[m]
  <2>1. b.my = setting.lang \/ b.failed = {}
    BY DEF BrowserInv, Sound
  <2>2. b.failed \subseteq Messages
    BY DEF BrowserInv, Browsers
  <2> QED BY <1>7, <2>1, <2>2 DEF BrowserInv, Sound
<1>9. Sound(u, Messages) /\ Moves(u) /\ \A m \in Messages : Backed(u, m)
  BY <1>6, <1>7, <1>8, ResetSound
<1>10. \A t \in ScanStore(u) : t \in Browsers /\ Sound(t, {}) /\ Moves(t) /\ Frame(u, t)
  BY <1>6, <1>9, ScanSound
<1> QED BY <1>3, <1>7, <1>10 DEF Frame, BrowserInv, Answering

\* A setting changes: for a browser that never connected its language is still unknown.
LEMMA ChangeStep ==
  ASSUME BrowserInv, FollowsInv, setting \in Settings, Change
  PROVE  /\ BrowserInv' /\ b'.shown = b.shown /\ b'.connected = b.connected /\ setting' \in Settings
         /\ b.connected => b'.my = setting'.lang /\ b'.auto = setting'.on
         /\ b'.my \in {Unset, setting'.lang}
<1>1. /\ setting' \in Settings /\ (setting'.lang = setting.lang \/ setting'.on = setting.on)
      /\ answer' = Unset
  BY DEF Change, Settings
<1>2. PICK lang \in Langs \cup {Unset}, on \in BOOLEAN :
        /\ b' \in Follow(lang, on)
        /\ IF setting'.lang # setting.lang THEN lang = setting'.lang /\ on = b.auto ELSE lang = b.my /\ on = setting'.on
  <2>1. CASE setting'.lang # setting.lang
    <3>1. b' \in Follow(setting'.lang, b.auto) /\ setting'.lang \in Langs \cup {Unset} /\ b.auto \in BOOLEAN
      BY <1>1, <2>1 DEF Change, Settings, BrowserInv, Browsers
    <3> QED BY <2>1, <3>1
  <2>2. CASE setting'.lang = setting.lang
    <3>1. b' \in Follow(b.my, setting'.on) /\ b.my \in Langs \cup {Unset} /\ setting'.on \in BOOLEAN
      BY <1>1, <2>2 DEF Change, Settings, BrowserInv, Browsers
    <3> QED BY <2>2, <3>1
  <2> QED BY <2>1, <2>2
<1>12. PICK tries : tries = [m \in Messages |-> 0]
  OBVIOUS
<1>3. PICK u : u = [b EXCEPT !.wait = {}, !.retry = {}, !.tries = tries, !.cand = <<>>, !.timer = FALSE,
                             !.flight = <<>>, !.told = {}, !.my = lang, !.auto = on, !.pending = {}, !.failed = {}]
  OBVIOUS
<1>4. [ResetWork(b) EXCEPT !.my = lang, !.auto = on, !.pending = {}, !.failed = {}] = u
  BY <1>3, <1>12 DEF ResetWork, BrowserInv, Browsers
<1>5. b' \in ScanStore(u)
  BY <1>2, <1>4 DEF Follow
<1>6. tries \in [Messages -> 0..Retries] /\ <<>> \in Seq(Messages) /\ {} \in SUBSET Messages
  BY <1>12, SyncAssumption
<1>7. u \in Browsers
  BY <1>3, <1>6, Zenon DEF BrowserInv, Browsers
<1>8. /\ u.my = lang /\ u.auto = on /\ u.connected = b.connected /\ u.shown = b.shown /\ u.failed = {}
      /\ u.cand = <<>> /\ u.flight = <<>> /\ u.pending = {}
  BY <1>3 DEF BrowserInv, Browsers
<1>9. Sound(u, Messages) /\ Moves(u) /\ \A m \in Messages : Backed(u, m)
  BY <1>7, <1>8, ResetSound
<1>10. \A t \in ScanStore(u) : t \in Browsers /\ Sound(t, {}) /\ Moves(t) /\ Frame(u, t)
  BY <1>7, <1>9, ScanSound
<1>11. BrowserInv' /\ b'.shown = b.shown /\ b'.connected = b.connected /\ b'.my = lang /\ b'.auto = on
  BY <1>1, <1>5, <1>8, <1>10 DEF Frame, BrowserInv, Answering
<1> QED BY <1>1, <1>2, <1>11 DEF FollowsInv
-----------------------------------------------------------------------------
(* The server and the connection.                                           *)

ServerTypes ==
  /\ row \in [Messages -> {"none", "saved"}] /\ stored \in SUBSET (Messages \X Langs)
  /\ job \in [Messages -> [stage : {"none", "saved", "asking", "done"}, targets : SUBSET Langs]]
  /\ elsewhere \in SUBSET Langs
  /\ link \in [stage : {"off", "lookup", "reading", "attaching", "online", "bare"}, read : SUBSET Messages, langs : SUBSET Langs]
  /\ entry \in Langs \cup {Off, Unset} /\ early \in Langs \cup {Off, Unset}
  /\ reports \in Seq(Langs \cup {Off}) /\ inbox \in Seq(Events) /\ setting \in Settings
  /\ entry = Unset <=> link.stage \in {"off", "lookup"}

\* The message is shown, on its way, or in the history that is being attached.
Shows(e, m) == (e.event = "chat:message" /\ e.m = m) \/ (e.event = "chat:history" /\ m \in e.read)
Coming(m) ==
  \/ m \in b.shown
  \/ \E i \in 1..Len(inbox) : Shows(inbox[i], m)
  \/ link.stage = "attaching" /\ m \in link.read
NoneLost ==
  link.stage \in {"attaching", "online"} =>
    \A m \in Messages : row[m] = "saved" /\ job[m].stage # "saved" => Coming(m)

WireInv == ServerTypes /\ BrowserInv /\ FollowsInv /\ NoneLost

Extends(new, old) ==
  new \in Seq(Events) /\ Len(old) <= Len(new) /\ \A i \in 1..Len(old) : new[i] = old[i]

LEMMA AppendExtends ==
  ASSUME inbox \in Seq(Events), NEW e \in Events
  PROVE  /\ Extends(Append(inbox, e), inbox) /\ Extends(Emitted(e), inbox)
         /\ link.stage # "off" => \E i \in 1..Len(Emitted(e)) : Emitted(e)[i] = e
         /\ \E i \in 1..Len(Append(inbox, e)) : Append(inbox, e)[i] = e
<1>1. PICK more : more = Append(inbox, e)
  OBVIOUS
<1>2. /\ more \in Seq(Events) /\ Len(more) = Len(inbox) + 1 /\ more[Len(inbox) + 1] = e
      /\ \A i \in 1..Len(inbox) : more[i] = inbox[i]
      /\ Len(inbox) \in Nat
  BY <1>1
<1>3. Extends(more, inbox) /\ Extends(inbox, inbox)
  BY <1>2 DEF Extends
<1>4. \E i \in 1..Len(more) : more[i] = e
  BY <1>2
<1>5. Emitted(e) = more \/ (link.stage = "off" /\ Emitted(e) = inbox)
  BY <1>1 DEF Emitted
<1> QED BY <1>1, <1>3, <1>4, <1>5

LEMMA StillComing ==
  ASSUME inbox \in Seq(Events), Extends(inbox', inbox), b.shown \subseteq b'.shown, link' = link,
         NEW m \in Messages, Coming(m)
  PROVE  Coming(m)'
<1>1. Len(inbox) \in Nat /\ Len(inbox') \in Nat /\ Len(inbox) <= Len(inbox')
  BY DEF Extends
<1>2. (\E i \in 1..Len(inbox) : Shows(inbox[i], m)) => \E i \in 1..Len(inbox') : Shows(inbox'[i], m)
  BY <1>1 DEF Extends
<1> QED BY <1>2 DEF Coming, Shows

\* Where the browser is left alone, so are its invariants.
LEMMA BrowserKept ==
  ASSUME BrowserInv, b' = b, answer' = answer
  PROVE  BrowserInv'
BY DEF BrowserInv, Answering, Sound, Moves, Active, HasMine, Eligible, Seeks

LEMMA ReportedLang ==
  ASSUME setting \in Settings
  PROVE  Reported(setting.lang, setting.on) \in Langs \cup {Off} /\ Reported(setting.lang, setting.on) # Unset
BY ChatAssumption DEF Reported, Settings

LEMMA SendStep ==
  ASSUME WireInv, NEW m \in Messages, Send(m), UNCHANGED syncVars
  PROVE  WireInv'
<1>1. /\ row' = [row EXCEPT ![m] = "saved"] /\ job' = [job EXCEPT ![m].stage = "saved"]
      /\ stored' = stored /\ elsewhere' = elsewhere /\ link' = link /\ entry' = entry /\ early' = early
      /\ reports' = reports /\ inbox' = inbox /\ b' = b /\ setting' = setting /\ answer' = answer
  BY DEF Send, connectionVars, syncVars
<1>2. row' \in [Messages -> {"none", "saved"}] /\ \A n \in Messages \ {m} : row'[n] = row[n]
  BY <1>1 DEF WireInv, ServerTypes
<1>3. /\ job' \in [Messages -> [stage : {"none", "saved", "asking", "done"}, targets : SUBSET Langs]]
      /\ job'[m].stage = "saved" /\ \A n \in Messages \ {m} : job'[n] = job[n]
  BY <1>1 DEF WireInv, ServerTypes
<1>4. ServerTypes'
  BY <1>1, <1>2, <1>3 DEF WireInv, ServerTypes
<1>5. BrowserInv'
  BY <1>1, BrowserKept DEF WireInv
<1>6. FollowsInv'
  BY <1>1 DEF WireInv, FollowsInv, Told
<1>7. NoneLost'
  <2>1. Extends(inbox', inbox) /\ b.shown \subseteq b'.shown /\ inbox \in Seq(Events)
    BY <1>1 DEF WireInv, ServerTypes, Extends
  <2>2. SUFFICES ASSUME link'.stage \in {"attaching", "online"}, NEW n \in Messages, row'[n] = "saved", job'[n].stage # "saved"
                 PROVE  Coming(n)'
    BY DEF NoneLost
  <2>3. Coming(n)
    BY <1>1, <1>2, <1>3, <2>2 DEF WireInv, NoneLost
  <2> QED BY <1>1, <2>1, <2>3, StillComing
<1> QED BY <1>4, <1>5, <1>6, <1>7 DEF WireInv

LEMMA PublishStep ==
  ASSUME WireInv, NEW m \in Messages, Publish(m), UNCHANGED syncVars
  PROVE  WireInv'
<1>1. /\ row' = row /\ stored' = stored /\ elsewhere' = elsewhere /\ link' = link /\ entry' = entry /\ early' = early
      /\ reports' = reports /\ b' = b /\ setting' = setting /\ answer' = answer
  BY DEF Publish, connectionVars, syncVars
<1>2. PICK e : e = [event |-> "chat:message", m |-> m]
  OBVIOUS
<1>3. PICK none : none = [event |-> "chat:translation", m |-> m, has |-> {}, failed |-> {}]
  OBVIOUS
<1>4. e \in Events /\ none \in Events /\ Shows(e, m)
  BY <1>2, <1>3 DEF Events, Shows
<1>5. inbox \in Seq(Events)
  BY DEF WireInv, ServerTypes
<1>6. /\ Extends(inbox', inbox)
      /\ link.stage # "off" => \E i \in 1..Len(inbox') : inbox'[i] = e
  <2>1. PICK out : out = Emitted(e)
    OBVIOUS
  <2>2. Extends(out, inbox) /\ (link.stage # "off" => \E i \in 1..Len(out) : out[i] = e) /\ out \in Seq(Events)
    BY <1>4, <1>5, <2>1, AppendExtends DEF Extends
  <2>3. inbox' = out \/ (link.stage = "off" /\ inbox' = inbox) \/ inbox' = Append(out, none)
    BY <1>2, <1>3, <2>1 DEF Publish
  <2>4. CASE inbox' = out
    BY <2>2, <2>4
  <2>5. CASE link.stage = "off" /\ inbox' = inbox
    BY <1>5, <2>5 DEF Extends
  <2>6. CASE inbox' = Append(out, none)
    <3>1. PICK more : more = Append(out, none)
      OBVIOUS
    <3>2. /\ more \in Seq(Events) /\ Len(more) = Len(out) + 1 /\ \A i \in 1..Len(out) : more[i] = out[i]
          /\ Len(out) \in Nat /\ Len(inbox) \in Nat
      BY <1>4, <1>5, <2>2, <3>1
    <3> QED BY <2>2, <2>6, <3>1, <3>2 DEF Extends
  <2> QED BY <2>3, <2>4, <2>5, <2>6
<1>7. /\ job' \in [Messages -> [stage : {"none", "saved", "asking", "done"}, targets : SUBSET Langs]]
      /\ \A n \in Messages \ {m} : job'[n] = job[n]
  <2>1. PICK targets : targets = OnlineTargetLangs \ ServerSkips[m]
    OBVIOUS
  <2>2. targets \in SUBSET Langs
    BY <2>1 DEF OnlineTargetLangs, WireInv, ServerTypes
  <2>3. job' = [job EXCEPT ![m].stage = "done"] \/ job' = [job EXCEPT ![m] = [stage |-> "asking", targets |-> targets]]
    BY <2>1 DEF Publish
  <2>4. job \in [Messages -> [stage : {"none", "saved", "asking", "done"}, targets : SUBSET Langs]]
    BY DEF WireInv, ServerTypes
  <2> QED BY <2>2, <2>3, <2>4
<1>8. ServerTypes'
  BY <1>1, <1>6, <1>7 DEF WireInv, ServerTypes, Extends
<1>9. BrowserInv'
  BY <1>1, BrowserKept DEF WireInv
<1>10. FollowsInv'
  BY <1>1 DEF WireInv, FollowsInv, Told
<1>11. NoneLost'
  <2>1. SUFFICES ASSUME link'.stage \in {"attaching", "online"}, NEW n \in Messages, row'[n] = "saved", job'[n].stage # "saved"
                 PROVE  Coming(n)'
    BY DEF NoneLost
  <2>2. CASE n = m
    <3>1. PICK i \in 1..Len(inbox') : inbox'[i] = e
      BY <1>1, <1>6, <2>1
    <3> QED BY <1>4, <2>2, <3>1 DEF Coming, Shows
  <2>3. CASE n # m
    <3>1. Coming(n)
      BY <1>1, <1>7, <2>1, <2>3 DEF WireInv, NoneLost
    <3> QED BY <1>1, <1>5, <1>6, <3>1, StillComing
  <2> QED BY <2>2, <2>3
<1> QED BY <1>8, <1>9, <1>10, <1>11 DEF WireInv

LEMMA TranslateStep ==
  ASSUME WireInv, NEW m \in Messages, Translate(m), UNCHANGED syncVars
  PROVE  WireInv'
<1>1. /\ row' = row /\ elsewhere' = elsewhere /\ link' = link /\ entry' = entry /\ early' = early
      /\ reports' = reports /\ b' = b /\ setting' = setting /\ answer' = answer
      /\ job' = [job EXCEPT ![m] = [stage |-> "done", targets |-> {}]]
  BY DEF Translate, connectionVars, syncVars
<1>2. /\ job \in [Messages -> [stage : {"none", "saved", "asking", "done"}, targets : SUBSET Langs]]
      /\ stored \in SUBSET (Messages \X Langs) /\ inbox \in Seq(Events)
  BY DEF WireInv, ServerTypes
<1>12. PICK existing \in {{}, StoredFor(m) \cap job[m].targets} :
         \E fresh \in SUBSET (job[m].targets \ existing) :
           /\ stored' \in {stored, stored \cup ({m} \X fresh)}
           /\ inbox' = Pushed(m, existing \cup fresh, (job[m].targets \ existing) \ fresh)
  BY DEF Translate
<1>3. PICK fresh \in SUBSET (job[m].targets \ existing) :
        /\ stored' \in {stored, stored \cup ({m} \X fresh)}
        /\ inbox' = Pushed(m, existing \cup fresh, (job[m].targets \ existing) \ fresh)
  BY <1>12
<1>4. existing \in SUBSET Langs /\ fresh \in SUBSET Langs /\ job[m].targets \in SUBSET Langs
  BY <1>2, <1>3, <1>12 DEF StoredFor
<1>5. stored' \in SUBSET (Messages \X Langs)
  BY <1>2, <1>3, <1>4
<1>6. Extends(inbox', inbox)
  <2>1. PICK has, missing : has = existing \cup fresh /\ missing = (job[m].targets \ existing) \ fresh
    OBVIOUS
  <2>2. PICK e : e = [event |-> "chat:translation", m |-> m, has |-> has, failed |-> missing]
    OBVIOUS
  <2>3. e \in Events
    <3>1. has \in SUBSET Langs /\ missing \in SUBSET Langs
      BY <1>4, <2>1
    <3> QED BY <2>2, <3>1 DEF Events
  <2>4. inbox' = Emitted(e)
    BY <1>3, <2>1, <2>2 DEF Pushed
  <2> QED BY <1>2, <2>3, <2>4, AppendExtends
<1>7. /\ job' \in [Messages -> [stage : {"none", "saved", "asking", "done"}, targets : SUBSET Langs]]
      /\ \A n \in Messages \ {m} : job'[n] = job[n]
  BY <1>1, <1>2
<1>8. ServerTypes'
  BY <1>1, <1>5, <1>6, <1>7 DEF WireInv, ServerTypes, Extends
<1>9. BrowserInv'
  BY <1>1, BrowserKept DEF WireInv
<1>10. FollowsInv'
  BY <1>1 DEF WireInv, FollowsInv, Told
<1>11. NoneLost'
  <2>1. SUFFICES ASSUME link'.stage \in {"attaching", "online"}, NEW n \in Messages, row'[n] = "saved", job'[n].stage # "saved"
                 PROVE  Coming(n)'
    BY DEF NoneLost
  <2>2. job[m].stage = "asking"
    BY DEF Translate
  <2>3. Coming(n)
    BY <1>1, <1>7, <2>1, <2>2 DEF WireInv, NoneLost
  <2> QED BY <1>1, <1>2, <1>6, <2>3, StillComing
<1> QED BY <1>8, <1>9, <1>10, <1>11 DEF WireInv

LEMMA OthersStep ==
  ASSUME WireInv, NEW m \in Messages, NEW l \in Langs, OthersTranslate(m, l), UNCHANGED syncVars
  PROVE  WireInv'
<1>1. /\ row' = row /\ job' = job /\ elsewhere' = elsewhere /\ link' = link /\ entry' = entry /\ early' = early
      /\ reports' = reports /\ inbox' = inbox /\ b' = b /\ setting' = setting /\ answer' = answer
      /\ stored' = stored \cup {<<m, l>>}
  BY DEF OthersTranslate, connectionVars, syncVars
<1>2. ServerTypes'
  BY <1>1 DEF WireInv, ServerTypes
<1>3. BrowserInv'
  BY <1>1, BrowserKept DEF WireInv
<1> QED BY <1>1, <1>2, <1>3 DEF WireInv, FollowsInv, Told, NoneLost, Coming, Shows

\* The viewer is registered with the language that it has reported, or of its account.
LEMMA RegisterStep ==
  ASSUME WireInv, Register, UNCHANGED syncVars
  PROVE  WireInv'
<1>1. /\ row' = row /\ stored' = stored /\ job' = job /\ elsewhere' = elsewhere /\ reports' = reports /\ inbox' = inbox
      /\ b' = b /\ setting' = setting /\ answer' = answer /\ early' = Unset
      /\ link.stage = "lookup" /\ entry' = IF early = Unset THEN AccountLang ELSE early
  BY DEF Register, syncVars
<1>2. link' = [link EXCEPT !.stage = "reading", !.langs = {entry'} \cap Langs] /\ {entry'} \cap Langs \in SUBSET Langs
  BY DEF Register
<1>3. /\ link' \in [stage : {"off", "lookup", "reading", "attaching", "online", "bare"}, read : SUBSET Messages, langs : SUBSET Langs]
      /\ link'.stage = "reading"
  BY <1>2 DEF WireInv, ServerTypes
<1>4. entry' \in Langs \cup {Off} /\ entry' # Unset
  BY <1>1, ChatAssumption DEF WireInv, ServerTypes
<1>5. ServerTypes'
  BY <1>1, <1>3, <1>4 DEF WireInv, ServerTypes
<1>6. BrowserInv'
  BY <1>1, BrowserKept DEF WireInv
<1>7. Told = Reported(setting.lang, setting.on) /\ entry = Unset /\ Reported(setting.lang, setting.on) # Unset
  BY <1>1, ReportedLang DEF WireInv, FollowsInv, ServerTypes
<1>8. Told' = Told
  BY <1>1, <1>4, <1>7 DEF Told
<1>9. FollowsInv'
  BY <1>1, <1>7, <1>8 DEF WireInv, FollowsInv
<1> QED BY <1>3, <1>5, <1>6, <1>9 DEF WireInv, NoneLost

\* A report changes who the viewer is taken for, now or at its registration.
LEMMA LanguageStep ==
  ASSUME WireInv, HandleLanguage, UNCHANGED syncVars
  PROVE  WireInv'
<1>1. /\ row' = row /\ stored' = stored /\ job' = job /\ elsewhere' = elsewhere /\ link' = link /\ inbox' = inbox
      /\ b' = b /\ setting' = setting /\ answer' = answer
      /\ link.stage # "off" /\ reports # <<>> /\ reports' = Tail(reports)
  BY DEF HandleLanguage, syncVars
<1>2. reports \in Seq(Langs \cup {Off})
  BY DEF WireInv, ServerTypes
<1>3. /\ Head(reports) = reports[1] /\ reports[1] \in Langs \cup {Off}
      /\ reports' \in Seq(Langs \cup {Off}) /\ Len(reports') = Len(reports) - 1 /\ Len(reports) \in Nat /\ Len(reports) >= 1
      /\ \A i \in 1..Len(reports') : reports'[i] = reports[i + 1]
  BY <1>1, <1>2
<1>4. /\ entry = Unset => early' = reports[1] /\ entry' = entry
      /\ entry # Unset => entry' = reports[1] /\ early' = early
  BY <1>3 DEF HandleLanguage
<1>5. reports[1] # Unset
  BY <1>3, ChatAssumption
<1>6. ServerTypes'
  BY <1>1, <1>3, <1>4, <1>5 DEF WireInv, ServerTypes
<1>7. BrowserInv'
  BY <1>1, BrowserKept DEF WireInv
<1>8. Told' = Told
  <2>1. Told = reports[Len(reports)]
    BY <1>1 DEF Told
  <2>2. CASE reports' = <<>>
    <3>1. Len(reports) = 1
      BY <1>3, <2>2
    <3> QED BY <1>4, <1>5, <2>1, <2>2, <3>1 DEF Told
  <2>3. CASE reports' # <<>>
    <3>1. Len(reports') \in 1..Len(reports')
      BY <1>3, <2>3
    <3>2. reports'[Len(reports')] = reports[Len(reports)]
      BY <1>3, <3>1
    <3> QED BY <2>1, <2>3, <3>2 DEF Told
  <2> QED BY <2>2, <2>3
<1>9. FollowsInv'
  BY <1>1, <1>8 DEF WireInv, FollowsInv
<1> QED BY <1>1, <1>6, <1>7, <1>9 DEF WireInv, NoneLost, Coming, Shows

\* What was published before is in the history, and what is published from now on is sent.
LEMMA HistoryStep ==
  ASSUME WireInv, HistoryReads \/ HistoryAttaches \/ HistoryFails, UNCHANGED syncVars
  PROVE  WireInv'
<1>1. /\ row' = row /\ stored' = stored /\ job' = job /\ elsewhere' = elsewhere /\ reports' = reports
      /\ b' = b /\ setting' = setting /\ answer' = answer /\ early' = early /\ entry' = entry
  BY DEF HistoryReads, HistoryAttaches, HistoryFails, syncVars
<1>2. /\ inbox \in Seq(Events) /\ stored \in SUBSET (Messages \X Langs)
      /\ link \in [stage : {"off", "lookup", "reading", "attaching", "online", "bare"}, read : SUBSET Messages, langs : SUBSET Langs]
  BY DEF WireInv, ServerTypes
<1>3. /\ link' \in [stage : {"off", "lookup", "reading", "attaching", "online", "bare"}, read : SUBSET Messages, langs : SUBSET Langs]
      /\ link.stage \in {"reading", "attaching"} /\ link'.stage \in {"attaching", "online", "bare"}
  <2>1. CASE HistoryReads
    <3>1. Saved \in SUBSET Messages /\ link.langs \cup OnlineTargetLangs \in SUBSET Langs
      BY <1>2 DEF Saved, OnlineTargetLangs, WireInv, ServerTypes
    <3> QED BY <2>1, <3>1 DEF HistoryReads
  <2>2. CASE HistoryAttaches
    BY <2>2 DEF HistoryAttaches, NoLink
  <2>3. CASE HistoryFails
    BY <2>3 DEF HistoryFails, NoLink
  <2> QED BY <2>1, <2>2, <2>3
<1>4. PICK e \in Events : /\ inbox' = inbox \/ inbox' = Append(inbox, e)
                          /\ HistoryAttaches => inbox' = Append(inbox, e) /\ \A m \in link.read : Shows(e, m)
  <2>1. CASE HistoryReads
    <3>1. [event |-> "chat:system"] \in Events
      BY DEF Events
    <3> QED BY <2>1, <3>1 DEF HistoryReads, HistoryAttaches
  <2>2. CASE HistoryAttaches
    <3>1. PICK known \in {{}, stored} :
            inbox' = Append(inbox, [event |-> "chat:history", read |-> link.read,
                                    has |-> {t \in known : t[1] \in link.read /\ t[2] \in link.langs}])
      BY <2>2 DEF HistoryAttaches
    <3>2. PICK has : has = {t \in known : t[1] \in link.read /\ t[2] \in link.langs}
      OBVIOUS
    <3>3. PICK e : e = [event |-> "chat:history", read |-> link.read, has |-> has]
      OBVIOUS
    <3>4. has \in SUBSET (Messages \X Langs) /\ link.read \in SUBSET Messages
      BY <1>2, <3>2
    <3>5. e \in Events /\ e.event = "chat:history" /\ e.read = link.read
      BY <3>3, <3>4 DEF Events
    <3>6. inbox' = Append(inbox, e)
      BY <3>1, <3>2, <3>3
    <3> QED BY <3>5, <3>6 DEF Shows
  <2>3. CASE HistoryFails
    <3>1. [event |-> "chat:system"] \in Events
      BY DEF Events
    <3> QED BY <2>3, <3>1 DEF HistoryFails, HistoryAttaches
  <2> QED BY <2>1, <2>2, <2>3
<1>5. Extends(inbox', inbox) /\ (HistoryAttaches => \E i \in 1..Len(inbox') : inbox'[i] = e)
  <2>1. Extends(inbox, inbox)
    BY <1>2 DEF Extends
  <2>2. Extends(Append(inbox, e), inbox) /\ \E i \in 1..Len(Append(inbox, e)) : Append(inbox, e)[i] = e
    BY <1>2, AppendExtends
  <2> QED BY <1>4, <2>1, <2>2
<1>6. ServerTypes'
  BY <1>1, <1>3, <1>5 DEF WireInv, ServerTypes, Extends
<1>7. BrowserInv'
  BY <1>1, BrowserKept DEF WireInv
<1>8. FollowsInv'
  BY <1>1, <1>3 DEF WireInv, FollowsInv, Told
<1>9. NoneLost'
  <2>1. SUFFICES ASSUME link'.stage \in {"attaching", "online"}, NEW n \in Messages, row'[n] = "saved", job'[n].stage # "saved"
                 PROVE  Coming(n)'
    BY DEF NoneLost
  <2>2. CASE HistoryReads
    BY <1>1, <2>1, <2>2 DEF HistoryReads, Saved, Coming
  <2>3. CASE HistoryAttaches
    <3>1. Coming(n) /\ link.stage = "attaching"
      BY <1>1, <2>1, <2>3 DEF HistoryAttaches, WireInv, NoneLost
    <3>2. CASE n \in link.read
      <4>1. \E i \in 1..Len(inbox') : inbox'[i] = e /\ Shows(e, n)
        BY <1>4, <1>5, <2>3, <3>2
      <4> QED BY <4>1 DEF Coming, Shows
    <3>3. CASE n \in b.shown
      BY <1>1, <3>3 DEF Coming
    <3>4. CASE \E i \in 1..Len(inbox) : Shows(inbox[i], n)
      <4>1. Len(inbox) \in Nat /\ Len(inbox') \in Nat /\ Len(inbox) <= Len(inbox')
        BY <1>2, <1>5 DEF Extends
      <4>2. \E i \in 1..Len(inbox') : Shows(inbox'[i], n)
        BY <1>5, <3>4, <4>1 DEF Extends
      <4> QED BY <4>2 DEF Coming, Shows
    <3> QED BY <3>1, <3>2, <3>3, <3>4 DEF Coming
  <2>4. CASE HistoryFails
    BY <2>1, <2>4 DEF HistoryFails, NoLink
  <2> QED BY <2>2, <2>3, <2>4
<1> QED BY <1>6, <1>7, <1>8, <1>9 DEF WireInv

\* What the browser does by itself leaves the server alone.
LEMMA LocalStep ==
  ASSUME WireInv, UNCHANGED chatVars, setting' = setting, BrowserInv', Same(b, b'), b'.shown = b.shown
  PROVE  WireInv'
<1>1. /\ row' = row /\ stored' = stored /\ job' = job /\ elsewhere' = elsewhere /\ link' = link /\ entry' = entry
      /\ early' = early /\ reports' = reports /\ inbox' = inbox
  BY DEF chatVars
<1>2. ServerTypes'
  BY <1>1 DEF WireInv, ServerTypes
<1>3. FollowsInv'
  BY <1>1 DEF WireInv, FollowsInv, Told, Same
<1>4. NoneLost'
  BY <1>1 DEF WireInv, NoneLost, Coming, Shows
<1> QED BY <1>2, <1>3, <1>4 DEF WireInv

LEMMA BatchTranslatesStep ==
  ASSUME WireInv, BatchTranslates
  PROVE  WireInv'
<1>1. /\ row' = row /\ job' = job /\ elsewhere' = elsewhere /\ link' = link /\ entry' = entry /\ early' = early
      /\ reports' = reports /\ inbox' = inbox /\ b' = b /\ setting' = setting /\ b.flight # <<>>
  BY DEF BatchTranslates, connectionVars
<1>7. PICK asked : asked = {m \in Range(b.flight) : b.my \notin ServerSkips[m]}
  OBVIOUS
<1>8. PICK there : there = {m \in asked : <<m, b.my>> \in stored}
  OBVIOUS
<1>2. PICK fresh \in SUBSET (asked \ there) :
        /\ stored' \in {stored, stored \cup (fresh \X {b.my})}
        /\ answer' = [translated |-> there \cup fresh, failed |-> asked \ (there \cup fresh)]
  BY <1>7, <1>8 DEF BatchTranslates
<1>9. answer' \in BatchAnswers(b.flight)
  <2>1. PICK got, failed : got = there \cup fresh /\ failed = asked \ (there \cup fresh)
    OBVIOUS
  <2>2. got \in SUBSET Range(b.flight) /\ failed \in SUBSET Range(b.flight) /\ got \cap failed = {}
    BY <1>2, <1>7, <1>8, <2>1
  <2> QED BY <1>2, <2>1, <2>2 DEF BatchAnswers
<1>3. b.my \in Langs /\ Range(b.flight) \subseteq Messages
  <2>1. b.my # Unset /\ b \in Browsers
    BY <1>1 DEF WireInv, BrowserInv, Sound, Active
  <2> QED BY <2>1, InRange DEF Browsers
<1>4. stored' \in SUBSET (Messages \X Langs)
  <2>1. fresh \subseteq Messages
    BY <1>2, <1>3, <1>7, <1>8
  <2> QED BY <1>2, <1>3, <2>1 DEF WireInv, ServerTypes
<1>5. ServerTypes'
  BY <1>1, <1>4 DEF WireInv, ServerTypes
<1>6. BrowserInv'
  BY <1>1, <1>9 DEF WireInv, BrowserInv, Answering, Sound, Moves, Active, HasMine, Eligible, Seeks
<1> QED BY <1>1, <1>5, <1>6 DEF WireInv, FollowsInv, Told, NoneLost, Coming, Shows

LEMMA ConnectsStep ==
  ASSUME WireInv, Connect
  PROVE  WireInv'
<1>1. /\ row' = row /\ stored' = stored /\ job' = job /\ elsewhere' = elsewhere /\ entry' = entry /\ early' = early
      /\ inbox' = inbox /\ setting' = setting /\ link.stage = "off"
      /\ reports' = Append(reports, Reported(setting.lang, setting.on))
  BY DEF Connect
<1>2. link' = [NoLink EXCEPT !.stage = "lookup"]
  BY DEF Connect
<1>3. /\ link' \in [stage : {"off", "lookup", "reading", "attaching", "online", "bare"}, read : SUBSET Messages, langs : SUBSET Langs]
      /\ link'.stage = "lookup"
  BY <1>2 DEF NoLink
<1>4. PICK said \in Langs \cup {Off} : said = Reported(setting.lang, setting.on)
  BY ReportedLang DEF WireInv, ServerTypes
<1>5. /\ reports' \in Seq(Langs \cup {Off}) /\ reports' # <<>> /\ reports'[Len(reports')] = said
  BY <1>1, <1>4 DEF WireInv, ServerTypes
<1>6. ServerTypes'
  BY <1>1, <1>3, <1>5 DEF WireInv, ServerTypes
<1>7. /\ BrowserInv' /\ b'.shown = b.shown
      /\ b'.my = setting.lang /\ b'.auto = setting.on /\ b'.connected
  BY ConnectStep DEF WireInv, FollowsInv, ServerTypes
<1>8. FollowsInv'
  BY <1>1, <1>4, <1>5, <1>7 DEF FollowsInv, Told
<1> QED BY <1>3, <1>6, <1>7, <1>8 DEF WireInv, NoneLost

LEMMA DropStep ==
  ASSUME WireInv, Drop
  PROVE  WireInv'
<1>1. /\ row' = row /\ stored' = stored /\ job' = job /\ elsewhere' = elsewhere /\ b' = b /\ setting' = setting /\ answer' = answer
      /\ link' = NoLink /\ entry' = Unset /\ early' = Unset /\ reports' = <<>> /\ inbox' = <<>>
  BY DEF Drop
<1>2. /\ link' \in [stage : {"off", "lookup", "reading", "attaching", "online", "bare"}, read : SUBSET Messages, langs : SUBSET Langs]
      /\ link'.stage = "off"
  BY <1>1 DEF NoLink
<1>3. ServerTypes'
  BY <1>1, <1>2 DEF WireInv, ServerTypes
<1>4. BrowserInv'
  BY <1>1, BrowserKept DEF WireInv
<1> QED BY <1>1, <1>2, <1>3, <1>4 DEF WireInv, FollowsInv, NoneLost

LEMMA ChangesStep ==
  ASSUME WireInv, Change
  PROVE  WireInv'
<1>1. /\ row' = row /\ stored' = stored /\ job' = job /\ elsewhere' = elsewhere /\ link' = link /\ entry' = entry /\ early' = early
      /\ inbox' = inbox
  BY DEF Change
<1>2. /\ BrowserInv' /\ b'.shown = b.shown /\ b'.connected = b.connected /\ setting' \in Settings
      /\ b.connected => b'.my = setting'.lang /\ b'.auto = setting'.on
      /\ b'.my \in {Unset, setting'.lang}
  BY ChangeStep DEF WireInv, ServerTypes
<1>3. PICK said : said = Reported(b'.my, b'.auto)
  OBVIOUS
<1>4. reports' = IF b.connected THEN Append(reports, said) ELSE reports
  BY <1>3 DEF Change
<1>5. b.connected => said \in Langs \cup {Off} /\ said = Reported(setting'.lang, setting'.on)
  BY <1>2, <1>3, ChatAssumption DEF Reported, Settings
<1>6. reports \in Seq(Langs \cup {Off})
  BY DEF WireInv, ServerTypes
<1>7. reports' \in Seq(Langs \cup {Off}) /\ (b.connected => reports' # <<>> /\ reports'[Len(reports')] = said)
  BY <1>4, <1>5, <1>6
<1>8. ServerTypes'
  BY <1>1, <1>2, <1>7 DEF WireInv, ServerTypes
<1>9. FollowsInv'
  BY <1>1, <1>2, <1>5, <1>7 DEF WireInv, FollowsInv, Told
<1> QED BY <1>1, <1>2, <1>8, <1>9 DEF WireInv, NoneLost, Coming, Shows

\* What has come is shown, and the rest is still coming.
LEMMA ReceivesStep ==
  ASSUME WireInv, Receive
  PROVE  WireInv'
<1>1. /\ row' = row /\ stored' = stored /\ job' = job /\ elsewhere' = elsewhere /\ link' = link /\ entry' = entry /\ early' = early
      /\ reports' = reports /\ setting' = setting /\ inbox # <<>> /\ inbox' = Tail(inbox)
  BY DEF Receive, connectionVars
<1>2. inbox \in Seq(Events)
  BY DEF WireInv, ServerTypes
<1>3. /\ BrowserInv' /\ Same(b, b') /\ b.shown \subseteq b'.shown
      /\ inbox[1].event = "chat:message" => inbox[1].m \in b'.shown
      /\ inbox[1].event = "chat:history" => inbox[1].read \subseteq b'.shown
  BY <1>2, ReceiveStep DEF WireInv
<1>4. /\ inbox' \in Seq(Events) /\ Len(inbox') = Len(inbox) - 1 /\ Len(inbox) \in Nat
      /\ \A i \in 1..Len(inbox') : inbox'[i] = inbox[i + 1]
  BY <1>1, <1>2
<1>5. ServerTypes'
  BY <1>1, <1>4 DEF WireInv, ServerTypes
<1>6. FollowsInv'
  BY <1>1, <1>3 DEF WireInv, FollowsInv, Told, Same
<1>7. NoneLost'
  <2>1. SUFFICES ASSUME link'.stage \in {"attaching", "online"}, NEW n \in Messages, row'[n] = "saved", job'[n].stage # "saved"
                 PROVE  Coming(n)'
    BY DEF NoneLost
  <2>2. Coming(n)
    BY <1>1, <2>1 DEF WireInv, NoneLost
  <2>3. CASE n \in b.shown \/ (link.stage = "attaching" /\ n \in link.read)
    BY <1>1, <1>3, <2>3 DEF Coming
  <2>4. CASE \E i \in 1..Len(inbox) : Shows(inbox[i], n)
    <3>1. PICK i \in 1..Len(inbox) : Shows(inbox[i], n)
      BY <2>4
    <3>2. CASE i = 1
      BY <1>3, <3>1, <3>2 DEF Shows, Coming
    <3>3. CASE i # 1
      <4>1. i - 1 \in 1..Len(inbox') /\ inbox'[i - 1] = inbox[i]
        BY <1>4, <3>1, <3>3
      <4> QED BY <3>1, <4>1 DEF Coming, Shows
    <3> QED BY <3>2, <3>3
  <2> QED BY <2>2, <2>3, <2>4 DEF Coming
<1> QED BY <1>3, <1>5, <1>6, <1>7 DEF WireInv

\* Every step of the wire.
LEMMA WireStep ==
  ASSUME WireInv, [WireNext]_wireVars
  PROVE  WireInv'
<1>1. CASE UNCHANGED wireVars
  <2>1. UNCHANGED chatVars /\ b' = b /\ answer' = answer /\ setting' = setting
    BY <1>1 DEF wireVars, syncVars
  <2>2. BrowserInv'
    BY <2>1, BrowserKept DEF WireInv
  <2> QED BY <2>1, <2>2, LocalStep DEF Same
<1>2. CASE ServerSteps /\ UNCHANGED syncVars
  BY <1>2, RegisterStep, HistoryStep, LanguageStep, PublishStep, TranslateStep DEF ServerSteps
<1>3. ASSUME NEW m \in Messages, Send(m) /\ UNCHANGED syncVars PROVE WireInv'
  BY <1>3, SendStep
<1>4. ASSUME NEW m \in Messages, NEW l \in Langs, OthersTranslate(m, l) /\ UNCHANGED syncVars PROVE WireInv'
  BY <1>4, OthersStep
<1>5. ASSUME NEW m \in Messages, WaitEnds(m) \/ RetryEnds(m) \/ Retry(m) PROVE WireInv'
  <2>1. UNCHANGED chatVars /\ setting' = setting
    BY <1>5 DEF WaitEnds, RetryEnds, Retry
  <2>2. BrowserInv' /\ Same(b, b') /\ b'.shown = b.shown
    BY <1>5, WaitEndsStep DEF WireInv
  <2> QED BY <2>1, <2>2, LocalStep
<1>6. CASE Scrolled \/ BatchTimerEnds
  <2>1. UNCHANGED chatVars /\ setting' = setting
    BY <1>6 DEF Scrolled, BatchTimerEnds
  <2>2. BrowserInv' /\ Same(b, b') /\ b'.shown = b.shown
    BY <1>6, ScrolledStep DEF WireInv
  <2> QED BY <2>1, <2>2, LocalStep
<1>7. CASE Answered
  <2>1. UNCHANGED chatVars /\ setting' = setting
    BY <1>7 DEF Answered
  <2>2. BrowserInv' /\ Same(b, b') /\ b'.shown = b.shown
    BY <1>7, AnsweredStep DEF WireInv
  <2> QED BY <2>1, <2>2, LocalStep
<1> QED BY <1>1, <1>2, <1>3, <1>4, <1>5, <1>6, <1>7, ConnectsStep, DropStep, ReceivesStep, ChangesStep, BatchTranslatesStep DEF WireNext

LEMMA WireSafe ==
  ASSUME WireInv
  PROVE  ViewerServed /\ WireTypeOK
<1>1. b \in Browsers /\ Sound(b, {}) /\ Moves(b) /\ Answering /\ ServerTypes
  BY DEF WireInv, BrowserInv
<1>2. SpinnersBacked
  BY <1>1 DEF SpinnersBacked, Display, Sound, Seeks, Sought
<1>3. CandidatesMove
  BY <1>1 DEF CandidatesMove, Moves
<1>4. MissingIsSought
  <2> SUFFICES ASSUME Active(b), NEW m \in Messages, Eligible(b, m)
               PROVE  Display(m) \in {"pending", "failed"} \/ m \in b.told \/ Cardinality(Preferred(m)) >= ScanItems
    BY DEF MissingIsSought
  <2>1. m \in b.pending \cup b.failed \cup b.told \/ Crowded(b.shown, b.my, m)
    BY <1>1 DEF Sound
  <2>2. Crowded(b.shown, b.my, m) => Cardinality(Preferred(m)) >= ScanItems
    BY DEF Crowded, Preferred
  <2> QED BY <2>1, <2>2 DEF Active, Display, Eligible
<1>5. NoMessageLost
  <2> SUFFICES ASSUME link.stage = "online", inbox = <<>>, NEW m \in Saved, job[m].stage # "saved"
               PROVE  m \in b.shown
    BY DEF NoMessageLost
  <2>1. m \in Messages /\ Coming(m)
    BY DEF Saved, WireInv, NoneLost
  <2> QED BY <2>1 DEF Coming
<1>6. LanguageFollows
  BY <1>1 DEF LanguageFollows, WireInv, FollowsInv, Told, ServerTypes
<1>7. WireTypeOK
  <2>1. ChatTypeOK
    BY <1>1 DEF ChatTypeOK, ServerTypes
  <2>2. /\ b.wait \cup b.retry \cup b.shown \cup b.pending \cup b.failed \cup b.told \subseteq Messages
        /\ b.tries \in [Messages -> 0..Retries] /\ b.tr \in [Messages -> SUBSET Langs]
    BY <1>1 DEF Browsers
  <2>3. IsInjective(b.cand)
    <3>1. OnceEach(b.cand) /\ b.cand \in Seq(Messages)
      BY <1>1 DEF Sound, Browsers
    <3> QED BY <3>1 DEF IsInjective, OnceEach
  <2>4. Range(b.cand) \cap Range(b.flight) = {} /\ Len(b.flight) <= BatchItems
    BY <1>1 DEF Sound
  <2> QED BY <1>1, <2>1, <2>2, <2>3, <2>4 DEF WireTypeOK, Answering, BatchAnswers
<1> QED BY <1>2, <1>3, <1>4, <1>5, <1>6, <1>7 DEF ViewerServed

LEMMA WireStarts ==
  ASSUME SyncInit, ChatInit
  PROVE  WireInv
<1>1. b = NewBrowser /\ setting \in Settings /\ answer = Unset
  BY DEF SyncInit, Settings
<1>2. [m \in Messages |-> 0] \in [Messages -> 0..Retries] /\ <<>> \in Seq(Messages) /\ {} \in SUBSET Messages
  BY SyncAssumption
<1>3. [m \in Messages |-> {}] \in [Messages -> SUBSET Langs]
  OBVIOUS
<1>4. /\ b.my = Unset /\ b.auto = FALSE /\ b.connected = FALSE /\ b.pending = {} /\ b.failed = {} /\ b.shown = {}
      /\ b.cand = <<>> /\ b.flight = <<>>
  BY <1>1 DEF NewBrowser
<1>5. b \in Browsers
  BY <1>1, <1>2, <1>3 DEF Browsers, NewBrowser
<1>6. Sound(b, {}) /\ Moves(b)
  <2>1. Sound(b, Messages) /\ Moves(b)
    BY <1>4, <1>5, ResetSound
  <2> QED BY <1>4, <2>1 DEF Sound, Active
<1>7. BrowserInv
  BY <1>1, <1>5, <1>6 DEF BrowserInv, Answering
<1>8. ServerTypes
  <2>1. NoJob \in [stage : {"none", "saved", "asking", "done"}, targets : SUBSET Langs]
    BY DEF NoJob
  <2>2. NoLink \in [stage : {"off", "lookup", "reading", "attaching", "online", "bare"}, read : SUBSET Messages, langs : SUBSET Langs]
        /\ NoLink.stage = "off"
    BY DEF NoLink
  <2>3. PICK gone \in 0..LastMessage :
          job = [m \in Messages |-> [NoJob EXCEPT !.stage = IF m <= gone THEN "done" ELSE "none"]]
    BY DEF ChatInit
  <2>4. \A stage \in {"done", "none"} :
          [NoJob EXCEPT !.stage = stage] \in [stage : {"none", "saved", "asking", "done"}, targets : SUBSET Langs]
    BY DEF NoJob
  <2>5. job \in [Messages -> [stage : {"none", "saved", "asking", "done"}, targets : SUBSET Langs]]
    BY <2>3, <2>4
  <2>6. row \in [Messages -> {"none", "saved"}] /\ stored \in SUBSET (Messages \X Langs) /\ elsewhere \in SUBSET Langs
    BY ChatAssumption DEF ChatInit
  <2>7. reports = <<>> /\ inbox = <<>> /\ entry = Unset /\ early = Unset /\ link = NoLink
    BY DEF ChatInit
  <2>8. reports \in Seq(Langs \cup {Off}) /\ inbox \in Seq(Events)
    BY <2>7
  <2> QED BY <1>1, <2>2, <2>5, <2>6, <2>7, <2>8 DEF ServerTypes
<1>9. FollowsInv /\ NoneLost
  BY <1>4 DEF ChatInit, NoLink, FollowsInv, NoneLost
<1> QED BY <1>7, <1>8, <1>9 DEF WireInv

\* The chat with every difficulty at once.
WireSpec == SyncInit /\ ChatInit /\ [][WireNext]_wireVars

\* However the browser, its connection and the server take turns, and whatever of a text the
\* one and the other recognise: the viewer sees every message that was published, no spinner
\* turns for nothing, and what stays untranslated has been given up, answered with nothing,
\* or left to the scrolling.
THEOREM WireServed == WireSpec => [](ViewerServed /\ WireTypeOK)
<1>1. SyncInit /\ ChatInit => WireInv
  BY WireStarts
<1>2. WireInv /\ [WireNext]_wireVars => WireInv'
  BY WireStep
<1>3. WireInv => ViewerServed /\ WireTypeOK
  BY WireSafe
<1> QED BY <1>1, <1>2, <1>3, PTL DEF WireSpec

-----------------------------------------------------------------------------
(* The chat and the pipeline as they are run together.                      *)

\* A viewer whose history is on its way may begin with any messages.
LEMMA TwoInHistorySound ==
  ASSUME Langs # {AccountLang}, TwoInHistory
  PROVE  WireInv
<1>1. Other \in Langs /\ Other # AccountLang
  BY ChatAssumption DEF Other
<1>4. b = [NewBrowser EXCEPT !.my = Other, !.auto = TRUE, !.connected = TRUE]
  BY DEF TwoInHistory
<1>5. [m \in Messages |-> 0] \in [Messages -> 0..Retries] /\ [m \in Messages |-> {}] \in [Messages -> SUBSET Langs]
      /\ <<>> \in Seq(Messages) /\ {} \in SUBSET Messages
  BY SyncAssumption
<1>6. NewBrowser \in Browsers
  BY <1>5 DEF Browsers, NewBrowser
<1>7. b \in Browsers
  BY <1>1, <1>4, <1>6, Zenon DEF Browsers
<1>8. /\ b.my = Other /\ b.auto = TRUE /\ b.connected = TRUE /\ b.shown = {} /\ b.pending = {}
      /\ b.cand = <<>> /\ b.flight = <<>> /\ b.failed = {}
  BY <1>4 DEF NewBrowser
<1>9. Sound(b, Messages) /\ Moves(b) /\ \A m \in Messages : Backed(b, m)
  BY <1>7, <1>8, ResetSound
<1>10. \A m \in Messages : ~Eligible(b, m)
  BY <1>8 DEF Eligible
<1>11. Sound(b, {})
  BY <1>9, <1>10 DEF Sound, Backed
<1>12. BrowserInv
  BY <1>7, <1>9, <1>11 DEF BrowserInv, Answering, TwoInHistory
<1>13. PICK done : done = [NoJob EXCEPT !.stage = "done"]
  OBVIOUS
<1>14. done = [stage |-> "done", targets |-> {}]
  BY <1>13 DEF NoJob
<1>15. link = [stage |-> "online", read |-> {}, langs |-> {}]
  BY DEF TwoInHistory, NoLink
<1>18. PICK e : e = [event |-> "chat:history", read |-> Saved, has |-> {}]
  OBVIOUS
<1>19. inbox = <<e>> /\ e.event = "chat:history" /\ e.read = Saved /\ e \in Events
  <2>1. Saved \in SUBSET Messages /\ {} \in SUBSET (Messages \X Langs)
    BY DEF Saved
  <2>2. e \in [event : {"chat:history"}, read : SUBSET Messages, has : SUBSET (Messages \X Langs)]
    BY <1>18, <2>1
  <2> QED BY <1>18, <2>2 DEF TwoInHistory, Events
<1>16. ServerTypes
  <2>1. row \in [Messages -> {"none", "saved"}] /\ stored \in SUBSET (Messages \X Langs) /\ elsewhere \in SUBSET Langs
    BY DEF TwoInHistory
  <2>2. job \in [Messages -> [stage : {"none", "saved", "asking", "done"}, targets : SUBSET Langs]]
    <3>1. done \in [stage : {"none", "saved", "asking", "done"}, targets : SUBSET Langs]
      BY <1>14
    <3>2. job = [m \in Messages |-> done]
      BY <1>13 DEF TwoInHistory
    <3> QED BY <3>1, <3>2, Zenon
  <2>3. /\ link \in [stage : {"off", "lookup", "reading", "attaching", "online", "bare"}, read : SUBSET Messages, langs : SUBSET Langs]
        /\ link.stage = "online"
    BY <1>15
  <2>4. reports \in Seq(Langs \cup {Off}) /\ inbox \in Seq(Events) /\ setting \in Settings
    <3>1. inbox \in Seq(Events)
      BY <1>19
    <3>2. reports = <<>> /\ setting = [lang |-> Other, on |-> TRUE]
      BY DEF TwoInHistory
    <3> QED BY <1>1, <3>1, <3>2 DEF Settings
  <2>5. entry \in Langs /\ early = Unset /\ entry # Unset
    BY <1>1, ChatAssumption DEF TwoInHistory
  <2> QED BY <2>1, <2>2, <2>3, <2>4, <2>5 DEF ServerTypes
<1>17. FollowsInv
  BY <1>1, <1>8, <1>15 DEF TwoInHistory, FollowsInv, Told, Reported
<1>20. NoneLost
  <2>1. 1 \in 1..Len(inbox) /\ inbox[1] = e
    BY <1>19
  <2> QED BY <1>19, <2>1 DEF NoneLost, Coming, Shows, Saved
<1> QED BY <1>12, <1>16, <1>17, <1>20 DEF WireInv

\* Whatever part takes a step, it is a step of the wire and one of the pipeline.
LEMMA PartsStep ==
  ASSUME [Next]_vars
  PROVE  [WireNext]_wireVars /\ [PipelineNext]_pipelineVars
<1>1. CASE UNCHANGED vars
  BY <1>1 DEF vars
<1>2. CASE Next
  <2>1. /\ (part \in {"settings", "drops", "batches"} /\ WireNext) \/ UNCHANGED wireVars
        /\ (part = "queue" /\ QueueNext) \/ UNCHANGED queueVars
        /\ (part = "engine" /\ EngineNext) \/ UNCHANGED engineVars
        /\ (part = "posts" /\ PostNext) \/ UNCHANGED postVars
        /\ (part = "scripts" /\ NextText /\ Cardinality(text') <= 4) \/ UNCHANGED text
        /\ (part = "retention" /\ RetentionNext) \/ UNCHANGED retentionVars
    BY <1>2, Zenon DEF Next, Keep
  <2> QED BY <2>1 DEF PipelineNext
<1> QED BY <1>1, <1>2

\* In every part of the chat and of what translates for it, and for any messages, languages,
\* skipped texts, classifications of the characters and limits: the viewer is served as above,
\* the pipeline keeps to its limits and its promises, and every variable has its type.
THEOREM ChatIsSound == ASSUME Langs # {AccountLang} PROVE Spec => [](TypeOK /\ ViewerServed /\ PipelineSound)
<1>1. Init => WireInv /\ PipelineInv
  BY TwoInHistorySound, WireStarts, PipelineStarts DEF Init, FirstMessage
<1>2. WireInv /\ PipelineInv /\ [Next]_vars => WireInv' /\ PipelineInv'
  BY PartsStep, WireStep, PipelineStep
<1>3. WireInv /\ PipelineInv => TypeOK /\ ViewerServed /\ PipelineSound
  BY WireSafe, PipelineSafe DEF TypeOK
<1> QED BY <1>1, <1>2, <1>3, PTL DEF Spec
=============================================================================
