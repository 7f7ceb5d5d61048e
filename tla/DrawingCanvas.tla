--------------------------- MODULE DrawingCanvas ---------------------------
(***************************************************************************)
(* The canvas of the operation board in one browser                        *)
(* (web/src/components/OperationBoard/OperationBoardCanvas.jsx and         *)
(* operationBoardTypes.js): a stroke follows the pointer and is thinned    *)
(* out on every move, so that it stays below the length over which the     *)
(* server refuses an element.  A place is one coordinate; a token of the   *)
(* path is as long as its digits make it.                                  *)
(***************************************************************************)
EXTENDS Naturals, Sequences, FiniteSetsExt, Functions

CONSTANTS
  Places,          \* where the pointer can be
  MaxPathLength,   \* MAX_PATH_LENGTH of the browser
  ServerLength,    \* ELEMENT_STRING_MAX_LENGTH of the server
  MaxTrack         \* bounds a stroke

ASSUME CanvasAssumption ==
  /\ Places \subseteq Nat /\ {MaxPathLength, ServerLength} \subseteq Nat /\ MaxTrack \in Nat \ {0}
  /\ 13 <= MaxPathLength /\ MaxPathLength <= ServerLength

VARIABLES
  canDraw,   \* a permission that an admin gives and takes
  draft,     \* what is being drawn: kind and points
  track,     \* the places of the pointer that were drawn
  added      \* the last element handed to the socket, with its track

canvasVars == <<canDraw, draft, track, added>>

Nothing == [kind |-> "none", points |-> <<>>]

CanvasInit == canDraw = TRUE /\ draft = Nothing /\ track = <<>> /\ added = [what |-> Nothing, track |-> <<>>]

\* Characters of "L x 0", and of a path whose tokens are joined by blanks.
Width(p) == IF p < 10 THEN 5 ELSE 6
PathLength(d) == SumFunction([i \in DOMAIN d |-> Width(d[i]) + 1]) - 1

\* The elements of d at the places of I, in their order.
At(d, I) == [k \in 1..Cardinality(I) |-> d[CHOOSE i \in I : Cardinality({j \in I : j <= i}) = k]]

\* MUTANT of Sampled: the last one only when its turn comes.
SampledEvenly(d, step) == At(d, {i \in DOMAIN d : (i - 1) % step = 0})

\* The first, the last, and every step-th in between.
Sampled(d, step) == At(d, {i \in DOMAIN d : i = Len(d) \/ (i - 1) % step = 0})

\* MUTANT of Compact: thinned out once.
CompactOnce(d) == IF PathLength(d) <= MaxPathLength THEN d ELSE Sampled(d, 2)

\* compactOperationPath: the least step at which it fits, or two tokens, which always do, so
\* that what the function does after its first loop changes nothing.
Compact(d) ==
  LET fits == {step \in 1..Len(d) : PathLength(Sampled(d, step)) <= MaxPathLength}
  IN Sampled(d, IF fits = {} THEN Len(d) ELSE Min(fits))

\* handlePointerDown with a pen or a shape; another pointer begins anew.
PointerDown(kind, p) ==
  /\ canDraw /\ draft' = [kind |-> kind, points |-> IF kind = "path" THEN Compact(<<p>>) ELSE <<p, p>>]
  /\ track' = <<p>> /\ UNCHANGED <<canDraw, added>>

\* handlePointerDown with a text or a marker.
Stamps(p) ==
  /\ canDraw /\ added' = [what |-> [kind |-> "stamp", points |-> <<p>>], track |-> <<p>>]
  /\ UNCHANGED <<canDraw, draft, track>>

\* MUTANT of Extended: a shape ends where it began to be large enough.
ExtendedOnce(d, p) == IF d.kind = "path" THEN Compact(Append(d.points, p))
                      ELSE IF d.points[1] = d.points[2] THEN <<d.points[1], p>> ELSE d.points

Extended(d, p) == IF d.kind = "path" THEN Compact(Append(d.points, p)) ELSE <<d.points[1], p>>

PointerMove(p) ==
  /\ draft # Nothing /\ canDraw /\ Len(track) < MaxTrack
  /\ draft' = [draft EXCEPT !.points = Extended(draft, p)] /\ track' = Append(track, p)
  /\ UNCHANGED <<canDraw, added>>

\* isMeaningfulDraft: a path that has moved, a shape of some size.
Apart(p, q) == IF p < q THEN q - p > 2 ELSE p - q > 2
Meaningful(d) == IF d.kind = "path" THEN Len(d.points) > 1 ELSE Apart(d.points[1], d.points[2])

\* finishDraft, though the permission may have gone; the server decides about that.
FinishDraft ==
  /\ draft # Nothing /\ draft' = Nothing /\ track' = <<>>
  /\ LET sanitized == IF draft.kind = "path" THEN [draft EXCEPT !.points = Compact(@)] ELSE draft
     IN added' = IF Meaningful(sanitized) THEN [what |-> sanitized, track |-> track] ELSE added
  /\ UNCHANGED canDraw

PointerCancel == draft # Nothing /\ draft' = Nothing /\ track' = <<>> /\ UNCHANGED <<canDraw, added>>

PermissionChanges == canDraw' = ~canDraw /\ UNCHANGED <<draft, track, added>>

CanvasNext ==
  \/ \E p \in Places : \E kind \in {"path", "shape"} : PointerDown(kind, p)
  \/ \E p \in Places : Stamps(p) \/ PointerMove(p)
  \/ FinishDraft \/ PointerCancel \/ PermissionChanges

-----------------------------------------------------------------------------
CanvasTypeOK ==
  /\ canDraw \in BOOLEAN /\ track \in Seq(Places) /\ Len(track) <= MaxTrack
  /\ \A d \in {draft, added.what} : d.points \in Seq(Places) /\ d.kind \in {"none", "path", "shape", "stamp"}

\* d leaves out some of t.
Follows(d, t) ==
  \E f \in [DOMAIN d -> DOMAIN t] :
    \A i, j \in DOMAIN d : /\ d[i] = t[f[i]]
                            /\ (i < j /\ Len(t) > 1) => f[i] < f[j]

Drawn(d, t) ==
  /\ d.points[1] = t[1] /\ d.points[Len(d.points)] = t[Len(t)]
  /\ d.kind = "path" => Follows(d.points, t) /\ PathLength(d.points) <= ServerLength

\* However long the pointer moves and however often the stroke is thinned out on the way,
\* it begins where the pointer went down, ends where it is, keeps the order of the places,
\* and is never so long that the server refuses it; and nothing without extent is added.
StrokeKept ==
  /\ draft # Nothing => Drawn(draft, track)
  /\ added.what # Nothing => Drawn(added.what, added.track)
  /\ added.what.kind = "path" => Len(added.what.points) > 1
=============================================================================
