--------------------------- MODULE MarchSettings ---------------------------
(***************************************************************************)
(* The march time of this user: the panel that loads and saves it          *)
(* (web/src/components/Battle/PersonalPanel.jsx, me.controller.ts), the    *)
(* store from which the players take it, and the copy that this device     *)
(* keeps for when the server has none or cannot be reached.  The panel     *)
(* may go and come back while its requests are under way, another device   *)
(* may save another time, and another account may log in on this one.      *)
(***************************************************************************)
EXTENDS Naturals, FiniteSets

CONSTANTS
  Seconds,     \* march times that can be entered
  MaxMounts, MaxSaves

\* null, in the column, in the store and in localStorage.
Unset == 0

ASSUME MarchAssumption == Seconds \subseteq Nat \ {Unset} /\ {MaxMounts, MaxSaves} \subseteq Nat

VARIABLES
  saved,       \* users.march_seconds
  myMarch,     \* store.myMarchSeconds
  kept,        \* localStorage 'wos-march-seconds'
  mount,       \* which mount of the panel it is
  panel,       \* does it stand, what does it show, what does it wait for
  request,     \* requests under way: kind, mount, value, done by the server
  saves,       \* how many there have been
  crossed      \* an answer was lost, the panel came back during a save, or the server's
               \* value became another under a standing panel or a request

marchVars == <<saved, myMarch, kept, mount, panel, request, saves, crossed>>

Values == Seconds \cup {Unset}
NoPanel == [on |-> FALSE, shows |-> Unset, loading |-> FALSE, saving |-> FALSE]

\* The copy may be of an earlier session, and of any account that used this device.
MarchInit ==
  /\ saved \in Values /\ kept \in Values /\ myMarch = Unset
  /\ mount = 0 /\ panel = NoPanel /\ request = {} /\ saves = 0 /\ crossed = FALSE

Asks(kind, n, v) == request' = request \cup {[kind |-> kind, mount |-> n, value |-> v, done |-> FALSE]}

\* It comes up and asks the server.
Mounts ==
  /\ ~panel.on /\ mount < MaxMounts /\ mount' = mount + 1
  /\ panel' = [NoPanel EXCEPT !.on = TRUE, !.loading = TRUE]
  /\ Asks("load", mount + 1, Unset)
  /\ crossed' = (crossed \/ \E r \in request : r.kind = "save")
  /\ UNCHANGED <<saved, myMarch, kept, saves>>

Unmounts ==
  /\ panel.on /\ panel' = NoPanel
  /\ UNCHANGED <<saved, myMarch, kept, mount, request, saves, crossed>>

\* handleSave; what is not a march time is saved as null.
Saves(v) ==
  /\ panel.on /\ ~panel.loading /\ ~panel.saving
  /\ saves < MaxSaves /\ saves' = saves + 1
  /\ panel' = [panel EXCEPT !.saving = TRUE]
  /\ Asks("save", mount, v)
  /\ UNCHANGED <<saved, myMarch, kept, mount, crossed>>

Carried(r, v) == request' = (request \ {r}) \cup {[r EXCEPT !.value = v, !.done = TRUE]}

\* GET /me/battle-settings.
ServerReads(r) ==
  /\ r \in request /\ r.kind = "load" /\ ~r.done /\ Carried(r, saved)
  /\ UNCHANGED <<saved, myMarch, kept, mount, panel, saves, crossed>>

\* PUT /me/battle-settings.
ServerWrites(r) ==
  /\ r \in request /\ r.kind = "save" /\ ~r.done /\ saved' = r.value /\ Carried(r, r.value)
  /\ UNCHANGED <<myMarch, kept, mount, panel, saves, crossed>>

\* What is adopted: the value of the server, or else the one of this device.
Adopted(v) == IF v # Unset THEN v ELSE kept

\* MUTANT of Awaited: the panel that asked may be gone.
AwaitedByAny(r) == TRUE

\* cancelled is not set.
Awaited(r) == panel.on /\ r.mount = mount

\* The answer to the load; on an error the copy of this device counts.
Loaded(r, v) ==
  /\ request' = request \ {r}
  /\ IF Awaited(r)
     THEN /\ myMarch' = Adopted(v)
          /\ panel' = [panel EXCEPT !.shows = Adopted(v), !.loading = FALSE]
     ELSE UNCHANGED <<myMarch, panel>>
  /\ UNCHANGED <<saved, kept, mount, saves>>

LoadArrives(r) == r \in request /\ r.kind = "load" /\ r.done /\ Loaded(r, r.value) /\ UNCHANGED crossed
LoadFails(r) == r \in request /\ r.kind = "load" /\ Loaded(r, Unset) /\ crossed' = TRUE

Waiting(r, shows) == panel' = IF Awaited(r) THEN [panel EXCEPT !.saving = FALSE, !.shows = shows] ELSE panel

\* MUTANT of Stored: only the panel is told.
StoredInPanel(v) == UNCHANGED <<myMarch, kept>>

\* What has been saved goes to the store and to this device.
Stored(v) == myMarch' = v /\ kept' = v

SaveArrives(r) ==
  /\ r \in request /\ r.kind = "save" /\ r.done /\ request' = request \ {r}
  /\ Stored(r.value) /\ Waiting(r, r.value)
  /\ UNCHANGED <<saved, mount, saves, crossed>>

\* It is refused, or its answer is lost.
SaveFails(r) ==
  /\ r \in request /\ r.kind = "save" /\ request' = request \ {r}
  /\ Waiting(r, panel.shows) /\ crossed' = (crossed \/ r.done)
  /\ UNCHANGED <<saved, myMarch, kept, mount, saves>>

\* Another device of this account saves, or another account logs in here; the copy of
\* this device stays as it is.
SavedElsewhere(v) ==
  /\ v # saved /\ saved' = v
  /\ crossed' = (crossed \/ panel.on \/ request # {})
  /\ UNCHANGED <<myMarch, kept, mount, panel, request, saves>>

MarchNext ==
  \/ Mounts \/ Unmounts \/ \E v \in Values : Saves(v) \/ SavedElsewhere(v)
  \/ \E r \in request : \/ ServerReads(r) \/ ServerWrites(r)
                         \/ LoadArrives(r) \/ LoadFails(r) \/ SaveArrives(r) \/ SaveFails(r)

-----------------------------------------------------------------------------
MarchTypeOK ==
  /\ {saved, myMarch, kept, panel.shows} \subseteq Values
  /\ mount \in 0..MaxMounts /\ saves \in 0..MaxSaves
  /\ \A r \in request : r.mount \in 1..mount /\ r.value \in Values

\* The departure that is spoken is the one that was saved, and without one on the server
\* the one that this device keeps, whoever left it there: when nothing is under way the
\* store and the panel agree on it, whatever answers came late to a panel that had gone,
\* unless an answer was lost or something crossed.
MarchAgrees ==
  (panel.on /\ request = {} /\ ~crossed) =>
    myMarch = Adopted(saved) /\ panel.shows = Adopted(saved) /\ ~panel.loading /\ ~panel.saving
=============================================================================
