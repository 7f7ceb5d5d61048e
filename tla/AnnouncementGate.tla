-------------------------- MODULE AnnouncementGate --------------------------
(***************************************************************************)
(* What the battle tab is promised about starting voice countdowns         *)
(* (docs/superpowers/plans/2026-04-26-countdown-mutex-and-auto-reset.md):  *)
(* one announcement at a time may hold the gate, nobody takes it from its  *)
(* holder, and it always opens again.                                      *)
(***************************************************************************)
CONSTANTS Announcements, Nobody

VARIABLE holder

Init == holder = Nobody

Enter(a) == holder = Nobody /\ holder' = a

Leave == holder # Nobody /\ holder' = Nobody

Next == Leave \/ \E a \in Announcements : Enter(a)

Spec == Init /\ [][Next]_holder /\ WF_holder(Leave)
=============================================================================
