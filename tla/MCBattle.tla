------------------------------ MODULE MCBattle ------------------------------
(***************************************************************************)
(* Small instances of Battle for TLC.  One tick stands for about a second; *)
(* the lead, the graces and the marches keep their order, not their size.  *)
(***************************************************************************)
EXTENDS Battle, TLC

\* One member: a single fire when the lead is over.
OneFire == {[march |-> 1, span |-> 0]}

\* Also two members, the faster of whom fires a tick after the slower one.
OneOrTwoFires == {[march |-> 1, span |-> 0], [march |-> 1, span |-> 1]}

NoSchedules == {}

CallSymmetry == Permutations(CdCalls)

BattleSymmetry ==
  Permutations(RallyCalls) \cup Permutations(CdCalls) \cup Permutations(Groups)
=============================================================================
