-------------------------- MODULE ReadyNegotiation --------------------------
(***************************************************************************)
(* How far ahead a countdown is set                                        *)
(* (server/src/realtime/ready-negotiation.service.ts, useReadyProbe.js):   *)
(* the sockets are probed, whoever does not answer counts as slow as the   *)
(* limit, and the delay covers the upper percentile of the round trips.    *)
(* The sockets are told apart by nothing but their answers, so they are    *)
(* counted.                                                                *)
(***************************************************************************)
EXTENDS Integers, FiniteSets, FiniteSetsExt

CONSTANTS
  Crowds,           \* possible numbers of connected sockets
  RoundTrips,       \* of the answers
  OutlierRtt, FallbackRtt, Margin, MaxGrace,
  Percent           \* GRACE_PERCENTILE, in hundredths

ASSUME NegotiationAssumption ==
  /\ Crowds \subseteq Nat /\ RoundTrips \subseteq Nat
  /\ IsFiniteSet(RoundTrips)
  /\ {OutlierRtt, FallbackRtt, Margin, MaxGrace} \subseteq Nat /\ Percent \in 1..100
  /\ FallbackRtt <= OutlierRtt /\ 2 * OutlierRtt + Margin <= MaxGrace

\* What a probe comes to.
Outcomes == {[kind |-> "ack", rtt |-> r] : r \in RoundTrips}
              \cup {[kind |-> "timeout", rtt |-> 0], [kind |-> "invalid", rtt |-> 0]}

VARIABLES
  connected, authenticated,  \* sockets, and those of them in the online map
  asked,                     \* probes without an outcome; -1 before the start
  tally,                     \* how many had each outcome
  grace                      \* what is added to the time of the answer, or -1

negotiationVars == <<connected, authenticated, asked, tally, grace>>

NegotiationInit ==
  /\ connected \in Crowds /\ authenticated \in 0..connected
  /\ authenticated \in {0, connected} \cup Crowds
  /\ asked = -1 /\ tally = [o \in Outcomes |-> 0] /\ grace = -1

\* MUTANT of Targets: those who cannot answer are asked too.
TargetsAll == connected

\* selectProbeTargets: the authenticated ones, or all when there are none.
Targets == IF authenticated > 0 THEN authenticated ELSE connected

\* negotiateStartedAt: nobody is there, or everybody is probed.
Negotiates ==
  /\ asked = -1 /\ asked' = Targets
  /\ grace' = IF Targets = 0 THEN Margin ELSE grace
  /\ UNCHANGED <<connected, authenticated, tally>>

\* MUTANT of ToRtt: as it was, what is too slow is taken for ordinary.
ToRttAsOrdinary(o) == IF o.kind = "ack" /\ o.rtt <= OutlierRtt THEN o.rtt ELSE FallbackRtt

\* toRtt: clamped; who did not answer counts as the limit, who answered nonsense does not.
ToRtt(o) ==
  CASE o.kind = "ack" -> Min({o.rtt, OutlierRtt})
    [] o.kind = "timeout" -> OutlierRtt
    [] OTHER -> FallbackRtt

HowMany(outcomes) == MapThenSumSet(LAMBDA o : tally[o], outcomes)
Answered == HowMany(Outcomes)

\* MUTANT of Rank: one below.
RankBelow == Max({(Percent * Answered) \div 100, 1})

\* The nearest rank of the percentile, ceil(p * n), at least one.
Rank == Max({-((-Percent * Answered) \div 100), 1})

\* calcPercentile: the value at that rank of the sorted round trips.
TailRtt == Min({ToRtt(o) : o \in {x \in Outcomes : HowMany({y \in Outcomes : ToRtt(y) <= ToRtt(x)}) >= Rank}})

\* The last outcome is in.
Decides ==
  /\ asked = 0 /\ grace = -1
  /\ grace' = Min({2 * TailRtt + Margin, MaxGrace})
  /\ UNCHANGED <<connected, authenticated, asked, tally>>

\* A browser answers, in or out of shape; only one that is logged in listens.
Acks(o) ==
  /\ asked > 0 /\ o.kind # "timeout"
  /\ HowMany({x \in Outcomes : x.kind # "timeout"}) < authenticated
  /\ asked' = asked - 1 /\ tally' = [tally EXCEPT ![o] = @ + 1]
  /\ UNCHANGED <<connected, authenticated, grace>>

\* MUTANT of Deadline: the probes stay open, and end again.
DeadlineAgain ==
  /\ asked > 0 /\ UNCHANGED asked
  /\ tally' = [tally EXCEPT ![[kind |-> "timeout", rtt |-> 0]] = @ + asked]
  /\ UNCHANGED <<connected, authenticated, grace>>

\* The deadline: the probes were sent together.
Deadline ==
  /\ asked > 0 /\ asked' = 0
  /\ tally' = [tally EXCEPT ![[kind |-> "timeout", rtt |-> 0]] = @ + asked]
  /\ UNCHANGED <<connected, authenticated, grace>>

NegotiationNext == Negotiates \/ Decides \/ Deadline \/ \E o \in Outcomes : Acks(o)

NegotiationFairness == WF_negotiationVars(Decides) /\ WF_negotiationVars(Deadline)

-----------------------------------------------------------------------------
NegotiationTypeOK ==
  /\ connected \in Crowds /\ authenticated \in 0..connected /\ asked \in -1..connected
  /\ \A o \in Outcomes : tally[o] \in 0..connected
  /\ grace \in -1..MaxGrace

\* What a client needs: both ways, up to the limit; one that does not answer as much as
\* the limit.
Needs(o) == CASE o.kind = "ack" -> 2 * Min({o.rtt, OutlierRtt}) [] o.kind = "timeout" -> 2 * OutlierRtt [] OTHER -> 0

\* At most one client in twenty is left without the time that it needs, however many
\* they are, and nobody makes the others wait longer than the limit allows.
GraceCovers ==
  grace # -1 =>
    /\ 100 * HowMany({o \in Outcomes : Needs(o) + Margin > grace}) <= (100 - Percent) * Answered
    /\ grace <= 2 * OutlierRtt + Margin

\* Whoever cannot answer, being logged out, slows nobody down: when all who are logged
\* in have answered in time, the delay is what the slowest of them needs, or less.
NobodyWaitedFor ==
  (grace # -1 /\ authenticated > 0 /\ HowMany({o \in Outcomes : o.kind = "ack"}) = authenticated) =>
    \E o \in Outcomes : tally[o] > 0 /\ grace <= Needs(o) + Margin /\ o.kind = "ack"

=============================================================================
