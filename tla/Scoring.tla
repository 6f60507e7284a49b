-------------------------------- MODULE Scoring --------------------------------
(***************************************************************************)
(* The scoring engine of internal/scoring: Compute and the functions it is *)
(* made of, in integers.                                                   *)
(*                                                                         *)
(* Points are in tenths, the precision a score is shown with, and rounded  *)
(* down at every step, where the code keeps floating point and rounds once *)
(* at the end.  Quality is in thousandths of a rating point, weights in    *)
(* thousandths, ages in whole days.  A review carries its quality q, the   *)
(* weighted sum of its five ratings in hundredths (the dimensions only     *)
(* matter to the explanation, which is left out), its incidents and        *)
(* commendations as sequences, and the state of its dispute.               *)
(***************************************************************************)
EXTENDS Integers, Sequences, FiniteSets, FiniteSetsExt

CONSTANTS
    Halving(_, _),  \* (age, half-life): 1000 * 2^(-age / half-life)
    Span            \* the largest age Halving is asked for

\* 2^(-x) as far as the model needs it: it starts at one, falls, and never
\* reaches zero within the span.
ASSUME HalvingAssumption ==
    \A life \in {180, 270, 365, 693} :
        /\ Halving(0, life) = 1000
        /\ \A age \in 1..Span :
               Halving(age, life) \in 1..Halving(age - 1, life)

DefaultTiers ==
    <<[min |-> 8000, name |-> "Excellent", deposit |-> 25,  flagged |-> FALSE],
      [min |-> 7000, name |-> "Good",      deposit |-> 50,  flagged |-> FALSE],
      [min |-> 5000, name |-> "Fair",      deposit |-> 100, flagged |-> FALSE],
      [min |-> 0,    name |-> "Poor",      deposit |-> 200, flagged |-> TRUE]>>

DefaultModel ==
    [reviewHalfLife       |-> 365,
     incidentHalfLife     |-> 180,
     commendationHalfLife |-> 270,
     priorMean            |-> 390,
     priorStrength        |-> 3000,
     scoreMin             |-> 0,
     scoreMax             |-> 10000,
     newGuestScore        |-> 5000,
     anchorQuality        |-> 3900,
     anchorScore          |-> 6000,
     pointsPerUp          |-> 3180,
     pointsPerDown        |-> 1720,
     tenurePointsPerYear  |-> 1000,
     tenureMaxPoints      |-> 1000,
     softCeilingStart     |-> 9000,
     softFloorStart       |-> 1000,
     tiers                |-> DefaultTiers]

\* Whole points, before severity and age.
BasePenalty ==
    [house_rules_violation |-> 100, general_misconduct |-> 90,
     unauthorized_guests |-> 70, payment_issue |-> 65, property_damage |-> 56,
     noise_complaint |-> 50, late_checkout |-> 25]

\* Tenths.
Multiplier == [minor |-> 5, moderate |-> 10, severe |-> 18]

BaseBonus ==
    [exceptional_room_care |-> 30, staff_commendation |-> 25,
     accommodating |-> 20, repeat_stay |-> 15, referral |-> 15]

Incidents == [type : DOMAIN BasePenalty, severity : DOMAIN Multiplier]

Reviews(stays) ==
    [stay : stays, q : 100..500, submittedAt : Int, incidents : Seq(Incidents),
     commendations : Seq(DOMAIN BaseBonus),
     dispute : {"none", "open", "upheld", "rejected"}]

-----------------------------------------------------------------------------
(* Helpers of scoring.go.                                                   *)

\* Seeded fault: a record whose dispute was upheld counts again.
ScoreableUnlessOpen(r) == r.dispute # "open"

Scoreable(r) == r.dispute \notin {"open", "upheld"}

Age(r, now) == now - r.submittedAt

decay(age, halfLife) == IF age <= 0 THEN 1000 ELSE Halving(age, halfLife)

\* exp(-x) is 2^(-x / 0.693).
Fraction(x, headroom) == Halving(x, (headroom * 693) \div 1000)

clamp(v, lo, hi) == Max({lo, Min({hi, v})})

\* Seeded fault: the floor is rounded off with the ceiling's formula.
saturateFloorAsCeiling(v, m) ==
    LET above == m.scoreMax - m.softCeilingStart
        below == m.softFloorStart - m.scoreMin
    IN  IF v > m.softCeilingStart
        THEN m.scoreMax - (above * Fraction(v - m.softCeilingStart, above)) \div 1000
        ELSE IF v < m.softFloorStart
        THEN m.softFloorStart
               - (below * Fraction(m.softFloorStart - v, below)) \div 1000
        ELSE clamp(v, m.scoreMin, m.scoreMax)

saturate(v, m) ==
    LET above == m.scoreMax - m.softCeilingStart
        below == m.softFloorStart - m.scoreMin
    IN  IF m.softCeilingStart > m.scoreMin /\ v > m.softCeilingStart
        THEN IF above <= 0 THEN m.scoreMax
             ELSE m.scoreMax
                    - (above * Fraction(v - m.softCeilingStart, above)) \div 1000
        ELSE IF m.softFloorStart < m.scoreMax /\ v < m.softFloorStart
        THEN IF below <= 0 THEN m.scoreMin
             ELSE m.scoreMin
                    + (below * Fraction(m.softFloorStart - v, below)) \div 1000
        ELSE clamp(v, m.scoreMin, m.scoreMax)

qualityToScore(quality, m) ==
    IF quality >= m.anchorQuality
    THEN m.anchorScore + ((quality - m.anchorQuality) * m.pointsPerUp) \div 1000
    ELSE m.anchorScore - ((m.anchorQuality - quality) * m.pointsPerDown) \div 1000

confidenceFor(effective) ==
    IF effective <= 0 THEN "none"
    ELSE IF effective < 1500 THEN "low"
    ELSE IF effective < 4000 THEN "medium"
    ELSE "high"

\* The first tier, from the top, whose floor has been reached.
tierFor(score, m) ==
    LET reached == {i \in DOMAIN m.tiers : score >= m.tiers[i].min}
    IN  m.tiers[IF reached = {} THEN Len(m.tiers) ELSE Min(reached)]

\* Seeded fault: the tier the guest is in is taken for the next one.
nextTierAtOrAbove(score, m) ==
    LET above == {i \in DOMAIN m.tiers : m.tiers[i].min >= score}
    IN  IF above = {} THEN "" ELSE m.tiers[Max(above)].name

\* Tiers are ordered, so the lowest floor above is the last one.
nextTierAbove(score, m) ==
    LET above == {i \in DOMAIN m.tiers : m.tiers[i].min > score}
    IN  IF above = {} THEN "" ELSE m.tiers[Max(above)].name

tierFloor(name, m) ==
    LET named == {i \in DOMAIN m.tiers : m.tiers[i].name = name}
    IN  IF named = {} THEN 0 ELSE m.tiers[Min(named)].min

-----------------------------------------------------------------------------
(* Handling: what the desk is told to do.                                   *)

Recent(reviews, now, days) ==
    {r \in reviews : Age(r, now) <= days /\ r.incidents # <<>>}

Serious(incident) ==
    incident.severity = "severe" \/ incident.type = "property_damage"

RecentSevere(reviews, now) ==
    \E r \in Recent(reviews, now, 240) :
        \E i \in DOMAIN r.incidents : Serious(r.incidents[i])

\* Seeded fault: a recent serious incident is looked at before the score.
handlingForIncidentFirst(score, conf, reviews, now, m) ==
    IF RecentSevere(reviews, now) THEN "watch"
    ELSE IF score < tierFloor("Fair", m) THEN "escalate"
    ELSE IF /\ score >= tierFloor("Excellent", m) /\ conf # "low"
            /\ Recent(reviews, now, 365) = {}
    THEN "vip_treatment"
    ELSE "standard"

\* The tiers' order makes "below Good" part of "not Excellent".
handlingFor(score, conf, reviews, now, m) ==
    IF score < tierFloor("Fair", m) THEN "escalate"
    ELSE IF RecentSevere(reviews, now) THEN "watch"
    ELSE IF /\ score >= tierFloor("Excellent", m) /\ conf # "low"
            /\ Recent(reviews, now, 365) = {}
    THEN "vip_treatment"
    ELSE "standard"

-----------------------------------------------------------------------------
(* Compute, for a nonempty set of scoreable reviews.                        *)

Weight(reviews, now, m) ==
    SumFunction([r \in reviews |-> decay(Age(r, now), m.reviewHalfLife)])

\* Shrinkage toward the prior: thousandths of a rating point.
Adjusted(reviews, now, m) ==
    (10 * (m.priorMean * m.priorStrength
           + SumFunction([r \in reviews |-> r.q * decay(Age(r, now), m.reviewHalfLife)])))
    \div (m.priorStrength + Weight(reviews, now, m))

Base(reviews, now, m) ==
    clamp(qualityToScore(Adjusted(reviews, now, m), m), m.scoreMin, m.scoreMax)

Tenure(reviews, now, m) ==
    LET oldest == Max({0} \cup {Age(r, now) : r \in reviews})
    IN  Min({m.tenureMaxPoints, (oldest * m.tenurePointsPerYear) \div 365})

PenaltyOf(incident, age, m) ==
    (BasePenalty[incident.type] * Multiplier[incident.severity]
        * decay(age, m.incidentHalfLife)) \div 1000

Penalty(reviews, now, m) ==
    SumFunction([r \in reviews |->
        SumFunction([i \in DOMAIN r.incidents |->
            PenaltyOf(r.incidents[i], Age(r, now), m)])])

BonusOf(commendation, age, m) ==
    (10 * BaseBonus[commendation] * decay(age, m.commendationHalfLife)) \div 1000

Bonus(reviews, now, m) ==
    SumFunction([r \in reviews |->
        SumFunction([i \in DOMAIN r.commendations |->
            BonusOf(r.commendations[i], Age(r, now), m)])])

Raw(reviews, now, m) ==
    Base(reviews, now, m) + Bonus(reviews, now, m) + Tenure(reviews, now, m)

\* Seeded fault: everything at once, clamped.
CompositeAtOnce(reviews, now, m) ==
    clamp(Raw(reviews, now, m) - Penalty(reviews, now, m), m.scoreMin, m.scoreMax)

\* Lifted first, then deducted from.
Composite(reviews, now, m) ==
    saturate(saturate(Raw(reviews, now, m), m) - Penalty(reviews, now, m), m)

Opening(disputed, m) ==
    LET next == nextTierAbove(m.newGuestScore, m)
    IN  [rated |-> FALSE, composite |-> m.newGuestScore, tier |-> "New",
         deposit |-> tierFor(m.newGuestScore, m).deposit, flagged |-> FALSE,
         next |-> next, gap |-> tierFloor(next, m) - m.newGuestScore,
         confidence |-> "none", handling |-> "insufficient_data",
         stays |-> 0, disputed |-> disputed]

Earned(reviews, disputed, now, m) ==
    LET composite == Composite(reviews, now, m)
        tier      == tierFor(composite, m)
        next      == nextTierAbove(composite, m)
        conf      == confidenceFor(Weight(reviews, now, m))
    IN  [rated |-> TRUE, composite |-> composite, tier |-> tier.name,
         deposit |-> tier.deposit, flagged |-> tier.flagged,
         next |-> next,
         gap |-> IF next = "" THEN 0 ELSE tierFloor(next, m) - composite,
         confidence |-> conf,
         handling |-> handlingFor(composite, conf, reviews, now, m),
         stays |-> Cardinality(reviews), disputed |-> disputed]

Compute(all, now, m) ==
    LET reviews  == {r \in all : Scoreable(r)}
        disputed == Cardinality(all \ reviews)
    IN  IF reviews = {} THEN Opening(disputed, m)
        ELSE Earned(reviews, disputed, now, m)
=============================================================================
