------------------------------ MODULE MCDirectory ------------------------------
(* Instance of Directory for TLC: two namesakes and a third guest, records     *)
(* that leave the opening score upwards and downwards.                         *)
EXTENDS Directory, TLC

CONSTANTS g1, g2, g3

MCHalving(age, life) ==
    IF age >= 20 * life THEN 1
    ELSE Max({1, (1000 * ((2 * life) - (age % life))) \div (2 * life * (2 ^ (age \div life)))})

MCId   == g1 :> 1 @@ g2 :> 2 @@ g3 :> 3
MCName == g1 :> 1 @@ g2 :> 1 @@ g3 :> 2

\* "gs" is part of every global id and of no name.
MCByName     == "" :> {g1, g2, g3} @@ "ann" :> {g1, g2} @@ "gs" :> {}
MCByGlobalID == "" :> {} @@ "ann" :> {} @@ "gs" :> {g1, g2, g3}

Asked(kind, text, tier, incidents, sort) ==
    [kind |-> kind, text |-> text, tier |-> tier, incidents |-> incidents, sort |-> sort]

MCQueries ==
    {Asked("list", "", "", FALSE, s) : s \in {"score", "name", "reviews", "recent"}}
        \cup {Asked("list", "ann", "New", FALSE, "score"), Asked("list", "", "", TRUE, "score"),
              Asked("list", "gs", "", FALSE, "score"),
              Asked("guests", "", "", FALSE, "score"), Asked("guests", "gs", "Poor", FALSE, "score"),
              Asked("search", "", "", FALSE, "composite"), Asked("search", "ann", "Poor", FALSE, "composite"),
              Asked("searchGuests", "", "", FALSE, "none"), Asked("searchGuests", "gs", "New", FALSE, "none"),
              Asked("stats", "", "", FALSE, "none")}

Incident(t, s) == [type |-> t, severity |-> s]
Sample(stay, q, incidents, out) ==
    [stay |-> stay, q |-> q, submittedAt |-> 0, checkOut |-> out, incidents |-> incidents,
     commendations |-> <<>>, dispute |-> "none"]

Fine     == Sample("fine", 500, <<>>, -1)
Bad      == Sample("bad", 100, <<Incident("house_rules_violation", "severe")>>, -9)
Upheld   == [Sample("upheld", 200, <<Incident("property_damage", "minor")>>, -2)
                EXCEPT !.dispute = "upheld"]

MCSamples  == g1 :> {Fine, Bad} @@ g2 :> {Bad} @@ g3 :> {Upheld, Fine}
MCMaxStays == g1 :> 1 @@ g2 :> 1 @@ g3 :> 1

\* 28 February, then 31 May of the second year; a review is filed a month after its date.
MCCalendar == {365 + 58, 365 + 150}
MCLags == {30}
=============================================================================
