---------------------------- MODULE MCRemoteScorer ----------------------------
(* Instance of RemoteScorer for TLC.  The exponential is exact at whole       *)
(* half-lives and linear between them.                                        *)
EXTENDS RemoteScorer, TLC

CONSTANTS g1, g2, g3, c1

MCHalving(age, life) ==
    IF age >= 20 * life THEN 1
    ELSE Max({1, (1000 * ((2 * life) - (age % life))) \div (2 * life * (2 ^ (age \div life)))})

Incident(t, s) == [type |-> t, severity |-> s]
Sample(stay, q, incidents, commendations, dispute) ==
    [stay |-> stay, q |-> q, submittedAt |-> 0, incidents |-> incidents,
     commendations |-> commendations, dispute |-> dispute]

Praise == <<"exceptional_room_care", "staff_commendation", "accommodating",
            "repeat_stay", "referral">>

\* Two perfect stays reach the top of the scale, the terrible one its bottom.
Perfect  == Sample("perfect", 500, <<>>, Praise \o Praise, "none")
Lovely   == Sample("lovely", 500, <<>>, Praise \o Praise, "none")
Damaged  == Sample("damaged", 500, <<Incident("property_damage", "severe")>>,
                   Praise \o Praise, "rejected")
Terrible == Sample("terrible", 100, <<Incident("house_rules_violation", "severe"),
                                      Incident("general_misconduct", "severe"),
                                      Incident("payment_issue", "severe"),
                                      Incident("unauthorized_guests", "severe"),
                                      Incident("property_damage", "severe")>>,
                   <<>>, "none")
Disputed == Sample("disputed", 100, <<Incident("payment_issue", "moderate")>>, <<>>, "open")
Upheld   == Sample("upheld", 200, <<Incident("property_damage", "minor")>>, <<>>, "upheld")

\* The guest with a record stands between two without.
MCListing  == <<g2, g1, g3>>
MCSamples  == g1 :> {Perfect, Lovely, Damaged, Terrible, Disputed, Upheld}
              @@ g2 :> {} @@ g3 :> {}
MCMaxStays == g1 :> 2 @@ g2 :> 0 @@ g3 :> 0
MCLags     == {-240, 1}
=============================================================================
