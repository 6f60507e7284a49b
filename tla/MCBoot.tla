-------------------------------- MODULE MCBoot --------------------------------
(* Instance of Boot for TLC: an old build, the next one, and one whose past   *)
(* was edited.  A desk may take the second key of a row of the seed (d1), or   *)
(* the id of one (d2).                                                        *)
EXTENDS Boot, TLC

CONSTANTS s1, s2, d1, d2

MCContents == {"a", "b", "A", "c"}
MCBuilds == {<<"a">>, <<"a", "b", "b">>, <<"A", "c">>}
MCSeeds == <<s1, s2>>
MCId == s1 :> 1 @@ s2 :> 2 @@ d1 :> 3 @@ d2 :> 1
MCUniqueKey == s1 :> 1 @@ s2 :> 2 @@ d1 :> 2 @@ d2 :> 3
=============================================================================
