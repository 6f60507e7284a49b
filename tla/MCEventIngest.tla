--------------------------- MODULE MCEventIngest ---------------------------
(* Instance of EventIngest for TLC: a record of a stay by a guest named by   *)
(* global id, and an event of any kind about the same stay, sent up to twice *)
(* by a property that names the guest by id.                                 *)
EXTENDS EventIngest, TLC

CONSTANTS report, other, g1, s1

MCKindsOf  == report :> {"record"} @@ other :> Kinds
MCGuestOf  == [e \in Events |-> g1]
MCStayOf   == [e \in Events |-> s1]
MCMaxSends == report :> 1 @@ other :> 2
=============================================================================
