---------------------------- MODULE MCFileStore ----------------------------
(* Instance of FileStore for TLC: two guests, one document, two reviews of *)
(* two stays, one inquiry, and a seed of one guest holding the document.   *)
EXTENDS FileStore, TLC

CONSTANTS e1, e2, d1, r1, r2, s1, s2

MCSeed ==
    [guests    |-> (1 :> [email |-> e1, docs |-> {d1}]) @@ [g \in GuestIds |-> Absent],
     reviews   |-> (r1 :> [guest |-> 1, stay |-> s1]) @@ [r \in ReviewIds |-> Absent],
     inquiries |-> <<>>]

MCGuestIds == 1..MaxGuestId
=============================================================================
