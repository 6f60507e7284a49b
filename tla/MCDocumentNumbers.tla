--------------------------- MODULE MCDocumentNumbers ---------------------------
(* Instance of DocumentNumbers for TLC: every document with a check character. *)
EXTENDS DocumentNumbers

MCDocuments == {"aadhaar", "emirates_id", "nric"}
=============================================================================
