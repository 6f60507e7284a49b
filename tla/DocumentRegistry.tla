-------------------------- MODULE DocumentRegistry --------------------------
(***************************************************************************)
(* What the bureau promises about identity documents (migrations/          *)
(* 0001_init.sql, invariant 1): a document belongs to at most one file,    *)
(* and once it does, it stays there.  Files are opened with the documents  *)
(* presented, in one step, and more documents may be attached later.       *)
(***************************************************************************)
CONSTANTS
    GuestIds,  \* identifiers of guest files
    Docs,      \* document hashes
    None       \* no file

VARIABLES
    files,  \* the files that have been opened
    owner   \* the file each document belongs to

regVars == <<files, owner>>

RegTypeOK == files \subseteq GuestIds /\ owner \in [Docs -> files \cup {None}]

RegInit == files = {} /\ owner = [d \in Docs |-> None]

OpenFile(g, docs) ==
    /\ g \notin files
    /\ \A d \in docs : owner[d] = None
    /\ files' = files \cup {g}
    /\ owner' = [d \in Docs |-> IF d \in docs THEN g ELSE owner[d]]

Attach(g, d) ==
    /\ g \in files
    /\ owner[d] = None
    /\ owner' = [owner EXCEPT ![d] = g]
    /\ UNCHANGED files

RegNext ==
    \/ \E g \in GuestIds, docs \in SUBSET Docs : OpenFile(g, docs)
    \/ \E g \in GuestIds, d \in Docs : Attach(g, d)

RegSpec == RegInit /\ [][RegNext]_regVars

\* A document never moves from one file to another: a guest cannot outrun a
\* record by having the document opened a second time.
DocumentsStay ==
    [][\A d \in Docs : owner[d] # None => owner'[d] = owner[d]]_regVars
=============================================================================
