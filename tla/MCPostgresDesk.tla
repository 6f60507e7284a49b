--------------------------- MODULE MCPostgresDesk ---------------------------
(* Instance of PostgresDesk for TLC: two concurrent requests over two file  *)
(* identifiers, two documents and one typed address.                        *)
EXTENDS PostgresDesk, TLC

\* Neither the requests, the identifiers nor the documents are ever compared
\* but for equality, and no property is a liveness property.
Symmetry == Permutations(Desks) \cup Permutations(GuestIds) \cup Permutations(Docs)
=============================================================================
