\* Every number of every document with a check character, one slip in each.
CONSTANT Documents <- MCDocuments

SPECIFICATION Spec

INVARIANT SlipIsCaught
