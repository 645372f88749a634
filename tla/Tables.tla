-------------------------------- MODULE Tables --------------------------------
(***************************************************************************)
(* What the administrative components share.  A table is a function from   *)
(* the ids that have been inserted to their rows.                          *)
(***************************************************************************)
EXTENDS Integers, FiniteSets

CONSTANTS
    Tenants,
    None,    \* SQL NULL
    Absent   \* undefined: a field the DTO does not carry

Insert(table, id, row) ==
    [x \in DOMAIN table \cup {id} |-> IF x = id THEN row ELSE table[x]]

=============================================================================
