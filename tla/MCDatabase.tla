------------------------------ MODULE MCDatabase ------------------------------
(***************************************************************************)
(* Names to create tables with, one of them in either case.  The other     *)
(* words are interchangeable: the database only ever compares them.        *)
(***************************************************************************)
EXTENDS Database

CONSTANTS
  Shouted,    \* a word written in lower or upper case
  Words       \* words written in lower case only

MCNames ==
  {[word |-> w, upper |-> FALSE] : w \in Words}
    \cup {[word |-> Shouted, upper |-> u] : u \in BOOLEAN}

Symmetry == Permutations(Words)

=============================================================================
