--------------------------- MODULE MCSilverIdentity ---------------------------
EXTENDS SilverIdentity

(* Identity: one code in two collections, a shared DOI, a record without a year. *)
SomeMetas ==
  {[code |-> 1, doi |-> 1, kind |-> 1, year |-> TRUE], [code |-> 2, doi |-> 1, kind |-> 1, year |-> TRUE],
   [code |-> 1, doi |-> 0, kind |-> 2, year |-> TRUE], [code |-> 2, doi |-> 0, kind |-> 1, year |-> FALSE]}
=============================================================================
