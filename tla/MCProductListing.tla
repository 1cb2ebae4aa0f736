--------------------------- MODULE MCProductListing ---------------------------
(* Finite instances of ProductListing for TLC. *)
EXTENDS ProductListing

\* The default page, a limit that Postgres refuses, and a page so far out that
\* its offset wraps around (IntLimit is 16 in the runs: 2 * 8 does not fit).
EdgeQueries == {[page |-> 0, limit |-> 0], [page |-> 1, limit |-> -1], [page |-> 3, limit |-> 8]}
=============================================================================
