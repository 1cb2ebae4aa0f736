------------------------- MODULE MCProductRepository -------------------------
(* Finite instances of ProductRepository for TLC. *)
EXTENDS ProductRepository, TLC

\* Two bodies that are accepted and differ in price and stock; MaxInt is 3, so
\* two units at price 2 make a total that no longer fits the column.
TwoPayloads == {[price |-> 1, stock |-> 2], [price |-> 2, stock |-> 2]}

\* The same, a stock of zero, and a price that does not fit the column.
EdgePayloads == {[price |-> 2, stock |-> 2], [price |-> 1, stock |-> 0], [price |-> 4, stock |-> 1]}

\* One body that is accepted and one whose price does not fit.
CachePayloads == {[price |-> 2, stock |-> 2], [price |-> 4, stock |-> 1]}

\* The shop opens with one product; a second id, where there is one, is free.
OneProduct ==
    LET first == CHOOSE id \in Products : TRUE IN
    [id \in Products |-> IF id = first THEN [price |-> 1, stock |-> 2] ELSE None]

Symmetry == Permutations(Requests)
=============================================================================
