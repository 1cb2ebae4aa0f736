--------------------------- MODULE InventoryLedger ---------------------------
(***************************************************************************)
(* What the two tables `products` and `transactions` promise to the rest   *)
(* of the shop, whatever the interleaving of requests: they change only by *)
(* the four atomic steps below.  A sale takes its units off the shelf,     *)
(* writes its row, and charges the price of that very moment, in one step. *)
(* ProductRepository is shown to implement this module.                    *)
(***************************************************************************)
EXTENDS Integers, Sequences

CONSTANTS Products,   \* the ids products_id_seq can hand out
          Users,      \* the customers
          MaxInt,     \* the largest value of a Postgres INT column
          Seed,       \* the products the shop opens with
          None        \* "no such row"

VARIABLES products,      \* [Products -> Row \cup {None}]
          transactions   \* the rows of table transactions, oldest first

\* A stored row; the name of the product is left out.
Row == [price : 1..MaxInt, stock : 0..MaxInt]
Sale == [user : Users, product : Products, quantity : 1..MaxInt, total : 1..MaxInt]

Sold(id) == \E i \in DOMAIN transactions : transactions[i].product = id

LedgerInit ==
    /\ products = Seed
    /\ transactions = << >>

\* INSERT of a product: under an id that no row and no sale ever had.
AddProduct(id, row) ==
    /\ products[id] = None
    /\ ~Sold(id)
    /\ products' = [products EXCEPT ![id] = row]
    /\ UNCHANGED transactions

ReplaceProduct(id, row) ==
    /\ products[id] # None
    /\ products' = [products EXCEPT ![id] = row]
    /\ UNCHANGED transactions

\* The foreign key fk_product keeps every product that was ever sold.
RemoveProduct(id) ==
    /\ products[id] # None
    /\ ~Sold(id)
    /\ products' = [products EXCEPT ![id] = None]
    /\ UNCHANGED transactions

Sell(user, id, quantity) ==
    LET total == products[id].price * quantity IN
    /\ products[id] # None
    /\ quantity <= products[id].stock
    /\ total <= MaxInt
    /\ products' = [products EXCEPT ![id].stock = @ - quantity]
    /\ transactions' = Append(transactions, [user |-> user, product |-> id,
                                             quantity |-> quantity, total |-> total])

LedgerNext ==
    \/ \E id \in Products, row \in Row : AddProduct(id, row)
    \/ \E id \in Products, row \in Row : ReplaceProduct(id, row)
    \/ \E id \in Products : RemoveProduct(id)
    \/ \E user \in Users, id \in Products, quantity \in 1..MaxInt :
            Sell(user, id, quantity)

LedgerSpec == LedgerInit /\ [][LedgerNext]_<<products, transactions>>
=============================================================================
