----------------------------- MODULE Inventory ------------------------------
(***************************************************************************)
(* What the marketplace promises of its stock: placing an order and taking *)
(* its quantity off the shelf is one step, and nothing is sold that is not *)
(* on the shelf.  A sale is all that a customer does to the stock; what is *)
(* supplied or removed is the shop's own doing.  Marketplace.tla has the   *)
(* steps in which OrderController carries this out.                        *)
(***************************************************************************)
EXTENDS Integers

CONSTANTS Products, Orders, Labels, NoRow,
          Quantities    \* natural numbers that orders and supplies name

VARIABLES
  shelf,   \* for each product, its quantity and label, or NoRow
  book     \* for each order, its product and quantity, or NoRow

Sold == {p \in Products : \E o \in Orders :
                            book[o] # NoRow /\ book[o].product = p}

Take(p, n) == shelf' = [shelf EXCEPT ![p].quantity = @ - n]

Place(o, p, n) ==
  /\ book[o] = NoRow /\ shelf[p] # NoRow
  /\ n <= shelf[p].quantity
  /\ book' = [book EXCEPT ![o] = [product |-> p, quantity |-> n]]
  /\ Take(p, n)

\* Orders are removed from the book; what they took stays taken.
Forget(S) ==
  /\ book' = [o \in Orders |-> IF o \in S THEN NoRow ELSE book[o]]
  /\ UNCHANGED shelf

Supply(p, row) ==
  /\ shelf' = [shelf EXCEPT ![p] = row]
  /\ UNCHANGED book

\* Products that no order names are removed.
Withdraw(S) ==
  /\ S \cap Sold = {}
  /\ shelf' = [p \in Products |-> IF p \in S THEN NoRow ELSE shelf[p]]
  /\ UNCHANGED book

Item == [quantity : Quantities, label : Labels]

Init == /\ shelf \in [Products -> Item \cup {NoRow}]
        /\ book = [o \in Orders |-> NoRow]

\* The sale of n items of p.
Sell(p, n) == \E o \in Orders : Place(o, p, n)

\* What the shop does itself.
Manage ==
  \/ \E S \in SUBSET Orders : Forget(S)
  \/ \E p \in Products, row \in Item : Supply(p, row)
  \/ \E S \in SUBSET Products : Withdraw(S)

Next == Manage \/ \E p \in Products, n \in Quantities : Sell(p, n)

Spec == Init /\ [][Next]_<<shelf, book>>

TypeOK == /\ shelf \in [Products -> [quantity : Nat, label : Labels]
                                       \cup {NoRow}]
          /\ book \in [Orders -> [product : Products, quantity : Nat]
                                   \cup {NoRow}]

\* Every order is for a product that is still in the catalogue.
OrdersHaveProducts == \A p \in Sold : shelf[p] # NoRow
=============================================================================
