---------------------------- MODULE Marketplace -----------------------------
(***************************************************************************)
(* The online marketplace (Term Project/omp): the threads of the web       *)
(* server that run the order, product and user endpoints on one database.  *)
(*                                                                         *)
(* place and update of OrderController carry no @Transactional (it is      *)
(* commented out): each repository call is a transaction of its own, and   *)
(* the entities found by the earlier calls stay in the request's session,  *)
(* as they were read.  A save writes every column of its entity from       *)
(* there, and nothing when no column differs from what was read.  All      *)
(* other endpoints are transactions, one action each.                      *)
(*                                                                         *)
(* A product row is its quantity and a label for its other columns; an     *)
(* order row is its user, product and quantity; a user row has only its id *)
(* left.                                                                   *)
(***************************************************************************)
EXTENDS Integers, FiniteSets

CONSTANTS
  Workers,      \* threads that handle requests
  MaxUsers, MaxProducts, MaxOrders,  \* bounds: rows ever inserted in a table
  Labels,       \* what the other columns of a product can hold
  Quantities,   \* bound: the quantities that requests name
  NoRow,        \* no such row, Optional.empty()
  NoId,         \* an OrderDTO without an id
  NoRequest,    \* what an idle worker handles
  Requests,     \* bound: the requests to /order/place and /order/update
  MaxRequests,  \* bound: such requests in a behaviour
  MaxChanges    \* bound: requests to the other endpoints in a behaviour

Users    == 1 .. MaxUsers
Products == 1 .. MaxProducts
Orders   == 1 .. MaxOrders

Product == [quantity : Nat, label : Labels]
Order   == [user : Users, product : Products, quantity : Nat]

PlaceRequest  == [op : {"place"}, id : Orders \cup {NoId}, user : Users,
                  product : Products, quantity : Nat]
UpdateRequest == [op : {"update"}, id : Orders, user : Users,
                  product : Products, quantity : Nat]

ASSUME MarketAssumption ==
  /\ {MaxUsers, MaxProducts, MaxOrders, MaxRequests, MaxChanges} \subseteq Nat
  /\ Quantities \subseteq Nat
  /\ NoRow \notin [quantity : Int, label : Labels]
  /\ NoRow \notin [product : Products, quantity : Int]
  /\ NoRow \notin Order
  /\ NoId \notin Orders
  /\ Requests \subseteq PlaceRequest \cup UpdateRequest
  /\ NoRequest \notin Requests
  /\ \A r \in Requests : r.quantity \in Quantities

VARIABLES
  users,                 \* table User
  product,               \* table Product
  orders,                \* table Orders
  nextProduct, nextOrder, nextUser,    \* AUTO_INCREMENT of the tables
  pc,                    \* where each worker is
  req,                   \* the request a worker handles
  item,                  \* the Product entity of its session
  ord,                   \* the Order entity of its session
  requests, changes      \* used up of MaxRequests and MaxChanges

\* History: what may have put the stock of a product out of step with orders.
VARIABLE doubt

tables == <<users, product, orders, nextUser, nextProduct, nextOrder>>
vars   == <<tables, pc, req, item, ord, requests, changes, doubt>>

Reason == {"overlap",   \* two orders, or an order and a supply, overlapped
           "broken",    \* an order was saved and its product was not
           "replaced",  \* place overwrote an order
           "amended"}   \* update changed an order

Pc == {"idle", "order", "user", "product", "saveOrder", "saveProduct"}

TableType ==
  /\ users \subseteq Users
  /\ product \in [Products -> Product \cup {NoRow}]
  /\ orders \in [Orders -> Order \cup {NoRow}]
  /\ nextUser \in 1 .. MaxUsers + 1
  /\ nextProduct \in 1 .. MaxProducts + 1 /\ nextOrder \in 1 .. MaxOrders + 1

HandlerType ==
  /\ pc \in [Workers -> Pc]
  /\ req \in [Workers -> Requests \cup {NoRequest}]
  /\ item \in [Workers -> Product \cup {NoRow}]
  /\ ord \in [Workers -> Order \cup {NoRow}]

TypeOK ==
  /\ TableType /\ HandlerType
  /\ requests \in 0 .. MaxRequests /\ changes \in 0 .. MaxChanges
  /\ doubt \in [Products -> SUBSET Reason]

\* A server starts on a database with any users and products, and no orders.
Init ==
  /\ nextUser \in 1 .. MaxUsers + 1 /\ users = 1 .. nextUser - 1
  /\ nextProduct \in 1 .. MaxProducts + 1
  /\ product \in [Products -> [quantity : Quantities, label : Labels]
                                \cup {NoRow}]
  /\ \A p \in Products : product[p] # NoRow <=> p < nextProduct
  /\ orders = [o \in Orders |-> NoRow] /\ nextOrder = 1
  /\ pc = [w \in Workers |-> "idle"] /\ req = [w \in Workers |-> NoRequest]
  /\ item = [w \in Workers |-> NoRow] /\ ord = [w \in Workers |-> NoRow]
  /\ requests = 0 /\ changes = 0
  /\ doubt = [p \in Products |-> {}]

-----------------------------------------------------------------------------
(* /order/place and /order/update: OrderController.                        *)

Goto(w, l) == pc' = [pc EXCEPT ![w] = l]

\* The response is sent; the session and its entities are gone.
Answer(w) == /\ Goto(w, "idle")
             /\ req' = [req EXCEPT ![w] = NoRequest]
             /\ item' = [item EXCEPT ![w] = NoRow]
             /\ ord' = [ord EXCEPT ![w] = NoRow]

Placing(w)  == req[w].op = "place"
Updating(w) == req[w].op = "update"

\* Between reading product p and saving it.
InWindow(w, p) == /\ pc[w] \in {"saveOrder", "saveProduct"}
                  /\ Placing(w) /\ req[w].product = p

\* The order is saved, its product is not yet.
Pending(w, p) == InWindow(w, p) /\ pc[w] = "saveProduct"

Doubts(S, why) == doubt' = [p \in Products |-> IF p \in S THEN doubt[p] \cup {why}
                                               ELSE doubt[p]]

Receive(w) ==
  /\ pc[w] = "idle" /\ requests < MaxRequests
  /\ \E r \in Requests : /\ req' = [req EXCEPT ![w] = r]
                         /\ Goto(w, IF r.op = "update" THEN "order" ELSE "user")
  /\ requests' = requests + 1
  /\ UNCHANGED <<tables, item, ord, changes, doubt>>

\* updateOrder: orderRepository.findById.
FindOrder(w) ==
  /\ pc[w] = "order"
  /\ \/ /\ orders[req[w].id] = NoRow
        /\ Answer(w)
     \/ /\ orders[req[w].id] # NoRow
        /\ ord' = [ord EXCEPT ![w] = orders[req[w].id]]
        /\ Goto(w, "user")
        /\ UNCHANGED <<req, item>>
  /\ UNCHANGED <<tables, requests, changes, doubt>>

\* userRepository.findById.
FindUser(w) ==
  /\ pc[w] = "user"
  /\ \/ /\ req[w].user \notin users
        /\ Answer(w)
     \/ /\ req[w].user \in users
        /\ Goto(w, "product")
        /\ UNCHANGED <<req, item, ord>>
  /\ UNCHANGED <<tables, requests, changes, doubt>>

\* The quantity that setQuantity gives to the product entity i.
Remaining(w, i) ==
  i.quantity + (IF Updating(w) THEN ord[w].quantity ELSE 0) - req[w].quantity

\* Mutant: the order is not checked against the stock.
FindProductUnchecked(w) ==
  LET p == req[w].product IN
  /\ pc[w] = "product"
  /\ \/ /\ product[p] = NoRow
        /\ Answer(w)
        /\ UNCHANGED doubt
     \/ /\ product[p] # NoRow
        /\ item' = [item EXCEPT ![w] = product[p]]
        /\ Goto(w, "saveOrder")
        /\ IF Placing(w) /\ \E v \in Workers : InWindow(v, p)
             THEN Doubts({p}, "overlap") ELSE UNCHANGED doubt
        /\ UNCHANGED <<req, ord>>
  /\ UNCHANGED <<tables, requests, changes>>

\* productRepository.findById and the check of the quantity.
FindProduct(w) ==
  LET p == req[w].product IN
  /\ pc[w] = "product"
  /\ \/ /\ product[p] = NoRow
        /\ Answer(w)
        /\ UNCHANGED doubt
     \/ /\ product[p] # NoRow /\ Remaining(w, product[p]) < 0
        /\ Answer(w)
        /\ UNCHANGED doubt
     \/ /\ product[p] # NoRow /\ Remaining(w, product[p]) >= 0
        /\ item' = [item EXCEPT ![w] = product[p]]
        /\ Goto(w, "saveOrder")
        /\ IF Placing(w) /\ \E v \in Workers : InWindow(v, p)
             THEN Doubts({p}, "overlap") ELSE UNCHANGED doubt
        /\ UNCHANGED <<req, ord>>
  /\ UNCHANGED <<tables, requests, changes>>

\* The foreign keys of an order row.
Refers(row) == row.user \in users /\ product[row.product] # NoRow

RowOf(r) == [user |-> r.user, product |-> r.product, quantity |-> r.quantity]

IsStored(o) == o # NoId /\ orders[o] # NoRow

\* placeOrder: orderRepository.save inserts when the DTO names no stored order.
InsertOrder(w) ==
  LET row == RowOf(req[w]) IN
  /\ pc[w] = "saveOrder" /\ Placing(w) /\ ~IsStored(req[w].id)
  /\ nextOrder <= MaxOrders
  /\ \/ /\ Refers(row)
        /\ orders' = [orders EXCEPT ![nextOrder] = row]
        /\ nextOrder' = nextOrder + 1
        /\ Goto(w, "saveProduct")
        /\ UNCHANGED <<req, item, ord>>
     \/ /\ ~Refers(row)
        /\ Answer(w)
        /\ UNCHANGED <<orders, nextOrder>>
  /\ UNCHANGED <<users, product, nextUser, nextProduct, requests, changes, doubt>>

\* When it names one, save merges the DTO into that row.
MergeOrder(w) ==
  LET row == RowOf(req[w])
      o   == req[w].id IN
  /\ pc[w] = "saveOrder" /\ Placing(w) /\ IsStored(o)
  /\ \/ /\ Refers(row)
        /\ orders' = [orders EXCEPT ![o] = row]
        /\ Doubts({row.product, orders[o].product}, "replaced")
        /\ Goto(w, "saveProduct")
        /\ UNCHANGED <<req, item, ord>>
     \/ /\ ~Refers(row)
        /\ Answer(w)
        /\ UNCHANGED <<orders, doubt>>
  /\ UNCHANGED <<users, product, nextUser, nextProduct, nextOrder, requests,
                 changes>>

\* Mutant: the entity in the session is not the one that setQuantity changed.
UpdateOrderDetached(w) ==
  LET o   == req[w].id
      row == [ord[w] EXCEPT !.quantity = req[w].quantity] IN
  /\ pc[w] = "saveOrder" /\ Updating(w)
  /\ orders[o] # NoRow /\ Refers(row)
  /\ orders' = [orders EXCEPT ![o] = row]
  /\ IF row # orders[o]
       THEN Doubts({row.product, orders[o].product}, "amended")
       ELSE UNCHANGED doubt
  /\ Goto(w, "saveProduct")
  /\ UNCHANGED <<users, product, nextUser, nextProduct, nextOrder, requests,
                 changes, req, item, ord>>

\* updateOrder: setQuantity on the entity, then save writes the whole row as it
\* was read with the new quantity, unless nothing differs.  A row that is gone
\* or a foreign key that does not hold is an error.
UpdateOrder(w) ==
  LET o   == req[w].id
      row == [ord[w] EXCEPT !.quantity = req[w].quantity] IN
  /\ pc[w] = "saveOrder" /\ Updating(w)
  /\ \/ /\ row = ord[w]
        /\ Goto(w, "saveProduct")
        /\ UNCHANGED <<orders, doubt, req, item, ord>>
     \/ /\ orders[o] # NoRow /\ Refers(row)
        /\ orders' = [orders EXCEPT ![o] = row]
        /\ ord' = [ord EXCEPT ![w] = row]
        /\ IF row # orders[o]
             THEN Doubts({row.product, orders[o].product}, "amended")
             ELSE UNCHANGED doubt
        /\ Goto(w, "saveProduct")
        /\ UNCHANGED <<req, item>>
     \/ /\ orders[o] = NoRow \/ ~Refers(row)
        /\ Answer(w)
        /\ UNCHANGED <<orders, doubt>>
  /\ UNCHANGED <<users, product, nextUser, nextProduct, nextOrder, requests,
                 changes>>

\* Mutant: the product is saved as it was read.
SaveProductAsRead(w) ==
  LET p == req[w].product IN
  /\ pc[w] = "saveProduct"
  /\ product' = IF product[p] = NoRow THEN product
                ELSE [product EXCEPT ![p] = item[w]]
  /\ Answer(w)
  /\ UNCHANGED <<users, orders, nextUser, nextProduct, nextOrder, requests,
                 changes, doubt>>

\* setQuantity, then productRepository.save writes the whole row, if the
\* quantity differs and the row is still there.  In updateOrder, `order` has
\* the new quantity by now, so that it never differs.
SaveProduct(w) ==
  LET p   == req[w].product
      new == [item[w] EXCEPT !.quantity = Remaining(w, item[w])] IN
  /\ pc[w] = "saveProduct"
  /\ product' = IF new = item[w] \/ product[p] = NoRow THEN product
                ELSE [product EXCEPT ![p] = new]
  /\ Answer(w)
  /\ UNCHANGED <<users, orders, nextUser, nextProduct, nextOrder, requests,
                 changes, doubt>>

\* The worker is about to change the quantity of p, by that of its order.
Taking(w, p) == /\ pc[w] = "saveProduct" /\ req[w].product = p
                /\ Remaining(w, item[w]) # item[w].quantity

\* A repository call throws: the database does not answer in time, or the
\* process dies (then all its workers fail).
Fail(w) ==
  /\ pc[w] # "idle"
  /\ Doubts({p \in Products : Taking(w, p)}, "broken")
  /\ Answer(w)
  /\ UNCHANGED <<tables, requests, changes>>

-----------------------------------------------------------------------------
(* The other endpoints.                                                    *)

Change == changes < MaxChanges /\ changes' = changes + 1

Handlers == <<pc, req, item, ord, requests>>

AddUser ==
  /\ Change /\ nextUser <= MaxUsers
  /\ users' = users \cup {nextUser} /\ nextUser' = nextUser + 1
  /\ UNCHANGED <<product, orders, nextProduct, nextOrder, Handlers, doubt>>

\* By id or name, or all of them; the foreign keys of orders forbid it.
DeleteUsers ==
  /\ Change
  /\ \E S \in {{u} : u \in users} \cup {users} :
       /\ \A o \in Orders : orders[o] # NoRow => orders[o].user \notin S
       /\ users' = users \ S
  /\ UNCHANGED <<product, orders, nextUser, nextProduct, nextOrder, Handlers,
                 doubt>>

NewRow == [quantity : Quantities, label : Labels]

AddProduct ==
  /\ Change /\ nextProduct <= MaxProducts
  /\ \E row \in NewRow : product' = [product EXCEPT ![nextProduct] = row]
  /\ nextProduct' = nextProduct + 1
  /\ UNCHANGED <<users, orders, nextUser, nextOrder, Handlers, doubt>>

\* updateProduct, and addNewProduct for an id that is stored, write every
\* column.  With no order under way the stock is right again.
SupplyProduct ==
  /\ Change
  /\ \E p \in Products, row \in NewRow :
       /\ product[p] # NoRow
       /\ product' = [product EXCEPT ![p] = row]
       /\ IF \E w \in Workers : InWindow(w, p)
            THEN Doubts({p}, "overlap") ELSE doubt' = [doubt EXCEPT ![p] = {}]
  /\ UNCHANGED <<users, orders, nextUser, nextProduct, nextOrder, Handlers>>

\* By id, by name, or all of them; the foreign keys of orders forbid it.
DeleteProducts ==
  LET Stored == {p \in Products : product[p] # NoRow} IN
  /\ Change
  /\ \E S \in {{p} : p \in Stored} \cup {Stored}
              \cup {{p \in Stored : product[p].label = l} : l \in Labels} :
       /\ \A o \in Orders : orders[o] # NoRow => orders[o].product \notin S
       /\ product' = [p \in Products |-> IF p \in S THEN NoRow ELSE product[p]]
  /\ UNCHANGED <<users, orders, nextUser, nextProduct, nextOrder, Handlers,
                 doubt>>

\* By id, all of a user's, or all of them.  The stock stays as it is.
DeleteOrders ==
  LET Stored == {o \in Orders : orders[o] # NoRow} IN
  /\ Change
  /\ \E S \in {{o} : o \in Stored} \cup {Stored}
              \cup {{o \in Stored : orders[o].user = u} : u \in Users} :
       orders' = [o \in Orders |-> IF o \in S THEN NoRow ELSE orders[o]]
  /\ UNCHANGED <<users, product, nextUser, nextProduct, nextOrder, Handlers,
                 doubt>>

-----------------------------------------------------------------------------
Handle(w) ==
  \/ Receive(w) \/ FindOrder(w) \/ FindUser(w) \/ FindProduct(w)
  \/ InsertOrder(w) \/ MergeOrder(w) \/ UpdateOrder(w) \/ SaveProduct(w)
  \/ Fail(w)

\* No request is under way: the server may rest here for ever.
Rest == (\A w \in Workers : pc[w] = "idle") /\ UNCHANGED vars

Next == \/ \E w \in Workers : Handle(w)
        \/ Rest
        \/ AddUser \/ DeleteUsers
        \/ AddProduct \/ SupplyProduct \/ DeleteProducts \/ DeleteOrders

Spec == Init /\ [][Next]_vars
-----------------------------------------------------------------------------
(* Properties.                                                             *)

\* What is ordered of p and not yet taken off its row.
Held(p) == IF \E w \in Workers : Taking(w, p)
             THEN LET w == CHOOSE w \in Workers : Taking(w, p)
                  IN item[w].quantity - Remaining(w, item[w])
             ELSE 0

\* The catalogue and the orders as a customer may think of them.
Shelf == [p \in Products |->
            IF product[p] = NoRow THEN NoRow
            ELSE [product[p] EXCEPT !.quantity = @ - Held(p)]]

Book == [o \in Orders |->
           IF orders[o] = NoRow THEN NoRow
           ELSE [product |-> orders[o].product, quantity |-> orders[o].quantity]]

Shop == INSTANCE Inventory WITH shelf <- Shelf, book <- Book

\* Nothing but the reasons in R has happened to the products there are.
OnlyDoubts(R) == \A p \in Products : product[p] # NoRow => doubt[p] \subseteq R

\* A worker that has read a product and is about to write it has read what is
\* in the row, and no other worker is about to write it too, as long as orders
\* for the product do not overlap.
WindowIsFresh ==
  \A w \in Workers, p \in Products :
    InWindow(w, p) /\ product[p] # NoRow /\ "overlap" \notin doubt[p] =>
      /\ item[w] = product[p]
      /\ \A v \in Workers \ {w} : ~InWindow(v, p)

\* No more is sold than is on the shelf, the orders under way included, as
\* long as orders for one product do not overlap.
NotOversold ==
  \A p \in Products :
    product[p] # NoRow /\ doubt[p] = {} => Shelf[p].quantity >= 0

\* What the worker's request orders is sold, as one step.
Sells(w) == pc[w] # "idle" /\ Shop!Sell(req[w].product, req[w].quantity)

\* While nothing has put stock and orders out of step, the handlers of orders
\* implement the inventory: a step of a worker sells exactly what its request
\* orders, product and quantity, or does nothing to the inventory.  The order
\* enters the book and leaves the shelf at once, nothing is put back, and no
\* supply, label or order is lost.  Only the other endpoints manage the stock.
BooksLikeInventory ==
  [][OnlyDoubts({})' =>
       /\ \A w \in Workers :
            pc'[w] # pc[w] => UNCHANGED <<Shelf, Book>> \/ Sells(w)
       /\ UNCHANGED pc => [Shop!Manage]_<<Shelf, Book>>]_vars

\* OrderController.java:93: an order that asks for more than the inventory has
\* is refused, so the orders that are saved fit the stock together.
NoDoubleSale ==
  \A p \in Products : \A v, w \in Workers :
    v # w /\ Pending(v, p) /\ Pending(w, p) /\ product[p] # NoRow =>
      req[v].quantity + req[w].quantity <= product[p].quantity

\* No update of an order ever changes the stock, whatever comes in between its
\* calls: OrderController.java:98 takes off the difference to the quantity that
\* line 95 has overwritten.  So only /order/place and the product's endpoints do.
UpdatesBookNothing ==
  [][product' # product =>
       \/ changes' # changes
       \/ \E w \in Workers : pc[w] = "saveProduct" /\ Placing(w) /\ pc'[w] = "idle"]_vars
=============================================================================
