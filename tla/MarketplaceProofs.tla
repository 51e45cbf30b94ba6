------------------------- MODULE MarketplaceProofs --------------------------
(***************************************************************************)
(* The marketplace for every number of workers, rows and requests: types,  *)
(* that the stock is never sold beyond the shelf as long as orders for one *)
(* product do not overlap, and that the handlers implement the atomic      *)
(* Inventory as long as nothing of what `doubt' names has happened to a    *)
(* product that is there.                                                  *)
(***************************************************************************)
EXTENDS Marketplace, TLAPS

Saving == {"saveOrder", "saveProduct"}

\* What a handler has found out, and kept in its session, where it is now.
Phase(w) ==
  /\ pc[w] # "idle" => req[w] \in Requests
  /\ pc[w] = "order" => Updating(w)
  /\ pc[w] \in {"user", "product"} \cup Saving /\ Updating(w) => ord[w] \in Order
  /\ pc[w] \in Saving => /\ item[w] \in Product
                         /\ Remaining(w, item[w]) \in Nat
                         /\ req[w].product < nextProduct
  /\ pc[w] = "saveProduct" /\ Updating(w) => ord[w].quantity = req[w].quantity

\* The id of a product that was deleted is not given again.
IdsAreOld == \A p \in Products : product[p] # NoRow => p < nextProduct

TypeInv == TypeOK /\ IdsAreOld /\ \A w \in Workers : Phase(w)

LEMMA RequestFacts ==
  ASSUME NEW r \in Requests
  PROVE  /\ r # NoRequest /\ r.op \in {"place", "update"}
         /\ r.product \in Products /\ r.quantity \in Nat /\ r.user \in Users
         /\ r.op = "update" => r.id \in Orders
         /\ RowOf(r) \in Order
<1>1. r \in PlaceRequest \cup UpdateRequest /\ r # NoRequest
  BY MarketAssumption
<1>2. CASE r \in PlaceRequest
  BY <1>1, <1>2 DEF PlaceRequest, RowOf, Order
<1>3. CASE r \in UpdateRequest
  BY <1>1, <1>3 DEF UpdateRequest, RowOf, Order
<1> QED
  BY <1>1, <1>2, <1>3

LEMMA RowFacts ==
  /\ NoRow \notin Product /\ NoRow \notin Order
  /\ \A i \in Product : i.quantity \in Nat
  /\ \A i \in Product, n \in Nat : [i EXCEPT !.quantity = n] \in Product
  /\ \A o \in Order : /\ o.quantity \in Nat /\ o.product \in Products
                      /\ o.user \in Users
  /\ \A o \in Order, n \in Nat : [o EXCEPT !.quantity = n] \in Order
<1>1. NoRow \notin Product
  BY MarketAssumption DEF Product
<1> QED
  BY <1>1, MarketAssumption DEF Product, Order

LEMMA InitTypeInv == Init => TypeInv
<1> SUFFICES ASSUME Init PROVE TypeInv
  OBVIOUS
<1> USE MarketAssumption
<1>1. TableType
  <2>1. users \subseteq Users /\ nextUser \in 1 .. MaxUsers + 1
    BY DEF Init, Users
  <2>2. product \in [Products -> Product \cup {NoRow}]
    BY DEF Init, Product
  <2>3. orders \in [Orders -> Order \cup {NoRow}]
    BY DEF Init
  <2>4. nextProduct \in 1 .. MaxProducts + 1 /\ nextOrder \in 1 .. MaxOrders + 1
    BY DEF Init
  <2> QED
    BY <2>1, <2>2, <2>3, <2>4 DEF TableType
<1>2. HandlerType
  BY DEF Init, HandlerType, Pc
<1>3. TypeOK
  BY <1>1, <1>2 DEF Init, TypeOK
<1>4. IdsAreOld
  BY DEF Init, IdsAreOld
<1>5. \A w \in Workers : Phase(w)
  BY DEF Init, Phase, Saving
<1> QED
  BY <1>3, <1>4, <1>5 DEF TypeInv

LEMMA OtherWorkers ==
  ASSUME TypeInv, NEW w \in Workers, UNCHANGED nextProduct, Phase(w)',
         \A v \in Workers \ {w} : /\ pc'[v] = pc[v] /\ req'[v] = req[v]
                                  /\ item'[v] = item[v] /\ ord'[v] = ord[v]
  PROVE  \A v \in Workers : Phase(v)'
<1> SUFFICES ASSUME NEW v \in Workers \ {w} PROVE Phase(v)'
  OBVIOUS
<1>1. Phase(v)
  BY DEF TypeInv
<1> QED
  BY <1>1 DEF Phase, Updating, Remaining

LEMMA AnswerType ==
  ASSUME TypeInv, NEW w \in Workers, Answer(w), UNCHANGED nextProduct
  PROVE  HandlerType' /\ \A v \in Workers : Phase(v)'
<1>1. HandlerType'
  BY DEF TypeInv, TypeOK, HandlerType, Answer, Goto, Pc
<1>2. pc'[w] = "idle"
  BY DEF TypeInv, TypeOK, HandlerType, Answer, Goto
<1>3. Phase(w)'
  BY <1>2 DEF Phase, Saving
<1>4. \A v \in Workers \ {w} : /\ pc'[v] = pc[v] /\ req'[v] = req[v]
                               /\ item'[v] = item[v] /\ ord'[v] = ord[v]
  BY DEF TypeInv, TypeOK, HandlerType, Answer, Goto
<1> QED
  BY <1>1, <1>3, <1>4, OtherWorkers

LEMMA DoubtsType ==
  ASSUME TypeInv, NEW S, NEW why \in Reason, Doubts(S, why)
  PROVE  doubt' \in [Products -> SUBSET Reason]
BY DEF TypeInv, TypeOK, Doubts

LEMMA ReceiveTypeInv ==
  ASSUME TypeInv, NEW w \in Workers, Receive(w)
  PROVE  TypeInv'
<1> USE DEF TypeInv, TypeOK
<1>1. PICK r \in Requests :
        /\ req' = [req EXCEPT ![w] = r]
        /\ Goto(w, IF r.op = "update" THEN "order" ELSE "user")
  BY DEF Receive
<1>2. TableType' /\ IdsAreOld' /\ UNCHANGED nextProduct
  BY DEF Receive, tables, TableType, IdsAreOld
<1>3. HandlerType'
  BY <1>1 DEF Receive, HandlerType, Goto, Pc
<1>4. pc'[w] \in {"order", "user"} /\ req'[w] = r
      /\ (pc'[w] = "order" <=> r.op = "update")
  BY <1>1 DEF HandlerType, Goto
<1>5. Phase(w)'
  BY <1>4 DEF Phase, Saving, Updating
<1>6. \A v \in Workers \ {w} : /\ pc'[v] = pc[v] /\ req'[v] = req[v]
                               /\ item'[v] = item[v] /\ ord'[v] = ord[v]
  BY <1>1 DEF Receive, HandlerType, Goto
<1>7. \A v \in Workers : Phase(v)'
  BY <1>2, <1>5, <1>6, OtherWorkers
<1>8. requests' \in 0 .. MaxRequests
  BY MarketAssumption DEF Receive
<1> QED
  BY <1>2, <1>3, <1>7, <1>8 DEF Receive

LEMMA FindTypeInv ==
  ASSUME TypeInv, NEW w \in Workers, FindOrder(w) \/ FindUser(w)
  PROVE  TypeInv'
<1> USE DEF TypeInv, TypeOK
<1>1. TableType' /\ IdsAreOld' /\ UNCHANGED <<nextProduct, requests, changes, doubt>>
  BY DEF FindOrder, FindUser, tables, TableType, IdsAreOld
<1>2. CASE Answer(w)
  BY <1>1, <1>2, AnswerType
<1>3. CASE FindOrder(w) /\ ~Answer(w)
  <2>1. req[w] \in Requests /\ Updating(w)
    BY <1>3 DEF Phase, FindOrder
  <2>2. req[w].id \in Orders
    BY <2>1, RequestFacts DEF Updating
  <2>3. /\ orders[req[w].id] \in Order
        /\ ord' = [ord EXCEPT ![w] = orders[req[w].id]]
        /\ Goto(w, "user") /\ UNCHANGED <<req, item>>
    BY <1>3, <2>2, RowFacts DEF FindOrder, TableType
  <2>4. HandlerType'
    BY <2>3 DEF HandlerType, Goto, Pc
  <2>5. pc'[w] = "user" /\ ord'[w] \in Order /\ req'[w] = req[w]
    BY <2>3 DEF HandlerType, Goto
  <2>6. Phase(w)'
    BY <2>1, <2>5 DEF Phase, Saving, Updating
  <2>7. \A v \in Workers \ {w} : /\ pc'[v] = pc[v] /\ req'[v] = req[v]
                                 /\ item'[v] = item[v] /\ ord'[v] = ord[v]
    BY <2>3 DEF HandlerType, Goto
  <2> QED
    BY <1>1, <2>4, <2>6, <2>7, OtherWorkers
<1>4. CASE FindUser(w) /\ ~Answer(w)
  <2>1. pc[w] = "user" /\ Goto(w, "product") /\ UNCHANGED <<req, item, ord>>
    BY <1>4 DEF FindUser
  <2>2. HandlerType'
    BY <2>1 DEF HandlerType, Goto, Pc
  <2>3. pc'[w] = "product" /\ Phase(w)
    BY <2>1 DEF HandlerType, Goto
  <2>4. Phase(w)'
    BY <2>1, <2>3 DEF Phase, Saving, Updating
  <2>5. \A v \in Workers \ {w} : /\ pc'[v] = pc[v] /\ req'[v] = req[v]
                                 /\ item'[v] = item[v] /\ ord'[v] = ord[v]
    BY <2>1 DEF HandlerType, Goto
  <2> QED
    BY <1>1, <2>2, <2>4, <2>5, OtherWorkers
<1> QED
  BY <1>2, <1>3, <1>4

LEMMA FindProductTypeInv ==
  ASSUME TypeInv, NEW w \in Workers, FindProduct(w)
  PROVE  TypeInv'
<1> USE DEF TypeInv, TypeOK
<1>1. TableType' /\ IdsAreOld' /\ UNCHANGED <<nextProduct, requests, changes>>
  BY DEF FindProduct, tables, TableType, IdsAreOld
<1>2. doubt' \in [Products -> SUBSET Reason]
  <2>1. UNCHANGED doubt \/ Doubts({req[w].product}, "overlap")
    BY DEF FindProduct
  <2> QED
    BY <2>1, DoubtsType DEF Reason
<1>3. CASE Answer(w)
  BY <1>1, <1>2, <1>3, AnswerType
<1>4. CASE ~Answer(w)
  <2> DEFINE p == req[w].product
  <2>1. /\ pc[w] = "product" /\ product[p] # NoRow
        /\ Remaining(w, product[p]) >= 0
        /\ item' = [item EXCEPT ![w] = product[p]]
        /\ Goto(w, "saveOrder") /\ UNCHANGED <<req, ord>>
    BY <1>4 DEF FindProduct
  <2>2. Phase(w) /\ req[w] \in Requests
    BY <2>1 DEF Phase
  <2>3. p \in Products /\ req[w].quantity \in Nat /\ product[p] \in Product
    BY <2>1, <2>2, RequestFacts DEF TableType
  <2>4. Remaining(w, product[p]) \in Nat
    <3>1. (IF Updating(w) THEN ord[w].quantity ELSE 0) \in Nat
      BY <2>1, <2>2, RowFacts DEF Phase
    <3>2. product[p].quantity \in Nat
      BY <2>3, RowFacts
    <3> QED
      BY <2>1, <2>3, <3>1, <3>2 DEF Remaining
  <2>5. HandlerType'
    BY <2>1, <2>3 DEF HandlerType, Goto, Pc
  <2>6. /\ pc'[w] = "saveOrder" /\ item'[w] = product[p]
        /\ req'[w] = req[w] /\ ord'[w] = ord[w]
    BY <2>1 DEF HandlerType, Goto
  <2>7. p < nextProduct
    BY <2>1, <2>3 DEF IdsAreOld
  <2>8. Phase(w)'
    BY <1>1, <2>1, <2>2, <2>3, <2>4, <2>6, <2>7
       DEF Phase, Saving, Updating, Remaining
  <2>9. \A v \in Workers \ {w} : /\ pc'[v] = pc[v] /\ req'[v] = req[v]
                                 /\ item'[v] = item[v] /\ ord'[v] = ord[v]
    BY <2>1 DEF HandlerType, Goto
  <2> QED
    BY <1>1, <1>2, <2>5, <2>8, <2>9, OtherWorkers
<1> QED
  BY <1>3, <1>4

\* Where a handler is after it has saved its order.
LEMMA SavedOrder ==
  ASSUME TypeInv, NEW w \in Workers, UNCHANGED <<nextProduct, req, item>>,
         pc[w] = "saveOrder", Goto(w, "saveProduct"),
         \/ UNCHANGED ord /\ (Updating(w) => ord[w].quantity = req[w].quantity)
         \/ /\ Updating(w)
            /\ ord' = [ord EXCEPT ![w] = [ord[w] EXCEPT !.quantity = req[w].quantity]]
  PROVE  HandlerType' /\ \A v \in Workers : Phase(v)'
<1> USE DEF TypeInv, TypeOK
<1>1. Phase(w) /\ req[w] \in Requests /\ item[w] \in Product
  BY DEF Phase, Saving
<1>2. req[w].quantity \in Nat /\ item[w].quantity \in Nat
  BY <1>1, RequestFacts, RowFacts
<1>3. CASE UNCHANGED ord /\ (Updating(w) => ord[w].quantity = req[w].quantity)
  <2>1. HandlerType'
    BY <1>3 DEF HandlerType, Goto, Pc
  <2>2. pc'[w] = "saveProduct"
    BY DEF HandlerType, Goto
  <2>3. Phase(w)'
    BY <1>1, <1>3, <2>2 DEF Phase, Saving, Updating, Remaining
  <2>4. \A v \in Workers \ {w} : pc'[v] = pc[v]
    BY DEF HandlerType, Goto
  <2> QED
    BY <1>3, <2>1, <2>3, <2>4, OtherWorkers
<1>4. CASE /\ Updating(w)
           /\ ord' = [ord EXCEPT ![w] = [ord[w] EXCEPT !.quantity = req[w].quantity]]
  <2> DEFINE row == [ord[w] EXCEPT !.quantity = req[w].quantity]
  <2>1. ord[w] \in Order
    BY <1>1, <1>4 DEF Phase, Saving
  <2>2. row \in Order /\ row.quantity = req[w].quantity
    BY <1>2, <2>1 DEF Order
  <2>3. HandlerType'
    BY <1>4, <2>2 DEF HandlerType, Goto, Pc
  <2>4. pc'[w] = "saveProduct" /\ ord'[w] = row
    BY <1>4 DEF HandlerType, Goto
  <2>5. Remaining(w, item[w])' = item[w].quantity
    <3>1. ord'[w].quantity = req[w].quantity /\ Updating(w)'
      BY <1>4, <2>2, <2>4 DEF Updating
    <3>2. Remaining(w, item[w])' = item[w].quantity + req[w].quantity - req[w].quantity
      BY <3>1 DEF Remaining
    <3> QED
      BY <1>2, <3>2
  <2>6. Phase(w)'
    BY <1>1, <1>2, <1>4, <2>2, <2>4, <2>5 DEF Phase, Saving, Updating
  <2>7. \A v \in Workers \ {w} : pc'[v] = pc[v] /\ ord'[v] = ord[v]
    BY <1>4 DEF HandlerType, Goto
  <2> QED
    BY <2>3, <2>6, <2>7, OtherWorkers
<1> QED
  BY <1>3, <1>4

LEMMA SaveOrderTypeInv ==
  ASSUME TypeInv, NEW w \in Workers, InsertOrder(w) \/ MergeOrder(w) \/ UpdateOrder(w)
  PROVE  TypeInv'
<1> USE DEF TypeInv, TypeOK
<1>1. /\ UNCHANGED <<users, product, nextUser, nextProduct, requests, changes>>
      /\ pc[w] = "saveOrder"
  BY DEF InsertOrder, MergeOrder, UpdateOrder
<1>2. Phase(w) /\ req[w] \in Requests /\ RowOf(req[w]) \in Order
  BY <1>1, RequestFacts DEF Phase, Saving
<1>3. orders' \in [Orders -> Order \cup {NoRow}] /\ nextOrder' \in 1 .. MaxOrders + 1
  <2>1. CASE InsertOrder(w)
    <3>1. nextOrder \in Nat /\ MaxOrders \in Nat /\ nextOrder <= MaxOrders
      BY <2>1, MarketAssumption DEF InsertOrder, TableType
    <3>2. nextOrder' \in {nextOrder, nextOrder + 1}
      BY <2>1 DEF InsertOrder
    <3>3. orders' \in [Orders -> Order \cup {NoRow}]
      BY <1>2, <2>1 DEF InsertOrder, TableType
    <3> QED
      BY <3>1, <3>2, <3>3 DEF TableType
  <2>2. CASE MergeOrder(w)
    BY <1>2, <2>2 DEF MergeOrder, TableType
  <2>3. CASE UpdateOrder(w)
    <3>1. [ord[w] EXCEPT !.quantity = req[w].quantity] \in Order
      BY <1>1, <1>2, <2>3, RequestFacts, RowFacts DEF Phase, Saving, UpdateOrder
    <3> QED
      BY <2>3, <3>1 DEF UpdateOrder, TableType
  <2> QED
    BY <2>1, <2>2, <2>3
<1>4. TableType' /\ IdsAreOld'
  BY <1>1, <1>3 DEF TableType, IdsAreOld
<1>5. doubt' \in [Products -> SUBSET Reason]
  <2> DEFINE S == {req[w].product, orders[req[w].id].product}
             T == {[ord[w] EXCEPT !.quantity = req[w].quantity].product,
                   orders[req[w].id].product}
  <2>1. UNCHANGED doubt \/ Doubts(S, "replaced") \/ Doubts(T, "amended")
    BY DEF InsertOrder, MergeOrder, UpdateOrder, RowOf
  <2> HIDE DEF S, T
  <2> QED
    BY <2>1, DoubtsType DEF Reason
<1>6. HandlerType' /\ \A v \in Workers : Phase(v)'
  <2>1. CASE Answer(w)
    BY <1>1, <2>1, AnswerType
  <2>2. CASE (InsertOrder(w) \/ MergeOrder(w)) /\ ~Answer(w)
    <3>1. Goto(w, "saveProduct") /\ UNCHANGED <<req, item, ord>> /\ ~Updating(w)
      BY <2>2 DEF InsertOrder, MergeOrder, Placing, Updating
    <3> QED
      BY <1>1, <3>1, SavedOrder
  <2>3. CASE UpdateOrder(w) /\ ~Answer(w)
    <3>1. Goto(w, "saveProduct") /\ Updating(w) /\ UNCHANGED <<req, item>>
      BY <2>3 DEF UpdateOrder
    <3>2. ord[w] \in Order
      BY <1>1, <1>2, <3>1 DEF Phase, Saving
    <3>3. CASE [ord[w] EXCEPT !.quantity = req[w].quantity] = ord[w] /\ UNCHANGED ord
      <4>1. ord[w].quantity = req[w].quantity
        BY <3>2, <3>3 DEF Order
      <4> QED
        BY <1>1, <3>1, <3>3, <4>1, SavedOrder
    <3>4. CASE ord' = [ord EXCEPT ![w] = [ord[w] EXCEPT !.quantity = req[w].quantity]]
      BY <1>1, <3>1, <3>4, SavedOrder
    <3> QED
      BY <2>3, <3>3, <3>4 DEF UpdateOrder
  <2> QED
    BY <2>1, <2>2, <2>3
<1> QED
  BY <1>1, <1>4, <1>5, <1>6

LEMMA EndTypeInv ==
  ASSUME TypeInv, NEW w \in Workers, SaveProduct(w) \/ Fail(w)
  PROVE  TypeInv'
<1> USE DEF TypeInv, TypeOK
<1>1. Answer(w) /\ UNCHANGED <<users, orders, nextUser, nextProduct, nextOrder,
                               requests, changes>>
  BY DEF SaveProduct, Fail, tables
<1>2. product' \in [Products -> Product \cup {NoRow}] /\ IdsAreOld'
  <2>1. CASE Fail(w)
    BY <2>1 DEF Fail, tables, TableType, IdsAreOld
  <2>2. CASE SaveProduct(w)
    <3>1. item[w] \in Product /\ Remaining(w, item[w]) \in Nat
      BY <2>2 DEF SaveProduct, Phase, Saving
    <3>2. [item[w] EXCEPT !.quantity = Remaining(w, item[w])] \in Product
      BY <3>1, RowFacts
    <3> QED
      BY <1>1, <2>2, <3>2 DEF SaveProduct, TableType, IdsAreOld
  <2> QED
    BY <2>1, <2>2
<1>3. TableType'
  BY <1>1, <1>2 DEF TableType
<1>4. doubt' \in [Products -> SUBSET Reason]
  <2> DEFINE S == {p \in Products : Taking(w, p)}
  <2>1. UNCHANGED doubt \/ Doubts(S, "broken")
    BY DEF SaveProduct, Fail
  <2> HIDE DEF S
  <2> QED
    BY <2>1, DoubtsType DEF Reason
<1> QED
  BY <1>1, <1>2, <1>3, <1>4, AnswerType

Others == \/ AddUser \/ DeleteUsers
          \/ AddProduct \/ SupplyProduct \/ DeleteProducts \/ DeleteOrders

LEMMA OthersTypeInv == TypeInv /\ Others => TypeInv'
<1> SUFFICES ASSUME TypeInv, Others PROVE TypeInv'
  OBVIOUS
<1> USE DEF TypeInv, TypeOK
<1>1. UNCHANGED <<pc, req, item, ord, requests>>
  BY DEF Others, AddUser, DeleteUsers, AddProduct, SupplyProduct,
         DeleteProducts, DeleteOrders, Handlers
<1>2. changes' \in 0 .. MaxChanges
  BY MarketAssumption DEF Others, AddUser, DeleteUsers, AddProduct,
         SupplyProduct, DeleteProducts, DeleteOrders, Change
<1>3. doubt' \in [Products -> SUBSET Reason]
  <2>1. \/ UNCHANGED doubt
        \/ \E p \in Products : \/ Doubts({p}, "overlap")
                               \/ doubt' = [doubt EXCEPT ![p] = {}]
    BY DEF Others, AddUser, DeleteUsers, AddProduct, SupplyProduct,
           DeleteProducts, DeleteOrders
  <2> QED
    BY <2>1, DoubtsType DEF Reason
<1>4. \A row \in NewRow : row \in Product
  BY MarketAssumption DEF NewRow, Product
<1>5. TableType' /\ IdsAreOld' /\ nextProduct' >= nextProduct
  <2>1. CASE AddUser
    <3>1. nextUser \in Nat /\ MaxUsers \in Nat /\ nextUser <= MaxUsers
      BY <2>1, MarketAssumption DEF AddUser, TableType
    <3>2. nextUser' \in 1 .. MaxUsers + 1 /\ nextUser \in Users
      BY <2>1, <3>1 DEF AddUser, TableType, Users
    <3>3. users' \subseteq Users
      BY <2>1, <3>2 DEF AddUser, TableType
    <3>4. UNCHANGED <<product, orders, nextProduct, nextOrder>>
      BY <2>1 DEF AddUser
    <3> QED
      BY <3>2, <3>3, <3>4, MarketAssumption DEF TableType, IdsAreOld
  <2>2. CASE DeleteUsers
    BY <2>2, MarketAssumption DEF DeleteUsers, TableType, IdsAreOld
  <2>3. CASE AddProduct
    BY <1>4, <2>3, MarketAssumption DEF AddProduct, TableType, IdsAreOld, Products
  <2>4. CASE SupplyProduct
    BY <1>4, <2>4, MarketAssumption DEF SupplyProduct, TableType, IdsAreOld
  <2>5. CASE DeleteProducts
    BY <2>5, MarketAssumption DEF DeleteProducts, TableType, IdsAreOld
  <2>6. CASE DeleteOrders
    BY <2>6, MarketAssumption DEF DeleteOrders, TableType, IdsAreOld
  <2> QED
    BY <2>1, <2>2, <2>3, <2>4, <2>5, <2>6 DEF Others
<1>6. HandlerType'
  BY <1>1 DEF HandlerType
<1>7. \A v \in Workers : Phase(v)'
  <2> SUFFICES ASSUME NEW v \in Workers PROVE Phase(v)'
    OBVIOUS
  <2>1. pc[v] \in Saving => req[v].product \in Nat
    BY RequestFacts DEF Phase, Saving, Products
  <2>2. nextProduct \in Nat /\ nextProduct' \in Nat
    BY <1>5 DEF TableType
  <2>3. pc[v] \in Saving => req[v].product < nextProduct'
    BY <1>5, <2>1, <2>2 DEF Phase
  <2>4. Remaining(v, item[v])' = Remaining(v, item[v]) /\ (Updating(v)' <=> Updating(v))
    BY <1>1 DEF Remaining, Updating
  <2>5. Phase(v)
    OBVIOUS
  <2> QED
    BY <1>1, <2>3, <2>4, <2>5 DEF Phase
<1> QED
  BY <1>1, <1>2, <1>3, <1>5, <1>6, <1>7

LEMMA NextTypeInv == TypeInv /\ [Next]_vars => TypeInv'
<1> SUFFICES ASSUME TypeInv, [Next]_vars PROVE TypeInv'
  OBVIOUS
<1>1. CASE UNCHANGED vars
  BY <1>1 DEF vars, tables, TypeInv, TypeOK, TableType, HandlerType, IdsAreOld,
              Phase, Updating, Remaining
<1>2. ASSUME NEW w \in Workers, Handle(w) PROVE TypeInv'
  BY <1>2, ReceiveTypeInv, FindTypeInv, FindProductTypeInv, SaveOrderTypeInv,
     EndTypeInv DEF Handle
<1> QED
  BY <1>1, <1>2, OthersTypeInv DEF Next, Others, Rest

\* Marketplace's variables keep their types, for any numbers of workers, rows
\* and requests; that the quantity of a product stays a natural number is the
\* check of OrderController.java:68 and 96, carried to the save by Phase.
THEOREM TypeCorrect == Spec => []TypeOK
<1>1. TypeInv => TypeOK
  BY DEF TypeInv
<1> QED
  BY <1>1, InitTypeInv, NextTypeInv, PTL DEF Spec

-----------------------------------------------------------------------------
\* A step that opens no window, and touches the row of an open one only if it
\* is known to overlap or the row goes.
LEMMA KeepFresh ==
  ASSUME WindowIsFresh,
         \A v \in Workers, p \in Products :
           InWindow(v, p)' => /\ InWindow(v, p) /\ item'[v] = item[v]
                              /\ \/ product'[p] = NoRow
                                 \/ "overlap" \in doubt'[p]
                                 \/ /\ product'[p] = product[p]
                                    /\ "overlap" \in doubt[p] => "overlap" \in doubt'[p]
  PROVE  WindowIsFresh'
BY DEF WindowIsFresh

LEMMA DoubtsGrow ==
  ASSUME TypeInv, NEW S, NEW why, Doubts(S, why)
  PROVE  \A p \in Products : doubt[p] \subseteq doubt'[p]
BY DEF Doubts

\* The worker answers, and the stock stays as it is.
LEMMA LeaveFresh ==
  ASSUME TypeInv, WindowIsFresh, NEW w \in Workers, pc'[w] \notin Saving,
         UNCHANGED product, \A p \in Products : doubt[p] \subseteq doubt'[p],
         \A v \in Workers \ {w} : /\ pc'[v] = pc[v] /\ req'[v] = req[v]
                                  /\ item'[v] = item[v]
  PROVE  WindowIsFresh'
<1>1. ASSUME NEW v \in Workers, NEW p \in Products, InWindow(v, p)'
      PROVE  v # w /\ InWindow(v, p) /\ item'[v] = item[v]
  BY <1>1 DEF InWindow, Placing, Saving
<1> QED
  BY <1>1, KeepFresh

LEMMA AnswerOthers ==
  ASSUME TypeInv, NEW w \in Workers, Answer(w)
  PROVE  /\ pc'[w] = "idle"
         /\ \A v \in Workers \ {w} : /\ pc'[v] = pc[v] /\ req'[v] = req[v]
                                     /\ item'[v] = item[v]
BY DEF TypeInv, TypeOK, HandlerType, Answer, Goto

LEMMA FindProductFresh ==
  ASSUME TypeInv, WindowIsFresh, NEW w \in Workers, FindProduct(w)
  PROVE  WindowIsFresh'
<1> DEFINE p == req[w].product
<1>1. UNCHANGED product /\ pc[w] = "product"
  BY DEF FindProduct, tables
<1>2. \A q \in Products : doubt[q] \subseteq doubt'[q]
  BY DoubtsGrow DEF FindProduct
<1>3. CASE Answer(w)
  BY <1>1, <1>2, <1>3, AnswerOthers, LeaveFresh DEF Saving
<1>4. CASE ~Answer(w)
  <2>1. /\ item' = [item EXCEPT ![w] = product[p]]
        /\ Goto(w, "saveOrder") /\ UNCHANGED <<req, ord>>
        /\ IF Placing(w) /\ \E v \in Workers : InWindow(v, p)
             THEN Doubts({p}, "overlap") ELSE UNCHANGED doubt
    BY <1>4 DEF FindProduct
  <2>2. item'[w] = product[p]
        /\ \A v \in Workers \ {w} : pc'[v] = pc[v] /\ item'[v] = item[v]
    BY <2>1 DEF TypeInv, TypeOK, HandlerType, Goto
  <2>3. p \in Products
    BY <1>1, RequestFacts DEF TypeInv, Phase
  <2>4. \A v \in Workers \ {w}, q \in Products : InWindow(v, q)' <=> InWindow(v, q)
    BY <2>1, <2>2 DEF InWindow, Placing
  <2>5. \A q \in Products : InWindow(w, q)' => q = p /\ Placing(w)
    BY <2>1 DEF InWindow, Placing
  <2>6. (\E v \in Workers : InWindow(v, p)) /\ Placing(w) => "overlap" \in doubt'[p]
    BY <2>1, <2>3 DEF Doubts
  <2> SUFFICES ASSUME NEW v \in Workers, NEW q \in Products, InWindow(v, q)',
                      product'[q] # NoRow, "overlap" \notin doubt'[q]
               PROVE  item'[v] = product'[q] /\ \A u \in Workers \ {v} : ~InWindow(u, q)'
    BY DEF WindowIsFresh
  <2>7. CASE v = w
    BY <1>1, <2>2, <2>4, <2>5, <2>6, <2>7
  <2>8. CASE v # w
    <3>1. InWindow(v, q) /\ "overlap" \notin doubt[q]
      BY <1>2, <2>4, <2>8
    <3>2. ~InWindow(w, q)'
      BY <2>5, <2>6, <3>1
    <3> QED
      BY <1>1, <2>2, <2>4, <2>8, <3>1, <3>2 DEF WindowIsFresh
  <2> QED
    BY <2>7, <2>8
<1> QED
  BY <1>3, <1>4

LEMMA SaveOrderFresh ==
  ASSUME TypeInv, WindowIsFresh, NEW w \in Workers,
         InsertOrder(w) \/ MergeOrder(w) \/ UpdateOrder(w)
  PROVE  WindowIsFresh'
<1>1. UNCHANGED product /\ pc[w] = "saveOrder"
  BY DEF InsertOrder, MergeOrder, UpdateOrder
<1>2. \A q \in Products : doubt[q] \subseteq doubt'[q]
  BY DoubtsGrow DEF InsertOrder, MergeOrder, UpdateOrder
<1>3. CASE Answer(w)
  BY <1>1, <1>2, <1>3, AnswerOthers, LeaveFresh DEF Saving
<1>4. CASE ~Answer(w)
  <2>1. Goto(w, "saveProduct") /\ UNCHANGED <<req, item>>
    BY <1>4 DEF InsertOrder, MergeOrder, UpdateOrder
  <2>2. \A v \in Workers, p \in Products : InWindow(v, p)' => InWindow(v, p)
    BY <1>1, <2>1 DEF TypeInv, TypeOK, HandlerType, Goto, InWindow, Placing
  <2> QED
    BY <1>1, <1>2, <2>1, <2>2, KeepFresh
<1> QED
  BY <1>3, <1>4

\* An update leaves the row alone, an order writes it only from its window.
LEMMA SaveProductFresh ==
  ASSUME TypeInv, WindowIsFresh, NEW w \in Workers, SaveProduct(w)
  PROVE  WindowIsFresh'
<1>1. /\ pc[w] = "saveProduct" /\ UNCHANGED doubt
      /\ pc'[w] = "idle"
      /\ \A v \in Workers \ {w} : /\ pc'[v] = pc[v] /\ req'[v] = req[v]
                                  /\ item'[v] = item[v]
  BY AnswerOthers DEF SaveProduct
<1>2. req[w] \in Requests /\ item[w] \in Product
      /\ (Updating(w) => ord[w] \in Order /\ ord[w].quantity = req[w].quantity)
  BY <1>1 DEF TypeInv, Phase, Saving
<1>3. CASE Updating(w)
  <2>1. Remaining(w, item[w]) = item[w].quantity
    BY <1>2, <1>3, RowFacts DEF Remaining
  <2>2. [item[w] EXCEPT !.quantity = Remaining(w, item[w])] = item[w]
    BY <1>2, <2>1 DEF Product
  <2>3. UNCHANGED product
    BY <2>2 DEF SaveProduct
  <2> QED
    BY <1>1, <2>3, LeaveFresh DEF Saving
<1>4. CASE Placing(w)
  <2>1. \A p \in Products : product'[p] = product[p] \/ InWindow(w, p)
    BY <1>1, <1>4 DEF SaveProduct, InWindow, TypeInv, TypeOK, TableType
  <2>2. \A p \in Products : product'[p] # NoRow => product[p] # NoRow
    BY DEF SaveProduct, TypeInv, TypeOK, TableType
  <2>3. ASSUME NEW v \in Workers, NEW p \in Products, InWindow(v, p)'
        PROVE  v # w /\ InWindow(v, p) /\ item'[v] = item[v]
    BY <1>1, <2>3 DEF InWindow, Placing
  <2>4. ASSUME NEW v \in Workers, NEW p \in Products, InWindow(v, p)'
        PROVE  \/ product'[p] = NoRow \/ "overlap" \in doubt'[p]
               \/ product'[p] = product[p]
    BY <1>1, <2>1, <2>2, <2>3, <2>4 DEF WindowIsFresh
  <2> QED
    BY <1>1, <2>3, <2>4, KeepFresh
<1> QED
  BY <1>2, <1>3, <1>4, RequestFacts DEF Placing, Updating

LEMMA OthersFresh ==
  ASSUME TypeInv, WindowIsFresh, Others
  PROVE  WindowIsFresh'
<1>1. UNCHANGED <<pc, req, item>>
  BY DEF Others, AddUser, DeleteUsers, AddProduct, SupplyProduct,
         DeleteProducts, DeleteOrders, Handlers
<1>2. \A v \in Workers, p \in Products :
        InWindow(v, p)' => InWindow(v, p) /\ item'[v] = item[v]
  BY <1>1 DEF InWindow, Placing
<1>3. CASE AddUser \/ DeleteUsers \/ DeleteOrders
  BY <1>2, <1>3, KeepFresh DEF AddUser, DeleteUsers, DeleteOrders
<1>4. CASE AddProduct
  <2>1. \A v \in Workers, p \in Products : InWindow(v, p) => p # nextProduct
    <3>1. nextProduct \in Nat
      BY DEF TypeInv, TypeOK, TableType
    <3> QED
      BY <3>1 DEF TypeInv, Phase, InWindow, Saving, Products
  <2>2. \A p \in Products : p # nextProduct => product'[p] = product[p]
    BY <1>4 DEF AddProduct, TypeInv, TypeOK, TableType
  <2> QED
    BY <1>2, <1>4, <2>1, <2>2, KeepFresh DEF AddProduct
<1>5. CASE SupplyProduct
  <2>1. PICK p \in Products :
          /\ \A q \in Products \ {p} : product'[q] = product[q]
          /\ IF \E w \in Workers : InWindow(w, p)
               THEN Doubts({p}, "overlap") ELSE doubt' = [doubt EXCEPT ![p] = {}]
    BY <1>5 DEF SupplyProduct, TypeInv, TypeOK, TableType
  <2>2. (\E w \in Workers : InWindow(w, p)) => "overlap" \in doubt'[p]
    BY <2>1 DEF Doubts
  <2>3. \A q \in Products \ {p} : doubt'[q] = doubt[q]
    BY <2>1 DEF Doubts, TypeInv, TypeOK
  <2> QED
    BY <1>2, <2>1, <2>2, <2>3, KeepFresh
<1>6. CASE DeleteProducts
  <2>1. \A p \in Products : product'[p] = NoRow \/ product'[p] = product[p]
    BY <1>6 DEF DeleteProducts
  <2> QED
    BY <1>2, <1>6, <2>1, KeepFresh DEF DeleteProducts
<1> QED
  BY <1>3, <1>4, <1>5, <1>6 DEF Others

LEMMA NextFresh == TypeInv /\ WindowIsFresh /\ [Next]_vars => WindowIsFresh'
<1> SUFFICES ASSUME TypeInv, WindowIsFresh, [Next]_vars PROVE WindowIsFresh'
  OBVIOUS
<1>1. CASE UNCHANGED vars
  BY <1>1 DEF vars, tables, WindowIsFresh, InWindow, Placing
<1>2. ASSUME NEW w \in Workers, Receive(w) \/ FindOrder(w) \/ FindUser(w) \/ Fail(w)
      PROVE  WindowIsFresh'
  <2>1. UNCHANGED product /\ \A p \in Products : doubt[p] \subseteq doubt'[p]
    BY <1>2, DoubtsGrow DEF Receive, FindOrder, FindUser, Fail, tables
  <2>2. /\ pc'[w] \notin Saving
        /\ \A v \in Workers \ {w} : /\ pc'[v] = pc[v] /\ req'[v] = req[v]
                                    /\ item'[v] = item[v]
    <3>1. CASE Answer(w)
      BY <3>1, AnswerOthers DEF Saving
    <3>2. CASE ~Answer(w)
      BY <1>2, <3>2 DEF Receive, FindOrder, FindUser, Fail, Goto, Saving,
                        TypeInv, TypeOK, HandlerType
    <3> QED
      BY <3>1, <3>2
  <2> QED
    BY <2>1, <2>2, LeaveFresh
<1>3. ASSUME NEW w \in Workers, Handle(w) PROVE WindowIsFresh'
  BY <1>2, <1>3, FindProductFresh, SaveOrderFresh, SaveProductFresh DEF Handle
<1> QED
  BY <1>1, <1>3, OthersFresh DEF Next, Others, Rest

LEMMA InitFresh == Init => WindowIsFresh
BY DEF Init, WindowIsFresh, InWindow

\* Between the read at OrderController.java:65 and the save at 76 the entity is
\* the row, and no other order is between them too, unless two orders for the
\* product, or an order and a supply, overlapped.
THEOREM WindowsAreFresh == Spec => []WindowIsFresh
BY InitTypeInv, InitFresh, NextTypeInv, NextFresh, PTL DEF Spec

\* Only an order takes stock, from its window.
LEMMA TakingIsPlacing ==
  ASSUME TypeInv, NEW w \in Workers, NEW p \in Products, Taking(w, p)
  PROVE  /\ InWindow(w, p)
         /\ item[w].quantity \in Nat /\ Remaining(w, item[w]) \in Nat
<1>1. /\ pc[w] = "saveProduct" /\ req[w].product = p
      /\ Remaining(w, item[w]) # item[w].quantity
  BY DEF Taking
<1>2. Phase(w) /\ req[w] \in Requests /\ item[w] \in Product
      /\ Remaining(w, item[w]) \in Nat
  BY <1>1 DEF TypeInv, Phase, Saving
<1>3. item[w].quantity \in Nat /\ req[w].quantity \in Nat
  BY <1>2, RowFacts, RequestFacts
<1>4. ~Updating(w)
  BY <1>1, <1>2, <1>3 DEF Phase, Remaining
<1> QED
  BY <1>1, <1>2, <1>3, <1>4, RequestFacts DEF InWindow, Placing, Updating

\* The orders that are saved, those whose product is not saved yet included,
\* never exceed the stock, unless orders for one product overlapped, or an order
\* was replaced, amended or half saved.
THEOREM NeverOversold == Spec => []NotOversold
<1>1. TypeInv /\ WindowIsFresh => NotOversold
  <2> SUFFICES ASSUME TypeInv, WindowIsFresh, NEW p \in Products,
                      product[p] # NoRow, doubt[p] = {}
               PROVE  Shelf[p].quantity >= 0
    BY DEF NotOversold
  <2>1. product[p] \in Product /\ product[p].quantity \in Nat
    BY RowFacts DEF TypeInv, TypeOK, TableType
  <2>2. Shelf[p].quantity = product[p].quantity - Held(p)
    BY <2>1 DEF Shelf, Product
  <2>3. CASE \E w \in Workers : Taking(w, p)
    <3> DEFINE w == CHOOSE w \in Workers : Taking(w, p)
    <3>1. w \in Workers /\ Taking(w, p)
      BY <2>3
    <3>2. Held(p) = item[w].quantity - Remaining(w, item[w])
      BY <2>3 DEF Held
    <3> HIDE DEF w
    <3>3. item[w].quantity \in Nat /\ Remaining(w, item[w]) \in Nat /\ InWindow(w, p)
      BY <3>1, TakingIsPlacing
    <3>4. item[w] = product[p]
      BY <3>1, <3>3 DEF WindowIsFresh
    <3> QED
      BY <2>1, <2>2, <3>2, <3>3, <3>4
  <2>4. CASE ~\E w \in Workers : Taking(w, p)
    BY <2>1, <2>2, <2>4 DEF Held
  <2> QED
    BY <2>3, <2>4
<1> QED
  BY <1>1, InitTypeInv, InitFresh, NextTypeInv, NextFresh, PTL DEF Spec

\* No update of an order changes the stock, whatever happens between its calls:
\* when OrderController.java:98 takes the difference, line 95 has overwritten the
\* quantity it is taken from, also when the update wrote the row as it was.
THEOREM UpdatesTheorem == Spec => UpdatesBookNothing
<1> DEFINE Orderly == product' # product =>
             \/ changes' # changes
             \/ \E w \in Workers : pc[w] = "saveProduct" /\ Placing(w) /\ pc'[w] = "idle"
<1>1. ASSUME TypeInv, NEW w \in Workers, SaveProduct(w), Updating(w)
      PROVE  UNCHANGED product
  <2>1. /\ Phase(w) /\ pc[w] = "saveProduct" /\ req[w] \in Requests
        /\ item[w] \in Product /\ ord[w].quantity = req[w].quantity
    BY <1>1 DEF SaveProduct, TypeInv, Phase, Saving
  <2>2. item[w].quantity \in Nat /\ req[w].quantity \in Nat
    BY <2>1, RowFacts, RequestFacts
  <2>3. Remaining(w, item[w]) = item[w].quantity
    BY <1>1, <2>1, <2>2 DEF Remaining
  <2>4. [item[w] EXCEPT !.quantity = Remaining(w, item[w])] = item[w]
    BY <2>1, <2>3 DEF Product
  <2> QED
    BY <1>1, <2>4 DEF SaveProduct
<1>2. ASSUME TypeInv, NEW w \in Workers, SaveProduct(w), ~Updating(w)
      PROVE  pc[w] = "saveProduct" /\ Placing(w) /\ pc'[w] = "idle"
  <2>1. pc[w] = "saveProduct" /\ req[w] \in Requests
    BY <1>2 DEF SaveProduct, TypeInv, Phase, Saving
  <2>2. pc \in [Workers -> Pc] /\ pc' = [pc EXCEPT ![w] = "idle"]
    BY <1>2 DEF SaveProduct, Answer, Goto, TypeInv, TypeOK, HandlerType
  <2> QED
    BY <1>2, <2>1, <2>2, RequestFacts DEF Placing, Updating
<1>3. ASSUME NEW w \in Workers, Handle(w), ~SaveProduct(w)
      PROVE  UNCHANGED product
  BY <1>3 DEF Handle, Receive, FindOrder, FindUser, FindProduct, InsertOrder, MergeOrder,
     UpdateOrder, Fail, tables
<1>4. ASSUME TypeInv, AddProduct \/ SupplyProduct \/ DeleteProducts
      PROVE  changes' # changes
  <2>1. changes \in Nat
    BY <1>4, MarketAssumption DEF TypeInv, TypeOK
  <2> QED
    BY <1>4, <2>1 DEF AddProduct, SupplyProduct, DeleteProducts, Change
<1>5. ASSUME Rest \/ AddUser \/ DeleteUsers \/ DeleteOrders \/ UNCHANGED vars
      PROVE  UNCHANGED product
  BY <1>5 DEF Rest, AddUser, DeleteUsers, DeleteOrders, vars, tables
<1>6. TypeInv /\ [Next]_vars => Orderly
  BY <1>1, <1>2, <1>3, <1>4, <1>5 DEF Next
<1> QED
  BY <1>6, InitTypeInv, NextTypeInv, PTL DEF Spec, UpdatesBookNothing

-----------------------------------------------------------------------------
(* The handlers implement Inventory: what every order and shelf is meanwhile *)

OrderIdsAreOld == \A o \in Orders : orders[o] # NoRow => o < nextOrder

StockInv == TypeInv /\ WindowIsFresh /\ OrderIdsAreOld

LEMMA InitStockInv == Init => StockInv
BY InitTypeInv, InitFresh DEF StockInv, Init, OrderIdsAreOld

LEMMA NextOrderIds == TypeInv /\ OrderIdsAreOld /\ [Next]_vars => OrderIdsAreOld'
<1> SUFFICES ASSUME TypeInv, OrderIdsAreOld, [Next]_vars PROVE OrderIdsAreOld'
  OBVIOUS
<1>1. nextOrder \in Nat /\ orders \in [Orders -> Order \cup {NoRow}]
  BY DEF TypeInv, TypeOK, TableType
<1>2. CASE UNCHANGED <<orders, nextOrder>>
  BY <1>2 DEF OrderIdsAreOld
<1>3. ASSUME NEW w \in Workers, InsertOrder(w) PROVE OrderIdsAreOld'
  <2>1. ASSUME NEW o \in Orders, orders'[o] # NoRow
        PROVE  orders[o] # NoRow \/ (o = nextOrder /\ nextOrder' = nextOrder + 1)
    BY <1>1, <1>3, <2>1 DEF InsertOrder
  <2>2. nextOrder' \in {nextOrder, nextOrder + 1}
    BY <1>3 DEF InsertOrder
  <2> QED
    BY <1>1, <2>1, <2>2 DEF OrderIdsAreOld, Orders
<1>4. ASSUME NEW w \in Workers, MergeOrder(w) \/ UpdateOrder(w) PROVE OrderIdsAreOld'
  <2>1. UNCHANGED nextOrder
    BY <1>4 DEF MergeOrder, UpdateOrder
  <2>2. UNCHANGED orders \/ \E row : /\ orders[req[w].id] # NoRow
                                    /\ orders' = [orders EXCEPT ![req[w].id] = row]
    BY <1>4 DEF MergeOrder, IsStored, UpdateOrder
  <2> QED
    BY <1>1, <2>1, <2>2 DEF OrderIdsAreOld
<1>5. CASE DeleteOrders
  BY <1>1, <1>5 DEF DeleteOrders, OrderIdsAreOld
<1>6. ASSUME NEW w \in Workers,
             Receive(w) \/ FindOrder(w) \/ FindUser(w) \/ FindProduct(w)
               \/ SaveProduct(w) \/ Fail(w)
      PROVE  UNCHANGED <<orders, nextOrder>>
  BY <1>6 DEF Receive, FindOrder, FindUser, FindProduct, SaveProduct, Fail, tables
<1>7. ASSUME AddUser \/ DeleteUsers \/ AddProduct \/ SupplyProduct \/ DeleteProducts
      PROVE  UNCHANGED <<orders, nextOrder>>
  BY <1>7 DEF AddUser, DeleteUsers, AddProduct, SupplyProduct, DeleteProducts
<1>8. UNCHANGED vars => UNCHANGED <<orders, nextOrder>>
  BY DEF vars, tables
<1> QED
  BY <1>2, <1>3, <1>4, <1>5, <1>6, <1>7, <1>8 DEF Next, Handle, Rest

LEMMA NextStockInv == StockInv /\ [Next]_vars => StockInv'
BY NextTypeInv, NextFresh, NextOrderIds DEF StockInv

-----------------------------------------------------------------------------
(* What the shelf holds of a product.                                      *)

ShelfIs(p) ==
  /\ \A w \in Workers :
       Taking(w, p) => Shelf[p] = [product[p] EXCEPT !.quantity = Remaining(w, item[w])]
  /\ (\A w \in Workers : ~Taking(w, p)) => Shelf[p] = product[p]

LEMMA ShelfFacts ==
  ASSUME TypeInv, WindowIsFresh, NEW p \in Products, product[p] # NoRow,
         "overlap" \notin doubt[p]
  PROVE  ShelfIs(p)
<1>1. product[p] \in Product /\ product[p].quantity \in Nat
  BY RowFacts DEF TypeInv, TypeOK, TableType
<1>2. Shelf[p] = [product[p] EXCEPT !.quantity = product[p].quantity - Held(p)]
  BY <1>1 DEF Shelf, Product
<1>3. ASSUME NEW w \in Workers, Taking(w, p)
      PROVE  Shelf[p] = [product[p] EXCEPT !.quantity = Remaining(w, item[w])]
  <2> DEFINE u == CHOOSE u \in Workers : Taking(u, p)
  <2>1. u \in Workers /\ Taking(u, p)
    BY <1>3
  <2>2. Held(p) = item[u].quantity - Remaining(u, item[u])
    BY <1>3 DEF Held
  <2> HIDE DEF u
  <2>3. u = w
    BY <1>3, <2>1, TakingIsPlacing DEF WindowIsFresh
  <2>4. item[w] = product[p] /\ Remaining(w, item[w]) \in Nat
    BY <1>3, TakingIsPlacing DEF WindowIsFresh
  <2>5. product[p].quantity - Held(p) = Remaining(w, item[w])
    BY <1>1, <2>2, <2>3, <2>4
  <2> QED
    BY <1>2, <2>5
<1>4. ASSUME \A w \in Workers : ~Taking(w, p)
      PROVE  Shelf[p] = product[p]
  <2>1. product[p].quantity - Held(p) = product[p].quantity
    BY <1>1, <1>4 DEF Held
  <2> QED
    BY <1>1, <1>2, <2>1 DEF Product
<1> QED
  BY <1>3, <1>4 DEF ShelfIs

\* The same, before and after a step.
LEMMA ShelvesAre ==
  StockInv => \A p \in Products :
                product[p] # NoRow /\ "overlap" \notin doubt[p] => ShelfIs(p)
BY ShelfFacts DEF StockInv

LEMMA ShelvesAreNext ==
  (StockInv => \A p \in Products :
                 product[p] # NoRow /\ "overlap" \notin doubt[p] => ShelfIs(p))'
BY ShelvesAre, PTL

LEMMA EmptyShelf ==
  ASSUME NEW p \in Products, product[p] = NoRow
  PROVE  Shelf[p] = NoRow
BY DEF Shelf

\* The shelf of a product that a step does not concern.
LEMMA SameShelf ==
  ASSUME StockInv, StockInv', NEW p \in Products,
         product'[p] = product[p],
         product[p] # NoRow => "overlap" \notin doubt[p] /\ "overlap" \notin doubt'[p],
         product[p] # NoRow =>
           \A w \in Workers : /\ Taking(w, p)' <=> Taking(w, p)
                              /\ Taking(w, p) => Remaining(w, item[w])'
                                                 = Remaining(w, item[w])
  PROVE  Shelf'[p] = Shelf[p]
<1>1. CASE product[p] = NoRow
  BY <1>1 DEF Shelf
<1>2. CASE product[p] # NoRow
  <2>1. ShelfIs(p)
    BY <1>2, ShelvesAre
  <2>2. ShelfIs(p)'
    BY <1>2, ShelvesAreNext
  <2> QED
    BY <1>2, <2>1, <2>2 DEF ShelfIs
<1> QED
  BY <1>1, <1>2

-----------------------------------------------------------------------------
(* Each step is a step of Inventory or none.                               *)

View == <<Shelf, Book>>

\* No row changes, no handler begins or ends taking.
LEMMA QuietShelf ==
  ASSUME StockInv, StockInv', UNCHANGED <<product, orders>>, OnlyDoubts({})',
         \A p \in Products : doubt[p] \subseteq doubt'[p],
         \A w \in Workers, p \in Products :
           product[p] # NoRow => /\ Taking(w, p)' <=> Taking(w, p)
                                 /\ Taking(w, p) => Remaining(w, item[w])'
                                                    = Remaining(w, item[w])
  PROVE  UNCHANGED View
<1>1. \A p \in Products : Shelf'[p] = Shelf[p]
  BY SameShelf DEF OnlyDoubts
<1>2. Shelf' = Shelf
  BY <1>1 DEF Shelf
<1>3. Book' = Book
  BY DEF Book
<1> QED
  BY <1>2, <1>3 DEF View

\* Who takes, and what, is seen in pc, req, item and ord.
LEMMA SameTaking ==
  ASSUME NEW v \in Workers, NEW p \in Products, pc'[v] = pc[v],
         req'[v] = req[v], item'[v] = item[v], ord'[v] = ord[v]
  PROVE  /\ Taking(v, p)' <=> Taking(v, p)
         /\ Remaining(v, item[v])' = Remaining(v, item[v])
BY DEF Taking, Remaining, Updating

LEMMA OthersOfAnswer ==
  ASSUME TypeInv, NEW w \in Workers, Answer(w), NEW v \in Workers, v # w
  PROVE  /\ pc'[v] = pc[v] /\ req'[v] = req[v]
         /\ item'[v] = item[v] /\ ord'[v] = ord[v]
BY DEF TypeInv, TypeOK, HandlerType, Answer, Goto

LEMMA OthersOfGoto ==
  ASSUME TypeInv, NEW w \in Workers, NEW l, Goto(w, l), NEW v \in Workers, v # w
  PROVE  pc'[v] = pc[v]
BY DEF TypeInv, TypeOK, HandlerType, Goto

\* The steps before a handler saves anything.
LEMMA LookupsStutter ==
  ASSUME StockInv, StockInv', OnlyDoubts({})', NEW w \in Workers,
         Receive(w) \/ FindOrder(w) \/ FindUser(w) \/ FindProduct(w)
  PROVE  UNCHANGED View
<1>1. UNCHANGED <<product, orders>> /\ \A p \in Products : doubt[p] \subseteq doubt'[p]
  BY DoubtsGrow DEF Receive, FindOrder, FindUser, FindProduct, tables, StockInv
<1>2. pc[w] # "saveProduct" /\ pc'[w] # "saveProduct"
  <2>1. CASE Answer(w)
    BY <2>1, AnswerOthers DEF Receive, FindOrder, FindUser, FindProduct, StockInv
  <2>2. CASE ~Answer(w)
    BY <2>2 DEF Receive, FindOrder, FindUser, FindProduct, Goto, StockInv,
                TypeInv, TypeOK, HandlerType
  <2> QED
    BY <2>1, <2>2
<1>3. ASSUME NEW v \in Workers, v # w
      PROVE  /\ pc'[v] = pc[v] /\ req'[v] = req[v]
             /\ item'[v] = item[v] /\ ord'[v] = ord[v]
  <2>1. CASE Answer(w)
    BY <1>3, <2>1, OthersOfAnswer DEF StockInv
  <2>2. CASE ~Answer(w)
    BY <1>3, <2>2 DEF Receive, FindOrder, FindUser, FindProduct, Goto, StockInv,
                      TypeInv, TypeOK, HandlerType
  <2> QED
    BY <2>1, <2>2
<1>4. \A v \in Workers, p \in Products :
        /\ Taking(v, p)' <=> Taking(v, p)
        /\ Taking(v, p) => Remaining(v, item[v])' = Remaining(v, item[v])
  <2> SUFFICES ASSUME NEW v \in Workers, NEW p \in Products
               PROVE  /\ Taking(v, p)' <=> Taking(v, p)
                      /\ Taking(v, p) => Remaining(v, item[v])' = Remaining(v, item[v])
    OBVIOUS
  <2>1. CASE v = w
    BY <1>2, <2>1 DEF Taking
  <2>2. CASE v # w
    BY <1>3, <2>2, SameTaking
  <2> QED
    BY <2>1, <2>2
<1> QED
  BY <1>1, <1>4, QuietShelf

\* A handler fails: if it was taking, the product is in doubt, or gone.
LEMMA FailStutters ==
  ASSUME StockInv, StockInv', OnlyDoubts({})', NEW w \in Workers, Fail(w)
  PROVE  UNCHANGED View
<1>1. Answer(w) /\ UNCHANGED <<product, orders>>
      /\ Doubts({p \in Products : Taking(w, p)}, "broken")
  BY DEF Fail, tables
<1>2. \A p \in Products : doubt[p] \subseteq doubt'[p]
  BY <1>1 DEF Doubts
<1>3. \A p \in Products : Taking(w, p) => product[p] = NoRow
  BY <1>1 DEF Doubts, OnlyDoubts
<1>4. pc'[w] = "idle"
  BY <1>1, AnswerOthers DEF StockInv
<1>5. ASSUME NEW v \in Workers, NEW p \in Products, product[p] # NoRow
      PROVE  /\ Taking(v, p)' <=> Taking(v, p)
             /\ Taking(v, p) => Remaining(v, item[v])' = Remaining(v, item[v])
  <2>1. CASE v = w
    BY <1>3, <1>4, <1>5, <2>1 DEF Taking
  <2>2. CASE v # w
    BY <1>1, <2>2, OthersOfAnswer, SameTaking DEF StockInv
  <2> QED
    BY <2>1, <2>2
<1> QED
  BY <1>1, <1>2, <1>5, QuietShelf

LEMMA TakersPlace ==
  TypeInv => \A w \in Workers, p \in Products :
               Taking(w, p) => InWindow(w, p) /\ Placing(w)
BY TakingIsPlacing DEF InWindow

LEMMA TakersPlaceNext ==
  (TypeInv => \A w \in Workers, p \in Products :
                Taking(w, p) => InWindow(w, p) /\ Placing(w))'
BY TakersPlace, PTL

\* One worker is not taking before nor after, the others do not move.
LEMMA QuietWorker ==
  ASSUME StockInv, StockInv', UNCHANGED <<product, orders>>, OnlyDoubts({})',
         UNCHANGED doubt, NEW w \in Workers,
         \A p \in Products : ~Taking(w, p) /\ ~Taking(w, p)',
         \A v \in Workers \ {w} : /\ pc'[v] = pc[v] /\ req'[v] = req[v]
                                  /\ item'[v] = item[v] /\ ord'[v] = ord[v]
  PROVE  UNCHANGED View
<1>1. ASSUME NEW v \in Workers, NEW p \in Products
      PROVE  /\ Taking(v, p)' <=> Taking(v, p)
             /\ Taking(v, p) => Remaining(v, item[v])' = Remaining(v, item[v])
  <2>1. CASE v = w
    BY <2>1
  <2>2. CASE v # w
    BY <2>2, SameTaking
  <2> QED
    BY <2>1, <2>2
<1> QED
  BY <1>1, QuietShelf

\* The order is refused by the database.
LEMMA RefusedStutters ==
  ASSUME StockInv, StockInv', UNCHANGED <<product, orders>>, OnlyDoubts({})',
         UNCHANGED doubt, NEW w \in Workers, pc[w] = "saveOrder", Answer(w)
  PROVE  UNCHANGED View
<1>1. pc'[w] = "idle"
  BY AnswerOthers DEF StockInv
<1>2. \A p \in Products : ~Taking(w, p) /\ ~Taking(w, p)'
  BY <1>1 DEF Taking
<1> QED
  BY <1>2, OthersOfAnswer, QuietWorker DEF StockInv

\* An order that is merged or amended puts its product in doubt, unless the
\* amendment changes nothing.
LEMMA AmendStutters ==
  ASSUME StockInv, StockInv', OnlyDoubts({})', NEW w \in Workers,
         MergeOrder(w) \/ UpdateOrder(w)
  PROVE  UNCHANGED View
<1>1. pc[w] = "saveOrder" /\ UNCHANGED product
  BY DEF MergeOrder, UpdateOrder
<1>2. req[w] \in Requests /\ RowOf(req[w]) \in Order
      /\ (Updating(w) => [ord[w] EXCEPT !.quantity = req[w].quantity] \in Order)
  BY <1>1, RequestFacts, RowFacts DEF StockInv, TypeInv, Phase, Saving
<1>3. CASE MergeOrder(w) /\ ~Answer(w)
  <2> DEFINE row == RowOf(req[w])
  <2>1. /\ Refers(row)
        /\ Doubts({row.product, orders[req[w].id].product}, "replaced")
    BY <1>3 DEF MergeOrder
  <2>2. row.product \in Products
    BY <1>2 DEF Order
  <2>3. "replaced" \in doubt'[row.product] /\ product'[row.product] # NoRow
    BY <1>1, <2>1, <2>2 DEF Doubts, Refers
  <2> QED
    BY <2>2, <2>3 DEF OnlyDoubts
<1>4. CASE UpdateOrder(w) /\ ~Answer(w)
  <2> DEFINE row == [ord[w] EXCEPT !.quantity = req[w].quantity]
             o   == req[w].id
  <2>1. /\ Updating(w) /\ Goto(w, "saveProduct") /\ UNCHANGED <<req, item>>
        /\ UNCHANGED ord \/ ord' = [ord EXCEPT ![w] = row]
    BY <1>4 DEF UpdateOrder
  <2>2. row.product \in Products /\ o \in Orders
    BY <1>2, <2>1, RequestFacts DEF Order, Updating
  <2>3. UNCHANGED <<orders, doubt>>
    <3>1. CASE row = ord[w] /\ UNCHANGED <<orders, doubt>>
      BY <3>1
    <3>2. CASE /\ Refers(row) /\ orders' = [orders EXCEPT ![o] = row]
               /\ IF row # orders[o]
                    THEN Doubts({row.product, orders[o].product}, "amended")
                    ELSE UNCHANGED doubt
      <4>1. row = orders[o]
        <5> SUFFICES ASSUME row # orders[o] PROVE FALSE
          OBVIOUS
        <5>1. "amended" \in doubt'[row.product] /\ product'[row.product] # NoRow
          BY <1>1, <2>2, <3>2 DEF Doubts, Refers
        <5> QED
          BY <2>2, <5>1 DEF OnlyDoubts
      <4> QED
        BY <3>2, <4>1 DEF StockInv, TypeInv, TypeOK, TableType
    <3> QED
      BY <1>4, <3>1, <3>2 DEF UpdateOrder
  <2>4. \A p \in Products : ~Taking(w, p) /\ ~Taking(w, p)'
    <3>1. ~Placing(w)'
      BY <2>1 DEF Placing, Updating
    <3> QED
      BY <1>1, <3>1, TakersPlaceNext DEF Taking, StockInv
  <2>5. \A v \in Workers \ {w} : /\ pc'[v] = pc[v] /\ req'[v] = req[v]
                                 /\ item'[v] = item[v] /\ ord'[v] = ord[v]
    BY <2>1 DEF StockInv, TypeInv, TypeOK, HandlerType, Goto
  <2> QED
    BY <1>1, <2>3, <2>4, <2>5, QuietWorker
<1>5. CASE Answer(w)
  <2>1. UNCHANGED <<orders, doubt>>
    BY <1>5, AnswerOthers DEF MergeOrder, UpdateOrder, Goto, StockInv, TypeInv,
                              TypeOK, HandlerType
  <2> QED
    BY <1>1, <1>5, <2>1, RefusedStutters
<1> QED
  BY <1>3, <1>4, <1>5

\* The save of the product only writes down what the order has taken.
LEMMA SaveProductStutters ==
  ASSUME StockInv, StockInv', OnlyDoubts({})', NEW w \in Workers, SaveProduct(w)
  PROVE  UNCHANGED View
<1> DEFINE p   == req[w].product
           new == [item[w] EXCEPT !.quantity = Remaining(w, item[w])]
<1>1. /\ pc[w] = "saveProduct" /\ Answer(w) /\ UNCHANGED <<orders, doubt>>
      /\ product' = IF new = item[w] \/ product[p] = NoRow THEN product
                    ELSE [product EXCEPT ![p] = new]
  BY DEF SaveProduct
<1>2. pc'[w] = "idle" /\ \A q \in Products : ~Taking(w, q)'
  BY <1>1, AnswerOthers DEF Taking, StockInv
<1>3. ASSUME NEW v \in Workers, v # w, NEW q \in Products
      PROVE  /\ Taking(v, q)' <=> Taking(v, q)
             /\ Remaining(v, item[v])' = Remaining(v, item[v])
  BY <1>1, <1>3, OthersOfAnswer, SameTaking DEF StockInv
<1>4. req[w] \in Requests /\ p \in Products /\ item[w] \in Product
      /\ product \in [Products -> Product \cup {NoRow}]
  BY <1>1, RequestFacts
     DEF StockInv, TypeInv, TypeOK, TableType, Phase, Saving
<1>5. ASSUME NEW q \in Products, product[q] = NoRow \/ ~Taking(w, q)
      PROVE  Shelf'[q] = Shelf[q]
  <2>1. product'[q] = product[q]
    <3>1. CASE q = p /\ product[q] # NoRow
      <4>1. Remaining(w, item[w]) = item[w].quantity
        BY <1>1, <1>5, <3>1 DEF Taking
      <4>2. new = item[w]
        BY <1>4, <4>1 DEF Product
      <4> QED
        BY <1>1, <4>2
    <3>2. CASE q # p \/ product[q] = NoRow
      BY <1>1, <1>4, <3>2
    <3> QED
      BY <3>1, <3>2
  <2>2. product[q] # NoRow => "overlap" \notin doubt[q]
    BY <1>1, <2>1 DEF OnlyDoubts
  <2>3. product[q] # NoRow =>
          \A v \in Workers : /\ Taking(v, q)' <=> Taking(v, q)
                             /\ Taking(v, q) => Remaining(v, item[v])'
                                                = Remaining(v, item[v])
    BY <1>2, <1>3, <1>5
  <2> QED
    BY <1>1, <2>1, <2>2, <2>3, SameShelf
<1>6. ASSUME NEW q \in Products, product[q] # NoRow, Taking(w, q)
      PROVE  Shelf'[q] = Shelf[q]
  <2>1. new # item[w] /\ product'[q] = new
    <3>1. Remaining(w, item[w]) # item[w].quantity /\ q = p
      BY <1>6 DEF Taking
    <3>2. new.quantity = Remaining(w, item[w])
      BY <1>4 DEF Product
    <3> QED
      BY <1>1, <1>4, <1>6, <3>1, <3>2
  <2>2. product'[q] # NoRow
    <3>1. new \in Product
      BY <1>1, <1>4, RowFacts DEF StockInv, TypeInv, Phase, Saving
    <3> QED
      BY <2>1, <3>1, RowFacts
  <2>3. "overlap" \notin doubt[q] /\ "overlap" \notin doubt'[q]
    BY <1>1, <2>2 DEF OnlyDoubts
  <2>4. InWindow(w, q)
    BY <1>6, TakersPlace DEF StockInv
  <2>5. item[w] = product[q] /\ \A v \in Workers \ {w} : ~InWindow(v, q)
    BY <1>6, <2>3, <2>4 DEF StockInv, WindowIsFresh
  <2>6. Shelf[q] = new
    <3>1. ShelfIs(q)
      BY <1>6, <2>3, ShelvesAre
    <3> QED
      BY <1>6, <2>5, <3>1 DEF ShelfIs
  <2>7. \A v \in Workers : ~Taking(v, q)'
    <3>1. ASSUME NEW v \in Workers, v # w PROVE ~Taking(v, q)'
      BY <1>3, <2>5, <3>1, TakersPlace DEF StockInv
    <3> QED
      BY <1>2, <3>1
  <2>8. Shelf'[q] = product'[q]
    <3>1. ShelfIs(q)'
      BY <2>2, <2>3, ShelvesAreNext
    <3> QED
      BY <2>7, <3>1 DEF ShelfIs
  <2> QED
    BY <2>1, <2>6, <2>8
<1>7. \A q \in Products : Shelf'[q] = Shelf[q]
  BY <1>5, <1>6
<1>8. Shelf' = Shelf
  BY <1>7 DEF Shelf
<1>9. Book' = Book
  BY <1>1 DEF Book
<1> QED
  BY <1>8, <1>9 DEF View

\* The save of a new order is the whole of Inventory's sale.
LEMMA InsertSells ==
  ASSUME StockInv, StockInv', OnlyDoubts({})', NEW w \in Workers, InsertOrder(w)
  PROVE  UNCHANGED View \/ Sells(w)
<1>1. /\ pc[w] = "saveOrder" /\ Placing(w) /\ nextOrder <= MaxOrders
      /\ UNCHANGED <<product, doubt>>
  BY DEF InsertOrder
<1>2. CASE Answer(w)
  <2>1. UNCHANGED orders
    BY <1>2, AnswerOthers DEF InsertOrder, Goto, StockInv, TypeInv, TypeOK,
                              HandlerType
  <2> QED
    BY <1>1, <1>2, <2>1, RefusedStutters
<1>3. CASE ~Answer(w)
  <2>1. /\ Refers(RowOf(req[w])) /\ Goto(w, "saveProduct")
        /\ orders' = [orders EXCEPT ![nextOrder] = RowOf(req[w])]
        /\ UNCHANGED <<req, item, ord>>
    BY <1>3 DEF InsertOrder
  <2>2. PICK p \in Products : p = req[w].product
    BY <1>1, RequestFacts DEF StockInv, TypeInv, Phase, Saving
  <2>3. PICK n \in Nat : n = req[w].quantity
    BY <1>1, RequestFacts DEF StockInv, TypeInv, Phase, Saving
  <2>5. product[p] # NoRow /\ "overlap" \notin doubt[p] /\ "overlap" \notin doubt'[p]
    BY <1>1, <2>1, <2>2 DEF Refers, RowOf, OnlyDoubts
  <2>6. InWindow(w, p)
    BY <1>1, <2>2 DEF InWindow
  <2>7. item[w] = product[p] /\ \A v \in Workers \ {w} : ~InWindow(v, p)
    BY <2>5, <2>6 DEF StockInv, WindowIsFresh
  <2>8. Remaining(w, item[w]) \in Nat
        /\ Remaining(w, item[w]) = product[p].quantity - n
    BY <1>1, <2>3, <2>7, RowFacts
       DEF StockInv, TypeInv, TypeOK, TableType, Phase, Saving, Remaining, Placing,
           Updating
  <2>9. ASSUME NEW v \in Workers, v # w, NEW q \in Products
        PROVE  /\ Taking(v, q)' <=> Taking(v, q)
               /\ Remaining(v, item[v])' = Remaining(v, item[v])
    BY <2>1, <2>9, OthersOfGoto, SameTaking DEF StockInv
  <2>10. \A v \in Workers \ {w} : ~Taking(v, p) /\ ~Taking(v, p)'
    BY <2>7, <2>9, TakersPlace DEF StockInv
  <2>11. \A q \in Products : ~Taking(w, q) /\ (Taking(w, q)' => q = p)
    BY <1>1, <2>1, <2>2 DEF Taking
  <2>12. Shelf[p] = product[p]
    <3>1. ShelfIs(p)
      BY <2>5, ShelvesAre
    <3> QED
      BY <2>10, <2>11, <3>1 DEF ShelfIs
  <2>13. product[p] \in Product /\ product[p].quantity \in Nat
    BY <2>5, RowFacts DEF StockInv, TypeInv, TypeOK, TableType
  <2>14. Shelf'[p] = [product[p] EXCEPT !.quantity = product[p].quantity - n]
    <3>1. ShelfIs(p)'
      BY <1>1, <2>5, ShelvesAreNext
    <3>2. Remaining(w, item[w])' = product[p].quantity - n /\ product'[p] = product[p]
      BY <1>1, <2>1, <2>8 DEF Remaining, Updating
    <3>3. CASE Taking(w, p)'
      BY <3>1, <3>2, <3>3 DEF ShelfIs
    <3>4. CASE ~Taking(w, p)'
      <4>1. Shelf'[p] = product[p]
        BY <2>10, <3>1, <3>2, <3>4 DEF ShelfIs
      <4>2. pc'[w] = "saveProduct"
        BY <2>1 DEF Goto, StockInv, TypeInv, TypeOK, HandlerType
      <4>3. product[p].quantity - n = product[p].quantity
        BY <2>1, <2>2, <2>7, <3>2, <3>4, <4>2 DEF Taking
      <4> QED
        BY <2>13, <4>1, <4>3 DEF Product
    <3> QED
      BY <3>3, <3>4
  <2>15. \A q \in Products : q # p => Shelf'[q] = Shelf[q]
    <3> SUFFICES ASSUME NEW q \in Products, q # p PROVE Shelf'[q] = Shelf[q]
      OBVIOUS
    <3>1. product[q] # NoRow => "overlap" \notin doubt[q] /\ "overlap" \notin doubt'[q]
      BY <1>1 DEF OnlyDoubts
    <3>2. \A v \in Workers : /\ Taking(v, q)' <=> Taking(v, q)
                             /\ Taking(v, q) => Remaining(v, item[v])'
                                                = Remaining(v, item[v])
      BY <2>9, <2>11
    <3> QED
      BY <1>1, <3>1, <3>2, SameShelf
  <2>16. Shelf' = [Shelf EXCEPT ![p].quantity = @ - n]
    <3>1. Shelf' = [Shelf EXCEPT ![p] = [product[p] EXCEPT !.quantity = product[p].quantity - n]]
      BY <2>14, <2>15 DEF Shelf
    <3> QED
      BY <2>12, <3>1
  <2>17. nextOrder \in Orders /\ orders[nextOrder] = NoRow
    BY <1>1, MarketAssumption
       DEF StockInv, TypeInv, TypeOK, TableType, OrderIdsAreOld, Orders
  <2>18. Book[nextOrder] = NoRow
         /\ Book' = [Book EXCEPT ![nextOrder] = [product |-> p, quantity |-> n]]
    <3>1. RowOf(req[w]) \in Order /\ RowOf(req[w]).product = p
          /\ RowOf(req[w]).quantity = n
      BY <1>1, <2>2, <2>3, RequestFacts DEF StockInv, TypeInv, Phase, Saving, RowOf
    <3>2. RowOf(req[w]) # NoRow
      BY <3>1, RowFacts
    <3>3. \A o \in Orders : orders'[o] = IF o = nextOrder THEN RowOf(req[w]) ELSE orders[o]
      BY <2>1, <2>17 DEF StockInv, TypeInv, TypeOK, TableType
    <3> QED
      BY <2>17, <3>1, <3>2, <3>3 DEF Book
  <2>19. Shop!Place(nextOrder, p, n)
    BY <2>5, <2>8, <2>7, <2>12, <2>13, <2>16, <2>18, RowFacts
       DEF Shop!Place, Shop!Take
  <2> QED
    BY <1>1, <2>2, <2>3, <2>17, <2>19 DEF Shop!Sell, Sells
<1> QED
  BY <1>2, <1>3

\* The shelf of a product that no order takes from.
LEMMA UntakenShelf ==
  ASSUME StockInv', NEW p \in Products, \A w \in Workers : ~Taking(w, p)',
         product'[p] # NoRow => "overlap" \notin doubt'[p]
  PROVE  Shelf'[p] = product'[p]
<1>1. CASE product'[p] = NoRow
  BY <1>1 DEF Shelf
<1>2. CASE product'[p] # NoRow
  BY <1>2, ShelvesAreNext DEF ShelfIs
<1> QED
  BY <1>1, <1>2

LEMMA SupplyStep ==
  ASSUME StockInv, StockInv', OnlyDoubts({})', AddProduct \/ SupplyProduct
  PROVE  UNCHANGED pc /\ Shop!Manage
<1>1. UNCHANGED <<pc, req, item, ord, orders>>
  BY DEF AddProduct, SupplyProduct, Handlers
<1>2. PICK p \in Products, row \in NewRow :
        /\ product' = [product EXCEPT ![p] = row]
        /\ \A q \in Products \ {p} : doubt'[q] = doubt[q]
        /\ \A w \in Workers : ~InWindow(w, p)
  <2>1. CASE AddProduct
    <3>1. nextProduct \in Products
      BY <2>1, MarketAssumption DEF AddProduct, StockInv, TypeInv, TypeOK, TableType,
                                    Products
    <3>2. \A w \in Workers : ~InWindow(w, nextProduct)
      <4>1. nextProduct \in Nat
        BY DEF StockInv, TypeInv, TypeOK, TableType
      <4> QED
        BY <4>1 DEF StockInv, TypeInv, Phase, InWindow, Saving
    <3> QED
      BY <2>1, <3>1, <3>2 DEF AddProduct
  <2>2. CASE SupplyProduct
    <3>1. PICK p \in Products, row \in NewRow :
            /\ product' = [product EXCEPT ![p] = row]
            /\ IF \E w \in Workers : InWindow(w, p)
                 THEN Doubts({p}, "overlap") ELSE doubt' = [doubt EXCEPT ![p] = {}]
      BY <2>2 DEF SupplyProduct
    <3>2. product'[p] # NoRow
      <4>1. row \in Product
        BY MarketAssumption DEF NewRow, Product
      <4> QED
        BY <3>1, <4>1, RowFacts DEF StockInv, TypeInv, TypeOK, TableType
    <3>3. ~\E w \in Workers : InWindow(w, p)
      BY <3>1, <3>2 DEF Doubts, OnlyDoubts
    <3>4. \A q \in Products \ {p} : doubt'[q] = doubt[q]
      BY <3>1, <3>3 DEF StockInv, TypeInv, TypeOK
    <3> QED
      BY <3>1, <3>3, <3>4
  <2> QED
    BY <2>1, <2>2
<1>3. \A v \in Workers, q \in Products :
        /\ Taking(v, q)' <=> Taking(v, q)
        /\ Remaining(v, item[v])' = Remaining(v, item[v])
  BY <1>1, SameTaking
<1>4. Shelf'[p] = row
  <2>1. \A w \in Workers : ~Taking(w, p)'
    BY <1>2, <1>3, TakersPlace DEF StockInv
  <2>2. product'[p] = row
    BY <1>2 DEF StockInv, TypeInv, TypeOK, TableType
  <2> QED
    BY <2>1, <2>2, UntakenShelf DEF OnlyDoubts
<1>5. \A q \in Products : q # p => Shelf'[q] = Shelf[q]
  <2> SUFFICES ASSUME NEW q \in Products, q # p PROVE Shelf'[q] = Shelf[q]
    OBVIOUS
  <2>1. product'[q] = product[q] /\ doubt'[q] = doubt[q]
    BY <1>2 DEF StockInv, TypeInv, TypeOK, TableType
  <2>2. product[q] # NoRow => "overlap" \notin doubt[q] /\ "overlap" \notin doubt'[q]
    BY <2>1 DEF OnlyDoubts
  <2> QED
    BY <1>3, <2>1, <2>2, SameShelf
<1>6. Shelf' = [Shelf EXCEPT ![p] = row]
  BY <1>4, <1>5 DEF Shelf
<1>7. Book' = Book
  BY <1>1 DEF Book
<1>8. Shop!Supply(p, row) /\ row \in Shop!Item
  BY <1>6, <1>7 DEF Shop!Supply, Shop!Item, NewRow
<1> QED
  BY <1>1, <1>8 DEF Shop!Manage

LEMMA WithdrawStep ==
  ASSUME StockInv, StockInv', OnlyDoubts({})', DeleteProducts
  PROVE  UNCHANGED pc /\ Shop!Manage
<1>1. UNCHANGED <<pc, req, item, ord, orders, doubt>>
  BY DEF DeleteProducts, Handlers
<1>2. PICK S \in SUBSET Products :
        /\ \A o \in Orders : orders[o] # NoRow => orders[o].product \notin S
        /\ product' = [p \in Products |-> IF p \in S THEN NoRow ELSE product[p]]
  BY DEF DeleteProducts
<1>3. \A v \in Workers, q \in Products :
        /\ Taking(v, q)' <=> Taking(v, q)
        /\ Remaining(v, item[v])' = Remaining(v, item[v])
  BY <1>1, SameTaking
<1>4. \A q \in Products : Shelf'[q] = IF q \in S THEN NoRow ELSE Shelf[q]
  <2> SUFFICES ASSUME NEW q \in Products
               PROVE  Shelf'[q] = IF q \in S THEN NoRow ELSE Shelf[q]
    OBVIOUS
  <2>1. CASE q \in S
    BY <1>2, <2>1 DEF Shelf
  <2>2. CASE q \notin S
    <3>1. product'[q] = product[q]
      BY <1>2, <2>2
    <3>2. product[q] # NoRow => "overlap" \notin doubt[q] /\ "overlap" \notin doubt'[q]
      BY <1>1, <3>1 DEF OnlyDoubts
    <3> QED
      BY <1>3, <2>2, <3>1, <3>2, SameShelf
  <2> QED
    BY <2>1, <2>2
<1>5. Shelf' = [q \in Products |-> IF q \in S THEN NoRow ELSE Shelf[q]]
  BY <1>4 DEF Shelf
<1>6. Book' = Book
  BY <1>1 DEF Book
<1>7. S \cap Shop!Sold = {}
  <2>1. \A o \in Orders : Book[o] # NoRow => orders[o] # NoRow
                                             /\ Book[o].product = orders[o].product
    BY DEF Book
  <2> QED
    BY <1>2, <2>1 DEF Shop!Sold
<1>8. Shop!Withdraw(S)
  BY <1>5, <1>6, <1>7 DEF Shop!Withdraw
<1> QED
  BY <1>1, <1>8 DEF Shop!Manage

LEMMA ForgetStep ==
  ASSUME StockInv, StockInv', OnlyDoubts({})', DeleteOrders
  PROVE  UNCHANGED pc /\ Shop!Manage
<1>1. UNCHANGED <<pc, req, item, ord, product, doubt>>
  BY DEF DeleteOrders, Handlers
<1>2. PICK S \in SUBSET Orders :
        orders' = [o \in Orders |-> IF o \in S THEN NoRow ELSE orders[o]]
  BY DEF DeleteOrders
<1>3. Shelf' = Shelf
  <2>1. \A v \in Workers, q \in Products :
          /\ Taking(v, q)' <=> Taking(v, q)
          /\ Remaining(v, item[v])' = Remaining(v, item[v])
    BY <1>1, SameTaking
  <2>2. \A q \in Products : Shelf'[q] = Shelf[q]
    BY <1>1, <2>1, SameShelf DEF OnlyDoubts
  <2> QED
    BY <2>2 DEF Shelf
<1>4. Book' = [o \in Orders |-> IF o \in S THEN NoRow ELSE Book[o]]
  BY <1>2 DEF Book
<1>5. Shop!Forget(S)
  BY <1>3, <1>4 DEF Shop!Forget
<1> QED
  BY <1>1, <1>5 DEF Shop!Manage

\* A step of a worker is its own and moves it.
LEMMA HandleMoves ==
  ASSUME TypeInv, NEW w \in Workers, Handle(w)
  PROVE  pc'[w] # pc[w] /\ \A v \in Workers \ {w} : pc'[v] = pc[v]
<1>1. pc \in [Workers -> Pc]
  BY DEF TypeInv, TypeOK, HandlerType
<1>2. CASE Answer(w)
  <2>1. pc[w] # "idle"
    BY <1>1, <1>2 DEF Handle, Receive, FindOrder, FindUser, FindProduct, InsertOrder,
                      MergeOrder, UpdateOrder, SaveProduct, Fail, Answer, Goto
  <2> QED
    BY <1>2, <2>1, AnswerOthers
<1>3. CASE ~Answer(w)
  <2>1. PICK l \in Pc : Goto(w, l) /\ l # pc[w]
    BY <1>3 DEF Handle, Receive, FindOrder, FindUser, FindProduct, InsertOrder,
                MergeOrder, UpdateOrder, SaveProduct, Fail, Pc
  <2> QED
    BY <1>1, <2>1 DEF Goto
<1> QED
  BY <1>2, <1>3

\* A step of the inventory, by a worker or by the shop.
Booked ==
  /\ \A w \in Workers : pc'[w] # pc[w] => UNCHANGED View \/ Sells(w)
  /\ UNCHANGED pc => [Shop!Manage]_View

LEMMA NextBooks ==
  StockInv /\ StockInv' /\ [Next]_vars /\ OnlyDoubts({})' => Booked
<1> SUFFICES ASSUME StockInv, StockInv', [Next]_vars, OnlyDoubts({})'
             PROVE  Booked
  OBVIOUS
<1>4. ASSUME UNCHANGED View PROVE Booked
  BY <1>4 DEF Booked
<1>5. ASSUME UNCHANGED pc, Shop!Manage PROVE Booked
  BY <1>5 DEF Booked
<1>1. CASE UNCHANGED vars
  <2>1. UNCHANGED <<product, orders, doubt, pc, req, item, ord>>
    BY <1>1 DEF vars, tables
  <2>2. \A v \in Workers, q \in Products :
          /\ Taking(v, q)' <=> Taking(v, q)
          /\ Remaining(v, item[v])' = Remaining(v, item[v])
    BY <2>1, SameTaking
  <2> QED
    BY <1>4, <2>1, <2>2, QuietShelf
<1>2. ASSUME NEW w \in Workers, Handle(w) PROVE Booked
  <2>1. UNCHANGED View \/ Sells(w)
    BY <1>2, LookupsStutter, InsertSells, AmendStutters, SaveProductStutters,
       FailStutters DEF Handle
  <2>2. pc'[w] # pc[w] /\ \A v \in Workers \ {w} : pc'[v] = pc[v]
    BY <1>2, HandleMoves DEF StockInv
  <2> QED
    BY <2>1, <2>2 DEF Booked
<1>3. CASE AddUser \/ DeleteUsers
  <2>1. UNCHANGED <<product, orders, doubt, pc, req, item, ord>>
    BY <1>3 DEF AddUser, DeleteUsers, Handlers
  <2>2. \A v \in Workers, q \in Products :
          /\ Taking(v, q)' <=> Taking(v, q)
          /\ Remaining(v, item[v])' = Remaining(v, item[v])
    BY <2>1, SameTaking
  <2> QED
    BY <1>4, <2>1, <2>2, QuietShelf
<1>6. CASE AddProduct \/ SupplyProduct \/ DeleteProducts \/ DeleteOrders
  BY <1>5, <1>6, SupplyStep, WithdrawStep, ForgetStep
<1> QED
  BY <1>1, <1>2, <1>3, <1>6 DEF Next, Rest

\* While nothing has put the stock out of step with the orders, what
\* /order/place does in two saves (OrderController.java:74 and 76) cannot be
\* told from one sale of what was ordered, no other step of an order handler
\* touches the inventory, and the other endpoints do what the shop may do.
THEOREM ImplementsInventory == Spec => BooksLikeInventory
<1>1. StockInv /\ StockInv' /\ [Next]_vars
        => (OnlyDoubts({})' =>
              /\ \A w \in Workers :
                   pc'[w] # pc[w] => UNCHANGED <<Shelf, Book>> \/ Sells(w)
              /\ UNCHANGED pc => [Shop!Manage]_<<Shelf, Book>>)
  BY NextBooks DEF View, Booked
<1>2. Spec => []StockInv
  BY InitStockInv, NextStockInv, PTL DEF Spec
<1> QED
  BY <1>1, <1>2, PTL DEF Spec, BooksLikeInventory
=============================================================================
