--------------------------- MODULE MCMarketplace ----------------------------
(***************************************************************************)
(* Values of Marketplace's constants for TLC.                              *)
(***************************************************************************)
EXTENDS Marketplace, TLC

\* The workers are alike.  The CHOOSE of Held matters only where two workers
\* take from one product, and no property speaks of such states.
Symmetry == Permutations(Workers)

OneOrTwo == {1, 2}

\* Orders for the first product, and updates that name either product.
PlaceRequests  == [op : {"place"}, id : Orders \cup {NoId}, user : Users,
                   product : {1}, quantity : Quantities]
UpdateRequests == [op : {"update"}, id : {1}, user : Users,
                   product : Products, quantity : Quantities]

AllRequests   == PlaceRequests \cup UpdateRequests
NewOrders     == {r \in PlaceRequests : r.id = NoId}
=============================================================================
