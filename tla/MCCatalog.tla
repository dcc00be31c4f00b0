------------------------------ MODULE MCCatalog ------------------------------
(* Orders do not touch what a review decides, and the counter does not     *)
(* depend on who decided.  A behaviour of this module is one of two kinds. *)
(* "review": two requests on a row of any kind, without orders: an edit    *)
(* races a review or another edit.  "stock": an administrator's product,   *)
(* edited by two requests, with two orders: edits race orders and each     *)
(* other, and three writes of the content take the product from finite to  *)
(* unlimited stock and back.                                               *)
EXTENDS Listings, TLC

CONSTANTS r1, r2, o1, o2

VARIABLE focus

CatalogInit ==
  /\ focus \in {"review", "stock"}
  /\ ListingInit
  /\ focus = "stock" => listing = "product"

StockEdits ==
  \/ create_product
  \/ \E r \in Requests :
       \/ update_product(r) \/ set_product_status(r)
       \/ Commit(r) \/ sync_stock(r) \/ sync_fails(r)

CatalogNext ==
  /\ UNCHANGED focus
  /\ \/ focus = "review" /\ RowNext
     \/ focus = "stock" /\ StockEdits
     \/ focus = "stock" /\ OrderNext

CatalogSpec == CatalogInit /\ [][CatalogNext]_<<focus, listingVars>>

Symmetry == Permutations({r1, r2}) \cup Permutations({o1, o2})
=============================================================================
