-------------------------- MODULE PurchaseContract --------------------------
(***************************************************************************)
(* What the order system promises about an order, its money and its stock, *)
(* with no sessions, no jobs and no payment provider: an order is sold     *)
(* once, from the wallet or elsewhere, takes its stock from the shelf once *)
(* and gives it back once, and a refund undoes exactly what the sale did.  *)
(***************************************************************************)
EXTENDS Integers

CONSTANTS Orders, VipOrders, Price, Quantity, Stock0, Balance0

VARIABLES
  state,    \* state of each order
  charged,  \* what the order has taken from the wallet and not returned
  access,   \* entitlements the order gives
  held,     \* whether the order holds stock
  shelf,    \* stock for sale
  wallet,   \* wallet balance
  periods   \* VIP periods granted

vars == <<state, charged, access, held, shelf, wallet, periods>>

Init ==
  /\ state = [o \in Orders |-> "absent"]
  /\ charged = [o \in Orders |-> 0]
  /\ access = [o \in Orders |-> 0]
  /\ held = [o \in Orders |-> FALSE]
  /\ shelf = Stock0
  /\ wallet = Balance0
  /\ periods = 0

Place(o) ==
  /\ state[o] = "absent"
  /\ state' = [state EXCEPT ![o] = "pending"]
  /\ held' = [held EXCEPT ![o] = o \notin VipOrders]
  /\ \/ o \in VipOrders /\ shelf' = shelf
     \/ o \notin VipOrders /\ shelf >= Quantity /\ shelf' = shelf - Quantity
  /\ UNCHANGED <<charged, access, wallet, periods>>

\* The order is sold for an amount taken from the wallet: its price, or
\* nothing when it is paid elsewhere.
Settle(o, amount) ==
  /\ state[o] = "pending"
  /\ wallet >= amount
  /\ state' = [state EXCEPT ![o] = "paid"]
  /\ charged' = [charged EXCEPT ![o] = amount]
  /\ wallet' = wallet - amount
  /\ \/ /\ o \in VipOrders
        /\ periods' = periods + 1
        /\ access' = access
     \/ /\ o \notin VipOrders
        /\ periods' = periods
        /\ access' = [access EXCEPT ![o] = Quantity]
  /\ UNCHANGED <<held, shelf>>

\* What the order holds goes back to the shelf.
PutBack(o) ==
  /\ shelf' = IF held[o] THEN shelf + Quantity ELSE shelf
  /\ held' = [held EXCEPT ![o] = FALSE]

Withdraw(o) ==
  /\ state[o] = "pending"
  /\ state' = [state EXCEPT ![o] = "canceled"]
  /\ PutBack(o)
  /\ UNCHANGED <<charged, access, wallet, periods>>

Refund(o) ==
  /\ state[o] = "paid"
  /\ state' = [state EXCEPT ![o] = "refunded"]
  /\ wallet' = wallet + charged[o]
  /\ charged' = [charged EXCEPT ![o] = 0]
  /\ access' = [access EXCEPT ![o] = 0]
  /\ PutBack(o)
  /\ UNCHANGED periods

\* An administrator tops the wallet up or takes money out of it.
Adjust ==
  /\ \E amount \in {Price, -Price} :
       wallet + amount >= 0 /\ wallet' = wallet + amount
  /\ UNCHANGED <<state, charged, access, held, shelf, periods>>

Next ==
  \/ \E o \in Orders : \/ Place(o)
                       \/ Settle(o, 0)
                       \/ Settle(o, Price)
                       \/ Withdraw(o)
                       \/ Refund(o)
  \/ Adjust

Spec == Init /\ [][Next]_vars
=============================================================================
