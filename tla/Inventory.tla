------------------------------ MODULE Inventory ------------------------------
(***************************************************************************)
(* Administration of the catalogue and of the stock, beside the orders     *)
(* that live on the same rows: src/internal/service/account.go and         *)
(* product.go, with the repositories and handlers under and over them.     *)
(*                                                                         *)
(* Unlike Tables, rows are deleted here, and foreign keys matter: a row is *)
(* "NONE" before its INSERT and "DELETED" after its DELETE (BIGSERIAL ids  *)
(* are not used again).  An order closes only under its row lock, as in    *)
(* the lawful instance of Store, so that what goes wrong here is the       *)
(* doing of the administration.                                            *)
(*                                                                         *)
(* forceDelete is one transaction of three statements.  What it has        *)
(* deleted and not yet committed is kept in its task: nobody sees it, and  *)
(* who would write such a row waits.                                       *)
(***************************************************************************)
EXTENDS Naturals, FiniteSets

CONSTANTS
  Products, Accounts, Orders,   \* ids of the rows that may be inserted
  Admins,                       \* goroutines that serve the dashboard
  NoProduct, NoAccount, NoOrder \* SQL NULL, by the table it would refer to

ASSUME InventoryNulls ==
  NoProduct \notin Products /\ NoAccount \notin Accounts /\ NoOrder \notin Orders

VARIABLES
  prodState,    \* a product's row: is_active, or that there is none
  accStatus, accProduct, accHolder,
  ordStatus, ordProduct, ordAccount,
  payments,     \* orders with a row in payments
  dlvAccount,   \* deliveries.account_id of the order's delivery
  task,         \* what each admin request has read and is about to write
  at,           \* where the customer's request for each order is
  mine,         \* the account that request works on
  handed,       \* the account whose credentials the customer got
  overwrote     \* accounts whose status an edit changed

accountCols == <<accStatus, accProduct, accHolder>>
orderCols   == <<ordStatus, ordProduct, ordAccount>>
billing     == <<payments, dlvAccount>>
flow        == <<at, mine>>
history     == <<handed, overwrote>>
vars == <<prodState, accountCols, orderCols, billing, task, flow, history>>

AccountStatus == {"AVAILABLE", "RESERVED", "SOLD"}
OrderStatus   == {"PENDING", "PAID", "DELIVERED", "FAILED", "EXPIRED",
                  "CANCELLED"}

LiveProducts == {p \in Products : prodState[p] \in {"ACTIVE", "INACTIVE"}}
LiveAccounts == {a \in Accounts : accStatus[a] \in AccountStatus}
LiveOrders   == {o \in Orders : ordStatus[o] \in OrderStatus}

\* The operations of a dashboard request that span several statements.
NoTask == [op |-> "idle", product |-> NoProduct, account |-> NoAccount,
           status |-> "AVAILABLE", batch |-> {}, orders |-> {}, accounts |-> {}]
Ops   == {"idle", "edit", "intake", "product", "forceAccounts", "forceProduct"}
Tasks == [op : Ops, product : Products \cup {NoProduct},
          account : Accounts \cup {NoAccount}, status : AccountStatus, batch : SUBSET Accounts,
          orders : SUBSET Orders, accounts : SUBSET Accounts]

TypeOK ==
  /\ prodState  \in [Products -> {"NONE", "ACTIVE", "INACTIVE", "DELETED"}]
  /\ accStatus  \in [Accounts -> AccountStatus \cup {"NONE", "DELETED"}]
  /\ accProduct \in [Accounts -> Products \cup {NoProduct}]
  /\ accHolder  \in [Accounts -> Orders \cup {NoOrder}]
  /\ ordStatus  \in [Orders -> OrderStatus \cup {"NONE", "DELETED"}]
  /\ ordProduct \in [Orders -> Products \cup {NoProduct}]
  /\ ordAccount \in [Orders -> Accounts \cup {NoAccount}]
  /\ payments   \in SUBSET Orders
  /\ dlvAccount \in [Orders -> Accounts \cup {NoAccount}]
  /\ task       \in [Admins -> Tasks]
  /\ at \in [Orders -> {"idle", "reserve", "charge", "open", "load", "send",
                        "finalize", "failed", "over"}]
  /\ mine      \in [Orders -> Accounts \cup {NoAccount}]
  /\ handed    \in [Orders -> Accounts \cup {NoAccount}]
  /\ overwrote \in SUBSET Accounts

Init ==
  /\ prodState  = [p \in Products |-> "NONE"]
  /\ accStatus  = [a \in Accounts |-> "NONE"]
  /\ accProduct = [a \in Accounts |-> NoProduct]
  /\ accHolder  = [a \in Accounts |-> NoOrder]
  /\ ordStatus  = [o \in Orders |-> "NONE"]
  /\ ordProduct = [o \in Orders |-> NoProduct]
  /\ ordAccount = [o \in Orders |-> NoAccount]
  /\ payments   = {}
  /\ dlvAccount = [o \in Orders |-> NoAccount]
  /\ task       = [x \in Admins |-> NoTask]
  /\ at         = [o \in Orders |-> "idle"]
  /\ mine       = [o \in Orders |-> NoAccount]
  /\ handed     = [o \in Orders |-> NoAccount]
  /\ overwrote  = {}

-----------------------------------------------------------------------------
(* Rows a forceDelete in progress has locked: the orders and accounts it   *)
(* deletes, and the accounts whose reserved_order_id the deletion of their *)
(* order sets to NULL.                                                     *)

DoomedOrders   == UNION {task[x].orders : x \in Admins}
DoomedAccounts == UNION {task[x].accounts : x \in Admins}
LockedAccounts == DoomedAccounts
                    \cup {a \in Accounts : accHolder[a] \in DoomedOrders}

Accept(x) == task[x].op = "idle"
Done(x)   == task' = [task EXCEPT ![x] = NoTask]

-----------------------------------------------------------------------------
(* ProductService *)

ProductTouched == <<accountCols, orderCols, billing, flow, handed, overwrote>>

CreateProduct(x, p, active) ==
  /\ Accept(x)
  /\ prodState[p] = "NONE"
  /\ prodState' = [prodState EXCEPT ![p] = IF active THEN "ACTIVE" ELSE "INACTIVE"]
  /\ UNCHANGED <<ProductTouched, task>>

SetActive(x, p, active) ==
  /\ Accept(x)
  /\ p \in LiveProducts
  /\ prodState' = [prodState EXCEPT ![p] = IF active THEN "ACTIVE" ELSE "INACTIVE"]
  /\ UNCHANGED <<ProductTouched, task>>

\* Update reads the row ...
UpdateProductRead(x, p) ==
  /\ Accept(x)
  /\ p \in LiveProducts
  /\ task' = [task EXCEPT ![x] =
                [NoTask EXCEPT !.op = "product", !.product = p]]
  /\ UNCHANGED <<ProductTouched, prodState>>

\* ... and writes name, description, price and schema, which nothing here
\* depends on.  The SQL leaves is_active alone, whatever the row read held.
UpdateProductWrite(x) ==
  /\ task[x].op = "product"
  /\ Done(x)
  /\ UNCHANGED <<ProductTouched, prodState>>

\* products is referenced by accounts and orders, ON DELETE RESTRICT.
Referenced(p, deletedOrders, deletedAccounts) ==
  \/ \E o \in LiveOrders \ deletedOrders : ordProduct[o] = p
  \/ \E a \in LiveAccounts \ deletedAccounts : accProduct[a] = p

DeleteProduct(x, p) ==
  /\ Accept(x)
  /\ p \in LiveProducts
  /\ ~Referenced(p, {}, {})
  /\ prodState' = [prodState EXCEPT ![p] = "DELETED"]
  /\ UNCHANGED <<ProductTouched, task>>

\* forceDelete, statement 1: DELETE FROM orders, with the cascades to payments
\* and deliveries.
ForceOrders(x, p) ==
  LET gone == {o \in LiveOrders : ordProduct[o] = p} IN
  /\ Accept(x)
  /\ p \in LiveProducts
  /\ gone \cap DoomedOrders = {}
  /\ task' = [task EXCEPT ![x] =
                [NoTask EXCEPT !.op = "forceAccounts", !.product = p,
                               !.orders = gone]]
  /\ UNCHANGED <<ProductTouched, prodState>>

\* Statement 2: DELETE FROM accounts.  A delivery of an order that came after
\* statement 1 restricts it: the transaction is rolled back.
ForceAccounts(x) ==
  LET p    == task[x].product
      gone == {a \in LiveAccounts : accProduct[a] = p}
      held == \E o \in LiveOrders \ task[x].orders : dlvAccount[o] \in gone
  IN
  /\ task[x].op = "forceAccounts"
  /\ \A y \in Admins \ {x} : gone \cap task[y].accounts = {}
  /\ IF held
       THEN Done(x)
       ELSE task' = [task EXCEPT ![x].op = "forceProduct", ![x].accounts = gone]
  /\ UNCHANGED <<ProductTouched, prodState>>

\* Statement 3 and COMMIT.  An order or account of the product that came in
\* between restricts the deletion, and everything is rolled back.
ForceProduct(x) ==
  LET t == task[x] IN
  /\ t.op = "forceProduct"
  /\ t.product \in LiveProducts
  /\ ~Referenced(t.product, t.orders, t.accounts)
  /\ prodState'  = [prodState EXCEPT ![t.product] = "DELETED"]
  /\ ordStatus'  = [o \in Orders |-> IF o \in t.orders THEN "DELETED" ELSE ordStatus[o]]
  /\ ordAccount' = [o \in Orders |-> IF o \in t.orders THEN NoAccount ELSE ordAccount[o]]
  /\ payments'   = payments \ t.orders
  /\ dlvAccount' = [o \in Orders |-> IF o \in t.orders THEN NoAccount ELSE dlvAccount[o]]
  /\ accStatus'  = [a \in Accounts |-> IF a \in t.accounts THEN "DELETED" ELSE accStatus[a]]
  /\ accHolder'  = [a \in Accounts |-> IF accHolder[a] \in t.orders
                                          \/ a \in t.accounts
                                        THEN NoOrder ELSE accHolder[a]]
  /\ Done(x)
  /\ UNCHANGED <<accProduct, ordProduct, flow, history>>

ForceRollback(x) ==
  /\ task[x].op = "forceProduct"
  /\ \/ task[x].product \notin LiveProducts
     \/ Referenced(task[x].product, task[x].orders, task[x].accounts)
  /\ Done(x)
  /\ UNCHANGED <<ProductTouched, prodState>>

-----------------------------------------------------------------------------
(* AccountService *)

AccountTouched == <<prodState, orderCols, billing, flow, handed>>

\* CreateAccounts up to its first INSERT.  A batch that does not fit the schema
\* of the product is refused here and changes nothing.
CreateAccounts(x, p, batch) ==
  /\ Accept(x)
  /\ p \in LiveProducts
  /\ batch # {} /\ \A a \in batch : accStatus[a] = "NONE"
  /\ \A y \in Admins : task[y].batch \cap batch = {}
  /\ task' = [task EXCEPT ![x] = [NoTask EXCEPT !.op = "intake", !.product = p,
                                                !.batch = batch]]
  /\ UNCHANGED <<AccountTouched, accountCols, overwrote>>

\* One INSERT of the batch; the rows are independent of each other.
InsertAccount(x, a) ==
  /\ task[x].op = "intake"
  /\ a \in task[x].batch
  /\ accStatus[a] = "NONE"
  /\ task[x].product \in LiveProducts
  /\ accStatus'  = [accStatus EXCEPT ![a] = "AVAILABLE"]
  /\ accProduct' = [accProduct EXCEPT ![a] = task[x].product]
  /\ task' = IF \E b \in task[x].batch \ {a} : accStatus[b] = "NONE"
               THEN task ELSE [task EXCEPT ![x] = NoTask]
  /\ UNCHANGED <<AccountTouched, accHolder, overwrote>>

\* An INSERT fails, for one because the product is gone: the accounts that are
\* in stay in, the rest is given up.
CreateAccountsFails(x) ==
  /\ task[x].op = "intake"
  /\ Done(x)
  /\ UNCHANGED <<AccountTouched, accountCols, overwrote>>

\* Update reads the account and its product.  Without a status in the request,
\* the one that was read stands in.
UpdateAccountRead(x, a, status) ==
  /\ Accept(x)
  /\ a \in LiveAccounts
  /\ task' = [task EXCEPT ![x] =
                [NoTask EXCEPT !.op = "edit", !.account = a,
                   !.status = IF status = "keep" THEN accStatus[a] ELSE status]]
  /\ UNCHANGED <<AccountTouched, accountCols, overwrote>>

\* The UPDATE by id: the status is written whatever it is by now, and
\* reserved_order_id stays.
UpdateAccountWrite(x) ==
  LET a == task[x].account IN
  /\ task[x].op = "edit"
  /\ a \notin LockedAccounts
  /\ IF a \in LiveAccounts
       THEN /\ accStatus' = [accStatus EXCEPT ![a] = task[x].status]
            /\ overwrote' = IF accStatus[a] = task[x].status
                              THEN overwrote ELSE overwrote \cup {a}
       ELSE UNCHANGED <<accStatus, overwrote>>
  /\ Done(x)
  /\ UNCHANGED <<AccountTouched, accProduct, accHolder>>

\* deliveries.account_id restricts the deletion, orders.account_id is set to
\* NULL by it.
DeleteAccount(x, a) ==
  /\ Accept(x)
  /\ a \in LiveAccounts \ LockedAccounts
  /\ \A o \in DoomedOrders : ordAccount[o] # a
  /\ \A o \in LiveOrders : dlvAccount[o] # a
  /\ accStatus'  = [accStatus EXCEPT ![a] = "DELETED"]
  /\ accHolder'  = [accHolder EXCEPT ![a] = NoOrder]
  /\ ordAccount' = [o \in Orders |-> IF ordAccount[o] = a THEN NoAccount
                                                          ELSE ordAccount[o]]
  /\ UNCHANGED <<prodState, accProduct, ordStatus, ordProduct,
                 billing, task, flow, history>>

-----------------------------------------------------------------------------
(* The customers' orders, as far as they touch these rows *)

OrderTouched == <<prodState, accProduct, task, overwrote>>

\* CreateOrder reads the product, or the account a customer picked and then
\* its product, without a lock.
ResolveProduct(o, p) ==
  /\ at[o] = "idle"
  /\ prodState[p] = "ACTIVE"
  /\ at'         = [at EXCEPT ![o] = "reserve"]
  /\ ordProduct' = [ordProduct EXCEPT ![o] = p]
  /\ UNCHANGED <<OrderTouched, accStatus, accHolder, ordStatus, ordAccount,
                 billing, mine, handed>>

ResolveAccount(o, a) ==
  /\ at[o] = "idle"
  /\ accStatus[a] = "AVAILABLE"
  /\ prodState[accProduct[a]] = "ACTIVE"
  /\ at'         = [at EXCEPT ![o] = "reserve"]
  /\ ordProduct' = [ordProduct EXCEPT ![o] = accProduct[a]]
  /\ mine'       = [mine EXCEPT ![o] = a]
  /\ UNCHANGED <<OrderTouched, accStatus, accHolder, ordStatus, ordAccount,
                 billing, handed>>

\* What ReserveSpecificAvailable, ReserveOneAvailable and its sibling by type
\* may take.  SKIP LOCKED passes over a locked row, FOR UPDATE waits for it.
Takeable(o) ==
  {a \in LiveAccounts : /\ accStatus[a] = "AVAILABLE"
                        /\ accProduct[a] = ordProduct[o]
                        /\ mine[o] \in {NoAccount, a}}

\* Mutant: the reservation does not check the status.
ReserveAnyStatus(o, a) ==
  /\ at[o] = "reserve"
  /\ a \in LiveAccounts \ LockedAccounts
  /\ accProduct[a] = ordProduct[o]
  /\ mine[o] \in {NoAccount, a}
  /\ accStatus[a] # "SOLD"
  /\ accStatus'  = [accStatus EXCEPT ![a] = "RESERVED"]
  /\ accHolder'  = [accHolder EXCEPT ![a] = o]
  /\ ordStatus'  = [ordStatus EXCEPT ![o] = "PENDING"]
  /\ ordAccount' = [ordAccount EXCEPT ![o] = a]
  /\ mine'       = [mine EXCEPT ![o] = a]
  /\ at'         = [at EXCEPT ![o] = "charge"]
  /\ UNCHANGED <<OrderTouched, ordProduct, billing, handed>>

\* The order and its reservation are committed together; the order's INSERT
\* needs the product it refers to.
Reserve(o, a) ==
  /\ at[o] = "reserve"
  /\ a \in Takeable(o) \ LockedAccounts
  /\ ordProduct[o] \in LiveProducts
  /\ accStatus'  = [accStatus EXCEPT ![a] = "RESERVED"]
  /\ accHolder'  = [accHolder EXCEPT ![a] = o]
  /\ ordStatus'  = [ordStatus EXCEPT ![o] = "PENDING"]
  /\ ordAccount' = [ordAccount EXCEPT ![o] = a]
  /\ mine'       = [mine EXCEPT ![o] = a]
  /\ at'         = [at EXCEPT ![o] = "charge"]
  /\ UNCHANGED <<OrderTouched, ordProduct, billing, handed>>

\* Out of stock, or the product is gone.
ReserveFails(o) ==
  /\ at[o] = "reserve"
  /\ \/ Takeable(o) = {}
     \/ mine[o] = NoAccount /\ Takeable(o) \subseteq LockedAccounts
     \/ ordProduct[o] \notin LiveProducts
  /\ at' = [at EXCEPT ![o] = "over"]
  /\ UNCHANGED <<OrderTouched, accStatus, accHolder, orderCols, billing, mine,
                 handed>>

\* The charge is made and the INSERT of the payment finds its order.
PersistPayment(o) ==
  /\ at[o] = "charge"
  /\ o \in LiveOrders \ DoomedOrders
  /\ payments' = payments \cup {o}
  /\ at'       = [at EXCEPT ![o] = "open"]
  /\ UNCHANGED <<OrderTouched, accStatus, accHolder, orderCols, dlvAccount,
                 mine, handed>>

\* ReleaseReservation: a row that is not RESERVED, or is gone, is left alone.
Release(a) ==
  /\ accStatus' = [accStatus EXCEPT ![a] = IF @ = "RESERVED" THEN "AVAILABLE" ELSE @]
  /\ accHolder' = [accHolder EXCEPT ![a] = IF accStatus[a] = "RESERVED"
                                             THEN NoOrder ELSE @]

\* The charge fails, or its payment cannot be stored: cancelAndRelease.
CancelAndRelease(o) ==
  /\ at[o] = "charge"
  /\ o \notin DoomedOrders /\ mine[o] \notin LockedAccounts
  /\ ordStatus' = IF o \in LiveOrders
                    THEN [ordStatus EXCEPT ![o] = "CANCELLED"] ELSE ordStatus
  /\ Release(mine[o])
  /\ at' = [at EXCEPT ![o] = "over"]
  /\ UNCHANGED <<OrderTouched, ordProduct, ordAccount, billing, mine, handed>>

\* applyTransition under the row lock of the order, on a settlement ...
Settle(o) ==
  /\ at[o] = "open"
  /\ ordStatus[o] = "PENDING"
  /\ o \in payments \ DoomedOrders
  /\ ordStatus' = [ordStatus EXCEPT ![o] = "PAID"]
  /\ at'        = [at EXCEPT ![o] = "load"]
  /\ UNCHANGED <<OrderTouched, accStatus, accHolder, ordProduct, ordAccount,
                 billing, mine, handed>>

\* ... and on an expiry: the account the row names is released.
Expire(o) ==
  /\ at[o] = "open"
  /\ ordStatus[o] = "PENDING"
  /\ o \in payments \ DoomedOrders
  /\ ordAccount[o] \notin LockedAccounts
  /\ ordStatus' = [ordStatus EXCEPT ![o] = "EXPIRED"]
  /\ IF ordAccount[o] = NoAccount
       THEN UNCHANGED <<accStatus, accHolder>>
       ELSE Release(ordAccount[o])
  /\ at' = [at EXCEPT ![o] = "over"]
  /\ UNCHANGED <<OrderTouched, ordProduct, ordAccount, billing, mine, handed>>

\* Mutant: the delivery row is inserted only by the finalization.
LoadWithoutDelivery(o) ==
  /\ at[o] = "load"
  /\ ordStatus[o] \in {"PAID", "FAILED"}
  /\ ordAccount[o] \in LiveAccounts \ DoomedAccounts
  /\ o \notin DoomedOrders
  /\ mine' = [mine EXCEPT ![o] = ordAccount[o]]
  /\ at'   = [at EXCEPT ![o] = "send"]
  /\ UNCHANGED <<OrderTouched, accStatus, accHolder, orderCols, billing, handed>>

\* DeliverOrder: the order is read and the delivery claimed (CreatePending).
Load(o) ==
  /\ at[o] = "load"
  /\ ordStatus[o] \in {"PAID", "FAILED"}
  /\ ordAccount[o] \in LiveAccounts \ DoomedAccounts
  /\ o \notin DoomedOrders
  /\ mine'       = [mine EXCEPT ![o] = ordAccount[o]]
  /\ dlvAccount' = [dlvAccount EXCEPT ![o] = IF @ = NoAccount THEN ordAccount[o] ELSE @]
  /\ at'         = [at EXCEPT ![o] = "send"]
  /\ UNCHANGED <<OrderTouched, accStatus, accHolder, orderCols, payments, handed>>

\* The order is gone, or an admin deleted the account it had reserved.
LoadFails(o) ==
  /\ at[o] = "load"
  /\ o \notin LiveOrders \/ ordAccount[o] = NoAccount
  /\ at' = [at EXCEPT ![o] = "failed"]
  /\ UNCHANGED <<OrderTouched, accStatus, accHolder, orderCols, billing, mine,
                 handed>>

\* The account and the product are read and the message leaves.
Send(o) ==
  /\ at[o] = "send"
  /\ mine[o] \in LiveAccounts
  /\ ordProduct[o] \in LiveProducts
  /\ handed' = [handed EXCEPT ![o] = mine[o]]
  /\ at'     = [at EXCEPT ![o] = "finalize"]
  /\ UNCHANGED <<OrderTouched, accStatus, accHolder, orderCols, billing, mine>>

\* Mutant: the account of an order that cannot be delivered is released.
SendFailsReleasing(o) ==
  /\ at[o] = "send"
  /\ o \notin DoomedOrders /\ mine[o] \notin LockedAccounts
  /\ ordStatus' = IF ordStatus[o] = "PAID"
                    THEN [ordStatus EXCEPT ![o] = "FAILED"] ELSE ordStatus
  /\ Release(mine[o])
  /\ at' = [at EXCEPT ![o] = "failed"]
  /\ UNCHANGED <<OrderTouched, ordProduct, ordAccount, billing, mine, handed>>

\* A read finds no row, or Telegram refuses: RecordFailure.
SendFails(o) ==
  /\ at[o] = "send"
  /\ o \notin DoomedOrders
  /\ ordStatus' = IF ordStatus[o] = "PAID"
                    THEN [ordStatus EXCEPT ![o] = "FAILED"] ELSE ordStatus
  /\ at' = [at EXCEPT ![o] = "failed"]
  /\ UNCHANGED <<OrderTouched, accStatus, accHolder, ordProduct, ordAccount,
                 billing, mine, handed>>

\* Three UPDATEs by id: those whose row is gone change nothing, silently.
Finalize(o) ==
  /\ at[o] = "finalize"
  /\ o \notin DoomedOrders /\ mine[o] \notin LockedAccounts
  /\ accStatus' = [accStatus EXCEPT ![mine[o]] = IF mine[o] \in LiveAccounts
                                                   THEN "SOLD" ELSE @]
  /\ ordStatus' = [ordStatus EXCEPT ![o] = IF o \in LiveOrders
                                             THEN "DELIVERED" ELSE @]
  /\ at' = [at EXCEPT ![o] = "over"]
  /\ UNCHANGED <<OrderTouched, accHolder, ordProduct, ordAccount, billing,
                 mine, handed>>

\* The retry job, or an admin's Redeliver.
Redeliver(o) ==
  /\ at[o] = "failed"
  /\ ordStatus[o] \in {"PAID", "FAILED"}
  /\ at' = [at EXCEPT ![o] = "load"]
  /\ UNCHANGED <<OrderTouched, accStatus, accHolder, orderCols, billing, mine,
                 handed>>

-----------------------------------------------------------------------------
(* What the bot is shown *)

\* ListForBot: active products that are in stock.
ListForBot ==
  {p \in LiveProducts : /\ prodState[p] = "ACTIVE"
                        /\ \E a \in LiveAccounts : /\ accProduct[a] = p
                                                   /\ accStatus[a] = "AVAILABLE"}

\* ListAvailableForBot and ListCatalogForBot: available accounts of active
\* products, one by one and grouped by type.
ListAvailableForBot ==
  {a \in LiveAccounts : accStatus[a] = "AVAILABLE"
                          /\ prodState[accProduct[a]] = "ACTIVE"}

-----------------------------------------------------------------------------
ProductNext(x) ==
  \/ \E p \in Products, b \in BOOLEAN : CreateProduct(x, p, b)
  \/ \E p \in Products, b \in BOOLEAN : SetActive(x, p, b)
  \/ \E p \in Products : UpdateProductRead(x, p)
  \/ UpdateProductWrite(x)
  \/ \E p \in Products : DeleteProduct(x, p)
  \/ \E p \in Products : ForceOrders(x, p)
  \/ ForceAccounts(x)
  \/ ForceProduct(x)
  \/ ForceRollback(x)

AccountNext(x) ==
  \/ \E p \in Products, batch \in SUBSET Accounts : CreateAccounts(x, p, batch)
  \/ \E a \in Accounts : InsertAccount(x, a)
  \/ CreateAccountsFails(x)
  \/ \E a \in Accounts, s \in AccountStatus \cup {"keep"} :
       UpdateAccountRead(x, a, s)
  \/ UpdateAccountWrite(x)
  \/ \E a \in Accounts : DeleteAccount(x, a)

AdminNext(x) == ProductNext(x) \/ AccountNext(x)

OrderNext(o) ==
  \/ \E p \in Products : ResolveProduct(o, p)
  \/ \E a \in Accounts : ResolveAccount(o, a)
  \/ \E a \in Accounts : Reserve(o, a)
  \/ ReserveFails(o)
  \/ PersistPayment(o)
  \/ CancelAndRelease(o)
  \/ Settle(o)
  \/ Expire(o)
  \/ Load(o)
  \/ LoadFails(o)
  \/ Send(o)
  \/ SendFails(o)
  \/ Finalize(o)
  \/ Redeliver(o)

Next == (\E x \in Admins : AdminNext(x)) \/ (\E o \in Orders : OrderNext(o))

Spec == Init /\ [][Next]_vars

-----------------------------------------------------------------------------
(* Properties *)

\* An order has a claim to an account while it may be delivered, and for ever
\* once its customer has the credentials.
Claims(o, a) ==
  \/ ordStatus[o] \in {"PENDING", "PAID", "FAILED", "DELIVERED"}
       /\ ordAccount[o] = a
  \/ handed[o] = a

\* The reservation gives an account to one order at a time.  Two customers
\* come to share one only after an edit overwrote the status of the row,
\* because the admin said so or because the status it had read was stale
\* (AccountService.Update).
SharedOnlyByOverwrite ==
  \A o1, o2 \in Orders : \A a \in Accounts \ overwrote :
    Claims(o1, a) /\ Claims(o2, a) => o1 = o2

\* As long as the product is there, an account whose credentials left the
\* store stays on record with its delivery: DELETE /accounts/:id cannot remove
\* it, whatever edits and deletions run beside the delivery.
HandedStaysOnRecord ==
  \A o \in Orders :
    handed[o] # NoAccount /\ ordProduct[o] \in LiveProducts =>
      /\ o \in LiveOrders
      /\ dlvAccount[o] = handed[o]
      /\ handed[o] \in LiveAccounts

\* What the bot offers is nobody's: an account in its catalogue (ListForBot,
\* "The bot never offers something that can't be bought") is not one that an
\* open, paid or undelivered order waits for, nor one whose credentials a
\* customer has, unless an edit said so; and the list of products and the list
\* of accounts offer the same products.
OfferedIsFree ==
  /\ \A a \in ListAvailableForBot \ overwrote : \A o \in Orders : ~Claims(o, a)
  /\ ListForBot = {accProduct[a] : a \in ListAvailableForBot}
=============================================================================
