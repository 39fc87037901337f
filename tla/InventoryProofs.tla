--------------------------- MODULE InventoryProofs ---------------------------
(***************************************************************************)
(* Theorems about Inventory, for every catalogue, stock, number of orders  *)
(* and number of admins at work.                                           *)
(***************************************************************************)
EXTENDS Inventory, TLAPS

-----------------------------------------------------------------------------
(* The inductive invariant *)

Started(o) == at[o] \notin {"idle", "reserve"}

\* Where a request is tells what its row may be, and a row keeps the product it
\* was inserted with.
Stages ==
  \A o \in Orders :
    /\ at[o] = "idle" => mine[o] = NoAccount
    /\ at[o] # "idle" => ordProduct[o] \in Products /\ prodState[ordProduct[o]] # "NONE"
    /\ ~Started(o) => ordStatus[o] = "NONE"
    /\ at[o] \in {"charge", "open"} => ordStatus[o] \in {"PENDING", "DELETED"}
    /\ at[o] \in {"load", "send", "finalize", "failed"} =>
         ordStatus[o] \in {"PAID", "FAILED", "DELETED"}
    /\ ordStatus[o] = "NONE" =>
         ordAccount[o] = NoAccount /\ dlvAccount[o] = NoAccount
    /\ handed[o] # NoAccount => at[o] \in {"finalize", "over"} /\ ordStatus[o] # "NONE"

\* Foreign keys to products.
Catalogue ==
  /\ \A o \in LiveOrders : ordProduct[o] \in LiveProducts
  /\ \A o \in Orders : ordStatus[o] = "DELETED" => ordProduct[o] \in Products \ LiveProducts
  /\ \A a \in LiveAccounts : accProduct[a] \in LiveProducts

\* An account that an order, its request or its customer has is one of the
\* order's product.
Fits(o, a) == a # NoAccount => accStatus[a] # "NONE" /\ accProduct[a] = ordProduct[o]

Links ==
  \A o \in Orders : Fits(o, ordAccount[o]) /\ Fits(o, mine[o]) /\ Fits(o, handed[o])

\* The delivery row names the account that is being sent, or was.
Recorded ==
  \A o \in Orders :
    /\ o \in LiveOrders /\ dlvAccount[o] # NoAccount => dlvAccount[o] = ordAccount[o]
    /\ at[o] = "charge" /\ mine[o] \in LiveAccounts => ordAccount[o] = mine[o]
    /\ at[o] = "send" /\ ordProduct[o] \in LiveProducts =>
         mine[o] # NoAccount /\ dlvAccount[o] = mine[o]
    /\ handed[o] # NoAccount /\ ordProduct[o] \in LiveProducts =>
         dlvAccount[o] = handed[o] /\ handed[o] \in LiveAccounts

\* What a forceDelete has deleted so far is of the product that it deletes.
TasksAgree ==
  \A x \in Admins :
    /\ \A o \in task[x].orders :
         ordStatus[o] # "NONE" /\ ordProduct[o] = task[x].product
    /\ \A a \in task[x].accounts :
         accStatus[a] # "NONE" /\ accProduct[a] = task[x].product

\* Whoever has a claim to an account that no edit overwrote is its holder, as
\* long as the account is there.
HeldByClaimant ==
  \A o \in Orders : \A a \in Accounts \ overwrote :
    Claims(o, a) => \/ accStatus[a] = "DELETED"
                    \/ accStatus[a] \in {"RESERVED", "SOLD"} /\ accHolder[a] = o

Consistent ==
  /\ Stages /\ Catalogue /\ Links /\ Recorded /\ TasksAgree
  /\ HeldByClaimant /\ SharedOnlyByOverwrite

IInv == TypeOK /\ Consistent

-----------------------------------------------------------------------------
(* Each action preserves it *)

LEMMA InitIInv == Init => IInv
BY InventoryNulls
   DEF Init, IInv, Consistent, TypeOK, Stages, Catalogue, Links, Recorded, TasksAgree,
       HeldByClaimant, SharedOnlyByOverwrite, NoTask, Ops, Tasks,
       AccountStatus, LiveProducts, LiveAccounts, LiveOrders, OrderStatus, Started, Claims, Fits

\* A task in which more is locked.
LEMMA LockMore ==
  ASSUME NEW t \in Tasks, NEW gone \in SUBSET Accounts
  PROVE  [t EXCEPT !.op = "forceProduct", !.accounts = gone] \in Tasks
<1>1. "forceProduct" \in Ops
  BY DEF Ops
<1> QED BY <1>1 DEF Tasks

LEMMA TypeAdmin ==
  ASSUME TypeOK, NEW x \in Admins, AdminNext(x)
  PROVE  TypeOK'
<1> USE InventoryNulls
    DEF TypeOK, Ops, accountCols, orderCols, billing, flow, history,
        ProductTouched, AccountTouched, AccountStatus, NoTask, Accept, Done
<1>1. ASSUME NEW p \in Products, NEW b \in BOOLEAN, CreateProduct(x, p, b)
      PROVE  TypeOK'
  BY <1>1 DEF CreateProduct
<1>2. ASSUME NEW p \in Products, NEW b \in BOOLEAN, SetActive(x, p, b)
      PROVE  TypeOK'
  BY <1>2 DEF SetActive
<1>3. ASSUME NEW p \in Products, UpdateProductRead(x, p)  PROVE  TypeOK'
  BY <1>3 DEF UpdateProductRead, Tasks
<1>4. CASE UpdateProductWrite(x)
  BY <1>4 DEF UpdateProductWrite, Tasks
<1>5. ASSUME NEW p \in Products, DeleteProduct(x, p)  PROVE  TypeOK'
  BY <1>5 DEF DeleteProduct
<1>6. ASSUME NEW p \in Products, ForceOrders(x, p)  PROVE  TypeOK'
  BY <1>6 DEF ForceOrders, Tasks, LiveOrders
<1>7. CASE ForceAccounts(x)
  <2> DEFINE gone == {a \in LiveAccounts : accProduct[a] = task[x].product}
             next == [task[x] EXCEPT !.op = "forceProduct", !.accounts = gone]
  <2>1. /\ task' = [task EXCEPT ![x] = NoTask] \/ task' = [task EXCEPT ![x] = next]
        /\ UNCHANGED <<ProductTouched, prodState>>
    <3> HIDE DEF IInv, LiveAccounts, ProductTouched, NoTask
    <3> QED BY <1>7 DEF ForceAccounts
  <2>2. gone \in SUBSET Accounts
    BY DEF LiveAccounts
  <2> HIDE DEF gone
  <2>3. next \in Tasks
    <3>1. task[x] \in Tasks
      OBVIOUS
    <3> QED BY <2>2, <3>1, LockMore
  <2>4. NoTask \in Tasks
    BY DEF Tasks
  <2>5. task' \in [Admins -> Tasks]
    <3> HIDE DEF next, NoTask
    <3> QED BY <2>1, <2>3, <2>4 DEF TypeOK
  <2> HIDE DEF next, NoTask
  <2> QED BY <2>1, <2>5
<1>8. CASE ForceProduct(x)
  BY <1>8 DEF ForceProduct, Tasks
<1>9. CASE ForceRollback(x)
  BY <1>9 DEF ForceRollback, Tasks
<1>10. ASSUME NEW p \in Products, NEW batch \in SUBSET Accounts,
              CreateAccounts(x, p, batch)
       PROVE  TypeOK'
  BY <1>10 DEF CreateAccounts, Tasks
<1>11. ASSUME NEW a \in Accounts, InsertAccount(x, a)  PROVE  TypeOK'
  BY <1>11 DEF InsertAccount, Tasks, LiveProducts
<1>12. CASE CreateAccountsFails(x)
  BY <1>12 DEF CreateAccountsFails, Tasks
<1>13. ASSUME NEW a \in Accounts, NEW s \in AccountStatus \cup {"keep"},
              UpdateAccountRead(x, a, s)
       PROVE  TypeOK'
  BY <1>13 DEF UpdateAccountRead, Tasks, LiveAccounts
<1>14. CASE UpdateAccountWrite(x)
  BY <1>14 DEF UpdateAccountWrite, Tasks, LiveAccounts
<1>15. ASSUME NEW a \in Accounts, DeleteAccount(x, a)  PROVE  TypeOK'
  BY <1>15 DEF DeleteAccount
<1> QED
  BY <1>1, <1>2, <1>3, <1>4, <1>5, <1>6, <1>7, <1>8, <1>9, <1>10, <1>11, <1>12,
     <1>13, <1>14, <1>15 DEF AdminNext, ProductNext, AccountNext

LEMMA TypeOrder ==
  ASSUME TypeOK, NEW o \in Orders, OrderNext(o)
  PROVE  TypeOK'
<1> USE InventoryNulls
    DEF TypeOK, accountCols, orderCols, billing, flow, history, OrderTouched,
        AccountStatus, OrderStatus, Release
<1>1. ASSUME NEW p \in Products, ResolveProduct(o, p)  PROVE  TypeOK'
  BY <1>1 DEF ResolveProduct
<1>2. ASSUME NEW a \in Accounts, ResolveAccount(o, a)  PROVE  TypeOK'
  BY <1>2 DEF ResolveAccount
<1>3. ASSUME NEW a \in Accounts, Reserve(o, a)  PROVE  TypeOK'
  BY <1>3 DEF Reserve
<1>4. CASE ReserveFails(o)
  BY <1>4 DEF ReserveFails
<1>5. CASE PersistPayment(o)
  BY <1>5 DEF PersistPayment
<1>6. CASE CancelAndRelease(o)
  BY <1>6 DEF CancelAndRelease
<1>7. CASE Settle(o)
  BY <1>7 DEF Settle
<1>8. CASE Expire(o)
  BY <1>8 DEF Expire
<1>9. CASE Load(o)
  BY <1>9 DEF Load
<1>10. CASE LoadFails(o)
  BY <1>10 DEF LoadFails
<1>11. CASE Send(o)
  BY <1>11 DEF Send
<1>12. CASE SendFails(o)
  BY <1>12 DEF SendFails
<1>13. CASE Finalize(o)
  BY <1>13 DEF Finalize
<1>14. CASE Redeliver(o)
  BY <1>14 DEF Redeliver
<1> QED
  BY <1>1, <1>2, <1>3, <1>4, <1>5, <1>6, <1>7, <1>8, <1>9, <1>10, <1>11, <1>12,
     <1>13, <1>14 DEF OrderNext

LEMMA TypeStep == TypeOK /\ [Next]_vars => TypeOK'
<1>1. TypeOK /\ UNCHANGED vars => TypeOK'
  BY DEF TypeOK, vars, accountCols, orderCols, billing, flow, history
<1> QED BY <1>1, TypeAdmin, TypeOrder DEF Next

\* Requests that read, or lock, and write no row.
LEMMA KeepsRows ==
  ASSUME IInv, UNCHANGED <<ProductTouched, prodState>>, TasksAgree'
  PROVE  Consistent'
BY DEF IInv, Consistent, ProductTouched, accountCols, orderCols, billing, flow, Stages,
       Catalogue, Links, Recorded, HeldByClaimant, SharedOnlyByOverwrite,
       LiveProducts, LiveAccounts, LiveOrders, Started, Claims, Fits

\* Rows may change under a forceDelete that locked them, but not their product.
LEMMA TasksStay ==
  ASSUME IInv, TypeOK',
         \A x \in Admins : task'[x] \in {task[x], NoTask},
         \A a \in Accounts : accStatus[a] # "NONE" =>
           accStatus'[a] # "NONE" /\ accProduct'[a] = accProduct[a],
         \A o \in Orders : ordStatus[o] # "NONE" =>
           ordStatus'[o] # "NONE" /\ ordProduct'[o] = ordProduct[o]
  PROVE  TasksAgree'
<1> SUFFICES ASSUME NEW x \in Admins
             PROVE  /\ \A o \in task'[x].orders :
                         ordStatus'[o] # "NONE" /\ ordProduct'[o] = task'[x].product
                    /\ \A a \in task'[x].accounts :
                         accStatus'[a] # "NONE" /\ accProduct'[a] = task'[x].product
  BY DEF TasksAgree
<1>1. task[x].orders \subseteq Orders /\ task[x].accounts \subseteq Accounts
  BY DEF IInv, TypeOK, Tasks
<1>2. CASE task'[x] = NoTask
  BY <1>2 DEF NoTask
<1>3. CASE task'[x] = task[x]
  BY <1>1, <1>3 DEF IInv, Consistent, TasksAgree
<1> QED BY <1>2, <1>3

LEMMA AdminStep ==
  ASSUME IInv, NEW x \in Admins, AdminNext(x)
  PROVE  Consistent'
<1> USE InventoryNulls
    DEF IInv, Consistent, TypeOK, Stages, Catalogue, Links, Recorded, TasksAgree,
        HeldByClaimant, SharedOnlyByOverwrite, Started, Claims, Fits,
        LiveProducts, LiveAccounts, LiveOrders, AccountStatus, OrderStatus,
        ProductTouched, AccountTouched, accountCols, orderCols, billing, flow,
        history, Accept, Done, NoTask
<1>1. ASSUME NEW p \in Products, NEW b \in BOOLEAN, CreateProduct(x, p, b)
      PROVE  Consistent'
  BY <1>1 DEF CreateProduct
<1>2. ASSUME NEW p \in Products, NEW b \in BOOLEAN, SetActive(x, p, b)
      PROVE  Consistent'
  BY <1>2 DEF SetActive
<1>3. ASSUME NEW p \in Products, UpdateProductRead(x, p)  PROVE  Consistent'
  BY <1>3 DEF UpdateProductRead
<1>4. CASE UpdateProductWrite(x)
  BY <1>4 DEF UpdateProductWrite
<1>5. ASSUME NEW p \in Products, DeleteProduct(x, p)  PROVE  Consistent'
  BY <1>5 DEF DeleteProduct, Referenced
<1>6. ASSUME NEW p \in Products, ForceOrders(x, p)  PROVE  Consistent'
  <2>1. TasksAgree'
    BY <1>6 DEF ForceOrders
  <2> QED BY <1>6, <2>1, KeepsRows DEF ForceOrders
<1>7. CASE ForceAccounts(x)
  <2> DEFINE gone == {a \in LiveAccounts : accProduct[a] = task[x].product}
             next == [task[x] EXCEPT !.op = "forceProduct", !.accounts = gone]
  <2>0. /\ task' = [task EXCEPT ![x] = NoTask] \/ task' = [task EXCEPT ![x] = next]
        /\ UNCHANGED <<ProductTouched, prodState>>
    <3> HIDE DEF IInv, LiveAccounts, ProductTouched, NoTask
    <3> QED BY <1>7 DEF ForceAccounts
  <2>3. /\ next.orders = task[x].orders /\ next.accounts = gone
        /\ next.product = task[x].product
    BY DEF Tasks
  <2>1. /\ \A y \in Admins \ {x} : task'[y] = task[y]
        /\ task'[x].orders \subseteq task[x].orders
        /\ task'[x].accounts \subseteq
             {a \in LiveAccounts : accProduct[a] = task[x].product}
        /\ task'[x].orders # {} \/ task'[x].accounts # {} =>
             task'[x].product = task[x].product
        /\ UNCHANGED <<accStatus, accProduct, ordStatus, ordProduct>>
    <3> HIDE DEF next
    <3> QED BY <2>0, <2>3
  <2>2. TasksAgree'
    BY <2>1
  <2> QED BY <1>7, <2>2, KeepsRows DEF ForceAccounts
\* What was deleted is all of one product, which goes in the same step; what
\* came to it in between would have stopped the step.
<1>8. CASE ForceProduct(x)
  <2>1. Stages'
    BY <1>8 DEF ForceProduct, Referenced
  <2>2. Catalogue' /\ Links'
    BY <1>8 DEF ForceProduct, Referenced
  <2>3. Recorded'
    BY <1>8 DEF ForceProduct, Referenced
  <2>4. TasksAgree'
    <3>1. /\ \A y \in Admins : task'[y] \in {task[y], NoTask}
          /\ \A a \in Accounts : accStatus[a] # "NONE" => accStatus'[a] # "NONE"
          /\ \A o \in Orders : ordStatus[o] # "NONE" => ordStatus'[o] # "NONE"
          /\ UNCHANGED <<accProduct, ordProduct>>
      <4> HIDE DEF NoTask, Consistent
      <4> QED BY <1>8 DEF ForceProduct
    <3> HIDE DEF IInv, TypeOK, TasksAgree
    <3> QED BY <1>8, <3>1, TasksStay, TypeAdmin DEF IInv, AdminNext, ProductNext, AccountNext
  <2>5. HeldByClaimant'
    BY <1>8 DEF ForceProduct, Referenced
  <2>6. SharedOnlyByOverwrite'
    BY <1>8 DEF ForceProduct, Referenced
  <2> QED BY <2>1, <2>2, <2>3, <2>4, <2>5, <2>6
<1>9. CASE ForceRollback(x)
  BY <1>9 DEF ForceRollback
<1>10. ASSUME NEW p \in Products, NEW batch \in SUBSET Accounts,
              CreateAccounts(x, p, batch)
       PROVE  Consistent'
  BY <1>10 DEF CreateAccounts
<1>11. ASSUME NEW a \in Accounts, InsertAccount(x, a)  PROVE  Consistent'
  BY <1>11 DEF InsertAccount
<1>12. CASE CreateAccountsFails(x)
  BY <1>12 DEF CreateAccountsFails
<1>13. ASSUME NEW a \in Accounts, NEW s \in AccountStatus \cup {"keep"},
              UpdateAccountRead(x, a, s)
       PROVE  Consistent'
  BY <1>13 DEF UpdateAccountRead
<1>14. CASE UpdateAccountWrite(x)
  <2>1. /\ accStatus' \in [Accounts -> AccountStatus \cup {"NONE", "DELETED"}]
        /\ LiveAccounts' = LiveAccounts
        /\ \A a \in Accounts : accStatus'[a] = "NONE" <=> accStatus[a] = "NONE"
        /\ \A a \in Accounts \ overwrote' : accStatus'[a] = accStatus[a]
        /\ overwrote \subseteq overwrote'
    <3> HIDE DEF Consistent
    <3>1. task[x].status \in AccountStatus
      BY DEF Tasks
    <3> QED BY <1>14, <3>1 DEF UpdateAccountWrite
  <2>2. /\ UNCHANGED <<prodState, orderCols, billing, flow, handed>>
        /\ UNCHANGED <<accProduct, accHolder>>
        /\ \A y \in Admins : task'[y] \in {task[y], NoTask}
    <3> HIDE DEF NoTask, IInv
    <3> QED BY <1>14 DEF UpdateAccountWrite, IInv
  <2>3. Stages'
    BY <2>2
  <2>4. Catalogue'
    <3> HIDE DEF LiveAccounts
    <3> QED BY <2>1, <2>2
  <2>5. Links'
    BY <2>1, <2>2
  <2>6. Recorded'
    <3> HIDE DEF LiveAccounts
    <3> QED BY <2>1, <2>2
  <2>7. TasksAgree'
    <3> HIDE DEF IInv, TypeOK, TasksAgree, LiveAccounts, NoTask
    <3> QED BY <1>14, <2>1, <2>2, TasksStay, TypeAdmin DEF IInv, AdminNext, ProductNext, AccountNext
  <2>8. HeldByClaimant' /\ SharedOnlyByOverwrite'
    <3> HIDE DEF LiveAccounts
    <3> QED BY <2>1, <2>2
  <2> QED BY <2>3, <2>4, <2>5, <2>6, <2>7, <2>8
\* A delivery's account is never deleted; an order that has no delivery yet
\* has handed nothing out.
<1>15. ASSUME NEW a \in Accounts, DeleteAccount(x, a)  PROVE  Consistent'
  BY <1>15 DEF DeleteAccount
<1> HIDE DEF Consistent
<1> QED
  BY <1>1, <1>2, <1>3, <1>4, <1>5, <1>6, <1>7, <1>8, <1>9, <1>10, <1>11, <1>12,
     <1>13, <1>14, <1>15 DEF AdminNext, ProductNext, AccountNext

LEMMA OrderStep ==
  ASSUME IInv, NEW o \in Orders, OrderNext(o)
  PROVE  Consistent'
<1> USE InventoryNulls
    DEF IInv, Consistent, TypeOK, Stages, Catalogue, Links, Recorded, TasksAgree,
        HeldByClaimant, SharedOnlyByOverwrite, Started, Claims, Fits,
        LiveProducts, LiveAccounts, LiveOrders, AccountStatus, OrderStatus,
        OrderTouched, accountCols, orderCols, billing, flow, Release
<1>1. ASSUME NEW p \in Products, ResolveProduct(o, p)  PROVE  Consistent'
  BY <1>1 DEF ResolveProduct
<1>2. ASSUME NEW a \in Accounts, ResolveAccount(o, a)  PROVE  Consistent'
  BY <1>2 DEF ResolveAccount
\* An AVAILABLE account has no claimant, unless an edit made it available.
<1>3. ASSUME NEW a \in Accounts, Reserve(o, a)  PROVE  Consistent'
  <2>1. Stages'
    BY <1>3 DEF Reserve, Takeable
  <2>2. Catalogue' /\ Links'
    BY <1>3 DEF Reserve, Takeable
  <2>3. Recorded'
    BY <1>3 DEF Reserve, Takeable
  <2>4. TasksAgree'
    BY <1>3 DEF Reserve, Takeable
  <2>5. HeldByClaimant'
    BY <1>3 DEF Reserve, Takeable
  <2>6. SharedOnlyByOverwrite'
    <3>1. \A q \in Orders : Claims(q, a) => a \in overwrote
      <4>1. accStatus[a] = "AVAILABLE"
        BY <1>3 DEF Reserve, Takeable
      <4> HIDE DEF TypeOK, Stages, Catalogue, Links, Recorded, TasksAgree, Claims
      <4> QED BY <4>1
    <3>2. \A q \in Orders \ {o}, b \in Accounts : Claims(q, b)' <=> Claims(q, b)
      BY <1>3 DEF Reserve, Takeable
    <3>3. overwrote' = overwrote /\ \A b \in Accounts \ {a} : ~Claims(o, b)'
      BY <1>3 DEF Reserve, Takeable
    <3>4. SUFFICES ASSUME NEW o1 \in Orders, NEW o2 \in Orders,
                          NEW b \in Accounts \ overwrote',
                          Claims(o1, b)', Claims(o2, b)'
                   PROVE  o1 = o2
      BY DEF SharedOnlyByOverwrite
    <3> HIDE DEF HeldByClaimant, Claims
    <3>5. CASE b = a
      BY <3>1, <3>2, <3>3, <3>4, <3>5
    <3>6. CASE b # a
      BY <3>2, <3>3, <3>4, <3>6
    <3> QED BY <3>5, <3>6
  <2> QED BY <2>1, <2>2, <2>3, <2>4, <2>5, <2>6
<1>4. CASE ReserveFails(o)
  BY <1>4 DEF ReserveFails
<1>5. CASE PersistPayment(o)
  BY <1>5 DEF PersistPayment
<1>6. CASE CancelAndRelease(o)
  BY <1>6 DEF CancelAndRelease
<1>7. CASE Settle(o)
  BY <1>7 DEF Settle
<1>8. CASE Expire(o)
  <2>1. Stages'
    BY <1>8 DEF Expire
  <2>2. Catalogue' /\ Links'
    BY <1>8 DEF Expire
  <2>3. Recorded'
    BY <1>8 DEF Expire
  <2>4. TasksAgree'
    <3>1. /\ \A a \in Accounts : accStatus[a] # "NONE" => accStatus'[a] # "NONE"
          /\ \A q \in Orders : ordStatus[q] # "NONE" => ordStatus'[q] # "NONE"
          /\ UNCHANGED <<accProduct, ordProduct, task>>
      <4> HIDE DEF Consistent
      <4> QED BY <1>8 DEF Expire
    <3> HIDE DEF IInv, TypeOK, TasksAgree
    <3> QED BY <1>8, <3>1, TasksStay, TypeOrder DEF IInv, OrderNext
  <2>5. HeldByClaimant'
    BY <1>8 DEF Expire
  <2>6. SharedOnlyByOverwrite'
    BY <1>8 DEF Expire
  <2> QED BY <2>1, <2>2, <2>3, <2>4, <2>5, <2>6
\* A delivery row that is there already names the account of the order.
<1>9. CASE Load(o)
  BY <1>9 DEF Load
<1>10. CASE LoadFails(o)
  BY <1>10 DEF LoadFails
<1>11. CASE Send(o)
  BY <1>11 DEF Send
<1>12. CASE SendFails(o)
  BY <1>12 DEF SendFails
<1>13. CASE Finalize(o)
  BY <1>13 DEF Finalize
<1>14. CASE Redeliver(o)
  BY <1>14 DEF Redeliver
<1> HIDE DEF Consistent
<1> QED
  BY <1>1, <1>2, <1>3, <1>4, <1>5, <1>6, <1>7, <1>8, <1>9, <1>10, <1>11, <1>12,
     <1>13, <1>14 DEF OrderNext

LEMMA InductiveInvariant == Spec => []IInv
<1>1. IInv /\ [Next]_vars => IInv'
  <2> SUFFICES ASSUME IInv, [Next]_vars
               PROVE  IInv'
    OBVIOUS
  <2>1. TypeOK'
    BY TypeStep DEF IInv
  <2>2. CASE UNCHANGED vars
    <3>1. TasksAgree' /\ UNCHANGED <<ProductTouched, prodState>>
      BY <2>2 DEF vars, ProductTouched, history, billing, flow, TasksAgree, IInv,
                  Consistent, accountCols, orderCols
    <3> QED BY <2>1, <3>1, KeepsRows DEF IInv
  <2>3. CASE Next
    BY <2>1, <2>3, AdminStep, OrderStep DEF Next, IInv
  <2> QED BY <2>2, <2>3
<1> QED BY <1>1, InitIInv, PTL DEF Spec

-----------------------------------------------------------------------------
(* Results *)

\* Every column keeps to its values, and no request holds a row that never was.
THEOREM InventoryTypeCorrect == Spec => []TypeOK
BY InductiveInvariant, PTL DEF IInv, Consistent

\* DELETE /accounts/:id and an edit never take an account off the record whose
\* credentials went out, however many customers and admins are at work.
THEOREM HandedStays == Spec => []HandedStaysOnRecord
<1>1. IInv => HandedStaysOnRecord
  BY DEF IInv, Consistent, Stages, Catalogue, Recorded, HandedStaysOnRecord, TypeOK,
         LiveProducts, LiveAccounts, LiveOrders, OrderStatus
<1> QED BY <1>1, InductiveInvariant, PTL

\* Two customers share an account only after an edit overwrote its status.
THEOREM SharedOnlyAfterOverwrite == Spec => []SharedOnlyByOverwrite
BY InductiveInvariant, PTL DEF IInv, Consistent

\* An account that the bot offers is nobody's, and its two lists agree.
THEOREM OffersAreFree == Spec => []OfferedIsFree
<1>1. IInv => OfferedIsFree
  <2> SUFFICES ASSUME IInv
               PROVE  OfferedIsFree
    OBVIOUS
  <2>1. ASSUME NEW a \in ListAvailableForBot \ overwrote, NEW o \in Orders
        PROVE  ~Claims(o, a)
    <3>1. a \in Accounts \ overwrote /\ accStatus[a] = "AVAILABLE"
      BY <2>1 DEF ListAvailableForBot, LiveAccounts
    <3> QED BY <2>1, <3>1 DEF IInv, Consistent, HeldByClaimant
  <2>2. \A a \in ListAvailableForBot : accProduct[a] \in LiveProducts
    BY DEF IInv, Consistent, Catalogue, ListAvailableForBot
  <2>3. ListForBot = {accProduct[a] : a \in ListAvailableForBot}
    BY <2>2 DEF ListForBot, ListAvailableForBot, LiveProducts
  <2> QED BY <2>1, <2>3 DEF OfferedIsFree
<1> QED BY <1>1, InductiveInvariant, PTL
==============================================================================
