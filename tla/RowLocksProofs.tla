---------------------------- MODULE RowLocksProofs ----------------------------
(***************************************************************************)
(* Theorems about RowLocks, for any number of transactions, and of orders  *)
(* and accounts of the product, whichever orders share an account.         *)
(***************************************************************************)
EXTENDS RowLocks, SequenceTheorems, TLAPS

-----------------------------------------------------------------------------
(* The inductive invariant *)

\* No two transactions hold conflicting locks on a row.
Exclusive ==
  \A t, u \in Txns : t # u =>
    \A h \in Held(t), g \in Held(u) :
      h.row = g.row => {h.mode, g.mode} \notin Conflicts

LInv == TypeOK /\ Exclusive

LEMMA InitLInv == Init => LInv
<1> SUFFICES ASSUME Init
             PROVE  LInv
  OBVIOUS
<1>1. TypeOK
  BY DEF Init, TypeOK
<1>2. (\A t \in Txns : at[t] = 1) /\ 1..(1 - 1) = {}
  <2>1. \A t \in Txns : at[t] = 1
    BY DEF Init
  <2> QED BY <2>1
<1>3. \A t \in Txns : Held(t) = {}
  BY <1>2 DEF Held
<1> QED BY <1>1, <1>3 DEF LInv, Exclusive

\* One more lock, which nobody blocks.
LEMMA LockStep ==
  ASSUME LInv, NEW t \in Txns, Lock(t)
  PROVE  LInv'
<1>1. TypeOK'
  BY DEF LInv, TypeOK, Lock
<1>2. \A u \in Txns \ {t} : Held(u)' = Held(u)
  BY DEF LInv, TypeOK, Lock, Held, Steps
<1>3. Held(t)' \subseteq Held(t) \cup {Steps(t)[at[t]]}
  <2>1. /\ at[t] \in Nat \ {0} /\ at'[t] = at[t] + 1
        /\ ended' = ended /\ ~ended[t]
    BY DEF LInv, TypeOK, Lock, Running
  <2>2. Steps(t)' = Steps(t)
    BY DEF Lock, Steps
  <2>3. \A i \in 1..(at[t] + 1 - 1) : i = at[t] \/ i \in 1..(at[t] - 1)
    BY <2>1
  <2> QED BY <2>1, <2>2, <2>3 DEF Held
<1>4. \A u \in Txns \ {t} : \A h \in Held(u) :
        h.row = Steps(t)[at[t]].row => {h.mode, Steps(t)[at[t]].mode} \notin Conflicts
  BY DEF Lock, Blocks
<1>5. \A a, b : {a, b} = {b, a}
  OBVIOUS
<1>6. ASSUME NEW u \in Txns \ {t}, NEW h \in Held(t)', NEW g \in Held(u)',
             h.row = g.row
      PROVE  {h.mode, g.mode} \notin Conflicts /\ {g.mode, h.mode} \notin Conflicts
  BY <1>2, <1>3, <1>4, <1>5, <1>6 DEF LInv, Exclusive
<1>7. \A u, v \in Txns \ {t} : u # v =>
        \A h \in Held(u)', g \in Held(v)' :
          h.row = g.row => {h.mode, g.mode} \notin Conflicts
  BY <1>2 DEF LInv, Exclusive
<1>8. Exclusive'
  <2> SUFFICES ASSUME NEW u \in Txns, NEW v \in Txns, u # v,
                      NEW h \in Held(u)', NEW g \in Held(v)', h.row = g.row
               PROVE  {h.mode, g.mode} \notin Conflicts
    BY DEF Exclusive, Conflicts
  <2>1. CASE u = t
    BY <1>6, <2>1
  <2>2. CASE v = t
    BY <1>6, <2>2
  <2>3. CASE u # t /\ v # t
    BY <1>7, <2>3
  <2> QED BY <2>1, <2>2, <2>3
<1> QED BY <1>1, <1>8 DEF LInv

\* All locks are let go at once.
LEMMA EndStep ==
  ASSUME LInv, NEW t \in Txns, End(t)
  PROVE  LInv'
<1>1. TypeOK'
  BY DEF LInv, TypeOK, End
<1>2. Held(t)' = {}
  BY DEF LInv, TypeOK, End, Held
<1>3. \A u \in Txns \ {t} : Held(u)' = Held(u)
  BY DEF LInv, TypeOK, End, Held, Steps
<1>4. \A u \in Txns : Held(u)' \subseteq Held(u)
  BY <1>2, <1>3
<1>5. Exclusive'
  BY <1>4 DEF LInv, Exclusive, Conflicts
<1> QED BY <1>1, <1>5 DEF LInv

LEMMA LocksInvariant == Spec => []LInv
<1>1. LInv /\ [Next]_vars => LInv'
  <2> SUFFICES ASSUME LInv, [Next]_vars
               PROVE  LInv'
    OBVIOUS
  <2>1. CASE UNCHANGED vars
    BY <2>1 DEF LInv, TypeOK, Exclusive, Held, Steps, vars
  <2>2. ASSUME NEW t \in Txns,
               Lock(t) \/ Commit(t) \/ Fails(t) \/ NoneToTake(t) \/ DetectDeadlock(t)
        PROVE  LInv'
    BY <2>2, LockStep, EndStep DEF Commit, Fails, NoneToTake, DetectDeadlock, Rollback
  <2> QED BY <2>1, <2>2 DEF Next
<1> QED BY <1>1, InitLInv, PTL DEF Spec

-----------------------------------------------------------------------------
(* What the deletion of a product locks. *)

Modes == {"share", "update", "key"}
Lock1 == [row : {"product", "account", "order", "delivery"} \X Nat, mode : Modes]

\* One that sees all orders: first these, in the end the product, and neither
\* in between.
LEMMA ForceDeleteLocks ==
  /\ Len(ForceDelete(N)) = 3 * N + M + 1
  /\ \A i \in Orders : ForceDelete(N)[i] = Key("order", i)
  /\ \A i \in (N + 1)..(3 * N + M) : ForceDelete(N)[i].row[1] \in {"account", "delivery"}
  /\ ForceDelete(N)[3 * N + M + 1] = Key("product", 0)
<1> DEFINE A == [o \in 1..N |-> Key("order", o)]
           B == [i \in 1..(2 * N) |-> IF i % 2 = 1 THEN Update("account", accountOf[(i + 1) \div 2])
                                      ELSE Key("delivery", i \div 2)]
           C == [a \in Accounts |-> Key("account", a)]
           L == [i \in 1..(2 * (N - N)) |-> IF i % 2 = 1 THEN Update("order", N + (i + 1) \div 2)
                                            ELSE Share("delivery", N + i \div 2)]
           D == <<Key("product", 0)>>
<1> USE LocksAssumption DEF Orders, Accounts
<1>1. A \in Seq(Lock1) /\ Len(A) = N
  BY DEF Lock1, Modes, Key
<1>2. B \in Seq(Lock1) /\ Len(B) = 2 * N
  <2>1. \A i \in 1..(2 * N) : B[i] \in Lock1
    <3> SUFFICES ASSUME NEW i \in 1..(2 * N)
                 PROVE  B[i] \in Lock1
      OBVIOUS
    <3>1. CASE i % 2 = 1
      <4>1. (i + 1) \div 2 \in Orders
        BY <3>1
      <4>2. accountOf[(i + 1) \div 2] \in Nat
        BY <4>1
      <4> QED BY <3>1, <4>2 DEF Lock1, Modes, Update
    <3>2. CASE i % 2 # 1
      BY <3>2 DEF Lock1, Modes, Key
    <3> QED BY <3>1, <3>2
  <2>2. B \in [1..(2 * N) -> Lock1]
    BY <2>1
  <2> HIDE DEF B
  <2> QED BY <2>2
<1>3. C \in Seq(Lock1) /\ Len(C) = M
  BY DEF Lock1, Modes, Key
<1>4. D \in Seq(Lock1) /\ Len(D) = 1 /\ D[1] = Key("product", 0)
  BY DEF Lock1, Modes, Key
<1>5. /\ \A i \in Orders : A[i] = Key("order", i)
      /\ \A i \in 1..(2 * N) : B[i].row[1] \in {"account", "delivery"}
      /\ \A i \in Accounts : C[i].row[1] = "account"
  BY DEF Key, Update
<1>6. L \in Seq(Lock1) /\ Len(L) = 0
  <2>1. 2 * (N - N) = 0 /\ 1..0 = {}
    OBVIOUS
  <2>2. L \in [1..0 -> Lock1]
    BY <2>1
  <2> HIDE DEF L
  <2> QED BY <2>2
<1>7. ForceDelete(N) = (((A \o B) \o C) \o L) \o D
  BY DEF ForceDelete
<1> HIDE DEF A, B, C, D, L
<1>8. \A p, q \in Seq(Lock1) :
        /\ p \o q \in Seq(Lock1)
        /\ Len(p \o q) = Len(p) + Len(q)
        /\ \A i \in 1..(Len(p) + Len(q)) :
             (p \o q)[i] = IF i <= Len(p) THEN p[i] ELSE q[i - Len(p)]
  BY ConcatProperties
<1>9. PICK E : E = A \o B
  OBVIOUS
<1>10. /\ E \in Seq(Lock1) /\ Len(E) = 3 * N
       /\ \A i \in 1..(3 * N) : E[i] = IF i <= N THEN A[i] ELSE B[i - N]
  <2>1. Len(A) + Len(B) = 3 * N
    BY <1>1, <1>2
  <2>2. /\ A \o B \in Seq(Lock1) /\ Len(A \o B) = Len(A) + Len(B)
        /\ \A i \in 1..(Len(A) + Len(B)) :
             (A \o B)[i] = IF i <= Len(A) THEN A[i] ELSE B[i - Len(A)]
    BY <1>1, <1>2, <1>8
  <2> QED BY <1>1, <1>9, <2>1, <2>2
<1>11. PICK F : F = E \o C
  OBVIOUS
<1>12. /\ F \in Seq(Lock1) /\ Len(F) = 3 * N + M
       /\ \A i \in 1..(3 * N + M) : F[i] = IF i <= 3 * N THEN E[i] ELSE C[i - 3 * N]
  <2>1. Len(E) + Len(C) = 3 * N + M
    BY <1>3, <1>10
  <2>2. /\ E \o C \in Seq(Lock1) /\ Len(E \o C) = Len(E) + Len(C)
        /\ \A i \in 1..(Len(E) + Len(C)) :
             (E \o C)[i] = IF i <= Len(E) THEN E[i] ELSE C[i - Len(E)]
    BY <1>3, <1>8, <1>10
  <2> QED BY <1>10, <1>11, <2>1, <2>2
<1>13. PICK G : G = F \o L
  OBVIOUS
<1>14. /\ G \in Seq(Lock1) /\ Len(G) = 3 * N + M
       /\ \A i \in 1..(3 * N + M) : G[i] = F[i]
  <2>1. Len(F) + Len(L) = 3 * N + M
    BY <1>6, <1>12
  <2>2. /\ F \o L \in Seq(Lock1) /\ Len(F \o L) = Len(F) + Len(L)
        /\ \A i \in 1..(Len(F) + Len(L)) :
             (F \o L)[i] = IF i <= Len(F) THEN F[i] ELSE L[i - Len(F)]
    BY <1>6, <1>8, <1>12
  <2> QED BY <1>12, <1>13, <2>1, <2>2
<1>15. PICK H : H = G \o D
  OBVIOUS
<1>16. /\ Len(H) = 3 * N + M + 1
       /\ \A i \in 1..(3 * N + M) : H[i] = F[i]
       /\ H[3 * N + M + 1] = Key("product", 0)
  <2>1. Len(G) + Len(D) = 3 * N + M + 1
    BY <1>4, <1>14
  <2>2. /\ Len(H) = 3 * N + M + 1
        /\ \A i \in 1..(3 * N + M + 1) :
             H[i] = IF i <= 3 * N + M THEN G[i] ELSE D[i - (3 * N + M)]
    <3>1. /\ Len(G \o D) = Len(G) + Len(D)
          /\ \A i \in 1..(Len(G) + Len(D)) :
               (G \o D)[i] = IF i <= Len(G) THEN G[i] ELSE D[i - Len(G)]
      BY <1>4, <1>8, <1>14
    <3> QED BY <1>14, <1>15, <2>1, <3>1
  <2>3. 3 * N + M + 1 - (3 * N + M) = 1 /\ ~(3 * N + M + 1 <= 3 * N + M)
    OBVIOUS
  <2> QED BY <1>4, <1>14, <2>2, <2>3
<1>17. ForceDelete(N) = H
  BY <1>7, <1>9, <1>11, <1>13, <1>15
<1>18. \A i \in Orders : H[i] = Key("order", i)
  <2> SUFFICES ASSUME NEW i \in Orders
               PROVE  H[i] = Key("order", i)
    OBVIOUS
  <2>1. i \in 1..(3 * N + M) /\ i \in 1..(3 * N) /\ i <= 3 * N /\ i <= N
    OBVIOUS
  <2> QED BY <1>5, <1>10, <1>12, <1>16, <2>1
<1>19. \A i \in (N + 1)..(3 * N + M) : H[i].row[1] \in {"account", "delivery"}
  <2> SUFFICES ASSUME NEW i \in (N + 1)..(3 * N + M)
               PROVE  H[i].row[1] \in {"account", "delivery"}
    OBVIOUS
  <2>1. i \in 1..(3 * N + M) /\ ~(i <= N)
    OBVIOUS
  <2>2. CASE i <= 3 * N
    <3>1. i - N \in 1..(2 * N) /\ i \in 1..(3 * N)
      BY <2>1, <2>2
    <3>2. H[i] = B[i - N]
      BY <1>10, <1>12, <1>16, <2>1, <2>2, <3>1
    <3> QED BY <1>5, <3>1, <3>2
  <2>3. CASE i > 3 * N
    <3>1. i - 3 * N \in Accounts /\ ~(i <= 3 * N)
      BY <2>1, <2>3
    <3>2. H[i] = C[i - 3 * N]
      BY <1>12, <1>16, <2>1, <3>1
    <3> QED BY <1>5, <3>1, <3>2
  <2> QED BY <2>2, <2>3
<1> QED BY <1>16, <1>17, <1>18, <1>19

-----------------------------------------------------------------------------
(* Circles *)

\* A forced deletion that misses no order.
Whole(t) == kind[t] = "forceDelete" /\ target[t] = N

Closer(t) == kind[t] \in {"close", "transition", "createAny"} \/ Whole(t)

\* A deletion under way has every order it got to.
LEMMA DeletesFromTheFirst ==
  ASSUME LInv, NEW f \in Txns, Whole(f), Held(f) # {}
  PROVE  Key("order", 1) \in Held(f)
<1>1. at[f] \in Nat \ {0} /\ 1 \in 1..(at[f] - 1) /\ ~ended[f]
  BY DEF LInv, TypeOK, Held
<1>2. Steps(f)[1] = Key("order", 1)
  BY ForceDeleteLocks, LocksAssumption DEF Whole, Steps, Locks, Orders
<1> QED BY <1>1, <1>2 DEF Held

\* A row that one of them waits for, and the other has.
LEMMA WaitRow ==
  ASSUME NEW t \in Txns, NEW u \in Txns, WaitsFor(t, u)
  PROVE  \E i \in 1..(at[u] - 1) :
           /\ Running(t) /\ ~ended[u] /\ u # t /\ ~Skips(t)
           /\ Steps(u)[i].row = Steps(t)[at[t]].row
           /\ {Steps(u)[i].mode, Steps(t)[at[t]].mode} \in Conflicts
BY DEF WaitsFor, Blocks, Held

\* A transition, or one that closes an order, once it has the order.
LEMMA HasItsOrder ==
  ASSUME LInv, NEW u \in Txns, kind[u] \in {"close", "transition"}, Running(u),
         at[u] # 1
  PROVE  /\ at[u] = 2
         /\ \E h \in Held(u) : h.row = <<"order", target[u]>> /\ h.mode \in {"update", "key"}
         /\ Steps(u)[2].row = <<"account", accountOf[target[u]]>>
<1>1. /\ Len(Steps(u)) = 2
      /\ Steps(u)[1].row = <<"order", target[u]>> /\ Steps(u)[1].mode \in {"update", "key"}
      /\ Steps(u)[2].row = <<"account", accountOf[target[u]]>>
  BY DEF Steps, Locks, Close, Transition, Update, Key
<1>2. at[u] = 2 /\ ~ended[u]
  BY <1>1 DEF Running, LInv, TypeOK
<1>3. Steps(u)[1] \in Held(u)
  <2>1. 1 \in 1..(at[u] - 1)
    BY <1>2
  <2> QED BY <1>2, <2>1 DEF Held
<1> QED BY <1>1, <1>2, <1>3

\* A purchase of any account waits for nothing that it could deadlock on.
LEMMA TakesAny ==
  ASSUME LInv, NEW u \in Txns, kind[u] = "createAny", Running(u), ~Skips(u)
  PROVE  Held(u) = {}
<1>1. Len(Steps(u)) = 2
  BY DEF Steps, Locks, CreateAny
<1>2. at[u] = 1 /\ 1..(1 - 1) = {}
  BY <1>1 DEF Running, Skips, LInv, TypeOK
<1> QED BY <1>2 DEF Held

\* Deletions take the orders before the accounts.
LEMMA DeletesOrdersFirst ==
  ASSUME LInv, NEW f \in Txns, Whole(f), Running(f),
         NEW h \in Held(f), NEW a \in Accounts, h.row = <<"account", a>>,
         NEW o \in Orders
  PROVE  Key("order", o) \in Held(f)
<1> USE LocksAssumption DEF Orders
<1>1. Steps(f) = ForceDelete(N)
  BY DEF Whole, Steps, Locks
<1>2. PICK i \in 1..(at[f] - 1) : h = ForceDelete(N)[i] /\ ~ended[f]
  BY <1>1 DEF Held
<1>3. at[f] \in Nat /\ i \in Nat
  BY DEF LInv, TypeOK
<1>4. ~(i <= N)
  <2>1. \A j \in Orders : ForceDelete(N)[j].row # <<"account", a>>
    <3>1. \A j \in Orders : ForceDelete(N)[j] = Key("order", j)
      BY ForceDeleteLocks
    <3>2. \A j \in Orders : Key("order", j).row = <<"order", j>>
      BY DEF Key
    <3>3. \A j \in Orders : <<"order", j>> # <<"account", a>>
      OBVIOUS
    <3> QED BY <3>1, <3>2, <3>3
  <2> QED BY <1>2, <1>3, <2>1
<1>5. o \in 1..(at[f] - 1)
  BY <1>3, <1>4
<1> QED BY <1>1, <1>2, <1>5, ForceDeleteLocks DEF Held

\* Of two deletions only one gets past the first order.
LEMMA OneDeletion ==
  ASSUME LInv, NEW f \in Txns, NEW g \in Txns, f # g,
         Whole(f), Whole(g), Held(f) # {}, Held(g) # {}
  PROVE  FALSE
<1>1. Key("order", 1) \in Held(f) /\ Key("order", 1) \in Held(g)
  BY DeletesFromTheFirst
<1>2. {Key("order", 1).mode, Key("order", 1).mode} \in Conflicts
  BY DEF Key, Conflicts
<1> QED BY <1>1, <1>2 DEF LInv, Exclusive

\* What has its order does not wait for one of these that waits.
LEMMA OrderThenAccount ==
  ASSUME LInv, NEW u \in Txns, NEW v \in Txns, NEW w \in Txns,
         kind[u] \in {"close", "transition"}, at[u] # 1, Closer(v),
         WaitsFor(u, v), WaitsFor(v, w)
  PROVE  FALSE
<1>1. Running(u) /\ Running(v) /\ ~Skips(v) /\ u # v
  BY DEF WaitsFor, Blocks
<1>2. PICK own \in Held(u) :
        own.row = <<"order", target[u]>> /\ own.mode \in {"update", "key"}
  BY <1>1, HasItsOrder
<1>3. PICK h \in Held(v) : h.row = <<"account", accountOf[target[u]]>>
  BY <1>1, HasItsOrder DEF WaitsFor, Blocks
<1>4. target[u] \in Orders /\ accountOf[target[u]] \in Accounts
  <2>1. Targets(kind[u]) = Orders
    BY DEF Targets, OfOrders
  <2> QED BY <2>1, LocksAssumption DEF LInv, TypeOK
<1>5. CASE kind[v] \in {"close", "transition"}
  <2>1. at[v] # 1
    <3>1. 1..(1 - 1) = {}
      OBVIOUS
    <3> QED BY <1>3, <3>1 DEF Held
  <2>2. at[v] = 2 /\ 1..(2 - 1) = {1}
    BY <1>1, <1>5, <2>1, HasItsOrder
  <2>3. h = Steps(v)[1]
    BY <1>3, <2>2 DEF Held
  <2> QED BY <1>3, <1>5, <2>3 DEF Steps, Locks, Close, Transition, Update, Key
<1>6. CASE kind[v] = "createAny"
  BY <1>1, <1>3, <1>6, TakesAny
<1>7. CASE Whole(v)
  <2>1. Key("order", target[u]) \in Held(v)
    BY <1>1, <1>3, <1>4, <1>7, DeletesOrdersFirst
  <2>2. {own.mode, Key("order", target[u]).mode} \in Conflicts
    BY <1>2 DEF Key, Conflicts
  <2>3. own.row = Key("order", target[u]).row
    BY <1>2 DEF Key
  <2> QED BY <1>1, <1>2, <2>1, <2>2, <2>3 DEF LInv, Exclusive
<1> QED BY <1>5, <1>6, <1>7 DEF Closer

\* So in a chain of waits all but the ends are deletions.
LEMMA DeletionsInBetween ==
  ASSUME LInv, NEW t \in Txns, NEW u \in Txns, NEW v \in Txns, NEW w \in Txns,
         Closer(u), Closer(v),
         WaitsFor(t, u), WaitsFor(u, v), WaitsFor(v, w)
  PROVE  Whole(u) /\ Held(u) # {}
<1>1. Running(u) /\ ~Skips(u) /\ Held(u) # {}
  BY DEF WaitsFor, Blocks
<1>2. kind[u] # "createAny"
  BY <1>1, TakesAny
<1>3. ASSUME kind[u] \in {"close", "transition"}
      PROVE  FALSE
  <2>1. at[u] # 1
    <3>1. 1..(1 - 1) = {}
      OBVIOUS
    <3> QED BY <1>1, <3>1 DEF Held
  <2> QED BY <1>3, <2>1, OrderThenAccount
<1> QED BY <1>1, <1>2, <1>3 DEF Closer

LEMMA NoCircleOfClosers ==
  ASSUME LInv, NEW S \in SUBSET Txns, NEW t \in S, Circle(S),
         \A s \in S : Closer(s)
  PROVE  FALSE
<1>1. PICK u \in S : WaitsFor(t, u)
  BY DEF Circle
<1>2. PICK v \in S : WaitsFor(u, v)
  BY DEF Circle
<1>3. PICK w \in S : WaitsFor(v, w)
  BY DEF Circle
<1>4. PICK x \in S : WaitsFor(w, x)
  BY DEF Circle
<1>5. Whole(u) /\ Held(u) # {} /\ Whole(v) /\ Held(v) # {}
  BY <1>1, <1>2, <1>3, <1>4, DeletionsInBetween
<1>6. u # v
  BY <1>2 DEF WaitsFor, Blocks
<1> QED BY <1>5, <1>6, OneDeletion

\* What is neither crossed nor a forced deletion has no account as long as it
\* has to wait.
Plain(t) ==
  kind[t] \in {"close", "transition", "createAny", "createChosen",
               "deleteStocked", "deleteEmptied"}

LEMMA FirstLocks ==
  ASSUME LInv, NEW t \in Txns, Plain(t), Running(t), Held(t) # {}
  PROVE  /\ at[t] = 2
         /\ \A h \in Held(t) : h = Steps(t)[1]
         /\ kind[t] \in {"close", "transition"} =>
              Steps(t)[1].row[1] = "order" /\ Steps(t)[2].row[1] = "account"
         /\ kind[t] \in {"createAny", "createChosen", "deleteStocked", "deleteEmptied"} =>
              Steps(t)[1].row[1] = "product"
         /\ kind[t] \in {"createAny", "createChosen", "deleteStocked"} =>
              Steps(t)[2].row[1] = "account"
         /\ kind[t] = "deleteEmptied" => Steps(t)[2].row[1] = "order"
<1>1. Len(Steps(t)) = 2
  BY DEF Plain, Steps, Locks, Close, Transition, CreateAny, CreateChosen, DeleteStocked,
         DeleteEmptied
<1>2. at[t] # 1
  <2>1. 1..(1 - 1) = {}
    OBVIOUS
  <2> QED BY <2>1 DEF Held
<1>3. at[t] = 2
  BY <1>1, <1>2 DEF Running, LInv, TypeOK
<1>4. \A h \in Held(t) : h = Steps(t)[1]
  <2>1. 1..(2 - 1) = {1}
    OBVIOUS
  <2> QED BY <1>3, <2>1 DEF Held
<1> QED BY <1>3, <1>4 DEF Steps, Locks, Close, Transition, CreateAny, CreateChosen,
           DeleteStocked, DeleteEmptied, Share, Update, Key

\* So in a chain of waits of such transactions the second one waits for an order,
\* and the third one has it and waits for an account, which no fourth one has.
LEMMA NoChainOfPlain ==
  ASSUME LInv, NEW t \in Txns, NEW u \in Txns, NEW v \in Txns, NEW w \in Txns, NEW x \in Txns,
         Plain(u), Plain(v), Plain(w),
         WaitsFor(t, u), WaitsFor(u, v), WaitsFor(v, w), WaitsFor(w, x)
  PROVE  FALSE
<1>1. /\ Running(u) /\ Held(u) # {}
      /\ Running(v) /\ Held(v) # {}
      /\ Running(w) /\ Held(w) # {}
  BY DEF WaitsFor, Blocks
<1>2. /\ \E h \in Held(v) : h.row = Steps(u)[at[u]].row
      /\ \E h \in Held(w) : h.row = Steps(v)[at[v]].row
  BY DEF WaitsFor, Blocks
<1>3. /\ Steps(v)[1].row = Steps(u)[2].row
      /\ Steps(w)[1].row = Steps(v)[2].row
  BY <1>1, <1>2, FirstLocks
<1>4. Steps(v)[1].row[1] # "account" /\ Steps(w)[1].row[1] # "account"
  BY <1>1, FirstLocks DEF Plain
<1>5. kind[u] = "deleteEmptied" /\ kind[v] = "deleteEmptied"
  BY <1>1, <1>3, <1>4, FirstLocks DEF Plain
<1> QED BY <1>1, <1>3, <1>5, FirstLocks

LEMMA NoCircleOfPlain ==
  ASSUME LInv, NEW S \in SUBSET Txns, NEW t \in S, Circle(S), \A s \in S : Plain(s)
  PROVE  FALSE
<1>1. PICK u \in S : WaitsFor(t, u)
  BY DEF Circle
<1>2. PICK v \in S : WaitsFor(u, v)
  BY DEF Circle
<1>3. PICK w \in S : WaitsFor(v, w)
  BY DEF Circle
<1>4. PICK x \in S : WaitsFor(w, x)
  BY DEF Circle
<1> QED BY <1>1, <1>2, <1>3, <1>4, NoChainOfPlain

-----------------------------------------------------------------------------
\* Transactions that block each other for good have among them one that crosses
\* the others, taking an account or a delivery before its order, or the forced
\* deletion of a product and one that has the product first.  All else takes an
\* order before its account.
THEOREM CirclesHaveACrossing == Spec => []CirclesAreCrossed
<1>1. LInv => CirclesAreCrossed
  <2> SUFFICES ASSUME LInv, NEW S \in (SUBSET Txns) \ {{}}, Circle(S),
                      ~\E t \in S : Crosses(t),
                      ~\E t, u \in S : kind[t] = "forceDelete" /\ ProductFirst(u)
               PROVE  FALSE
    BY DEF CirclesAreCrossed
  <2>1. PICK t : t \in S
    OBVIOUS
  <2>2. \A s \in S : /\ s \in Txns /\ kind[s] \in Kinds
                     /\ kind[s] = "forceDelete" => target[s] = N
    BY LocksAssumption DEF LInv, TypeOK, Crosses, Targets, OfOrders, OfAccounts
  <2>3. CASE \E s \in S : kind[s] = "forceDelete"
    <3>1. \A s \in S : Closer(s)
      BY <2>2, <2>3 DEF Closer, Whole, Crosses, ProductFirst, Kinds, OfOrders, OfAccounts
    <3> QED BY <2>1, <3>1, NoCircleOfClosers
  <2>4. CASE ~\E s \in S : kind[s] = "forceDelete"
    <3>1. \A s \in S : Plain(s)
      BY <2>2, <2>4 DEF Plain, Crosses, Kinds, OfOrders, OfAccounts
    <3> QED BY <2>1, <3>1, NoCircleOfPlain
  <2> QED BY <2>3, <2>4
<1> QED BY <1>1, LocksInvariant, PTL
=============================================================================
