------------------------- MODULE Socks5PoolProofs --------------------------
(***************************************************************************)
(* The counters of the pool and the items of its orders, for any number of *)
(* rows, purchases, releases, allocations and orders.                      *)
(*                                                                         *)
(* The argument for the counter: an allocation that is not gone has a row, *)
(* a release holds an allocation that was made, and so each transaction    *)
(* changes the counter and the allocations together.  For the bound on     *)
(* overselling: a purchase that is still to sell a row adds one to what    *)
(* the row's counter will be, and when it chose the row the counter was    *)
(* below its limit; so the counter plus the purchases that are still to    *)
(* sell the row never exceeds the limit by more than the other purchases.  *)
(* For orders: the items an order has and those its one purchase has still *)
(* to make add up to what it was placed for.                               *)
(***************************************************************************)
EXTENDS Socks5Pool, TLAPS, FiniteSetTheorems, SequenceTheorems

Item == [entry : Entries, current : Int]

\* What TypeOK asks of a purchase, and that its rows differ.
Good(p) ==
    /\ p \in Purchase
    /\ Len(p.plan) <= MaxQuantity
    /\ p.pc \in {"allocate", "relay"} => p.plan # <<>>
    /\ p.pc = "relay" => p.id # NoId
    /\ p.pc \in {"relay", "complete"} => p.order # NoOrder
    /\ \A m, n \in 1..Len(p.plan) : p.plan[m].entry = p.plan[n].entry => m = n

\* Purchase p is still to sell row e: when it creates a relay, its first row is
\* sold already.
ToSell(p, e) ==
    \E m \in 1..Len(p.plan) : p.plan[m].entry = e /\ (p.pc = "relay" => m > 1)

GoodPurchases == \A w \in Workers : Good(worker[w])

TypeInv == TypeOK /\ GoodPurchases

Pending(e) == {w \in Workers : ToSell(worker[w], e)}

\* Allocations have rows, releases have allocations, and a row has no past
\* before it is added.
RowsHeld ==
    /\ \A l \in Releasers : release[l] # NoId => alloc[release[l]].status # "unused"
    /\ \A i \in Ids : alloc[i].status \in {"active", "released"}
                        => Present(alloc[i].entry)
    /\ \A e \in Entries : pool[e].status = "absent" => twice[e] = 0

\* Somebody holds an exhausted row.
ExhaustedHeld ==
    \A e \in Entries : pool[e].status = "exhausted" => Active(e) # {}

PendingFits ==
    \A e \in Entries :
        pool[e].current + Cardinality(Pending(e))
          <= MaxAllocations[e] + Cardinality(Workers) - 1

-----------------------------------------------------------------------------
(* What the steps of a purchase do to it.                                  *)

LEMMA IdleGood == Good(Idle) /\ \A e : ~ ToSell(Idle, e)
<1>1. <<>> \in Seq(Item) /\ Len(<<>>) = 0
  OBVIOUS
<1>2. Idle \in Purchase
  BY <1>1 DEF Idle, At, Purchase, Item
<1> QED
  BY <1>1, <1>2, BoundsAssumption DEF Good, ToSell, Idle, At

\* What a purchase that has just read the rows holds.
Planned(s, quantity, o) ==
    At("allocate", [m \in 1..quantity |->
                      [entry |-> s[m], current |-> pool[s[m]].current]], o)

LEMMA PlannedGood ==
    ASSUME TypeOK, NEW quantity \in 1..MaxQuantity, NEW o \in Orders \cup {NoOrder},
           NEW s \in Plans(quantity)
    PROVE  /\ Good(Planned(s, quantity, o))
           /\ \A e : ToSell(Planned(s, quantity, o), e) => e \in Allocatable
<1> DEFINE plan == [m \in 1..quantity |->
                      [entry |-> s[m], current |-> pool[s[m]].current]]
<1>1. quantity \in Nat /\ quantity > 0 /\ quantity <= MaxQuantity
  BY BoundsAssumption
<1>2. s \in [1..quantity -> Allocatable] /\ IsInjective(s)
  BY DEF Plans
<1>3. \A m, n \in 1..quantity : s[m] = s[n] => m = n
  BY <1>2 DEF IsInjective
<1>4. \A m \in 1..quantity : s[m] \in Entries
  BY <1>2 DEF Allocatable
<1>5. \A m \in 1..quantity : plan[m] \in Item /\ plan[m].entry = s[m]
  BY <1>4 DEF TypeOK, Row, Item
<1>6. plan \in Seq(Item) /\ Len(plan) = quantity
  BY <1>1, <1>5
<1> HIDE DEF plan
<1>7. Planned(s, quantity, o) =
        [pc |-> "allocate", plan |-> plan, order |-> o, id |-> NoId]
  BY DEF Planned, At, plan
<1>8. Planned(s, quantity, o) \in Purchase
  BY <1>6, <1>7 DEF Purchase, Item
<1>9. plan # <<>>
  BY <1>1, <1>6
<1>10. Good(Planned(s, quantity, o))
  BY <1>1, <1>3, <1>5, <1>6, <1>7, <1>8, <1>9 DEF Good
<1>11. \A e : ToSell(Planned(s, quantity, o), e) => e \in Allocatable
  BY <1>2, <1>5, <1>6, <1>7 DEF ToSell
<1> QED
  BY <1>10, <1>11

\* After an item the purchase has the rest of its rows to sell.
LEMMA AfterItemGood ==
    ASSUME TypeInv, NEW w \in Workers, worker[w].pc \in {"allocate", "relay"}
    PROVE  /\ Good(AfterItem(w))
           /\ \A e : ToSell(AfterItem(w), e) =>
                \E m \in 2..Len(worker[w].plan) : worker[w].plan[m].entry = e
<1> DEFINE p == worker[w]
           q == AfterItem(w)
<1>1. Good(p) /\ p.plan \in Seq(Item) /\ p.plan # <<>>
  BY DEF TypeInv, GoodPurchases, Good, Purchase, Item
<1>2. /\ Tail(p.plan) \in Seq(Item)
      /\ Len(Tail(p.plan)) = Len(p.plan) - 1
      /\ \A m \in 1..Len(Tail(p.plan)) : Tail(p.plan)[m] = p.plan[m + 1]
  BY <1>1, HeadTailProperties
<1>3. Len(p.plan) \in Nat /\ Len(p.plan) <= MaxQuantity
  BY <1>1 DEF Good
<1>4. CASE Len(p.plan) > 1
  <2>1. q = [pc |-> "allocate", plan |-> Tail(p.plan), order |-> p.order,
              id |-> NoId]
    BY <1>4 DEF AfterItem, At
  <2>2. /\ q \in Purchase
        /\ q.pc = "allocate" /\ q.plan = Tail(p.plan)
    BY <1>1, <1>2, <2>1 DEF Good, Purchase, Item
  <2>3. Len(q.plan) = Len(p.plan) - 1 /\ q.plan # <<>>
    <3>1. Len(q.plan) = Len(p.plan) - 1
      BY <1>2, <2>2
    <3>2. Len(<<>>) = 0
      OBVIOUS
    <3>3. Len(q.plan) > 0
      BY <1>3, <1>4, <3>1
    <3> QED
      BY <3>1, <3>2, <3>3
  <2>4. \A m \in 1..Len(q.plan) : q.plan[m] = p.plan[m + 1] /\ m + 1 \in 2..Len(p.plan)
    BY <1>2, <1>3, <2>2
  <2>5. \A m, n \in 1..Len(q.plan) : q.plan[m].entry = q.plan[n].entry => m = n
    <3> SUFFICES ASSUME NEW m \in 1..Len(q.plan), NEW n \in 1..Len(q.plan),
                        q.plan[m].entry = q.plan[n].entry
                 PROVE  m = n
      OBVIOUS
    <3>1. m \in Int /\ n \in Int
      BY <1>3, <2>3
    <3>2. p.plan[m + 1].entry = p.plan[n + 1].entry
      BY <2>4
    <3>3. m + 1 \in 1..Len(p.plan) /\ n + 1 \in 1..Len(p.plan)
      BY <2>4
    <3>4. m + 1 = n + 1
      BY <1>1, <3>2, <3>3 DEF Good
    <3> QED
      BY <3>1, <3>4
  <2>6. Good(q)
    <3>1. Len(q.plan) <= MaxQuantity
      BY <1>1, <1>3, BoundsAssumption, <2>3 DEF Good
    <3> QED
      BY <2>2, <2>3, <2>5, <3>1 DEF Good
  <2>7. \A e : ToSell(q, e) =>
          \E m \in 2..Len(p.plan) : p.plan[m].entry = e
    BY <2>4 DEF ToSell
  <2> QED
    BY <2>6, <2>7
<1>5. CASE ~(Len(p.plan) > 1) /\ p.order = NoOrder
  <2>1. q = Idle
    BY <1>5 DEF AfterItem
  <2> QED
    BY <2>1, IdleGood
<1>6. CASE ~(Len(p.plan) > 1) /\ p.order # NoOrder
  <2>1. q = [pc |-> "complete", plan |-> <<>>, order |-> p.order, id |-> NoId]
    BY <1>6 DEF AfterItem, At
  <2>2. <<>> \in Seq(Item) /\ Len(<<>>) = 0
    OBVIOUS
  <2>3. /\ q \in Purchase
        /\ q.pc = "complete" /\ q.plan = <<>> /\ q.order # NoOrder
    BY <1>1, <1>6, <2>1, <2>2 DEF Good, Purchase, Item
  <2> QED
    BY <2>2, <2>3, BoundsAssumption DEF Good, ToSell
<1> QED
  BY <1>4, <1>5, <1>6

-----------------------------------------------------------------------------
(* What a step does to a purchase: it starts one with rows it may sell, it *)
(* sells a row, or it leaves no more rows to sell than there were.         *)

\* An item of purchase w: it becomes p and the row is no more among those it is
\* still to sell.
Relaying(w, i) ==
    IF worker[w].order = NoOrder THEN AfterItem(w)
    ELSE [pc |-> "relay", plan |-> worker[w].plan, order |-> worker[w].order,
          id |-> i]

LEMMA RelayingGood ==
    ASSUME TypeInv, NEW w \in Workers, NEW i \in Ids, worker[w].pc = "allocate"
    PROVE  /\ Good(Relaying(w, i))
           /\ \A e : ToSell(Relaying(w, i), e) =>
                ToSell(worker[w], e) /\ e # Head(worker[w].plan).entry
           /\ ToSell(worker[w], Head(worker[w].plan).entry)
           /\ Head(worker[w].plan) \in Item
<1> DEFINE p == worker[w]
           r == Relaying(w, i)
<1>1. Good(p) /\ p.plan \in Seq(Item) /\ p.plan # <<>>
  BY DEF TypeInv, GoodPurchases, Good, Purchase, Item
<1>2. Len(p.plan) \in Nat /\ Len(p.plan) > 0
  BY <1>1
<1>3. Head(p.plan) = p.plan[1] /\ Head(p.plan) \in Item
  BY <1>1, <1>2
<1>4. \A m \in 2..Len(p.plan) : p.plan[m].entry # Head(p.plan).entry
  <2> SUFFICES ASSUME NEW m \in 2..Len(p.plan),
                      p.plan[m].entry = Head(p.plan).entry
               PROVE  FALSE
    OBVIOUS
  <2>1. m \in 1..Len(p.plan) /\ 1 \in 1..Len(p.plan) /\ m # 1
    BY <1>2
  <2> QED
    BY <1>1, <1>3, <2>1 DEF Good
<1>5. \A e : (\E m \in 2..Len(p.plan) : p.plan[m].entry = e) =>
             ToSell(p, e) /\ e # Head(p.plan).entry
  <2> SUFFICES ASSUME NEW e, NEW m \in 2..Len(p.plan), p.plan[m].entry = e
               PROVE  ToSell(p, e) /\ e # Head(p.plan).entry
    OBVIOUS
  <2>1. m \in 1..Len(p.plan)
    BY <1>2
  <2> QED
    BY <1>4, <2>1 DEF ToSell
<1>6. ToSell(p, Head(p.plan).entry)
  BY <1>2, <1>3 DEF ToSell
<1>7. CASE p.order = NoOrder
  <2>1. r = AfterItem(w)
    BY <1>7 DEF Relaying
  <2> QED
    BY <1>3, <1>5, <1>6, <2>1, AfterItemGood
<1>8. CASE p.order # NoOrder
  <2>1. r = [pc |-> "relay", plan |-> p.plan, order |-> p.order, id |-> i]
    BY <1>8 DEF Relaying
  <2>2. r \in Purchase /\ r.plan = p.plan /\ r.pc = "relay"
        /\ r.id = i /\ r.order = p.order
    BY <1>1, <2>1 DEF Good, Purchase
  <2>3. Good(r)
    BY <1>1, <1>8, <2>2, IdsAssumption DEF Good
  <2>4. \A e : ToSell(r, e) => \E m \in 2..Len(p.plan) : p.plan[m].entry = e
    BY <1>2, <2>2 DEF ToSell
  <2> QED
    BY <1>3, <1>5, <1>6, <2>3, <2>4
<1> QED
  BY <1>7, <1>8

\* Any step changes one purchase at most, into one that is good.  The rows it
\* is to sell after the step it was to sell before, or may sell now.
LEMMA PurchaseMoves ==
    ASSUME TypeInv, NEW w \in Workers, PurchaseStep(w)
    PROVE  \E p : /\ Good(p)
                 /\ worker' = [worker EXCEPT ![w] = p]
                 /\ \A e : ToSell(p, e) => e \in Allocatable \/ ToSell(worker[w], e)
<1>1. ASSUME NEW q \in 1..MaxQuantity, NEW o \in Orders \cup {NoOrder},
             Begin(w, q, o)
      PROVE  \E p : /\ Good(p)
                   /\ worker' = [worker EXCEPT ![w] = p]
                   /\ \A e : ToSell(p, e) => e \in Allocatable
  <2>1. PICK s \in Plans(q) : worker' = [worker EXCEPT ![w] = Planned(s, q, o)]
    BY <1>1 DEF Begin, Planned
  <2> QED
    BY <2>1, PlannedGood DEF TypeInv
<1>2. ASSUME NEW q \in 1..MaxQuantity, Allocate(w, q)
      PROVE  Begin(w, q, NoOrder)
  BY <1>2 DEF Allocate
<1>3. ASSUME NEW q \in 1..MaxQuantity, NEW o \in Orders, CreateOrder(w, q, o)
      PROVE  Begin(w, q, o)
  BY <1>3 DEF CreateOrder
<1>4. ASSUME NEW i \in Ids, AllocateItem(w, i)
      PROVE  /\ worker[w].pc = "allocate"
             /\ worker' = [worker EXCEPT ![w] = Relaying(w, i)]
  BY <1>4 DEF AllocateItem, Relaying
<1>5. ASSUME CreateRelay(w)
      PROVE  /\ Good(AfterItem(w))
             /\ worker' = [worker EXCEPT ![w] = AfterItem(w)]
             /\ \A e : ToSell(AfterItem(w), e) => ToSell(worker[w], e)
  <2>1. worker[w].pc = "relay" /\ worker' = [worker EXCEPT ![w] = AfterItem(w)]
    BY <1>5 DEF CreateRelay
  <2>2. Len(worker[w].plan) \in Nat
    BY DEF TypeInv, GoodPurchases, Good, Purchase
  <2> QED
    BY <2>1, <2>2, AfterItemGood DEF ToSell
<1>6. ASSUME Complete(w) \/ PurchaseDies(w)
      PROVE  worker' = [worker EXCEPT ![w] = Idle]
  BY <1>6 DEF Complete, PurchaseDies
<1> QED
  BY <1>1, <1>2, <1>3, <1>4, <1>5, <1>6, RelayingGood, IdleGood DEF PurchaseStep

-----------------------------------------------------------------------------
(* Types.                                                                  *)

LEMMA UnusedType == Unused \in Allocation
<1>1. (CHOOSE e \in Entries : TRUE) \in Entries
  BY EntriesAssumption
<1> QED
  BY <1>1 DEF Unused, Allocation

LEMMA TypeInit == Init => TypeInv
<1> SUFFICES ASSUME Init PROVE TypeInv
  OBVIOUS
<1>1. GoodPurchases
  BY IdleGood DEF Init, GoodPurchases
<1>2. \A w \in Workers : worker[w] = Idle
  BY DEF Init
<1>3. worker \in [Workers -> Purchase]
  BY <1>2, IdleGood DEF Init, Good
<1>4. pool \in [Entries -> Row]
  BY DEF Init, Row, RowStatus
<1>5. alloc \in [Ids -> Allocation]
  BY UnusedType DEF Init
<1>6. order \in [Orders -> [status : {"none", "processing", "completed"},
                            quantity : 0..MaxQuantity]]
  BY BoundsAssumption DEF Init
<1>7. /\ release \in [Releasers -> Ids \cup {NoId}]
      /\ doomed \subseteq Entries /\ ops \in 0..MaxOps
      /\ twice \in [Entries -> Nat]
  BY BoundsAssumption DEF Init
<1> QED
  BY <1>1, <1>3, <1>4, <1>5, <1>6, <1>7 DEF TypeInv, TypeOK, GoodPurchases, Good

LEMMA GoodStep ==
    ASSUME TypeInv, [Next]_vars
    PROVE  GoodPurchases' /\ worker' \in [Workers -> Purchase]
<1>1. worker \in [Workers -> Purchase] /\ \A w \in Workers : Good(worker[w])
  BY DEF TypeInv, TypeOK, GoodPurchases
<1>2. ASSUME NEW w \in Workers, PurchaseStep(w)
      PROVE  GoodPurchases' /\ worker' \in [Workers -> Purchase]
  <2>1. PICK p : Good(p) /\ worker' = [worker EXCEPT ![w] = p]
    BY <1>2, PurchaseMoves
  <2>2. p \in Purchase
    BY <2>1 DEF Good
  <2>3. \A v \in Workers : Good(worker'[v])
    BY <1>1, <2>1
  <2> QED
    BY <1>1, <2>1, <2>2, <2>3 DEF GoodPurchases
<1>3. ASSUME UNCHANGED worker
      PROVE  GoodPurchases' /\ worker' \in [Workers -> Purchase]
  BY <1>1, <1>3 DEF GoodPurchases
<1>4. ASSUME NEW e \in Entries, Renew(e) \/ CheckDelete(e) \/ Delete(e)
      PROVE  UNCHANGED worker
  BY <1>4 DEF Renew, CheckDelete, Delete
<1>5. ASSUME NEW l \in Releasers, ReleaseStep(l) PROVE UNCHANGED worker
  BY <1>5 DEF ReleaseStep, Lookup, Release, ReleaseDies
<1>6. ASSUME NEW new \in SUBSET Entries, AddToPool(new) PROVE UNCHANGED worker
  BY <1>6 DEF AddToPool
<1> QED
  BY <1>2, <1>3, <1>4, <1>5, <1>6 DEF Next, vars

\* The rest of TypeOK: what does not concern the purchases.
TypeRest ==
    /\ pool \in [Entries -> Row]
    /\ alloc \in [Ids -> Allocation]
    /\ order \in [Orders -> [status : {"none", "processing", "completed"},
                             quantity : 0..MaxQuantity]]
    /\ release \in [Releasers -> Ids \cup {NoId}]
    /\ doomed \subseteq Entries /\ ops \in 0..MaxOps
    /\ twice \in [Entries -> Nat]

\* The row that a purchase sells next, as it read it.
LEMMA HeadType ==
    ASSUME TypeInv, NEW w \in Workers, worker[w].pc = "allocate"
    PROVE  /\ Head(worker[w].plan).entry \in Entries
           /\ NewStatus(Head(worker[w].plan)) \in RowStatus
           /\ NewStatus(Head(worker[w].plan)) \notin {"absent", "deleted"}
           /\ worker[w].order \in Orders \cup {NoOrder}
<1>1. worker[w] \in Purchase /\ worker[w].plan # <<>>
  BY DEF TypeInv, GoodPurchases, Good
<1>2. Head(worker[w].plan) \in Item
  BY <1>1, HeadTailProperties DEF Purchase, Item
<1> QED
  BY <1>1, <1>2 DEF Item, Purchase, NewStatus, RowStatus

LEMMA RestStep == ASSUME TypeInv, [Next]_vars PROVE TypeRest'
<1>0. TypeRest
  BY DEF TypeInv, TypeOK, TypeRest
<1>1. ASSUME NEW new \in SUBSET Entries, AddToPool(new) PROVE TypeRest'
  BY <1>0, <1>1 DEF AddToPool, TypeRest, Row, RowStatus
<1>2. ASSUME NEW e \in Entries, Renew(e) PROVE TypeRest'
  BY <1>0, <1>2, BoundsAssumption DEF Renew, TypeRest, Row, RowStatus
<1>3. ASSUME NEW e \in Entries, CheckDelete(e) PROVE TypeRest'
  BY <1>0, <1>3, BoundsAssumption DEF CheckDelete, TypeRest
<1>4. ASSUME NEW e \in Entries, Delete(e) PROVE TypeRest'
  <2>1. pool' \in [Entries -> Row]
    BY <1>0, <1>4 DEF Delete, TypeRest, Row, RowStatus
  <2>2. alloc' \in [Ids -> Allocation]
    BY <1>0, <1>4 DEF Delete, TypeRest, Allocation
  <2> QED
    BY <1>0, <1>4, <2>1, <2>2 DEF Delete, TypeRest
<1>5. ASSUME NEW w \in Workers, PurchaseStep(w) PROVE TypeRest'
  <2>1. ASSUME NEW q \in 1..MaxQuantity, Allocate(w, q) PROVE TypeRest'
    BY <1>0, <2>1 DEF Allocate, Begin, TypeRest
  <2>2. ASSUME NEW q \in 1..MaxQuantity, NEW o \in Orders, CreateOrder(w, q, o)
        PROVE  TypeRest'
    <3>1. q \in 0..MaxQuantity
      BY BoundsAssumption
    <3> QED
      BY <1>0, <2>2, <3>1 DEF CreateOrder, Begin, TypeRest
  <2>3. ASSUME NEW i \in Ids, AllocateItem(w, i) PROVE TypeRest'
    <3>1. pool' \in [Entries -> Row]
      BY <1>0, <2>3, HeadType DEF AllocateItem, TypeRest, Row
    <3>2. alloc' \in [Ids -> Allocation]
      BY <1>0, <2>3, HeadType DEF AllocateItem, TypeRest, Allocation
    <3> QED
      BY <1>0, <2>3, <3>1, <3>2 DEF AllocateItem, TypeRest
  <2>4. ASSUME CreateRelay(w) PROVE TypeRest'
    <3>1. PICK j : alloc' = [alloc EXCEPT ![j].relay = TRUE]
      BY <2>4 DEF CreateRelay
    <3>2. alloc \in [Ids -> Allocation]
      BY <1>0 DEF TypeRest
    <3>3. \A i \in Ids : [alloc[i] EXCEPT !.relay = TRUE] \in Allocation
      BY <3>2 DEF Allocation
    <3>4. alloc' \in [Ids -> Allocation]
      BY <3>1, <3>2, <3>3
    <3> QED
      BY <1>0, <2>4, <3>4 DEF CreateRelay, TypeRest
  <2>5. ASSUME Complete(w) PROVE TypeRest'
    BY <1>0, <2>5 DEF Complete, TypeRest
  <2>6. ASSUME PurchaseDies(w) PROVE TypeRest'
    BY <1>0, <2>6 DEF PurchaseDies, TypeRest
  <2> QED
    BY <1>5, <2>1, <2>2, <2>3, <2>4, <2>5, <2>6 DEF PurchaseStep
<1>6. ASSUME NEW l \in Releasers, ReleaseStep(l) PROVE TypeRest'
  <2>1. ASSUME NEW i \in Ids, Lookup(l, i) PROVE TypeRest'
    BY <1>0, <2>1 DEF Lookup, TypeRest
  <2>2. ASSUME Release(l) PROVE TypeRest'
    <3> DEFINE i == release[l]
    <3>1. i \in Ids /\ alloc[i].entry \in Entries
      BY <1>0, <2>2 DEF Release, TypeRest, Allocation
    <3>2. pool' \in [Entries -> Row]
      BY <1>0, <2>2, <3>1 DEF Release, TypeRest, Row, RowStatus
    <3>3. alloc' \in [Ids -> Allocation] /\ twice' \in [Entries -> Nat]
      BY <1>0, <2>2, <3>1 DEF Release, TypeRest, Allocation
    <3> QED
      BY <1>0, <2>2, <3>2, <3>3 DEF Release, TypeRest
  <2>3. ASSUME ReleaseDies(l) PROVE TypeRest'
    BY <1>0, <2>3 DEF ReleaseDies, TypeRest
  <2> QED
    BY <1>6, <2>1, <2>2, <2>3 DEF ReleaseStep
<1>7. ASSUME UNCHANGED vars PROVE TypeRest'
  BY <1>0, <1>7 DEF vars, TypeRest
<1> QED
  BY <1>1, <1>2, <1>3, <1>4, <1>5, <1>6, <1>7 DEF Next

LEMMA TypeStep == TypeInv /\ [Next]_vars => TypeInv'
<1> SUFFICES ASSUME TypeInv, [Next]_vars PROVE TypeInv'
  OBVIOUS
<1>1. GoodPurchases' /\ worker' \in [Workers -> Purchase] /\ TypeRest'
  BY GoodStep, RestStep
<1> QED
  BY <1>1 DEF TypeInv, TypeOK, TypeRest, GoodPurchases, Good

\* Rows, allocations, orders, purchases and releases keep their types (the
\* whole of Socks5PoolService and OrderService that is modelled).
THEOREM PoolTypeCorrect == Spec => []TypeOK
<1>1. Spec => []TypeInv
  BY TypeInit, TypeStep, PTL DEF Spec
<1>2. TypeInv => TypeOK
  BY DEF TypeInv
<1> QED
  BY <1>1, <1>2, PTL

-----------------------------------------------------------------------------
(* The counters.                                                           *)

\* The steps that touch no row and no status of an allocation, and take up
\* releases of allocations that were made only.
Apart ==
    /\ UNCHANGED <<pool, twice>>
    /\ \A i \in Ids : /\ alloc'[i].status = alloc[i].status
                      /\ alloc'[i].entry = alloc[i].entry
    /\ \A l \in Releasers :
         release'[l] \in {release[l], NoId} \/ alloc[release'[l]].status = "active"

\* A step is apart or one of the five that change rows.
LEMMA FiveOrApart ==
    ASSUME TypeInv, [Next]_vars
    PROVE  \/ Apart
           \/ \E new \in SUBSET Entries : AddToPool(new)
           \/ \E e \in Entries : Renew(e) \/ Delete(e)
           \/ \E w \in Workers, i \in Ids : AllocateItem(w, i)
           \/ \E l \in Releasers : Release(l)
<1>0. alloc \in [Ids -> Allocation] /\ release \in [Releasers -> Ids \cup {NoId}]
  BY DEF TypeInv, TypeOK
<1>1. ASSUME NEW e \in Entries, CheckDelete(e) PROVE Apart
  BY <1>1 DEF CheckDelete, Apart
<1>2. ASSUME NEW w \in Workers, PurchaseStep(w), \A i \in Ids : ~ AllocateItem(w, i)
      PROVE  Apart
  <2>1. ASSUME NEW q \in 1..MaxQuantity, Allocate(w, q) PROVE Apart
    BY <2>1 DEF Allocate, Begin, Apart
  <2>2. ASSUME NEW q \in 1..MaxQuantity, NEW o \in Orders, CreateOrder(w, q, o)
        PROVE  Apart
    BY <2>2 DEF CreateOrder, Begin, Apart
  <2>3. ASSUME CreateRelay(w) PROVE Apart
    BY <1>0, <2>3 DEF CreateRelay, Apart, Allocation
  <2>4. ASSUME Complete(w) \/ PurchaseDies(w) PROVE Apart
    BY <2>4 DEF Complete, PurchaseDies, Apart
  <2> QED
    BY <1>2, <2>1, <2>2, <2>3, <2>4 DEF PurchaseStep
<1>3. ASSUME NEW l \in Releasers, ReleaseStep(l), ~ Release(l) PROVE Apart
  <2>1. ASSUME NEW i \in Ids, Lookup(l, i) PROVE Apart
    BY <1>0, <2>1 DEF Lookup, Apart
  <2>2. ASSUME ReleaseDies(l) PROVE Apart
    BY <1>0, <2>2 DEF ReleaseDies, Apart
  <2> QED
    BY <1>3, <2>1, <2>2 DEF ReleaseStep
<1>4. ASSUME UNCHANGED vars PROVE Apart
  BY <1>4 DEF vars, Apart
<1> QED
  BY <1>1, <1>2, <1>3, <1>4 DEF Next

\* The inductive invariant of the counter.
CounterInv == TypeInv /\ RowsHeld /\ CounterMatches /\ ExhaustedHeld

LEMMA ActiveFinite ==
    ASSUME NEW e
    PROVE  /\ IsFiniteSet(Active(e)) /\ Cardinality(Active(e)) \in Nat
           /\ Cardinality(Active(e)) = 0 <=> Active(e) = {}
<1>1. Active(e) \in SUBSET Ids
  BY DEF Active
<1>2. IsFiniteSet(Active(e))
  BY <1>1, IdsAssumption, FS_Subset
<1> QED
  BY <1>2, FS_CardinalityType, FS_EmptySet

LEMMA CounterInit == Init => CounterInv
<1> SUFFICES ASSUME Init PROVE CounterInv
  OBVIOUS
<1>1. \A i \in Ids : alloc[i].status = "unused"
  BY DEF Init, Unused
<1>2. \A e \in Entries : Active(e) = {} /\ ~ Present(e)
  BY <1>1 DEF Init, Active, Present
<1>3. RowsHeld
  BY <1>1 DEF Init, RowsHeld
<1>4. CounterMatches /\ ExhaustedHeld
  BY <1>2 DEF Init, CounterMatches, ExhaustedHeld
<1> QED
  BY <1>3, <1>4, TypeInit DEF CounterInv

LEMMA CounterStep == CounterInv /\ [Next]_vars => CounterInv'
<1> SUFFICES ASSUME CounterInv, [Next]_vars PROVE CounterInv'
  OBVIOUS
<1>0. TypeInv /\ RowsHeld /\ CounterMatches /\ ExhaustedHeld /\ TypeInv'
  BY TypeStep DEF CounterInv
<1>t. /\ pool \in [Entries -> Row] /\ alloc \in [Ids -> Allocation]
      /\ release \in [Releasers -> Ids \cup {NoId}] /\ twice \in [Entries -> Nat]
  BY <1>0 DEF TypeInv, TypeOK
<1> DEFINE Rest == RowsHeld' /\ CounterMatches' /\ ExhaustedHeld'
<1>1. ASSUME Apart PROVE Rest
  <2>1. \A e \in Entries : Active(e)' = Active(e) /\ Present(e)' = Present(e)
    BY <1>1 DEF Apart, Active, Present
  <2>2. RowsHeld'
    <3>1. release' \in [Releasers -> Ids \cup {NoId}]
      BY <1>0 DEF TypeInv, TypeOK
    <3>2. \A l \in Releasers : release'[l] # NoId => alloc'[release'[l]].status # "unused"
      BY <1>0, <1>1, <1>t, <3>1 DEF Apart, RowsHeld
    <3>3. \A i \in Ids : alloc'[i].status \in {"active", "released"}
                            => Present(alloc[i].entry)'  /\ alloc'[i].entry = alloc[i].entry
      BY <1>0, <1>1 DEF Apart, RowsHeld, Present
    <3>4. \A e \in Entries : pool'[e].status = "absent" => twice'[e] = 0
      BY <1>0, <1>1 DEF Apart, RowsHeld
    <3> QED
      BY <3>2, <3>3, <3>4 DEF RowsHeld, Present
  <2>3. CounterMatches' /\ ExhaustedHeld'
    BY <1>0, <1>1, <2>1 DEF Apart, CounterMatches, ExhaustedHeld
  <2> QED
    BY <2>2, <2>3
<1>2. ASSUME NEW new \in SUBSET Entries, AddToPool(new) PROVE Rest
  <2>1. \A e \in Entries : Active(e)' = Active(e)
    BY <1>2 DEF AddToPool, Active
  <2>2. \A e \in Entries : Present(e) => pool'[e] = pool[e] /\ Present(e)'
    BY <1>2 DEF AddToPool, Present
  <2>3. RowsHeld'
    BY <1>0, <1>2, <1>t, <2>2 DEF AddToPool, RowsHeld, Allocation
  <2>4. ASSUME NEW e \in Entries
        PROVE  /\ IF Present(e)' THEN pool'[e].current + twice'[e] = Cardinality(Active(e)')
                  ELSE Active(e)' = {}
               /\ pool'[e].status = "exhausted" => Active(e)' # {}
    <3>1. CASE e \in new
      <4>1. pool[e].status = "absent" /\ ~ Present(e) /\ twice[e] = 0
        BY <1>0, <1>2, <3>1 DEF AddToPool, Present, RowsHeld
      <4>2. Active(e) = {} /\ Cardinality(Active(e)) = 0
        BY <1>0, <4>1, FS_EmptySet DEF CounterMatches
      <4>3. pool'[e].current = 0 /\ pool'[e].status = "available" /\ twice'[e] = 0
            /\ Present(e)'
        BY <1>2, <3>1, <4>1 DEF AddToPool, Present
      <4> QED
        BY <2>1, <4>2, <4>3
    <3>2. CASE e \notin new
      <4>1. pool'[e] = pool[e] /\ twice'[e] = twice[e] /\ Present(e)' = Present(e)
        BY <1>2, <3>2 DEF AddToPool, Present
      <4> QED
        BY <1>0, <2>1, <4>1 DEF CounterMatches, ExhaustedHeld
    <3> QED
      BY <3>1, <3>2
  <2> QED
    BY <2>3, <2>4 DEF CounterMatches, ExhaustedHeld
<1>3. ASSUME NEW e \in Entries, Renew(e) PROVE Rest
  <2>1. /\ Present(e) /\ UNCHANGED <<alloc, release, twice>>
        /\ pool'[e].status = "active" /\ pool'[e].current = pool[e].current
        /\ \A f \in Entries : f # e => pool'[f] = pool[f]
    BY <1>3, <1>t DEF Renew, Row
  <2>2. \A f \in Entries : /\ Active(f)' = Active(f) /\ Present(f)' = Present(f)
                           /\ pool'[f].current = pool[f].current
    BY <2>1 DEF Active, Present
  <2>3. RowsHeld'
    BY <1>0, <1>t, <2>1, <2>2 DEF RowsHeld, Allocation
  <2>4. CounterMatches'
    BY <1>0, <2>1, <2>2 DEF CounterMatches
  <2>5. ExhaustedHeld'
    BY <1>0, <2>1, <2>2 DEF ExhaustedHeld
  <2> QED
    BY <2>3, <2>4, <2>5
<1>4. ASSUME NEW e \in Entries, Delete(e) PROVE Rest
  <2>1. /\ UNCHANGED <<release, twice>> /\ pool'[e].status = "deleted"
        /\ \A f \in Entries : f # e => pool'[f] = pool[f]
    BY <1>4, <1>t DEF Delete
  <2>2. \A i \in Ids :
          /\ alloc'[i].entry = alloc[i].entry
          /\ alloc'[i].status \in {alloc[i].status, "gone"}
          /\ alloc[i].entry # e => alloc'[i] = alloc[i]
          /\ alloc[i].entry = e => alloc'[i].status \notin {"active", "released"}
    BY <1>4, <1>t DEF Delete, Allocation
  <2>3. Active(e)' = {} /\ ~ Present(e)'
    BY <2>1, <2>2 DEF Active, Present
  <2>4. \A f \in Entries : f # e => Active(f)' = Active(f) /\ Present(f)' = Present(f)
    BY <2>1, <2>2 DEF Active, Present
  <2>5. RowsHeld'
    <3>1. \A l \in Releasers : release'[l] # NoId => alloc'[release'[l]].status # "unused"
      BY <1>0, <1>t, <2>1, <2>2 DEF RowsHeld
    <3>2. \A i \in Ids : alloc'[i].status \in {"active", "released"}
                            => Present(alloc[i].entry)' /\ alloc'[i].entry = alloc[i].entry
      BY <1>0, <1>t, <2>2, <2>4 DEF RowsHeld, Allocation
    <3>3. \A f \in Entries : pool'[f].status = "absent" => twice'[f] = 0
      BY <1>0, <2>1 DEF RowsHeld
    <3> QED
      BY <3>1, <3>2, <3>3 DEF RowsHeld, Present
  <2>6. CounterMatches' /\ ExhaustedHeld'
    BY <1>0, <2>1, <2>3, <2>4 DEF CounterMatches, ExhaustedHeld
  <2> QED
    BY <2>5, <2>6
<1>5. ASSUME NEW w \in Workers, NEW i \in Ids, AllocateItem(w, i) PROVE Rest
  <2>0. worker[w].pc = "allocate"
    BY <1>5 DEF AllocateItem
  <2>1. PICK e \in Entries :
          /\ e = Head(worker[w].plan).entry
          /\ NewStatus(Head(worker[w].plan)) \notin {"absent", "deleted"}
    BY <1>0, <2>0, HeadType
  <2>2. /\ Present(e) /\ UNCHANGED <<release, twice>>
        /\ pool'[e].status \notin {"absent", "deleted"}
        /\ pool'[e].current = pool[e].current + 1
        /\ \A f \in Entries : f # e => pool'[f] = pool[f]
    BY <1>5, <1>t, <2>1 DEF AllocateItem
  <2>3. /\ alloc[i].status = "unused"
        /\ alloc'[i].status = "active" /\ alloc'[i].entry = e
        /\ \A j \in Ids : j # i => alloc'[j] = alloc[j]
    BY <1>5, <1>t, <2>1 DEF AllocateItem
  <2>4. Active(e)' = Active(e) \cup {i} /\ i \notin Active(e)
    BY <2>3 DEF Active
  <2>5. \A f \in Entries : f # e => Active(f)' = Active(f)
    BY <2>3 DEF Active
  <2>6. \A f \in Entries : Present(f)' = Present(f)
    BY <2>2 DEF Present
  <2>7. RowsHeld'
    <3>1. \A l \in Releasers : release'[l] # NoId => alloc'[release'[l]].status # "unused"
      BY <1>0, <1>t, <2>2, <2>3 DEF RowsHeld
    <3>2. \A j \in Ids :
            alloc'[j].status \in {"active", "released"}
              => pool'[alloc'[j].entry].status \notin {"absent", "deleted"}
      <4> SUFFICES ASSUME NEW j \in Ids, alloc'[j].status \in {"active", "released"}
                   PROVE  pool'[alloc'[j].entry].status \notin {"absent", "deleted"}
        OBVIOUS
      <4>1. CASE j = i
        BY <2>2, <2>3, <4>1
      <4>2. CASE j # i
        BY <1>0, <1>t, <2>2, <2>3, <4>2 DEF RowsHeld, Present, Allocation
      <4> QED
        BY <4>1, <4>2
    <3>3. \A f \in Entries : pool'[f].status = "absent" => twice'[f] = 0
      BY <1>0, <2>2 DEF RowsHeld
    <3> QED
      BY <3>1, <3>2, <3>3 DEF RowsHeld, Present
  <2>8. Cardinality(Active(e)') = Cardinality(Active(e)) + 1
    BY <2>4, ActiveFinite, FS_AddElement
  <2>9. ASSUME NEW f \in Entries
        PROVE  /\ IF Present(f)' THEN pool'[f].current + twice'[f] = Cardinality(Active(f)')
                  ELSE Active(f)' = {}
               /\ pool'[f].status = "exhausted" => Active(f)' # {}
    <3>1. CASE f = e
      <4>1. pool[e].current + twice[e] = Cardinality(Active(e))
        BY <1>0, <2>1, <2>2 DEF CounterMatches
      <4>2. pool[e].current \in Int /\ twice[e] \in Nat
        BY <1>t, <2>1 DEF Row
      <4>3. pool'[e].current + twice'[e] = Cardinality(Active(e)')
        BY <2>2, <2>8, <4>1, <4>2
      <4> QED
        BY <2>2, <2>4, <2>6, <3>1, <4>3
    <3>2. CASE f # e
      BY <1>0, <2>2, <2>5, <2>6, <3>2 DEF CounterMatches, ExhaustedHeld
    <3> QED
      BY <3>1, <3>2
  <2> QED
    BY <2>7, <2>9 DEF CounterMatches, ExhaustedHeld
<1>6. ASSUME NEW l \in Releasers, Release(l) PROVE Rest
  <2>0. release[l] \in Ids /\ alloc[release[l]].entry \in Entries
    BY <1>6, <1>t DEF Release, Allocation
  <2>1. PICK i \in Ids, e \in Entries, again \in BOOLEAN :
          /\ i = release[l] /\ e = alloc[i].entry
          /\ again = (alloc[i].status = "released")
          /\ alloc[i].status \in {"active", "released"}
    <3>1. alloc[release[l]].status \in {"active", "released"}
      BY <1>0, <1>6, <1>t, <2>0 DEF Release, RowsHeld, Allocation
    <3> QED
      BY <2>0, <3>1
  <2>2. Present(e)
    BY <1>0, <2>1 DEF RowsHeld
  <2>3. /\ pool'[e].status = "available" /\ pool'[e].current = pool[e].current - 1
        /\ \A f \in Entries : f # e => pool'[f] = pool[f]
    BY <1>6, <1>t, <2>1 DEF Release
  <2>4. /\ alloc'[i].status = "released" /\ alloc'[i].entry = e
        /\ \A j \in Ids : j # i => alloc'[j] = alloc[j]
    BY <1>6, <1>t, <2>1 DEF Release, Allocation
  <2>5. /\ twice'[e] = twice[e] + IF again THEN 1 ELSE 0
        /\ \A f \in Entries : f # e => twice'[f] = twice[f]
    BY <1>6, <1>t, <2>1 DEF Release
  <2>6. \A m \in Releasers : release'[m] \in {release[m], NoId}
    BY <1>6, <1>t DEF Release
  <2>7. Active(e)' = Active(e) \ {i} /\ (i \in Active(e) <=> ~ again)
    BY <2>1, <2>4 DEF Active
  <2>8. \A f \in Entries : f # e => Active(f)' = Active(f)
    BY <2>1, <2>4 DEF Active
  <2>9. \A f \in Entries : Present(f)' = Present(f)
    BY <2>2, <2>3 DEF Present
  <2>10. RowsHeld'
    <3>1. \A m \in Releasers : release'[m] # NoId => alloc'[release'[m]].status # "unused"
      BY <1>0, <1>t, <2>4, <2>6 DEF RowsHeld
    <3>2. \A j \in Ids :
            alloc'[j].status \in {"active", "released"}
              => pool'[alloc'[j].entry].status \notin {"absent", "deleted"}
      <4> SUFFICES ASSUME NEW j \in Ids, alloc'[j].status \in {"active", "released"}
                   PROVE  pool'[alloc'[j].entry].status \notin {"absent", "deleted"}
        OBVIOUS
      <4>1. CASE j = i
        BY <2>3, <2>4, <4>1
      <4>2. CASE j # i
        BY <1>0, <1>t, <2>3, <2>4, <4>2 DEF RowsHeld, Present, Allocation
      <4> QED
        BY <4>1, <4>2
    <3>3. \A f \in Entries : pool'[f].status = "absent" => twice'[f] = 0
      BY <1>0, <2>3, <2>5 DEF RowsHeld
    <3> QED
      BY <3>1, <3>2, <3>3 DEF RowsHeld, Present
  <2>11. Cardinality(Active(e)') = Cardinality(Active(e)) - (IF again THEN 0 ELSE 1)
    <3>1. Cardinality(Active(e)') = IF i \in Active(e) THEN Cardinality(Active(e)) - 1
                                    ELSE Cardinality(Active(e))
      BY <2>7, ActiveFinite, FS_RemoveElement
    <3>2. Cardinality(Active(e)) \in Nat
      BY ActiveFinite
    <3> QED
      BY <2>7, <3>1, <3>2
  <2>12. ASSUME NEW f \in Entries
        PROVE  /\ IF Present(f)' THEN pool'[f].current + twice'[f] = Cardinality(Active(f)')
                  ELSE Active(f)' = {}
               /\ pool'[f].status = "exhausted" => Active(f)' # {}
    <3>1. CASE f = e
      <4>1. pool[e].current + twice[e] = Cardinality(Active(e))
        BY <1>0, <2>1, <2>2 DEF CounterMatches
      <4>2. pool[e].current \in Int /\ twice[e] \in Nat
        BY <1>t, <2>1 DEF Row
      <4>3. pool'[e].current + twice'[e] = Cardinality(Active(e)')
        BY <2>3, <2>5, <2>11, <4>1, <4>2
      <4> QED
        BY <2>2, <2>3, <2>9, <3>1, <4>3
    <3>2. CASE f # e
      BY <1>0, <2>3, <2>5, <2>8, <2>9, <3>2 DEF CounterMatches, ExhaustedHeld
    <3> QED
      BY <3>1, <3>2
  <2> QED
    BY <2>10, <2>12 DEF CounterMatches, ExhaustedHeld
<1> QED
  BY <1>0, <1>1, <1>2, <1>3, <1>4, <1>5, <1>6, FiveOrApart DEF CounterInv

\* The counter of a row tells how many allocations are active, up to the
\* releases that came twice (allocate, createOrder, release and deleteFromPool).
THEOREM CounterCorrect == Spec => []CounterMatches
<1>1. Spec => []CounterInv
  BY CounterInit, CounterStep, PTL DEF Spec
<1>2. CounterInv => CounterMatches
  BY DEF CounterInv
<1> QED
  BY <1>1, <1>2, PTL

\* A row that nobody holds can be sold (the statuses that allocate and release
\* write, against the rows that allocate looks for).
THEOREM FreeCorrect == Spec => []FreeIsAllocatable
<1>1. Spec => []CounterInv
  BY CounterInit, CounterStep, PTL DEF Spec
<1>2. CounterInv => FreeIsAllocatable
  <2> SUFFICES ASSUME CounterInv, NEW e \in Entries,
                      Present(e), Active(e) = {}, pool[e].status # "active"
               PROVE  e \in Allocatable
    BY DEF FreeIsAllocatable
  <2>1. /\ pool[e].status \in RowStatus /\ pool[e].current \in Int
        /\ twice[e] \in Nat
    BY DEF CounterInv, TypeInv, TypeOK, Row
  <2>2. pool[e].status \in {"available", "allocated"}
    BY <2>1 DEF CounterInv, ExhaustedHeld, Present, RowStatus
  <2>3. pool[e].current + twice[e] = 0
    BY FS_EmptySet DEF CounterInv, CounterMatches
  <2>4. pool[e].current < MaxAllocations[e]
    BY <2>1, <2>3, EntriesAssumption
  <2> QED
    BY <2>2, <2>4 DEF Allocatable
<1> QED
  BY <1>1, <1>2, PTL

-----------------------------------------------------------------------------
(* Overselling.                                                            *)

SaleInv == CounterInv /\ PendingFits

LEMMA PendingFinite ==
    ASSUME NEW e
    PROVE  /\ IsFiniteSet(Pending(e)) /\ Cardinality(Pending(e)) \in Nat
           /\ Cardinality(Workers) \in Nat /\ Cardinality(Workers) >= 1
           /\ Cardinality(Pending(e)) <= Cardinality(Workers)
<1>1. Pending(e) \in SUBSET Workers
  BY DEF Pending
<1>2. IsFiniteSet(Pending(e)) /\ Cardinality(Pending(e)) <= Cardinality(Workers)
  BY <1>1, WorkersAssumption, FS_Subset
<1>3. Cardinality(Workers) \in Nat /\ Cardinality(Workers) # 0
  BY WorkersAssumption, FS_CardinalityType, FS_EmptySet
<1> QED
  BY <1>2, <1>3, FS_CardinalityType

LEMMA SaleInit == Init => SaleInv
<1> SUFFICES ASSUME Init PROVE SaleInv
  OBVIOUS
<1>1. \A e \in Entries : pool[e].current = 0
  BY DEF Init
<1>2. \A e \in Entries : MaxAllocations[e] \in Nat /\ MaxAllocations[e] >= 1
  BY EntriesAssumption
<1>3. PendingFits
  BY <1>1, <1>2, PendingFinite DEF PendingFits
<1> QED
  BY <1>3, CounterInit DEF SaleInv

LEMMA SaleStep == SaleInv /\ [Next]_vars => SaleInv'
<1> SUFFICES ASSUME SaleInv, [Next]_vars PROVE SaleInv'
  OBVIOUS
<1>0. CounterInv /\ PendingFits /\ TypeInv /\ CounterInv' /\ TypeInv'
  BY CounterStep DEF SaleInv, CounterInv
<1>t. /\ pool \in [Entries -> Row] /\ pool' \in [Entries -> Row]
      /\ worker \in [Workers -> Purchase]
      /\ alloc \in [Ids -> Allocation] /\ release \in [Releasers -> Ids \cup {NoId}]
  BY <1>0 DEF TypeInv, TypeOK
<1>m. \A e \in Entries : MaxAllocations[e] \in Nat /\ MaxAllocations[e] >= 1
  BY EntriesAssumption
<1>c. \A e \in Entries : pool[e].current \in Int /\ pool'[e].current \in Int
  BY <1>t DEF Row
<1>p. \A e : /\ IsFiniteSet(Pending(e)) /\ Cardinality(Pending(e)) \in Nat
             /\ Cardinality(Workers) \in Nat /\ Cardinality(Workers) >= 1
             /\ Cardinality(Pending(e)) <= Cardinality(Workers)
  BY PendingFinite
<1>q. \A e : /\ Cardinality(Pending(e)') \in Nat
             /\ Cardinality(Pending(e)') <= Cardinality(Workers)
  <2> SUFFICES ASSUME NEW e
               PROVE  /\ Cardinality(Pending(e)') \in Nat
                      /\ Cardinality(Pending(e)') <= Cardinality(Workers)
    OBVIOUS
  <2>1. Pending(e)' \in SUBSET Workers
    BY DEF Pending
  <2> QED
    BY <2>1, WorkersAssumption, FS_Subset, FS_CardinalityType
\* The purchases leave what is to sell of a row as it is, or it was below its limit.
<1>1. ASSUME NEW e \in Entries, pool'[e].current <= pool[e].current,
             Pending(e)' \subseteq Pending(e) \/ pool[e].current < MaxAllocations[e]
      PROVE  pool'[e].current + Cardinality(Pending(e)')
               <= MaxAllocations[e] + Cardinality(Workers) - 1
  <2>1. CASE Pending(e)' \subseteq Pending(e)
    <3>1. Cardinality(Pending(e)') <= Cardinality(Pending(e))
      BY <1>p, <2>1, FS_Subset
    <3>2. pool[e].current + Cardinality(Pending(e))
            <= MaxAllocations[e] + Cardinality(Workers) - 1
      BY <1>0 DEF PendingFits
    <3> QED
      BY <1>1, <1>c, <1>m, <1>p, <1>q, <3>1, <3>2
  <2>2. CASE pool[e].current < MaxAllocations[e]
    <3>1. /\ pool[e].current \in Int /\ pool'[e].current \in Int
          /\ MaxAllocations[e] \in Nat
      BY <1>c, <1>m
    <3>2. /\ Cardinality(Pending(e)') \in Nat /\ Cardinality(Workers) \in Nat
          /\ Cardinality(Pending(e)') <= Cardinality(Workers)
      BY <1>p, <1>q
    <3> QED
      BY <1>1, <2>2, <3>1, <3>2
  <2> QED
    BY <1>1, <2>1, <2>2
\* A row that was added or deleted starts from nothing.
<1>2. ASSUME NEW e \in Entries, pool'[e].current = 0
      PROVE  pool'[e].current + Cardinality(Pending(e)')
               <= MaxAllocations[e] + Cardinality(Workers) - 1
  BY <1>2, <1>m, <1>p, <1>q
<1>3. ASSUME UNCHANGED worker
      PROVE  \A e : Pending(e)' = Pending(e)
  BY <1>3 DEF Pending
<1>4. ASSUME NEW new \in SUBSET Entries, AddToPool(new) PROVE PendingFits'
  <2>1. \A e \in Entries : pool'[e] = pool[e] \/ pool'[e].current = 0
    BY <1>4 DEF AddToPool
  <2>2. \A e : Pending(e)' = Pending(e)
    BY <1>3, <1>4 DEF AddToPool
  <2> QED
    BY <1>0, <1>2, <2>1, <2>2 DEF PendingFits
<1>5. ASSUME NEW e \in Entries, Renew(e) \/ CheckDelete(e) PROVE PendingFits'
  <2>1. \A f \in Entries : pool'[f].current = pool[f].current
    BY <1>5, <1>t DEF Renew, CheckDelete, Row
  <2>2. \A f : Pending(f)' = Pending(f)
    BY <1>3, <1>5 DEF Renew, CheckDelete
  <2> QED
    BY <1>0, <2>1, <2>2 DEF PendingFits
<1>6. ASSUME NEW e \in Entries, Delete(e) PROVE PendingFits'
  <2>1. \A f \in Entries : pool'[f] = pool[f] \/ pool'[f].current = 0
    BY <1>6, <1>t DEF Delete
  <2>2. \A f : Pending(f)' = Pending(f)
    BY <1>3, <1>6 DEF Delete
  <2> QED
    BY <1>0, <1>2, <2>1, <2>2 DEF PendingFits
<1>7. ASSUME NEW l \in Releasers, ReleaseStep(l) PROVE PendingFits'
  <2>1. \A e : Pending(e)' = Pending(e)
    BY <1>3, <1>7 DEF ReleaseStep, Lookup, Release, ReleaseDies
  <2>2. \A e \in Entries : pool'[e].current <= pool[e].current
    <3>1. CASE Release(l)
      <4>1. release[l] \in Ids /\ alloc[release[l]].entry \in Entries
        BY <1>t, <3>1 DEF Release, Allocation
      <4>2. \A e \in Entries : \/ pool'[e] = pool[e]
                               \/ pool'[e].current = pool[e].current - 1
        BY <1>t, <3>1, <4>1 DEF Release
      <4> QED
        BY <1>c, <4>2
    <3>2. CASE ~ Release(l)
      BY <1>7, <1>c, <3>2 DEF ReleaseStep, Lookup, ReleaseDies
    <3> QED
      BY <3>1, <3>2
  <2> QED
    BY <1>1, <2>1, <2>2 DEF PendingFits
<1>8. ASSUME NEW w \in Workers, NEW i \in Ids, AllocateItem(w, i) PROVE PendingFits'
  <2>1. /\ worker[w].pc = "allocate"
        /\ worker' = [worker EXCEPT ![w] = Relaying(w, i)]
    BY <1>8 DEF AllocateItem, Relaying
  <2>2. PICK e \in Entries :
          /\ e = Head(worker[w].plan).entry
          /\ \A f : ToSell(Relaying(w, i), f) => ToSell(worker[w], f) /\ f # e
          /\ ToSell(worker[w], e)
    BY <1>0, <2>1, RelayingGood, HeadType
  <2>3. worker'[w] = Relaying(w, i) /\ \A v \in Workers : v # w => worker'[v] = worker[v]
    BY <1>t, <2>1
  <2>4. w \in Pending(e) /\ Pending(e)' \subseteq Pending(e) \ {w}
    BY <2>2, <2>3 DEF Pending
  <2>5. \A f : Pending(f)' \subseteq Pending(f)
    BY <2>2, <2>3 DEF Pending
  <2>6. /\ pool'[e].current = pool[e].current + 1
        /\ \A f \in Entries : f # e => pool'[f] = pool[f]
    BY <1>8, <1>t, <2>2 DEF AllocateItem
  <2>7. Cardinality(Pending(e)') <= Cardinality(Pending(e)) - 1
    <3>1. /\ IsFiniteSet(Pending(e) \ {w})
          /\ Cardinality(Pending(e) \ {w}) = Cardinality(Pending(e)) - 1
      BY <1>p, <2>4, FS_RemoveElement
    <3>2. Cardinality(Pending(e)') <= Cardinality(Pending(e) \ {w})
      BY <2>4, <3>1, FS_Subset
    <3> QED
      BY <3>1, <3>2
  <2>8. pool'[e].current + Cardinality(Pending(e)')
          <= MaxAllocations[e] + Cardinality(Workers) - 1
    <3>1. pool[e].current + Cardinality(Pending(e))
            <= MaxAllocations[e] + Cardinality(Workers) - 1
      BY <1>0, <2>2 DEF PendingFits
    <3> QED
      BY <1>c, <1>m, <1>p, <1>q, <2>2, <2>6, <2>7, <3>1
  <2>9. \A f \in Entries : f # e =>
          pool'[f].current + Cardinality(Pending(f)')
            <= MaxAllocations[f] + Cardinality(Workers) - 1
    BY <1>1, <1>c, <2>5, <2>6
  <2> QED
    BY <2>8, <2>9 DEF PendingFits
<1>9. ASSUME NEW w \in Workers, PurchaseStep(w), \A i \in Ids : ~ AllocateItem(w, i)
      PROVE  PendingFits'
  <2>1. PICK p : /\ worker' = [worker EXCEPT ![w] = p]
                 /\ \A e : ToSell(p, e) => e \in Allocatable \/ ToSell(worker[w], e)
    BY <1>0, <1>9, PurchaseMoves
  <2>2. worker'[w] = p /\ \A v \in Workers : v # w => worker'[v] = worker[v]
    BY <1>t, <2>1
  <2>3. UNCHANGED pool
    BY <1>9 DEF PurchaseStep, Allocate, CreateOrder, Begin, CreateRelay, Complete,
                PurchaseDies
  <2>4. \A e \in Entries :
          Pending(e)' \subseteq Pending(e) \/ pool[e].current < MaxAllocations[e]
    <3> SUFFICES ASSUME NEW e \in Entries, ~ (pool[e].current < MaxAllocations[e])
                 PROVE  Pending(e)' \subseteq Pending(e)
      OBVIOUS
    <3>1. ToSell(p, e) => ToSell(worker[w], e)
      BY <2>1 DEF Allocatable
    <3> QED
      BY <2>2, <3>1 DEF Pending
  <2> QED
    BY <1>1, <1>c, <2>3, <2>4 DEF PendingFits
<1>10. ASSUME UNCHANGED vars PROVE PendingFits'
  <2>1. UNCHANGED pool /\ \A e : Pending(e)' = Pending(e)
    BY <1>3, <1>10 DEF vars
  <2> QED
    BY <1>0, <2>1 DEF PendingFits
<1> QED
  BY <1>0, <1>4, <1>5, <1>6, <1>7, <1>8, <1>9, <1>10 DEF Next, SaleInv

\* Racing purchases oversell a row by less than one sale each, however many
\* they make in a row (allocate and createOrder choose from rows that they read
\* before their transactions).
THEOREM OversellCorrect == Spec => []OversellBounded
<1>1. Spec => []SaleInv
  BY SaleInit, SaleStep, PTL DEF Spec
<1>2. SaleInv => OversellBounded
  <2> SUFFICES ASSUME SaleInv, NEW e \in Entries
               PROVE  Cardinality(Active(e))
                        <= MaxAllocations[e] + (Cardinality(Workers) - 1) + twice[e]
    BY DEF OversellBounded
  <2>1. /\ pool[e].current \in Int /\ twice[e] \in Nat /\ MaxAllocations[e] \in Nat
        /\ MaxAllocations[e] >= 1
    BY EntriesAssumption DEF SaleInv, CounterInv, TypeInv, TypeOK, Row
  <2>2. /\ Cardinality(Pending(e)) \in Nat
        /\ Cardinality(Workers) \in Nat /\ Cardinality(Workers) >= 1
    BY PendingFinite
  <2>3. CASE Present(e)
    <3>1. pool[e].current + twice[e] = Cardinality(Active(e))
      BY <2>3 DEF SaleInv, CounterInv, CounterMatches
    <3>2. pool[e].current + Cardinality(Pending(e))
            <= MaxAllocations[e] + Cardinality(Workers) - 1
      BY DEF SaleInv, PendingFits
    <3> QED
      BY <2>1, <2>2, <3>1, <3>2
  <2>4. CASE ~ Present(e)
    <3>1. Cardinality(Active(e)) = 0
      BY <2>4, FS_EmptySet DEF SaleInv, CounterInv, CounterMatches
    <3> QED
      BY <2>1, <2>2, <3>1
  <2> QED
    BY <2>3, <2>4
<1> QED
  BY <1>1, <1>2, PTL
-----------------------------------------------------------------------------
(* Orders.                                                                 *)

Items(o) == {i \in Ids : alloc[i].order = o}

\* What CompletedInFull asks of each item.
Supplied(i) == alloc[i].relay \/ alloc[i].status = "gone"

\* The allocations that purchase p has still to make.
ToGo(p) ==
    IF p.pc = "allocate" THEN Len(p.plan)
    ELSE IF p.pc = "relay" THEN Len(p.plan) - 1 ELSE 0

\* An allocation is given to an order when it is made, and never before; an order
\* that was not placed has none.
Unspoken ==
    /\ \A i \in Ids : alloc[i].status = "unused" => alloc[i].order = NoOrder
    /\ \A o \in Orders : order[o].status = "none" => Items(o) = {}

\* No two purchases work on an order.
OneBuyer ==
    /\ \A w \in Workers : worker[w].pc = "idle" => worker[w].order = NoOrder
    /\ \A v, w \in Workers :
          worker[v].order = worker[w].order /\ worker[w].order # NoOrder => v = w

\* What an order has and what its purchase is still to make add up to what it
\* was placed for, and the one item without a relay is the one in hand.
InHand ==
    \A w \in Workers, o \in Orders : worker[w].order = o =>
        /\ order[o].status = "processing"
        /\ Cardinality(Items(o)) + ToGo(worker[w]) = order[o].quantity
        /\ \A i \in Items(o) :
              Supplied(i) \/ (worker[w].pc = "relay" /\ worker[w].id = i)

OrderInv == TypeInv /\ Unspoken /\ OneBuyer /\ InHand /\ CompletedInFull

\* The items of an order are finitely many.
LEMMA ItemsFinite == \A o : IsFiniteSet(Items(o)) /\ Cardinality(Items(o)) \in Nat
<1> TAKE o
<1>1. Items(o) \subseteq Ids
  BY DEF Items
<1> QED
  BY <1>1, IdsAssumption, FS_Subset, FS_CardinalityType

\* The pool's operator, the releases and the deletion of a row leave orders and
\* purchases alone; an allocation keeps its order and stays supplied.
LEMMA OrdersUntouched ==
    ASSUME OrderInv,
           UNCHANGED <<order, worker>>,
           \A i \in Ids : /\ alloc'[i].order = alloc[i].order
                          /\ Supplied(i) => Supplied(i)'
                          /\ alloc'[i].status = "unused" => alloc[i].status = "unused"
    PROVE  (Unspoken /\ OneBuyer /\ InHand /\ CompletedInFull)'
<1>1. \A o : Items(o)' = Items(o)
  BY DEF Items
<1>2. Unspoken'
  BY <1>1 DEF OrderInv, Unspoken
<1>3. OneBuyer'
  BY DEF OrderInv, OneBuyer
<1>4. InHand'
  <2> SUFFICES ASSUME NEW w \in Workers, NEW o \in Orders, worker'[w].order = o
               PROVE  /\ order'[o].status = "processing"
                      /\ Cardinality(Items(o)') + ToGo(worker'[w]) = order'[o].quantity
                      /\ \A i \in Items(o)' :
                           Supplied(i)' \/ (worker'[w].pc = "relay" /\ worker'[w].id = i)
    BY DEF InHand, ToGo
  <2>1. /\ order[o].status = "processing"
        /\ Cardinality(Items(o)) + ToGo(worker[w]) = order[o].quantity
        /\ \A i \in Items(o) :
              Supplied(i) \/ (worker[w].pc = "relay" /\ worker[w].id = i)
    BY DEF OrderInv, InHand
  <2>2. Items(o)' = Items(o) /\ \A i \in Items(o) : Supplied(i) => Supplied(i)'
    BY <1>1 DEF Items
  <2> QED
    BY <2>1, <2>2
<1>5. CompletedInFull'
  <2> SUFFICES ASSUME NEW o \in Orders, order'[o].status = "completed"
               PROVE  /\ Cardinality(Items(o)') = order'[o].quantity
                      /\ \A i \in Items(o)' : Supplied(i)'
    BY DEF CompletedInFull, Items, Supplied
  <2>1. Cardinality(Items(o)) = order[o].quantity /\ \A i \in Items(o) : Supplied(i)
    BY DEF OrderInv, CompletedInFull, Items, Supplied
  <2> QED
    BY <1>1, <2>1 DEF Items
<1> QED
  BY <1>2, <1>3, <1>4, <1>5

\* A purchase that begins: a plain one is for no order, one for an order has the
\* order's quantity to make and finds it without items.
LEMMA BeginOrder ==
    ASSUME OrderInv, NEW w \in Workers, NEW q \in 1..MaxQuantity,
           Allocate(w, q) \/ \E o \in Orders : CreateOrder(w, q, o)
    PROVE  (Unspoken /\ OneBuyer /\ InHand /\ CompletedInFull)'
<1>1. PICK o \in Orders \cup {NoOrder} :
        /\ Begin(w, q, o)
        /\ o = NoOrder => order' = order
        /\ o # NoOrder => /\ order[o].status = "none"
                          /\ order' = [order EXCEPT ![o] = [status |-> "processing",
                                                            quantity |-> q]]
  BY OrdersAssumption DEF Allocate, CreateOrder
<1>2. PICK s \in Plans(q) : worker' = [worker EXCEPT ![w] = Planned(s, q, o)]
  BY <1>1 DEF Begin, Planned
<1>3. alloc' = alloc
  BY <1>1 DEF Begin
<1>4. /\ Planned(s, q, o).pc = "allocate" /\ Planned(s, q, o).order = o
      /\ ToGo(Planned(s, q, o)) = q
  <2>1. q \in Nat
    BY BoundsAssumption
  <2>2. Len([m \in 1..q |-> [entry |-> s[m], current |-> pool[s[m]].current]]) = q
    BY <2>1
  <2> QED
    BY <2>2 DEF Planned, At, ToGo
<1> HIDE DEF Planned
<1>5. /\ TypeInv /\ Unspoken /\ OneBuyer /\ InHand /\ CompletedInFull
      /\ worker \in [Workers -> Purchase]
      /\ order \in [Orders -> [status : {"none", "processing", "completed"},
                               quantity : 0..MaxQuantity]]
  BY DEF OrderInv, TypeInv, TypeOK
<1>6. \A i : Items(i)' = Items(i)
  BY <1>3 DEF Items
<1>7. \A v \in Workers : v # w => worker'[v] = worker[v]
  BY <1>2, <1>5
<1>8. worker'[w] = Planned(s, q, o)
  BY <1>2, <1>5
<1>9. \A v \in Workers : o # NoOrder => worker[v].order # o
  BY <1>1, <1>5 DEF InHand
<1>10. Unspoken'
  BY <1>1, <1>3, <1>5, <1>6 DEF Unspoken
<1>11. OneBuyer'
  BY <1>4, <1>5, <1>7, <1>8, <1>9 DEF OneBuyer
<1>12. InHand'
  <2> SUFFICES ASSUME NEW v \in Workers, NEW x \in Orders, worker'[v].order = x
               PROVE  /\ order'[x].status = "processing"
                      /\ Cardinality(Items(x)') + ToGo(worker'[v]) = order'[x].quantity
                      /\ \A i \in Items(x)' :
                           Supplied(i)' \/ (worker'[v].pc = "relay" /\ worker'[v].id = i)
    BY DEF InHand, ToGo
  <2>1. CASE v = w
    <3>1. x = o /\ o # NoOrder
      BY <1>4, <1>8, <2>1, OrdersAssumption
    <3>2. Items(o) = {} /\ Cardinality(Items(o)) = 0
      BY <1>1, <1>5, <3>1, FS_EmptySet DEF Unspoken
    <3>3. order'[o].status = "processing" /\ order'[o].quantity = q
      BY <1>1, <1>5, <3>1
    <3> QED
      BY <1>4, <1>6, <1>8, <2>1, <3>1, <3>2, <3>3
  <2>2. CASE v # w
    <3>1. x # o \/ o = NoOrder
      BY <1>7, <1>9, <2>2
    <3>2. order'[x] = order[x]
      BY <1>1, <1>5, <3>1
    <3> QED
      BY <1>3, <1>5, <1>6, <1>7, <2>2, <3>2 DEF InHand, Supplied
  <2> QED
    BY <2>1, <2>2
<1>13. CompletedInFull'
  BY <1>1, <1>3, <1>5 DEF CompletedInFull
<1> QED
  BY <1>10, <1>11, <1>12, <1>13

\* What a purchase does next leaves it as much to go as it had, less the row in
\* hand, and at the end it has nothing to go.
LEMMA AfterItemToGo ==
    ASSUME TypeInv, NEW w \in Workers, worker[w].pc \in {"allocate", "relay"}
    PROVE  /\ AfterItem(w).pc # "relay"
           /\ AfterItem(w).order = worker[w].order
           /\ AfterItem(w).pc = "idle" => worker[w].order = NoOrder
           /\ worker[w].order # NoOrder =>
                 ToGo(AfterItem(w)) = Len(worker[w].plan) - 1
           /\ Len(worker[w].plan) \in Nat
<1>1. worker[w].plan \in Seq(Item) /\ worker[w].plan # <<>>
  BY DEF TypeInv, GoodPurchases, Good, Purchase, Item
<1>2. /\ Tail(worker[w].plan) \in Seq(Item)
      /\ Len(Tail(worker[w].plan)) = Len(worker[w].plan) - 1
      /\ Len(worker[w].plan) \in Nat /\ Len(worker[w].plan) > 0
  BY <1>1, HeadTailProperties
<1>3. CASE Len(worker[w].plan) > 1
  BY <1>2, <1>3 DEF AfterItem, At, ToGo
<1>4. CASE ~(Len(worker[w].plan) > 1)
  BY <1>2, <1>4 DEF AfterItem, At, ToGo, Idle
<1> QED
  BY <1>3, <1>4

\* An allocation is one of its order's items more and one to go less, and it is
\* the item in hand.
LEMMA AllocateOrder ==
    ASSUME OrderInv, NEW w \in Workers, NEW j \in Ids, AllocateItem(w, j)
    PROVE  (Unspoken /\ OneBuyer /\ InHand /\ CompletedInFull)'
<1>0. PICK o : o = worker[w].order
  OBVIOUS
<1>1. /\ TypeInv /\ Unspoken /\ OneBuyer /\ InHand /\ CompletedInFull
      /\ worker \in [Workers -> Purchase] /\ alloc \in [Ids -> Allocation]
      /\ o \in Orders \cup {NoOrder}
  BY <1>0 DEF OrderInv, TypeInv, TypeOK, Purchase
<1>2. /\ worker[w].pc = "allocate" /\ alloc[j].status = "unused" /\ order' = order
      /\ worker' = [worker EXCEPT ![w] = Relaying(w, j)]
      /\ alloc' = [alloc EXCEPT ![j] = [status |-> "active",
                      entry |-> Head(worker[w].plan).entry, order |-> o, relay |-> FALSE]]
  BY <1>0 DEF AllocateItem, Relaying
<1>3. alloc[j].order = NoOrder
  BY <1>1, <1>2 DEF Unspoken
<1>4. /\ alloc'[j].order = o /\ alloc'[j].status = "active"
      /\ \A i \in Ids : i # j => alloc'[i] = alloc[i]
  BY <1>1, <1>2
<1>5. \A x \in Orders : /\ x # o => Items(x)' = Items(x)
                        /\ x = o => Items(x)' = Items(x) \cup {j} /\ j \notin Items(x)
  BY <1>3, <1>4, OrdersAssumption DEF Items
<1>6. /\ \A v \in Workers : v # w => worker'[v] = worker[v]
      /\ worker'[w] = Relaying(w, j)
  BY <1>1, <1>2
<1>7. /\ Relaying(w, j).order = o
      /\ Relaying(w, j).pc = "idle" => o = NoOrder
      /\ o # NoOrder => /\ Relaying(w, j).pc = "relay" /\ Relaying(w, j).id = j
                        /\ ToGo(Relaying(w, j)) = ToGo(worker[w]) - 1
                        /\ ToGo(worker[w]) \in Nat
  BY <1>0, <1>1, <1>2, AfterItemToGo DEF Relaying, ToGo
<1>8. \A x \in Orders : Cardinality(Items(x)) \in Nat /\ IsFiniteSet(Items(x))
  BY ItemsFinite
<1>9. o \in Orders => Cardinality(Items(o)') = Cardinality(Items(o)) + 1
  BY <1>5, <1>8, FS_AddElement
<1>10. o \in Orders => order[o].status = "processing"
  BY <1>0, <1>1 DEF InHand
<1>11. Unspoken'
  BY <1>1, <1>2, <1>4, <1>5, <1>10 DEF Unspoken
<1>12. OneBuyer'
  <2>1. \A v \in Workers : worker'[v].order = worker[v].order
    BY <1>0, <1>6, <1>7
  <2>2. \A v \in Workers : worker'[v].pc = "idle" => worker'[v].order = NoOrder
    BY <1>0, <1>1, <1>6, <1>7 DEF OneBuyer
  <2> QED
    BY <1>1, <2>1, <2>2 DEF OneBuyer
<1>13. InHand'
  <2> SUFFICES ASSUME NEW v \in Workers, NEW x \in Orders, worker'[v].order = x
               PROVE  /\ order'[x].status = "processing"
                      /\ Cardinality(Items(x)') + ToGo(worker'[v]) = order'[x].quantity
                      /\ \A i \in Items(x)' :
                           Supplied(i)' \/ (worker'[v].pc = "relay" /\ worker'[v].id = i)
    BY DEF InHand, ToGo
  <2>1. CASE v = w
    <3>1. x = o /\ o # NoOrder
      BY <1>6, <1>7, <2>1, OrdersAssumption
    <3>2. /\ order[o].status = "processing"
          /\ Cardinality(Items(o)) + ToGo(worker[w]) = order[o].quantity
          /\ \A i \in Items(o) : Supplied(i)
      BY <1>0, <1>1, <1>2, <3>1 DEF InHand
    <3>3. Cardinality(Items(o)') + ToGo(worker'[w]) = order[o].quantity
      BY <1>6, <1>7, <1>8, <1>9, <3>1, <3>2
    <3>4. \A i \in Items(o)' : i = j \/ Supplied(i)'
      BY <1>4, <1>5, <3>1, <3>2 DEF Supplied, Items
    <3> QED
      BY <1>2, <1>6, <1>7, <2>1, <3>1, <3>2, <3>3, <3>4
  <2>2. CASE v # w
    <3>1. worker'[v] = worker[v] /\ x # NoOrder
      BY <1>6, <2>2, OrdersAssumption
    <3>2. x # o
      BY <1>0, <1>1, <2>2, <3>1 DEF OneBuyer
    <3>3. \A i \in Items(x) : Supplied(i) => Supplied(i)'
      BY <1>3, <1>4, <3>1 DEF Items, Supplied
    <3> QED
      BY <1>1, <1>2, <1>5, <3>1, <3>2, <3>3 DEF InHand
  <2> QED
    BY <2>1, <2>2
<1>14. CompletedInFull'
  <2> SUFFICES ASSUME NEW x \in Orders, order'[x].status = "completed"
               PROVE  /\ Cardinality(Items(x)') = order'[x].quantity
                      /\ \A i \in Items(x)' : Supplied(i)'
    BY DEF CompletedInFull, Items, Supplied
  <2>1. Cardinality(Items(x)) = order[x].quantity /\ \A i \in Items(x) : Supplied(i)
    BY <1>1, <1>2 DEF CompletedInFull, Items, Supplied
  <2>2. x # o /\ x # NoOrder
    BY <1>2, <1>10, OrdersAssumption
  <2> QED
    <3>1. Items(x)' = Items(x) /\ j \notin Items(x)
      BY <1>3, <1>5, <2>2 DEF Items
    <3>2. \A i \in Items(x) : alloc'[i] = alloc[i]
      BY <1>4, <3>1 DEF Items
    <3> QED
      BY <1>2, <2>1, <3>1, <3>2 DEF Supplied
<1> QED
  BY <1>11, <1>12, <1>13, <1>14

\* The relay supplies the item in hand.
LEMMA RelayOrder ==
    ASSUME OrderInv, NEW w \in Workers, CreateRelay(w)
    PROVE  (Unspoken /\ OneBuyer /\ InHand /\ CompletedInFull)'
<1>0. PICK o, j : o = worker[w].order /\ j = worker[w].id
  OBVIOUS
<1>1. /\ TypeInv /\ Unspoken /\ OneBuyer /\ InHand /\ CompletedInFull
      /\ worker \in [Workers -> Purchase] /\ alloc \in [Ids -> Allocation]
  BY DEF OrderInv, TypeInv, TypeOK
<1>2. /\ worker[w].pc = "relay" /\ order' = order
      /\ worker' = [worker EXCEPT ![w] = AfterItem(w)]
      /\ alloc' = [alloc EXCEPT ![j].relay = TRUE]
  BY <1>0 DEF CreateRelay
<1>3. o \in Orders /\ o # NoOrder /\ j \in Ids
  BY <1>0, <1>1, <1>2, IdsAssumption DEF TypeInv, GoodPurchases, Good, Purchase
<1>4. /\ \A i \in Ids : /\ alloc'[i].order = alloc[i].order
                        /\ alloc'[i].status = alloc[i].status
                        /\ Supplied(i) => Supplied(i)'
      /\ Supplied(j)'
  BY <1>1, <1>2, <1>3 DEF Allocation, Supplied
<1>5. \A x : Items(x)' = Items(x)
  BY <1>4 DEF Items
<1>6. /\ \A v \in Workers : v # w => worker'[v] = worker[v]
      /\ worker'[w] = AfterItem(w)
  BY <1>1, <1>2
<1>7. /\ AfterItem(w).order = o /\ AfterItem(w).pc # "idle"
      /\ ToGo(AfterItem(w)) = ToGo(worker[w])
  BY <1>0, <1>1, <1>2, <1>3, AfterItemToGo DEF ToGo
<1>8. Unspoken'
  BY <1>1, <1>2, <1>4, <1>5 DEF Unspoken
<1>9. OneBuyer'
  <2>1. \A v \in Workers : worker'[v].order = worker[v].order
    BY <1>0, <1>6, <1>7
  <2>2. \A v \in Workers : worker'[v].pc = "idle" => worker'[v].order = NoOrder
    BY <1>1, <1>6, <1>7 DEF OneBuyer
  <2> QED
    BY <1>1, <2>1, <2>2 DEF OneBuyer
<1>10. InHand'
  <2> SUFFICES ASSUME NEW v \in Workers, NEW x \in Orders, worker'[v].order = x
               PROVE  /\ order'[x].status = "processing"
                      /\ Cardinality(Items(x)') + ToGo(worker'[v]) = order'[x].quantity
                      /\ \A i \in Items(x)' :
                           Supplied(i)' \/ (worker'[v].pc = "relay" /\ worker'[v].id = i)
    BY DEF InHand, ToGo
  <2>1. worker[v].order = x /\ ToGo(worker'[v]) = ToGo(worker[v])
    <3>1. CASE v = w
      BY <1>0, <1>6, <1>7, <3>1
    <3>2. CASE v # w
      <4>1. worker'[v] = worker[v]
        BY <1>6, <3>2
      <4> QED
        BY <4>1 DEF ToGo
    <3> QED
      BY <3>1, <3>2
  <2>2. /\ order[x].status = "processing"
        /\ Cardinality(Items(x)) + ToGo(worker[v]) = order[x].quantity
        /\ \A i \in Items(x) : Supplied(i) \/ (worker[v].pc = "relay" /\ worker[v].id = i)
    BY <1>1, <2>1 DEF InHand
  <2>3. \A i \in Items(x) :
           Supplied(i)' \/ (worker'[v].pc = "relay" /\ worker'[v].id = i)
    BY <1>0, <1>4, <1>6, <2>2 DEF Items
  <2> QED
    BY <1>2, <1>5, <2>1, <2>2, <2>3
<1>11. CompletedInFull'
  <2> SUFFICES ASSUME NEW x \in Orders, order'[x].status = "completed"
               PROVE  /\ Cardinality(Items(x)') = order'[x].quantity
                      /\ \A i \in Items(x)' : Supplied(i)'
    BY DEF CompletedInFull, Items, Supplied
  <2>1. Cardinality(Items(x)) = order[x].quantity /\ \A i \in Items(x) : Supplied(i)
    BY <1>1, <1>2 DEF CompletedInFull, Items, Supplied
  <2> QED
    BY <1>2, <1>4, <1>5, <2>1 DEF Items
<1> QED
  BY <1>8, <1>9, <1>10, <1>11

\* A purchase ends: an order that is completed then has all it was placed for.
LEMMA EndOrder ==
    ASSUME OrderInv, NEW w \in Workers, Complete(w) \/ PurchaseDies(w)
    PROVE  (Unspoken /\ OneBuyer /\ InHand /\ CompletedInFull)'
<1> DEFINE o == worker[w].order
<1>1. /\ TypeInv /\ Unspoken /\ OneBuyer /\ InHand /\ CompletedInFull
      /\ worker \in [Workers -> Purchase] /\ o \in Orders \cup {NoOrder}
      /\ order \in [Orders -> [status : {"none", "processing", "completed"},
                               quantity : 0..MaxQuantity]]
  BY DEF OrderInv, TypeInv, TypeOK, Purchase
<1>2. alloc' = alloc /\ worker' = [worker EXCEPT ![w] = Idle]
  BY DEF Complete, PurchaseDies
<1>3. \/ order' = order
      \/ /\ worker[w].pc = "complete" /\ o \in Orders
         /\ order' = [order EXCEPT ![o].status = "completed"]
  <2>1. worker[w].pc = "complete" => o # NoOrder
    BY <1>1 DEF TypeInv, GoodPurchases, Good
  <2> QED
    BY <1>1, <2>1 DEF Complete, PurchaseDies
<1>4. /\ \A v \in Workers : v # w => worker'[v] = worker[v]
      /\ worker'[w].pc = "idle" /\ worker'[w].order = NoOrder
  BY <1>1, <1>2 DEF Idle, At
<1>5. /\ \A x \in Orders : x # o => order'[x] = order[x]
      /\ \A x \in Orders : order'[x].quantity = order[x].quantity
      /\ \A x \in Orders : order'[x].status = "none" => order[x].status = "none"
  BY <1>1, <1>3
<1>6. \A x : Items(x)' = Items(x)
  BY <1>2 DEF Items
<1>7. Unspoken'
  BY <1>1, <1>2, <1>5, <1>6 DEF Unspoken
<1>8. OneBuyer'
  BY <1>1, <1>4 DEF OneBuyer
<1>9. InHand'
  <2> SUFFICES ASSUME NEW v \in Workers, NEW x \in Orders, worker'[v].order = x
               PROVE  /\ order'[x].status = "processing"
                      /\ Cardinality(Items(x)') + ToGo(worker'[v]) = order'[x].quantity
                      /\ \A i \in Items(x)' :
                           Supplied(i)' \/ (worker'[v].pc = "relay" /\ worker'[v].id = i)
    BY DEF InHand, ToGo
  <2>1. v # w /\ worker'[v] = worker[v] /\ x # NoOrder
    BY <1>4, OrdersAssumption
  <2>2. x # o
    BY <1>1, <2>1 DEF OneBuyer
  <2> QED
    BY <1>1, <1>2, <1>5, <1>6, <2>1, <2>2 DEF InHand, Supplied
<1>10. CompletedInFull'
  <2> SUFFICES ASSUME NEW x \in Orders, order'[x].status = "completed"
               PROVE  /\ Cardinality(Items(x)') = order'[x].quantity
                      /\ \A i \in Items(x)' : Supplied(i)'
    BY DEF CompletedInFull, Items, Supplied
  <2>1. CASE order[x].status = "completed"
    BY <1>1, <1>2, <1>5, <1>6, <2>1 DEF CompletedInFull, Items, Supplied
  <2>2. CASE order[x].status # "completed"
    <3>1. x = o /\ worker[w].pc = "complete"
      BY <1>3, <1>5, <2>2
    <3>2. /\ Cardinality(Items(x)) + ToGo(worker[w]) = order[x].quantity
          /\ \A i \in Items(x) : Supplied(i)
      BY <1>1, <3>1 DEF InHand
    <3>3. ToGo(worker[w]) = 0 /\ Cardinality(Items(x)) \in Nat
      BY <3>1, ItemsFinite DEF ToGo
    <3> QED
      BY <1>2, <1>5, <1>6, <3>2, <3>3 DEF Supplied
  <2> QED
    BY <2>1, <2>2
<1> QED
  BY <1>7, <1>8, <1>9, <1>10

LEMMA OrderInit == Init => OrderInv
<1> SUFFICES ASSUME Init PROVE OrderInv
  OBVIOUS
<1>1. TypeInv
  BY TypeInit
<1>2. Unspoken
  BY OrdersAssumption DEF Init, Unspoken, Unused, Items
<1>3. OneBuyer /\ InHand
  BY OrdersAssumption DEF Init, OneBuyer, InHand, Idle, At
<1>4. CompletedInFull
  BY DEF Init, CompletedInFull
<1> QED
  BY <1>1, <1>2, <1>3, <1>4 DEF OrderInv

LEMMA OrderStep == OrderInv /\ [Next]_vars => OrderInv'
<1> SUFFICES ASSUME OrderInv, [Next]_vars
             PROVE  (Unspoken /\ OneBuyer /\ InHand /\ CompletedInFull)'
  BY TypeStep DEF OrderInv
<1> DEFINE Kept == \A i \in Ids :
              /\ alloc'[i].order = alloc[i].order
              /\ Supplied(i) => Supplied(i)'
              /\ alloc'[i].status = "unused" => alloc[i].status = "unused"
<1>0. alloc \in [Ids -> Allocation] /\ release \in [Releasers -> Ids \cup {NoId}]
  BY DEF OrderInv, TypeInv, TypeOK
<1>1. ASSUME NEW e \in Entries, Delete(e) PROVE Kept
  BY <1>0, <1>1 DEF Delete, Supplied
<1>2. ASSUME NEW l \in Releasers, Release(l) PROVE Kept
  <2>1. release[l] \in Ids /\ alloc' = [alloc EXCEPT ![release[l]].status = "released"]
        /\ alloc[release[l]].status # "gone"
    BY <1>0, <1>2 DEF Release
  <2> QED
    BY <1>0, <2>1 DEF Supplied, Allocation
<1>3. ASSUME alloc' = alloc PROVE Kept
  BY <1>3 DEF Supplied
<1>4. ASSUME UNCHANGED <<order, worker>>, Kept
      PROVE  (Unspoken /\ OneBuyer /\ InHand /\ CompletedInFull)'
  BY <1>4, OrdersUntouched
<1>5. CASE \E w \in Workers : PurchaseStep(w)
  BY <1>5, BeginOrder, AllocateOrder, RelayOrder, EndOrder DEF PurchaseStep
<1>6. CASE \E e \in Entries : Delete(e)
  BY <1>1, <1>4, <1>6 DEF Delete
<1>7. CASE \E l \in Releasers : Release(l)
  BY <1>2, <1>4, <1>7 DEF Release
<1>8. CASE UNCHANGED <<order, worker, alloc>>
  BY <1>3, <1>4, <1>8
<1> QED
  BY <1>5, <1>6, <1>7, <1>8
     DEF Next, vars, AddToPool, Renew, CheckDelete, ReleaseStep, Lookup, ReleaseDies

\* An order is completed only with as many allocations as it was placed for,
\* each with a relay unless its row was deleted (createOrder's loop, which
\* sets the status at its end and stops at the first query that rejects).
THEOREM OrdersCorrect == Spec => []CompletedInFull
<1>1. Spec => []OrderInv
  BY OrderInit, OrderStep, PTL DEF Spec
<1>2. OrderInv => CompletedInFull
  BY DEF OrderInv
<1> QED
  BY <1>1, <1>2, PTL
=============================================================================
