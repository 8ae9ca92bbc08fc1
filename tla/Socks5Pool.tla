---------------------------- MODULE Socks5Pool -----------------------------
(***************************************************************************)
(* The GoSea inventory: a pool of SOCKS5 proxies that are sold, several    *)
(* times each if the operator oversells, and the orders made of them.      *)
(*                                                                         *)
(* A request to allocate, or to order, reads the rows it may sell, picks   *)
(* from what it read, and then updates the rows one transaction at a time: *)
(* the counter with an increment, the status with the value it computed    *)
(* from its first read.  Releases look an allocation up and then update it *)
(* and its row, and a row is deleted after a look at its counter.  Nothing *)
(* holds a lock between the two, and a request may die at any await.       *)
(***************************************************************************)
EXTENDS Integers, FiniteSets, Sequences, Functions

CONSTANTS
    Entries,        \* rows of the pool
    MaxAllocations, \* per row: how often it may be sold at the same time
    Workers,        \* bound: purchases the API works on at the same time
    Releasers,      \* bound: releases it works on at the same time
    Ids,            \* bound: allocations
    Orders,         \* bound: orders
    MaxQuantity,    \* bound: proxies in one purchase
    MaxOps,         \* bound: renewals and deletions by the operator
    NoId, NoOrder   \* null

ASSUME EntriesAssumption ==
    Entries # {} /\ MaxAllocations \in [Entries -> Nat \ {0}]
ASSUME WorkersAssumption == IsFiniteSet(Workers) /\ Workers # {}
ASSUME IdsAssumption == IsFiniteSet(Ids) /\ NoId \notin Ids
ASSUME OrdersAssumption == NoOrder \notin Orders
ASSUME BoundsAssumption == MaxQuantity \in Nat \ {0} /\ MaxOps \in Nat

VARIABLES
    pool,     \* rows: status and currentAllocations
    alloc,    \* allocations: status, row, order, and whether a relay uses it
    order,    \* orders: status and quantity
    worker,   \* the purchases
    release,  \* the releases: what each looked up
    doomed,   \* rows that a deletion found without allocations
    ops,      \* renewals and deletions so far
    twice     \* history: per row, releases of what was released already

vars == <<pool, alloc, order, worker, release, doomed, ops, twice>>

RowStatus == {"absent", "available", "allocated", "exhausted", "active",
              "deleted"}
Row == [status : RowStatus, current : Int]

Allocation == [status : {"unused", "active", "released", "gone"},
               entry : Entries, order : Orders \cup {NoOrder},
               relay : BOOLEAN]

Purchase == [pc : {"idle", "allocate", "relay", "complete"},
             plan : Seq([entry : Entries, current : Int]),
             order : Orders \cup {NoOrder}, id : Ids \cup {NoId}]

TypeOK ==
    /\ pool \in [Entries -> Row]
    /\ alloc \in [Ids -> Allocation]
    /\ order \in [Orders -> [status : {"none", "processing", "completed"},
                             quantity : 0..MaxQuantity]]
    /\ worker \in [Workers -> Purchase]
    /\ \A w \in Workers :
         /\ Len(worker[w].plan) <= MaxQuantity
         /\ worker[w].pc \in {"allocate", "relay"} => worker[w].plan # <<>>
         /\ worker[w].pc = "relay" => worker[w].id # NoId
         /\ worker[w].pc \in {"relay", "complete"} => worker[w].order # NoOrder
    /\ release \in [Releasers -> Ids \cup {NoId}]
    /\ doomed \subseteq Entries /\ ops \in 0..MaxOps
    /\ twice \in [Entries -> Nat]

At(pc, plan, o) == [pc |-> pc, plan |-> plan, order |-> o, id |-> NoId]

Idle == At("idle", <<>>, NoOrder)

Unused == [status |-> "unused", entry |-> CHOOSE e \in Entries : TRUE,
           order |-> NoOrder, relay |-> FALSE]

Init ==
    /\ pool = [e \in Entries |-> [status |-> "absent", current |-> 0]]
    /\ alloc = [i \in Ids |-> Unused]
    /\ order = [o \in Orders |-> [status |-> "none", quantity |-> 0]]
    /\ worker = [w \in Workers |-> Idle]
    /\ release = [l \in Releasers |-> NoId]
    /\ doomed = {} /\ ops = 0
    /\ twice = [e \in Entries |-> 0]

Present(e) == pool[e].status \notin {"absent", "deleted"}
-----------------------------------------------------------------------------
(* The operator's pool: Socks5PoolService and InstanceService.             *)

\* addToPool creates its rows in one transaction.
AddToPool(new) ==
    /\ new # {} /\ \A e \in new : pool[e].status = "absent"
    /\ pool' = [e \in Entries |->
                  IF e \in new THEN [status |-> "available", current |-> 0]
                  ELSE pool[e]]
    /\ UNCHANGED <<alloc, order, worker, release, doomed, ops, twice>>

\* batchRenew marks a row "active", a status no purchase looks for.
Renew(e) ==
    /\ Present(e)
    /\ pool' = [pool EXCEPT ![e].status = "active"]
    /\ ops < MaxOps /\ ops' = ops + 1
    /\ UNCHANGED <<alloc, order, worker, release, doomed, twice>>

\* deleteFromPool, the check.
CheckDelete(e) ==
    /\ Present(e) /\ pool[e].current <= 0
    /\ doomed' = doomed \cup {e}
    /\ ops < MaxOps /\ ops' = ops + 1
    /\ UNCHANGED <<pool, alloc, order, worker, release, twice>>

\* deleteFromPool, the deletion; the schema deletes the row's allocations too.
Delete(e) ==
    /\ e \in doomed
    /\ doomed' = doomed \ {e}
    /\ pool' = [pool EXCEPT ![e] = [status |-> "deleted", current |-> 0]]
    /\ alloc' = [i \in Ids |->
                   IF alloc[i].entry = e /\ alloc[i].status # "unused"
                   THEN [status |-> "gone", entry |-> e,
                         order |-> alloc[i].order, relay |-> FALSE]
                   ELSE alloc[i]]
    /\ UNCHANGED <<order, worker, release, ops, twice>>
-----------------------------------------------------------------------------
(* A purchase: Socks5PoolService.allocate, or OrderService.createOrder.    *)

\* The rows a purchase may sell.
Allocatable ==
    {e \in Entries : /\ pool[e].status \in {"available", "allocated"}
                     /\ pool[e].current < MaxAllocations[e]}

\* MUTANT of Plans: no check that there are enough rows, so picking wraps around.
PlansWrapping(quantity) == [1..quantity -> Allocatable]

\* The least used rows first, each once: there are enough of them.
Plans(quantity) ==
    {s \in [1..quantity -> Allocatable] :
       /\ IsInjective(s)
       /\ \A m \in 1..quantity : \A e \in Allocatable :
            (\A n \in 1..m : s[n] # e) => pool[s[m]].current <= pool[e].current}

\* findMany; the counters it read are all a purchase will know of its rows.
Begin(w, quantity, o) ==
    /\ worker[w].pc = "idle"
    /\ \E s \in Plans(quantity) :
         worker' = [worker EXCEPT ![w] =
                      At("allocate", [m \in 1..quantity |->
                           [entry |-> s[m], current |-> pool[s[m]].current]], o)]
    /\ UNCHANGED <<pool, alloc, release, doomed, ops, twice>>

Allocate(w, quantity) == Begin(w, quantity, NoOrder) /\ UNCHANGED order

\* An order reads the rows, finds a relay node and is created; creating its row
\* commutes with all that others do, so the three are one step.
CreateOrder(w, quantity, o) ==
    /\ order[o].status = "none"
    /\ Begin(w, quantity, o)
    /\ order' = [order EXCEPT ![o] = [status |-> "processing",
                                      quantity |-> quantity]]

\* MUTANT of AfterItem: every purchase ends like an order.
AfterItemCompleting(w) ==
    LET p == worker[w] IN
      IF Len(p.plan) > 1 THEN At("allocate", Tail(p.plan), p.order)
      ELSE At("complete", <<>>, p.order)

\* After an item: the next one, or the end.
AfterItem(w) ==
    LET p == worker[w] IN
      IF Len(p.plan) > 1 THEN At("allocate", Tail(p.plan), p.order)
      ELSE IF p.order = NoOrder THEN Idle
      ELSE At("complete", <<>>, p.order)

\* The status the row gets, from the counter the purchase read at its start.
NewStatus(row) ==
    IF row.current + 1 >= MaxAllocations[row.entry] THEN "exhausted"
    ELSE "allocated"

\* MUTANT of AllocateItem: the counter, too, is computed from the first read.
AllocateItemStale(w, i) ==
    /\ worker[w].pc = "allocate"
    /\ alloc[i].status = "unused"
    /\ LET row == Head(worker[w].plan)
           e == row.entry
       IN
         /\ Present(e)
         /\ pool' = [pool EXCEPT ![e] = [status |-> NewStatus(row),
                                         current |-> row.current + 1]]
         /\ alloc' = [alloc EXCEPT ![i] = [status |-> "active", entry |-> e,
                                           order |-> worker[w].order,
                                           relay |-> FALSE]]
    /\ worker' = [worker EXCEPT ![w] =
                    IF @.order = NoOrder THEN AfterItem(w)
                    ELSE [pc |-> "relay", plan |-> @.plan, order |-> @.order,
                          id |-> i]]
    /\ UNCHANGED <<order, release, doomed, ops, twice>>

\* One transaction: the counter, the status and the allocation.
AllocateItem(w, i) ==
    /\ worker[w].pc = "allocate"
    /\ alloc[i].status = "unused"
    /\ LET row == Head(worker[w].plan)
           e == row.entry
       IN
         /\ Present(e)
         /\ pool' = [pool EXCEPT ![e] = [status |-> NewStatus(row),
                                         current |-> @.current + 1]]
         /\ alloc' = [alloc EXCEPT ![i] = [status |-> "active", entry |-> e,
                                           order |-> worker[w].order,
                                           relay |-> FALSE]]
    /\ worker' = [worker EXCEPT ![w] =
                    IF @.order = NoOrder THEN AfterItem(w)
                    ELSE [pc |-> "relay", plan |-> @.plan, order |-> @.order,
                          id |-> i]]
    /\ UNCHANGED <<order, release, doomed, ops, twice>>

\* MUTANT of CreateRelay: a relay that is not created does not stop the order.
CreateRelayOrNot(w) ==
    /\ worker[w].pc = "relay"
    /\ worker' = [worker EXCEPT ![w] = AfterItem(w)]
    /\ UNCHANGED <<pool, alloc, order, release, doomed, ops, twice>>

\* An order's relay endpoint; its row refers to the allocation.
CreateRelay(w) ==
    /\ worker[w].pc = "relay"
    /\ alloc[worker[w].id].status # "gone"
    /\ alloc' = [alloc EXCEPT ![worker[w].id].relay = TRUE]
    /\ worker' = [worker EXCEPT ![w] = AfterItem(w)]
    /\ UNCHANGED <<pool, order, release, doomed, ops, twice>>

Complete(w) ==
    /\ worker[w].pc = "complete"
    /\ order' = [order EXCEPT ![worker[w].order].status = "completed"]
    /\ worker' = [worker EXCEPT ![w] = Idle]
    /\ UNCHANGED <<pool, alloc, release, doomed, ops, twice>>

\* A query rejects or the process dies: nothing is undone, and an order that
\* was created stays "processing".
PurchaseDies(w) ==
    /\ worker[w].pc # "idle"
    /\ worker' = [worker EXCEPT ![w] = Idle]
    /\ UNCHANGED <<pool, alloc, order, release, doomed, ops, twice>>
-----------------------------------------------------------------------------
(* Socks5PoolService.release, for one of the allocations it is given.      *)

Lookup(l, i) ==
    /\ release[l] = NoId
    /\ alloc[i].status = "active"
    /\ release' = [release EXCEPT ![l] = i]
    /\ UNCHANGED <<pool, alloc, order, worker, doomed, ops, twice>>

\* MUTANT of Release: the row keeps its status.
ReleaseKeeping(l) ==
    /\ release[l] # NoId
    /\ LET i == release[l]
           e == alloc[i].entry
       IN  /\ alloc[i].status # "gone"
           /\ alloc' = [alloc EXCEPT ![i].status = "released"]
           /\ pool' = [pool EXCEPT ![e].current = @ - 1]
           /\ twice' = [twice EXCEPT ![e] =
                          @ + IF alloc[i].status = "released" THEN 1 ELSE 0]
    /\ release' = [release EXCEPT ![l] = NoId]
    /\ UNCHANGED <<order, worker, doomed, ops>>

\* The transaction that follows, whatever became of the allocation meanwhile.
Release(l) ==
    /\ release[l] # NoId
    /\ LET i == release[l]
           e == alloc[i].entry
       IN  /\ alloc[i].status # "gone"
           /\ alloc' = [alloc EXCEPT ![i].status = "released"]
           /\ pool' = [pool EXCEPT ![e] = [status |-> "available",
                                           current |-> @.current - 1]]
           /\ twice' = [twice EXCEPT ![e] =
                          @ + IF alloc[i].status = "released" THEN 1 ELSE 0]
    /\ release' = [release EXCEPT ![l] = NoId]
    /\ UNCHANGED <<order, worker, doomed, ops>>

ReleaseDies(l) ==
    /\ release[l] # NoId
    /\ release' = [release EXCEPT ![l] = NoId]
    /\ UNCHANGED <<pool, alloc, order, worker, doomed, ops, twice>>
-----------------------------------------------------------------------------
PurchaseStep(w) ==
    \/ \E q \in 1..MaxQuantity :
         Allocate(w, q) \/ \E o \in Orders : CreateOrder(w, q, o)
    \/ \E i \in Ids : AllocateItem(w, i)
    \/ CreateRelay(w) \/ Complete(w) \/ PurchaseDies(w)

ReleaseStep(l) ==
    (\E i \in Ids : Lookup(l, i)) \/ Release(l) \/ ReleaseDies(l)

Next ==
    \/ \E new \in SUBSET Entries : AddToPool(new)
    \/ \E e \in Entries : Renew(e) \/ CheckDelete(e) \/ Delete(e)
    \/ \E w \in Workers : PurchaseStep(w)
    \/ \E l \in Releasers : ReleaseStep(l)

Spec == Init /\ [][Next]_vars
-----------------------------------------------------------------------------
Active(e) == {i \in Ids : alloc[i].status = "active" /\ alloc[i].entry = e}

\* currentAllocations is the number of active allocations of the row, less the
\* releases that found their allocation released already, and a row that was
\* deleted has none: nothing else makes the two disagree, whoever dies when.
CounterMatches ==
    \A e \in Entries :
        IF Present(e) THEN pool[e].current + twice[e] = Cardinality(Active(e))
        ELSE Active(e) = {}

\* The operator's limit: a row is held no more often than it may be sold, a
\* residential proxy ("oversellCount = 1", docs/GOSEA.md: never oversold) by one.
\* "Filter by oversell capacity" (socks5-pool.service) looks at counters that
\* were read before the purchase's first sale.
NeverOversold == \A e \in Entries : Cardinality(Active(e)) <= MaxAllocations[e]

\* What is left of it when purchases race: they sell a row too often, yet never
\* by more than one sale for each purchase that was under way: the excess does
\* not add up.
OversellBounded ==
    \A e \in Entries :
        Cardinality(Active(e))
          <= MaxAllocations[e] + (Cardinality(Workers) - 1) + twice[e]

\* A row that nobody holds can be sold again, unless it was renewed: no race of
\* purchases with stale reads, releases and deaths leaves it "exhausted".
FreeIsAllocatable ==
    \A e \in Entries :
        Present(e) /\ Active(e) = {} /\ pool[e].status # "active"
          => e \in Allocatable

\* An order is completed only with as many allocations and relays as it was
\* placed for, some of which may have been released or deleted since.
CompletedInFull ==
    \A o \in Orders :
        order[o].status = "completed" =>
          LET items == {i \in Ids : alloc[i].order = o}
          IN  /\ Cardinality(items) = order[o].quantity
              /\ \A i \in items : alloc[i].relay \/ alloc[i].status = "gone"
=============================================================================
