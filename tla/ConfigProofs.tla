---------------------------- MODULE ConfigProofs ----------------------------
(***************************************************************************)
(* Proofs about a node's configuration: how it is delivered                *)
(* (ConfigDelivery), and what it makes Xray do (XrayConfig).               *)
(*                                                                         *)
(* ConfigDelivery implements Replica, for any number of requests, retries, *)
(* edits and restarts.  Nothing is ahead of the rows, since every version  *)
(* was read from them and they only grow; and the request the agent waits  *)
(* for reads its parts after the agent sent it, when the rows were already *)
(* at least what the agent holds.  The agent takes the answer of that      *)
(* request only, so it moves forward.                                      *)
(*                                                                         *)
(* XrayConfig: Xray routes as the rows say, for lists of any length.  The  *)
(* agent's rules are those of the last poll behind rules that only the     *)
(* calls to the API match, one more after each file (Piled); and of every  *)
(* tag the first outbound is the one the operator means (SameOutbound).    *)
(* Profiles are compared with the inbound for each protocol and format.    *)
(***************************************************************************)
EXTENDS ConfigDelivery, XrayConfig, WellFoundedInduction, TLAPS

\* Edits whose DEL is still to come are among the edits made.
PendingBound == pending <= db["structure"] + db["clients"] - 2

Versions == \A p \in Part : db[p] >= 1

TypeInv == TypeOK /\ PendingBound /\ Versions

Below(a, b) == \A p \in Part : a[p] <= b[p]

NoneAhead ==
    /\ Below(held, db)
    /\ \A h \in Handlers : Below(handler[h].got, db)

\* What the awaited request has read is not older than what the agent holds.
AwaitedIsNewer ==
    \A h \in Handlers : Awaited(h) =>
        /\ handler[h].pc = "clients" =>
             held["structure"] <= handler[h].got["structure"]
        /\ handler[h].pc \in {"store", "ok"} => Below(held, handler[h].got)

LEMMA PollTypes ==
    ASSUME NEW pc \in {"idle", "sending", "waiting", "apply"}
    PROVE  PollAt(pc) \in [pc : {"idle", "sending", "waiting", "apply"},
                           server : Handlers, attempt : 0..RetryCount]
BY HandlersAssumption, BoundsAssumption DEF PollAt

LEMMA RetriedType ==
    ASSUME TypeOK
    PROVE  /\ Retried \in [pc : {"idle", "sending", "waiting", "apply"},
                           server : Handlers, attempt : 0..RetryCount]
           /\ Retried.pc \in {"idle", "sending"}
<1>1. PollAt("sending") \in [pc : {"idle", "sending", "waiting", "apply"},
                             server : Handlers, attempt : 0..RetryCount]
  BY PollTypes
<1>2. PollAt("idle") \in [pc : {"idle", "sending", "waiting", "apply"},
                          server : Handlers, attempt : 0..RetryCount]
  BY PollTypes
<1>3. poll.attempt \in 0..RetryCount
  BY DEF TypeOK
<1>4. PollAt("sending").pc = "sending" /\ PollAt("idle").pc = "idle"
  BY DEF PollAt
<1> QED
  BY <1>1, <1>2, <1>3, <1>4, BoundsAssumption DEF Retried

LEMMA BlankType == Blank \in Config
BY BoundsAssumption DEF Blank, Config

LEMMA NoHandlerType ==
    NoHandler \in [pc : HandlerState, ask : Config, got : Config]
BY BlankType DEF NoHandler, HandlerState

LEMMA AnswerType ==
    ASSUME NEW h \in Handlers, NEW pc \in HandlerState, NEW c \in Config
    PROVE  Answer(h, pc, c) \in [pc : HandlerState, ask : Config, got : Config]
BY BlankType, NoHandlerType DEF Answer

LEMMA AbandonedType ==
    ASSUME TypeOK
    PROVE  Abandoned \in [Handlers ->
                            [pc : HandlerState, ask : Config, got : Config]]
BY NoHandlerType DEF Abandoned, TypeOK

LEMMA TypeInit == Init => TypeInv
<1> SUFFICES ASSUME Init PROVE TypeInv
  OBVIOUS
<1>1. PollAt("idle") \in [pc : {"idle", "sending", "waiting", "apply"},
                          server : Handlers, attempt : 0..RetryCount]
  BY PollTypes
<1> QED
  BY <1>1, BlankType, NoHandlerType, BoundsAssumption
     DEF Init, TypeInv, TypeOK, PendingBound, Versions, Config, Part

\* The steps of Next, each by itself: the other proofs split a step the same way.
LEMMA TypeStep == TypeInv /\ [Next]_vars => TypeInv'
<1> SUFFICES ASSUME TypeInv, [Next]_vars PROVE TypeInv'
  OBVIOUS
<1> USE DEF TypeInv
<1>1. ASSUME NEW p \in Part, EditRow(p) PROVE TypeInv'
  <2>1. db[p] \in 0..MaxVersion /\ db[p] < MaxVersion
    BY <1>1 DEF EditRow, TypeOK, Config
  <2>2. db' \in Config /\ Versions'
    BY <1>1, <2>1, BoundsAssumption DEF EditRow, TypeOK, Config, Versions
  <2>3. PendingBound'
    BY <1>1, <2>1, BoundsAssumption DEF EditRow, TypeOK, Config, PendingBound, Part
  <2>4. pending' \in 0..(2 * MaxVersion)
    <3>1. db'["structure"] <= MaxVersion /\ db'["clients"] <= MaxVersion
      BY <2>2, BoundsAssumption DEF Config, Part
    <3> QED
      BY <1>1, <2>2, <2>3, <3>1, BoundsAssumption
         DEF EditRow, TypeOK, PendingBound, Config, Part
  <2> QED
    BY <1>1, <2>2, <2>3, <2>4 DEF EditRow, TypeOK, agent
<1>2. ASSUME Invalidate PROVE TypeInv'
  BY <1>2, BlankType, BoundsAssumption
     DEF Invalidate, TypeOK, PendingBound, Versions, Config, Part, agent
<1>3. ASSUME SkipInvalidate PROVE TypeInv'
  BY <1>3, BoundsAssumption
     DEF SkipInvalidate, TypeOK, PendingBound, Versions, Config, Part, agent
<1>4. ASSUME ForceSync PROVE TypeInv'
  BY <1>4, BlankType DEF ForceSync, TypeOK, PendingBound, Versions, agent, panel
<1>5. ASSUME Expire PROVE TypeInv'
  BY <1>5, BlankType DEF Expire, TypeOK, PendingBound, Versions, agent, panel
<1>6. ASSUME NEW h \in Handlers, HandlerStep(h) PROVE TypeInv'
  <2>1. UNCHANGED <<db, pending, poll, held, applied, restarts, sync>>
    BY <1>6 DEF HandlerStep, Check, Build, Store, HandlerFails, panel, agent
  <2>2. handler[h] \in [pc : HandlerState, ask : Config, got : Config]
    BY DEF TypeOK
  <2>3. cache' \in Config
    BY <1>6, <2>2 DEF HandlerStep, Check, Build, Store, HandlerFails, TypeOK
  <2>4. handler' \in [Handlers -> [pc : HandlerState, ask : Config, got : Config]]
    <3>1. CASE Check(h)
      BY <3>1, BlankType, AnswerType DEF Check, TypeOK, HandlerState
    <3>2. ASSUME NEW p \in Part, Build(h, p)
          PROVE  handler' \in [Handlers ->
                                [pc : HandlerState, ask : Config, got : Config]]
      <4>1. [handler[h].got EXCEPT ![p] = db[p]] \in Config
        BY <2>2 DEF TypeOK, Config
      <4> QED
        BY <3>2, <4>1, BlankType DEF Build, TypeOK, HandlerState
    <3>3. CASE Store(h)
      BY <3>3, <2>2, AnswerType DEF Store, TypeOK, HandlerState
    <3>4. CASE HandlerFails(h)
      BY <3>4, BlankType, AnswerType DEF HandlerFails, TypeOK, HandlerState
    <3> QED
      BY <1>6, <3>1, <3>2, <3>3, <3>4 DEF HandlerStep
  <2> QED
    BY <2>1, <2>3, <2>4 DEF TypeOK, PendingBound, Versions
<1>7. ASSUME AgentStep PROVE TypeInv'
  <2>1. UNCHANGED <<db, pending, cache, restarts>>
    BY <1>7 DEF AgentStep, Tick, AttemptFails, Apply, ApplyFails, Send, Receive,
                panel, agent
  <2>2. CASE Tick
    BY <2>2, PollTypes DEF Tick, TypeOK, PendingBound, Versions, panel, agent
  <2>3. CASE AttemptFails
    BY <2>3, RetriedType, AbandonedType
       DEF AttemptFails, TypeOK, PendingBound, Versions, panel, agent
  <2>4. CASE Apply
    BY <2>4, PollTypes DEF Apply, TypeOK, PendingBound, Versions, panel
  <2>5. CASE ApplyFails
    BY <2>5, PollTypes, BlankType
       DEF ApplyFails, TypeOK, PendingBound, Versions, panel
  <2>6. ASSUME NEW h \in Handlers, Send(h) PROVE TypeInv'
    BY <2>6, BlankType
       DEF Send, TypeOK, PendingBound, Versions, HandlerState, panel, agent
  <2>7. ASSUME NEW h \in Handlers, Receive(h) PROVE TypeInv'
    <3>1. handler[h].got \in Config
      BY DEF TypeOK
    <3>2. poll' \in [pc : {"idle", "sending", "waiting", "apply"},
                     server : Handlers, attempt : 0..RetryCount]
      BY <2>7, RetriedType, PollTypes DEF Receive
    <3> QED
      BY <2>7, <3>1, <3>2, NoHandlerType
         DEF Receive, TypeOK, PendingBound, Versions, panel
  <2> QED
    BY <1>7, <2>2, <2>3, <2>4, <2>5, <2>6, <2>7 DEF AgentStep
<1>8. ASSUME RestartAgent PROVE TypeInv'
  BY <1>8, BlankType, PollTypes, AbandonedType, BoundsAssumption
     DEF RestartAgent, TypeOK, PendingBound, Versions, panel
<1>9. CASE UNCHANGED vars
  BY <1>9 DEF vars, panel, agent, TypeOK, PendingBound, Versions
<1> QED
  BY <1>1, <1>2, <1>3, <1>4, <1>5, <1>6, <1>7, <1>8, <1>9 DEF Next
-----------------------------------------------------------------------------
LEMMA BlankBelow == ASSUME NEW c \in Config PROVE Below(Blank, c)
BY BoundsAssumption DEF Below, Blank, Config

\* What an answer carries is what the handler had, or nothing.
LEMMA AnswerBelow ==
    ASSUME NEW h \in Handlers, NEW pc, NEW c \in Config, NEW d \in Config,
           Below(c, d)
    PROVE  Below(Answer(h, pc, c).got, d)
BY BlankBelow DEF Answer, NoHandler

\* Requests are abandoned without reading anything.
LEMMA AbandonedBelow ==
    ASSUME TypeOK, NoneAhead, NEW h \in Handlers
    PROVE  Below(Abandoned[h].got, db)
BY BlankBelow DEF Abandoned, NoHandler, NoneAhead, TypeOK

\* Nothing gets ahead of the rows: they grow, and versions are only copied.
LEMMA AheadStep == TypeInv /\ NoneAhead /\ [Next]_vars => NoneAhead'
<1> SUFFICES ASSUME TypeInv, NoneAhead, [Next]_vars PROVE NoneAhead'
  OBVIOUS
<1> USE DEF TypeInv
<1>0. db \in Config /\ held \in Config /\ \A h \in Handlers : handler[h].got \in Config
  BY DEF TypeOK
<1>1. ASSUME NEW p \in Part, EditRow(p) PROVE NoneAhead'
  <2>1. \A q \in Part : db[q] <= db'[q] /\ db'[q] \in Nat
    BY <1>1, <1>0, BoundsAssumption DEF EditRow, Config
  <2> QED
    BY <1>1, <1>0, <2>1, BoundsAssumption
       DEF EditRow, NoneAhead, Below, Config, agent
<1>2. CASE Invalidate \/ SkipInvalidate \/ ForceSync \/ Expire
  BY <1>2 DEF Invalidate, SkipInvalidate, ForceSync, Expire, NoneAhead, Below,
              panel, agent
<1>3. ASSUME NEW h \in Handlers, HandlerStep(h) PROVE NoneAhead'
  <2>1. db' = db /\ held' = held
    BY <1>3 DEF HandlerStep, Check, Build, Store, HandlerFails, panel, agent
  <2>2. Below(handler'[h].got, db) /\ \A g \in Handlers \ {h} : handler'[g] = handler[g]
    <3>1. CASE Check(h)
      BY <3>1, <1>0, BlankType, BlankBelow, AnswerBelow DEF Check, TypeOK
    <3>2. ASSUME NEW p \in Part, Build(h, p)
          PROVE  /\ Below(handler'[h].got, db)
                 /\ \A g \in Handlers \ {h} : handler'[g] = handler[g]
      BY <3>2, <1>0, BoundsAssumption DEF Build, TypeOK, NoneAhead, Below, Config
    <3>3. CASE Store(h)
      BY <3>3, <1>0, AnswerBelow DEF Store, TypeOK, NoneAhead
    <3>4. CASE HandlerFails(h)
      BY <3>4, <1>0, BlankType, BlankBelow, AnswerBelow DEF HandlerFails, TypeOK
    <3> QED
      BY <1>3, <3>1, <3>2, <3>3, <3>4 DEF HandlerStep
  <2> QED
    BY <2>1, <2>2 DEF NoneAhead, Below
<1>4. CASE Tick \/ Apply \/ ApplyFails
  BY <1>4 DEF Tick, Apply, ApplyFails, NoneAhead, Below, panel, agent
<1>5. CASE AttemptFails
  BY <1>5, AbandonedBelow DEF AttemptFails, NoneAhead, Below, panel, agent
<1>6. ASSUME NEW h \in Handlers, Send(h) PROVE NoneAhead'
  BY <1>6, <1>0, BlankBelow DEF Send, NoneAhead, Below, TypeOK, panel, agent
<1>7. ASSUME NEW h \in Handlers, Receive(h) PROVE NoneAhead'
  BY <1>7, <1>0, BlankBelow DEF Receive, NoneAhead, NoHandler, Below, TypeOK, panel
<1>8. CASE RestartAgent
  BY <1>8, <1>0, BlankBelow, AbandonedBelow
     DEF RestartAgent, NoneAhead, Below, panel
<1>9. CASE UNCHANGED vars
  BY <1>9 DEF vars, panel, agent, NoneAhead, Below
<1> QED
  BY <1>1, <1>2, <1>3, <1>4, <1>5, <1>6, <1>7, <1>8, <1>9 DEF Next, AgentStep

\* The awaited request reads rows that are no older than what the agent holds,
\* and the agent holds the same until the answer is there.
LEMMA NewerStep ==
    TypeInv /\ NoneAhead /\ AwaitedIsNewer /\ [Next]_vars => AwaitedIsNewer'
<1> SUFFICES ASSUME TypeInv, NoneAhead, AwaitedIsNewer, [Next]_vars,
                    NEW g \in Handlers, Awaited(g)'
             PROVE  /\ handler'[g].pc = "clients" =>
                         held'["structure"] <= handler'[g].got["structure"]
                    /\ handler'[g].pc \in {"store", "ok"} =>
                         Below(held', handler'[g].got)
  BY DEF AwaitedIsNewer, Below
<1> USE DEF TypeInv
<1> DEFINE Goal == /\ handler'[g].pc = "clients" =>
                         held'["structure"] <= handler'[g].got["structure"]
                   /\ handler'[g].pc \in {"store", "ok"} =>
                         Below(held', handler'[g].got)
<1>0. db \in Config /\ held \in Config /\ \A h \in Handlers : handler[h].got \in Config
  BY DEF TypeOK
<1>1. ASSUME UNCHANGED <<handler, poll, held>> PROVE Goal
  BY <1>1 DEF AwaitedIsNewer, Awaited, Below
<1>2. ASSUME NEW p \in Part, EditRow(p) PROVE Goal
  BY <1>1, <1>2 DEF EditRow, agent
<1>3. CASE Invalidate \/ SkipInvalidate \/ ForceSync \/ Expire
  BY <1>1, <1>3 DEF Invalidate, SkipInvalidate, ForceSync, Expire, agent
<1>4. ASSUME NEW h \in Handlers, HandlerStep(h) PROVE Goal
  <2>1. poll' = poll /\ held' = held
    BY <1>4 DEF HandlerStep, Check, Build, Store, HandlerFails, agent
  <2>2. Awaited(g)
    BY <2>1 DEF Awaited
  <2>3. CASE g # h
    <3>1. handler'[g] = handler[g]
      BY <1>4, <2>3 DEF HandlerStep, Check, Build, Store, HandlerFails, TypeOK
    <3> QED
      BY <2>1, <2>2, <3>1 DEF AwaitedIsNewer, Below
  <2>4. CASE g = h
    <3>1. CASE Check(h)
      BY <2>4, <3>1 DEF Check, Answer, NoHandler, TypeOK
    <3>2. CASE Build(h, "structure")
      BY <2>1, <2>4, <3>2, <1>0 DEF Build, TypeOK, NoneAhead, Below, Config, Part
    <3>3. CASE Build(h, "clients")
      <4>1. held["structure"] <= handler[h].got["structure"]
        BY <2>2, <2>4, <3>3 DEF Build, AwaitedIsNewer
      <4>2. held["clients"] <= db["clients"]
        BY DEF NoneAhead, Below, Part
      <4>3. handler'[h].got = [handler[h].got EXCEPT !["clients"] = db["clients"]]
        BY <3>3 DEF Build, TypeOK
      <4>4. handler'[h].pc = "store"
        BY <3>3 DEF Build, TypeOK
      <4> QED
        BY <2>1, <2>4, <4>1, <4>2, <4>3, <4>4, <1>0 DEF Below, Config, Part
    <3>4. CASE Store(h)
      BY <2>1, <2>2, <2>4, <3>4 DEF Store, Answer, AwaitedIsNewer, TypeOK
    <3>5. CASE HandlerFails(h)
      BY <2>4, <3>5 DEF HandlerFails, Answer, NoHandler, TypeOK
    <3> QED
      BY <1>4, <3>1, <3>2, <3>3, <3>4, <3>5 DEF HandlerStep, Part
  <2> QED
    BY <2>3, <2>4
<1>5. CASE Tick \/ Apply \/ ApplyFails \/ RestartAgent
  BY <1>5 DEF Tick, Apply, ApplyFails, RestartAgent, PollAt, Awaited
<1>6. CASE AttemptFails
  BY <1>6, RetriedType DEF AttemptFails, Awaited
<1>7. ASSUME NEW h \in Handlers, Send(h) PROVE Goal
  <2>1. g = h
    BY <1>7 DEF Send, Awaited, TypeOK
  <2> QED
    BY <1>7, <2>1 DEF Send, TypeOK
<1>8. ASSUME NEW h \in Handlers, Receive(h) PROVE Goal
  <2>1. poll'.pc # "waiting"
    BY <1>8, RetriedType DEF Receive, PollAt
  <2> QED
    BY <2>1 DEF Awaited
<1>9. CASE UNCHANGED vars
  BY <1>1, <1>9 DEF vars, agent
<1> QED
  BY <1>2, <1>3, <1>4, <1>5, <1>6, <1>7, <1>8, <1>9 DEF Next, AgentStep
-----------------------------------------------------------------------------
Inv == TypeInv /\ NoneAhead /\ AwaitedIsNewer

LEMMA InvInit == Init => Inv
<1> SUFFICES ASSUME Init PROVE Inv
  OBVIOUS
<1>1. TypeInv
  BY TypeInit
<1>2. NoneAhead
  BY <1>1, BlankBelow DEF Init, NoneAhead, NoHandler, TypeInv, TypeOK
<1>3. AwaitedIsNewer
  BY DEF Init, AwaitedIsNewer, Awaited, PollAt
<1> QED
  BY <1>1, <1>2, <1>3 DEF Inv

LEMMA InvStep == Inv /\ [Next]_vars => Inv'
BY TypeStep, AheadStep, NewerStep DEF Inv

\* Every variable of the delivery keeps its type, whatever the bounds.
THEOREM DeliveryTypeCorrect == Spec => []TypeOK
<1>1. Inv => TypeOK
  BY DEF Inv, TypeInv
<1> QED
  BY InvInit, InvStep, <1>1, PTL DEF Spec

LEMMA RowsInit == Init => Rows!Init
BY BoundsAssumption DEF Init, Rows!Init, Rows!Blank, Blank

\* Every step publishes, catches up, forgets, or changes neither side.
LEMMA RowsStep == Inv /\ [Next]_vars => [Rows!Next]_(Rows!vars)
<1> SUFFICES ASSUME Inv, [Next]_vars
             PROVE  Rows!Next \/ UNCHANGED <<db, held>>
  BY DEF Rows!vars
<1> USE DEF Inv, TypeInv
<1>0. /\ db \in [Part -> Nat] /\ held \in [Part -> Nat]
      /\ \A h \in Handlers : handler[h].got \in [Part -> Nat]
  BY BoundsAssumption DEF TypeOK, Config
<1>1. ASSUME NEW p \in Part, EditRow(p) PROVE Rows!Publish
  <2>1. db' \in [Part -> Nat] /\ \A q \in Part : db'[q] >= db[q]
    BY <1>0, <1>1 DEF EditRow
  <2>2. held' = held
    BY <1>1 DEF EditRow, agent
  <2> QED
    BY <2>1, <2>2 DEF Rows!Publish
<1>2. ASSUME NEW h \in Handlers, Receive(h)
      PROVE  Rows!CatchUp \/ UNCHANGED <<db, held>>
  <2>1. CASE handler[h].pc = "ok"
    <3>1. held' = handler[h].got /\ db' = db
      BY <1>2, <2>1 DEF Receive, panel
    <3>2. Below(held, handler[h].got) /\ Below(handler[h].got, db)
      BY <1>2, <2>1 DEF Receive, AwaitedIsNewer, NoneAhead
    <3> QED
      BY <1>0, <3>1, <3>2 DEF Rows!CatchUp, Below
  <2>2. CASE handler[h].pc # "ok"
    BY <1>2, <2>2 DEF Receive, panel
  <2> QED
    BY <2>1, <2>2
<1>3. ASSUME RestartAgent PROVE Rows!Forget
  BY <1>3 DEF RestartAgent, Rows!Forget, Rows!Blank, Blank, panel
<1>4. CASE \/ Invalidate \/ SkipInvalidate \/ ForceSync \/ Expire
           \/ Tick \/ AttemptFails \/ Apply \/ ApplyFails
           \/ UNCHANGED vars
  BY <1>4 DEF Invalidate, SkipInvalidate, ForceSync, Expire, Tick, AttemptFails,
              Apply, ApplyFails, vars, panel, agent
<1>5. ASSUME NEW h \in Handlers, HandlerStep(h) \/ Send(h)
      PROVE  UNCHANGED <<db, held>>
  BY <1>5 DEF HandlerStep, Check, Build, Store, HandlerFails, Send, panel, agent
<1> QED
  BY <1>1, <1>2, <1>3, <1>4, <1>5 DEF Next, AgentStep, Rows!Next

\* What the agent holds only catches up with the rows, part by part, however
\* many requests, retries, lost answers and stale cache entries there are.
THEOREM ReplicaCorrect == Spec => ImplementsReplica
<1>1. Spec => []Inv
  BY InvInit, InvStep, PTL DEF Spec
<1> QED
  BY <1>1, RowsInit, RowsStep, PTL DEF Spec, ImplementsReplica, Rows!Spec
-----------------------------------------------------------------------------
(* XrayConfig: lists.                                                      *)

\* A set of positions that is not empty has a first one.
LEMMA LeastFirst ==
    ASSUME NEW S \in SUBSET Nat, S # {}
    PROVE  Least(S) \in S /\ \A j \in S : Least(S) <= j
<1> DEFINE R == OpToRel(<, Nat)
<1>1. PICK i \in S : \A j \in S : <<j, i>> \notin R
  BY NatLessThanWellFounded, WFMin
<1>2. \A j \in S : i <= j
  <2> SUFFICES ASSUME NEW j \in S PROVE i <= j
    OBVIOUS
  <2>1. ~ (j < i)
    BY <1>1 DEF OpToRel
  <2>2. QED BY <2>1
<1>3. QED BY <1>2 DEF Least

\* A position before which there is none is the first.
LEMMA LeastIs ==
    ASSUME NEW S \in SUBSET Nat, NEW m \in S, \A j \in S : m <= j
    PROVE  Least(S) = m
<1>1. Least(S) \in S /\ Least(S) <= m /\ m <= Least(S)
  BY LeastFirst
<1>2. Least(S) \in Nat /\ m \in Nat
  BY <1>1
<1>3. QED BY <1>1, <1>2

\* x is at 0, and every other entry one position further.
LEMMA PrependList ==
    ASSUME NEW x, NEW l, DOMAIN l \subseteq Nat
    PROVE  /\ DOMAIN Prepend(x, l) \subseteq Nat
           /\ 0 \in DOMAIN Prepend(x, l) /\ Prepend(x, l)[0] = x
           /\ \A j \in DOMAIN l : j + 1 \in DOMAIN Prepend(x, l) /\ Prepend(x, l)[j + 1] = l[j]
           /\ \A i \in DOMAIN Prepend(x, l) : i = 0 \/ \E j \in DOMAIN l : i = j + 1
<1> DEFINE D == {0} \cup {j + 1 : j \in DOMAIN l}
<1>1. Prepend(x, l) = [i \in D |-> IF i = 0 THEN x ELSE l[i - 1]]
  BY DEF Prepend
<1>2. D \subseteq Nat
  OBVIOUS
<1>3. \A j \in DOMAIN l : j + 1 \in D /\ j + 1 # 0 /\ (j + 1) - 1 = j
  OBVIOUS
<1>4. \A i \in D : i = 0 \/ \E j \in DOMAIN l : i = j + 1
  OBVIOUS
<1> HIDE DEF D
<1>5. 0 \in D
  BY DEF D
<1>6. DOMAIN Prepend(x, l) = D
  BY <1>1
<1>7. Prepend(x, l)[0] = x
  BY <1>1, <1>5
<1>8. ASSUME NEW j \in DOMAIN l PROVE Prepend(x, l)[j + 1] = l[j]
  BY <1>1, <1>3
<1>9. QED BY <1>2, <1>3, <1>4, <1>5, <1>6, <1>7, <1>8

\* Dedup keeps the first outbound of every tag.
LEMMA DedupFirst ==
    ASSUME NEW os, DOMAIN os \subseteq Nat, NEW tag, Named(os, tag) # {}
    PROVE  Named(Dedup(os), tag) = {Least(Named(os, tag))}
<1> DEFINE first == Least(Named(os, tag))
           K == {i \in DOMAIN os : \A j \in DOMAIN os : os[j].tag = os[i].tag => i <= j}
<1>1. first \in Named(os, tag) /\ \A j \in Named(os, tag) : first <= j
  BY LeastFirst DEF Named
<1>2. DOMAIN Dedup(os) = K /\ \A i \in K : Dedup(os)[i] = os[i]
  BY DEF Dedup, Restrict
<1>3. first \in K
  BY <1>1 DEF Named
<1>4. ASSUME NEW i \in K, os[i].tag = tag PROVE i = first
  BY <1>1, <1>4 DEF Named
<1> HIDE DEF K
<1>5. QED BY <1>1, <1>2, <1>3, <1>4 DEF Named

\* Dedup removes entries and repeats no tag.
LEMMA DedupList ==
    ASSUME NEW os, DOMAIN os \subseteq Nat
    PROVE  /\ DOMAIN Dedup(os) \subseteq DOMAIN os
           /\ \A i \in DOMAIN Dedup(os) : Dedup(os)[i] = os[i]
           /\ \A i, j \in DOMAIN Dedup(os) : Dedup(os)[i].tag = Dedup(os)[j].tag => i = j
<1> DEFINE K == {i \in DOMAIN os : \A j \in DOMAIN os : os[j].tag = os[i].tag => i <= j}
<1>1. DOMAIN Dedup(os) = K /\ \A i \in K : Dedup(os)[i] = os[i]
  BY DEF Dedup, Restrict
<1>2. ASSUME NEW i \in K, NEW j \in K, os[i].tag = os[j].tag PROVE i = j
  BY <1>2
<1> HIDE DEF K
<1>3. K \subseteq DOMAIN os
  BY DEF K
<1>4. QED BY <1>1, <1>2, <1>3
-----------------------------------------------------------------------------
(* The outbounds.                                                          *)

Direct == Out("direct", "freedom")
Api == Out("api", "blackhole")
Blocked == Out("blocked", "blackhole")

\* What the agent makes of the operator's outbounds that the panel sends.
LEMMA AgentList ==
    ASSUME NEW os, DOMAIN os \subseteq Nat
    PROVE  AgentOutbounds(Prepend(Direct, Prepend(Blocked, os)))
             = Dedup(Prepend(Direct, Prepend(Api, Prepend(Direct, Prepend(Blocked, os)))))
<1> DEFINE sent == Prepend(Direct, Prepend(Blocked, os))
<1>1. DOMAIN Prepend(Blocked, os) \subseteq Nat
  BY PrependList
<1>2. DOMAIN sent \subseteq Nat /\ 0 \in DOMAIN sent /\ sent[0] = Direct
  BY <1>1, PrependList
<1> HIDE DEF sent
<1>3. 0 \in Named(sent, "direct") /\ Named(sent, "direct") \subseteq Nat
  BY <1>2 DEF Named, Direct, Out
<1>4. Least(Named(sent, "direct")) = 0
  BY <1>3, LeastIs
<1>5. QED BY <1>2, <1>3, <1>4 DEF AgentOutbounds, sent, Direct, Api

\* Its positions are numbers, and no tag is there twice.
LEMMA AgentTags ==
    ASSUME NEW os, DOMAIN os \subseteq Nat
    PROVE  LET run == AgentOutbounds(Prepend(Direct, Prepend(Blocked, os)))
           IN  /\ DOMAIN run \subseteq Nat
               /\ \A i, j \in DOMAIN run : run[i].tag = run[j].tag => i = j
<1> DEFINE blocked == Prepend(Blocked, os)
           sent == Prepend(Direct, blocked)
           api == Prepend(Api, sent)
           all == Prepend(Direct, api)
<1>1. DOMAIN blocked \subseteq Nat
  BY PrependList
<1> HIDE DEF blocked
<1>2. DOMAIN sent \subseteq Nat
  BY <1>1, PrependList
<1> HIDE DEF sent
<1>3. DOMAIN api \subseteq Nat
  BY <1>2, PrependList
<1> HIDE DEF api
<1>4. DOMAIN all \subseteq Nat
  BY <1>3, PrependList
<1>5. AgentOutbounds(sent) = Dedup(all)
  BY AgentList DEF all, api, sent, blocked
<1> HIDE DEF all
<1>6. QED BY <1>4, <1>5, DedupList DEF sent, blocked

\* For every tag the outbound that Xray has is the one the operator means.
LEMMA SameOutbound ==
    ASSUME NEW os, DOMAIN os \subseteq Nat, NEW tag \in OutTag
    PROVE  LET run == AgentOutbounds(Prepend(Direct, Prepend(Blocked, os)))
               meant == Prepend(Direct, Prepend(Api, os))
           IN  /\ Named(run, tag) = {} <=> Named(meant, tag) = {}
               /\ Named(run, tag) # {} =>
                    run[Least(Named(run, tag))] = meant[Least(Named(meant, tag))]
               /\ tag = "api" => Named(run, tag) # {}
               /\ run[Least(DOMAIN run)] = Direct
               /\ meant[Least(DOMAIN meant)] = Direct
<1> DEFINE blocked == Prepend(Blocked, os)
           sent == Prepend(Direct, blocked)
           api == Prepend(Api, sent)
           all == Prepend(Direct, api)
           own == Prepend(Api, os)
           meant == Prepend(Direct, own)
           run == AgentOutbounds(sent)
<1>1. /\ DOMAIN blocked \subseteq Nat /\ 0 \in DOMAIN blocked /\ blocked[0] = Blocked
      /\ \A j \in DOMAIN os : j + 1 \in DOMAIN blocked /\ blocked[j + 1] = os[j]
      /\ \A i \in DOMAIN blocked : i = 0 \/ \E j \in DOMAIN os : i = j + 1
  BY PrependList
<1>2. /\ DOMAIN sent \subseteq Nat /\ 0 \in DOMAIN sent /\ sent[0] = Direct
      /\ \A j \in DOMAIN blocked : j + 1 \in DOMAIN sent /\ sent[j + 1] = blocked[j]
      /\ \A i \in DOMAIN sent : i = 0 \/ \E j \in DOMAIN blocked : i = j + 1
  <2> HIDE DEF blocked
  <2>1. QED BY <1>1, PrependList
<1>3. /\ DOMAIN api \subseteq Nat /\ 0 \in DOMAIN api /\ api[0] = Api
      /\ \A j \in DOMAIN sent : j + 1 \in DOMAIN api /\ api[j + 1] = sent[j]
      /\ \A i \in DOMAIN api : i = 0 \/ \E j \in DOMAIN sent : i = j + 1
  <2> HIDE DEF sent
  <2>1. QED BY <1>2, PrependList
<1>4. /\ DOMAIN all \subseteq Nat /\ 0 \in DOMAIN all /\ all[0] = Direct
      /\ \A j \in DOMAIN api : j + 1 \in DOMAIN all /\ all[j + 1] = api[j]
      /\ \A i \in DOMAIN all : i = 0 \/ \E j \in DOMAIN api : i = j + 1
  <2> HIDE DEF api
  <2>1. QED BY <1>3, PrependList
<1>5. /\ DOMAIN own \subseteq Nat /\ 0 \in DOMAIN own /\ own[0] = Api
      /\ \A j \in DOMAIN os : j + 1 \in DOMAIN own /\ own[j + 1] = os[j]
      /\ \A i \in DOMAIN own : i = 0 \/ \E j \in DOMAIN os : i = j + 1
  BY PrependList
<1>6. /\ DOMAIN meant \subseteq Nat /\ 0 \in DOMAIN meant /\ meant[0] = Direct
      /\ \A j \in DOMAIN own : j + 1 \in DOMAIN meant /\ meant[j + 1] = own[j]
      /\ \A i \in DOMAIN meant : i = 0 \/ \E j \in DOMAIN own : i = j + 1
  <2> HIDE DEF own
  <2>1. QED BY <1>5, PrependList
<1>7. run = Dedup(all)
  BY AgentList
<1> HIDE DEF blocked, sent, api, all, own, meant, run
\* all is direct, api, direct, blocked and the operator's; meant is direct, api
\* and the operator's.
<1>8. /\ 1 \in DOMAIN all /\ all[1] = Api
      /\ \A j \in DOMAIN os : j + 4 \in DOMAIN all /\ all[j + 4] = os[j]
      /\ \A i \in DOMAIN all : \/ i = 0 /\ all[i] = Direct
                               \/ i = 1 /\ all[i] = Api
                               \/ i = 2 /\ all[i] = Direct
                               \/ i = 3 /\ all[i] = Blocked
                               \/ \E j \in DOMAIN os : i = j + 4 /\ all[i] = os[j]
  <2>1. /\ 1 \in DOMAIN all /\ all[1] = Api
    BY <1>3, <1>4
  <2>2. ASSUME NEW j \in DOMAIN os PROVE j + 4 \in DOMAIN all /\ all[j + 4] = os[j]
    <3>1. j \in Nat /\ j + 1 \in DOMAIN blocked /\ blocked[j + 1] = os[j]
      BY <1>1
    <3>2. (j + 1) + 1 \in DOMAIN sent /\ sent[(j + 1) + 1] = os[j]
      BY <1>2, <3>1
    <3>3. ((j + 1) + 1) + 1 \in DOMAIN api /\ api[((j + 1) + 1) + 1] = os[j]
      BY <1>3, <3>2
    <3>4. (((j + 1) + 1) + 1) + 1 \in DOMAIN all /\ all[(((j + 1) + 1) + 1) + 1] = os[j]
      BY <1>4, <3>3
    <3>5. (((j + 1) + 1) + 1) + 1 = j + 4
      BY <3>1
    <3>6. QED BY <3>4, <3>5
  <2>3. ASSUME NEW i \in DOMAIN all
        PROVE  \/ i = 0 /\ all[i] = Direct
               \/ i = 1 /\ all[i] = Api
               \/ i = 2 /\ all[i] = Direct
               \/ i = 3 /\ all[i] = Blocked
               \/ \E j \in DOMAIN os : i = j + 4 /\ all[i] = os[j]
    <3>1. CASE i = 0 BY <3>1, <1>4
    <3>2. CASE i # 0
      <4>1. PICK k \in DOMAIN api : i = k + 1 /\ all[i] = api[k]
        BY <3>2, <1>4
      <4>2. CASE k = 0 BY <4>1, <4>2, <1>3
      <4>3. CASE k # 0
        <5>1. PICK m \in DOMAIN sent : k = m + 1 /\ api[k] = sent[m]
          BY <4>3, <1>3
        <5>2. CASE m = 0 BY <4>1, <5>1, <5>2, <1>2
        <5>3. CASE m # 0
          <6>1. PICK b \in DOMAIN blocked : m = b + 1 /\ sent[m] = blocked[b]
            BY <5>3, <1>2
          <6>2. CASE b = 0 BY <4>1, <5>1, <6>1, <6>2, <1>1
          <6>3. CASE b # 0
            <7>1. PICK j \in DOMAIN os : b = j + 1 /\ blocked[b] = os[j]
              BY <6>3, <1>1
            <7>2. j \in Nat /\ i = j + 4
              BY <4>1, <5>1, <6>1, <7>1
            <7>3. QED BY <4>1, <5>1, <6>1, <7>1, <7>2
          <6>4. QED BY <6>2, <6>3
        <5>4. QED BY <5>2, <5>3
      <4>4. QED BY <4>2, <4>3
    <3>3. QED BY <3>1, <3>2
  <2>4. QED BY <2>1, <2>2, <2>3
<1>9. /\ 1 \in DOMAIN meant /\ meant[1] = Api
      /\ \A j \in DOMAIN os : j + 2 \in DOMAIN meant /\ meant[j + 2] = os[j]
      /\ \A i \in DOMAIN meant : \/ i = 0 /\ meant[i] = Direct
                                 \/ i = 1 /\ meant[i] = Api
                                 \/ \E j \in DOMAIN os : i = j + 2 /\ meant[i] = os[j]
  <2>1. /\ 1 \in DOMAIN meant /\ meant[1] = Api
    BY <1>5, <1>6
  <2>2. ASSUME NEW j \in DOMAIN os PROVE j + 2 \in DOMAIN meant /\ meant[j + 2] = os[j]
    <3>1. j \in Nat /\ j + 1 \in DOMAIN own /\ own[j + 1] = os[j]
      BY <1>5
    <3>2. (j + 1) + 1 \in DOMAIN meant /\ meant[(j + 1) + 1] = os[j]
      BY <1>6, <3>1
    <3>3. QED BY <3>1, <3>2
  <2>3. ASSUME NEW i \in DOMAIN meant
        PROVE  \/ i = 0 /\ meant[i] = Direct
               \/ i = 1 /\ meant[i] = Api
               \/ \E j \in DOMAIN os : i = j + 2 /\ meant[i] = os[j]
    <3>1. CASE i = 0 BY <3>1, <1>6
    <3>2. CASE i # 0
      <4>1. PICK k \in DOMAIN own : i = k + 1 /\ meant[i] = own[k]
        BY <3>2, <1>6
      <4>2. CASE k = 0 BY <4>1, <4>2, <1>5
      <4>3. CASE k # 0
        <5>1. PICK j \in DOMAIN os : k = j + 1 /\ own[k] = os[j]
          BY <4>3, <1>5
        <5>2. j \in Nat /\ i = j + 2
          BY <4>1, <5>1
        <5>3. QED BY <4>1, <5>1, <5>2
      <4>4. QED BY <4>2, <4>3
    <3>3. QED BY <3>1, <3>2
  <2>4. QED BY <2>1, <2>2, <2>3
<1>10. Named(all, tag) \in SUBSET Nat /\ Named(meant, tag) \in SUBSET Nat
  BY <1>4, <1>6 DEF Named
<1>11. /\ Named(all, tag) = {} <=> Named(meant, tag) = {}
       /\ Named(all, tag) # {} =>
            all[Least(Named(all, tag))] = meant[Least(Named(meant, tag))]
  <2>1. CASE tag = "direct"
    <3>1. 0 \in Named(all, tag) /\ 0 \in Named(meant, tag)
      BY <2>1, <1>4, <1>6 DEF Named, Direct, Out
    <3>2. Least(Named(all, tag)) = 0 /\ Least(Named(meant, tag)) = 0
      BY <3>1, <1>10, LeastIs
    <3>3. QED BY <3>1, <3>2, <1>4, <1>6
  <2>2. CASE tag = "api"
    <3>1. 1 \in Named(all, tag) /\ 1 \in Named(meant, tag)
      BY <2>2, <1>8, <1>9 DEF Named, Api, Out
    <3>2. 0 \notin Named(all, tag) /\ 0 \notin Named(meant, tag)
      BY <2>2, <1>4, <1>6 DEF Named, Direct, Out
    <3>3. Least(Named(all, tag)) = 1 /\ Least(Named(meant, tag)) = 1
      BY <3>1, <3>2, <1>10, LeastIs
    <3>4. QED BY <3>1, <3>3, <1>8, <1>9
  <2>3. CASE tag \in {"exit1", "exit2"}
    <3>1. ASSUME NEW i \in Named(all, tag)
          PROVE  \E j \in Named(os, tag) : i = j + 4
      <4>1. i \in DOMAIN all /\ all[i].tag = tag
        BY DEF Named
      <4>2. all[i] # Direct /\ all[i] # Api /\ all[i] # Blocked
        BY <4>1, <2>3 DEF Direct, Api, Blocked, Out
      <4>3. PICK j \in DOMAIN os : i = j + 4 /\ all[i] = os[j]
        BY <4>1, <4>2, <1>8
      <4>4. QED BY <4>1, <4>3 DEF Named
    <3>2. ASSUME NEW i \in Named(meant, tag)
          PROVE  \E j \in Named(os, tag) : i = j + 2
      <4>1. i \in DOMAIN meant /\ meant[i].tag = tag
        BY DEF Named
      <4>2. meant[i] # Direct /\ meant[i] # Api
        BY <4>1, <2>3 DEF Direct, Api, Out
      <4>3. PICK j \in DOMAIN os : i = j + 2 /\ meant[i] = os[j]
        BY <4>1, <4>2, <1>9
      <4>4. QED BY <4>1, <4>3 DEF Named
    <3>3. \A j \in Named(os, tag) :
             j \in Nat /\ j + 4 \in Named(all, tag) /\ j + 2 \in Named(meant, tag)
      BY <1>8, <1>9 DEF Named
    <3>4. CASE Named(os, tag) = {}
      BY <3>1, <3>2, <3>4
    <3>5. CASE Named(os, tag) # {}
      <4> DEFINE first == Least(Named(os, tag))
      <4>1. first \in Named(os, tag) /\ first \in Nat /\ \A j \in Named(os, tag) : first <= j
        BY <3>5, LeastFirst DEF Named
      <4> HIDE DEF first
      <4>2. \A i \in Named(all, tag) : first + 4 <= i
        BY <3>1, <3>3, <4>1
      <4>3. \A i \in Named(meant, tag) : first + 2 <= i
        BY <3>2, <3>3, <4>1
      <4>4. first + 4 \in Named(all, tag) /\ first + 2 \in Named(meant, tag)
        BY <3>3, <4>1
      <4>5. Least(Named(all, tag)) = first + 4
        BY <4>2, <4>4, <1>10, LeastIs
      <4>6. Least(Named(meant, tag)) = first + 2
        BY <4>3, <4>4, <1>10, LeastIs
      <4>7. first \in DOMAIN os
        BY <4>1 DEF Named
      <4>8. QED BY <4>4, <4>5, <4>6, <4>7, <1>8, <1>9
    <3>6. QED BY <3>4, <3>5
  <2>4. QED BY <2>1, <2>2, <2>3 DEF OutTag
<1>12. /\ Named(run, tag) = {} <=> Named(all, tag) = {}
       /\ Named(run, tag) # {} => run[Least(Named(run, tag))] = all[Least(Named(all, tag))]
  <2>1. CASE Named(all, tag) = {}
    BY <2>1, <1>4, <1>7, DedupList DEF Named
  <2>2. CASE Named(all, tag) # {}
    <3> DEFINE first == Least(Named(all, tag))
    <3>1. Named(run, tag) = {first}
      BY <2>2, <1>4, <1>7, DedupFirst
    <3>2. first \in Nat /\ first \in DOMAIN run
      BY <3>1, <2>2, <1>10, LeastFirst DEF Named
    <3>3. Least(Named(run, tag)) = first
      BY <3>1, <3>2, LeastIs
    <3>4. run[first] = all[first]
      BY <3>2, <1>4, <1>7, DedupList
    <3>5. QED BY <2>2, <3>1, <3>3, <3>4
  <2>3. QED BY <2>1, <2>2
<1>13. run[Least(DOMAIN run)] = Direct
  <2>1. 0 \in DOMAIN run
    <3>1. 0 \in Named(all, "direct") /\ Named(all, "direct") \in SUBSET Nat
      BY <1>4 DEF Named, Direct, Out
    <3>2. Least(Named(all, "direct")) = 0
      BY <3>1, LeastIs
    <3>3. Named(run, "direct") = {0}
      BY <3>1, <3>2, <1>4, <1>7, DedupFirst
    <3>4. QED BY <3>3 DEF Named
  <2>2. DOMAIN run \in SUBSET Nat /\ run[0] = Direct
    BY <2>1, <1>4, <1>7, DedupList
  <2>3. QED BY <2>1, <2>2, LeastIs
<1>14. meant[Least(DOMAIN meant)] = Direct
  BY <1>6, LeastIs
<1>15. tag = "api" => Named(run, tag) # {}
  BY <1>8, <1>12 DEF Named, Api, Out
<1>16. QED BY <1>11, <1>12, <1>13, <1>14, <1>15 DEF run, meant, sent, blocked, own
-----------------------------------------------------------------------------
(* The rules.                                                              *)

\* Rules that only the API's traffic matches.
Marker == {Rule("panel-api", "api"), Rule("agent-api", "api")}

\* rs is the list ps behind n + 1 markers.
Piled(rs, ps, n) ==
    /\ DOMAIN rs = (0..n) \cup {j + n + 1 : j \in DOMAIN ps}
    /\ \A i \in 0..n : rs[i] \in Marker
    /\ \A j \in DOMAIN ps : rs[j + n + 1] = ps[j]

RuleList(l) == DOMAIN l \subseteq Nat /\ \A i \in DOMAIN l : l[i].target \in OutTag

\* What the panel sends for the rows of the last poll.
Sent == Prepend(Direct, Prepend(Blocked, polled.outbounds))

XrayInv ==
    /\ XrayTypeOK
    /\ DOMAIN polled.outbounds \subseteq Nat /\ RuleList(polled.rules)
    /\ kept = [outbounds |-> kept.outbounds, rules |-> kept.rules]
    /\ kept # Nothing => /\ kept.outbounds = Sent
                         /\ \E n \in Nat : Piled(kept.rules, polled.rules, n)
    /\ file # Nothing => /\ kept # Nothing
                         /\ 0 \in DOMAIN file.rules /\ file.rules[0] = Rule("agent-api", "api")
                         /\ file.rules = kept.rules => file.outbounds = AgentOutbounds(Sent)

\* Behind markers the rules keep their types.
LEMMA PiledRules ==
    ASSUME NEW rs, NEW ps, NEW n \in Nat, RuleList(ps), Piled(rs, ps, n)
    PROVE  RuleList(rs)
<1>1. DOMAIN rs \subseteq Nat
  BY DEF Piled, RuleList
<1>2. ASSUME NEW i \in DOMAIN rs PROVE rs[i].target \in OutTag
  <2>1. CASE i \in 0..n
    BY <2>1 DEF Piled, Marker, Rule, OutTag
  <2>2. CASE i \notin 0..n
    <3>1. PICK j \in DOMAIN ps : i = j + n + 1
      BY <2>2 DEF Piled
    <3>2. QED BY <3>1 DEF Piled, RuleList
  <2>3. QED BY <2>1, <2>2
<1>3. QED BY <1>1, <1>2 DEF RuleList

\* The panel's rule in front of the polled ones.
LEMMA PiledFirst ==
    ASSUME NEW ps, DOMAIN ps \subseteq Nat
    PROVE  Piled(Prepend(Rule("panel-api", "api"), ps), ps, 0)
<1> DEFINE rs == Prepend(Rule("panel-api", "api"), ps)
<1>1. /\ DOMAIN rs \subseteq Nat
      /\ 0 \in DOMAIN rs /\ rs[0] = Rule("panel-api", "api")
      /\ \A j \in DOMAIN ps : j + 1 \in DOMAIN rs /\ rs[j + 1] = ps[j]
      /\ \A i \in DOMAIN rs : i = 0 \/ \E j \in DOMAIN ps : i = j + 1
  BY PrependList
<1> HIDE DEF rs
<1>2. \A j \in DOMAIN ps : j + 0 + 1 = j + 1
  OBVIOUS
<1>3. DOMAIN rs = (0..0) \cup {j + 0 + 1 : j \in DOMAIN ps}
  <2>1. \A i \in DOMAIN rs : i \in 0..0 \/ \E j \in DOMAIN ps : i = j + 0 + 1
    BY <1>1, <1>2
  <2>2. \A j \in DOMAIN ps : j + 0 + 1 \in DOMAIN rs
    BY <1>1, <1>2
  <2>3. 0..0 \subseteq DOMAIN rs
    BY <1>1
  <2>4. QED BY <2>1, <2>2, <2>3
<1>4. \A i \in 0..0 : rs[i] \in Marker
  BY <1>1 DEF Marker
<1>5. \A j \in DOMAIN ps : rs[j + 0 + 1] = ps[j]
  BY <1>1, <1>2
<1>6. QED BY <1>3, <1>4, <1>5 DEF Piled, rs

\* The agent's rule in front of what it has kept.
LEMMA PiledAgain ==
    ASSUME NEW rs, NEW ps, NEW n \in Nat, RuleList(ps), Piled(rs, ps, n)
    PROVE  /\ Piled(AgentRules(rs), ps, n + 1)
           /\ 0 \in DOMAIN AgentRules(rs) /\ AgentRules(rs)[0] = Rule("agent-api", "api")
<1> DEFINE valid == {i \in DOMAIN rs : rs[i].target # None}
           old == Restrict(rs, valid)
           new == Prepend(Rule("agent-api", "api"), old)
<1>1. RuleList(rs)
  BY PiledRules
<1>2. valid = DOMAIN rs
  BY <1>1 DEF RuleList, OutTag, None
<1>3. DOMAIN old = DOMAIN rs /\ \A i \in DOMAIN rs : old[i] = rs[i]
  BY <1>2 DEF Restrict
<1>4. DOMAIN old \subseteq Nat
  BY <1>1, <1>3 DEF RuleList
<1>5. /\ DOMAIN new \subseteq Nat
      /\ 0 \in DOMAIN new /\ new[0] = Rule("agent-api", "api")
      /\ \A j \in DOMAIN old : j + 1 \in DOMAIN new /\ new[j + 1] = old[j]
      /\ \A i \in DOMAIN new : i = 0 \/ \E j \in DOMAIN old : i = j + 1
  <2> HIDE DEF old
  <2>1. QED BY <1>4, PrependList
<1>6. AgentRules(rs) = new
  BY DEF AgentRules
<1> HIDE DEF valid, old, new
<1>7. DOMAIN new = (0..(n + 1)) \cup {j + (n + 1) + 1 : j \in DOMAIN ps}
  <2>1. ASSUME NEW i \in DOMAIN new
        PROVE  i \in 0..(n + 1) \/ \E j \in DOMAIN ps : i = j + (n + 1) + 1
    <3>1. CASE i = 0 BY <3>1
    <3>2. CASE i # 0
      <4>1. PICK k \in DOMAIN rs : i = k + 1
        BY <3>2, <1>3, <1>5
      <4>2. CASE k \in 0..n BY <4>1, <4>2
      <4>3. CASE k \notin 0..n
        <5>1. PICK j \in DOMAIN ps : k = j + n + 1
          BY <4>3 DEF Piled
        <5>2. j \in Nat
          BY DEF RuleList
        <5>3. i = j + (n + 1) + 1
          BY <4>1, <5>1, <5>2
        <5>4. QED BY <5>3
      <4>4. QED BY <4>2, <4>3
    <3>3. QED BY <3>1, <3>2
  <2>2. ASSUME NEW i \in 0..(n + 1) PROVE i \in DOMAIN new
    <3>1. CASE i = 0 BY <3>1, <1>5
    <3>2. CASE i # 0
      <4>1. i - 1 \in 0..n
        BY <3>2
      <4>2. i - 1 \in DOMAIN old
        BY <4>1, <1>3 DEF Piled
      <4>3. QED BY <4>1, <4>2, <1>5
    <3>3. QED BY <3>1, <3>2
  <2>3. ASSUME NEW j \in DOMAIN ps PROVE j + (n + 1) + 1 \in DOMAIN new
    <3>1. j \in Nat /\ j + n + 1 \in DOMAIN old
      BY <1>3 DEF Piled, RuleList
    <3>2. (j + n + 1) + 1 \in DOMAIN new
      BY <3>1, <1>5
    <3>3. QED BY <3>1, <3>2
  <2>4. QED BY <2>1, <2>2, <2>3
<1>8. ASSUME NEW i \in 0..(n + 1) PROVE new[i] \in Marker
  <2>1. CASE i = 0 BY <2>1, <1>5 DEF Marker
  <2>2. CASE i # 0
    <3>1. i - 1 \in 0..n /\ (i - 1) + 1 = i
      BY <2>2
    <3>2. i - 1 \in DOMAIN rs /\ rs[i - 1] \in Marker
      BY <3>1 DEF Piled
    <3>3. new[(i - 1) + 1] = rs[i - 1]
      BY <3>2, <1>3, <1>5
    <3>4. QED BY <3>1, <3>2, <3>3
  <2>3. QED BY <2>1, <2>2
<1>9. ASSUME NEW j \in DOMAIN ps PROVE new[j + (n + 1) + 1] = ps[j]
  <2>1. j \in Nat /\ j + n + 1 \in DOMAIN rs /\ rs[j + n + 1] = ps[j]
    BY DEF Piled, RuleList
  <2>2. new[(j + n + 1) + 1] = ps[j]
    BY <2>1, <1>3, <1>5
  <2>3. (j + n + 1) + 1 = j + (n + 1) + 1
    BY <2>1
  <2>4. QED BY <2>2, <2>3
<1>10. Piled(new, ps, n + 1)
  BY <1>7, <1>8, <1>9 DEF Piled
<1>11. QED BY <1>5, <1>6, <1>10
-----------------------------------------------------------------------------
(* Routes.                                                                 *)

\* Markers in front of the rules, and the agent's order of the outbounds,
\* change no route.
LEMMA RouteSame ==
    ASSUME NEW c, NEW d, NEW n \in Nat, NEW os, DOMAIN os \subseteq Nat,
           RuleList(d.rules), Piled(c.rules, d.rules, n),
           c.outbounds = AgentOutbounds(Prepend(Direct, Prepend(Blocked, os))),
           d.outbounds = Prepend(Direct, Prepend(Api, os)),
           NEW traffic \in {"a", "b"}
    PROVE  Route(c, traffic) = Route(d, traffic)
<1> DEFINE hits == Hits(c.rules, traffic)
           wanted == Hits(d.rules, traffic)
<1>1. ASSUME NEW i \in hits PROVE \E j \in wanted : i = j + n + 1
  <2>1. i \in DOMAIN c.rules /\ c.rules[i].match \in {traffic, "any"}
    BY DEF Hits
  <2>2. i \notin 0..n
    BY <2>1 DEF Piled, Marker, Rule
  <2>3. PICK j \in DOMAIN d.rules : i = j + n + 1
    BY <2>1, <2>2 DEF Piled
  <2>4. QED BY <2>1, <2>3 DEF Piled, Hits
<1>2. ASSUME NEW j \in wanted PROVE j \in Nat /\ j + n + 1 \in hits
  BY DEF Hits, Piled, RuleList
<1>3. ASSUME NEW tag \in OutTag
      PROVE  /\ Named(c.outbounds, tag) = {} <=> Named(d.outbounds, tag) = {}
             /\ Named(c.outbounds, tag) # {} =>
                  c.outbounds[Least(Named(c.outbounds, tag))]
                    = d.outbounds[Least(Named(d.outbounds, tag))]
             /\ c.outbounds[Least(DOMAIN c.outbounds)] = d.outbounds[Least(DOMAIN d.outbounds)]
  BY SameOutbound
<1>4. CASE wanted = {}
  <2>1. hits = {}
    BY <1>1, <1>4
  <2>2. c.outbounds[Least(DOMAIN c.outbounds)] = d.outbounds[Least(DOMAIN d.outbounds)]
    BY <1>3 DEF OutTag
  <2>3. QED BY <1>4, <2>1, <2>2 DEF Route
<1>5. CASE wanted # {}
  <2> DEFINE first == Least(wanted)
  <2>1. wanted \in SUBSET Nat /\ hits \in SUBSET Nat
    BY <1>1, <1>2
  <2>2. first \in wanted /\ first \in Nat /\ \A j \in wanted : first <= j
    BY <1>5, <2>1, LeastFirst
  <2> HIDE DEF first
  <2>3. first + n + 1 \in hits
    BY <1>2, <2>2
  <2>4. \A i \in hits : first + n + 1 <= i
    BY <1>1, <1>2, <2>2
  <2>5. Least(hits) = first + n + 1
    BY <2>1, <2>3, <2>4, LeastIs
  <2>6. first \in DOMAIN d.rules
    BY <2>2 DEF Hits
  <2> DEFINE tag == d.rules[first].target
  <2>7. c.rules[Least(hits)].target = tag /\ tag \in OutTag
    BY <2>5, <2>6 DEF Piled, RuleList
  <2> HIDE DEF tag
  <2>8. Route(c, traffic) =
           c.outbounds[Least(IF Named(c.outbounds, tag) = {} THEN DOMAIN c.outbounds
                             ELSE Named(c.outbounds, tag))]
    BY <2>3, <2>7 DEF Route
  <2>9. Route(d, traffic) =
           d.outbounds[Least(IF Named(d.outbounds, tag) = {} THEN DOMAIN d.outbounds
                             ELSE Named(d.outbounds, tag))]
    BY <1>5 DEF Route, tag, first
  <2>10. QED BY <1>3, <2>7, <2>8, <2>9
<1>6. QED BY <1>4, <1>5
-----------------------------------------------------------------------------
(* The invariant.                                                          *)

\* It holds at the start.
LEMMA XrayStart == XrayInit => XrayInv
<1> SUFFICES ASSUME XrayInit PROVE XrayInv
  OBVIOUS
<1> USE DEF XrayInit, Nothing
<1>1. DOMAIN Empty = {}
  BY DEF Empty
<1>2. XrayTypeOK
  BY <1>1 DEF XrayTypeOK, Range
<1>3. QED BY <1>1, <1>2 DEF XrayInv, RuleList

\* Rows may change; what was polled, kept and written may not.
LEMMA RowsKept ==
    ASSUME XrayInv, UNCHANGED <<dto, inbound, polled, kept, file>>,
           DOMAIN outbounds' \subseteq 1..MaxOutbounds, DOMAIN rules' \subseteq 1..MaxRules,
           \A i, j \in DOMAIN outbounds' : outbounds'[i].tag = outbounds'[j].tag => i = j,
           \A i \in DOMAIN rules' : rules'[i].target \in OutTag
    PROVE  XrayInv'
<1>1. XrayTypeOK'
  BY DEF XrayInv, XrayTypeOK, Range
<1>2. Sent' = Sent
  BY DEF Sent
<1>3. QED BY <1>1, <1>2 DEF XrayInv

LEMMA CreateOutboundStep ==
    ASSUME XrayInv, CreateOutbound
    PROVE  XrayInv'
<1>1. PICK i \in (1..MaxOutbounds) \ DOMAIN outbounds, tag \in OutTag, protocol \in OutProtocol :
         /\ OutboundAccepted(Out(tag, protocol))
         /\ outbounds' = Placed(outbounds, i, Out(tag, protocol))
  BY DEF CreateOutbound
<1> DEFINE row == Out(tag, protocol)
<1>2. /\ DOMAIN outbounds' = {i} \cup DOMAIN outbounds
      /\ outbounds'[i] = row
      /\ \A j \in DOMAIN outbounds : outbounds'[j] = outbounds[j]
  BY <1>1 DEF Placed
<1>3. \A j \in DOMAIN outbounds : outbounds[j].tag # row.tag
  BY <1>1 DEF OutboundAccepted, Named
<1> HIDE DEF row
<1>4. DOMAIN outbounds' \subseteq 1..MaxOutbounds
  BY <1>2 DEF XrayInv, XrayTypeOK
<1>5. \A j, k \in DOMAIN outbounds' : outbounds'[j].tag = outbounds'[k].tag => j = k
  BY <1>2, <1>3 DEF XrayInv, XrayTypeOK
<1>6. DOMAIN rules' \subseteq 1..MaxRules /\ \A j \in DOMAIN rules' : rules'[j].target \in OutTag
  BY DEF CreateOutbound, XrayInv, XrayTypeOK, Range
<1>7. QED BY <1>4, <1>5, <1>6, RowsKept DEF CreateOutbound

LEMMA DeleteOutboundStep ==
    ASSUME XrayInv, DeleteOutbound
    PROVE  XrayInv'
<1>1. PICK i \in DOMAIN outbounds : outbounds' = Restrict(outbounds, DOMAIN outbounds \ {i})
  BY DEF DeleteOutbound
<1>2. /\ DOMAIN outbounds' = DOMAIN outbounds \ {i}
      /\ \A j \in DOMAIN outbounds' : outbounds'[j] = outbounds[j]
  BY <1>1 DEF Restrict
<1>3. DOMAIN outbounds' \subseteq 1..MaxOutbounds
  BY <1>2 DEF XrayInv, XrayTypeOK
<1>4. \A j, k \in DOMAIN outbounds' : outbounds'[j].tag = outbounds'[k].tag => j = k
  BY <1>2 DEF XrayInv, XrayTypeOK
<1>5. DOMAIN rules' \subseteq 1..MaxRules /\ \A j \in DOMAIN rules' : rules'[j].target \in OutTag
  BY DEF DeleteOutbound, XrayInv, XrayTypeOK, Range
<1>6. QED BY <1>3, <1>4, <1>5, RowsKept DEF DeleteOutbound

LEMMA CreateRuleStep ==
    ASSUME XrayInv, CreateRule
    PROVE  XrayInv'
<1>1. PICK i \in (1..MaxRules) \ DOMAIN rules, match \in Match, target \in RuleTarget :
         /\ RuleAccepted(Rule(match, target))
         /\ rules' = Placed(rules, i, Rule(match, target))
  BY DEF CreateRule
<1>2. /\ DOMAIN rules' = {i} \cup DOMAIN rules
      /\ rules'[i] = Rule(match, target)
      /\ \A j \in DOMAIN rules : rules'[j] = rules[j]
  BY <1>1 DEF Placed
<1>3. Rule(match, target).target \in OutTag
  BY <1>1 DEF RuleAccepted, Rule, RuleTarget, OutTag, None
<1>4. \A j \in DOMAIN rules : rules[j].target \in OutTag
  BY DEF XrayInv, XrayTypeOK, Range
<1>5. DOMAIN rules' \subseteq 1..MaxRules /\ \A j \in DOMAIN rules' : rules'[j].target \in OutTag
  BY <1>2, <1>3, <1>4 DEF XrayInv, XrayTypeOK
<1>6. DOMAIN outbounds' \subseteq 1..MaxOutbounds
      /\ \A j, k \in DOMAIN outbounds' : outbounds'[j].tag = outbounds'[k].tag => j = k
  BY DEF CreateRule, XrayInv, XrayTypeOK
<1>7. QED BY <1>5, <1>6, RowsKept DEF CreateRule

LEMMA PollStep ==
    ASSUME XrayInv, Poll
    PROVE  XrayInv'
<1>1. /\ polled' = [outbounds |-> outbounds, rules |-> rules]
      /\ kept' = NodeConfig(outbounds, rules)
      /\ UNCHANGED <<dto, inbound, outbounds, rules, file>>
  BY DEF Poll, rows
<1>2. /\ kept' = [outbounds |-> kept'.outbounds, rules |-> kept'.rules]
      /\ kept'.outbounds = Sent'
      /\ kept'.rules = Prepend(Rule("panel-api", "api"), rules)
  BY <1>1 DEF NodeConfig, Sent, Direct, Blocked
<1>3. DOMAIN outbounds \subseteq Nat /\ RuleList(rules)
  BY ListsAssumption DEF XrayInv, XrayTypeOK, RuleList, Range
<1>4. Piled(kept'.rules, rules, 0)
  BY <1>2, <1>3, PiledFirst DEF RuleList
<1>5. RuleList(kept'.rules)
  BY <1>3, <1>4, PiledRules
<1>6. 0 \in DOMAIN kept'.rules /\ kept'.rules[0] = Rule("panel-api", "api")
  BY <1>2, <1>3, PrependList DEF RuleList
<1>7. XrayTypeOK'
  BY <1>1, <1>5 DEF XrayInv, XrayTypeOK, Range, RuleList
<1>8. kept' # Nothing
  BY <1>6 DEF Nothing, Empty
<1>9. file # Nothing => file.rules # kept'.rules
  BY <1>6 DEF XrayInv, Rule
<1>10. \E n \in Nat : Piled(kept'.rules, polled'.rules, n)
  BY <1>1, <1>4
<1>11. DOMAIN polled'.outbounds \subseteq Nat /\ RuleList(polled'.rules)
  BY <1>1, <1>3
<1>12. file # Nothing => 0 \in DOMAIN file.rules /\ file.rules[0] = Rule("agent-api", "api")
  BY DEF XrayInv
<1>13. QED BY <1>1, <1>2, <1>7, <1>8, <1>9, <1>10, <1>11, <1>12 DEF XrayInv

LEMMA WriteFileStep ==
    ASSUME XrayInv, WriteFile
    PROVE  XrayInv'
<1>1. /\ kept # Nothing
      /\ file' = [rules |-> AgentRules(kept.rules), outbounds |-> AgentOutbounds(kept.outbounds)]
      /\ UNCHANGED <<dto, inbound, outbounds, rules, polled>>
  BY DEF WriteFile, Generate, rows
<1>2. kept' = [outbounds |-> kept.outbounds, rules |-> AgentRules(kept.rules)]
  BY <1>1 DEF WriteFile, XrayInv
<1>3. PICK n \in Nat : Piled(kept.rules, polled.rules, n)
  BY <1>1 DEF XrayInv
<1>4. RuleList(polled.rules) /\ DOMAIN polled.outbounds \subseteq Nat
  BY DEF XrayInv
<1>5. /\ Piled(AgentRules(kept.rules), polled.rules, n + 1)
      /\ 0 \in DOMAIN AgentRules(kept.rules)
      /\ AgentRules(kept.rules)[0] = Rule("agent-api", "api")
  BY <1>3, <1>4, PiledAgain
<1>6. RuleList(AgentRules(kept.rules))
  <2>1. n + 1 \in Nat
    OBVIOUS
  <2>2. QED BY <1>4, <1>5, <2>1, PiledRules
<1>7. kept.outbounds = Sent
  BY <1>1 DEF XrayInv
<1>8. file'.outbounds = AgentOutbounds(Sent) /\ Sent' = Sent
  BY <1>1, <1>7 DEF Sent
<1>9. \A i, j \in DOMAIN file'.outbounds : file'.outbounds[i].tag = file'.outbounds[j].tag => i = j
  BY <1>4, <1>8, AgentTags DEF Sent
<1>10. XrayTypeOK'
  BY <1>1, <1>2, <1>6, <1>9 DEF XrayInv, XrayTypeOK, Range, RuleList
<1>11. kept' # Nothing
  BY <1>2, <1>5 DEF Nothing, Empty
<1>12. \E m \in Nat : Piled(kept'.rules, polled'.rules, m)
  BY <1>1, <1>2, <1>5
<1>13. /\ kept' = [outbounds |-> kept'.outbounds, rules |-> kept'.rules]
       /\ kept'.outbounds = Sent'
  BY <1>2, <1>7, <1>8
<1>14. /\ 0 \in DOMAIN file'.rules
       /\ file'.rules[0] = Rule("agent-api", "api")
       /\ file'.outbounds = AgentOutbounds(Sent')
  BY <1>1, <1>5, <1>8
<1>15. QED BY <1>1, <1>4, <1>10, <1>11, <1>12, <1>13, <1>14 DEF XrayInv

LEMMA XrayStep == XrayInv /\ [XrayNext]_xrayVars => XrayInv'
<1> SUFFICES ASSUME XrayInv, [XrayNext]_xrayVars PROVE XrayInv'
  OBVIOUS
<1>1. CASE UNCHANGED xrayVars
  <2>1. UNCHANGED <<dto, inbound, outbounds, rules, polled, kept, file>>
    BY <1>1 DEF xrayVars, rows
  <2>2. \A i \in DOMAIN rules' : rules'[i].target \in OutTag
    BY <2>1 DEF XrayInv, XrayTypeOK, Range
  <2>3. QED BY <2>1, <2>2, RowsKept DEF XrayInv, XrayTypeOK
<1>2. QED
  BY <1>1, CreateOutboundStep, DeleteOutboundStep, CreateRuleStep, PollStep, WriteFileStep
  DEF XrayNext

LEMMA XrayInvariant == XraySpec => []XrayInv
<1>1. QED BY XrayStart, XrayStep, PTL DEF XraySpec

\* The rows, what was polled and what the agent keeps have their types, and no
\* two outbounds that Xray is started with have one tag.
THEOREM XrayTypeCorrect == XraySpec => []XrayTypeOK
<1>1. XrayInv => XrayTypeOK
  BY DEF XrayInv
<1>2. QED BY <1>1, XrayInvariant, PTL

\* Xray routes as the rows of the last poll say, and the agent's API calls to
\* the API, however many rules and outbounds the node has and however often the
\* agent has rebuilt what it keeps (generator.go, xray-node-config-builder).
THEOREM RoutesCorrect == XraySpec => []RoutesKept
<1>1. ASSUME XrayInv PROVE RoutesKept
  <2> SUFFICES ASSUME file # Nothing, file.rules = kept.rules
               PROVE  /\ \A traffic \in {"a", "b"} : Route(file, traffic) = Intended(traffic)
                      /\ Route(file, "agent-api").tag = "api"
    BY DEF RoutesKept
  <2> DEFINE os == polled.outbounds
             run == AgentOutbounds(Prepend(Direct, Prepend(Blocked, os)))
  <2>1. DOMAIN os \subseteq Nat /\ RuleList(polled.rules)
    BY <1>1 DEF XrayInv
  <2>2. PICK n \in Nat : Piled(file.rules, polled.rules, n)
    BY <1>1 DEF XrayInv
  <2>3. file.outbounds = run
    BY <1>1 DEF XrayInv, Sent
  <2>4. ASSUME NEW traffic \in {"a", "b"}
        PROVE  Route(file, traffic) = Intended(traffic)
    <3> DEFINE d == [outbounds |-> Prepend(Direct, Prepend(Api, os)), rules |-> polled.rules]
    <3>1. d.rules = polled.rules /\ d.outbounds = Prepend(Direct, Prepend(Api, os))
      OBVIOUS
    <3>2. Intended(traffic) = Route(d, traffic)
      BY DEF Intended, Direct, Api
    <3> HIDE DEF d
    <3>3. Route(file, traffic) = Route(d, traffic)
      BY <2>1, <2>2, <2>3, <3>1, RouteSame
    <3>4. QED BY <3>2, <3>3
  <2>5. Route(file, "agent-api").tag = "api"
    <3> DEFINE hits == Hits(file.rules, "agent-api")
    <3>1. RuleList(file.rules)
      BY <2>1, <2>2, PiledRules
    <3>2. 0 \in DOMAIN file.rules /\ file.rules[0] = Rule("agent-api", "api")
      BY <1>1 DEF XrayInv
    <3>3. 0 \in hits /\ hits \in SUBSET Nat
      BY <3>1, <3>2 DEF Hits, Rule, RuleList
    <3>4. Least(hits) = 0
      BY <3>3, LeastIs
    <3>5. file.rules[Least(hits)].target = "api"
      BY <3>2, <3>4 DEF Rule
    <3>6. Named(run, "api") # {}
      BY <2>1, SameOutbound DEF OutTag
    <3>7. Named(run, "api") \in SUBSET Nat
      BY <2>1, AgentTags DEF Named
    <3> HIDE DEF run, hits
    <3>8. Least(Named(run, "api")) \in Named(run, "api")
      BY <3>6, <3>7, LeastFirst
    <3>9. Route(file, "agent-api") = run[Least(Named(run, "api"))]
      BY <2>3, <3>3, <3>5, <3>6 DEF Route, hits
    <3>10. QED BY <3>8, <3>9 DEF Named
  <2>6. QED BY <2>4, <2>5
<1>2. QED BY <1>1, XrayInvariant, PTL
-----------------------------------------------------------------------------
(* Profiles.                                                               *)

Fields == {"type", "network", "security", "tls", "sni", "publicKey", "id", "flow", "password",
           "cipher", "path", "host", "service"}

\* What is read back from the rows.
LEMMA NodeFields ==
    /\ ProxyNode.type = inbound.protocol /\ ProxyNode.network = inbound.stream.network
    /\ ProxyNode.security = inbound.stream.security
    /\ ProxyNode.tls = (inbound.stream.security = "tls")
    /\ ProxyNode.sni = inbound.stream.sni /\ ProxyNode.publicKey = inbound.stream.publicKey
    /\ ProxyNode.path = inbound.stream.path /\ ProxyNode.host = inbound.stream.host
    /\ ProxyNode.service = inbound.stream.service
    /\ DOMAIN ProxyNode = Fields
BY DEF ProxyNode, Fields


\* What the builder has written into the inbound's row.
LEMMA BuiltFields ==
    ASSUME XrayTypeOK
    PROVE  LET s == inbound.stream
           IN  /\ inbound.protocol \in Protocol /\ s.network \in Transport /\ s.security \in Security
               /\ s.security = "reality" => (s.publicKey = "key" <=> dto.raw)
               /\ s.network \in {"ws", "h2"} => s.path # None
               /\ s.host # None => s.network = "ws"
<1>1. dto \in Dto /\ inbound.protocol = dto.protocol /\ inbound.stream = StreamSettings(dto)
  BY DEF XrayTypeOK, BuiltInbound
<1>2. QED BY <1>1 DEF StreamSettings, Dto, None

\* A profile without some fields and with a security of its own.
LEMMA Secured ==
    ASSUME NEW n, DOMAIN n = Fields, NEW fields, NEW security
    PROVE  LET p == [Leaving(n, fields) EXCEPT !.security = security]
           IN  /\ p.security = security
               /\ \A f \in Fields : f # "security" => p[f] = IF f \in fields THEN None ELSE n[f]
<1>1. DOMAIN Leaving(n, fields) = Fields /\ "security" \in Fields
  BY DEF Leaving, Fields
<1>2. \A f \in Fields : Leaving(n, fields)[f] = IF f \in fields THEN None ELSE n[f]
  BY DEF Leaving
<1>3. QED BY <1>1, <1>2

LEMMA VlessReach ==
    ASSUME XrayTypeOK, inbound.protocol = "vless"
    PROVE  ReachUnlessBroken
<1> DEFINE s == inbound.stream
<1>1. /\ ProxyNode.id = "uuid" /\ FileClient("vless").id = "uuid"
      /\ ProxyNode.flow = FileClient("vless").flow
  BY DEF ProxyNode, FileClient
<1>2. ToV2rayLink(ProxyNode) = ProxyNode /\ ToClash(ProxyNode) = ProxyNode
  BY NodeFields DEF ToV2rayLink, ToClash
<1>3. Reaches(ProxyNode) <=> (s.security = "reality" => dto.raw)
  BY <1>1, NodeFields, BuiltFields DEF Reaches
<1>4. Reaches(ToSingbox(ProxyNode)) <=> s.security # "reality" /\ s.network # "h2"
  <2> DEFINE n == Leaving(ProxyNode, {"publicKey"})
             q == ToSingbox(ProxyNode)
  <2>1. DOMAIN n = Fields /\ \A f \in Fields : f # "publicKey" => n[f] = ProxyNode[f]
    BY NodeFields DEF Leaving
  <2>2. q = [n EXCEPT !.security = IF s.security = "tls" THEN "tls" ELSE "none",
                      !.network = IF s.network \in {"ws", "grpc"} THEN s.network ELSE "tcp"]
    BY NodeFields DEF ToSingbox
  <2> HIDE DEF n
  <2>3. /\ q.security = s.security <=> s.security # "reality"
        /\ q.network = s.network <=> s.network # "h2"
    BY <2>1, <2>2, BuiltFields DEF Fields, Security, Transport
  <2>4. \A f \in Fields \ {"publicKey", "security", "network"} : q[f] = ProxyNode[f]
    BY <2>1, <2>2
  <2> HIDE DEF q
  <2>5. /\ q.type = ProxyNode.type /\ q.path = ProxyNode.path /\ q.host = ProxyNode.host
        /\ q.service = ProxyNode.service /\ q.sni = ProxyNode.sni /\ q.id = ProxyNode.id
        /\ q.flow = ProxyNode.flow
    BY <2>4 DEF Fields
  <2>6. Reaches(q) <=> s.security # "reality" /\ s.network # "h2"
    BY <1>1, <2>3, <2>5, NodeFields, BuiltFields DEF Reaches
  <2>7. QED BY <2>6 DEF q
<1>5. QED BY <1>2, <1>3, <1>4 DEF ReachUnlessBroken, Broken

\* The link and the Clash profile of vmess have the same fields of those that
\* count, and sing-box's lacks more.
LEMMA VmessReach ==
    ASSUME XrayTypeOK, inbound.protocol = "vmess"
    PROVE  ReachUnlessBroken
<1> DEFINE n == ProxyNode
           security == IF n.tls THEN "tls" ELSE "none"
           s == inbound.stream
<1>1. n.id = "uuid" /\ FileClient("vmess").id = "uuid"
  BY DEF ProxyNode, FileClient
<1>2. security = s.security <=> s.security # "reality"
  BY NodeFields, BuiltFields DEF Security
<1>3. ASSUME NEW fields, fields \in {{"service", "publicKey"}, {"service", "publicKey", "flow"}},
             NEW p, p = [Leaving(n, fields \cup (IF n.network = "h2" THEN {"path", "host"} ELSE {}))
                           EXCEPT !.security = security]
      PROVE  Reaches(p) <=> ~(\/ s.security = "reality" \/ s.network = "h2"
                              \/ s.network = "grpc" /\ s.service # None)
  <2> DEFINE left == fields \cup (IF n.network = "h2" THEN {"path", "host"} ELSE {})
  <2>1. /\ p.security = security
        /\ \A f \in Fields : f # "security" => p[f] = IF f \in left THEN None ELSE n[f]
    <3>1. p = [Leaving(n, left) EXCEPT !.security = security]
      BY <1>3
    <3>2. DOMAIN n = Fields
      BY NodeFields
    <3> DEFINE q == [Leaving(n, left) EXCEPT !.security = security]
    <3> HIDE DEF n, security, left
    <3>3. /\ q.security = security
          /\ \A f \in Fields : f # "security" => q[f] = IF f \in left THEN None ELSE n[f]
      BY <3>2, Secured
    <3> HIDE DEF q
    <3>4. p = q
      BY <3>1 DEF q
    <3>5. QED BY <3>3, <3>4
  <2>2. \A f \in {"type", "sni", "id", "network"} : f \in Fields /\ f # "security" /\ f \notin left
    BY <1>3 DEF Fields
  <2>3. p.type = n.type /\ p.sni = n.sni /\ p.id = n.id /\ p.network = n.network
    BY <2>1, <2>2
  <2>4. "service" \in left /\ p.service = None
    BY <1>3, <2>1 DEF Fields
  <2>5. ASSUME s.network # "h2" PROVE p.path = n.path /\ p.host = n.host
    <3>1. "path" \notin left /\ "host" \notin left
      BY <1>3, <2>5, NodeFields
    <3>2. QED BY <2>1, <3>1 DEF Fields
  <2>6. ASSUME s.network = "h2" PROVE p.path = None
    <3>1. "path" \in left
      BY <2>6, NodeFields
    <3>2. QED BY <2>1, <3>1 DEF Fields
  <2> HIDE DEF security, left
  <2>7. QED BY <1>1, <1>2, <2>1, <2>3, <2>4, <2>5, <2>6, NodeFields, BuiltFields DEF Reaches
<1>4. ToV2rayLink(n) = [Leaving(n, {"service", "publicKey", "flow"} \cup
                                     (IF n.network = "h2" THEN {"path", "host"} ELSE {}))
                          EXCEPT !.security = security]
  BY NodeFields DEF ToV2rayLink
<1>5. ToClash(n) = [Leaving(n, {"service", "publicKey"} \cup
                                 (IF n.network = "h2" THEN {"path", "host"} ELSE {}))
                      EXCEPT !.security = security]
  BY NodeFields DEF ToClash
<1>6. Reaches(ToSingbox(n)) <=> /\ s.security # "reality" /\ s.network \notin {"h2", "grpc"}
                                /\ s.host = None
  <2> DEFINE q == Leaving(n, {"publicKey", "host"})
             p == [q EXCEPT !.security = security,
                            !.network = IF n.network \in {"ws"} THEN n.network ELSE "tcp"]
  <2>1. ToSingbox(n) = p
    BY NodeFields DEF ToSingbox
  <2>2. /\ DOMAIN q = Fields
        /\ \A f \in Fields : q[f] = IF f \in {"publicKey", "host"} THEN None ELSE n[f]
    BY NodeFields DEF Leaving
  <2> HIDE DEF q, security
  <2>3. p.security = security
    BY <2>2 DEF Fields
  <2>4. p.network = s.network <=> s.network \notin {"h2", "grpc"}
    BY <2>2, NodeFields, BuiltFields DEF Fields, Transport
  <2>5. \A f \in {"type", "sni", "id", "path"} : p[f] = n[f]
    BY <2>2 DEF Fields
  <2>6. p.host = None
    BY <2>2 DEF Fields
  <2> HIDE DEF p
  <2>7. p.type = n.type /\ p.sni = n.sni /\ p.id = n.id /\ p.path = n.path
    BY <2>5
  <2>8. QED BY <1>1, <1>2, <2>1, <2>3, <2>4, <2>6, <2>7, NodeFields DEF Reaches
<1> HIDE DEF n, security
<1>7. QED BY <1>3, <1>4, <1>5, <1>6 DEF ReachUnlessBroken, Broken, n

LEMMA TrojanReach ==
    ASSUME XrayTypeOK, inbound.protocol = "trojan"
    PROVE  ReachUnlessBroken
<1> DEFINE n == ProxyNode
           s == inbound.stream
           left == {"host", "publicKey"} \cup (IF n.network = "h2" THEN {"path"} ELSE {})
           p == [Leaving(n, left) EXCEPT !.security = "tls"]
<1>1. n.password = FileClient("trojan").password
  BY DEF ProxyNode, FileClient
<1>2. ToV2rayLink(n) = p /\ ToClash(n) = p
  BY NodeFields DEF ToV2rayLink, ToClash
<1>3. Reaches(p) <=> s.security = "tls" /\ s.network # "h2" /\ s.host = None
  <2>1. /\ p.security = "tls"
        /\ \A f \in Fields : f # "security" => p[f] = IF f \in left THEN None ELSE n[f]
    <3> HIDE DEF left
    <3>1. QED BY NodeFields, Secured
  <2>2. \A f \in {"type", "sni", "password", "service", "network"} :
           f \in Fields /\ f # "security" /\ f \notin left
    BY DEF Fields
  <2> HIDE DEF p
  <2>3. /\ p.type = n.type /\ p.sni = n.sni /\ p.password = n.password
        /\ p.service = n.service /\ p.network = n.network
    BY <2>1, <2>2
  <2>4. p.host = None
    BY <2>1 DEF Fields
  <2>5. p.path = IF s.network = "h2" THEN None ELSE n.path
    BY <2>1, NodeFields DEF Fields
  <2> HIDE DEF left
  <2>6. QED BY <1>1, <2>1, <2>3, <2>4, <2>5, NodeFields, BuiltFields DEF Reaches
<1>4. Reaches(ToSingbox(n)) <=> s.security = "tls" /\ s.network = "tcp"
  <2> DEFINE q == [n EXCEPT !.security = "tls", !.network = "tcp"]
  <2>1. ToSingbox(n) = q
    BY NodeFields DEF ToSingbox
  <2>2. q.security = "tls" /\ q.network = "tcp"
    BY NodeFields DEF Fields
  <2>3. \A f \in {"type", "sni", "password", "host"} : q[f] = n[f]
    BY NodeFields DEF Fields
  <2> HIDE DEF q
  <2>4. q.type = n.type /\ q.sni = n.sni /\ q.password = n.password /\ q.host = n.host
    BY <2>3
  <2>5. QED BY <1>1, <2>1, <2>2, <2>4, NodeFields DEF Reaches
<1> HIDE DEF n, p
<1>5. s.host # None => s.network = "ws"
  BY BuiltFields
<1>6. QED BY <1>2, <1>3, <1>4, <1>5 DEF ReachUnlessBroken, Broken, n

LEMMA ShadowsocksReach ==
    ASSUME XrayTypeOK, inbound.protocol = "shadowsocks"
    PROVE  ReachUnlessBroken
<1> DEFINE n == ProxyNode
           s == inbound.stream
           p == [n EXCEPT !.network = "tcp", !.security = "none"]
<1>1. ToV2rayLink(n) = p /\ ToClash(n) = p /\ ToSingbox(n) = p
  BY NodeFields DEF ToV2rayLink, ToClash, ToSingbox
<1>2. /\ n.password = FileClient("shadowsocks").password
      /\ n.cipher = FileClient("shadowsocks").method <=> dto.method
  BY DEF ProxyNode, FileClient, None
<1>3. /\ p.security = "none" /\ p.network = "tcp" /\ p.type = n.type
      /\ p.password = n.password /\ p.cipher = n.cipher
  BY NodeFields DEF Fields
<1>4. s.host # None => s.network = "ws"
  BY BuiltFields
<1> HIDE DEF p
<1>5. Reaches(p) <=> s.network = "tcp" /\ s.security = "none" /\ dto.method
  BY <1>2, <1>3, <1>4, NodeFields DEF Reaches
<1>6. QED BY <1>1, <1>5 DEF ReachUnlessBroken, Broken

\* What a user is given reaches the inbound that Xray runs for him exactly
\* where the inbound is not one of the broken ones: the link, the Clash and
\* the sing-box profile, for every form that an operator can have filled in
\* (subscription.service, buildStreamSettings, buildClients).
THEOREM ProfilesCorrect == XraySpec => []ReachUnlessBroken
<1>1. ASSUME XrayTypeOK PROVE ReachUnlessBroken
  <2>1. CASE inbound.protocol \in {"socks", "http"}
    BY <2>1 DEF ReachUnlessBroken, Broken, Reaches
  <2>2. inbound.protocol \in Protocol
    BY <1>1, BuiltFields
  <2>3. QED BY <1>1, <2>1, <2>2, VlessReach, VmessReach, TrojanReach, ShadowsocksReach DEF Protocol
<1>2. QED BY <1>1, XrayTypeCorrect, PTL

\* Of the valid configurations, the check before a push (grpc-agent.service)
\* refuses exactly those of shadowsocks and those of a node with a rule.
THEOREM RefusedExactly ==
    XraySpec => [](Valid([inbound |-> inbound, rules |-> rules])
                   => (Valid(PushedRows) <=> inbound.protocol # "shadowsocks" /\ DOMAIN rules = {}))
<1>1. ASSUME XrayTypeOK
      PROVE  Valid(PushedRows) <=> inbound.protocol # "shadowsocks" /\ DOMAIN rules = {}
  <2>1. InboundValid(PushedRows.inbound) <=> inbound.protocol # "shadowsocks"
    BY <1>1 DEF XrayTypeOK, BuiltInbound, StreamSettings, PushedRows, InboundValid, StreamValid
  <2>2. Range(PushedRows.rules) = {Rule(rules[i].match, None) : i \in DOMAIN rules}
    BY DEF PushedRows, Range
  <2>3. \A m : Rule(m, None).target = None
    BY DEF Rule
  <2>4. (\A x \in Range(PushedRows.rules) : x.target # None) <=> DOMAIN rules = {}
    BY <2>2, <2>3
  <2>5. QED BY <2>1, <2>4 DEF Valid
<1>2. QED BY <1>1, XrayTypeCorrect, PTL
=============================================================================
