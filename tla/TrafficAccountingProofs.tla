---------------------- MODULE TrafficAccountingProofs -----------------------
(***************************************************************************)
(* Proofs about TrafficAccounting, for every set of clients, every number  *)
(* of retries and every load: type correctness, conservation of the bytes  *)
(* on the buffer path, the bounds on usedBytes and on the charts, and the  *)
(* refinement of Metering.                                                 *)
(***************************************************************************)
EXTENDS TrafficAccounting, TLAPS

\* The sum of two amounts is an amount, and is taken key by key.
LEMMA PlusBytes ==
    ASSUME NEW a \in Bytes, NEW b \in Bytes
    PROVE  /\ Plus(a, b) \in Bytes
           /\ \A k \in Key : Plus(a, b)[k] = a[k] + b[k]
BY DEF Plus, Bytes

\* Nothing is an amount.
LEMMA ZeroBytes == Zero \in Bytes /\ \A k \in Key : Zero[k] = 0
BY DEF Zero, Bytes

\* What a client used in an amount is a natural number.
LEMMA TotalNat ==
    ASSUME NEW a \in Bytes, NEW c \in Clients
    PROVE  Total(a, c) \in Nat
BY DEF Total, Bytes, Key, Dirs

\* The records that stand for "no work" have the right type.
LEMMA IdleTypes ==
    /\ \A pc \in {"idle", "sending", "restart"} : NoRequest(pc) \in Request
    /\ \A r \in Loops : Ended(r) \in Request
    /\ NoHandler \in Handler
    /\ AggIdle \in AggJob
    /\ TsIdle \in TsJob
<1>1. (CHOOSE c \in Clients : TRUE) \in Clients
  BY ClientsAssumption
<1>2. 0 \in 0..RetryCount
  BY RetryAssumption
<1>3. \A pc \in {"idle", "sending", "restart"} : NoRequest(pc) \in Request
  BY <1>2, ZeroBytes DEF NoRequest, Request
<1>4. \A r \in Loops : Ended(r) \in Request
  BY <1>3 DEF Ended
<1>5. TsIdle \in TsJob
  BY <1>1, ZeroBytes DEF TsIdle, TsJob
<1> QED
  BY <1>3, <1>4, <1>5, ZeroBytes DEF NoHandler, Handler, AggIdle, AggJob

\* What doRequest does after a failed attempt keeps the request well typed.
LEMMA RetriedType ==
    ASSUME TypeOK, NEW r \in Loops, NEW d \in BOOLEAN
    PROVE  Retried(r, d) \in Request
<1>1. req[r] \in Request
  BY DEF TypeOK
<1>2. CASE req[r].attempt < RetryCount
  <2>1. req[r].attempt + 1 \in 0..RetryCount
    BY <1>1, <1>2, RetryAssumption DEF Request
  <2>2. Retried(r, d) = [req[r] EXCEPT !.pc = "sending",
                                       !.attempt = @ + 1, !.drained = d]
    BY <1>2 DEF Retried
  <2> QED
    BY <1>1, <2>1, <2>2 DEF Request
<1>3. CASE ~(req[r].attempt < RetryCount)
  BY <1>3, IdleTypes DEF Retried
<1> QED
  BY <1>2, <1>3

\* The bytes a loop still holds are an amount.
LEMMA UnsentBytes ==
    ASSUME TypeOK, NEW r \in Loops
    PROVE  Unsent(r) \in Bytes
BY ZeroBytes DEF TypeOK, Request, Unsent

\* While the aggregation job is between LRANGE and DEL, the list holds at
\* least what it read: only the job removes from it.
AggSnapshot == agg.pc = "read" => \A k \in Key : agg.amt[k] <= buffer[k]

\* Carrier by carrier, every action keeps the types.
LEMMA TypeStep == TypeOK /\ AggSnapshot /\ [Next]_vars => TypeOK'
<1> SUFFICES ASSUME TypeOK, AggSnapshot, [Next]_vars PROVE TypeOK'
  OBVIOUS
<1> USE PlusBytes, ZeroBytes, IdleTypes
<1>1. ASSUME NEW k \in Key, Meter(k) PROVE TypeOK'
  BY <1>1 DEF Meter, TypeOK, Bytes, netVars, dbVars
<1>2. CASE XrayCrash
  BY <1>2 DEF XrayCrash, TypeOK, netVars, dbVars
<1>3. CASE FlushNothing
  BY <1>3 DEF FlushNothing, TypeOK, netVars, dbVars, Loops
<1>4. CASE Restart
  BY <1>4 DEF Restart, TypeOK, netVars, dbVars, Loops
<1>5. ASSUME NEW r \in Loops, Collect(r) PROVE TypeOK'
  <2>1. [NoRequest("sending") EXCEPT !.body = xray] \in Request
    BY DEF TypeOK, Request
  <2> QED
    BY <1>5, <2>1 DEF Collect, TypeOK, dbVars
<1>6. ASSUME NEW r \in Loops, ConnectFails(r) PROVE TypeOK'
  <2>1. req[r].drained \in BOOLEAN
    BY DEF TypeOK, Request
  <2>2. Retried(r, req[r].drained) \in Request
    BY <2>1, RetriedType
  <2> QED
    BY <1>6, <2>2, UnsentBytes DEF ConnectFails, TypeOK, dbVars
<1>7. ASSUME NEW r \in Loops, SendTorn(r) PROVE TypeOK'
  <2>1. Retried(r, TRUE) \in Request
    BY RetriedType
  <2>2. req[r].body \in Bytes
    BY DEF TypeOK, Request
  <2> QED
    BY <1>7, <2>1, <2>2 DEF SendTorn, TypeOK, dbVars
<1>8. ASSUME NEW r \in Loops, Deliver(r) PROVE TypeOK'
  BY <1>8 DEF Deliver, TypeOK, Request, Handler, dbVars
<1>9. ASSUME NEW r \in Loops, DeliverEmpty(r) PROVE TypeOK'
  BY <1>9 DEF DeliverEmpty, TypeOK, dbVars
<1>10. ASSUME NEW r \in Loops, Answer(r) PROVE TypeOK'
  BY <1>10, RetriedType DEF Answer, TypeOK, dbVars
<1>11. ASSUME NEW r \in Loops, AnswerLost(r) PROVE TypeOK'
  BY <1>11, RetriedType DEF AnswerLost, TypeOK, dbVars
<1>12. ASSUME NEW r \in Loops, IncrTraffic(r) PROVE TypeOK'
  BY <1>12 DEF IncrTraffic, TypeOK, Handler, dbVars
<1>13. ASSUME NEW r \in Loops, PushTraffic(r) PROVE TypeOK'
  BY <1>13 DEF PushTraffic, Finished, TypeOK, Handler, dbVars
<1>14. ASSUME NEW r \in Loops, HandlerFails(r) PROVE TypeOK'
  BY <1>14 DEF HandlerFails, Finished, TypeOK, Handler, dbVars
<1>15. CASE AggRead
  BY <1>15 DEF AggRead, TypeOK, AggJob, netVars, dbVars
<1>16. CASE AggDel
  <2>1. \A k \in Key : lost[k] + (buffer[k] - agg.amt[k]) \in Nat
    BY <1>16 DEF AggDel, AggSnapshot, TypeOK, AggJob, Bytes
  <2> QED
    BY <1>16, <2>1 DEF AggDel, TypeOK, AggJob, Bytes, netVars, dbVars
<1>17. CASE AggCommit
  <2>1. agg.amt \in Bytes
    BY DEF TypeOK, AggJob
  <2>2. /\ stats' \in [Inbounds -> Bytes]
        /\ billed' \in Bytes /\ lost' \in Bytes
    BY <1>17, <2>1 DEF AggCommit, TypeOK, Bytes
  <2>3. used' \in [Clients -> Nat]
    BY <1>17, <2>1, TotalNat DEF AggCommit, TypeOK
  <2> QED
    BY <1>17, <2>2, <2>3 DEF AggCommit, TypeOK, netVars
<1>18. CASE AggFails
  BY <1>18 DEF AggFails, TypeOK, AggJob, netVars, dbVars
<1>19. ASSUME NEW c \in Clients, TsTake(c) PROVE TypeOK'
  BY <1>19 DEF TsTake, TypeOK, TsJob, Bytes, netVars, dbVars
<1>20. CASE TsSeries
  BY <1>20 DEF TsSeries, TypeOK, TsJob, netVars
<1>21. CASE TsBill
  <2>1. Total(ts.amt, ts.client) \in Nat
    BY TotalNat DEF TypeOK, TsJob
  <2> QED
    BY <1>21, <2>1 DEF TsBill, TypeOK, TsJob, netVars
<1>22. CASE TsDrop
  BY <1>22 DEF TsDrop, TypeOK, netVars, dbVars
<1>23. ASSUME NEW c \in Clients, ResetTraffic(c) PROVE TypeOK'
  BY <1>23 DEF ResetTraffic, TypeOK, netVars
<1>24. CASE ApiCrash
  <2>1. /\ handler["ticker"].amt \in Bytes /\ handler["flush"].amt \in Bytes
        /\ agg.amt \in Bytes
    BY DEF TypeOK, Handler, AggJob, Loops
  <2>2. lost' \in Bytes
    BY <1>24, <2>1 DEF ApiCrash, TypeOK, Bytes
  <2> QED
    BY <1>24, <2>2 DEF ApiCrash, TypeOK, dbVars
<1>25. CASE UNCHANGED vars
  BY <1>25 DEF vars, netVars, dbVars, TypeOK
<1> QED
  BY <1>1, <1>2, <1>3, <1>4, <1>5, <1>6, <1>7, <1>8, <1>9, <1>10, <1>11,
     <1>12, <1>13, <1>14, <1>15, <1>16, <1>17, <1>18, <1>19, <1>20, <1>21,
     <1>22, <1>23, <1>24, <1>25
     DEF Next, AgentStep, HandlerStep, AggStep, TsStep

\* Initially every carrier is empty and well typed.
LEMMA TypeInit == Init => TypeOK
BY ZeroBytes, IdleTypes DEF Init, TypeOK

\* The snapshot bound is kept: the list only grows until the job deletes it.
LEMMA SnapshotStep == TypeOK /\ AggSnapshot /\ [Next]_vars => AggSnapshot'
<1> SUFFICES ASSUME TypeOK, AggSnapshot, [Next]_vars PROVE AggSnapshot'
  OBVIOUS
<1> USE DEF AggSnapshot
<1>1. CASE AggRead
  BY <1>1 DEF AggRead, TypeOK, Bytes
<1>2. CASE AggDel \/ AggCommit \/ AggFails \/ ApiCrash
  <2>1. agg'.pc \in {"idle", "popped"}
    BY <1>2 DEF AggDel, AggCommit, AggFails, ApiCrash, AggIdle, TypeOK, AggJob
  <2> QED
    BY <2>1
<1>3. ASSUME NEW r \in Loops, PushTraffic(r) PROVE AggSnapshot'
  <2>1. handler[r].amt \in Bytes /\ buffer \in Bytes /\ agg.amt \in Bytes
    BY DEF TypeOK, Handler, AggJob
  <2> QED
    BY <1>3, <2>1, PlusBytes DEF PushTraffic, Bytes
<1>4. CASE UNCHANGED <<buffer, agg>>
  BY <1>4
<1> QED
  BY <1>1, <1>2, <1>3, <1>4
     DEF Next, AgentStep, HandlerStep, AggStep, TsStep, vars, Meter, XrayCrash,
         FlushNothing, Restart, Collect, ConnectFails, SendTorn, Deliver,
         DeliverEmpty, Answer, AnswerLost, IncrTraffic, HandlerFails, TsTake,
         TsSeries, TsBill, TsDrop, ResetTraffic

\* Every reachable state is well typed; in particular no amount is negative,
\* for all clients, loads and retry counts.
THEOREM TypeCorrect == Spec => []TypeOK
<1>1. Init => TypeOK /\ AggSnapshot
  BY TypeInit DEF Init, AggSnapshot, AggIdle
<1>2. TypeOK /\ AggSnapshot /\ [Next]_vars => (TypeOK /\ AggSnapshot)'
  BY TypeStep, SnapshotStep
<1> QED
  BY <1>1, <1>2, PTL DEF Spec
-----------------------------------------------------------------------------
\* A loop that sends nothing holds nothing, a loop that waits has spent its
\* body, and a handler that is not at work carries nothing.
WorkInv ==
    \A r \in Loops :
        /\ req[r].pc \in {"idle", "restart"} => \A k \in Key : req[r].body[k] = 0
        /\ req[r].pc = "waiting" => req[r].drained
        /\ handler[r].pc \notin {"count", "push"} =>
               \A k \in Key : handler[r].amt[k] = 0

\* Where doRequest goes after a failure never breaks the first two parts.
LEMMA RetriedWork ==
    ASSUME TypeOK, NEW r \in Loops, NEW d \in BOOLEAN
    PROVE  /\ Retried(r, d).pc # "waiting"
           /\ Retried(r, d).pc \in {"idle", "restart"} =>
                  \A k \in Key : Retried(r, d).body[k] = 0
           /\ ~GivesUp(r) => /\ Retried(r, d).body = req[r].body
                             /\ Retried(r, d).drained = d
           /\ GivesUp(r) => \A k \in Key : Retried(r, d).body[k] = 0
<1>1. req[r] \in Request
  BY DEF TypeOK
<1>2. CASE req[r].attempt < RetryCount
  <2>1. Retried(r, d) = [req[r] EXCEPT !.pc = "sending",
                                       !.attempt = @ + 1, !.drained = d]
    BY <1>2 DEF Retried
  <2>2. ~GivesUp(r)
    BY <1>1, <1>2, RetryAssumption DEF GivesUp, Request
  <2> QED
    BY <1>1, <2>1, <2>2 DEF Request
<1>3. CASE ~(req[r].attempt < RetryCount)
  <2>1. GivesUp(r)
    BY <1>1, <1>3, RetryAssumption DEF GivesUp, Request
  <2> QED
    BY <1>3, <2>1, ZeroBytes DEF Retried, Ended, NoRequest
<1> QED
  BY <1>2, <1>3

\* Every action keeps the facts about who holds a report.
LEMMA WorkStep == TypeOK /\ WorkInv /\ [Next]_vars => WorkInv'
<1> SUFFICES ASSUME TypeOK, WorkInv, [Next]_vars PROVE WorkInv'
  OBVIOUS
<1> USE DEF WorkInv
<1>1. CASE FlushNothing \/ Restart
  BY <1>1, ZeroBytes DEF FlushNothing, Restart, NoRequest, TypeOK
<1>2. ASSUME NEW r \in Loops, Collect(r) PROVE WorkInv'
  BY <1>2 DEF Collect, NoRequest, TypeOK
<1>3. ASSUME NEW r \in Loops, ConnectFails(r) PROVE WorkInv'
  <2>1. req[r].drained \in BOOLEAN
    BY DEF TypeOK, Request
  <2> QED
    BY <1>3, <2>1, RetriedWork DEF ConnectFails, TypeOK
<1>4. ASSUME NEW r \in Loops, SendTorn(r) PROVE WorkInv'
  BY <1>4, RetriedWork DEF SendTorn, TypeOK
<1>5. ASSUME NEW r \in Loops, Deliver(r) PROVE WorkInv'
  BY <1>5 DEF Deliver, TypeOK, Request
<1>6. ASSUME NEW r \in Loops, DeliverEmpty(r) PROVE WorkInv'
  BY <1>6, ZeroBytes DEF DeliverEmpty, Ended, NoRequest, TypeOK
<1>7. ASSUME NEW r \in Loops, Answer(r) PROVE WorkInv'
  BY <1>7, RetriedWork, ZeroBytes DEF Answer, Ended, NoRequest, NoHandler, TypeOK
<1>8. ASSUME NEW r \in Loops, AnswerLost(r) PROVE WorkInv'
  BY <1>8, RetriedWork, ZeroBytes DEF AnswerLost, NoHandler, TypeOK
<1>9. ASSUME NEW r \in Loops, HandlerStep(r) PROVE WorkInv'
  BY <1>9, ZeroBytes DEF HandlerStep, IncrTraffic, PushTraffic, HandlerFails,
                         Finished, NoHandler, TypeOK, Handler
<1>10. CASE ApiCrash
  BY <1>10, ZeroBytes DEF ApiCrash, NoHandler
<1>11. CASE UNCHANGED <<req, handler>>
  BY <1>11
<1> QED
  BY <1>1, <1>2, <1>3, <1>4, <1>5, <1>6, <1>7, <1>8, <1>9, <1>10, <1>11
     DEF Next, AgentStep, AggStep, TsStep, vars, netVars, Meter, XrayCrash,
         AggRead, AggDel, AggCommit, AggFails, TsTake, TsSeries, TsBill, TsDrop,
         ResetTraffic

\* The two parts of Conservation.
Balance == \A k \in Key : metered[k] = Pipeline(k) + billed[k] + lost[k]
RowsMatch == \A k \in Key : \A i \in Reaches(k[1]) : stats[i][k] = billed[k]

\* No step of the agent, the handlers, the jobs or a crash creates or forgets
\* a byte on the buffer path.
LEMMA BalanceStep ==
    TypeOK /\ AggSnapshot /\ WorkInv /\ Balance /\ [Next]_vars
        => Balance'
<1> DEFINE Sum(k) == Pipeline(k) + billed[k] + lost[k]
<1> SUFFICES ASSUME TypeOK, AggSnapshot, WorkInv, Balance, [Next]_vars,
                    NEW k \in Key
             PROVE  metered'[k] = Sum(k)'
  BY DEF Balance
<1>0. /\ metered[k] = Sum(k)
      /\ \A r \in Loops : /\ req[r].body[k] \in Nat /\ handler[r].amt[k] \in Nat
                          /\ Unsent(r)[k] \in Nat /\ req[r] \in Request
                          /\ handler[r] \in Handler
      /\ agg \in AggJob /\ agg.amt[k] \in Nat
      /\ xray[k] \in Nat /\ buffer[k] \in Nat /\ billed[k] \in Nat
      /\ metered[k] \in Nat /\ lost[k] \in Nat
  BY UnsentBytes DEF Balance, TypeOK, Request, Handler, AggJob, Bytes
<1> USE <1>0 DEF Pipeline, Loops
<1>1. ASSUME NEW j \in Key, Meter(j) PROVE metered'[k] = Sum(k)'
  <2>1. \A q \in Loops : Unsent(q)'[k] = Unsent(q)[k]
    BY <1>1 DEF Meter, Unsent, netVars
  <2>2. metered'[k] - metered[k] = xray'[k] - xray[k] /\ xray'[k] \in Nat
    BY <1>1 DEF Meter, TypeOK, Bytes
  <2>3. metered'[k] \in Nat
    BY <1>1 DEF Meter, TypeOK, Bytes
  <2> QED
    BY <1>1, <2>1, <2>2, <2>3 DEF Meter, netVars, dbVars
<1>2. CASE XrayCrash
  <2>1. \A q \in Loops : Unsent(q)'[k] = Unsent(q)[k]
    BY <1>2 DEF XrayCrash, Unsent, netVars
  <2> QED
    BY <1>2, <2>1, PlusBytes, ZeroBytes DEF XrayCrash, netVars, dbVars, TypeOK
<1>3. CASE FlushNothing \/ Restart
  <2>1. /\ Unsent("flush")[k] = 0 /\ Unsent("flush")'[k] = 0
        /\ Unsent("ticker")'[k] = Unsent("ticker")[k]
    BY <1>3, ZeroBytes DEF FlushNothing, Restart, Unsent, WorkInv, NoRequest,
                           Loops, TypeOK
  <2> QED
    BY <1>3, <2>1, PlusBytes, ZeroBytes DEF FlushNothing, Restart, dbVars, TypeOK
<1>4. ASSUME NEW r \in Loops, Collect(r) PROVE metered'[k] = Sum(k)'
  <2>1. /\ Unsent(r)[k] = 0 /\ Unsent(r)'[k] = xray[k]
        /\ \A q \in Loops \ {r} : Unsent(q)'[k] = Unsent(q)[k]
    BY <1>4, ZeroBytes DEF Collect, Unsent, WorkInv, NoRequest, TypeOK
  <2> QED
    BY <1>4, <2>1, ZeroBytes DEF Collect, dbVars, Loops
<1>5. ASSUME NEW r \in Loops, ConnectFails(r) PROVE metered'[k] = Sum(k)'
  <2>1. req[r].drained \in BOOLEAN
    BY DEF Request
  <2>2. Unsent(r)'[k] = IF GivesUp(r) THEN 0 ELSE Unsent(r)[k]
    BY <1>5, <2>1, RetriedWork, ZeroBytes DEF ConnectFails, Unsent, TypeOK
  <2>3. \A q \in Loops \ {r} : Unsent(q)'[k] = Unsent(q)[k]
    BY <1>5 DEF ConnectFails, Unsent, TypeOK
  <2>4. lost'[k] = IF GivesUp(r) THEN lost[k] + Unsent(r)[k] ELSE lost[k]
    BY <1>5, PlusBytes, UnsentBytes DEF ConnectFails, TypeOK
  <2> QED
    BY <1>5, <2>2, <2>3, <2>4 DEF ConnectFails, dbVars, Loops
<1>6. ASSUME NEW r \in Loops, SendTorn(r) PROVE metered'[k] = Sum(k)'
  <2>1. Unsent(r)[k] = req[r].body[k] /\ Unsent(r)'[k] = 0
    BY <1>6, RetriedWork, ZeroBytes DEF SendTorn, Unsent, TypeOK
  <2>2. \A q \in Loops \ {r} : Unsent(q)'[k] = Unsent(q)[k]
    BY <1>6 DEF SendTorn, Unsent, TypeOK
  <2>3. lost'[k] = lost[k] + req[r].body[k]
    BY <1>6, PlusBytes DEF SendTorn, TypeOK, Request
  <2> QED
    BY <1>6, <2>1, <2>2, <2>3 DEF SendTorn, dbVars, Loops
<1>7. ASSUME NEW r \in Loops, Deliver(r) PROVE metered'[k] = Sum(k)'
  <2>1. /\ Unsent(r)[k] = req[r].body[k] /\ Unsent(r)'[k] = 0
        /\ handler[r].amt[k] = 0 /\ handler'[r].amt[k] = req[r].body[k]
    BY <1>7, ZeroBytes DEF Deliver, Unsent, WorkInv, TypeOK, Request
  <2>2. \A q \in Loops \ {r} : /\ Unsent(q)'[k] = Unsent(q)[k]
                               /\ handler'[q] = handler[q]
    BY <1>7 DEF Deliver, Unsent, TypeOK
  <2> QED
    BY <1>7, <2>1, <2>2 DEF Deliver, dbVars, Loops
<1>8. ASSUME NEW r \in Loops, DeliverEmpty(r) \/ Answer(r) \/ AnswerLost(r)
      PROVE  metered'[k] = Sum(k)'
  <2>1. req[r].drained
    BY <1>8 DEF DeliverEmpty, Answer, AnswerLost, WorkInv
  <2>2. Unsent(r)[k] = 0
    BY <2>1, ZeroBytes DEF Unsent
  <2>3. req'[r] = Ended(r) \/ req'[r] = Retried(r, TRUE)
    BY <1>8 DEF DeliverEmpty, Answer, AnswerLost, TypeOK
  <2>4. Unsent(r)'[k] = 0
    <3>1. CASE req'[r] = Ended(r)
      BY <3>1, ZeroBytes DEF Unsent, Ended, NoRequest
    <3>2. CASE req'[r] = Retried(r, TRUE)
      BY <3>2, RetriedWork, ZeroBytes DEF Unsent
    <3> QED
      BY <2>3, <3>1, <3>2
  <2>5. \/ handler'[r] = handler[r]
        \/ (handler'[r] = NoHandler /\ handler[r].pc \in {"ok", "failed"})
    BY <1>8 DEF DeliverEmpty, Answer, AnswerLost, TypeOK
  <2>6. handler'[r].amt[k] = handler[r].amt[k]
    BY <2>5, ZeroBytes DEF WorkInv, NoHandler
  <2>7. \A q \in Loops \ {r} : /\ Unsent(q)'[k] = Unsent(q)[k]
                               /\ handler'[q] = handler[q]
    BY <1>8 DEF DeliverEmpty, Answer, AnswerLost, Unsent, TypeOK
  <2>8. \A q \in Loops : /\ Unsent(q)'[k] = Unsent(q)[k]
                         /\ handler'[q].amt[k] = handler[q].amt[k]
    BY <2>2, <2>4, <2>6, <2>7
  <2> QED
    BY <1>8, <2>8
       DEF DeliverEmpty, Answer, AnswerLost, dbVars, Loops
<1>9. ASSUME NEW r \in Loops, HandlerStep(r) PROVE metered'[k] = Sum(k)'
  <2>1. \A q \in Loops \ {r} : handler'[q] = handler[q]
    BY <1>9 DEF HandlerStep, IncrTraffic, PushTraffic, HandlerFails, TypeOK
  <2>2. \A q \in Loops : Unsent(q)'[k] = Unsent(q)[k]
    BY <1>9 DEF HandlerStep, IncrTraffic, PushTraffic, HandlerFails, Unsent
  <2>3. handler[r].amt \in Bytes
    BY DEF Handler
  <2>4. /\ handler'[r].amt[k] + buffer'[k] + lost'[k]
             = handler[r].amt[k] + buffer[k] + lost[k]
        /\ handler'[r].amt[k] \in Nat /\ buffer'[k] \in Nat /\ lost'[k] \in Nat
    <3>1. CASE IncrTraffic(r)
      BY <3>1 DEF IncrTraffic, TypeOK, Handler
    <3>2. Finished(r, "ok").amt[k] = 0 /\ Finished(r, "failed").amt[k] = 0
      BY ZeroBytes DEF Finished, NoHandler
    <3>3. CASE PushTraffic(r)
      BY <2>3, <3>2, <3>3, PlusBytes DEF PushTraffic, TypeOK
    <3>4. CASE HandlerFails(r)
      BY <2>3, <3>2, <3>4, PlusBytes DEF HandlerFails, TypeOK
    <3> QED
      BY <1>9, <3>1, <3>3, <3>4 DEF HandlerStep
  <2>5. UNCHANGED <<xray, agg, billed, metered>>
    BY <1>9 DEF HandlerStep, IncrTraffic, PushTraffic, HandlerFails, dbVars
  <2>6. CASE r = "ticker"
    <3>1. handler'["flush"].amt[k] = handler["flush"].amt[k]
      BY <2>1, <2>6 DEF Loops
    <3>2. /\ Unsent("ticker")'[k] = Unsent("ticker")[k]
          /\ Unsent("flush")'[k] = Unsent("flush")[k]
      BY <2>2 DEF Loops
    <3> QED
      BY <2>4, <2>5, <2>6, <3>1, <3>2
  <2>7. CASE r = "flush"
    <3>1. handler'["ticker"].amt[k] = handler["ticker"].amt[k]
      BY <2>1, <2>7 DEF Loops
    <3>2. /\ Unsent("ticker")'[k] = Unsent("ticker")[k]
          /\ Unsent("flush")'[k] = Unsent("flush")[k]
      BY <2>2 DEF Loops
    <3> QED
      BY <2>4, <2>5, <2>7, <3>1, <3>2
  <2> QED
    BY <2>6, <2>7 DEF Loops
<1>10. CASE AggRead \/ AggFails
  <2>1. \A q \in Loops : Unsent(q)'[k] = Unsent(q)[k]
    BY <1>10 DEF AggRead, AggFails, Unsent, netVars
  <2> QED
    BY <1>10, <2>1, PlusBytes
       DEF AggRead, AggFails, AggIdle, AggJob, netVars, dbVars, TypeOK
<1>11. CASE AggDel
  <2>1. \A q \in Loops : Unsent(q)'[k] = Unsent(q)[k]
    BY <1>11 DEF AggDel, Unsent, netVars
  <2>2. agg'.pc = "popped" /\ agg'.amt = agg.amt
    BY <1>11 DEF AggDel, AggJob
  <2>3. agg.amt[k] <= buffer[k] /\ agg.pc = "read"
    BY <1>11 DEF AggDel, AggSnapshot
  <2> QED
    BY <1>11, <2>1, <2>2, <2>3, ZeroBytes DEF AggDel, netVars, dbVars
<1>12. CASE AggCommit
  <2>1. \A q \in Loops : Unsent(q)'[k] = Unsent(q)[k]
    BY <1>12 DEF AggCommit, Unsent, netVars
  <2>2. agg'.pc = "idle" /\ agg.pc = "popped"
    BY <1>12 DEF AggCommit, AggIdle
  <2>3. billed'[k] + lost'[k] = billed[k] + lost[k] + agg.amt[k]
    BY <1>12 DEF AggCommit
  <2>4. billed'[k] \in Nat /\ lost'[k] \in Nat
    BY <1>12 DEF AggCommit
  <2> QED
    BY <1>12, <2>1, <2>2, <2>3, <2>4 DEF AggCommit, netVars
<1>13. CASE ApiCrash
  <2>1. \A q \in Loops : /\ Unsent(q)'[k] = Unsent(q)[k]
                         /\ handler'[q].amt[k] = 0
    BY <1>13, ZeroBytes DEF ApiCrash, Unsent, NoHandler
  <2> QED
    BY <1>13, <2>1 DEF ApiCrash, AggIdle, dbVars, Loops
<1>14. CASE UNCHANGED <<xray, req, handler, buffer, agg, billed, metered, lost>>
  BY <1>14 DEF Unsent
<1> QED
  BY <1>1, <1>2, <1>3, <1>4, <1>5, <1>6, <1>7, <1>8, <1>9, <1>10, <1>11,
     <1>12, <1>13, <1>14
     DEF Next, AgentStep, AggStep, TsStep, vars, netVars, dbVars, TsTake,
         TsSeries, TsBill, TsDrop, ResetTraffic


\* The transaction adds the same bytes to every row of a client.
LEMMA RowsStep == TypeOK /\ RowsMatch /\ [Next]_vars => RowsMatch'
<1> SUFFICES ASSUME TypeOK, RowsMatch, [Next]_vars, NEW k \in Key,
                    NEW i \in Reaches(k[1])
             PROVE  stats'[i][k] = billed'[k]
  BY DEF RowsMatch, Reaches
<1>1. stats[i][k] = billed[k]
  BY DEF RowsMatch
<1>2. k[1] \in Known /\ i \in Inbounds
  BY AccessAssumption DEF Reaches
<1>3. CASE AggCommit
  BY <1>1, <1>2, <1>3 DEF AggCommit
<1>4. CASE UNCHANGED <<stats, billed>>
  BY <1>1, <1>4
<1> QED
  BY <1>3, <1>4
     DEF Next, AgentStep, HandlerStep, AggStep, TsStep, vars, dbVars, Meter,
         XrayCrash, FlushNothing, Restart, Collect, ConnectFails, SendTorn,
         Deliver, DeliverEmpty, Answer, AnswerLost, IncrTraffic, PushTraffic,
         HandlerFails, AggRead, AggDel, AggFails, TsTake, TsSeries, TsBill,
         TsDrop, ResetTraffic, ApiCrash

\* No byte is settled twice: every metered byte is in exactly one place of the
\* path from Xray's counters to ClientStats, through retries, lost answers and
\* the two commands of popAllTraffic.
THEOREM ConservationCorrect == Spec => []Conservation
<1>1. Init => TypeOK /\ AggSnapshot /\ WorkInv /\ Balance /\ RowsMatch
  <2> SUFFICES ASSUME Init PROVE TypeOK /\ AggSnapshot /\ WorkInv /\ Balance /\ RowsMatch
    OBVIOUS
  <2>1. TypeOK /\ AggSnapshot
    BY TypeInit DEF Init, AggSnapshot, AggIdle
  <2>2. WorkInv
    BY ZeroBytes DEF Init, WorkInv, NoRequest, NoHandler
  <2>3. Balance
    BY ZeroBytes DEF Init, Balance, Pipeline, Unsent, NoRequest, NoHandler,
                     AggIdle, Loops
  <2>4. RowsMatch
    BY AccessAssumption DEF Init, RowsMatch, Reaches
  <2> QED
    BY <2>1, <2>2, <2>3, <2>4
<1>2. TypeOK /\ AggSnapshot /\ WorkInv /\ Balance /\ RowsMatch /\ [Next]_vars
        => (TypeOK /\ AggSnapshot /\ WorkInv /\ Balance /\ RowsMatch)'
  BY TypeStep, SnapshotStep, WorkStep, BalanceStep, RowsStep
<1>3. Balance /\ RowsMatch => Conservation
  BY DEF Balance, RowsMatch, Conservation
<1> QED
  BY <1>1, <1>2, <1>3, PTL DEF Spec
-----------------------------------------------------------------------------
\* What the timeseries job has charted and not yet billed to client c.
Unbilled(c) == IF ts.pc = "bill" /\ ts.client = c THEN Total(ts.amt, c) ELSE 0

\* The inductive form of UsedWithinBothPaths: the bill that is still to come
\* is already in the chart.
BilledInv ==
    \A c \in Clients :
        used[c] + Unbilled(c) <= Total(billed, c) + Total(series, c)

\* Adding amounts adds what a client used in them.
LEMMA TotalPlus ==
    ASSUME NEW a \in Bytes, NEW b \in Bytes, NEW c \in Clients
    PROVE  Total(Plus(a, b), c) = Total(a, c) + Total(b, c)
<1>1. <<c, "up">> \in Key /\ <<c, "down">> \in Key
  BY DEF Key, Dirs
<1>2. /\ a[<<c, "up">>] \in Nat /\ a[<<c, "down">>] \in Nat
      /\ b[<<c, "up">>] \in Nat /\ b[<<c, "down">>] \in Nat
  BY <1>1 DEF Bytes
<1> QED
  BY <1>1, <1>2, PlusBytes DEF Total

\* No step of the jobs, an operator's reset or a crash bills more than both
\* tables recorded.
LEMMA BilledStep == TypeOK /\ BilledInv /\ [Next]_vars => BilledInv'
<1> SUFFICES ASSUME TypeOK, BilledInv, [Next]_vars, NEW c \in Clients
             PROVE  used'[c] + Unbilled(c)' <= Total(billed, c)' + Total(series, c)'
  BY DEF BilledInv
<1>0. /\ used[c] + Unbilled(c) <= Total(billed, c) + Total(series, c)
      /\ used[c] \in Nat /\ Total(billed, c) \in Nat /\ Total(series, c) \in Nat
      /\ ts.amt \in Bytes /\ Total(ts.amt, c) \in Nat /\ ts.client \in Clients
      /\ agg.amt \in Bytes /\ Total(agg.amt, c) \in Nat
      /\ billed \in Bytes /\ series \in Bytes
      /\ Unbilled(c) \in Nat
  BY TotalNat DEF BilledInv, TypeOK, TsJob, AggJob, Unbilled
<1> USE <1>0
<1>1. CASE AggCommit
  <2>1. Total(billed, c)' = Total(billed, c)
                             + IF c \in Known THEN Total(agg.amt, c) ELSE 0
    <3>1. <<c, "up">> \in Key /\ <<c, "down">> \in Key
      BY DEF Key, Dirs
    <3>2. /\ billed[<<c, "up">>] \in Nat /\ billed[<<c, "down">>] \in Nat
          /\ agg.amt[<<c, "up">>] \in Nat /\ agg.amt[<<c, "down">>] \in Nat
      BY <3>1 DEF Bytes
    <3> QED
      BY <1>1, <3>1, <3>2 DEF AggCommit, Total
  <2>2. used'[c] = used[c] + IF c \in Known THEN Total(agg.amt, c) ELSE 0
    BY <1>1 DEF AggCommit
  <2>3. Unbilled(c)' = Unbilled(c) /\ Total(series, c)' = Total(series, c)
    BY <1>1 DEF AggCommit, Unbilled
  <2> QED
    BY <2>1, <2>2, <2>3
<1>2. CASE \E d \in Clients : TsTake(d)
  <2>1. Unbilled(c)' = 0 /\ Unbilled(c) = 0
    BY <1>2 DEF TsTake, Unbilled
  <2> QED
    BY <1>2, <2>1 DEF TsTake, dbVars, Total
<1>3. CASE TsSeries
  <2>1. Total(series, c)' = Total(series, c) + Total(ts.amt, c)
    BY <1>3, TotalPlus DEF TsSeries, Total
  <2>2. Unbilled(c) = 0
    BY <1>3 DEF TsSeries, Unbilled
  <2>3. Unbilled(c)' \in {0, Total(ts.amt, c)}
    BY <1>3 DEF TsSeries, Unbilled, TypeOK, TsJob, Total
  <2> QED
    BY <1>3, <2>1, <2>2, <2>3 DEF TsSeries, Total
<1>4. CASE TsBill
  <2>1. Unbilled(c)' = 0
    BY <1>4 DEF TsBill, TsIdle, Unbilled
  <2>2. used'[c] = used[c] + Unbilled(c)
    BY <1>4 DEF TsBill, Unbilled, TypeOK
  <2> QED
    BY <1>4, <2>1, <2>2 DEF TsBill, Total
<1>5. CASE TsDrop \/ ApiCrash
  <2>1. Unbilled(c)' = 0
    BY <1>5 DEF TsDrop, ApiCrash, TsIdle, Unbilled
  <2> QED
    BY <1>5, <2>1 DEF TsDrop, ApiCrash, dbVars, Total
<1>6. ASSUME NEW d \in Clients, ResetTraffic(d)
      PROVE used'[c] + Unbilled(c)' <= Total(billed, c)' + Total(series, c)'
  <2>1. used'[c] \in {0, used[c]}
    BY <1>6 DEF ResetTraffic, TypeOK
  <2> QED
    BY <1>6, <2>1 DEF ResetTraffic, Unbilled, Total
<1>7. CASE UNCHANGED <<ts, billed, series, used>>
  BY <1>7 DEF Unbilled, Total
<1> QED
  BY <1>1, <1>2, <1>3, <1>4, <1>5, <1>6, <1>7
     DEF Next, AgentStep, HandlerStep, AggStep, TsStep, vars, dbVars, Meter,
         XrayCrash, FlushNothing, Restart, Collect, ConnectFails, SendTorn,
         Deliver, DeliverEmpty, Answer, AnswerLost, IncrTraffic, PushTraffic,
         HandlerFails, AggRead, AggDel, AggFails

\* usedBytes is bounded by what the two paths recorded, at every moment.
THEOREM UsedCorrect == Spec => []UsedWithinBothPaths
<1>1. Init => BilledInv
  <2> SUFFICES ASSUME Init, NEW c \in Clients
               PROVE  used[c] + Unbilled(c) <= Total(billed, c) + Total(series, c)
    BY DEF BilledInv
  <2>1. used[c] = 0 /\ Unbilled(c) = 0
    BY DEF Init, Unbilled, TsIdle
  <2>2. Total(billed, c) \in Nat /\ Total(series, c) \in Nat
    BY ZeroBytes, TotalNat DEF Init
  <2> QED
    BY <2>1, <2>2
<1>2. TypeOK /\ BilledInv /\ [Next]_vars => BilledInv'
  BY BilledStep
<1>3. TypeOK /\ BilledInv => UsedWithinBothPaths
  <2> SUFFICES ASSUME TypeOK, BilledInv, NEW c \in Clients
               PROVE  used[c] <= Total(billed, c) + Total(series, c)
    BY DEF UsedWithinBothPaths
  <2>1. /\ used[c] \in Nat /\ Total(billed, c) \in Nat
        /\ Total(series, c) \in Nat /\ Unbilled(c) \in Nat
    BY TotalNat DEF TypeOK, TsJob, Unbilled
  <2> QED
    BY <2>1 DEF BilledInv
<1> QED
  BY <1>1, <1>2, <1>3, TypeCorrect, PTL DEF Spec
-----------------------------------------------------------------------------
\* What loop r has collected and the counters in Redis have not got: the body
\* it may still send, and what a handler is about to add to them.
Uncounted(r, k) ==
    Unsent(r)[k] + (IF handler[r].pc = "count" THEN handler[r].amt[k] ELSE 0)

Charted(k) == series[k] + counters[k] + (IF ts.pc = "taken" THEN ts.amt[k] ELSE 0)

\* The inductive form of ChartsWithinMetered: what is charted and what may yet
\* be charted are together no more than what was metered.
ChartInv ==
    \A k \in Key :
        Charted(k) + xray[k] + Uncounted("ticker", k) + Uncounted("flush", k)
            <= metered[k]

\* The parts of ChartInv are natural numbers.
LEMMA ChartParts ==
    ASSUME TypeOK, NEW k \in Key
    PROVE  /\ \A r \in Loops : /\ Unsent(r)[k] \in Nat /\ handler[r].amt[k] \in Nat
                               /\ req[r].body[k] \in Nat /\ Uncounted(r, k) \in Nat
           /\ series[k] \in Nat /\ counters[k] \in Nat /\ ts.amt[k] \in Nat
           /\ Charted(k) \in Nat /\ xray[k] \in Nat /\ metered[k] \in Nat
<1>1. \A r \in Loops : Unsent(r) \in Bytes /\ handler[r].amt \in Bytes /\ req[r].body \in Bytes
  BY UnsentBytes DEF TypeOK, Handler, Request
<1>2. series \in Bytes /\ counters \in Bytes /\ ts.amt \in Bytes /\ xray \in Bytes
        /\ metered \in Bytes
  BY DEF TypeOK, TsJob
<1> QED
  BY <1>1, <1>2 DEF Bytes, Uncounted, Charted

\* A loop's own steps, those of its handler and the flush pass bytes on: no
\* step of theirs adds to what may be charted but what Collect takes from Xray.
LEMMA LoopCharts ==
    ASSUME TypeOK, WorkInv, NEW k \in Key, NEW r \in Loops,
           AgentStep(r) \/ HandlerStep(r)
    PROVE  /\ xray'[k] + Uncounted(r, k)' + counters'[k]
                <= xray[k] + Uncounted(r, k) + counters[k]
           /\ \A q \in Loops \ {r} : Uncounted(q, k)' = Uncounted(q, k)
           /\ UNCHANGED <<series, ts, metered>>
<1> USE ChartParts
<1>1. \A q \in Loops \ {r} : req'[q] = req[q] /\ handler'[q] = handler[q]
  BY DEF AgentStep, HandlerStep, Collect, ConnectFails, SendTorn, Deliver,
         DeliverEmpty, Answer, AnswerLost, IncrTraffic, PushTraffic,
         HandlerFails, TypeOK
<1>2. \A q \in Loops \ {r} : Uncounted(q, k)' = Uncounted(q, k)
  BY <1>1 DEF Uncounted, Unsent
<1>3. UNCHANGED <<series, ts, metered>>
  BY DEF AgentStep, HandlerStep, Collect, ConnectFails, SendTorn, Deliver,
         DeliverEmpty, Answer, AnswerLost, IncrTraffic, PushTraffic,
         HandlerFails, dbVars
<1> SUFFICES xray'[k] + Uncounted(r, k)' + counters'[k]
                <= xray[k] + Uncounted(r, k) + counters[k]
  BY <1>2, <1>3
<1>4. CASE Collect(r)
  <2>1. Unsent(r)[k] = 0 /\ Unsent(r)'[k] = xray[k] /\ xray'[k] = 0
    BY <1>4, ZeroBytes DEF Collect, Unsent, WorkInv, NoRequest, TypeOK
  <2>2. handler'[r] = handler[r] /\ counters' = counters
    BY <1>4 DEF Collect
  <2> QED
    BY <2>1, <2>2 DEF Uncounted
<1>5. CASE ConnectFails(r)
  <2>1. req[r].drained \in BOOLEAN
    BY DEF TypeOK, Request
  <2>2. Unsent(r)'[k] \in {0, Unsent(r)[k]}
    BY <1>5, <2>1, RetriedWork, ZeroBytes DEF ConnectFails, Unsent, TypeOK
  <2>3. handler'[r] = handler[r] /\ counters' = counters /\ xray' = xray
    BY <1>5 DEF ConnectFails
  <2> QED
    BY <2>2, <2>3 DEF Uncounted
<1>6. CASE SendTorn(r)
  <2>1. Unsent(r)'[k] = 0
    BY <1>6, RetriedWork, ZeroBytes DEF SendTorn, Unsent, TypeOK
  <2>2. handler'[r] = handler[r] /\ counters' = counters /\ xray' = xray
    BY <1>6 DEF SendTorn
  <2> QED
    BY <2>1, <2>2 DEF Uncounted
<1>7. CASE Deliver(r)
  <2>1. /\ Unsent(r)[k] = req[r].body[k] /\ Unsent(r)'[k] = 0
        /\ handler[r].pc = "none" /\ handler'[r].amt[k] = req[r].body[k]
    BY <1>7, ZeroBytes DEF Deliver, Unsent, TypeOK, Request
  <2>2. counters' = counters /\ xray' = xray
    BY <1>7 DEF Deliver
  <2> QED
    BY <2>1, <2>2 DEF Uncounted
<1>8. CASE DeliverEmpty(r) \/ Answer(r) \/ AnswerLost(r)
  <2>1. req'[r] = Ended(r) \/ req'[r] = Retried(r, TRUE)
    BY <1>8 DEF DeliverEmpty, Answer, AnswerLost, TypeOK
  <2>2. Unsent(r)'[k] = 0
    <3>1. CASE req'[r] = Ended(r)
      BY <3>1, ZeroBytes DEF Unsent, Ended, NoRequest
    <3>2. CASE req'[r] = Retried(r, TRUE)
      BY <3>2, RetriedWork, ZeroBytes DEF Unsent
    <3> QED
      BY <2>1, <3>1, <3>2
  <2>3. handler'[r] = handler[r] \/ handler'[r] = NoHandler
    BY <1>8 DEF DeliverEmpty, Answer, AnswerLost, TypeOK
  <2>4. counters' = counters /\ xray' = xray
    BY <1>8 DEF DeliverEmpty, Answer, AnswerLost
  <2> QED
    BY <2>2, <2>3, <2>4 DEF Uncounted, NoHandler
<1>9. CASE HandlerStep(r)
  <2>1. Unsent(r)'[k] = Unsent(r)[k] /\ xray' = xray
    BY <1>9 DEF HandlerStep, IncrTraffic, PushTraffic, HandlerFails, Unsent
  <2>2. CASE IncrTraffic(r)
    <3>1. counters'[k] = counters[k] + handler[r].amt[k]
      BY <2>2, PlusBytes DEF IncrTraffic, TypeOK, Handler
    <3>2. handler[r].pc = "count" /\ handler'[r].pc = "push"
      BY <2>2 DEF IncrTraffic, TypeOK, Handler
    <3> QED
      BY <2>1, <3>1, <3>2 DEF Uncounted
  <2>3. CASE PushTraffic(r) \/ HandlerFails(r)
    <3>1. handler'[r].pc # "count" /\ counters' = counters
      BY <2>3 DEF PushTraffic, HandlerFails, Finished, NoHandler, TypeOK
    <3> QED
      BY <2>1, <3>1 DEF Uncounted
  <2> QED
    BY <1>9, <2>2, <2>3 DEF HandlerStep
<1> QED
  BY <1>4, <1>5, <1>6, <1>7, <1>8, <1>9 DEF AgentStep

\* No step charts a byte twice, or one that was not metered.
LEMMA ChartStep == TypeOK /\ TypeOK' /\ WorkInv /\ ChartInv /\ [Next]_vars => ChartInv'
<1> SUFFICES ASSUME TypeOK, TypeOK', WorkInv, ChartInv, [Next]_vars, NEW k \in Key
             PROVE  Charted(k)' + xray'[k] + Uncounted("ticker", k)'
                      + Uncounted("flush", k)' <= metered'[k]
  BY DEF ChartInv
<1> DEFINE Goal == Charted(k)' + xray'[k] + Uncounted("ticker", k)'
                      + Uncounted("flush", k)' <= metered'[k]
<1>0. /\ Charted(k) + xray[k] + Uncounted("ticker", k) + Uncounted("flush", k)
           <= metered[k]
      /\ \A r \in Loops : Uncounted(r, k) \in Nat
      /\ Charted(k) \in Nat /\ xray[k] \in Nat /\ metered[k] \in Nat
  BY ChartParts DEF ChartInv
<1>00. /\ \A r \in Loops : Uncounted(r, k)' \in Nat
       /\ Charted(k)' \in Nat /\ xray'[k] \in Nat /\ metered'[k] \in Nat
  <2>1. /\ \A r \in Loops : handler'[r].amt \in Bytes /\ req'[r].body \in Bytes
        /\ series' \in Bytes /\ counters' \in Bytes /\ ts'.amt \in Bytes
        /\ xray' \in Bytes /\ metered' \in Bytes
    BY DEF TypeOK, TsJob, Handler, Request
  <2>2. \A r \in Loops : Unsent(r)' \in Bytes
    BY <2>1, ZeroBytes DEF Unsent
  <2> QED
    BY <2>1, <2>2 DEF Bytes, Uncounted, Charted
<1> USE <1>0, <1>00 DEF Loops
<1>1. ASSUME NEW j \in Key, Meter(j) PROVE Goal
  <2>1. metered'[k] - metered[k] = xray'[k] - xray[k]
    BY <1>1 DEF Meter, TypeOK, Bytes
  <2>2. UNCHANGED <<req, handler, series, counters, ts>>
    BY <1>1 DEF Meter, netVars, dbVars
  <2>3. Charted(k)' = Charted(k) /\ \A r \in Loops : Uncounted(r, k)' = Uncounted(r, k)
    BY <2>2 DEF Charted, Uncounted, Unsent
  <2> QED
    BY <2>1, <2>3
<1>2. CASE XrayCrash \/ FlushNothing \/ Restart
  <2>1. xray'[k] \in {0, xray[k]} /\ metered' = metered
    BY <1>2, ZeroBytes DEF XrayCrash, FlushNothing, Restart
  <2>2. UNCHANGED <<handler, series, counters, ts>>
    BY <1>2 DEF XrayCrash, FlushNothing, Restart, netVars, dbVars
  <2>3. \A r \in Loops : Unsent(r)'[k] \in {0, Unsent(r)[k]}
    BY <1>2, ZeroBytes DEF XrayCrash, FlushNothing, Restart, Unsent, NoRequest,
                           netVars, TypeOK
  <2>4. Charted(k)' = Charted(k)
    BY <2>2 DEF Charted
  <2>5. \A r \in Loops : Uncounted(r, k)' <= Uncounted(r, k)
    BY <2>2, <2>3, ChartParts DEF Uncounted
  <2> QED
    BY <2>1, <2>4, <2>5
<1>3. ASSUME NEW r \in Loops, AgentStep(r) \/ HandlerStep(r) PROVE Goal
  <2>1. /\ xray'[k] + Uncounted(r, k)' + counters'[k]
             <= xray[k] + Uncounted(r, k) + counters[k]
        /\ \A q \in Loops \ {r} : Uncounted(q, k)' = Uncounted(q, k)
        /\ UNCHANGED <<series, ts, metered>>
    BY <1>3, LoopCharts
  <2>2. Charted(k)' - counters'[k] = Charted(k) - counters[k]
        /\ counters'[k] \in Nat /\ counters[k] \in Nat
    BY <2>1, ChartParts DEF Charted, TypeOK, Bytes
  <2>3. CASE r = "ticker"
    BY <2>1, <2>2, <2>3
  <2>4. CASE r = "flush"
    BY <2>1, <2>2, <2>4
  <2> QED
    BY <2>3, <2>4
<1>4. ASSUME UNCHANGED <<req, handler, xray, metered>>, Charted(k)' <= Charted(k)
      PROVE  Goal
  <2>1. \A r \in Loops : Uncounted(r, k)' = Uncounted(r, k)
    BY <1>4 DEF Uncounted, Unsent
  <2> QED
    BY <1>4, <2>1
<1>5. ASSUME NEW c \in Clients, TsTake(c) PROVE Goal
  <2>1. Charted(k)' = Charted(k)
    BY <1>5, ChartParts DEF TsTake, Charted, TypeOK, Bytes, dbVars
  <2> QED
    BY <1>4, <1>5, <2>1 DEF TsTake, netVars
<1>6. CASE TsSeries
  <2>1. series'[k] = series[k] + ts.amt[k] /\ ts'.pc = "bill"
    BY <1>6, PlusBytes DEF TsSeries, TypeOK, TsJob
  <2>2. Charted(k)' = Charted(k)
    BY <1>6, <2>1, ChartParts DEF TsSeries, Charted
  <2> QED
    BY <1>4, <1>6, <2>2 DEF TsSeries, netVars
<1>7. CASE TsBill \/ TsDrop
  <2>1. Charted(k)' <= Charted(k)
    BY <1>7, ChartParts DEF TsBill, TsDrop, TsIdle, Charted, dbVars
  <2> QED
    BY <1>4, <1>7, <2>1 DEF TsBill, TsDrop, netVars
<1>8. CASE ApiCrash
  <2>1. \A r \in Loops : Uncounted(r, k)' <= Uncounted(r, k)
    BY <1>8, ChartParts DEF ApiCrash, Uncounted, Unsent, NoHandler
  <2>2. Charted(k)' <= Charted(k)
    BY <1>8, ChartParts DEF ApiCrash, TsIdle, Charted, dbVars
  <2> QED
    BY <1>8, <2>1, <2>2 DEF ApiCrash
<1>9. CASE UNCHANGED <<req, handler, xray, metered, series, counters, ts>>
  BY <1>4, <1>9 DEF Charted
<1> QED
  BY <1>1, <1>2, <1>3, <1>5, <1>6, <1>7, <1>8, <1>9
     DEF Next, AggStep, TsStep, vars, netVars, dbVars, AggRead, AggDel, AggCommit,
         AggFails, ResetTraffic

\* The charts never show traffic that was not metered: a byte that was given up
\* by one attempt and sent by another, or that a crash took from the job, is
\* in the chart at most once.
THEOREM ChartsCorrect == Spec => []ChartsWithinMetered
<1>1. Init => WorkInv
  BY ZeroBytes DEF Init, WorkInv, NoRequest, NoHandler
<1>2. Init => ChartInv
  BY ZeroBytes DEF Init, ChartInv, Charted, Uncounted, Unsent, NoRequest,
                   NoHandler, TsIdle, Loops
<1>3. TypeOK /\ WorkInv /\ [Next]_vars => WorkInv'
  BY WorkStep
<1>4. TypeOK /\ TypeOK' /\ WorkInv /\ ChartInv /\ [Next]_vars => ChartInv'
  BY ChartStep
<1>5. TypeOK /\ ChartInv => ChartsWithinMetered
  <2> SUFFICES ASSUME TypeOK, ChartInv, NEW k \in Key PROVE Charted(k) <= metered[k]
    BY DEF ChartsWithinMetered, Charted
  <2> QED
    BY ChartParts DEF ChartInv, Loops
<1> QED
  BY <1>1, <1>2, <1>3, <1>4, <1>5, TypeCorrect, PTL DEF Spec
-----------------------------------------------------------------------------
\* What is settled or lost was metered.
Resolved == \A k \in Key : billed[k] + lost[k] <= metered[k]

\* The pieces of the pipeline are natural numbers, none of them below zero.
LEMMA ResolvedMetered == TypeOK /\ Balance => Resolved
<1> SUFFICES ASSUME TypeOK, Balance, NEW k \in Key
             PROVE  billed[k] + lost[k] <= metered[k]
  BY DEF Resolved
<1>1. \A r \in Loops : Unsent(r)[k] \in Nat /\ handler[r].amt[k] \in Nat
  BY UnsentBytes DEF TypeOK, Handler, Bytes
<1>2. /\ xray[k] \in Nat /\ buffer[k] \in Nat /\ agg.amt[k] \in Nat
      /\ billed[k] \in Nat /\ lost[k] \in Nat /\ metered[k] \in Nat
  BY DEF TypeOK, AggJob, Bytes
<1> QED
  BY <1>1, <1>2 DEF Balance, Pipeline, Loops

\* Every step of the pipeline is a step of the meter, or none: it meters, or it
\* settles or loses some of what is outstanding.
LEMMA MeteringStep ==
    TypeOK /\ TypeOK' /\ AggSnapshot /\ Resolved' /\ [Next]_vars
        => [Meters!Next]_(Meters!vars)
<1> SUFFICES ASSUME TypeOK, TypeOK', AggSnapshot, Resolved', [Next]_vars
             PROVE  [Meters!Next]_(Meters!vars)
  OBVIOUS
<1>1. ASSUME NEW k \in Key, Meter(k) PROVE Meters!Meter
  <2>1. \A j \in Key : metered'[j] >= metered[j]
    BY <1>1 DEF Meter, TypeOK, Bytes
  <2>2. UNCHANGED <<billed, lost>> /\ metered' \in [Key -> Nat]
    BY <1>1 DEF Meter, dbVars, TypeOK, Bytes
  <2> QED
    BY <2>1, <2>2 DEF Meters!Meter
<1>2. ASSUME UNCHANGED metered,
             \A k \in Key : billed'[k] >= billed[k] /\ lost'[k] >= lost[k]
      PROVE  [Meters!Next]_(Meters!vars)
  <2>1. \A k \in Key : billed'[k] + lost'[k] <= metered'[k]
    BY DEF Resolved
  <2>2. billed' \in [Key -> Nat] /\ lost' \in [Key -> Nat]
    BY DEF TypeOK, Bytes
  <2> QED
    BY <1>2, <2>1, <2>2 DEF Meters!Resolve, Meters!Next
<1>3. \A k \in Key : billed[k] \in Nat /\ lost[k] \in Nat /\ xray[k] \in Nat
        /\ agg.amt[k] \in Nat /\ buffer[k] \in Nat
        /\ \A r \in Loops : /\ Unsent(r)[k] \in Nat /\ handler[r].amt[k] \in Nat
                            /\ req[r].body[k] \in Nat
  BY UnsentBytes DEF TypeOK, AggJob, Handler, Request, Bytes
<1>4. CASE XrayCrash \/ Restart
  BY <1>2, <1>3, <1>4, PlusBytes DEF XrayCrash, Restart, dbVars, TypeOK
<1>5. ASSUME NEW r \in Loops, ConnectFails(r) \/ SendTorn(r) \/ HandlerFails(r)
      PROVE  [Meters!Next]_(Meters!vars)
  <2>1. Unsent(r) \in Bytes /\ req[r].body \in Bytes /\ handler[r].amt \in Bytes
    BY UnsentBytes DEF TypeOK, Request, Handler
  <2>2. \/ lost' = lost \/ lost' = Plus(lost, Unsent(r))
        \/ lost' = Plus(lost, req[r].body) \/ lost' = Plus(lost, handler[r].amt)
    BY <1>5 DEF ConnectFails, SendTorn, HandlerFails
  <2>3. \A k \in Key : lost'[k] >= lost[k]
    BY <1>3, <2>1, <2>2, PlusBytes DEF TypeOK
  <2>4. UNCHANGED <<metered, billed>>
    BY <1>5 DEF ConnectFails, SendTorn, HandlerFails, dbVars
  <2> QED
    BY <1>2, <1>3, <2>3, <2>4
<1>6. CASE AggDel
  <2>1. \A k \in Key : lost'[k] >= lost[k]
    BY <1>3, <1>6 DEF AggDel, AggSnapshot
  <2> QED
    BY <1>2, <1>3, <1>6, <2>1 DEF AggDel, dbVars
<1>7. CASE AggCommit
  <2>1. \A k \in Key : billed'[k] >= billed[k] /\ lost'[k] >= lost[k]
    <3> TAKE k \in Key
    <3>1. /\ billed'[k] = billed[k] + IF k[1] \in Known THEN agg.amt[k] ELSE 0
          /\ lost'[k] = lost[k] + IF k[1] \in Known THEN 0 ELSE agg.amt[k]
      BY <1>7 DEF AggCommit
    <3> QED
      BY <1>3, <3>1
  <2> QED
    BY <1>2, <1>7, <2>1 DEF AggCommit
<1>8. CASE AggFails
  <2>1. \A k \in Key : lost'[k] >= lost[k]
    BY <1>3, <1>8, PlusBytes DEF AggFails, TypeOK, AggJob
  <2> QED
    BY <1>2, <1>3, <1>8, <2>1 DEF AggFails, dbVars
<1>9. CASE ApiCrash
  <2>1. \A k \in Key : lost'[k] >= lost[k]
    BY <1>3, <1>9 DEF ApiCrash, Loops
  <2> QED
    BY <1>2, <1>3, <1>9, <2>1 DEF ApiCrash, dbVars
<1>10. CASE UNCHANGED <<metered, billed, lost>>
  BY <1>10 DEF Meters!vars
<1> QED
  BY <1>1, <1>4, <1>5, <1>6, <1>7, <1>8, <1>9, <1>10
     DEF Next, AgentStep, HandlerStep, AggStep, TsStep, vars, dbVars, FlushNothing,
         Collect, Deliver, DeliverEmpty, Answer, AnswerLost, IncrTraffic,
         PushTraffic, AggRead, TsTake, TsSeries, TsBill, TsDrop, ResetTraffic,
         Meters!Next

\* The pipeline implements the abstract meter: whatever loops, retries, jobs and
\* crashes do, a byte is settled at most once, and a lost one stays lost.
THEOREM MeteringImplemented == Spec => ImplementsMetering
<1>1. Init => TypeOK /\ AggSnapshot /\ WorkInv /\ Balance
  <2> SUFFICES ASSUME Init PROVE TypeOK /\ AggSnapshot /\ WorkInv /\ Balance
    OBVIOUS
  <2>1. TypeOK /\ AggSnapshot
    BY TypeInit DEF Init, AggSnapshot, AggIdle
  <2>2. WorkInv
    BY ZeroBytes DEF Init, WorkInv, NoRequest, NoHandler
  <2>3. Balance
    BY ZeroBytes DEF Init, Balance, Pipeline, Unsent, NoRequest, NoHandler,
                     AggIdle, Loops
  <2> QED
    BY <2>1, <2>2, <2>3
<1>2. TypeOK /\ AggSnapshot /\ WorkInv /\ Balance /\ [Next]_vars
        => (TypeOK /\ AggSnapshot /\ WorkInv /\ Balance)'
  BY TypeStep, SnapshotStep, WorkStep, BalanceStep
<1>3. Init => Meters!Init
  BY DEF Init, Meters!Init, Zero
<1>4. TypeOK /\ Balance => Resolved
  BY ResolvedMetered
<1>5. TypeOK /\ TypeOK' /\ AggSnapshot /\ Resolved' /\ [Next]_vars
        => [Meters!Next]_(Meters!vars)
  BY MeteringStep
<1> QED
  BY <1>1, <1>2, <1>3, <1>4, <1>5, PTL DEF Spec, ImplementsMetering, Meters!Spec
=============================================================================
