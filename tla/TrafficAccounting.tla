------------------------- MODULE TrafficAccounting --------------------------
(***************************************************************************)
(* Traffic accounting of one node, from Xray's counters to the database.   *)
(*                                                                         *)
(*   Xray counters --QueryTrafficStats(reset)--> a reporting loop of the   *)
(*   agent --POST /agent/traffic, with retries--> the API's handler, which *)
(*   writes every report twice:                                            *)
(*     incrTraffic -> Redis counters -> timeseries job -> chart, usedBytes *)
(*     pushTraffic -> Redis buffer -> aggregation job -> stats, usedBytes  *)
(*                                                                         *)
(* Reports are additive, so a carrier of traffic holds a function from     *)
(* (client, direction) to bytes.  Two loops report: the traffic loop       *)
(* ("ticker") and the config loop, which flushes before it restarts Xray   *)
(* ("flush").  Steps that cross an await of the API, or the two Redis      *)
(* commands of popAllTraffic, are separate actions.                        *)
(***************************************************************************)
EXTENDS Naturals

CONSTANTS
    Clients,     \* emails that appear in Xray's counters
    Known,       \* the ones with a row in the clients table
    Inbounds,    \* the node's inbounds
    Access,      \* clients.inboundTags: the inbounds of a known client
    RetryCount,  \* client.go: retries after the first attempt
    Loads        \* bound: the amounts of metered traffic that are explored

ASSUME ClientsAssumption == Clients # {} /\ Known \subseteq Clients
ASSUME AccessAssumption == Access \in [Known -> SUBSET Inbounds]
ASSUME RetryAssumption == RetryCount \in Nat

VARIABLES
    xray,       \* counters inside the Xray process
    running,    \* whether Xray runs
    req,        \* per loop: the report it is sending
    handler,    \* per loop: the API handler working on its report
    buffer,     \* Redis list traffic:buffer:<node>, summed
    counters,   \* Redis counters traffic:client:{up,down}:<email>
    agg,        \* the traffic-aggregation job
    ts,         \* the timeseries-aggregation job
    stats,      \* ClientStats rows of this node, one per client and inbound
    series,     \* TrafficTimeSeries rows of the clients, over all buckets
    used,       \* clients.usedBytes
    metered,    \* history: bytes Xray ever counted
    billed,     \* history: bytes the aggregation job committed
    lost        \* history: bytes that left the buffer path unrecorded

netVars  == <<req, handler>>
dbVars   == <<stats, series, used, billed>>
vars == <<xray, running, req, handler, buffer, counters, agg, ts,
          stats, series, used, metered, billed, lost>>

Loops == {"ticker", "flush"}
Dirs  == {"up", "down"}
Key   == Clients \X Dirs
Bytes == [Key -> Nat]

Zero       == [k \in Key |-> 0]
Plus(a, b) == [k \in Key |-> a[k] + b[k]]

\* What a client used in an amount, both directions together.
Total(a, c) == a[<<c, "up">>] + a[<<c, "down">>]

Request == [pc : {"idle", "sending", "waiting", "restart"},
            body : Bytes, drained : BOOLEAN, attempt : 0..RetryCount]
Handler == [pc : {"none", "count", "push", "ok", "failed"}, amt : Bytes]
AggJob  == [pc : {"idle", "read", "popped"}, amt : Bytes]
TsJob   == [pc : {"idle", "taken", "bill"}, client : Clients, amt : Bytes]

TypeOK ==
    /\ xray \in Bytes /\ running \in BOOLEAN
    /\ req \in [Loops -> Request]
    /\ handler \in [Loops -> Handler]
    /\ buffer \in Bytes /\ counters \in Bytes
    /\ agg \in AggJob /\ ts \in TsJob
    /\ stats \in [Inbounds -> Bytes]
    /\ series \in Bytes /\ used \in [Clients -> Nat]
    /\ metered \in Bytes /\ billed \in Bytes /\ lost \in Bytes

NoRequest(pc) == [pc |-> pc, body |-> Zero, drained |-> FALSE, attempt |-> 0]
NoHandler     == [pc |-> "none", amt |-> Zero]
AggIdle       == [pc |-> "idle", amt |-> Zero]
TsIdle        == [pc |-> "idle", client |-> CHOOSE c \in Clients : TRUE,
                  amt |-> Zero]

Init ==
    /\ xray = Zero /\ running = TRUE
    /\ req = [r \in Loops |-> NoRequest("idle")]
    /\ handler = [r \in Loops |-> NoHandler]
    /\ buffer = Zero /\ counters = Zero
    /\ agg = AggIdle /\ ts = TsIdle
    /\ stats = [i \in Inbounds |-> Zero]
    /\ series = Zero /\ used = [c \in Clients |-> 0]
    /\ metered = Zero /\ billed = Zero /\ lost = Zero
-----------------------------------------------------------------------------
(* Xray and the two reporting loops of the agent.                          *)

\* Xray forwards a byte of a client and counts it.
Meter(k) ==
    /\ running
    /\ xray' = [xray EXCEPT ![k] = @ + 1]
    /\ metered' = [metered EXCEPT ![k] = @ + 1]
    /\ metered' \in Loads
    /\ UNCHANGED <<running, netVars, buffer, counters, agg, ts, dbVars, lost>>

\* Counters live in the process: a crash takes what was not collected.
XrayCrash ==
    /\ running
    /\ running' = FALSE
    /\ xray' = Zero
    /\ lost' = Plus(lost, xray)
    /\ UNCHANGED <<netVars, buffer, counters, agg, ts, dbVars, metered>>

\* A tick of either loop: QueryTrafficStats reads and resets in one call.
Collect(r) ==
    /\ running /\ xray # Zero
    /\ req[r].pc = "idle"
    /\ req' = [req EXCEPT ![r] = [NoRequest("sending") EXCEPT !.body = xray]]
    /\ xray' = Zero
    /\ UNCHANGED <<running, handler, buffer, counters, agg, ts, dbVars,
                   metered, lost>>

\* The flush before a restart reports nothing: there is nothing, or the call
\* to Xray fails.
FlushNothing ==
    /\ req["flush"].pc = "idle"
    /\ req' = [req EXCEPT !["flush"] = NoRequest("restart")]
    /\ UNCHANGED <<xray, running, handler, buffer, counters, agg, ts, dbVars,
                   metered, lost>>

\* The config loop restarts Xray once its flush has ended, well or badly.
Restart ==
    /\ req["flush"].pc = "restart"
    /\ req' = [req EXCEPT !["flush"] = NoRequest("idle")]
    /\ running' = TRUE
    /\ xray' = Zero
    /\ lost' = Plus(lost, xray)
    /\ UNCHANGED <<handler, buffer, counters, agg, ts, dbVars, metered>>
-----------------------------------------------------------------------------
(* doRequest: the body reader is built once, before the retry loop.        *)

\* Where a loop goes when ReportTraffic returns, with or without an error.
Ended(r) == NoRequest(IF r = "flush" THEN "restart" ELSE "idle")

\* The bytes only the loop still holds: a drained reader holds none.
Unsent(r) == IF req[r].drained THEN Zero ELSE req[r].body

\* MUTANT of Retried: one attempt too many.
RetriedOnceMore(r, drained) ==
    IF req[r].attempt <= RetryCount
    THEN [req[r] EXCEPT !.pc = "sending", !.attempt = @ + 1, !.drained = drained]
    ELSE Ended(r)

\* An attempt failed with an error or a status >= 500: the next attempt, or,
\* after the last one, the report is given up; nothing puts it back.
Retried(r, drained) ==
    IF req[r].attempt < RetryCount
    THEN [req[r] EXCEPT !.pc = "sending", !.attempt = @ + 1, !.drained = drained]
    ELSE Ended(r)

GivesUp(r) == req[r].attempt = RetryCount

\* No connection: the body was not touched.
ConnectFails(r) ==
    /\ req[r].pc = "sending"
    /\ req' = [req EXCEPT ![r] = Retried(r, @.drained)]
    /\ lost' = IF GivesUp(r) THEN Plus(lost, Unsent(r)) ELSE lost
    /\ UNCHANGED <<xray, running, handler, buffer, counters, agg, ts, dbVars,
                   metered>>

\* The connection breaks after the transport read the body and before the
\* API has a whole request: the reader is spent all the same.
SendTorn(r) ==
    /\ req[r].pc = "sending" /\ ~req[r].drained
    /\ req' = [req EXCEPT ![r] = Retried(r, TRUE)]
    /\ lost' = Plus(lost, req[r].body)
    /\ UNCHANGED <<xray, running, handler, buffer, counters, agg, ts, dbVars,
                   metered>>

\* MUTANT of Deliver: every attempt sends the whole body again.
DeliverRewound(r) ==
    /\ req[r].pc = "sending" /\ handler[r].pc = "none"
    /\ req' = [req EXCEPT ![r].pc = "waiting", ![r].drained = TRUE]
    /\ handler' = [handler EXCEPT ![r] = [pc |-> "count", amt |-> req[r].body]]
    /\ UNCHANGED <<xray, running, buffer, counters, agg, ts, dbVars,
                   metered, lost>>

\* The whole report reaches the API, whose handler starts on it.
\* Bound: at most one handler works for each loop.
Deliver(r) ==
    /\ req[r].pc = "sending" /\ ~req[r].drained
    /\ handler[r].pc = "none"
    /\ req' = [req EXCEPT ![r].pc = "waiting", ![r].drained = TRUE]
    /\ handler' = [handler EXCEPT ![r] = [pc |-> "count", amt |-> req[r].body]]
    /\ UNCHANGED <<xray, running, buffer, counters, agg, ts, dbVars,
                   metered, lost>>

\* A retry after the reader was spent carries no body: the API's validation
\* answers 400, which is no reason to retry, and ReportTraffic returns.
DeliverEmpty(r) ==
    /\ req[r].pc = "sending" /\ req[r].drained
    /\ req' = [req EXCEPT ![r] = Ended(r)]
    /\ UNCHANGED <<xray, running, handler, buffer, counters, agg, ts, dbVars,
                   metered, lost>>

\* The answer arrives: 201 ends the report, 500 makes doRequest try again.
Answer(r) ==
    /\ req[r].pc = "waiting" /\ handler[r].pc \in {"ok", "failed"}
    /\ req' = [req EXCEPT ![r] =
                 IF handler[r].pc = "ok" THEN Ended(r) ELSE Retried(r, TRUE)]
    /\ handler' = [handler EXCEPT ![r] = NoHandler]
    /\ UNCHANGED <<xray, running, buffer, counters, agg, ts, dbVars,
                   metered, lost>>

\* The client times out, or the connection drops, while the handler goes on.
AnswerLost(r) ==
    /\ req[r].pc = "waiting"
    /\ req' = [req EXCEPT ![r] = Retried(r, TRUE)]
    /\ handler' = [handler EXCEPT ![r] =
                     IF @.pc \in {"ok", "failed"} THEN NoHandler ELSE @]
    /\ UNCHANGED <<xray, running, buffer, counters, agg, ts, dbVars,
                   metered, lost>>
-----------------------------------------------------------------------------
(* AgentService.reportTraffic: counters first, then the buffer.            *)

\* Nobody waits for the answer any more: the handler just ends.
Finished(r, pc) ==
    IF req[r].pc = "waiting" THEN [pc |-> pc, amt |-> Zero] ELSE NoHandler

IncrTraffic(r) ==
    /\ handler[r].pc = "count"
    /\ counters' = Plus(counters, handler[r].amt)
    /\ handler' = [handler EXCEPT ![r].pc = "push"]
    /\ UNCHANGED <<xray, running, req, buffer, agg, ts, dbVars, metered, lost>>

PushTraffic(r) ==
    /\ handler[r].pc = "push"
    /\ buffer' = Plus(buffer, handler[r].amt)
    /\ handler' = [handler EXCEPT ![r] = Finished(r, "ok")]
    /\ UNCHANGED <<xray, running, req, counters, agg, ts, dbVars,
                   metered, lost>>

\* A query or a Redis command of the handler rejects: 500, before or after
\* the counters were written.
HandlerFails(r) ==
    /\ handler[r].pc \in {"count", "push"}
    /\ lost' = Plus(lost, handler[r].amt)
    /\ handler' = [handler EXCEPT ![r] = Finished(r, "failed")]
    /\ UNCHANGED <<xray, running, req, buffer, counters, agg, ts, dbVars,
                   metered>>
-----------------------------------------------------------------------------
(* TrafficAggregationProcessor, every 5 seconds.                           *)

\* popAllTraffic, first command: LRANGE 0 -1.
AggRead ==
    /\ agg.pc = "idle" /\ buffer # Zero
    /\ agg' = [pc |-> "read", amt |-> buffer]
    /\ UNCHANGED <<xray, running, netVars, buffer, counters, ts, dbVars,
                   metered, lost>>

\* MUTANT of AggDel: the list is read and never deleted.
AggDelForgotten ==
    /\ agg.pc = "read"
    /\ agg' = [agg EXCEPT !.pc = "popped"]
    /\ UNCHANGED <<xray, running, netVars, buffer, counters, ts, dbVars,
                   metered, lost>>

\* popAllTraffic, second command: DEL drops whatever was pushed in between.
AggDel ==
    /\ agg.pc = "read"
    /\ agg' = [agg EXCEPT !.pc = "popped"]
    /\ buffer' = Zero
    /\ lost' = [k \in Key |-> lost[k] + (buffer[k] - agg.amt[k])]
    /\ UNCHANGED <<xray, running, netVars, counters, ts, dbVars, metered>>

\* The inbounds whose ClientStats rows get a client's traffic.
Reaches(c) == IF c \in Known THEN Access[c] ELSE {}

\* The transaction: usedBytes of each known client and, since a report does not
\* say which inbound carried it, the whole amount in each of the client's rows.
AggCommit ==
    /\ agg.pc = "popped"
    /\ billed' = [k \in Key |->
                    billed[k] + IF k[1] \in Known THEN agg.amt[k] ELSE 0]
    /\ stats' = [i \in Inbounds |-> [k \in Key |->
                   stats[i][k] + IF i \in Reaches(k[1]) THEN agg.amt[k] ELSE 0]]
    /\ used' = [c \in Clients |->
                   used[c] + IF c \in Known THEN Total(agg.amt, c) ELSE 0]
    /\ lost' = [k \in Key |->
                   lost[k] + IF k[1] \in Known THEN 0 ELSE agg.amt[k]]
    /\ agg' = AggIdle
    /\ UNCHANGED <<xray, running, netVars, buffer, counters, ts, series,
                   metered>>

\* The transaction aborts or the node lookup throws: the job has no retry.
AggFails ==
    /\ agg.pc \in {"read", "popped"}
    /\ lost' = IF agg.pc = "popped" THEN Plus(lost, agg.amt) ELSE lost
    /\ agg' = AggIdle
    /\ UNCHANGED <<xray, running, netVars, buffer, counters, ts, dbVars,
                   metered>>
-----------------------------------------------------------------------------
(* TimeseriesAggregationProcessor.aggregateClientTraffic, every minute.    *)

\* MUTANT of TsTake: GET instead of GETDEL.
TsTakeKeeping(c) ==
    /\ ts.pc = "idle"
    /\ counters[<<c, "up">>] > 0
    /\ ts' = [pc |-> "taken", client |-> c,
              amt |-> [k \in Key |-> IF k[1] = c THEN counters[k] ELSE 0]]
    /\ UNCHANGED <<xray, running, netVars, buffer, counters, agg, dbVars,
                   metered, lost>>

\* MUTANT of TsTake: clients without a row are skipped before their counters
\* are taken, not after.
TsTakeKnown(c) ==
    /\ ts.pc = "idle"
    /\ c \in Known /\ counters[<<c, "up">>] > 0
    /\ ts' = [pc |-> "taken", client |-> c,
              amt |-> [k \in Key |-> IF k[1] = c THEN counters[k] ELSE 0]]
    /\ counters' = [k \in Key |-> IF k[1] = c THEN 0 ELSE counters[k]]
    /\ UNCHANGED <<xray, running, netVars, buffer, agg, dbVars, metered, lost>>

\* GETDEL of both counters; only emails with an upload counter are scanned.
TsTake(c) ==
    /\ ts.pc = "idle"
    /\ counters[<<c, "up">>] > 0
    /\ ts' = [pc |-> "taken", client |-> c,
              amt |-> [k \in Key |-> IF k[1] = c THEN counters[k] ELSE 0]]
    /\ counters' = [k \in Key |-> IF k[1] = c THEN 0 ELSE counters[k]]
    /\ UNCHANGED <<xray, running, netVars, buffer, agg, dbVars, metered, lost>>

TsSeries ==
    /\ ts.pc = "taken" /\ ts.client \in Known
    /\ series' = Plus(series, ts.amt)
    /\ ts' = [ts EXCEPT !.pc = "bill"]
    /\ UNCHANGED <<xray, running, netVars, buffer, counters, agg, stats, used,
                   metered, billed, lost>>

\* MUTANT of TsBill: the client is billed without waiting for the chart.
TsBillEarly ==
    /\ ts.pc \in {"taken", "bill"}
    /\ used' = [used EXCEPT ![ts.client] = @ + Total(ts.amt, ts.client)]
    /\ ts' = TsIdle
    /\ UNCHANGED <<xray, running, netVars, buffer, counters, agg, stats,
                   series, metered, billed, lost>>

\* The chart's bytes are added to usedBytes as well.
TsBill ==
    /\ ts.pc = "bill"
    /\ used' = [used EXCEPT ![ts.client] = @ + Total(ts.amt, ts.client)]
    /\ ts' = TsIdle
    /\ UNCHANGED <<xray, running, netVars, buffer, counters, agg, stats,
                   series, metered, billed, lost>>

\* An unknown client is skipped, and a query that rejects ends the job.
TsDrop ==
    /\ ts.pc # "idle"
    /\ ts' = TsIdle
    /\ UNCHANGED <<xray, running, netVars, buffer, counters, agg, dbVars,
                   metered, lost>>

\* ClientService.resetTraffic: usedBytes alone.
ResetTraffic(c) ==
    /\ c \in Known
    /\ used[c] > 0
    /\ used' = [used EXCEPT ![c] = 0]
    /\ UNCHANGED <<xray, running, netVars, buffer, counters, agg, ts, stats,
                   series, metered, billed, lost>>

\* The API process dies: its handlers and jobs with it, Redis and the
\* database stay.
ApiCrash ==
    /\ \/ \E r \in Loops : handler[r].pc # "none"
       \/ agg.pc # "idle" \/ ts.pc # "idle"
    /\ lost' = [k \in Key |->
                  lost[k] + handler["ticker"].amt[k] + handler["flush"].amt[k]
                          + (IF agg.pc = "popped" THEN agg.amt[k] ELSE 0)]
    /\ handler' = [r \in Loops |-> NoHandler]
    /\ agg' = AggIdle /\ ts' = TsIdle
    /\ UNCHANGED <<xray, running, req, buffer, counters, dbVars, metered>>
-----------------------------------------------------------------------------
AgentStep(r) ==
    \/ Collect(r) \/ ConnectFails(r) \/ SendTorn(r) \/ Deliver(r)
    \/ DeliverEmpty(r) \/ Answer(r) \/ AnswerLost(r)

HandlerStep(r) == IncrTraffic(r) \/ PushTraffic(r) \/ HandlerFails(r)

AggStep == AggRead \/ AggDel \/ AggCommit \/ AggFails

TsStep == (\E c \in Clients : TsTake(c)) \/ TsSeries \/ TsBill \/ TsDrop

Next ==
    \/ \E k \in Key : Meter(k)
    \/ XrayCrash \/ FlushNothing \/ Restart \/ ApiCrash
    \/ \E r \in Loops : AgentStep(r) \/ HandlerStep(r)
    \/ AggStep \/ TsStep
    \/ \E c \in Clients : ResetTraffic(c)

\* The tickers, the jobs' schedules and the event loop keep every started
\* piece of work going, and Redis does not refuse the same DEL for ever;
\* metering, faults and operators promise nothing.
Fairness ==
    /\ \A r \in Loops : WF_vars(AgentStep(r)) /\ WF_vars(HandlerStep(r))
    /\ WF_vars(Restart)
    /\ WF_vars(AggStep) /\ SF_vars(AggDel)
    /\ WF_vars(TsStep)

Spec == Init /\ [][Next]_vars
FairSpec == Spec /\ Fairness
-----------------------------------------------------------------------------
\* The bytes on their way along the buffer path.
Pipeline(k) ==
    xray[k] + Unsent("ticker")[k] + Unsent("flush")[k]
    + handler["ticker"].amt[k] + handler["flush"].amt[k]
    + buffer[k] + (IF agg.pc = "popped" THEN agg.amt[k] ELSE 0)

\* Every byte Xray metered is in exactly one place of the buffer path: still
\* in Xray, unsent in a loop, in a handler, in the Redis list, popped by the
\* job, committed, or lost; and every ClientStats row of a client holds just the
\* committed bytes.  So a retry, an answer that got lost, the two commands of
\* popAllTraffic or a crash never settle a byte twice.
Conservation ==
    \A k \in Key :
        /\ metered[k] = Pipeline(k) + billed[k] + lost[k]
        /\ \A i \in Reaches(k[1]) : stats[i][k] = billed[k]

\* The charts never show traffic that was not metered: what the timeseries
\* job took from the counters it took once, whatever the other path did.
ChartsWithinMetered ==
    \A k \in Key :
        series[k] + counters[k] + (IF ts.pc = "taken" THEN ts.amt[k] ELSE 0)
          <= metered[k]

\* usedBytes is at most what both paths recorded: each path bills a byte at
\* most once, so a client's quota is charged at most twice what it used.
UsedWithinBothPaths ==
    \A c \in Clients : used[c] <= Total(billed, c) + Total(series, c)

\* Every metered byte ends in ClientStats or is lost, and no uploaded byte
\* stays behind in the Redis counters: nothing gets stuck on the way.
PipelineDrains ==
    <>[](\A k \in Key : /\ billed[k] + lost[k] = metered[k]
                        /\ k[2] = "up" => counters[k] = 0)

\* The pipeline implements the abstract meter.
Meters == INSTANCE Metering WITH settled <- billed
ImplementsMetering == Meters!Spec
=============================================================================
