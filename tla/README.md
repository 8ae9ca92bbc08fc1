# NextProxy Panel in TLA+

NextProxy Panel manages Xray proxy nodes. An **API** (NestJS, PostgreSQL through
Prisma, Redis, Bull queues) keeps nodes, inbounds, clients and inventory; on each
node an **agent** (Go) polls the API for the node's configuration and users, runs
the Xray process and reports traffic and status; a **web** client calls the API.
This directory holds TLA+ models of the parts where these processes interleave,
the TLC configurations that check them on small instances, and TLAPS proofs of
safety properties for every value of the constants.

```
tlc -workers 2 -config MCTrafficAccounting.cfg MCTrafficAccounting   # a run
tlapm TrafficAccountingProofs.tla                                    # the proofs
```

`PROJECT.json` lists components, runs, mutants, the source lines of each
definition, findings, hazards and theorems.

## The system

| Component | State | Operations | Correct when | Module |
|---|---|---|---|---|
| Traffic accounting (agent loops, `reportTraffic`, two jobs) | Xray's counters, a report in a loop, Redis buffer and counters, `ClientStats`, charts, `usedBytes` | meter, collect, send, retry, count, push, pop, commit, chart, bill, reset | no byte is settled twice; what is lost is lost once; the pipeline drains | `TrafficAccounting` |
| Configuration delivery (config poll, ETag cache, edits) | rows, cached ETag, requests in the API, what the agent holds and runs | edit, invalidate, check, build, store, poll, retry, apply | the agent never goes back to an older part, and ends with the rows | `ConfigDelivery` |
| GoSea pool and orders | pool rows with counters, allocations, orders | add, renew, delete, allocate, order, release | counters match allocations; a row is not oversold without bound, nor lost to the pool; a completed order has all its items | `Socks5Pool` |
| Xray process manager | the command, `running`, a monitor goroutine per process | start, stop, kill, restart, exit | no process is left behind; `running` tells the truth | `XrayProcess` |
| Agent's synchronisation loops | configuration, users and limits the agent knows; what Xray serves | poll, write the file, restart, add, remove, limit | Xray's users follow the panel across restarts and failed calls | `AgentNode` |
| gRPC stream, configuration versions | connection of the node, messages under way, version rows | connect, register, drop, push, result, rollback | pushes go to the open stream; the applied version is what runs | `AgentStream` |
| Node health check, registration, selection | status, load, failure and recovery counters | report, check, count, edit, select | a dead or overloaded node is not selected, a well one is | `NodeHealth` |
| Clients and inbound settings | client rows, the copies in the settings, cached ETags | create, update, delete clients and inbounds, expire | copies agree with the rows; edits reach the nodes | `ClientAccess` |
| GoSea generators | inbounds, outbounds, clients, rules | five kinds of generation, deletion | what was returned works, what was deleted is gone | `GoSeaGeneration` |
| Configuration generator, outbounds, routing, subscriptions | rows, the agent's configuration between polls, profiles | create, delete, poll, generate, describe | Xray routes as the rows say, profiles reach the inbound | `XrayConfig` |
| DNS | provider's zone, the panel's records | ensure, create, update, delete, synchronise | what was answered resolves | `NodeDns` |

**Interactions.** The agent talks to the API over HTTP (`doRequest`: a timeout per
attempt, a bounded number of retries, one body reader shared by all attempts); to
Xray over gRPC and as its parent process. The API has a gRPC stream for agents as
well, which this agent's main does not open: `AgentStream` models the panel's end
with any agent that speaks `agent.proto`. The API's handlers and jobs share
PostgreSQL and Redis and hold no locks: every `await` is a point where another
request, a job or a death of the process comes in between. The agent's loops are
goroutines over one `Manager`.

**What is hard here.** Retries of requests whose effect is unknown; handlers that
outlive the client that gave them up; two-command pops of a Redis list; counters
and statuses computed from a row that was read before somebody else wrote it;
caches invalidated before a slow reader fills them again; two copies of one fact
without a transaction (row and settings, row and zone, rows of a proxy); the order of
restarts, flushes and synchronisation on the node.

## Modules

`Metering` and `Replica` are abstract specifications, which `TrafficAccounting` and
`ConfigDelivery` implement. `AgentNode` EXTENDS `XrayProcess`. The `MC` modules
give the constants of the instances TLC checks, with their symmetries. `MCConfig` puts
`ConfigDelivery` and `XrayConfig` into one instance, whose behaviours are those of the one
or of the other: the first abstracts to a version what the second describes, and neither
reads the other's state. The
`Proofs` modules hold the proofs: `ConfigProofs` those about `ConfigDelivery` and
`XrayConfig`, `NodesProofs` those about `NodeHealth` and `NodeDns`, the others those about
the module in their name. The other modules meet at their interfaces: a
poll is one step in `AgentNode`, `ClientAccess` and `GoSeaGeneration`, and
`ConfigDelivery` has its reads, retries and late stores.

Each module is parameterised by CONSTANTS with named assumptions; operators marked
`MUTANT` are plausible wrong versions of the operator that follows and are not
used by the specification: each property is violated when its mutant replaces
the operator.

"History" variables record what happened and decide nothing; the properties
use them to say which interleavings the code does not promise anything for.

### TrafficAccounting

*State.* `xray`: the counters in the process, which `QueryTrafficStats` reads and
resets in one call. `req[r]`: the report of one of the two loops that report, the
traffic loop and the flush before a restart; `drained` says that the reader of
`doRequest` was consumed, so that further attempts send an empty body. `handler[r]`:
`AgentService.reportTraffic`, which writes the counters (`incrTraffic`) and then the
buffer (`pushTraffic`). `agg`, `ts`: the two jobs between their awaits. `stats`,
`series`, `used`, `billed`: the tables. `lost`, `metered` are history.

*Actions.* One per step between two awaits. `AggRead` and `AggDel` are the LRANGE and
DEL of `popAllTraffic`; `AggCommit` is a transaction and is one action. `AnswerLost`
covers the timeout and the broken connection; the handler goes on. `ApiCrash` ends
handlers and jobs and leaves Redis and the database. Reports are additive, so the
Redis list is the sum of its entries.

*Abstractions.* One node; the chart's buckets are one sum; the node and inbound
counters, which the job treats the same way, and bandwidth samples are left out. At
most one handler works for a loop: a retry after a timed-out attempt has no body
to start another one with.

### ConfigDelivery

*State.* A configuration is the pair of versions of its two parts, which are read by
two rounds of queries (`buildNodeConfig`, then `injectClientsToConfig`); its ETag is
a hash and stands for it. `cache` is the ETag in Redis. `handler[h]` is one of
the requests the API works on, `poll` the config loop with its attempts, `held`
the configuration and ETag of the agent, `applied` what Xray was started with.

*Actions.* An edit writes a row (`EditRow`) and then deletes the ETag (`Invalidate`)
or does not (`SkipInvalidate`: quota and expiry edits, jobs, balancers, DNS,
policies, or a death in between). `Check`, `Build`, `Store` are the awaits of
`getNodeConfig`; `Store` writes the ETag whatever happened since the reads.
`AttemptFails` leaves the handler running. `Apply` happens after every
successful poll, 304 included. `ApplyFails` allows every outcome of a failed write,
stop or start. `RestartAgent` empties the agent's memory, not the cache.

### Socks5Pool

*State.* `pool`: status and `currentAllocations` of each row; `alloc`, `order`: the
tables; `worker[w]`: a purchase (`allocate` or `createOrder`) with the rows it
chose and the counters it read; `release[l]`: an allocation that `release` looked
up; `doomed`: rows that `deleteFromPool` found without allocations. `twice` is
history.

*Actions.* `Begin` is `findMany` and the choice of the least used rows with capacity
left; `AllocateItem` the transaction, which increments the counter but
computes the status from the first read; `CreateRelay` fails on an allocation whose
row was deleted meanwhile; `Release` decrements and sets "available", whatever
became of the allocation. `PurchaseDies` and `ReleaseDies` stop anywhere, and
nothing is undone. `Delete` cascades to the allocations, as the schema says.

*Abstractions.* Country, dates, prices and the properties of relays are left out;
rows do not expire by date.

### XrayProcess, AgentNode

*State.* A slot is a process with the goroutine of `Start` that waits for it, `proc`
its state; `cmd` and `running` are the manager's fields; `stop` is the `Stop` that
holds the lock. `db` stands for the panel's rows; `held`, `known` for the agent's
`nodeConfig`, `users` and `rateLimits`; `file` for Xray's file; `xray` for what a
process serves, which starts from the file and changes by API calls; `cloop` and
`todo` are the positions of the two loops.

*Actions.* `Stop` signals and waits; its `Wait` and the monitor's compete for the
process, and the loser never returns, so that a stop may last until its timeout and
kill. `RestartStops`, `RestartWaits`, `RestartStarts` are the parts of `Restart`,
with `Xray` and monitors acting between them. `PollUsers` computes the
differences, `HotRemove`, `HotAdd`, `HotLimit` are single calls, `HotFails` an
error, which is logged only. A config poll reads users that the other loop changes
(`GenerateAndWrite`), and restarts Xray even when nothing changed.

*Abstractions.* A user is an email in an inbound; a credential and a limit are
numbers. Kicks are left out: the addresses to kick are asked for with a list that is
always empty. `Prompt` says that the 500 ms after a kill are enough for the
process to be gone; without it a restart may lose a process.

### AgentStream

*State.* `strm[s]`: a stream as agent and panel see it, which differ while a
loss is not yet noticed; `conn`: the registry's entry; `push[p]`: a push between
its awaits, one per registration or rollback; `versions`: the `ConfigVersion` rows;
`inbox`, `results`: messages under way; `failing`: failed results whose rollback is
at work. A configuration is the revision of the rows it was built from.

*Actions.* Registration and `pushConfig` await by await, with both reads of the
rows (`PushRead`, `PushSnapshot`); `HealthCheck`, which drops a silent connection;
`Drop`, the loss of a stream, which either end may notice first; results, which
mark the version and start a rollback; `RollbackTo` by an operator. `Refuse`
is a configuration that the agent could not apply.

*Abstractions.* One node; traffic, status and online messages, which the panel writes
as their HTTP handlers do; deltas, which nobody sends.

### NodeHealth

*State.* `status` and `silent` (the time since `lastSeenAt`) are the row; `told` the
load in Redis; `count`, `recovery` the job's counters; `load` what the node really
does; `job` the job with the row it read; `judged` and `watched` are history.

*Actions.* A report writes Redis, then the row; the job reads, evaluates, counts
and marks in steps of their own; operators move the node between groups and
set its status; the counters expire. Time passes in intervals of the report, and not
before what is due has happened: a report at the latest one interval late, a check
done within one. These are the assumptions `Timeout >= 3` and `Tick` state; with
them the bound `Limit` on how long a dead node stays selectable is computed.

### ClientAccess

*State.* `row`: the client table, with a number (`cred`) for what `buildClient` copies
from it (uuid, password, flow, method, level) and, as history, the number at the last
edit that was synchronised (`told`); `settings`: the copies in the inbounds' settings;
`inbound`: whether it exists and is enabled; `request`: an operator's request between
its queries; `cached`: the rows behind the cached ETag of a node.

*Actions.* `Create`, `BulkCreate`, `Update`, `Delete` begin a request; `ReadSettings`,
`WriteSettings`, `Invalidate` are the three steps of `syncClientToInbounds` and
`removeClientFromInbounds`; `DropRow` ends a deletion. `EditInbound` sends back the
settings a form has shown; `SetEnable`, `CreateInbound`, `DeleteInbound` are the other
edits of inbounds. `ExpiryCheck` is the job, which invalidates nothing. `Die` ends a
request anywhere. `NeedsSync` is the condition of `update`: tags that differ, or a
non-empty uuid, password or flow, or the flag. An edit of the method or the level, or one
that clears flow or password, ends with the row: it rewrites no settings and invalidates
nothing. `EditsServed` and `CopiesAgree` are stated up to such edits (`Since`): what is
served or copied is as old as the last edit that was synchronised, and no older.

*Abstractions.* An inbound is alone on its node, and the address of a client that was
deleted is not used again (`Gone`). Expiry and quota themselves are left
out: what they do to a client is done by `ExpiryCheck` or by `Update`.

### GoSeaGeneration

*State.* The four tables; `request`, `deletion`: requests between their queries with
what they have read; `cached`: the rows behind a node's cached ETag.

*Actions.* `BeginSocks5`, `BeginBatch`, `BeginMulti`, `BeginRelay` and `BeginRelays` are
what each generator reads and decides before it writes; `Socks5Steps` and so on are the
order of its queries: `single-port-multi-egress`, for one, creates all outbounds before
the first client. `EnsureInbound`, `EnsureOutbound`, `CreateClient`, `CreateRule` and
`Invalidate` are the queries. Deletion removes the rules whose tag has the client's id
and the prefix that the API called knows, then the client. `RequestDies` and
`DeletionDies` stop anywhere and nothing is undone.

*Abstractions.* A tag stands for its kind; ports and passwords are left out. The first
eight digits of a client's id, which its rule's tag is made of, stand for the client
(`by` and `name`): two clients whose ids begin alike are not modelled.

### XrayConfig

*State.* `dto`: the inbound form and client as an operator fills them; the rows, as
functions on their positions, of which some are free, so that a rule's place among
the others is the operator's and "the first" is the least position;
`polled`: the rows of the last poll; `kept`: the configuration in the agent's
memory, which `Generate` changes; `file`: what it wrote.

*Actions.* Creation and deletion of outbounds and rules under the validators,
`Poll`, `WriteFile`. The builder, the generator and the three formats of profiles are
operators, with fields instead of text; `Route` is Xray's routing, `Reaches` what a
client program needs to connect. The initial states are all forms, valid or not.

`Valid` is the check before a push and `PushedRows` what it is given.

*Abstractions.* One inbound with one client; the Surge profile is left out.
`Broken(format)` lists the inbounds that the form can build and a format does not
describe, vless with reality among them although the profiles claim "Reality support":
the form has a field for the public key, `inbound.service.ts` passes it on, and
`buildStreamSettings` never writes it. `ReachUnlessBroken` says that the list is exact,
in both directions.

### NodeDns

*State.* `zone`: the providers' records; `rows`: the panel's; `node`: address and
generated name; `request`: an operator's request between its queries and calls.

*Actions.* `Ensure`, `ReadProvider`, `Find` are `ensureNodeDomain`, which goes on as
`createRecord` (`ZoneCreate`, `RowCreate`) or `updateRecord` (`ReadRow`, `ZoneUpdate`,
`RowUpdate`). A call's answer may be lost after its effect; a deletion at the provider may
fail, which the code ignores. `SyncRow` takes the first record listed, which a
provider that searches by keyword may give for another name. `Place` is where an adapter
writes a name: Cloudflare's keeps it, Aliyun's and Tencent's (`Cut`) keep its first label
(`First`), so a name with dots before the root domain is written to the place of
another. `AnswersHold` speaks of the place where the adapter writes a name, and its
comment lists the names it is silent on.

*Abstractions.* Addresses are numbers, each provider has a domain of its own. Record
types, TTLs and the deletion of a provider are left out.

## Runs

| Run | Shows |
|---|---|
| `traffic` | `Conservation`: each metered byte is in exactly one place of the buffer path, and each `ClientStats` row of a client equals what was committed. `ChartsWithinMetered`, `UsedWithinBothPaths`: each path takes and bills a byte at most once. `ImplementsMetering`: the pipeline implements `Metering`. `PipelineDrains`: nothing gets stuck. |
| `config` | `ImplementsReplica`: what the agent holds never goes back. `EventuallyCurrent`: if faults stop, Xray ends up with the rows. `RoutesKept`: rules that pile up in memory change no route. `ReachUnlessBroken`: links and profiles match the inbound, but for a complete list of those that do not. |
| `socks5_pool` | `CounterMatches`, `FreeIsAllocatable`, `CompletedInFull`. `OversellBounded`: what the filter of the purchases still guarantees when they race. |
| `agent_node` | `NoOrphan`: no Xray is left behind, and the flag is right. `AppliedAfterPoll`: what serves between two polls is what was polled. `HotSyncComplete`, `NoStaleLimit`: the user loop's calls miss nobody. `Repaired`: whatever was missed is made up for. |
| `agent_stream` | `KnowsWhatRuns`: without overlap or loss the last applied version is what runs. `Reachable`: pushes go to the stream that is open. `Settles`: pushes and rollbacks come to an end. |
| `node_health` | `DeadIsOut`, `OverloadStaysOut`: a dead or overloaded node leaves the selection and stays out. `Recovers`: a well one comes back. |
| `client_access` | `EditsServed`: a cached ETag hides no edit that is synchronised and has returned. `CopiesAgree`: settings and rows agree, up to edits that are not synchronised. |
| `gosea_generation` | `ReturnedWorks`, `DeletedGone`, `UidOnce` |
| `node_dns` | `AnswersHold`: where the adapter writes a domain that was answered there is the node's address alone, and nothing where it writes one that was removed. |
| `forced_sync` | violated: after `syncNode`, a slow handler stores an old ETag and the next poll is answered 304 |
| `push_refused` | violated: the check before a push refuses valid configurations, because it is given rows whose settings and rules are JSON text |
| `oversold` | violated: two purchases read a proxy with `maxAllocations = 1` before either sells it, and both sell it |

Every passing run checks its module's type invariant too. The three violated properties
state what a comment or the documentation says; `PROJECT.json` quotes it with
the lines of the code that differ.

**Bounds.** `traffic`: two metered bytes, distributed in all ways over a
client with a row and one without, and both directions; two inbounds; one retry.
Two bytes are enough for one of them to be counted, pushed, popped or lost while
another is on its way, in the same or the other loop; one retry shows both the
retry and the giving up, and more retries repeat states, because after the first
attempt that sent the body every further one is empty. `config`: each
part is edited once, two requests at a time, one retry, one restart of the agent:
an old handler and a new one, and an edit between the two reads or after them; all forms
of an inbound and a client; three rules and two outbounds, so that
a rule may be shadowed on either side; kept rules up to position six, two files after a poll.
`socks5_pool`: one row sold once and one sold twice, two purchases of up to two
rows, two releases, three allocations, one order, one renewal or deletion: two
actors of each kind race on each row, and a third allocation is left to make a
second sale after a release. `agent_node`: two processes at a time, one crash, one
failed call, two edits, a user whom the API can add and one whom only a restart can:
an old process with its monitor and a new one, and an edit to overtake another.
`agent_stream`: two streams one after the other or at once, two edits of which one
makes a configuration the validator refuses, three pushes: a push, the one
it races and the one that must repair it. `node_health`: a timeout of three
intervals, checks every two, thresholds 3 and 2, one failed run, two edits, so that
a check may judge a row two steps old. `client_access`, `gosea_generation`: two
requests of any kind (and a deletion) on two nodes; a third repeats a race of two
with a request that has ended. `node_dns`: three requests, since two may leave what the
third has to mend; two addresses; two names, of which the second has a dot and is cut to
the first; a provider that keeps names and one that cuts them and searches by keyword;
two edits of nodes or records made by hand. `oversold`: the instance of `socks5_pool`.

Sets that are symmetric are declared so only in runs without liveness. Deadlock is
not checked where bounded requests really end.

**Fairness.** `traffic`: weak fairness of the loops, handlers and jobs: tickers and
cron schedules repeat for ever, an HTTP attempt ends by its timeout, an await ends.
`AggDel` has strong fairness: without it, Redis might reject the second command of
every pop and the buffer would stay full for ever, which is an outage and not a
protocol error. Metering, crashes, failures and operators have none.
`config`: weak fairness of the agent's loop, of the handlers, and of the
TTL of the ETag (5 minutes). `EventuallyCurrent` is conditional on requests
failing only finitely often: an agent whose every request fails cannot be
current. The edits are bounded, so they end; crashes of the agent too.
`agent_node`: weak fairness of the two loops (tickers; calls have timeouts) and of
processes and goroutines; strong fairness of an Xray's boot, which takes less than the
interval of the config loop that would otherwise always stop it first.
`agent_stream`: weak fairness of the panel's awaits, and an agent that tries what it
receives; streams, edits and results are free. `node_health`: weak fairness of time,
the job and the reports of a node that is up. The other specifications have none and
state safety only.

## Proofs

Assumptions are the named ones of each module: the sets are what they are
used as, bounds are natural numbers, and null values are not values; sets are
nowhere assumed small, and finite only where they are counted. `Prompt` is a
hypothesis of four theorems about `AgentNode`, and written there.

Each module has the same shape: one lemma per group of actions or per conjunct of the
inductive invariant, a lemma that puts them together, and theorems that derive the
properties. Every inductive invariant was first checked by TLC as an invariant of
the instance of its run, where it holds in all reachable states:

| Inductive invariant | Instance | States |
|---|---|---|
| `WorkInv`, `ChartInv`, `BilledInv` | `traffic` | 367,856 |
| `OrderInv`, `PendingFits` | `socks5_pool` | 2,066,116 |
| `HealthInv` | `node_health` | 1,214,879 |
| `AgentInv` | `agent_node` | 267,741 |
| `StreamInv` | `agent_stream` | 1,246,984 |
| `AccessInv` | `client_access` | 2,488,525 |
| `GenInv` | `gosea_generation` | 1,537,583 |
| `DnsInv` | `node_dns` | 2,294,369 |
| `XrayInv` | `config` | 1,116,228 |

**TrafficAccountingProofs.** `TypeCorrect` needs one fact beyond types: the job's
snapshot is at most the buffer while it is between LRANGE and DEL (`AggSnapshot`), so
that what DEL loses is not negative. `ConservationCorrect`: the balance alone
is not inductive. A report that is given up may be counted as lost only
if it was drained or never sent, and a handler that has ended holds nothing
(`WorkInv`); with these, every action moves bytes between terms of the sum
(`BalanceStep`), and rows receive what is committed (`RowsMatch`). `UsedCorrect`: the
job that bills has written the same amount to the chart before, so the amount
in the `bill` state is part of `series` and not yet of `used` (`BilledInv`).
`ChartsCorrect`: what is charted, and what may yet be, is at most what was
metered (`ChartInv`): the counters, the job's take, the body a loop may still
send and what a handler is about to add. `MeteringImplemented`, the refinement of
`Metering`: `settled` is what was billed and `Outstanding` what is neither billed nor
lost; each step meters, settles or loses, or changes neither.

**ConfigProofs.** `DeliveryTypeCorrect` needs that pending invalidations are
at most the edits made. `ReplicaCorrect` (the refinement): nothing is ahead of the
rows (`NoneAhead`), because every version was read from rows that only grow; and the
request the agent waits for has read each part after it was sent, when the rows
were at least what the agent holds (`AwaitedIsNewer`). The agent takes only that
request's answer, so each step is a step of `Replica` or a stutter. The
second half is what stale handlers would break.
`RoutesCorrect`: what the agent keeps is the list of the last poll behind some number of
rules that only calls to the API match (`Piled`); a file adds one of them and moves the
others on, so the first rule that matches is the same one (`RouteSame`). The agent's list
of outbounds has, for each tag, the outbound of the operator's list that would come
first after the panel's own (`SameOutbound`). Least positions exist because the order of
the numbers is well founded: no induction over the lists is needed. `ProfilesCorrect` is
a case for each protocol and format, over all forms: a profile names what the
inbound needs, or the inbound is on the list, and never both. `RefusedExactly` says what the
violation `push_refused` leaves open: which valid configurations the check refuses, those
of shadowsocks and those of a node with a rule, and no other.

**Socks5PoolProofs.** `CounterCorrect`: counter and allocations change in
one transaction, provided that a release holds an allocation that was made and an
allocation that is not gone has a row (`RowsHeld`). `FreeCorrect`: a row
becomes "exhausted" only together with a new allocation, and a release of any of
its allocations makes it "available" (`ExhaustedHeld`); with the counter, a row
without holders is below its limit. `OversellCorrect`: the bound is not
inductive, since a purchase may sell long after it read. `PendingFits` strengthens
it: counter + purchases still to sell the row ≤ limit + purchases − 1. A purchase
joins only while the counter is below the limit, and a sale moves it from one term
to the other; that needs the rows of one purchase to differ (`Good`).
`OrdersCorrect`: an order has one purchase at work on it (`OneBuyer`), and the items it
has and those the purchase is still to make add up to its quantity; the one
item without a relay is the one in hand (`InHand`). A purchase that dies leaves
the order in "processing".

**NodesProofs.** `AnswersCorrect`: every request that is under way says, by the step it
is at, what it takes for granted of the rows and entries it has read (`Sound`); an entry is
that of a row, which has it or is about to be written (`Backed`); a row of a node has its
entry unless that is about to go (`Kept`); and a name on which one request works is changed
by no other (`Apart`), since names on which two have worked are muddled and nothing is
claimed of them. So what a request has to keep for an answer is only its own part
(`Carries`, `Harmless`), and an answer is kept until another request takes up its name,
node or record (`Held`). An entry is at the place that its name has for its provider
(`Entry`), so two entries at a place are of one name or share it, which the property
leaves out. The assumption that the null node is
neither a node nor a name is what its constant means.
`OverloadCorrect`: the counter in Redis is never behind the
findings that it counts, and who has just found the node well knows of none since
(`JudgedCounted`). `DeadCorrect`: as long as a dead node may be selected, each check of it
was a strike, failed, or is still running, and between two checks pass `CheckEvery`
intervals. So the time since it died and the time until the next check are together
at most a budget that grows with the strikes (`WatchedBounded`); `Limit` is the budget
of the last strike.

**AgentNodeProofs.** With `Prompt`, every slot but the manager's own is free, and nothing
serves while the flag is down (`OneProcess`). The file is what the agent holds from the
write to the start, and so is the structure of the Xray that serves between two polls
(`FileApplied`). The Xray that serves or will has the users that the agent believes it
to have, but for the calls in `todo` (`UsersFollow`); so do the limits
(`LimitsFollow`). `TypeCorrect` needs no `Prompt`: it holds with processes that were
lost, too.

**AgentStreamProofs.** `TypeCorrect`: the bound on the version rows counts them together
with what may still write one (`Counted`): a stream that has not pushed, a rollback that
has written its mark only. `ReachableCorrect`: without an overlap one stream is alive,
and it has the registry's entry once it stored it (`Alone`). `KnowsCorrect`: until
something is muddled there is at most one piece of work (`OneWork`), a push, a message, a
result or a failure to roll back; each carries the configuration of the newest row, and
while none is under way the last applied row is what runs. So each step hands the one
piece on.

**ClientAccessProofs.** `EditsCorrect` and `CopiesCorrect` speak of states at rest, when
requests have ended; the invariant says for the states in between what each request
still owes. Settings that are not lost have one writer, who has read what is there
(`Writers`); one request concerns a client, and its list of tags to clear has none that
the row names (`Alone`). So a client's copy in the settings agrees with the row, or its
request will still write it (`Copies`), where "agrees" allows for the edits since
`told`; and a cached configuration agrees with it, or the request will still invalidate
it, or dies (`Served`). `Carries` is what each action has to keep for one client and one
inbound, with one lemma per action.

**GoSeaGenerationProofs.** A request is at a number in its list of queries, and every
query before that number has left its row (`Written`, `Exits`, `Supplied`): the lists
differ in order, but in each a rule follows its client and the invalidation comes last
(`Table`). With that, `ReturnedCorrect` and `DeletedCorrect` need that a configuration
that was cached before the last query has no ETag after it (`Fresh`), and that a tag
no two nodes had leads to the node that has the client (`Traced`). `UidCorrect`: a request
that has passed the check overlaps all that wrote its egress since (`Overlapping`).

*Only model-checked.* Liveness (`PipelineDrains`, `EventuallyCurrent`, `Repaired`,
`Settles`, `Recovers`) and fairness, which are beyond the prover. Every safety property
of a passing run has a theorem.

## Observed

What the code does and no run is about, found while translating it:

* *Traffic.* `usedBytes` is incremented by both jobs for the same report, so it exceeds
  what was metered (`traffic-aggregation.processor.ts:91`,
  `timeseries-aggregation.processor.ts:168`); downloads are charted only with an upload
  counter; a client's `ClientStats` rows each get all its traffic, and sums over
  inbounds multiply it.
* *Agent.* `buildProtocolUser` gives vless users without a flow, trojan and
  shadowsocks users a vmess account when they are added to the running Xray, although
  the comment says that no restart is needed: `Repaired` relies on the next restart.
  Rate limits are lost at every config poll, which restarts Xray, and initial limits
  are never told. `hotSyncUsers` returns no error, so its caller's fallback is dead code.
* *Stream.* The check before a push refuses a node with a shadowsocks inbound or a
  routing rule (`push_refused`) and sees no fault in stream settings. `config:rollback`
  has no subscriber; a version that is pushed again loses its "applied" status; a
  rollback by hand pushes the current rows and leaves its version pending.
* *Health.* A new group's timeout (5 s) is shorter than the report interval (10 s):
  its nodes flap, and the assumption `Timeout >= 3` excludes it. A report ends
  "maintenance". A group threshold below 3 leaves flapping nodes selectable.
* *Clients.* `update` synchronises no edit of a method or a level and none that clears
  flow or password (`client.service.ts:306`): the row has it, the settings keep the old
  value until another edit rewrites them, and the ETag stays. Edits of quota and expiry,
  `resetTraffic` and the expiry job invalidate no ETag; an inbound created after clients
  named its tag has settings without them; a node without a valid client is served the
  stored settings, disabled clients included.
* *GoSea.* Generators select a node of a group with a string where options are expected,
  so free slots are never asked for. Deletion goes by a tag that nodes share and may
  invalidate the wrong node (`DeletedGone` is stated for tags of one node); a second
  batch of the same names dies half-way; a generation that dies leaves rows that no
  invalidation follows.
* *Profiles.* `Broken` lists the inbounds that a format does not describe. The largest
  group is vless with reality: the public key of the form (`inbound.service.ts:118`,
  `xray-config-builder.ts:104`) is never written, and `subscription.service.ts:159` reads
  an empty one unless the operator sent raw JSON. The routing validator refuses
  every rule with a balancer.
* *DNS.* A create whose name is taken in the table leaves its record in the zone, where
  the other node's name then resolves to both; a create whose answer was lost is refused
  when it is repeated; an update that reached only the zone is not repaired when the
  node's address goes back. Aliyun's and Tencent's adapters write the first label of a
  name only (`aliyun.adapter.ts:52`, `:64`, `tencent.adapter.ts:62`, `:75`), so a name
  with dots before the root domain does not resolve, and two such names may share a
  record; a synchronisation by keyword (`dns.service.ts:252`) gives a row the id of
  another name's record, and the next update or deletion changes the wrong one.
* *Elsewhere.* The user limit of an egress IP and the last administrator are guarded by
  a check before the write, as in the SOCKS5 pool; the cached system settings may be
  stored by a slow reader after an update has cleared them, as the ETag.

## Not modelled

The web client (two fifths of the lines: forms, tables and API calls), generated
code and deployment; tenants, authentication, audit logs, administration, statistics and
alerts (single-row reads and writes, or queries, with nothing to interleave);
sets of online users and devices, which are filled from an empty answer; policies, egress
IPs and balancers (rows copied into a configuration); the warnings of the validators;
`logClientIp` and the inbound validator, which nothing calls. With
these a large part of the repository's lines is outside of any model here; what is
mapped is the code that keeps state between two steps.

## Next

1. The refinement of a whole node by what its poll promises: `ClientAccess` and
   `GoSeaGeneration` have a poll in one step, which `ReplicaCorrect` justifies for a
   configuration of two parts.
2. Balancers as targets of rules, once the panel can create them.
