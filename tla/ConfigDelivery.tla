--------------------------- MODULE ConfigDelivery ---------------------------
(***************************************************************************)
(* How an edit of a node's configuration reaches its Xray.                 *)
(*                                                                         *)
(* The panel keeps rows in the database and, in Redis, the ETag of the     *)
(* last configuration it built for the node.  An edit writes a row and     *)
(* then deletes the ETag.  The agent polls: a request carries the ETag of  *)
(* the configuration it holds, the handler answers 304 when the cached     *)
(* ETag is the same, and else builds the configuration, in two rounds of   *)
(* queries, stores its ETag and answers 200.  After each poll that         *)
(* succeeded the agent writes Xray's config and restarts it.               *)
(*                                                                         *)
(* A configuration is abstracted to the version of its two parts, the ones *)
(* the two rounds of queries read.  An ETag is the hash of a configuration *)
(* and stands for it.  A request the agent gave up leaves its handler      *)
(* running.                                                                *)
(***************************************************************************)
EXTENDS Naturals

CONSTANTS
    Handlers,     \* bound: requests the API works on at the same time
    RetryCount,   \* client.go: retries after the first attempt
    MaxVersion,   \* bound: how often each part of the rows is edited
    MaxRestarts   \* bound: restarts of the agent

ASSUME HandlersAssumption == Handlers # {}
ASSUME BoundsAssumption ==
    RetryCount \in Nat /\ MaxVersion \in Nat \ {0} /\ MaxRestarts \in Nat

VARIABLES
    db,        \* versions of the rows
    pending,   \* edits whose row is written and whose DEL is still to come
    cache,     \* config:etag:<node> in Redis
    handler,   \* the API's requests
    poll,      \* the poll of the agent's config loop
    held,      \* nodeConfig and configETag, which the agent sets together
    applied,   \* the configuration the running Xray was started with
    restarts,  \* how often the agent was restarted
    sync       \* history: whether, since the last edit, an operator forced a
               \* sync ("done") and a poll began after that ("asked")

panel == <<db, pending>>
agent == <<held, applied, restarts>>
vars == <<panel, cache, handler, poll, agent, sync>>

\* inbounds, outbounds, routing, DNS and policy; and the clients
Part == {"structure", "clients"}

Config == [Part -> 0..MaxVersion]
Blank  == [p \in Part |-> 0]     \* no configuration, no ETag

HandlerState == {"none", "check", "structure", "clients", "store",
                 "notModified", "ok", "failed"}

TypeOK ==
    /\ db \in Config /\ pending \in 0..(2 * MaxVersion)
    /\ cache \in Config
    /\ handler \in [Handlers -> [pc : HandlerState, ask : Config, got : Config]]
    /\ poll \in [pc : {"idle", "sending", "waiting", "apply"},
                 server : Handlers, attempt : 0..RetryCount]
    /\ held \in Config /\ applied \in Config /\ restarts \in 0..MaxRestarts
    /\ sync \in {"no", "done", "asked"}

NoHandler  == [pc |-> "none", ask |-> Blank, got |-> Blank]
PollAt(pc) == [pc |-> pc, server |-> CHOOSE h \in Handlers : TRUE, attempt |-> 0]

Init ==
    /\ db = [p \in Part |-> 1] /\ pending = 0
    /\ cache = Blank
    /\ handler = [h \in Handlers |-> NoHandler]
    /\ poll = PollAt("idle")
    /\ held = Blank /\ applied = Blank /\ restarts = 0
    /\ sync = "no"
-----------------------------------------------------------------------------
(* The panel's edits and the cache.                                        *)

\* An operator, or a job that bills or expires clients, changes a row.
EditRow(p) ==
    /\ db[p] < MaxVersion
    /\ db' = [db EXCEPT ![p] = @ + 1]
    /\ pending' = pending + 1
    /\ sync' = "no"
    /\ UNCHANGED <<cache, handler, poll, agent>>

\* invalidateNodeCache, once the row is written.
Invalidate ==
    /\ pending > 0
    /\ pending' = pending - 1
    /\ cache' = Blank
    /\ UNCHANGED <<db, handler, poll, agent, sync>>

\* Quota and expiry edits, the jobs, the balancer, DNS and policy services do
\* not invalidate, and the API may die before the DEL.
SkipInvalidate ==
    /\ pending > 0
    /\ pending' = pending - 1
    /\ UNCHANGED <<db, cache, handler, poll, agent, sync>>

\* NodeService.syncNode.
ForceSync ==
    /\ cache' = Blank
    /\ sync' = "done"
    /\ UNCHANGED <<panel, handler, poll, agent>>

\* MUTANT of Expire: the ETag is stored without a TTL.
ExpireNever ==
    /\ cache = Blank
    /\ UNCHANGED vars

\* The ETag's TTL of 5 minutes runs out.
Expire ==
    /\ cache # Blank
    /\ cache' = Blank
    /\ UNCHANGED <<panel, handler, poll, agent, sync>>
-----------------------------------------------------------------------------
(* AgentService.getNodeConfig, one action for each thing it awaits.        *)

Awaited(h) == poll.pc = "waiting" /\ poll.server = h

\* The answer to a request that was given up goes nowhere.
Answer(h, pc, config) ==
    IF Awaited(h) THEN [pc |-> pc, ask |-> Blank, got |-> config] ELSE NoHandler

\* The cached ETag is read and compared with If-None-Match.
Check(h) ==
    /\ handler[h].pc = "check"
    /\ handler' = [handler EXCEPT ![h] =
                     IF cache # Blank /\ cache = @.ask
                     THEN Answer(h, "notModified", Blank)
                     ELSE [pc |-> "structure", ask |-> Blank, got |-> Blank]]
    /\ UNCHANGED <<panel, cache, poll, agent, sync>>

\* buildNodeConfig, then injectClientsToConfig.
Build(h, p) ==
    /\ handler[h].pc = p
    /\ handler' = [handler EXCEPT ![h] =
                     [pc |-> IF p = "structure" THEN "clients" ELSE "store",
                      ask |-> Blank, got |-> [@.got EXCEPT ![p] = db[p]]]]
    /\ UNCHANGED <<panel, cache, poll, agent, sync>>

\* setConfigEtag, whatever happened since the rows were read.
Store(h) ==
    /\ handler[h].pc = "store"
    /\ cache' = handler[h].got
    /\ handler' = [handler EXCEPT ![h] = Answer(h, "ok", @.got)]
    /\ UNCHANGED <<panel, poll, agent, sync>>

\* Redis or the database rejects a command: 500.
HandlerFails(h) ==
    /\ handler[h].pc \in {"check", "structure", "clients", "store"}
    /\ handler' = [handler EXCEPT ![h] = Answer(h, "failed", Blank)]
    /\ UNCHANGED <<panel, cache, poll, agent, sync>>
-----------------------------------------------------------------------------
(* The agent's config loop.                                                *)

\* configSyncLoop's ticker, or Manager.Start.
Tick ==
    /\ poll.pc = "idle"
    /\ poll' = PollAt("sending")
    /\ sync' = IF sync = "done" THEN "asked" ELSE sync
    /\ UNCHANGED <<panel, cache, handler, agent>>

\* MUTANT of Send: the API answers requests of a node together.
SendJoining(h) ==
    /\ poll.pc = "sending"
    /\ poll' = [poll EXCEPT !.pc = "waiting", !.server = h]
    /\ handler' = IF handler[h].pc # "none" THEN handler ELSE
                    [handler EXCEPT ![h] =
                       [pc |-> "check", ask |-> held, got |-> Blank]]
    /\ UNCHANGED <<panel, cache, agent, sync>>

\* GetConfig: If-None-Match is the ETag of the last answer.
Send(h) ==
    /\ poll.pc = "sending" /\ handler[h].pc = "none"
    /\ poll' = [poll EXCEPT !.pc = "waiting", !.server = h]
    /\ handler' = [handler EXCEPT ![h] =
                     [pc |-> "check", ask |-> held, got |-> Blank]]
    /\ UNCHANGED <<panel, cache, agent, sync>>

\* MUTANT of Retried: one attempt too many.
RetriedOnceMore ==
    IF poll.attempt <= RetryCount
    THEN [PollAt("sending") EXCEPT !.attempt = poll.attempt + 1]
    ELSE PollAt("idle")

\* doRequest: try again, or give the poll up until the next tick.
Retried ==
    IF poll.attempt < RetryCount
    THEN [PollAt("sending") EXCEPT !.attempt = poll.attempt + 1]
    ELSE PollAt("idle")

Answered(h) == handler[h].pc \in {"notModified", "ok", "failed"}

\* The API works on without the agent; an answer on its way is lost.
Abandoned == [h \in Handlers |-> IF Answered(h) THEN NoHandler ELSE handler[h]]

\* No connection, or no answer in time.
AttemptFails ==
    /\ poll.pc \in {"sending", "waiting"}
    /\ poll' = Retried
    /\ handler' = Abandoned
    /\ UNCHANGED <<panel, cache, agent, sync>>

\* The answer: 304 keeps what the agent holds, 200 replaces it, 500 is retried.
Receive(h) ==
    /\ Awaited(h) /\ Answered(h)
    /\ poll' = IF handler[h].pc = "failed" THEN Retried ELSE PollAt("apply")
    /\ held' = IF handler[h].pc = "ok" THEN handler[h].got ELSE held
    /\ handler' = [handler EXCEPT ![h] = NoHandler]
    /\ UNCHANGED <<panel, cache, applied, restarts, sync>>

\* generateAndWriteConfig and Restart, also when nothing changed.
Apply ==
    /\ poll.pc = "apply"
    /\ applied' = held
    /\ poll' = PollAt("idle")
    /\ UNCHANGED <<panel, cache, handler, held, restarts, sync>>

\* The config is not written, Xray does not stop, or it does not start again.
ApplyFails ==
    /\ poll.pc = "apply"
    /\ applied' \in {applied, Blank} \ {held}
    /\ poll' = PollAt("idle")
    /\ UNCHANGED <<panel, cache, handler, held, restarts, sync>>

\* The agent stops, Xray with it, and is started again with an empty memory.
RestartAgent ==
    /\ restarts < MaxRestarts
    /\ restarts' = restarts + 1
    /\ held' = Blank /\ applied' = Blank
    /\ poll' = PollAt("idle")
    /\ handler' = Abandoned
    /\ UNCHANGED <<panel, cache, sync>>
-----------------------------------------------------------------------------
HandlerStep(h) ==
    Check(h) \/ (\E p \in Part : Build(h, p)) \/ Store(h) \/ HandlerFails(h)

AgentStep ==
    \/ Tick \/ AttemptFails \/ Apply \/ ApplyFails
    \/ \E h \in Handlers : Send(h) \/ Receive(h)

Next ==
    \/ \E p \in Part : EditRow(p)
    \/ Invalidate \/ SkipInvalidate \/ ForceSync \/ Expire
    \/ \E h \in Handlers : HandlerStep(h)
    \/ AgentStep \/ RestartAgent

\* The tickers tick, requests time out, the API finishes what it works on, the
\* entries of Redis expire.
Fairness ==
    /\ WF_vars(AgentStep) /\ WF_vars(Expire)
    /\ \A h \in Handlers : WF_vars(HandlerStep(h))

Spec == Init /\ [][Next]_vars
FairSpec == Spec /\ Fairness
-----------------------------------------------------------------------------
\* What the agent holds follows the rows: late answers, retries, stale cache
\* entries and half-built configurations never take it back to an older
\* version of a part.
Rows == INSTANCE Replica WITH source <- db, copy <- held
ImplementsReplica == Rows!Spec

Fault == AttemptFails \/ ApplyFails \/ \E h \in Handlers : HandlerFails(h)
FaultsStop == <>[][~Fault]_vars

\* When the rows stop changing and requests stop failing, Xray ends up with the
\* rows, whatever the cache held: the TTL heals what an invalidation missed.
EventuallyCurrent == FaultsStop => <>[](applied = db)

\* After the last edit an operator forces a sync: a poll that begins later and
\* ends well brings the agent the rows ("Agent will fetch new config on next
\* poll", syncNode).
SyncHonoured == poll.pc = "apply" /\ sync = "asked" => held = db
=============================================================================
