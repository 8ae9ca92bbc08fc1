-------------------------- MODULE GoSeaGeneration --------------------------
(***************************************************************************)
(* Generating and deleting proxies: socks5-generate, batch-socks5,         *)
(* single-port-multi-egress, relay-generate and batch-relay.  Each creates *)
(* an inbound, outbounds, clients and routing rules one query at a time,   *)
(* without a transaction, and at last invalidates the node's cached ETag.  *)
(* A request may die at any query; what it wrote stays.                    *)
(*                                                                         *)
(* Agents poll meanwhile.  A poll is one step here; ConfigDelivery has its *)
(* reads and its late store.                                               *)
(***************************************************************************)
EXTENDS Naturals, Sequences, FiniteSets

CONSTANTS
    Node,         \* nodes of one tenant
    Egress,       \* egress addresses, or targets of a relay: of any node
    Request,      \* bound: requests to generate
    Deletion,     \* bound: requests to delete
    MaxPolls,     \* bound: polls of agents whose ETag has expired
    NoNode

ASSUME NodeAssumption == IsFiniteSet(Node) /\ NoNode \notin Node
ASSUME RequestAssumption == IsFiniteSet(Request) /\ IsFiniteSet(Deletion) /\ IsFiniteSet(Egress)
ASSUME MaxPollsAssumption == MaxPolls \in Nat

VARIABLES
    inbounds,   \* rows: node and tag
    outbounds,  \* rows: node, and what gives the tag: sort and egress
    clients,    \* rows
    rules,      \* rows: node, client's name and egress; by stands for its id
    request,    \* the generating requests
    deletion,   \* the deleting requests
    cached,     \* what the configuration with the node's cached ETag was built from
    polls,      \* polls so far
    doomed,     \* history: clients whose deletion has begun
    deleted,    \* history: clients whose deletion has returned
    twins,      \* history: tags that two nodes had at the same time
    overlap     \* history: pairs of requests that ran at the same time

rows == <<inbounds, outbounds, clients, rules>>
history == <<doomed, deleted, twins, overlap>>
vars == <<rows, request, deletion, cached, polls, history>>

Kind == {"socks5", "batch", "multi", "relay", "relays"}

\* socks5-generate and batch-socks5 share their inbounds, and so do the two
\* relay generators.
Tag(kind) == CASE kind \in {"socks5", "batch"} -> "gosea-socks5"
               [] kind = "multi" -> "gosea-socks"
               [] OTHER -> "gosea-relay"

\* Direct exits by an address of the node, or SOCKS5 exits to a target.
Sort(kind) == IF kind \in {"relay", "relays"} THEN "gosea-socks5" ELSE "gosea-direct"
Out(kind, n, e) == [node |-> n, sort |-> Sort(kind), egress |-> e]

\* The generated names; those of a batch start over with every request.
Name(r, kind, i) == IF kind \in {"batch", "multi"} THEN <<kind, i>> ELSE <<r, i>>
Names == {<<k, i>> : k \in {"batch", "multi"} \cup Request, i \in 1..2}

\* The queries of each generator, in order: what it creates, for which entry.
Opening == <<"inbound", 1>>
Exit(i) == <<"outbound", i>>
Entry(i) == <<"client", i>>
Route(i) == <<"rule", i>>
Closing == <<"invalidate", 1>>

Socks5Steps == <<Opening, Exit(1), Entry(1), Route(1), Closing>>

\* MUTANT of BatchSteps: the cache is invalidated before the last rule.
BatchStepsEarly ==
    <<Opening, Exit(1), Entry(1), Route(1), Exit(2), Entry(2), Closing, Route(2)>>

BatchSteps == <<Opening, Exit(1), Entry(1), Route(1), Exit(2), Entry(2), Route(2), Closing>>
MultiSteps == <<Opening, Exit(1), Exit(2), Entry(1), Route(1), Entry(2), Route(2), Closing>>
RelaySteps == <<Opening, Exit(1), Entry(1), Route(1), Closing>>
RelaysSteps == <<Opening, Exit(1), Entry(1), Route(1), Exit(2), Entry(2), Route(2), Closing>>

Steps == [socks5 |-> Socks5Steps, batch |-> BatchSteps, multi |-> MultiSteps,
          relay |-> RelaySteps, relays |-> RelaysSteps]

NoRequest == [pc |-> "idle", kind |-> "socks5", node |-> NoNode, plan |-> <<>>,
              at |-> 1, checked |-> FALSE]
NoConfig == [etag |-> FALSE, clients |-> {}, rules |-> {}]
NoDeletion == [pc |-> "idle", client |-> <<>>, api |-> "socks5", node |-> NoNode]

Active(r) == request[r].pc = "busy"

\* The query a request makes next, and its entry.
Doing(r, what) == Active(r) /\ Steps[request[r].kind][request[r].at][1] = what
Index(r) == Steps[request[r].kind][request[r].at][2]
Target(r) == request[r].plan[Index(r)]

Inbound == [node : Node, tag : {Tag(k) : k \in Kind}]
Client == [name : Names, kind : Kind, egress : Egress, home : Node, by : Request]
Rule == [node : Node, name : Names, egress : Egress, by : Request]

TypeOK ==
    /\ inbounds \subseteq Inbound
    /\ \A a, b \in inbounds : a.node = b.node => a = b
    /\ outbounds \subseteq [node : Node, sort : {Sort(k) : k \in Kind}, egress : Egress]
    /\ clients \subseteq Client /\ deleted \subseteq doomed /\ doomed \subseteq Client
    /\ \A c, d \in clients : c.name = d.name => c = d
    /\ rules \subseteq Rule
    /\ \A r \in Request :
          /\ request[r].pc \in {"idle", "busy", "done", "dead"}
          /\ Active(r) => Index(r) \in DOMAIN request[r].plan
    /\ \A d \in Deletion : deletion[d].pc \in {"idle", "rule", "client", "invalidate", "ended"}
    /\ \A n \in Node : cached[n].clients \subseteq Client /\ cached[n].rules \subseteq Rule

Init ==
    /\ inbounds = {} /\ outbounds = {} /\ clients = {} /\ rules = {}
    /\ request = [r \in Request |-> NoRequest]
    /\ deletion = [d \in Deletion |-> NoDeletion]
    /\ cached = [n \in Node |-> NoConfig] /\ polls = 0
    /\ doomed = {} /\ deleted = {} /\ twins = {} /\ overlap = {}

\* A request that has ended forgets its plan.
Ends(r, pc) == request' = [request EXCEPT ![r] =
                  [NoRequest EXCEPT !.pc = pc, !.checked = request[r].checked]]
Die(r) == Ends(r, "dead")
Goes(r) == IF request[r].at = Len(Steps[request[r].kind]) THEN Ends(r, "done")
           ELSE request' = [request EXCEPT ![r].at = @ + 1]
-----------------------------------------------------------------------------
(* The node polls.                                                         *)

\* injectClientsToConfig finds the tenant's clients by the tags of the node.
Served(n) ==
    [etag |-> TRUE,
     clients |-> {c \in clients : [node |-> n, tag |-> Tag(c.kind)] \in inbounds},
     rules |-> {x \in rules : x.node = n}]

\* The ETag, if there was one, has just expired: it lives five minutes.
Poll(n) ==
    /\ polls < MaxPolls /\ polls' = polls + 1
    /\ cached' = [cached EXCEPT ![n] = Served(n)]
    /\ UNCHANGED <<rows, request, deletion, history>>
-----------------------------------------------------------------------------
(* Generating.                                                             *)

\* MUTANT of Allocated: only while the outbound is missing.
AllocatedNowhere(n, e) ==
    /\ Out("socks5", n, e) \notin outbounds
    /\ \E c \in clients : c.egress = e /\ request[c.by].checked

\* A client of the same user with the tag of the node's outbound for this
\* egress, a tag that other nodes may have too.  All requests that check have
\* the same user, and the others have none.
Allocated(n, e) ==
    /\ Out("socks5", n, e) \in outbounds
    /\ \E c \in clients : c.egress = e /\ request[c.by].checked

Begin(r, kind, n, plan, checked) ==
    /\ request[r].pc = "idle"
    /\ request' = [request EXCEPT ![r] =
          [pc |-> "busy", kind |-> kind, node |-> n, plan |-> plan, at |-> 1, checked |-> checked]]
    /\ overlap' = overlap \cup {{r, s} : s \in {s \in Request : Active(s)}}
    /\ UNCHANGED <<rows, deletion, cached, polls, doomed, deleted, twins>>

\* One egress, and one entry here; the user is checked if the caller names
\* him and chooses the egress.
BeginSocks5(r, n) ==
    \E e \in Egress, checked \in BOOLEAN :
        /\ checked => ~Allocated(n, e)
        /\ Begin(r, "socks5", n, <<e>>, checked)

\* The entries are dealt out to all egresses.
Dealt == {p \in [1..2 -> Egress] : p[1] # p[2]}

BeginBatch(r, n) == \E p \in Dealt : Begin(r, "batch", n, p, FALSE)
BeginMulti(r, n) == \E p \in Dealt : Begin(r, "multi", n, p, FALSE)
BeginRelay(r, n) == \E e \in Egress : Begin(r, "relay", n, <<e>>, FALSE)

\* Targets that are listed, or those the pool has.
BeginRelays(r, n) == \E p \in Dealt : Begin(r, "relays", n, p, FALSE)

MyInbound(r) == [node |-> request[r].node, tag |-> Tag(request[r].kind)]

\* Look for the inbound and create it.  One tag and one port per node, and
\* all requests here ask for the same port.  Of two requests that create the
\* same row one fails, as if it died there.
EnsureInbound(r) ==
    /\ Doing(r, "inbound")
    /\ \/ /\ MyInbound(r) \in inbounds /\ Goes(r)
          /\ UNCHANGED <<inbounds, twins>>
       \/ /\ \E x \in inbounds : x.node = request[r].node /\ x # MyInbound(r)
          /\ Die(r) /\ UNCHANGED <<inbounds, twins>>
       \/ /\ \A x \in inbounds : x.node # request[r].node
          /\ inbounds' = inbounds \cup {MyInbound(r)} /\ Goes(r)
          /\ twins' = twins \cup {tag \in {MyInbound(r).tag} : \E x \in inbounds : x.tag = tag}
    /\ UNCHANGED <<outbounds, clients, rules, deletion, cached, polls, doomed, deleted, overlap>>

EnsureOutbound(r) ==
    /\ Doing(r, "outbound") /\ Goes(r)
    /\ outbounds' = outbounds \cup {Out(request[r].kind, request[r].node, Target(r))}
    /\ UNCHANGED <<inbounds, clients, rules, deletion, cached, polls, history>>

\* MUTANT of NameTaken: e-mail addresses are unique within a request only.
NameTakenByMe(r, name) == \E c \in clients : c.name = name /\ c.by = r

\* E-mail addresses are unique in the tenant.
NameTaken(r, name) == \E c \in clients : c.name = name

CreateClient(r) ==
    LET q == request[r]
        name == Name(r, q.kind, Index(r))
    IN  /\ Doing(r, "client")
        /\ IF NameTaken(r, name)
           THEN Die(r) /\ clients' = clients
           ELSE /\ Goes(r)
                /\ clients' = clients \cup {[name |-> name, kind |-> q.kind, home |-> q.node,
                                             egress |-> Target(r), by |-> r]}
        /\ UNCHANGED <<inbounds, outbounds, rules, deletion, cached, polls, history>>

CreateRule(r) ==
    LET q == request[r] IN
    /\ Doing(r, "rule") /\ Goes(r)
    /\ rules' = rules \cup {[node |-> q.node, name |-> Name(r, q.kind, Index(r)),
                            egress |-> Target(r), by |-> r]}
    /\ UNCHANGED <<inbounds, outbounds, clients, deletion, cached, polls, history>>

Invalidate(r) ==
    /\ Doing(r, "invalidate") /\ Goes(r)
    /\ cached' = [cached EXCEPT ![request[r].node] = NoConfig]
    /\ UNCHANGED <<rows, deletion, polls, history>>

RequestDies(r) ==
    /\ Active(r) /\ Die(r)
    /\ UNCHANGED <<rows, deletion, cached, polls, history>>
-----------------------------------------------------------------------------
(* Deleting.                                                               *)

\* MUTANT of InboundOf: the tag is not looked up.
InboundOfNone(c) == {}

\* findFirst by the tag alone, whatever node has it.
InboundOf(c) == {x \in inbounds : x.tag = Tag(c.kind)}

\* The socks5 API takes every generated client, the relay API its own.
BeginDelete(d, c) ==
    /\ deletion[d].pc = "idle"
    /\ \E api \in {"socks5", "relay"},
          n \in IF InboundOf(c) = {} THEN {NoNode} ELSE {x.node : x \in InboundOf(c)} :
          /\ api = "relay" => c.kind = "relay"
          /\ deletion' = [deletion EXCEPT ![d] = [pc |-> "rule", client |-> c, api |-> api, node |-> n]]
    /\ doomed' = doomed \cup {c}
    /\ UNCHANGED <<rows, request, cached, polls, deleted, twins, overlap>>

\* Rules are tagged with the id of their client: those of a namesake stay.
\* The rules of a relay have tags that the socks5 API does not delete.
DeleteRules(d) ==
    LET c == deletion[d].client IN
    /\ deletion[d].pc = "rule" /\ deletion' = [deletion EXCEPT ![d].pc = "client"]
    /\ rules' = IF Sort(c.kind) = "gosea-socks5" /\ deletion[d].api = "socks5" THEN rules
                ELSE {x \in rules : x.name # c.name \/ x.by # c.by}
    /\ UNCHANGED <<inbounds, outbounds, clients, request, cached, polls, history>>

\* A row that another request has deleted makes this one fail, as if it died.
DeleteClient(d) ==
    /\ deletion[d].pc = "client" /\ deletion[d].client \in clients
    /\ clients' = clients \ {deletion[d].client}
    /\ deletion' = [deletion EXCEPT ![d].pc = "invalidate"]
    /\ UNCHANGED <<inbounds, outbounds, rules, request, cached, polls, history>>

\* A deletion that has ended forgets its client.
Ended == [NoDeletion EXCEPT !.pc = "ended"]

DeleteReturns(d) ==
    /\ deletion[d].pc = "invalidate" /\ deletion' = [deletion EXCEPT ![d] = Ended]
    /\ cached' = [n \in Node |-> IF n = deletion[d].node THEN NoConfig ELSE cached[n]]
    /\ deleted' = deleted \cup {deletion[d].client}
    /\ UNCHANGED <<rows, request, polls, doomed, twins, overlap>>

DeletionDies(d) ==
    /\ deletion[d].pc \in {"rule", "client", "invalidate"}
    /\ deletion' = [deletion EXCEPT ![d] = Ended]
    /\ UNCHANGED <<rows, request, cached, polls, history>>
-----------------------------------------------------------------------------
Next ==
    \/ \E n \in Node : Poll(n)
    \/ \E r \in Request :
          \/ \E n \in Node : \/ BeginSocks5(r, n) \/ BeginBatch(r, n) \/ BeginMulti(r, n)
                             \/ BeginRelay(r, n) \/ BeginRelays(r, n)
          \/ EnsureInbound(r) \/ EnsureOutbound(r) \/ CreateClient(r)
          \/ CreateRule(r) \/ Invalidate(r) \/ RequestDies(r)
    \/ \E d \in Deletion : \/ \E c \in clients : BeginDelete(d, c)
                           \/ DeleteRules(d) \/ DeleteClient(d)
                           \/ DeleteReturns(d) \/ DeletionDies(d)

Spec == Init /\ [][Next]_vars
-----------------------------------------------------------------------------
(* Properties.                                                             *)

RuleOf(c) == [node |-> c.home, name |-> c.name, egress |-> c.egress, by |-> c.by]

\* An entry that a request has returned works until somebody deletes it: the
\* node's rows have all it needs, and a cached ETag is that of a
\* configuration with the client and its rule.
ReturnedWorks ==
    \A c \in clients : request[c.by].pc = "done" /\ c \notin doomed =>
        /\ [node |-> c.home, tag |-> Tag(c.kind)] \in inbounds
        /\ Out(c.kind, c.home, c.egress) \in outbounds
        /\ RuleOf(c) \in rules
        /\ cached[c.home].etag =>
              c \in cached[c.home].clients /\ RuleOf(c) \in cached[c.home].rules

\* An entry whose deletion has returned is in no configuration that an agent
\* is told to keep, when no other node ever had an inbound of its tag.
DeletedGone ==
    \A c \in deleted : Tag(c.kind) \notin twins =>
        \A n \in Node : c \notin cached[n].clients

\* The check of customUid: two requests that name the same egress both give
\* it to the user only if they ran at the same time.
UidOnce ==
    \A c, d \in clients :
        /\ c.by # d.by /\ c.egress = d.egress /\ c.home = d.home
        /\ request[c.by].checked /\ request[d.by].checked
        => {c.by, d.by} \in overlap
=============================================================================
