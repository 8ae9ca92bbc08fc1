------------------------------- MODULE NodeDns -------------------------------
(***************************************************************************)
(* The domains of nodes (dns.service).  The panel keeps a row for every    *)
(* record it has made at a DNS provider, and changes the provider's zone   *)
(* and the row one after the other: a request may die, or its call to the  *)
(* provider fail or lose its answer, between the two; and requests         *)
(* interleave at every query and call.                                     *)
(*                                                                         *)
(* Addresses are numbers.  Every provider serves a root domain of its own, *)
(* so that names of two providers differ even if their labels do not.      *)
(***************************************************************************)
EXTENDS Naturals, FiniteSets

CONSTANTS
    Node, Name, Provider,
    Cut,        \* providers whose adapters write only the first label of a name
    First,      \* per name: the one that its first label makes in the root domain
    Keyword,    \* providers that search records by a part of the name
    Request,    \* bound: requests of operators
    MaxAddr,    \* bound: addresses
    MaxChanges, \* bound: edits of nodes, and records that operators create
    NoNode      \* the node of a row whose node was deleted

ASSUME DnsAssumption ==
    /\ Cut \cup Keyword \subseteq Provider /\ First \in [Name -> Name]
    /\ NoNode \notin Node \cup Name
    /\ IsFiniteSet(Request) /\ MaxAddr \in Nat \ {0} /\ MaxChanges \in Nat

VARIABLES
    node,       \* the nodes' rows: address, 0 if deleted, and generated name
    changes,    \* how many of them there were
    default,    \* the providers that are marked as default
    rows,       \* the panel's records
    zone,       \* the providers' records
    made,       \* how many records the providers have made
    request,
    answers,    \* history: what requests returned that no later one touched
    muddled,    \* history: names and nodes with requests that overlapped, or
                \* that died having made or left a record they do not know;
                \* names of which a synchronisation gave one's record to another
    unsure      \* history: rows of which an update may have reached the zone only

edited == <<node, changes>>
tables == <<default, rows, zone, made>>
history == <<answers, muddled, unsure>>
dnsVars == <<edited, tables, request, history>>

Ids == 1..Cardinality(Request)
Row == [id : Ids, provider : Provider, name : Name, node : Node \cup {NoNode},
        content : 1..MaxAddr, ext : Ids]

\* Where the provider's adapter writes the record of a name: Cloudflare's keeps
\* the name, Aliyun's and Tencent's keep its first label.
Place(p, d) == IF p \in Cut THEN First[d] ELSE d

\* A record is at a place; the name that the panel asked for is a history.
Entry == {z \in [ext : Ids, provider : Provider, name : Name, at : Name, content : 1..MaxAddr] :
            z.at = Place(z.provider, z.name)}

DnsTypeOK ==
    /\ node \in [Node -> [addr : 0..MaxAddr, name : Name]] /\ changes \in 0..MaxChanges
    /\ default \subseteq Provider /\ rows \subseteq Row /\ zone \subseteq Entry
    /\ made \in 0..Cardinality(Request)
    /\ \A x, y \in rows : x.id = y.id \/ (x.provider = y.provider /\ x.name = y.name) => x = y
    /\ \A x, y \in zone : x.ext = y.ext => x = y
    /\ \A x \in rows, z \in zone : x.ext = z.ext => x.provider = z.provider
    /\ unsure \subseteq Ids

Idle == [pc |-> "idle", op |-> "none", about |-> {}, provider |-> {}, node |-> NoNode,
         name |-> {}, ip |-> 0, todo |-> {}]
Done == [Idle EXCEPT !.pc = "done"]

DnsInit ==
    /\ node \in [Node -> [addr : {1}, name : Name]] /\ changes = 0
    /\ default \in {{}} \cup {{p} : p \in Provider}
    /\ rows = {} /\ zone = {} /\ made = 0
    /\ request = [r \in Request |-> Idle]
    /\ answers = {} /\ muddled = {} /\ unsure = {}
-----------------------------------------------------------------------------
(* Nodes.                                                                  *)

\* A registration, or an edit of the address or the name.
EditNode(n) ==
    /\ node[n].addr # 0 /\ changes < MaxChanges /\ changes' = changes + 1
    /\ \/ \E a \in 1..MaxAddr : node' = [node EXCEPT ![n].addr = a]
       \/ \E d \in Name : node' = [node EXCEPT ![n].name = d]
    /\ UNCHANGED <<tables, request, history>>

\* The records stay, without their node.
DeleteNode(n) ==
    /\ node[n].addr # 0 /\ changes < MaxChanges /\ changes' = changes + 1
    /\ node' = [node EXCEPT ![n].addr = 0]
    /\ rows' = {IF x.node = n THEN [x EXCEPT !.node = NoNode] ELSE x : x \in rows}
    /\ UNCHANGED <<default, zone, made, request, history>>
-----------------------------------------------------------------------------
(* Requests.                                                               *)

Active(r) == request[r].pc \notin {"idle", "done"}
RowsOf(n) == {x \in rows : x.node = n}
About(xs) == (UNION {{x.name, x.node} : x \in xs}) \ {NoNode}

\* A request begins; the answers that it may change are no more.
Starts(r, q, about) ==
    LET others == {s \in Request : Active(s) /\ request[s].about \cap about # {}}
    IN  /\ request[r].pc = "idle"
        /\ request' = [request EXCEPT ![r] = [q EXCEPT !.about = about]]
        /\ answers' = {a \in answers : a.name \notin about /\ a.node \notin about}
        /\ muddled' = IF others = {} THEN muddled
                      ELSE muddled \cup about \cup UNION {request[s].about : s \in others}
        /\ UNCHANGED <<node, unsure>>

\* Most requests begin with a query.
Begin(r, q, about) == Starts(r, q, about) /\ UNCHANGED <<changes, tables>>

Goto(r, q) == request' = [request EXCEPT ![r] = q]

\* ensureNodeDomain reads the node, then the default provider.
Ensure(r, n) ==
    /\ node[n].addr # 0
    /\ Begin(r, [Idle EXCEPT !.pc = "provider", !.op = "ensure", !.node = n,
                    !.ip = node[n].addr, !.name = {node[n].name}],
             {n, node[n].name} \cup About(RowsOf(n)))

ReadProvider(r) ==
    LET q == request[r] IN
    /\ q.pc = "provider"
    /\ IF default = {} THEN Goto(r, Done)
       ELSE \E p \in default : Goto(r, [q EXCEPT !.pc = "find", !.provider = {p}])
    /\ UNCHANGED <<edited, tables, history>>

Returned(q, x) ==
    [gone |-> FALSE, provider |-> x.provider, name |-> x.name, node |-> q.node, ip |-> q.ip]

\* MUTANT of Current: any record will do.
CurrentAnyhow(x, ip) == TRUE

Current(x, ip) == x.content = ip

Find(r) ==
    LET q == request[r]
        found == {x \in RowsOf(q.node) : x.provider \in q.provider}
    IN  /\ q.pc = "find"
        /\ \/ /\ found = {} /\ Goto(r, [q EXCEPT !.pc = "create"]) /\ answers' = answers
           \/ \E x \in found :
                 IF Current(x, q.ip)
                 THEN Goto(r, Done) /\ answers' = answers \cup {Returned(q, x)}
                 ELSE Goto(r, [q EXCEPT !.pc = "read", !.todo = {x}]) /\ answers' = answers
        /\ UNCHANGED <<edited, tables, muddled, unsure>>

\* createRecord, updateRecord, deleteRecord and removeNodeDomain of an operator.
CreateRecord(r, n) ==
    /\ changes < MaxChanges /\ changes' = changes + 1 /\ UNCHANGED tables
    /\ \E p \in Provider, d \in Name, a \in 1..MaxAddr :
          Starts(r, [Idle EXCEPT !.pc = "create", !.op = "manual", !.provider = {p}, !.node = n,
                        !.name = {d}, !.ip = a], {n, d})

UpdateRecord(r) ==
    \E x \in rows, a \in 1..MaxAddr :
        Begin(r, [Idle EXCEPT !.pc = "zone", !.op = "manual", !.todo = {x}, !.ip = a], About({x}))

DeleteRecord(r) ==
    \E x \in rows : Begin(r, [Idle EXCEPT !.pc = "delete", !.op = "manual", !.todo = {x}], About({x}))

RemoveDomain(r, n) ==
    /\ RowsOf(n) # {}
    /\ Begin(r, [Idle EXCEPT !.pc = "delete", !.op = "remove", !.node = n, !.todo = RowsOf(n)],
             {n} \cup About(RowsOf(n)))
-----------------------------------------------------------------------------
(* Creating a record: the provider first.                                  *)

Made(q) ==
    LET p == CHOOSE x \in q.provider : TRUE
        d == CHOOSE x \in q.name : TRUE
    IN  [ext |-> made + 1, provider |-> p, name |-> d, at |-> Place(p, d), content |-> q.ip]

\* A provider refuses the copy of a record.  The answer may be lost.
ZoneCreate(r) ==
    LET q == request[r]
        z == Made(q)
    IN  /\ q.pc = "create"
        /\ IF \E y \in zone : y.provider = z.provider /\ y.at = z.at /\ y.content = z.content
           THEN Goto(r, Done) /\ UNCHANGED <<zone, made, muddled>>
           ELSE /\ zone' = zone \cup {z} /\ made' = made + 1
                /\ \/ Goto(r, [q EXCEPT !.pc = "insert", !.todo = {z}]) /\ muddled' = muddled
                   \/ Goto(r, Done) /\ muddled' = muddled \cup q.about
        /\ UNCHANGED <<edited, default, rows, answers, unsure>>

\* MUTANT of Taken: the table has no unique index.
TakenNever(z) == FALSE

Taken(z) == \E x \in rows : x.provider = z.provider /\ x.name = z.name

\* A name that another row has fails the request, and the zone keeps both.
RowCreate(r) ==
    LET q == request[r] IN
    /\ q.pc = "insert" /\ Goto(r, Done)
    /\ \E z \in q.todo :
          LET x == [id |-> z.ext, provider |-> z.provider, name |-> z.name, content |-> z.content,
                    ext |-> z.ext, node |-> q.node]
          IN  IF Taken(z) \/ node[q.node].addr = 0
              THEN muddled' = muddled \cup q.about /\ UNCHANGED <<rows, answers>>
              ELSE /\ rows' = rows \cup {x} /\ muddled' = muddled
                   /\ answers' = IF q.op = "ensure" THEN answers \cup {Returned(q, x)} ELSE answers
    /\ UNCHANGED <<edited, default, zone, made, unsure>>
-----------------------------------------------------------------------------
(* Updating a record: the provider first, and the row if it did.           *)

\* ensureNodeDomain has found the row, and updateRecord looks for it again.
ReadRow(r) ==
    LET q == request[r] IN
    /\ q.pc = "read"
    /\ LET now == {x \in rows : \E y \in q.todo : x.id = y.id}
       IN  Goto(r, IF now = {} THEN Done ELSE [q EXCEPT !.pc = "zone", !.todo = now])
    /\ UNCHANGED <<edited, tables, history>>

\* A record that is not there fails the request; the answer may be lost.
ZoneUpdate(r) ==
    LET q == request[r]
        hit == {z \in zone : \E x \in q.todo : z.ext = x.ext}
    IN  /\ q.pc = "zone"
        /\ IF hit = {}
           THEN Goto(r, Done) /\ UNCHANGED <<zone, unsure>>
           ELSE /\ zone' = (zone \ hit) \cup
                     UNION {{[z EXCEPT !.content = q.ip, !.name = x.name,
                                       !.at = Place(z.provider, x.name)] : x \in q.todo} : z \in hit}
                /\ unsure' = unsure \cup {x.id : x \in q.todo}
                /\ Goto(r, [q EXCEPT !.pc = "row"]) \/ Goto(r, Done)
        /\ UNCHANGED <<edited, default, rows, made, answers, muddled>>

RowUpdate(r) ==
    LET q == request[r] IN
    /\ q.pc = "row" /\ Goto(r, Done)
    /\ \E x \in q.todo :
          LET now == {y \in rows : y.id = x.id}
          IN  /\ rows' = {IF y \in now THEN [y EXCEPT !.content = q.ip] ELSE y : y \in rows}
              /\ unsure' = IF now = {} THEN unsure ELSE unsure \ {x.id}
              /\ answers' = IF now # {} /\ q.op = "ensure" THEN answers \cup {Returned(q, x)}
                            ELSE answers
    /\ UNCHANGED <<edited, default, zone, made, muddled>>
-----------------------------------------------------------------------------
(* Deleting records: what the provider says is ignored.                    *)

ZoneDelete(r) ==
    LET q == request[r] IN
    /\ q.pc = "delete" /\ Goto(r, [q EXCEPT !.pc = "remove"])
    /\ \E deleted \in SUBSET {z \in zone : \E x \in q.todo : z.ext = x.ext} :
          /\ zone' = zone \ deleted
          /\ muddled' = IF \A z \in zone' : \A x \in q.todo : z.ext # x.ext THEN muddled
                        ELSE muddled \cup q.about
    /\ UNCHANGED <<edited, default, rows, made, answers, unsure>>

\* One row by its id, or all rows of the node.
Removed(q) == IF q.op = "remove" THEN RowsOf(q.node)
              ELSE {x \in rows : \E y \in q.todo : x.id = y.id}

RowDelete(r) ==
    LET q == request[r] IN
    /\ q.pc = "remove" /\ Goto(r, Done)
    /\ rows' = rows \ Removed(q)
    /\ answers' = answers \cup {[gone |-> TRUE, provider |-> x.provider, name |-> x.name,
                                 node |-> q.node, ip |-> 0] : x \in q.todo}
    /\ UNCHANGED <<edited, default, zone, made, muddled, unsure>>
-----------------------------------------------------------------------------
(* syncAllRecords: the ids of the records that the providers have.         *)

Sync(r) ==
    /\ rows # {}
    /\ Begin(r, [Idle EXCEPT !.pc = "list", !.op = "sync", !.todo = rows], Name \cup Node)

\* What a provider lists for the row: Cloudflare and Tencent the records at its
\* name, Aliyun all that have its first label in theirs.
Listed(x) == {z \in zone : z.provider = x.provider /\ (z.at = x.name \/ x.provider \in Keyword)}

\* The first record listed, be it another name's.  A call that fails marks the
\* row; an update of a row that is gone ends the request.
SyncRow(r) ==
    LET q == request[r]
        rest(x) == Goto(r, IF q.todo = {x} THEN Done ELSE [q EXCEPT !.todo = @ \ {x}])
    IN  /\ q.pc = "list"
        /\ \E x \in q.todo :
              \/ rest(x) /\ UNCHANGED <<rows, muddled>>
              \/ \E z \in Listed(x) :
                    /\ rows' = {IF y.id = x.id THEN [y EXCEPT !.ext = z.ext] ELSE y : y \in rows}
                    /\ muddled' = IF z.name = x.name THEN muddled ELSE muddled \cup {z.name, x.name}
                    /\ IF \E y \in rows : y.id = x.id THEN rest(x) ELSE Goto(r, Done)
        /\ UNCHANGED <<edited, default, zone, made, answers, unsure>>
-----------------------------------------------------------------------------
(* The default provider: the others are unset, then this one is set.       *)

UnsetOthers(r, p) ==
    /\ Starts(r, [Idle EXCEPT !.pc = "set", !.op = "default", !.provider = {p}], {})
    /\ default' = default \cap {p}
    /\ UNCHANGED <<changes, rows, zone, made>>

SetDefault(r) ==
    LET q == request[r] IN
    /\ q.pc = "set" /\ Goto(r, Done)
    /\ default' = default \cup q.provider
    /\ UNCHANGED <<edited, rows, zone, made, history>>
-----------------------------------------------------------------------------
\* A query fails, or a call to the provider before it had an effect.
Die(r) ==
    LET q == request[r] IN
    /\ Active(r) /\ Goto(r, Done)
    /\ muddled' = IF q.pc \in {"insert", "remove"} THEN muddled \cup q.about ELSE muddled
    /\ UNCHANGED <<edited, tables, answers, unsure>>

DnsNext ==
    \/ \E n \in Node : EditNode(n) \/ DeleteNode(n)
    \/ \E r \in Request :
          \/ \E n \in Node : Ensure(r, n) \/ CreateRecord(r, n) \/ RemoveDomain(r, n)
          \/ UpdateRecord(r) \/ DeleteRecord(r) \/ Sync(r)
          \/ \E p \in Provider : UnsetOthers(r, p)
          \/ ReadProvider(r) \/ Find(r) \/ ZoneCreate(r) \/ RowCreate(r)
          \/ ReadRow(r) \/ ZoneUpdate(r) \/ RowUpdate(r) \/ ZoneDelete(r) \/ RowDelete(r)
          \/ SyncRow(r) \/ SetDefault(r) \/ Die(r)

DnsSpec == DnsInit /\ [][DnsNext]_dnsVars
-----------------------------------------------------------------------------
(* Properties.                                                             *)

Resolved(p, d) == {z.content : z \in {y \in zone : y.provider = p /\ y.at = d}}

\* Records of two names are in one place.
Shared(p, d) == \E z \in zone : z.provider = p /\ z.at = Place(p, d) /\ z.name # d

\* What dns.service answered holds in the provider's zone until another request
\* touches the name: where the adapter writes the name of ensureNodeDomain there
\* is a record of the address that the node had when the request began and of no
\* other, and where it writes one that was removed there is none.  That place is
\* the name itself, except that Aliyun's and Tencent's adapters cut a name with
\* dots before the root domain: of such a domain this says nothing, for nobody
\* ever writes it.  Nor is it said of a name
\*   - whose requests overlapped, or one of which made or left a record that it
\*     has no row for: a lost answer, a death, a taken name, a failed deletion;
\*   - that a synchronisation mixed up with another, having found by keyword the
\*     record of the one for the row of the other;
\*   - a row of which an update may have reached in the zone only;
\*   - that is cut to the same label as another name with a record.
AnswersHold ==
    \A a \in answers :
        /\ a.name \notin muddled /\ a.node \notin muddled
        /\ \A x \in rows : x.provider = a.provider /\ x.name = a.name => x.id \notin unsure
        /\ ~Shared(a.provider, a.name)
        => Resolved(a.provider, Place(a.provider, a.name)) = IF a.gone THEN {} ELSE {a.ip}
=============================================================================
