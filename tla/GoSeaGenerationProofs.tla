----------------------- MODULE GoSeaGenerationProofs ------------------------
(***************************************************************************)
(* Proofs about GoSeaGeneration, for every number of nodes, egresses,      *)
(* requests and deletions.  The inductive invariant GenInv says, for every *)
(* query that a request may be at, what it has written so far, and of every *)
(* row who wrote it.                                                       *)
(***************************************************************************)
EXTENDS GoSeaGeneration, TLAPS

\* How many exits and entries a generator makes, and where in its queries.
Width(k) == IF k \in {"socks5", "relay"} THEN 1 ELSE 2
Last(k) == IF Width(k) = 1 THEN 5 ELSE 8
OutAt(k, i) == IF i = 1 THEN 2 ELSE IF k = "multi" THEN 3 ELSE 5
ClientAt(k, i) == IF k = "multi" THEN 2 * i + 2 ELSE 3 * i
RuleAt(k, i) == ClientAt(k, i) + 1

Plans == {<<>>} \cup [1..1 -> Egress] \cup [1..2 -> Egress]

RequestsOK ==
    /\ request \in [Request -> [pc : {"idle", "busy", "done", "dead"}, kind : Kind,
                                node : Node \cup {NoNode}, plan : Plans, at : Nat,
                                checked : BOOLEAN]]
    /\ \A r \in Request :
          /\ Active(r) => /\ request[r].node \in Node
                          /\ request[r].at \in 1..Last(request[r].kind)
                          /\ request[r].plan \in [1..Width(request[r].kind) -> Egress]
          /\ request[r].checked => request[r].kind = "socks5"

Running(d) == deletion[d].pc \in {"rule", "client", "invalidate"}

DeletionsOK ==
    /\ deletion \in [Deletion -> [pc : {"idle", "rule", "client", "invalidate", "ended"},
                                  client : Client \cup {<<>>}, api : {"socks5", "relay"},
                                  node : Node \cup {NoNode}]]
    /\ \A d \in Deletion : Running(d) => deletion[d].client \in doomed

CachesOK == cached \in [Node -> [etag : BOOLEAN, clients : SUBSET Client, rules : SUBSET Rule]]

Types ==
    /\ inbounds \subseteq Inbound
    /\ outbounds \subseteq [node : Node, sort : {Sort(k) : k \in Kind}, egress : Egress]
    /\ clients \subseteq Client /\ deleted \subseteq doomed /\ doomed \subseteq Client
    /\ rules \subseteq Rule
    /\ RequestsOK /\ DeletionsOK /\ CachesOK

\* Rows are unique where the database says so.
Unique ==
    /\ \A x, y \in inbounds : x.node = y.node => x = y
    /\ \A c, d \in clients : c.name = d.name => c = d

\* The entry of its request that a client is.
Nth(c) == c.name[2]

\* Every client was written by the request it names, for one of its entries,
\* while that request was at this entry.
Written ==
    \A c \in clients \cup doomed :
        /\ request[c.by].pc # "idle"
        /\ Nth(c) \in 1..Width(c.kind) /\ c.name = Name(c.by, c.kind, Nth(c))
        /\ request[c.by].checked => c.kind = "socks5"
        /\ Active(c.by) => /\ c.kind = request[c.by].kind /\ c.home = request[c.by].node
                           /\ c.egress = request[c.by].plan[Nth(c)]
                           /\ request[c.by].at > ClientAt(c.kind, Nth(c))

\* No request writes an entry twice.
SameRow == \A c, d \in clients \cup doomed : c.by = d.by /\ c.name = d.name => c = d

\* What a running request has behind it is there.
Exits ==
    \A r \in Request : Active(r) =>
        /\ request[r].at > 1 => MyInbound(r) \in inbounds
        /\ \A i \in 1..Width(request[r].kind) : request[r].at > OutAt(request[r].kind, i) =>
              Out(request[r].kind, request[r].node, request[r].plan[i]) \in outbounds

\* So a client has its inbound and its outbound, and after the next query of
\* its request its rule, unless it is being deleted.
Supplied ==
    /\ \A c \in clients : /\ [node |-> c.home, tag |-> Tag(c.kind)] \in inbounds
                          /\ Out(c.kind, c.home, c.egress) \in outbounds
    /\ \A c \in clients \ doomed :
          \/ request[c.by].pc = "done"
          \/ Active(c.by) /\ request[c.by].at > RuleAt(c.kind, Nth(c))
          => RuleOf(c) \in rules

\* A configuration that was cached before the last query of a request has no
\* ETag after it.
Fresh ==
    \A c \in clients : request[c.by].pc = "done" /\ c \notin doomed /\ cached[c.home].etag =>
        c \in cached[c.home].clients /\ RuleOf(c) \in cached[c.home].rules

\* A client that was deleted is not written again.
Gone ==
    /\ \A d \in Deletion : deletion[d].pc = "invalidate" => deletion[d].client \notin clients
    /\ \A c \in deleted : c \notin clients

\* A tag that no two nodes had leads to the one node whose configuration can
\* have the client.
Traced ==
    /\ \A x, y \in inbounds : x.tag = y.tag /\ x.tag \notin twins => x = y
    /\ \A n \in Node : \A c \in cached[n].clients : [node |-> n, tag |-> Tag(c.kind)] \in inbounds
    /\ \A d \in Deletion : Running(d) /\ Tag(deletion[d].client.kind) \notin twins =>
          [node |-> deletion[d].node, tag |-> Tag(deletion[d].client.kind)] \in inbounds

\* Requests that run together overlap, and a request that passed the check of
\* customUid overlaps those that have written its egress since.
Overlapping ==
    /\ \A r, s \in Request : Active(r) /\ Active(s) /\ r # s => {r, s} \in overlap
    /\ \A c \in clients, s \in Request :
          /\ request[c.by].checked /\ Active(s) /\ request[s].checked /\ s # c.by
          /\ request[s].node = c.home /\ request[s].plan[1] = c.egress
          => {c.by, s} \in overlap

GenInv == /\ Types /\ Unique /\ Written /\ SameRow /\ Exits /\ Supplied /\ Fresh
          /\ Gone /\ Traced /\ DeletedGone /\ Overlapping /\ UidOnce
-----------------------------------------------------------------------------
(* The queries.                                                            *)

\* Where a generator makes which query.
Table(s, k) ==
    /\ Len(s) = Last(k)
    /\ s[1] = Opening /\ s[Last(k)] = Closing
    /\ \A i \in 1..Width(k) : /\ s[OutAt(k, i)] = Exit(i)
                              /\ s[ClientAt(k, i)] = Entry(i)
                              /\ s[RuleAt(k, i)] = Route(i)

LEMMA StepTable == \A k \in Kind : Table(Steps[k], k)
<1>1. Table(Steps["socks5"], "socks5")
  BY DEF Table, Steps, Socks5Steps, Last, Width, OutAt, ClientAt, RuleAt
<1>2. Table(Steps["relay"], "relay")
  BY DEF Table, Steps, RelaySteps, Last, Width, OutAt, ClientAt, RuleAt
<1>3. Table(Steps["batch"], "batch")
  BY DEF Table, Steps, BatchSteps, Last, Width, OutAt, ClientAt, RuleAt
<1>4. Table(Steps["relays"], "relays")
  BY DEF Table, Steps, RelaysSteps, Last, Width, OutAt, ClientAt, RuleAt
<1>5. Table(Steps["multi"], "multi")
  BY DEF Table, Steps, MultiSteps, Last, Width, OutAt, ClientAt, RuleAt
<1>6. QED BY <1>1, <1>2, <1>3, <1>4, <1>5 DEF Kind

\* Every query of a generator is one of these.
LEMMA Places ==
    \A k \in Kind : \A j \in 1..Last(k) :
        \/ j = 1 \/ j = Last(k)
        \/ \E i \in 1..Width(k) : j \in {OutAt(k, i), ClientAt(k, i), RuleAt(k, i)}
BY DEF Kind, Last, Width, OutAt, ClientAt, RuleAt

\* The order of a generator's queries.
LEMMA Order ==
    \A k \in Kind : \A i \in 1..Width(k) :
        /\ 1 < OutAt(k, i) /\ OutAt(k, i) < ClientAt(k, i)
        /\ RuleAt(k, i) = ClientAt(k, i) + 1 /\ RuleAt(k, i) < Last(k)
        /\ OutAt(k, i) \in Nat /\ ClientAt(k, i) \in Nat /\ RuleAt(k, i) \in Nat
BY DEF Kind, Last, Width, OutAt, ClientAt, RuleAt

LEMMA Widths ==
    \A k \in Kind : /\ Width(k) \in {1, 2} /\ Last(k) \in {5, 8}
                    /\ 1 \in 1..Width(k)
BY DEF Kind, Last, Width

\* What a running request is doing, from where it is.
LEMMA Doings ==
    ASSUME RequestsOK, NEW r \in Request, Active(r)
    PROVE  LET k == request[r].kind
               j == request[r].at IN
           /\ k \in Kind /\ j \in 1..Last(k) /\ Len(Steps[k]) = Last(k)
           /\ Index(r) \in 1..Width(k) /\ Target(r) \in Egress
           /\ Doing(r, "inbound") => j = 1
           /\ Doing(r, "invalidate") => j = Last(k)
           /\ Doing(r, "outbound") => j = OutAt(k, Index(r))
           /\ Doing(r, "client") => j = ClientAt(k, Index(r))
           /\ Doing(r, "rule") => j = RuleAt(k, Index(r))
           /\ j = 1 => Doing(r, "inbound")
           /\ j = Last(k) => Doing(r, "invalidate")
           /\ \A i \in 1..Width(k) :
                 /\ j = OutAt(k, i) => Doing(r, "outbound") /\ Index(r) = i
                 /\ j = ClientAt(k, i) => Doing(r, "client") /\ Index(r) = i
                 /\ j = RuleAt(k, i) => Doing(r, "rule") /\ Index(r) = i
<1> DEFINE k == request[r].kind
           j == request[r].at
           s == Steps[k]
<1>1. k \in Kind /\ j \in 1..Last(k) /\ request[r].plan \in [1..Width(k) -> Egress]
  BY DEF RequestsOK
<1>2. Table(s, k)
  BY <1>1, StepTable
<1>3. /\ \A what : Doing(r, what) <=> s[j][1] = what
      /\ Index(r) = s[j][2]
      /\ Target(r) = request[r].plan[Index(r)]
  BY DEF Doing, Index, Target
<1>4. \/ j = 1 \/ j = Last(k)
      \/ \E i \in 1..Width(k) : j \in {OutAt(k, i), ClientAt(k, i), RuleAt(k, i)}
  BY <1>1, Places
<1> HIDE DEF k, j, s
<1>5. /\ j = 1 => s[j][1] = "inbound" /\ s[j][2] = 1
      /\ j = Last(k) => s[j][1] = "invalidate" /\ s[j][2] = 1
      /\ \A i \in 1..Width(k) :
            /\ j = OutAt(k, i) => s[j][1] = "outbound" /\ s[j][2] = i
            /\ j = ClientAt(k, i) => s[j][1] = "client" /\ s[j][2] = i
            /\ j = RuleAt(k, i) => s[j][1] = "rule" /\ s[j][2] = i
  BY <1>2 DEF Table, Opening, Closing, Exit, Entry, Route
<1>6. s[j][2] \in 1..Width(k)
  BY <1>1, <1>4, <1>5, Widths
<1>7. Target(r) \in Egress
  BY <1>1, <1>3, <1>6
<1>8. /\ s[j][1] = "inbound" => j = 1
      /\ s[j][1] = "invalidate" => j = Last(k)
      /\ s[j][1] = "outbound" => j = OutAt(k, s[j][2])
      /\ s[j][1] = "client" => j = ClientAt(k, s[j][2])
      /\ s[j][1] = "rule" => j = RuleAt(k, s[j][2])
  BY <1>4, <1>5
<1>9. Len(s) = Last(k)
  BY <1>2 DEF Table
<1>10. QED BY <1>1, <1>3, <1>5, <1>6, <1>7, <1>8, <1>9 DEF k, j, s
-----------------------------------------------------------------------------
(* The steps of a request.                                                 *)

\* Request r goes on to its next query, has made its last one, or dies.
Advances(r) ==
    /\ request[r].at < Last(request[r].kind)
    /\ request'[r].pc = "busy" /\ request'[r].at = request[r].at + 1
    /\ request'[r].kind = request[r].kind /\ request'[r].node = request[r].node
    /\ request'[r].plan = request[r].plan
Finishes(r) == request[r].at = Last(request[r].kind) /\ request'[r].pc = "done"
Others(r) == \A s \in Request : s # r => request'[s] = request[s]
Moves(r) ==
    /\ Active(r) /\ Others(r) /\ request'[r].checked = request[r].checked
    /\ Advances(r) \/ Finishes(r) \/ request'[r].pc = "dead"

LEMMA Stopping ==
    ASSUME RequestsOK, NEW r \in Request, Active(r), NEW pc \in {"done", "dead"}, Ends(r, pc)
    PROVE  /\ RequestsOK' /\ Others(r)
           /\ request'[r].pc = pc /\ request'[r].checked = request[r].checked
<1>1. request[r].checked \in BOOLEAN
  BY DEF RequestsOK
<1>2. request' = [request EXCEPT ![r] = [pc |-> pc, kind |-> "socks5", node |-> NoNode,
                                        plan |-> <<>>, at |-> 1, checked |-> request[r].checked]]
  <2>1. [NoRequest EXCEPT !.pc = pc, !.checked = request[r].checked] =
          [pc |-> pc, kind |-> "socks5", node |-> NoNode, plan |-> <<>>, at |-> 1,
           checked |-> request[r].checked]
    <3>1. \A a, f : [[pc |-> "idle", kind |-> "socks5", node |-> NoNode, plan |-> <<>>,
                      at |-> 1, checked |-> f] EXCEPT !.pc = a] =
             [pc |-> a, kind |-> "socks5", node |-> NoNode, plan |-> <<>>, at |-> 1, checked |-> f]
      OBVIOUS
    <3>2. \A a, b, f : [[pc |-> a, kind |-> "socks5", node |-> NoNode, plan |-> <<>>, at |-> 1,
                         checked |-> f] EXCEPT !.checked = b] =
             [pc |-> a, kind |-> "socks5", node |-> NoNode, plan |-> <<>>, at |-> 1, checked |-> b]
      OBVIOUS
    <3> DEFINE N == [NoRequest EXCEPT !.pc = pc]
    <3>3. [NoRequest EXCEPT !.pc = pc, !.checked = request[r].checked] =
          [N EXCEPT !.checked = request[r].checked]
      OBVIOUS
    <3>4. N = [pc |-> pc, kind |-> "socks5", node |-> NoNode, plan |-> <<>>, at |-> 1,
               checked |-> FALSE]
      BY <3>1, Zenon DEF NoRequest
    <3> HIDE DEF N
    <3>5. [N EXCEPT !.checked = request[r].checked] =
          [pc |-> pc, kind |-> "socks5", node |-> NoNode, plan |-> <<>>, at |-> 1,
           checked |-> request[r].checked]
      BY <3>2, <3>4, Zenon
    <3>6. QED BY <3>3, <3>5, Zenon
  <2>2. QED BY <2>1, Zenon DEF Ends
<1>3. Others(r) /\ request'[r].pc = pc /\ request'[r].checked = request[r].checked
  BY <1>2 DEF Others, RequestsOK
<1>4. request' \in [Request -> [pc : {"idle", "busy", "done", "dead"}, kind : Kind,
                                node : Node \cup {NoNode}, plan : Plans, at : Nat,
                                checked : BOOLEAN]]
  BY <1>1, <1>2 DEF RequestsOK, Kind, Plans
<1>5. ASSUME NEW s \in Request
      PROVE  /\ Active(s)' => /\ request'[s].node \in Node
                              /\ request'[s].at \in 1..Last(request'[s].kind)
                              /\ request'[s].plan \in [1..Width(request'[s].kind) -> Egress]
             /\ request'[s].checked => request'[s].kind = "socks5"
  <2>1. CASE s = r
    BY <1>2, <2>1 DEF RequestsOK, Active
  <2>2. CASE s # r
    BY <1>3, <2>2 DEF RequestsOK, Active, Others
  <2>3. QED BY <2>1, <2>2
<1>6. QED BY <1>3, <1>4, <1>5 DEF RequestsOK

LEMMA Dying ==
    ASSUME RequestsOK, NEW r \in Request, Active(r), Die(r)
    PROVE  RequestsOK' /\ Moves(r) /\ request'[r].pc = "dead"
BY Stopping DEF Die, Moves

LEMMA Going ==
    ASSUME RequestsOK, NEW r \in Request, Active(r), Goes(r)
    PROVE  RequestsOK' /\ Moves(r) /\ (Advances(r) \/ Finishes(r))
<1>1. /\ request[r].kind \in Kind /\ request[r].at \in 1..Last(request[r].kind)
      /\ Len(Steps[request[r].kind]) = Last(request[r].kind)
      /\ Last(request[r].kind) \in Nat
  BY Doings, Widths
<1>2. CASE request[r].at = Last(request[r].kind)
  BY <1>1, <1>2, Stopping DEF Goes, Moves, Finishes
<1>3. CASE request[r].at # Last(request[r].kind)
  <2>1. request' = [request EXCEPT ![r] = [request[r] EXCEPT !.at = @ + 1]]
    BY <1>1, <1>3 DEF Goes
  <2>2. request[r].at \in Nat /\ request[r].at + 1 \in 1..Last(request[r].kind)
    BY <1>1, <1>3
  <2>3. /\ request'[r].pc = request[r].pc /\ request'[r].at = request[r].at + 1
        /\ request'[r].kind = request[r].kind /\ request'[r].node = request[r].node
        /\ request'[r].plan = request[r].plan /\ request'[r].checked = request[r].checked
        /\ Others(r)
    BY <2>1 DEF RequestsOK, Others
  <2>4. request' \in [Request -> [pc : {"idle", "busy", "done", "dead"}, kind : Kind,
                                  node : Node \cup {NoNode}, plan : Plans, at : Nat,
                                  checked : BOOLEAN]]
    <3>1. \A q \in [pc : {"idle", "busy", "done", "dead"}, kind : Kind,
                     node : Node \cup {NoNode}, plan : Plans, at : Nat, checked : BOOLEAN] :
             [q EXCEPT !.at = q.at + 1] = [pc |-> q.pc, kind |-> q.kind, node |-> q.node,
                                           plan |-> q.plan, at |-> q.at + 1, checked |-> q.checked]
      OBVIOUS
    <3>2. request' = [request EXCEPT ![r] =
             [pc |-> request[r].pc, kind |-> request[r].kind, node |-> request[r].node,
              plan |-> request[r].plan, at |-> request[r].at + 1, checked |-> request[r].checked]]
      BY <2>1, <3>1 DEF RequestsOK
    <3>3. QED BY <2>2, <3>2 DEF RequestsOK
  <2>5. ASSUME NEW s \in Request
        PROVE  /\ Active(s)' => /\ request'[s].node \in Node
                                /\ request'[s].at \in 1..Last(request'[s].kind)
                                /\ request'[s].plan \in [1..Width(request'[s].kind) -> Egress]
               /\ request'[s].checked => request'[s].kind = "socks5"
    <3>1. CASE s = r
      BY <2>2, <2>3, <3>1 DEF RequestsOK, Active
    <3>2. CASE s # r
      BY <2>3, <3>2 DEF RequestsOK, Active, Others
    <3>3. QED BY <3>1, <3>2
  <2>6. RequestsOK'
    BY <2>4, <2>5 DEF RequestsOK
  <2>7. Advances(r)
    BY <1>1, <1>3, <2>3 DEF Advances, Active
  <2>8. QED BY <2>3, <2>6, <2>7 DEF Moves
<1>4. QED BY <1>2, <1>3

\* Request r begins.
Starts(r, k, n, plan, checked) ==
    /\ plan \in [1..Width(k) -> Egress]
    /\ checked => k = "socks5" /\ ~Allocated(n, plan[1])
    /\ Begin(r, k, n, plan, checked)

LEMMA Starting ==
    ASSUME NEW r \in Request, NEW n \in Node,
           \/ BeginSocks5(r, n) \/ BeginBatch(r, n) \/ BeginMulti(r, n)
           \/ BeginRelay(r, n) \/ BeginRelays(r, n)
    PROVE  \E k \in Kind, plan \in Plans, checked \in BOOLEAN : Starts(r, k, n, plan, checked)
<1>1. \A e \in Egress : <<e>> \in [1..1 -> Egress] /\ <<e>>[1] = e /\ <<e>> \in Plans
  BY DEF Plans
<1>2. \A p \in Dealt : p \in [1..2 -> Egress] /\ p \in Plans
  BY DEF Dealt, Plans
<1>3. CASE BeginSocks5(r, n)
  <2>1. PICK e \in Egress, checked \in BOOLEAN :
           (checked => ~Allocated(n, e)) /\ Begin(r, "socks5", n, <<e>>, checked)
    BY <1>3 DEF BeginSocks5
  <2>2. "socks5" \in Kind /\ Width("socks5") = 1
    BY DEF Kind, Width
  <2>3. Starts(r, "socks5", n, <<e>>, checked)
    BY <1>1, <2>1, <2>2, Zenon DEF Starts
  <2>4. QED BY <1>1, <2>2, <2>3
<1>4. CASE BeginRelay(r, n)
  <2>1. PICK e \in Egress : Begin(r, "relay", n, <<e>>, FALSE)
    BY <1>4 DEF BeginRelay
  <2>2. "relay" \in Kind /\ Width("relay") = 1
    BY DEF Kind, Width
  <2>3. Starts(r, "relay", n, <<e>>, FALSE)
    BY <1>1, <2>1, <2>2 DEF Starts
  <2>4. QED BY <1>1, <2>2, <2>3
<1>5. ASSUME NEW k \in {"batch", "multi", "relays"}, NEW p \in Dealt, Begin(r, k, n, p, FALSE)
      PROVE  Starts(r, k, n, p, FALSE) /\ k \in Kind
  BY <1>2, <1>5 DEF Starts, Kind, Width
<1>6. QED BY <1>2, <1>3, <1>4, <1>5 DEF BeginBatch, BeginMulti, BeginRelays

LEMMA Started ==
    ASSUME RequestsOK, NEW r \in Request, NEW k \in Kind, NEW n \in Node, NEW plan \in Plans,
           NEW checked \in BOOLEAN, Starts(r, k, n, plan, checked)
    PROVE  /\ RequestsOK' /\ Others(r) /\ request[r].pc = "idle"
           /\ request'[r].pc = "busy" /\ request'[r].kind = k /\ request'[r].node = n
           /\ request'[r].plan = plan /\ request'[r].at = 1 /\ request'[r].checked = checked
<1>1. /\ request' = [request EXCEPT ![r] = [pc |-> "busy", kind |-> k, node |-> n,
                                           plan |-> plan, at |-> 1, checked |-> checked]]
      /\ request[r].pc = "idle"
  BY DEF Starts, Begin
<1>2. /\ request'[r].pc = "busy" /\ request'[r].kind = k /\ request'[r].node = n
      /\ request'[r].plan = plan /\ request'[r].at = 1 /\ request'[r].checked = checked
      /\ Others(r)
  BY <1>1 DEF RequestsOK, Others
<1>3. request' \in [Request -> [pc : {"idle", "busy", "done", "dead"}, kind : Kind,
                                node : Node \cup {NoNode}, plan : Plans, at : Nat,
                                checked : BOOLEAN]]
  BY <1>1 DEF RequestsOK
<1>4. ASSUME NEW s \in Request
      PROVE  /\ Active(s)' => /\ request'[s].node \in Node
                              /\ request'[s].at \in 1..Last(request'[s].kind)
                              /\ request'[s].plan \in [1..Width(request'[s].kind) -> Egress]
             /\ request'[s].checked => request'[s].kind = "socks5"
  <2>1. CASE s = r
    <3>1. 1 \in 1..Last(k)
      BY Widths
    <3>2. QED BY <1>2, <2>1, <3>1 DEF Starts
  <2>2. CASE s # r
    BY <1>2, <2>2 DEF RequestsOK, Active, Others
  <2>3. QED BY <2>1, <2>2
<1>5. QED BY <1>1, <1>2, <1>3, <1>4 DEF RequestsOK
-----------------------------------------------------------------------------
(* The steps of the specification.                                         *)

Queries(r) ==
    \/ EnsureInbound(r) \/ EnsureOutbound(r) \/ CreateClient(r)
    \/ CreateRule(r) \/ Invalidate(r) \/ RequestDies(r)
Deletes(d) ==
    \/ \E c \in clients : BeginDelete(d, c)
    \/ DeleteRules(d) \/ DeleteClient(d) \/ DeleteReturns(d) \/ DeletionDies(d)

LEMMA NextCases ==
    ASSUME Next
    PROVE  \/ \E n \in Node : Poll(n)
           \/ \E r \in Request, n \in Node, k \in Kind, plan \in Plans, checked \in BOOLEAN :
                 Starts(r, k, n, plan, checked)
           \/ \E r \in Request : Queries(r)
           \/ \E d \in Deletion : Deletes(d)
<1>1. CASE \E r \in Request, n \in Node :
              \/ BeginSocks5(r, n) \/ BeginBatch(r, n) \/ BeginMulti(r, n)
              \/ BeginRelay(r, n) \/ BeginRelays(r, n)
  BY <1>1, Starting
<1>2. QED BY <1>1 DEF Next, Queries, Deletes

LEMMA Querying ==
    ASSUME RequestsOK, NEW r \in Request, Queries(r)
    PROVE  Active(r) /\ RequestsOK' /\ Moves(r)
<1>1. Active(r)
  BY DEF Queries, EnsureInbound, EnsureOutbound, CreateClient, CreateRule, Invalidate,
         RequestDies, Doing
<1>2. Goes(r) \/ Die(r)
  BY DEF Queries, EnsureInbound, EnsureOutbound, CreateClient, CreateRule, Invalidate,
         RequestDies
<1>3. QED BY <1>1, <1>2, Going, Dying

\* What a request is about to write.
LEMMA Writing ==
    ASSUME RequestsOK, NEW r \in Request, Active(r)
    PROVE  /\ MyInbound(r) \in Inbound
           /\ Out(request[r].kind, request[r].node, Target(r)) \in
                 [node : Node, sort : {Sort(k) : k \in Kind}, egress : Egress]
           /\ Name(r, request[r].kind, Index(r)) \in Names
           /\ [name |-> Name(r, request[r].kind, Index(r)), kind |-> request[r].kind,
               home |-> request[r].node, egress |-> Target(r), by |-> r] \in Client
           /\ [node |-> request[r].node, name |-> Name(r, request[r].kind, Index(r)),
               egress |-> Target(r), by |-> r] \in Rule
<1>1. /\ request[r].kind \in Kind /\ request[r].node \in Node
      /\ Index(r) \in 1..2 /\ Target(r) \in Egress
  BY Doings, Widths DEF RequestsOK
<1>2. Name(r, request[r].kind, Index(r)) \in Names
  <2>1. \A x \in {"batch", "multi"} \cup Request : \A i \in 1..2 : <<x, i>> \in Names
    BY DEF Names
  <2>2. CASE request[r].kind \in {"batch", "multi"}
    BY <1>1, <2>1, <2>2 DEF Name
  <2>3. CASE request[r].kind \notin {"batch", "multi"}
    BY <1>1, <2>1, <2>3 DEF Name
  <2>4. QED BY <2>2, <2>3
<1>3. QED BY <1>1, <1>2 DEF MyInbound, Inbound, Out, Client, Rule

LEMMA ServedOK ==
    ASSUME Types, NEW n \in Node
    PROVE  Served(n) \in [etag : BOOLEAN, clients : SUBSET Client, rules : SUBSET Rule]
BY DEF Served, Types

LEMMA TypesStep ==
    ASSUME Types, Next
    PROVE  Types'
<1>1. RequestsOK /\ DeletionsOK /\ CachesOK
  BY DEF Types
<1>2. CASE \E n \in Node : Poll(n)
  <2>1. PICK n \in Node : Poll(n)
    BY <1>2
  <2>2. CachesOK'
    BY <1>1, <2>1, ServedOK DEF Poll, CachesOK
  <2>3. QED BY <1>1, <2>1, <2>2
            DEF Types, Poll, rows, history, RequestsOK, DeletionsOK, Active, Running
<1>3. ASSUME NEW r \in Request, NEW n \in Node, NEW k \in Kind, NEW plan \in Plans,
             NEW checked \in BOOLEAN, Starts(r, k, n, plan, checked)
      PROVE  Types'
  <2>1. RequestsOK'
    BY <1>1, <1>3, Started
  <2>2. UNCHANGED <<rows, deletion, cached, doomed, deleted>>
    BY <1>3 DEF Starts, Begin
  <2>3. QED BY <1>1, <2>1, <2>2
            DEF Types, rows, DeletionsOK, CachesOK, Running
<1>4. ASSUME NEW r \in Request, Queries(r)
      PROVE  Types'
  <2>1. Active(r) /\ RequestsOK'
    BY <1>1, <1>4, Querying
  <2>2. UNCHANGED <<deletion, doomed, deleted>>
    BY <1>4 DEF Queries, EnsureInbound, EnsureOutbound, CreateClient, CreateRule, Invalidate,
                RequestDies, rows, history
  <2>3. inbounds' \subseteq inbounds \cup {MyInbound(r)}
    BY <1>4 DEF Queries, EnsureInbound, EnsureOutbound, CreateClient, CreateRule, Invalidate,
                RequestDies, rows, history
  <2>4. outbounds' \subseteq outbounds \cup {Out(request[r].kind, request[r].node, Target(r))}
    BY <1>4 DEF Queries, EnsureInbound, EnsureOutbound, CreateClient, CreateRule, Invalidate,
                RequestDies, rows, history
  <2>5. clients' \subseteq clients \cup
           {[name |-> Name(r, request[r].kind, Index(r)), kind |-> request[r].kind,
             home |-> request[r].node, egress |-> Target(r), by |-> r]}
    BY <1>4 DEF Queries, EnsureInbound, EnsureOutbound, CreateClient, CreateRule, Invalidate,
                RequestDies, rows, history
  <2>6. rules' \subseteq rules \cup
           {[node |-> request[r].node, name |-> Name(r, request[r].kind, Index(r)),
             egress |-> Target(r), by |-> r]}
    BY <1>4 DEF Queries, EnsureInbound, EnsureOutbound, CreateClient, CreateRule, Invalidate,
                RequestDies, rows, history
  <2>7. CachesOK'
    <3>1. cached' = cached \/ cached' = [cached EXCEPT ![request[r].node] = NoConfig]
      BY <1>4 DEF Queries, EnsureInbound, EnsureOutbound, CreateClient, CreateRule, Invalidate,
                  RequestDies, rows, history
    <3>2. NoConfig \in [etag : BOOLEAN, clients : SUBSET Client, rules : SUBSET Rule]
      BY DEF NoConfig
    <3>3. QED BY <1>1, <3>1, <3>2 DEF CachesOK
  <2>8. QED BY <1>1, <2>1, <2>2, <2>3, <2>4, <2>5, <2>6, <2>7, Writing
            DEF Types, DeletionsOK, Running
<1>5. ASSUME NEW d \in Deletion, Deletes(d)
      PROVE  Types'
  <2>1. UNCHANGED <<inbounds, outbounds, request>> /\ RequestsOK'
    BY <1>1, <1>5 DEF Deletes, BeginDelete, DeleteRules, DeleteClient, DeleteReturns,
                      DeletionDies, rows, RequestsOK, Active
  <2>2. CASE \E c \in clients : BeginDelete(d, c)
    <3>1. PICK c \in clients : BeginDelete(d, c)
      BY <2>2
    <3>2. PICK api \in {"socks5", "relay"}, n \in Node \cup {NoNode} :
             deletion' = [deletion EXCEPT ![d] = [pc |-> "rule", client |-> c, api |-> api, node |-> n]]
      BY <3>1 DEF BeginDelete, InboundOf, Types, Inbound
    <3>3. doomed' = doomed \cup {c} /\ UNCHANGED <<rows, cached, deleted>>
      BY <3>1 DEF BeginDelete
    <3>4. DeletionsOK'
      BY <1>1, <3>2, <3>3 DEF DeletionsOK, Types, Running
    <3>5. QED BY <2>1, <3>3, <3>4 DEF Types, rows, CachesOK
  <2>3. CASE DeleteRules(d)
    <3>1. rules' \subseteq rules /\ UNCHANGED <<clients, cached, doomed, deleted>>
      BY <2>3 DEF DeleteRules, history
    <3>2. deletion' = [deletion EXCEPT ![d].pc = "client"] /\ deletion[d].pc = "rule"
      BY <2>3 DEF DeleteRules
    <3>3. DeletionsOK'
      BY <1>1, <3>1, <3>2 DEF DeletionsOK, Running
    <3>4. QED BY <2>1, <3>1, <3>3 DEF Types, CachesOK
  <2>4. CASE DeleteClient(d)
    <3>1. clients' \subseteq clients /\ UNCHANGED <<rules, cached, doomed, deleted>>
      BY <2>4 DEF DeleteClient, history
    <3>2. deletion' = [deletion EXCEPT ![d].pc = "invalidate"] /\ deletion[d].pc = "client"
      BY <2>4 DEF DeleteClient
    <3>3. DeletionsOK'
      BY <1>1, <3>1, <3>2 DEF DeletionsOK, Running
    <3>4. QED BY <2>1, <3>1, <3>3 DEF Types, CachesOK
  <2>5. Ended = [pc |-> "ended", client |-> <<>>, api |-> "socks5", node |-> NoNode]
    BY DEF Ended, NoDeletion
  <2>6. CASE DeleteReturns(d)
    <3>1. /\ UNCHANGED <<rows, doomed>> /\ deletion' = [deletion EXCEPT ![d] = Ended]
          /\ deleted' = deleted \cup {deletion[d].client} /\ deletion[d].pc = "invalidate"
      BY <2>6 DEF DeleteReturns
    <3>2. DeletionsOK'
      BY <1>1, <2>5, <3>1 DEF DeletionsOK, Running
    <3>3. CachesOK'
      <4>1. NoConfig \in [etag : BOOLEAN, clients : SUBSET Client, rules : SUBSET Rule]
        BY DEF NoConfig
      <4>2. \A n \in Node : (IF n = deletion[d].node THEN NoConfig ELSE cached[n]) \in
               [etag : BOOLEAN, clients : SUBSET Client, rules : SUBSET Rule]
        BY <1>1, <4>1 DEF CachesOK
      <4>3. QED BY <2>6, <4>2 DEF DeleteReturns, CachesOK
    <3>4. deletion[d].client \in doomed
      BY <1>1, <3>1 DEF DeletionsOK, Running
    <3>5. QED BY <2>1, <3>1, <3>2, <3>3, <3>4 DEF Types, rows
  <2>7. CASE DeletionDies(d)
    <3>1. UNCHANGED <<rows, cached, doomed, deleted>> /\ deletion' = [deletion EXCEPT ![d] = Ended]
      BY <2>7 DEF DeletionDies, history
    <3>2. DeletionsOK'
      BY <1>1, <2>5, <3>1 DEF DeletionsOK, Running
    <3>3. QED BY <2>1, <3>1, <3>2 DEF Types, rows, CachesOK
  <2>8. QED BY <1>5, <2>2, <2>3, <2>4, <2>6, <2>7 DEF Deletes
<1>6. QED BY <1>2, <1>3, <1>4, <1>5, NextCases
-----------------------------------------------------------------------------
(* What each step does, in terms of rows.                                  *)

NewClient(r) == [name |-> Name(r, request[r].kind, Index(r)), kind |-> request[r].kind,
                 home |-> request[r].node, egress |-> Target(r), by |-> r]

LEMMA NewNth ==
    ASSUME NEW r
    PROVE  Nth(NewClient(r)) = Index(r)
BY DEF Nth, NewClient, Name

\* A query that succeeds is the one the request is at.
LEMMA Behind ==
    ASSUME RequestsOK, NEW r \in Request, Queries(r), Advances(r) \/ Finishes(r)
    PROVE  LET k == request[r].kind
               j == request[r].at IN
           /\ j = 1 => EnsureInbound(r)
           /\ j = Last(k) => Invalidate(r)
           /\ \A i \in 1..Width(k) :
                 /\ j = OutAt(k, i) => EnsureOutbound(r) /\ Index(r) = i
                 /\ j = RuleAt(k, i) => CreateRule(r) /\ Index(r) = i
<1>1. Active(r) /\ ~RequestDies(r)
  <2>1. Active(r)
    BY Querying
  <2>2. RequestDies(r) => request'[r].pc = "dead"
    BY <2>1, Dying DEF RequestDies
  <2>3. QED BY <2>1, <2>2 DEF Advances, Finishes
<1>2. \/ EnsureInbound(r) /\ Doing(r, "inbound")
      \/ EnsureOutbound(r) /\ Doing(r, "outbound")
      \/ CreateClient(r) /\ Doing(r, "client")
      \/ CreateRule(r) /\ Doing(r, "rule")
      \/ Invalidate(r) /\ Doing(r, "invalidate")
  BY <1>1 DEF Queries, EnsureInbound, EnsureOutbound, CreateClient, CreateRule, Invalidate
<1>3. \A x, y : Doing(r, x) /\ Doing(r, y) => x = y
  BY DEF Doing
<1>4. QED BY <1>1, <1>2, <1>3, Doings

\* A query creates at most one client.
LEMMA Creating ==
    ASSUME RequestsOK, NEW r \in Request, Queries(r)
    PROVE  \/ clients' = clients
           \/ /\ clients' = clients \cup {NewClient(r)}
              /\ Active(r) /\ Advances(r) /\ Index(r) \in 1..Width(request[r].kind)
              /\ request[r].at = ClientAt(request[r].kind, Index(r))
              /\ \A c \in clients : c.name # NewClient(r).name
<1>1. CASE CreateClient(r)
  <2>1. Active(r) /\ Doing(r, "client")
    BY <1>1 DEF CreateClient, Doing
  <2>2. CASE NameTaken(r, Name(r, request[r].kind, Index(r)))
    BY <1>1, <2>2 DEF CreateClient
  <2>3. CASE ~NameTaken(r, Name(r, request[r].kind, Index(r)))
    <3>1. clients' = clients \cup {NewClient(r)} /\ Goes(r)
      BY <1>1, <2>3 DEF CreateClient, NewClient
    <3>2. \A c \in clients : c.name # NewClient(r).name
      BY <2>3 DEF NameTaken, NewClient
    <3>3. /\ Index(r) \in 1..Width(request[r].kind)
          /\ request[r].at = ClientAt(request[r].kind, Index(r))
      BY <2>1, Doings
    <3>4. request[r].kind \in Kind
      BY <2>1, Doings
    <3>5. request[r].at # Last(request[r].kind)
      BY <3>3, <3>4, Order, Widths
    <3>6. Advances(r)
      BY <2>1, <3>1, <3>5, Going DEF Finishes
    <3>7. QED BY <2>1, <3>1, <3>2, <3>3, <3>6
  <2>4. QED BY <2>2, <2>3
<1>2. QED BY <1>1 DEF Queries, EnsureInbound, EnsureOutbound, CreateRule, Invalidate,
             RequestDies, rows

\* Inbounds and outbounds stay; only deletions take clients and rules.
LEMMA Growing ==
    ASSUME Types, Next
    PROVE  inbounds \subseteq inbounds' /\ outbounds \subseteq outbounds'
<1>1. CASE \E r \in Request : Queries(r)
  BY <1>1 DEF Queries, EnsureInbound, EnsureOutbound, CreateClient, CreateRule, Invalidate,
              RequestDies, rows
<1>2. CASE \E d \in Deletion : Deletes(d)
  BY <1>2 DEF Deletes, BeginDelete, DeleteRules, DeleteClient, DeleteReturns, DeletionDies, rows
<1>3. QED BY <1>1, <1>2, NextCases DEF Starts, Begin, Poll, rows

LEMMA Quiet ==
    ASSUME NEW r \in Request, Queries(r)
    PROVE  rules \subseteq rules' /\ UNCHANGED <<deletion, doomed, deleted, overlap>>
BY DEF Queries, EnsureInbound, EnsureOutbound, CreateClient, CreateRule, Invalidate,
       RequestDies, rows, history

LEMMA Taking ==
    ASSUME Types, NEW d \in Deletion, Deletes(d)
    PROVE  /\ UNCHANGED <<inbounds, outbounds, request, twins, overlap>>
           /\ clients' \subseteq clients /\ doomed \subseteq doomed'
           /\ clients' \cup doomed' \subseteq clients \cup doomed
BY DEF Types, Deletes, BeginDelete, DeleteRules, DeleteClient, DeleteReturns, DeletionDies,
       rows, history

LEMMA UniqueStep ==
    ASSUME Types, Unique, Next
    PROVE  Unique'
<1>1. ASSUME NEW r \in Request, Queries(r)
      PROVE  Unique'
  <2>1. \/ inbounds' = inbounds
        \/ /\ inbounds' = inbounds \cup {MyInbound(r)}
           /\ \A x \in inbounds : x.node # MyInbound(r).node
    BY <1>1 DEF Queries, EnsureInbound, EnsureOutbound, CreateClient, CreateRule, Invalidate,
                RequestDies, rows, MyInbound
  <2>2. \A x, y \in inbounds' : x.node = y.node => x = y
    BY <2>1 DEF Unique
  <2>3. \A c, d \in clients' : c.name = d.name => c = d
    BY <1>1, Creating DEF Unique, Types
  <2>4. QED BY <2>2, <2>3 DEF Unique
<1>2. ASSUME NEW d \in Deletion, Deletes(d)
      PROVE  Unique'
  BY <1>2, Taking DEF Unique
<1>3. QED BY <1>1, <1>2, NextCases DEF Unique, Starts, Begin, Poll, rows

LEMMA WrittenStep ==
    ASSUME Types, Written, Next
    PROVE  Written'
<1>1. RequestsOK /\ \A c \in clients \cup doomed : c \in Client /\ c.by \in Request /\ c.kind \in Kind
                                                  /\ Nth(c) \in 1..Width(c.kind)
  BY DEF Types, Client, Written
<1>2. ASSUME NEW r \in Request, Queries(r)
      PROVE  Written'
  <2>1. /\ Active(r) /\ Others(r) /\ request'[r].checked = request[r].checked
        /\ Advances(r) \/ request'[r].pc \in {"done", "dead"}
    BY <1>1, <1>2, Querying DEF Moves, Finishes
  <2>2. doomed' = doomed
    BY <1>2, Quiet
  <2>3. /\ request[r].kind \in Kind /\ Index(r) \in 1..Width(request[r].kind)
        /\ request[r].at \in Nat
    BY <1>1, <2>1, Doings DEF RequestsOK
  <2>4. ASSUME NEW c \in clients \cup doomed
        PROVE  /\ request'[c.by].pc # "idle"
               /\ Nth(c) \in 1..Width(c.kind) /\ c.name = Name(c.by, c.kind, Nth(c))
               /\ request'[c.by].checked => c.kind = "socks5"
               /\ request'[c.by].pc = "busy" =>
                     /\ c.kind = request'[c.by].kind /\ c.home = request'[c.by].node
                     /\ c.egress = request'[c.by].plan[Nth(c)]
                     /\ request'[c.by].at > ClientAt(c.kind, Nth(c))
    <3>1. CASE c.by # r
      BY <1>1, <2>1, <2>4, <3>1 DEF Written, Others, Active
    <3>2. CASE c.by = r
      <4>1. ClientAt(c.kind, Nth(c)) \in Nat
        BY <1>1, Order
      <4>2. QED BY <1>1, <2>1, <2>3, <2>4, <3>2, <4>1 DEF Written, Advances, Active
    <3>3. QED BY <3>1, <3>2
  <2>5. CASE clients' = clients
    BY <2>2, <2>4, <2>5 DEF Written, Active
  <2>6. ASSUME clients' = clients \cup {NewClient(r)}, Advances(r),
               request[r].at = ClientAt(request[r].kind, Index(r))
        PROVE  Written'
    <3> DEFINE c == NewClient(r)
    <3>1. /\ c.by = r /\ c.kind = request[r].kind /\ c.home = request[r].node
          /\ c.egress = request[r].plan[Index(r)] /\ c.name = Name(r, request[r].kind, Index(r))
      BY DEF NewClient, Target
    <3>2. Nth(c) = Index(r)
      BY NewNth
    <3>3. request[r].checked => c.kind = "socks5"
      BY <1>1, <3>1 DEF RequestsOK
    <3> HIDE DEF c
    <3>4. /\ request'[c.by].pc # "idle"
          /\ Nth(c) \in 1..Width(c.kind) /\ c.name = Name(c.by, c.kind, Nth(c))
          /\ request'[c.by].checked => c.kind = "socks5"
          /\ c.kind = request'[c.by].kind /\ c.home = request'[c.by].node
          /\ c.egress = request'[c.by].plan[Nth(c)]
          /\ request'[c.by].at > ClientAt(c.kind, Nth(c))
      BY <2>1, <2>3, <2>6, <3>1, <3>2, <3>3 DEF Advances
    <3>5. clients' \cup doomed' = (clients \cup doomed) \cup {c}
      BY <2>2, <2>6 DEF c
    <3>6. QED BY <2>4, <3>4, <3>5 DEF Written, Active
  <2>7. QED BY <1>1, <1>2, <2>5, <2>6, Creating
<1>3. ASSUME NEW r \in Request, NEW n \in Node, NEW k \in Kind, NEW plan \in Plans,
             NEW checked \in BOOLEAN, Starts(r, k, n, plan, checked)
      PROVE  Written'
  <2>1. Others(r) /\ request[r].pc = "idle"
    BY <1>1, <1>3, Started
  <2>2. UNCHANGED <<clients, doomed>>
    BY <1>3 DEF Starts, Begin, rows
  <2>3. \A c \in clients \cup doomed : c.by # r /\ request'[c.by] = request[c.by]
    BY <1>1, <2>1 DEF Written, Others
  <2>4. QED BY <2>2, <2>3 DEF Written, Active
<1>4. ASSUME NEW d \in Deletion, Deletes(d)
      PROVE  Written'
  BY <1>4, Taking DEF Written, Active
<1>5. QED BY <1>2, <1>3, <1>4, NextCases DEF Written, Poll, rows, history, Active

\* A client that is about to be written is new.
LEMMA NewIsNew ==
    ASSUME Types, Written, NEW r \in Request, Active(r),
           Index(r) \in 1..Width(request[r].kind),
           request[r].at = ClientAt(request[r].kind, Index(r)),
           NEW c \in clients \cup doomed, c.by = r
    PROVE  c.name # NewClient(r).name
<1>1. /\ c.kind = request[r].kind /\ c.name = Name(r, c.kind, Nth(c))
      /\ request[r].at > ClientAt(c.kind, Nth(c)) /\ c.kind \in Kind
      /\ Nth(c) \in 1..Width(c.kind)
  BY DEF Written, Types, Client
<1>2. ClientAt(c.kind, Nth(c)) \in Nat
  BY <1>1, Order
<1>3. Nth(c) # Index(r)
  BY <1>1, <1>2
<1>4. \A n1, n2 : n1.name = n2.name => Nth(n1) = Nth(n2)
  BY DEF Nth
<1>5. QED BY <1>3, <1>4, NewNth

LEMMA SameRowStep ==
    ASSUME Types, Written, SameRow, Next
    PROVE  SameRow'
<1>1. ASSUME NEW r \in Request, Queries(r)
      PROVE  SameRow'
  <2>1. doomed' = doomed
    BY <1>1, Quiet
  <2>2. CASE clients' = clients
    BY <2>1, <2>2 DEF SameRow
  <2>3. ASSUME clients' = clients \cup {NewClient(r)}, Active(r),
               Index(r) \in 1..Width(request[r].kind),
               request[r].at = ClientAt(request[r].kind, Index(r))
        PROVE  SameRow'
    <3>1. NewClient(r).by = r
      BY DEF NewClient
    <3>2. \A c \in clients \cup doomed : c.by = r => c.name # NewClient(r).name
      BY <2>3, NewIsNew
    <3>3. clients' \cup doomed' = (clients \cup doomed) \cup {NewClient(r)}
      BY <2>1, <2>3
    <3>4. QED BY <3>1, <3>2, <3>3 DEF SameRow
  <2>4. QED BY <1>1, <2>2, <2>3, Creating DEF Types
<1>2. ASSUME NEW d \in Deletion, Deletes(d)
      PROVE  SameRow'
  BY <1>2, Taking DEF SameRow
<1>3. QED BY <1>1, <1>2, NextCases DEF SameRow, Starts, Begin, Poll, rows, history

LEMMA ExitsStep ==
    ASSUME Types, Exits, Next
    PROVE  Exits'
<1>1. RequestsOK
  BY DEF Types
<1>2. ASSUME NEW s \in Request, Active(s), request'[s] = request[s]
      PROVE  /\ request'[s].at > 1 => MyInbound(s)' \in inbounds'
             /\ \A i \in 1..Width(request'[s].kind) : request'[s].at > OutAt(request'[s].kind, i) =>
                   Out(request'[s].kind, request'[s].node, request'[s].plan[i]) \in outbounds'
  BY <1>2, Growing DEF Exits, MyInbound
<1>3. CASE UNCHANGED request
  BY <1>2, <1>3 DEF Exits, Active
<1>4. ASSUME NEW r \in Request, NEW n \in Node, NEW k \in Kind, NEW plan \in Plans,
             NEW checked \in BOOLEAN, Starts(r, k, n, plan, checked)
      PROVE  Exits'
  <2>1. Others(r) /\ request'[r].kind = k /\ request'[r].at = 1
    BY <1>1, <1>4, Started
  <2>2. \A i \in 1..Width(k) : OutAt(k, i) \in Nat /\ OutAt(k, i) > 1
    BY Order
  <2>3. QED BY <1>2, <2>1, <2>2 DEF Exits, Others, Active
<1>5. ASSUME NEW r \in Request, Queries(r)
      PROVE  Exits'
  <2>1. Active(r) /\ Others(r) /\ (request'[r].pc = "busy" => Advances(r))
    BY <1>1, <1>5, Querying DEF Moves, Finishes
  <2>2. ASSUME Advances(r)
        PROVE  /\ request'[r].at > 1 => MyInbound(r)' \in inbounds'
               /\ \A i \in 1..Width(request'[r].kind) :
                     request'[r].at > OutAt(request'[r].kind, i) =>
                       Out(request'[r].kind, request'[r].node, request'[r].plan[i]) \in outbounds'
    <3>1. /\ request[r].kind \in Kind /\ request[r].at \in Nat /\ request[r].at >= 1
          /\ \A i \in 1..Width(request[r].kind) : OutAt(request[r].kind, i) \in Nat
      BY <1>1, <2>1, Doings, Order DEF RequestsOK
    <3>2. MyInbound(r)' = MyInbound(r)
      BY <2>2 DEF MyInbound, Advances
    <3>3. CASE request[r].at = 1
      <4>1. EnsureInbound(r)
        BY <1>1, <1>5, <2>2, <3>3, Behind
      <4>2. ~Die(r)
        BY <1>1, <2>1, <2>2, Dying DEF Advances
      <4>3. MyInbound(r) \in inbounds'
        BY <4>1, <4>2 DEF EnsureInbound
      <4>4. \A i \in 1..Width(request[r].kind) : ~(request'[r].at > OutAt(request[r].kind, i))
        BY <2>2, <3>1, <3>3, Order DEF Advances
      <4>5. QED BY <2>2, <3>2, <4>3, <4>4 DEF Advances
    <3>4. CASE request[r].at > 1
      <4>1. MyInbound(r) \in inbounds'
        BY <2>1, <3>4, Growing DEF Exits
      <4>2. ASSUME NEW i \in 1..Width(request[r].kind), request'[r].at > OutAt(request[r].kind, i)
            PROVE  Out(request[r].kind, request[r].node, request[r].plan[i]) \in outbounds'
        <5>1. CASE request[r].at = OutAt(request[r].kind, i)
          <6>1. EnsureOutbound(r) /\ Index(r) = i
            BY <1>1, <1>5, <2>2, <5>1, Behind
          <6>2. QED BY <6>1 DEF EnsureOutbound, Target
        <5>2. CASE request[r].at > OutAt(request[r].kind, i)
          BY <2>1, <5>2, Growing DEF Exits
        <5>3. QED BY <2>2, <3>1, <4>2, <5>1, <5>2 DEF Advances
      <4>3. QED BY <2>2, <3>2, <4>1, <4>2 DEF Advances
    <3>5. QED BY <3>1, <3>3, <3>4
  <2>3. QED BY <1>2, <2>1, <2>2 DEF Exits, Others, Active
<1>6. ASSUME NEW d \in Deletion, Deletes(d)
      PROVE  UNCHANGED request
  BY <1>6, Taking
<1>7. QED BY <1>3, <1>4, <1>5, <1>6, NextCases DEF Poll

LEMMA SuppliedStep ==
    ASSUME Types, Written, SameRow, Exits, Supplied, Next
    PROVE  Supplied'
<1>1. /\ RequestsOK /\ clients \subseteq Client
      /\ \A c \in clients \cup doomed : c \in Client /\ c.by \in Request /\ c.kind \in Kind
                                        /\ Nth(c) \in 1..Width(c.kind)
  BY DEF Types, Client, Written
<1>2. \A c \in clients : /\ [node |-> c.home, tag |-> Tag(c.kind)] \in inbounds'
                         /\ Out(c.kind, c.home, c.egress) \in outbounds'
  BY Growing DEF Supplied
<1>3. CASE UNCHANGED <<clients, doomed, rules, request>>
  BY <1>2, <1>3 DEF Supplied, Active, RuleOf
<1>4. ASSUME NEW r \in Request, NEW n \in Node, NEW k \in Kind, NEW plan \in Plans,
             NEW checked \in BOOLEAN, Starts(r, k, n, plan, checked)
      PROVE  Supplied'
  <2>1. Others(r) /\ request[r].pc = "idle"
    BY <1>1, <1>4, Started
  <2>2. UNCHANGED <<clients, doomed, rules>>
    BY <1>4 DEF Starts, Begin, rows
  <2>3. \A c \in clients : c.by # r /\ request'[c.by] = request[c.by]
    BY <1>1, <2>1 DEF Written, Others
  <2>4. QED BY <1>2, <2>2, <2>3 DEF Supplied, Active, RuleOf
<1>5. ASSUME NEW r \in Request, Queries(r)
      PROVE  Supplied'
  <2>1. /\ Active(r) /\ Others(r)
        /\ Advances(r) \/ Finishes(r) \/ request'[r].pc = "dead"
    BY <1>1, <1>5, Querying DEF Moves
  <2>2. doomed' = doomed /\ rules \subseteq rules'
    BY <1>5, Quiet
  <2>3. /\ request[r].kind \in Kind /\ request[r].at \in Nat
        /\ Last(request[r].kind) \in Nat
        /\ \A i \in 1..Width(request[r].kind) :
              /\ ClientAt(request[r].kind, i) \in Nat
              /\ OutAt(request[r].kind, i) \in Nat /\ OutAt(request[r].kind, i) > 1
              /\ OutAt(request[r].kind, i) < ClientAt(request[r].kind, i)
              /\ RuleAt(request[r].kind, i) = ClientAt(request[r].kind, i) + 1
              /\ RuleAt(request[r].kind, i) < Last(request[r].kind)
    <3>1. request[r].kind \in Kind /\ request[r].at \in Nat
      BY <1>1 DEF RequestsOK
    <3>2. \A k \in Kind : Last(k) \in Nat
      BY Widths
    <3>3. \A n \in Nat : 1 < n => n > 1
      OBVIOUS
    <3>4. QED BY <3>1, <3>2, <3>3, Order, Zenon
  <2>4. ASSUME NEW c \in clients \ doomed,
               \/ request'[c.by].pc = "done"
               \/ request'[c.by].pc = "busy" /\ request'[c.by].at > RuleAt(c.kind, Nth(c))
        PROVE  RuleOf(c) \in rules'
    <3>1. CASE c.by # r
      BY <1>1, <2>1, <2>2, <2>4, <3>1 DEF Supplied, Others, Active
    <3>2. CASE c.by = r
      <4>1. /\ c.kind = request[r].kind /\ c.home = request[r].node
            /\ c.egress = request[r].plan[Nth(c)] /\ Nth(c) \in 1..Width(request[r].kind)
            /\ c.name = Name(r, request[r].kind, Nth(c))
        BY <2>1, <3>2 DEF Written
      <4>2. CASE request[r].at > RuleAt(c.kind, Nth(c))
        BY <2>1, <2>2, <3>2, <4>2 DEF Supplied
      <4>3. CASE Finishes(r)
        BY <2>3, <4>1, <4>2, <4>3 DEF Finishes
      <4>4. CASE Advances(r) /\ request[r].at = RuleAt(c.kind, Nth(c))
        <5>1. CreateRule(r) /\ Index(r) = Nth(c)
          BY <1>1, <1>5, <4>1, <4>4, Behind
        <5>2. RuleOf(c) \in rules'
          BY <3>2, <4>1, <5>1 DEF CreateRule, RuleOf, Target
        <5>3. QED BY <5>2
      <4>5. QED BY <2>1, <2>3, <2>4, <3>2, <4>1, <4>2, <4>3, <4>4 DEF Advances
    <3>3. QED BY <3>1, <3>2
  <2>5. CASE clients' = clients
    <3>1. \A c \in clients : RuleOf(c)' = RuleOf(c)
      BY DEF RuleOf
    <3>2. QED BY <1>2, <2>2, <2>4, <2>5, <3>1 DEF Supplied, Active
  <2>6. ASSUME clients' = clients \cup {NewClient(r)}, Advances(r),
               Index(r) \in 1..Width(request[r].kind),
               request[r].at = ClientAt(request[r].kind, Index(r))
        PROVE  Supplied'
    <3> DEFINE c == NewClient(r)
    <3>1. /\ c.by = r /\ c.kind = request[r].kind /\ c.home = request[r].node
          /\ c.egress = request[r].plan[Index(r)] /\ Nth(c) = Index(r)
      BY NewNth DEF NewClient, Target
    <3> HIDE DEF c
    <3>2. /\ [node |-> c.home, tag |-> Tag(c.kind)] \in inbounds
          /\ Out(c.kind, c.home, c.egress) \in outbounds
      BY <2>1, <2>3, <2>6, <3>1 DEF Exits, MyInbound
    <3>3. /\ [node |-> c.home, tag |-> Tag(c.kind)] \in inbounds'
          /\ Out(c.kind, c.home, c.egress) \in outbounds'
      BY <3>2, Growing
    <3>4. /\ request'[c.by].pc # "done"
          /\ ~(request'[c.by].at > RuleAt(c.kind, Nth(c)))
      BY <2>3, <2>6, <3>1 DEF Advances
    <3>5. clients' = clients \cup {c}
      BY <2>6 DEF c
    <3>6. \A x \in clients : RuleOf(x)' = RuleOf(x)
      BY DEF RuleOf
    <3>7. QED BY <1>2, <2>2, <2>4, <3>3, <3>4, <3>5, <3>6 DEF Supplied, Active
  <2>7. QED BY <1>1, <1>5, <2>5, <2>6, Creating
<1>6. ASSUME NEW d \in Deletion, Deletes(d)
      PROVE  Supplied'
  <2>1. UNCHANGED request /\ clients' \subseteq clients /\ doomed \subseteq doomed'
    BY <1>6, Taking
  <2>2. CASE rules \subseteq rules'
    BY <1>2, <2>1, <2>2 DEF Supplied, Active, RuleOf
  <2>3. CASE DeleteRules(d)
    <3>1. /\ deletion[d].client \in doomed /\ UNCHANGED <<clients, doomed>>
          /\ {x \in rules : x.name # deletion[d].client.name \/ x.by # deletion[d].client.by}
                \subseteq rules'
      BY <2>3 DEF DeleteRules, history, Types, DeletionsOK, Running
    <3>2. \A c \in clients \ doomed : RuleOf(c) \in rules => RuleOf(c) \in rules'
      BY <3>1 DEF SameRow, RuleOf
    <3>3. \A c \in clients : RuleOf(c)' = RuleOf(c)
      BY DEF RuleOf
    <3>4. QED BY <1>2, <2>1, <3>1, <3>2, <3>3 DEF Supplied, Active
  <2>4. QED BY <1>6, <2>2, <2>3 DEF Deletes, BeginDelete, DeleteClient, DeleteReturns,
                                    DeletionDies, rows
<1>7. QED BY <1>3, <1>4, <1>5, <1>6, NextCases DEF Poll, rows, history

LEMMA FreshStep ==
    ASSUME Types, Written, Supplied, Fresh, Next
    PROVE  Fresh'
<1>1. /\ RequestsOK /\ CachesOK /\ clients \subseteq Client
      /\ \A c \in clients : c.by \in Request /\ c.home \in Node
  BY DEF Types, Client
<1>2. \A c : RuleOf(c)' = RuleOf(c)
  BY DEF RuleOf
<1>3. ASSUME NEW n \in Node, Poll(n)
      PROVE  Fresh'
  <2>1. /\ UNCHANGED <<clients, request, doomed, rules, inbounds>>
        /\ cached' = [cached EXCEPT ![n] = Served(n)]
    BY <1>3 DEF Poll, rows, history
  <2>2. ASSUME NEW c \in clients, request[c.by].pc = "done", c \notin doomed, c.home = n
        PROVE  c \in Served(n).clients /\ RuleOf(c) \in Served(n).rules
    BY <2>2 DEF Supplied, Served, RuleOf
  <2>3. \A c \in clients : cached'[c.home] = IF c.home = n THEN Served(n) ELSE cached[c.home]
    BY <1>1, <2>1 DEF CachesOK
  <2>4. QED BY <1>2, <2>1, <2>2, <2>3 DEF Fresh
<1>4. ASSUME NEW r \in Request, NEW n \in Node, NEW k \in Kind, NEW plan \in Plans,
             NEW checked \in BOOLEAN, Starts(r, k, n, plan, checked)
      PROVE  Fresh'
  <2>1. Others(r) /\ request[r].pc = "idle"
    BY <1>1, <1>4, Started
  <2>2. UNCHANGED <<clients, doomed, cached>>
    BY <1>4 DEF Starts, Begin, rows
  <2>3. \A c \in clients : c.by # r /\ request'[c.by] = request[c.by]
    BY <1>1, <2>1 DEF Written, Others
  <2>4. QED BY <1>2, <2>2, <2>3 DEF Fresh
<1>5. ASSUME NEW r \in Request, Queries(r)
      PROVE  Fresh'
  <2>1. /\ Active(r) /\ Others(r)
        /\ request'[r].pc = "done" => Finishes(r)
    BY <1>1, <1>5, Querying DEF Moves, Advances
  <2>2. doomed' = doomed
    BY <1>5, Quiet
  <2>3. cached' = cached \/ cached' = [cached EXCEPT ![request[r].node] = NoConfig]
    BY <1>5 DEF Queries, EnsureInbound, EnsureOutbound, CreateClient, CreateRule, Invalidate,
                RequestDies, rows, history
  <2>4. \A c \in clients : cached'[c.home] = cached[c.home] \/ ~cached'[c.home].etag
    BY <1>1, <2>3 DEF CachesOK, NoConfig
  <2>5. \A c \in clients' : c \in clients \/ (c.by = r /\ Advances(r))
    BY <1>1, <1>5, Creating DEF NewClient
  <2>6. ASSUME NEW c \in clients, request'[c.by].pc = "done", c \notin doomed, cached'[c.home].etag
        PROVE  c \in cached'[c.home].clients /\ RuleOf(c) \in cached'[c.home].rules
    <3>1. CASE c.by # r
      BY <1>1, <2>1, <2>4, <2>6, <3>1 DEF Fresh, Others
    <3>2. CASE c.by = r
      <4>1. Finishes(r)
        BY <2>1, <2>6, <3>2
      <4>2. Invalidate(r)
        BY <1>1, <1>5, <4>1, Behind DEF Finishes
      <4>3. c.home = request[r].node
        BY <2>1, <3>2 DEF Written
      <4>4. ~cached'[c.home].etag
        BY <1>1, <4>2, <4>3 DEF Invalidate, CachesOK, NoConfig
      <4>5. QED BY <2>6, <4>4
    <3>3. QED BY <3>1, <3>2
  <2>7. QED BY <1>2, <2>2, <2>5, <2>6 DEF Fresh, Advances
<1>6. ASSUME NEW d \in Deletion, Deletes(d)
      PROVE  Fresh'
  <2>1. UNCHANGED request /\ clients' \subseteq clients /\ doomed \subseteq doomed'
    BY <1>6, Taking
  <2>2. cached' = cached \/ cached' = [n \in Node |-> IF n = deletion[d].node THEN NoConfig ELSE cached[n]]
    BY <1>6 DEF Deletes, BeginDelete, DeleteRules, DeleteClient, DeleteReturns, DeletionDies,
                rows, history
  <2>3. \A c \in clients : cached'[c.home] = cached[c.home] \/ ~cached'[c.home].etag
    BY <1>1, <2>2 DEF NoConfig
  <2>4. QED BY <1>2, <2>1, <2>3 DEF Fresh
<1>7. QED BY <1>3, <1>4, <1>5, <1>6, NextCases DEF rows, history

LEMMA GoneStep ==
    ASSUME Types, Written, Gone, Next
    PROVE  Gone'
<1>1. RequestsOK /\ DeletionsOK /\ deleted \subseteq doomed /\ clients \subseteq Client
  BY DEF Types
<1>2. ASSUME NEW r \in Request, Queries(r)
      PROVE  Gone'
  <2>1. UNCHANGED <<deletion, doomed, deleted>>
    BY <1>2, Quiet
  <2>2. \A c \in doomed : c \notin clients => c \notin clients'
    <3>1. CASE clients' = clients
      BY <3>1
    <3>2. ASSUME clients' = clients \cup {NewClient(r)}, Active(r),
                 Index(r) \in 1..Width(request[r].kind),
                 request[r].at = ClientAt(request[r].kind, Index(r))
          PROVE  \A c \in doomed : c \notin clients => c \notin clients'
      <4>1. NewClient(r).by = r
        BY DEF NewClient
      <4>2. \A c \in doomed : c.by = r => c.name # NewClient(r).name
        BY <3>2, NewIsNew
      <4>3. QED BY <3>2, <4>1, <4>2
    <3>3. QED BY <1>1, <1>2, <3>1, <3>2, Creating
  <2>3. QED BY <1>1, <2>1, <2>2 DEF Gone, DeletionsOK, Running
<1>3. ASSUME NEW d \in Deletion, Deletes(d)
      PROVE  Gone'
  <2>1. clients' \subseteq clients
    BY <1>3, Taking
  <2>2. CASE \E c \in clients : BeginDelete(d, c)
    <3>1. /\ deleted' = deleted
          /\ \A e \in Deletion : e # d => deletion'[e] = deletion[e]
          /\ deletion'[d].pc = "rule"
      BY <1>1, <2>2 DEF BeginDelete, DeletionsOK
    <3>2. QED BY <2>1, <3>1 DEF Gone
  <2>3. CASE DeleteRules(d)
    <3>1. /\ deleted' = deleted
          /\ \A e \in Deletion : e # d => deletion'[e] = deletion[e]
          /\ deletion'[d].pc = "client"
      BY <1>1, <2>3 DEF DeleteRules, DeletionsOK, history
    <3>2. QED BY <2>1, <3>1 DEF Gone
  <2>4. CASE DeleteClient(d)
    <3>1. /\ deleted' = deleted /\ deletion[d].client \notin clients'
          /\ \A e \in Deletion : e # d => deletion'[e] = deletion[e]
          /\ deletion'[d].client = deletion[d].client
      BY <1>1, <2>4 DEF DeleteClient, DeletionsOK, history
    <3>2. QED BY <2>1, <3>1 DEF Gone
  <2>5. Ended.pc = "ended"
    BY DEF Ended, NoDeletion
  <2>6. CASE DeleteReturns(d)
    <3>1. /\ deleted' = deleted \cup {deletion[d].client} /\ deletion[d].pc = "invalidate"
          /\ \A e \in Deletion : e # d => deletion'[e] = deletion[e]
          /\ deletion'[d].pc = "ended"
      BY <1>1, <2>5, <2>6 DEF DeleteReturns, DeletionsOK
    <3>2. QED BY <2>1, <3>1 DEF Gone
  <2>7. CASE DeletionDies(d)
    <3>1. /\ deleted' = deleted
          /\ \A e \in Deletion : e # d => deletion'[e] = deletion[e]
          /\ deletion'[d].pc = "ended"
      BY <1>1, <2>5, <2>7 DEF DeletionDies, DeletionsOK, history
    <3>2. QED BY <2>1, <3>1 DEF Gone
  <2>8. QED BY <1>3, <2>2, <2>3, <2>4, <2>6, <2>7 DEF Deletes
<1>4. QED BY <1>2, <1>3, NextCases DEF Gone, Starts, Begin, Poll, rows, history

LEMMA TracedStep ==
    ASSUME Types, Supplied, Traced, Next
    PROVE  Traced'
<1>1. /\ RequestsOK /\ DeletionsOK /\ CachesOK
      /\ inbounds \subseteq Inbound /\ inbounds \subseteq inbounds'
  BY Growing DEF Types
<1>2. ASSUME NEW n \in Node, Poll(n)
      PROVE  Traced'
  <2>1. /\ UNCHANGED <<inbounds, twins, deletion>>
        /\ cached' = [cached EXCEPT ![n] = Served(n)]
    BY <1>2 DEF Poll, rows, history
  <2>2. \A c \in Served(n).clients : [node |-> n, tag |-> Tag(c.kind)] \in inbounds
    BY DEF Served
  <2>3. \A m \in Node : \A c \in cached'[m].clients : [node |-> m, tag |-> Tag(c.kind)] \in inbounds
    BY <1>1, <2>1, <2>2 DEF Traced, CachesOK
  <2>4. QED BY <2>1, <2>3 DEF Traced, Running
<1>3. ASSUME NEW r \in Request, NEW n \in Node, NEW k \in Kind, NEW plan \in Plans,
             NEW checked \in BOOLEAN, Starts(r, k, n, plan, checked)
      PROVE  Traced'
  BY <1>3 DEF Traced, Starts, Begin, rows, Running
<1>4. ASSUME NEW r \in Request, Queries(r)
      PROVE  Traced'
  <2>1. \A x, y \in inbounds' : x.tag = y.tag /\ x.tag \notin twins' => x = y
    <3>1. CASE inbounds' = inbounds /\ twins' = twins
      BY <3>1 DEF Traced
    <3>2. CASE /\ inbounds' = inbounds \cup {MyInbound(r)}
               /\ twins' = twins \cup {tag \in {MyInbound(r).tag} : \E x \in inbounds : x.tag = tag}
      <4>1. twins \subseteq twins'
        BY <3>2
      <4>2. \A x \in inbounds : x.tag = MyInbound(r).tag => x.tag \in twins'
        BY <3>2
      <4>3. QED BY <3>2, <4>1, <4>2 DEF Traced
    <3>3. QED BY <1>4, <3>1, <3>2
              DEF Queries, EnsureInbound, EnsureOutbound, CreateClient, CreateRule, Invalidate,
                  RequestDies, rows, history
  <2>2. twins \subseteq twins' /\ UNCHANGED deletion
    BY <1>4 DEF Queries, EnsureInbound, EnsureOutbound, CreateClient, CreateRule, Invalidate,
                RequestDies, rows, history
  <2>3. cached' = cached \/ cached' = [cached EXCEPT ![request[r].node] = NoConfig]
    BY <1>4 DEF Queries, EnsureInbound, EnsureOutbound, CreateClient, CreateRule, Invalidate,
                RequestDies, rows, history
  <2>4. \A m \in Node : \A c \in cached'[m].clients : c \in cached[m].clients
    BY <1>1, <2>3 DEF CachesOK, NoConfig
  <2>5. QED BY <1>1, <2>1, <2>2, <2>4 DEF Traced, Running
<1>5. ASSUME NEW d \in Deletion, Deletes(d)
      PROVE  Traced'
  <2>1. UNCHANGED <<inbounds, twins>>
    BY <1>5, Taking
  <2>2. cached' = cached \/ cached' = [n \in Node |-> IF n = deletion[d].node THEN NoConfig ELSE cached[n]]
    BY <1>5 DEF Deletes, BeginDelete, DeleteRules, DeleteClient, DeleteReturns, DeletionDies,
                rows, history
  <2>3. \A m \in Node : \A c \in cached'[m].clients : c \in cached[m].clients
    BY <1>1, <2>2 DEF CachesOK, NoConfig
  <2>4. CASE \E c \in clients : BeginDelete(d, c)
    <3>1. PICK c \in clients : BeginDelete(d, c)
      BY <2>4
    <3>2. InboundOf(c) # {}
      <4>1. [node |-> c.home, tag |-> Tag(c.kind)] \in InboundOf(c)
        BY DEF Supplied, InboundOf
      <4>2. QED BY <4>1
    <3>3. PICK api \in {"socks5", "relay"}, x \in InboundOf(c) :
             deletion' = [deletion EXCEPT ![d] = [pc |-> "rule", client |-> c, api |-> api, node |-> x.node]]
      <4>1. \E api \in {"socks5", "relay"}, n \in {x.node : x \in InboundOf(c)} :
               deletion' = [deletion EXCEPT ![d] = [pc |-> "rule", client |-> c, api |-> api, node |-> n]]
        <5> HIDE DEF InboundOf
        <5>1. QED BY <3>1, <3>2 DEF BeginDelete
      <4>2. QED BY <4>1
    <3>4. [node |-> x.node, tag |-> Tag(c.kind)] \in inbounds
      BY <1>1, <3>3 DEF InboundOf, Inbound
    <3>5. \A e \in Deletion :
             \/ deletion'[e] = deletion[e]
             \/ deletion'[e].client = c /\ deletion'[e].node = x.node
      BY <1>1, <3>3 DEF DeletionsOK
    <3>6. QED BY <2>1, <2>3, <3>4, <3>5 DEF Traced, Running
  <2>5. Ended.pc = "ended"
    BY DEF Ended, NoDeletion
  <2>6. CASE DeleteRules(d) \/ DeleteClient(d) \/ DeleteReturns(d) \/ DeletionDies(d)
    <3>1. \A e \in Deletion : Running(e)' =>
             /\ Running(e) /\ deletion'[e].client = deletion[e].client
             /\ deletion'[e].node = deletion[e].node
      BY <1>1, <2>5, <2>6 DEF DeleteRules, DeleteClient, DeleteReturns, DeletionDies,
                              DeletionsOK, Running
    <3>2. QED BY <2>1, <2>3, <3>1 DEF Traced
  <2>7. QED BY <1>5, <2>4, <2>6 DEF Deletes
<1>6. QED BY <1>2, <1>3, <1>4, <1>5, NextCases

LEMMA DeletedGoneStep ==
    ASSUME Types, Gone, Traced, DeletedGone, Next
    PROVE  DeletedGone'
<1>1. RequestsOK /\ DeletionsOK /\ CachesOK
  BY DEF Types
<1>2. ASSUME NEW n \in Node, Poll(n)
      PROVE  DeletedGone'
  <2>1. UNCHANGED <<clients, deleted, twins>> /\ cached' = [cached EXCEPT ![n] = Served(n)]
    BY <1>2 DEF Poll, rows, history
  <2>2. Served(n).clients \subseteq clients
    BY DEF Served
  <2>3. \A m \in Node : \A c \in cached'[m].clients : c \in cached[m].clients \/ c \in clients
    BY <1>1, <2>1, <2>2 DEF CachesOK
  <2>4. QED BY <2>1, <2>3 DEF DeletedGone, Gone
<1>3. ASSUME NEW r \in Request, Queries(r)
      PROVE  DeletedGone'
  <2>1. twins \subseteq twins' /\ UNCHANGED deleted
    BY <1>3 DEF Queries, EnsureInbound, EnsureOutbound, CreateClient, CreateRule, Invalidate,
                RequestDies, rows, history
  <2>2. cached' = cached \/ cached' = [cached EXCEPT ![request[r].node] = NoConfig]
    BY <1>3 DEF Queries, EnsureInbound, EnsureOutbound, CreateClient, CreateRule, Invalidate,
                RequestDies, rows, history
  <2>3. \A m \in Node : \A c \in cached'[m].clients : c \in cached[m].clients
    BY <1>1, <2>2 DEF CachesOK, NoConfig
  <2>4. QED BY <2>1, <2>3 DEF DeletedGone
<1>4. ASSUME NEW d \in Deletion, Deletes(d)
      PROVE  DeletedGone'
  <2>1. UNCHANGED twins
    BY <1>4, Taking
  <2>2. CASE DeleteReturns(d)
    <3>1. /\ deletion[d].pc = "invalidate"
          /\ cached' = [n \in Node |-> IF n = deletion[d].node THEN NoConfig ELSE cached[n]]
          /\ deleted' = deleted \cup {deletion[d].client}
      BY <2>2 DEF DeleteReturns
    <3>2. \A m \in Node : \A c \in cached'[m].clients :
             c \in cached[m].clients /\ m # deletion[d].node
      BY <1>1, <3>1 DEF CachesOK, NoConfig
    <3>3. ASSUME Tag(deletion[d].client.kind) \notin twins, NEW m \in Node,
                 deletion[d].client \in cached[m].clients
          PROVE  m = deletion[d].node
      <4>1. /\ [node |-> deletion[d].node, tag |-> Tag(deletion[d].client.kind)] \in inbounds
            /\ [node |-> m, tag |-> Tag(deletion[d].client.kind)] \in inbounds
        BY <3>1, <3>3 DEF Traced, Running
      <4>2. QED BY <3>3, <4>1 DEF Traced
    <3>4. QED BY <2>1, <3>1, <3>2, <3>3 DEF DeletedGone
  <2>3. CASE ~DeleteReturns(d)
    <3>1. UNCHANGED <<cached, deleted>>
      BY <1>4, <2>3 DEF Deletes, BeginDelete, DeleteRules, DeleteClient, DeletionDies, rows, history
    <3>2. QED BY <2>1, <3>1 DEF DeletedGone
  <2>4. QED BY <2>2, <2>3
<1>5. QED BY <1>2, <1>3, <1>4, NextCases DEF DeletedGone, Starts, Begin, rows

LEMMA OverlappingStep ==
    ASSUME Types, Written, Supplied, Overlapping, Next
    PROVE  Overlapping'
<1>1. /\ RequestsOK /\ clients \subseteq Client
      /\ \A c \in clients : c.by \in Request
  BY DEF Types, Client
<1>2. CASE UNCHANGED <<request, overlap>> /\ clients' \subseteq clients
  BY <1>2 DEF Overlapping, Active
<1>3. ASSUME NEW r \in Request, NEW n \in Node, NEW k \in Kind, NEW plan \in Plans,
             NEW checked \in BOOLEAN, Starts(r, k, n, plan, checked)
      PROVE  Overlapping'
  <2>1. /\ Others(r) /\ request[r].pc = "idle" /\ request'[r].node = n
        /\ request'[r].plan = plan /\ request'[r].checked = checked
    BY <1>1, <1>3, Started
  <2>2. /\ overlap' = overlap \cup {{r, s} : s \in {s \in Request : Active(s)}}
        /\ UNCHANGED <<clients, outbounds>>
    BY <1>3 DEF Starts, Begin, rows
  <2>3. \A c \in clients : c.by # r /\ request'[c.by] = request[c.by]
    BY <1>1, <2>1 DEF Written, Others
  <2>4. ASSUME NEW s \in Request, NEW t \in Request, Active(s)', Active(t)', s # t
        PROVE  {s, t} \in overlap'
    <3>1. CASE s # r /\ t # r
      BY <2>1, <2>2, <2>4, <3>1 DEF Overlapping, Others, Active
    <3>2. CASE s = r
      BY <2>1, <2>2, <2>4, <3>2 DEF Others, Active
    <3>3. CASE t = r
      <4>1. {t, s} \in overlap'
        BY <2>1, <2>2, <2>4, <3>3 DEF Others, Active
      <4>2. {t, s} = {s, t}
        OBVIOUS
      <4>3. QED BY <4>1, <4>2
    <3>4. QED BY <3>1, <3>2, <3>3
  <2>5. ASSUME NEW c \in clients, checked, request[c.by].checked, n = c.home, plan[1] = c.egress
        PROVE  FALSE
    <3>1. c.kind = "socks5" /\ Out("socks5", c.home, c.egress) \in outbounds
      BY <2>5 DEF Written, Supplied
    <3>2. Allocated(n, plan[1])
      BY <2>5, <3>1 DEF Allocated
    <3>3. QED BY <1>3, <2>5, <3>2 DEF Starts
  <2>6. ASSUME NEW c \in clients, NEW s \in Request, request'[c.by].checked, Active(s)',
               request'[s].checked, s # c.by, request'[s].node = c.home,
               request'[s].plan[1] = c.egress
        PROVE  {c.by, s} \in overlap'
    <3>1. s # r
      BY <2>1, <2>3, <2>5, <2>6
    <3>2. QED BY <2>1, <2>2, <2>3, <2>6, <3>1 DEF Overlapping, Others, Active
  <2>7. QED BY <2>2, <2>4, <2>6 DEF Overlapping
<1>4. ASSUME NEW r \in Request, Queries(r)
      PROVE  Overlapping'
  <2>1. /\ Active(r) /\ Others(r) /\ request'[r].checked = request[r].checked
        /\ request'[r].pc = "busy" => Advances(r)
    BY <1>1, <1>4, Querying DEF Moves, Finishes
  <2>2. overlap' = overlap
    BY <1>4, Quiet
  <2>3. \A s \in Request :
           /\ request'[s].checked = request[s].checked
           /\ Active(s)' => /\ Active(s) /\ request'[s].node = request[s].node
                            /\ request'[s].plan = request[s].plan
    BY <2>1 DEF Others, Advances, Active
  <2>4. \A c \in clients' : c \in clients \/ c.by = r
    BY <1>1, <1>4, Creating DEF NewClient
  <2>5. QED BY <1>1, <2>1, <2>2, <2>3, <2>4 DEF Overlapping
<1>5. ASSUME NEW d \in Deletion, Deletes(d)
      PROVE  UNCHANGED <<request, overlap>> /\ clients' \subseteq clients
  BY <1>5, Taking
<1>6. QED BY <1>2, <1>3, <1>4, <1>5, NextCases DEF Poll, rows, history

LEMMA UidOnceStep ==
    ASSUME Types, Written, Overlapping, UidOnce, Next
    PROVE  UidOnce'
<1>1. RequestsOK /\ clients \subseteq Client /\ \A c \in clients : c.by \in Request
  BY DEF Types, Client
<1>2. CASE UNCHANGED <<request, overlap>> /\ clients' \subseteq clients
  BY <1>2 DEF UidOnce
<1>3. ASSUME NEW r \in Request, NEW n \in Node, NEW k \in Kind, NEW plan \in Plans,
             NEW checked \in BOOLEAN, Starts(r, k, n, plan, checked)
      PROVE  UidOnce'
  <2>1. Others(r) /\ request[r].pc = "idle"
    BY <1>1, <1>3, Started
  <2>2. overlap \subseteq overlap' /\ UNCHANGED clients
    BY <1>3 DEF Starts, Begin, rows
  <2>3. \A c \in clients : request'[c.by] = request[c.by]
    BY <1>1, <2>1 DEF Written, Others
  <2>4. QED BY <2>2, <2>3 DEF UidOnce
<1>4. ASSUME NEW r \in Request, Queries(r)
      PROVE  UidOnce'
  <2>1. Active(r) /\ \A s \in Request : request'[s].checked = request[s].checked
    BY <1>1, <1>4, Querying DEF Moves, Others
  <2>2. overlap' = overlap
    BY <1>4, Quiet
  <2>3. CASE clients' = clients
    BY <1>1, <2>1, <2>2, <2>3 DEF UidOnce
  <2>4. ASSUME clients' = clients \cup {NewClient(r)}, Index(r) \in 1..Width(request[r].kind)
        PROVE  UidOnce'
    <3> DEFINE c == NewClient(r)
    <3>1. /\ c.by = r /\ c.home = request[r].node /\ c.egress = request[r].plan[Index(r)]
          /\ clients' = clients \cup {c}
      BY <2>4 DEF NewClient, Target
    <3>2. request[r].checked => Index(r) = 1
      BY <1>1, <2>4 DEF RequestsOK, Width
    <3> HIDE DEF c
    <3>3. ASSUME NEW d \in clients, c.by # d.by, c.egress = d.egress, c.home = d.home,
                 request[c.by].checked, request[d.by].checked
          PROVE  {c.by, d.by} \in overlap /\ {d.by, c.by} \in overlap
      <4>1. {d.by, r} \in overlap
        BY <2>1, <3>1, <3>2, <3>3 DEF Overlapping
      <4>2. {d.by, r} = {r, d.by}
        OBVIOUS
      <4>3. QED BY <3>1, <4>1, <4>2
    <3>4. \A x, y \in clients :
             /\ x.by # y.by /\ x.egress = y.egress /\ x.home = y.home
             /\ request[x.by].checked /\ request[y.by].checked
             => {x.by, y.by} \in overlap
      BY DEF UidOnce
    <3>5. ASSUME NEW x \in clients', NEW y \in clients', x.by # y.by, x.egress = y.egress,
                 x.home = y.home, request'[x.by].checked, request'[y.by].checked
          PROVE  {x.by, y.by} \in overlap'
      <4>1. request[x.by].checked /\ request[y.by].checked
        BY <1>1, <2>1, <3>1, <3>5
      <4>2. QED BY <2>2, <3>1, <3>3, <3>4, <3>5, <4>1
    <3>6. QED BY <3>5 DEF UidOnce
  <2>5. QED BY <1>1, <1>4, <2>3, <2>4, Creating
<1>5. ASSUME NEW d \in Deletion, Deletes(d)
      PROVE  UNCHANGED <<request, overlap>> /\ clients' \subseteq clients
  BY <1>5, Taking
<1>6. QED BY <1>2, <1>3, <1>4, <1>5, NextCases DEF Poll, rows, history
-----------------------------------------------------------------------------
(* The invariant and what it says.                                         *)

LEMMA GenInit == Init => GenInv
<1> SUFFICES ASSUME Init PROVE GenInv
  OBVIOUS
<1>1. NoRequest \in [pc : {"idle", "busy", "done", "dead"}, kind : Kind,
                     node : Node \cup {NoNode}, plan : Plans, at : Nat, checked : BOOLEAN]
  BY DEF NoRequest, Kind, Plans
<1>2. RequestsOK /\ \A r \in Request : ~Active(r)
  BY <1>1 DEF Init, RequestsOK, Active, NoRequest
<1>3. DeletionsOK /\ \A d \in Deletion : ~Running(d) /\ deletion[d].pc = "idle"
  BY DEF Init, DeletionsOK, Running, NoDeletion
<1>4. CachesOK /\ \A n \in Node : cached[n].clients = {}
  BY DEF Init, CachesOK, NoConfig
<1>5. Types
  BY <1>2, <1>3, <1>4 DEF Init, Types
<1>6. Unique /\ Written /\ SameRow /\ Supplied /\ Fresh /\ DeletedGone /\ UidOnce
  BY DEF Init, Unique, Written, SameRow, Supplied, Fresh, DeletedGone, UidOnce
<1>7. Exits /\ Gone /\ Traced /\ Overlapping
  BY <1>2, <1>3, <1>4 DEF Init, Exits, Gone, Traced, Overlapping
<1>8. QED BY <1>5, <1>6, <1>7 DEF GenInv

LEMMA GenStep == GenInv /\ [Next]_vars => GenInv'
<1> SUFFICES ASSUME GenInv, [Next]_vars PROVE GenInv'
  OBVIOUS
<1> USE DEF GenInv
<1>1. CASE Next
  <2>1. Types' /\ Unique'
    BY <1>1, TypesStep, UniqueStep
  <2>2. Written' /\ SameRow'
    BY <1>1, WrittenStep, SameRowStep
  <2>3. Exits' /\ Supplied' /\ Fresh'
    BY <1>1, ExitsStep, SuppliedStep, FreshStep
  <2>4. Gone' /\ Traced' /\ DeletedGone'
    BY <1>1, GoneStep, TracedStep, DeletedGoneStep
  <2>5. Overlapping' /\ UidOnce'
    BY <1>1, OverlappingStep, UidOnceStep
  <2>6. QED BY <2>1, <2>2, <2>3, <2>4, <2>5
<1>2. CASE UNCHANGED vars
  <2>1. UNCHANGED <<inbounds, outbounds, clients, rules, request, deletion, cached, polls,
                    doomed, deleted, twins, overlap>>
    BY <1>2 DEF vars, rows, history
  <2>2. Types'
    BY <2>1 DEF Types, RequestsOK, DeletionsOK, CachesOK, Active, Running
  <2>3. Unique' /\ Written' /\ SameRow' /\ DeletedGone' /\ UidOnce' /\ Gone'
    BY <2>1 DEF Unique, Written, SameRow, DeletedGone, UidOnce, Gone, Active
  <2>4. Exits' /\ Supplied' /\ Fresh'
    BY <2>1 DEF Exits, Supplied, Fresh, Active, MyInbound, RuleOf
  <2>5. Traced' /\ Overlapping'
    BY <2>1 DEF Traced, Overlapping, Active, Running
  <2>6. QED BY <2>2, <2>3, <2>4, <2>5
<1>3. QED BY <1>1, <1>2

THEOREM GenCorrect == Spec => []GenInv
BY GenInit, GenStep, PTL DEF Spec

\* Every row names a node, an egress and a request that exist, names and ports
\* are unique where the database says so, and a running request is at a query
\* that its plan has an entry for.
THEOREM TypeCorrect == Spec => []TypeOK
<1>1. GenInv => TypeOK
  <2> SUFFICES ASSUME GenInv PROVE TypeOK
    OBVIOUS
  <2>1. ASSUME NEW r \in Request
        PROVE  /\ request[r].pc \in {"idle", "busy", "done", "dead"}
               /\ Active(r) => Index(r) \in DOMAIN request[r].plan
    BY Doings DEF GenInv, Types, RequestsOK
  <2>2. /\ \A d \in Deletion : deletion[d].pc \in {"idle", "rule", "client", "invalidate", "ended"}
        /\ \A n \in Node : cached[n].clients \subseteq Client /\ cached[n].rules \subseteq Rule
    BY DEF GenInv, Types, DeletionsOK, CachesOK
  <2>3. QED BY <2>1, <2>2 DEF TypeOK, GenInv, Types, Unique
<1>2. QED BY <1>1, GenCorrect, PTL

\* What a generator has returned works until somebody deletes it, whatever
\* other requests, deletions and polls happen between its queries, and
\* wherever they die: the rows are there, and no agent is told to keep an
\* older configuration.
THEOREM ReturnedCorrect == Spec => []ReturnedWorks
<1>1. GenInv => ReturnedWorks
  <2> SUFFICES ASSUME GenInv,
                      NEW c \in clients, request[c.by].pc = "done", c \notin doomed
               PROVE  /\ [node |-> c.home, tag |-> Tag(c.kind)] \in inbounds
                      /\ Out(c.kind, c.home, c.egress) \in outbounds
                      /\ RuleOf(c) \in rules
                      /\ cached[c.home].etag =>
                            c \in cached[c.home].clients /\ RuleOf(c) \in cached[c.home].rules
    BY DEF ReturnedWorks
  <2>1. QED BY DEF GenInv, Supplied, Fresh
<1>2. QED BY <1>1, GenCorrect, PTL

\* A client whose deletion has returned is in no cached configuration, when
\* only one node had its tag, so that the deletion found the right cache.
THEOREM DeletedCorrect == Spec => []DeletedGone
BY GenCorrect, PTL DEF GenInv

\* customUid: only requests that ran at the same time can give one egress to
\* the same user twice.
THEOREM UidCorrect == Spec => []UidOnce
BY GenCorrect, PTL DEF GenInv
=============================================================================
