---------------------------- MODULE NodesProofs ----------------------------
(***************************************************************************)
(* Proofs about nodes: NodeDns, and below it NodeHealth.                   *)
(*                                                                         *)
(* NodeDns: the types, and that what dns.service answered holds in the     *)
(* provider's zone until another request touches the name.  The invariant  *)
(* says what each request takes for granted of the rows and entries it has *)
(* read, and when that stays true: of a name that only one request is at   *)
(* work on nobody else changes a row or an entry, and names that two were  *)
(* at work on are muddled from then on.  A step of one request then leaves *)
(* to the others what they hold (Harmless), and has to keep only what is   *)
(* its own (Carries).                                                      *)
(*                                                                         *)
(* NodeHealth: the types, and the two invariants on nodes that must not be *)
(* selected, for every timeout, period, threshold and number of failed     *)
(* runs.  That a node which is well is selected in the end is liveness,    *)
(* and stays with TLC.                                                     *)
(***************************************************************************)
EXTENDS NodeHealth, NodeDns, FiniteSetTheorems, TLAPS

Mark == Name \cup Node
Early == {"provider", "find"}
Snapshot == {"read", "zone", "row", "delete", "remove", "list"}

\* What a request is in the middle of.
RequestType ==
    [pc : {"idle", "create", "insert", "set", "done"} \cup Early \cup Snapshot,
     op : {"none", "ensure", "manual", "remove", "sync", "default"},
     about : SUBSET Mark, provider : SUBSET Provider, node : Node \cup {NoNode},
     name : SUBSET Name, ip : 0..MaxAddr, todo : SUBSET (Row \cup Entry)]

Singleton(s) == \E x \in s : s = {x}

\* What each step of a request takes for granted.
Formed(q) ==
    /\ q.pc \notin Snapshot \cup {"insert"} => q.todo = {}
    /\ q.pc \in {"idle", "done"} => q.about = {}
    /\ q.pc \in Early \cup {"create", "insert", "read", "zone", "row"} => q.ip # 0
    /\ q.pc \in Early \cup {"create", "insert"} =>
         q.node \in Node /\ q.node \in q.about /\ q.name \subseteq q.about /\ Singleton(q.name)
    /\ q.pc \in {"find", "create"} => Singleton(q.provider)
    /\ q.pc \in Snapshot => q.todo \subseteq Row
    /\ q.pc = "insert" => /\ q.todo \subseteq Entry
                          /\ \A z \in q.todo : z.name \in q.about /\ z.content = q.ip
    /\ q.pc \in {"insert", "read", "zone", "row"} => Singleton(q.todo)
    /\ q.pc = "list" => q.about = Mark
    /\ q.pc \in {"provider", "find", "read"} => q.op = "ensure"
    /\ q.op = "remove" => q.pc \in {"delete", "remove"} /\ q.node \in Node /\ q.node \in q.about

Typed ==
    /\ node \in [Node -> [addr : 0..MaxAddr, name : Name]] /\ changes \in 0..MaxChanges
    /\ default \subseteq Provider /\ rows \subseteq Row /\ zone \subseteq Entry
    /\ made \in Nat /\ unsure \subseteq Ids /\ muddled \subseteq Mark
    /\ request \in [Request -> RequestType]

\* Requests that have made their record, or never will.
Past == {r \in Request : request[r].pc \in {"insert", "done"}}

Counted == made <= Cardinality(Past)

\* Numbers are given once: to the entry, and to the row that is made for it.
Numbered ==
    /\ \A z \in zone : z.ext <= made
    /\ \A x \in rows : x.id <= made /\ x.ext <= made

Unique ==
    /\ \A x, y \in rows : x.id = y.id \/ (x.provider = y.provider /\ x.name = y.name) => x = y
    /\ \A x, y \in zone : x.ext = y.ext => x = y

\* The number of an entry that has no row yet is nobody else's.
Reserved ==
    \A r, s \in Request : request[r].pc = "insert" /\ r # s =>
        \A z \in request[r].todo, x \in request[s].todo :
            /\ request[s].pc \in Snapshot => x.id # z.ext
            /\ request[s].pc = "insert" => x.ext # z.ext

\* An entry that a row means is of its provider, and of its name unless both
\* names are muddled.
Alike(x) ==
    \A z \in zone : x.ext = z.ext =>
        /\ x.provider = z.provider
        /\ x.name = z.name \/ (x.name \in muddled /\ z.name \in muddled)

\* Requests about the same name or node have muddled all they are about.
Apart ==
    \A r, s \in Request :
        r # s /\ request[r].about \cap request[s].about # {}
        => request[r].about \cup request[s].about \subseteq muddled

Known(q, d) == d \in q.about \/ d \in muddled

\* What a request holds of a row that keeps its name and its provider.
Named(q) ==
    q.pc \in Snapshot => \A x \in q.todo :
        /\ x.id <= made /\ Known(q, x.name)
        /\ \A y \in rows : x.id = y.id => x.name = y.name /\ x.provider = y.provider

\* The rows of its node are among what it is about.
Confined(q) ==
    q.pc \in Early \/ q.op = "remove" => \A y \in RowsOf(q.node) : Known(q, y.name)

\* The rows that a removal deletes are those of the entries it deletes.
Listing(q) ==
    q.op = "remove" =>
        /\ \A y \in RowsOf(q.node) : y.name \in muddled \/ \E x \in q.todo : x.id = y.id
        /\ \A x \in q.todo, y \in rows : x.id = y.id => y.node \in {q.node, NoNode}

\* What a request has read of a row is true until it ends.
Followed(q) ==
    q.pc \in {"zone", "row", "delete", "remove"} =>
        \A x \in q.todo : x.name \notin muddled => \E y \in rows : y.id = x.id /\ y.ext = x.ext

\* An entry waits for its row, whose number is free.
Standing(q) ==
    q.pc = "insert" =>
        \A z \in q.todo : /\ \A y \in rows : y.id # z.ext
                          /\ z.name \notin muddled => z \in zone

Written(q) ==
    q.pc = "row" =>
        \A x \in q.todo : x.name \notin muddled => \E z \in zone : z.ext = x.ext /\ z.content = q.ip

Deleted(q) ==
    q.pc = "remove" =>
        \A x \in q.todo : x.name \notin muddled => \A z \in zone : z.ext # x.ext

Sound(q) ==
    /\ Formed(q) /\ \A x \in q.todo : x.ext <= made /\ Alike(x)
    /\ Named(q) /\ Confined(q) /\ Listing(q)
    /\ Followed(q) /\ Standing(q) /\ Written(q) /\ Deleted(q)

\* An entry is some row's, or will be.
Backed(z) ==
    \/ \E y \in rows : y.provider = z.provider /\ y.name = z.name /\ y.ext = z.ext
    \/ \E r \in Request : request[r].pc = "insert" /\ z \in request[r].todo

\* A row of a node has its entry, unless it is about to go.
Kept(y) ==
    \/ \E z \in zone : z.ext = y.ext /\ (y.id \notin unsure => z.content = y.content)
    \/ \E r \in Request : request[r].pc = "remove" /\ \E x \in request[r].todo : x.id = y.id

Settled(p, d) == \A x \in rows : x.provider = p /\ x.name = d => x.id \notin unsure

\* What the records are of that were asked for under a name.
Recorded(p, d) == {z.content : z \in {y \in zone : y.provider = p /\ y.name = d}}

\* Nobody is at work on what was answered, and it holds.
Held(a) ==
    a.name \notin muddled =>
        /\ \A r \in Request : a.name \notin request[r].about
        /\ Settled(a.provider, a.name) =>
             Recorded(a.provider, a.name) = IF a.gone THEN {} ELSE {a.ip}

TableInv == Typed /\ Counted /\ Numbered /\ Unique /\ Reserved /\ Apart

DnsInv ==
    /\ TableInv
    /\ \A r \in Request : Sound(request[r])
    /\ \A x \in rows : Alike(x)
    /\ \A z \in zone : z.name \notin muddled => Backed(z)
    /\ \A y \in rows : y.node # NoNode /\ y.name \notin muddled => Kept(y)
    /\ \A a \in answers : a.name \in Name /\ Held(a)
-----------------------------------------------------------------------------
(* What a step of one request leaves to the others.                        *)

\* Records of names that a request does not know stay what they are.
Untouched(q) ==
    /\ \A x \in Row : ~ Known(q, x.name) => (x \in rows' <=> x \in rows)
    /\ \A z \in Entry : ~ Known(q, z.name) => (z \in zone' <=> z \in zone)

Born(q, y) ==
    q.pc = "insert" /\ y.node = q.node /\ \E z \in q.todo : y.id = z.ext /\ y.name = z.name

\* A row that is not new has kept its number, name, provider and node.
Descends(q) ==
    \A y \in rows' :
        \/ Born(q, y)
        \/ \E x \in rows : x.id = y.id /\ x.name = y.name /\ x.provider = y.provider /\ x.node = y.node

StaysAlike == \A x \in Row \cup Entry : Alike(x) /\ x.ext <= made => Alike(x)'

Harmless(q) ==
    /\ rows' \subseteq Row /\ zone' \subseteq Entry /\ made' \in Nat /\ made <= made'
    /\ muddled \subseteq muddled'
    /\ Untouched(q) /\ Descends(q) /\ StaysAlike

\* What two requests are both about is muddled.
LEMMA Strangers ==
    ASSUME Apart, NEW r \in Request, NEW s \in Request, r # s,
           NEW k, k \in request[s].about, k \notin muddled
    PROVE  ~ Known(request[r], k)
BY DEF Apart, Known

LEMMA Meeting ==
    ASSUME Apart, NEW r \in Request, NEW s \in Request, r # s,
           NEW k, k \in request[s].about, k \in request[r].about
    PROVE  request[r].about \subseteq muddled
BY DEF Apart

LEMMA OthersSound ==
    ASSUME TableInv, NEW r \in Request, NEW s \in Request, r # s,
           Sound(request[r]), Sound(request[s]), Harmless(request[r]), request'[s] = request[s]
    PROVE  Sound(request[s])'
<1> DEFINE q == request[s]
<1>q. request'[s] = q /\ q \in RequestType /\ request[r] \in RequestType
  BY DEF TableInv, Typed
<1>f. Formed(q) /\ Formed(request[r])
  BY DEF Sound
<1>b. \A y \in rows' : Born(request[r], y) => y.name \in request[r].about /\ y.node \in request[r].about
  BY <1>f DEF Formed, Born
<1>k. \A d : Known(q, d) => Known(q, d)'
  BY <1>q DEF Known, Harmless
<1>c. \A d : d \in q.about /\ d \notin muddled' => ~ Known(request[r], d)
  BY Strangers DEF TableInv, Harmless
<1>p. q.todo \subseteq Row \cup Entry
  BY <1>q DEF RequestType
<1>1. Formed(request[s])'
  BY <1>q, <1>f DEF Formed
<1>2. (\A x \in request[s].todo : x.ext <= made /\ Alike(x))'
  <2>1. \A x \in q.todo : x.ext <= made /\ Alike(x)
    BY DEF Sound
  <2>2. \A x \in q.todo : x.ext \in Nat
    BY <1>p DEF Row, Entry, Ids
  <2>3. \A x \in q.todo : x.ext <= made' /\ Alike(x)'
    BY <2>1, <2>2, <1>p DEF Harmless, StaysAlike, TableInv, Typed
  <2>4. QED BY <2>3, <1>q
<1>3. Named(request[s])'
  <2> SUFFICES ASSUME q.pc \in Snapshot, NEW x \in q.todo
               PROVE  /\ x.id <= made' /\ Known(q, x.name)'
                      /\ \A y \in rows' : x.id = y.id => x.name = y.name /\ x.provider = y.provider
    BY <1>q DEF Named
  <2>1. /\ x.id <= made /\ Known(q, x.name) /\ x \in Row
        /\ \A y \in rows : x.id = y.id => x.name = y.name /\ x.provider = y.provider
    BY <1>f DEF Sound, Named, Formed
  <2>2. \A y \in rows' : Born(request[r], y) => y.id # x.id
    BY DEF Born, TableInv, Reserved
  <2>3. x.id <= made'
    BY <2>1 DEF Row, Ids, Harmless, TableInv, Typed
  <2>4. QED BY <2>1, <2>2, <2>3, <1>k DEF Harmless, Descends
<1>4. Confined(request[s])'
  <2> SUFFICES ASSUME q.pc \in Early \/ q.op = "remove", NEW y \in rows', y.node = q.node
               PROVE  Known(q, y.name)'
    BY <1>q DEF Confined, RowsOf
  <2>1. q.node \in q.about
    BY <1>f DEF Formed
  <2>2. CASE Born(request[r], y)
    <3>1. y.name \in muddled
      BY <2>1, <2>2, <1>b, Meeting DEF TableInv
    <3>2. QED BY <3>1, <1>k DEF Known
  <2>3. CASE \E x \in rows : x.name = y.name /\ x.node = y.node
    <3>1. Known(q, y.name)
      BY <2>3 DEF Sound, Confined, RowsOf
    <3>2. QED BY <3>1, <1>k
  <2>4. QED BY <2>2, <2>3 DEF Harmless, Descends
<1>5. Listing(request[s])'
  <2> SUFFICES ASSUME q.op = "remove", NEW y \in rows'
               PROVE  /\ y.node = q.node => y.name \in muddled' \/ \E x \in q.todo : x.id = y.id
                      /\ \A x \in q.todo : x.id = y.id => y.node \in {q.node, NoNode}
    BY <1>q DEF Listing, RowsOf
  <2>1. q.node \in q.about /\ q.pc \in Snapshot
    BY <1>f DEF Formed, Snapshot
  <2>2. CASE Born(request[r], y)
    <3>1. y.node = q.node => y.name \in muddled
      BY <2>1, <2>2, <1>b, Meeting DEF TableInv
    <3>2. \A x \in q.todo : x.id # y.id
      BY <2>1, <2>2 DEF Born, TableInv, Reserved
    <3>3. QED BY <3>1, <3>2 DEF Harmless
  <2>3. CASE \E x \in rows : x.id = y.id /\ x.name = y.name /\ x.node = y.node
    BY <2>3 DEF Sound, Listing, RowsOf, Harmless
  <2>4. QED BY <2>2, <2>3 DEF Harmless, Descends
<1>6. Followed(request[s])'
  <2> SUFFICES ASSUME q.pc \in {"zone", "row", "delete", "remove"}, NEW x \in q.todo, x.name \notin muddled'
               PROVE  \E y \in rows' : y.id = x.id /\ y.ext = x.ext
    BY <1>q DEF Followed
  <2>1. /\ x.name \in q.about /\ x.name \notin muddled
        /\ \A y \in rows : x.id = y.id => x.name = y.name
    BY DEF Sound, Named, Snapshot, Known, Harmless
  <2>2. PICK y \in rows : y.id = x.id /\ y.ext = x.ext
    BY <2>1 DEF Sound, Followed
  <2>3. y \in rows'
    BY <2>1, <2>2, <1>c DEF Harmless, Untouched, TableInv, Typed
  <2>4. QED BY <2>2, <2>3
<1>7. Standing(request[s])'
  <2> SUFFICES ASSUME q.pc = "insert", NEW z \in q.todo
               PROVE  /\ \A y \in rows' : y.id # z.ext
                      /\ z.name \notin muddled' => z \in zone'
    BY <1>q DEF Standing
  <2>1. /\ z \in Entry /\ z.name \in q.about
        /\ \A y \in rows : y.id # z.ext
        /\ z.name \notin muddled => z \in zone
    BY <1>f DEF Sound, Standing, Formed
  <2>2. \A y \in rows' : Born(request[r], y) => y.id # z.ext
    BY DEF Born, TableInv, Reserved
  <2>3. \A y \in rows' : y.id # z.ext
    BY <2>1, <2>2 DEF Harmless, Descends
  <2>4. z.name \notin muddled' => z \in zone'
    BY <2>1, <1>c DEF Harmless, Untouched
  <2>5. QED BY <2>3, <2>4
<1>8. Written(request[s])'
  <2> SUFFICES ASSUME q.pc = "row", NEW x \in q.todo, x.name \notin muddled'
               PROVE  \E z \in zone' : z.ext = x.ext /\ z.content = q.ip
    BY <1>q DEF Written
  <2>1. x.name \in q.about /\ x.name \notin muddled /\ Alike(x)
    BY DEF Sound, Named, Snapshot, Known, Harmless
  <2>2. PICK z \in zone : z.ext = x.ext /\ z.content = q.ip
    BY <2>1 DEF Sound, Written
  <2>3. z.name = x.name
    BY <2>1, <2>2 DEF Alike
  <2>4. z \in zone'
    BY <2>1, <2>3, <1>c DEF Harmless, Untouched, TableInv, Typed
  <2>5. QED BY <2>2, <2>4
<1>9. Deleted(request[s])'
  <2> SUFFICES ASSUME q.pc = "remove", NEW x \in q.todo, x.name \notin muddled',
                      NEW z \in zone', z.ext = x.ext
               PROVE  FALSE
    BY <1>q DEF Deleted
  <2>1. x.name \in q.about /\ x.name \notin muddled
    BY DEF Sound, Named, Snapshot, Known, Harmless
  <2>2. z.name = x.name
    BY <1>2, <1>q DEF Alike
  <2>3. z \in zone
    BY <2>1, <2>2, <1>c DEF Harmless, Untouched
  <2>4. QED BY <2>1, <2>3 DEF Sound, Deleted
<1>10. QED
  BY <1>1, <1>2, <1>3, <1>4, <1>5, <1>6, <1>7, <1>8, <1>9 DEF Sound
-----------------------------------------------------------------------------
\* An update that may have reached the zone only is not forgotten by others.
StaysUnsure(q) ==
    \A x \in rows : ~ Known(q, x.name) /\ x.id \in unsure => x.id \in unsure'

Bystanders(r) == \A s \in Request \ {r} : request'[s] = request[s]

LEMMA OthersBacked ==
    ASSUME TableInv, NEW r \in Request, \A s \in Request : Sound(request[s]),
           Harmless(request[r]), Bystanders(r),
           NEW z \in zone', z.name \notin muddled', ~ Known(request[r], z.name),
           \A w \in zone : w.name \notin muddled => Backed(w)
    PROVE  Backed(z)'
<1>1. z \in zone /\ z.name \notin muddled
  BY DEF Harmless, Untouched
<1>2. CASE \E y \in rows : y.provider = z.provider /\ y.name = z.name /\ y.ext = z.ext
  <2>1. PICK y \in rows : y.provider = z.provider /\ y.name = z.name /\ y.ext = z.ext
    BY <1>2
  <2>2. y \in rows'
    BY <2>1 DEF Harmless, Untouched, TableInv, Typed
  <2>3. QED BY <2>1, <2>2 DEF Backed
<1>3. CASE \E s \in Request : request[s].pc = "insert" /\ z \in request[s].todo
  <2>1. PICK s \in Request : request[s].pc = "insert" /\ z \in request[s].todo
    BY <1>3
  <2>2. z.name \in request[s].about
    BY <2>1, <1>1 DEF Known, Sound, Formed, Harmless
  <2>3. s # r
    BY <2>2 DEF Known
  <2>4. QED BY <2>1, <2>3 DEF Backed, Bystanders
<1>4. QED BY <1>1, <1>2, <1>3 DEF Backed

LEMMA OthersKept ==
    ASSUME TableInv, NEW r \in Request, \A s \in Request : Sound(request[s]),
           Harmless(request[r]), Bystanders(r), StaysUnsure(request[r]),
           \A x \in rows : Alike(x),
           NEW y \in rows', y.name \notin muddled', ~ Known(request[r], y.name),
           y \in rows => Kept(y)
    PROVE  Kept(y)'
<1>1. y \in rows /\ y.name \notin muddled
  BY DEF Harmless, Untouched
<1>2. CASE \E z \in zone : z.ext = y.ext /\ (y.id \notin unsure => z.content = y.content)
  <2>1. PICK z \in zone : z.ext = y.ext /\ (y.id \notin unsure => z.content = y.content)
    BY <1>2
  <2>2. z.name = y.name
    BY <1>1, <2>1 DEF Alike
  <2>3. z \in zone'
    BY <2>2 DEF Harmless, Untouched, TableInv, Typed
  <2>4. y.id \in unsure => y.id \in unsure'
    BY <1>1 DEF StaysUnsure
  <2>5. QED BY <2>1, <2>3, <2>4 DEF Kept
<1>3. CASE \E s \in Request : request[s].pc = "remove" /\ \E x \in request[s].todo : x.id = y.id
  <2>1. PICK s \in Request : request[s].pc = "remove" /\ \E x \in request[s].todo : x.id = y.id
    BY <1>3
  <2>2. Known(request[s], y.name)
    BY <1>1, <2>1 DEF Sound, Named, Snapshot
  <2>3. s # r
    BY <2>2
  <2>4. QED BY <2>1, <2>3 DEF Kept, Bystanders
<1>4. QED BY <1>1, <1>2, <1>3 DEF Kept

LEMMA OthersHeld ==
    ASSUME TableInv, NEW r \in Request, Harmless(request[r]), Bystanders(r), StaysUnsure(request[r]),
           request'[r].about \subseteq request[r].about,
           NEW a, Held(a)
    PROVE  Held(a)'
<1> SUFFICES ASSUME a.name \notin muddled'
             PROVE  /\ \A s \in Request : a.name \notin request'[s].about
                    /\ Settled(a.provider, a.name)' =>
                         Recorded(a.provider, a.name)' = IF a.gone THEN {} ELSE {a.ip}
  BY DEF Held
<1>1. a.name \notin muddled /\ \A s \in Request : a.name \notin request[s].about
  BY DEF Held, Harmless
<1>2. ~ Known(request[r], a.name)
  BY <1>1 DEF Known
<1>3. \A s \in Request : a.name \notin request'[s].about
  BY <1>1 DEF Bystanders
<1>4. \A x : x.name = a.name => (x \in rows' <=> x \in rows) /\ (x \in zone' <=> x \in zone)
  BY <1>2 DEF Harmless, Untouched, TableInv, Typed
<1>5. Settled(a.provider, a.name)' => Settled(a.provider, a.name)
  BY <1>2, <1>4 DEF Settled, StaysUnsure
<1>6. Recorded(a.provider, a.name)' = Recorded(a.provider, a.name)
  <2>1. {y \in zone' : y.provider = a.provider /\ y.name = a.name}
        = {y \in zone : y.provider = a.provider /\ y.name = a.name}
    BY <1>4
  <2>2. QED BY <2>1 DEF Recorded
<1>7. QED BY <1>1, <1>3, <1>5, <1>6 DEF Held

LEMMA ApartStep ==
    ASSUME Apart, NEW r \in Request, Bystanders(r), muddled \subseteq muddled',
           request'[r].about \subseteq request[r].about
    PROVE  Apart'
<1> SUFFICES ASSUME NEW s \in Request, NEW t \in Request, s # t,
                    request'[s].about \cap request'[t].about # {}
             PROVE  request'[s].about \cup request'[t].about \subseteq muddled'
  BY DEF Apart
<1>1. /\ request'[s].about \subseteq request[s].about
      /\ request'[t].about \subseteq request[t].about
  BY DEF Bystanders
<1>2. QED BY <1>1 DEF Apart

\* What a request holds is what it has read: of rows, whose numbers are taken.
LEMMA ReservedStep ==
    ASSUME TableInv, \A s \in Request : Sound(request[s]), NEW r \in Request, Bystanders(r),
           request'[r].pc # "insert",
           request'[r].pc \in Snapshot =>
             \A x \in request'[r].todo : x \in rows \/ (request[r].pc \in Snapshot /\ x \in request[r].todo)
    PROVE  Reserved'
<1> SUFFICES ASSUME NEW s \in Request, NEW t \in Request, request'[s].pc = "insert", s # t,
                    NEW z \in request'[s].todo, NEW x \in request'[t].todo
             PROVE  /\ request'[t].pc \in Snapshot => x.id # z.ext
                    /\ request'[t].pc = "insert" => x.ext # z.ext
  BY DEF Reserved
<1>1. s # r /\ request[s].pc = "insert" /\ z \in request[s].todo
  BY DEF Bystanders
<1>2. CASE t # r
  BY <1>1, <1>2 DEF Bystanders, TableInv, Reserved
<1>3. CASE t = r
  BY <1>1, <1>3 DEF TableInv, Reserved, Sound, Standing
<1>4. QED BY <1>2, <1>3

LEMMA CountedStep ==
    ASSUME TableInv, NEW r \in Request, Bystanders(r), made' = made,
           request[r].pc \in {"insert", "done"} => request'[r].pc \in {"insert", "done"}
    PROVE  Counted'
<1>1. Past \subseteq Past' /\ Past' \subseteq Request /\ IsFiniteSet(Request)
  BY DnsAssumption DEF Past, Bystanders
<1>2. IsFiniteSet(Past') /\ IsFiniteSet(Past)
  BY <1>1, FS_Subset
<1>3. Cardinality(Past) <= Cardinality(Past')
  BY <1>1, <1>2, FS_Subset
<1>4. Cardinality(Past) \in Nat /\ Cardinality(Past') \in Nat
  BY <1>2, FS_CardinalityType
<1>5. QED BY <1>3, <1>4 DEF Counted, TableInv, Typed
-----------------------------------------------------------------------------
\* What a step of request r has to keep itself.
Carries(r) ==
    /\ Harmless(request[r]) /\ StaysUnsure(request[r]) /\ Bystanders(r)
    /\ request'[r].about \subseteq request[r].about
    /\ Typed' /\ Counted' /\ Numbered' /\ Unique' /\ Reserved'
    /\ Sound(request[r])'
    /\ \A x \in rows' : Alike(x)'
    /\ \A z \in zone' : z.name \notin muddled' /\ z.name \in request[r].about => Backed(z)'
    /\ \A y \in rows' :
         y.node # NoNode /\ y.name \notin muddled' /\ y.name \in request[r].about => Kept(y)'
    /\ \A a \in answers' \ answers : a.name \in Name /\ Held(a)'

LEMMA CarriesStep ==
    ASSUME DnsInv, NEW r \in Request, Carries(r)
    PROVE  DnsInv'
<1>1. TableInv /\ (\A s \in Request : Sound(request[s])) /\ \A x \in rows : Alike(x)
  BY DEF DnsInv
<1>2. TableInv'
  BY <1>1, ApartStep DEF Carries, Harmless, TableInv
<1>3. \A s \in Request : Sound(request[s])'
  BY <1>1, OthersSound DEF Carries, Bystanders
<1>4. ASSUME NEW z \in zone', z.name \notin muddled' PROVE Backed(z)'
  <2>1. CASE Known(request[r], z.name)
    BY <1>4, <2>1 DEF Known, Carries, Harmless
  <2>2. CASE ~ Known(request[r], z.name)
    BY <1>1, <1>4, <2>2, OthersBacked DEF DnsInv, Carries
  <2>3. QED BY <2>1, <2>2
<1>5. ASSUME NEW y \in rows', y.node # NoNode, y.name \notin muddled' PROVE Kept(y)'
  <2>1. CASE Known(request[r], y.name)
    BY <1>5, <2>1 DEF Known, Carries, Harmless
  <2>2. CASE ~ Known(request[r], y.name)
    <3>1. y \in rows => Kept(y)
      BY <1>5 DEF DnsInv, Carries, Harmless
    <3>2. QED BY <1>1, <1>5, <2>2, <3>1, OthersKept DEF Carries
  <2>3. QED BY <2>1, <2>2
<1>6. ASSUME NEW a \in answers' PROVE a.name \in Name /\ Held(a)'
  <2>1. CASE a \in answers
    BY <1>1, <2>1, OthersHeld DEF DnsInv, Carries
  <2>2. CASE a \notin answers
    BY <1>6, <2>2 DEF Carries
  <2>3. QED BY <2>1, <2>2
<1>7. \A x \in rows' : Alike(x)'
  BY DEF Carries
<1>8. QED BY <1>2, <1>3, <1>4, <1>5, <1>6, <1>7 DEF DnsInv

\* Steps after which the tables are as before.
Still == UNCHANGED <<rows, zone, made, unsure>> /\ muddled \subseteq muddled'

LEMMA StillHarmless ==
    ASSUME TableInv, Still, NEW q
    PROVE  Harmless(q) /\ StaysUnsure(q)
<1>1. StaysAlike
  BY DEF StaysAlike, Still, Alike
<1>2. Untouched(q) /\ Descends(q) /\ StaysUnsure(q)
  BY DEF Untouched, Descends, StaysUnsure, Still
<1>3. QED BY <1>1, <1>2 DEF Harmless, Still, TableInv, Typed

\* Such a step, unless it drops an entry without a row or the reverse.
LEMMA StillCarries ==
    ASSUME DnsInv, NEW r \in Request, Still, Bystanders(r), Typed', Reserved',
           request'[r].about \subseteq request[r].about, Sound(request[r])',
           request[r].pc \in {"insert", "done"} => request'[r].pc \in {"insert", "done"},
           request[r].pc \in {"insert", "remove"} => request[r].about \subseteq muddled',
           \A a \in answers' \ answers : a.name \in Name /\ Held(a)'
    PROVE  DnsInv'
<1> USE DEF Still
<1>1. TableInv /\ (\A s \in Request : Sound(request[s])) /\ \A x \in rows : Alike(x)
  BY DEF DnsInv
<1>2. Harmless(request[r]) /\ StaysUnsure(request[r]) /\ Counted'
  BY <1>1, StillHarmless, CountedStep
<1>3. Numbered' /\ Unique'
  BY <1>1 DEF TableInv, Numbered, Unique
<1>4. \A x \in rows' : Alike(x)'
  BY <1>1, <1>2 DEF Harmless, StaysAlike, TableInv, Numbered, Typed
<1>5. ASSUME NEW z \in zone', z.name \notin muddled', z.name \in request[r].about PROVE Backed(z)'
  <2>1. request[r].pc # "insert"
    BY <1>5
  <2>2. Backed(z)
    BY <1>5 DEF DnsInv
  <2>3. QED BY <2>1, <2>2 DEF Backed, Bystanders
<1>6. ASSUME NEW y \in rows', y.node # NoNode, y.name \notin muddled', y.name \in request[r].about
      PROVE  Kept(y)'
  <2>1. request[r].pc # "remove"
    BY <1>6
  <2>2. Kept(y)
    BY <1>6 DEF DnsInv
  <2>3. QED BY <2>1, <2>2 DEF Kept, Bystanders
<1>7. Carries(r)
  BY <1>2, <1>3, <1>4, <1>5, <1>6 DEF Carries
<1>8. QED BY <1>7, CarriesStep
-----------------------------------------------------------------------------
(* Steps of requests that read.                                            *)

LEMMA Moves ==
    ASSUME TableInv, NEW r \in Request, NEW q \in RequestType, Goto(r, q)
    PROVE  /\ request'[r] = q /\ Bystanders(r)
           /\ request' \in [Request -> RequestType]
BY DEF TableInv, Typed, Goto, Bystanders

LEMMA DoneShape ==
    /\ Done = [pc |-> "done", op |-> "none", about |-> {}, provider |-> {}, node |-> NoNode,
               name |-> {}, ip |-> 0, todo |-> {}]
    /\ Done \in RequestType
<1>1. 0 \in 0..MaxAddr
  BY DnsAssumption
<1>2. QED BY <1>1 DEF Done, Idle, RequestType, Early, Snapshot

\* Where an adapter writes a name is a name.
LEMMA PlaceName ==
    ASSUME NEW p, NEW d \in Name
    PROVE  Place(p, d) \in Name
BY DnsAssumption DEF Place

LEMMA DoneSound ==
    ASSUME NEW r \in Request, request'[r] = Done
    PROVE  Sound(request[r])'
BY DoneShape DEF Sound, Formed, Named, Confined, Listing, Followed, Standing, Written, Deleted,
   Early, Snapshot

\* What was just read is true.
LEMMA ReadSound ==
    ASSUME DnsInv, Still, NEW r \in Request, NEW q \in RequestType, request'[r] = q, Formed(q),
           q.pc \notin {"insert", "row", "remove"}, q.todo \subseteq rows,
           \A x \in q.todo : x.name \in q.about \/ x.name \in muddled',
           q.pc \in Early \/ q.op = "remove" =>
             \A y \in RowsOf(q.node) : y.name \in q.about \/ y.name \in muddled',
           q.op = "remove" => q.todo = RowsOf(q.node)
    PROVE  Sound(request[r])'
<1> USE DEF Still
<1>0. TableInv /\ \A x \in rows : Alike(x)
  BY DEF DnsInv
<1>1. Formed(request[r])'
  BY DEF Formed
<1>2. (\A x \in request[r].todo : x.ext <= made /\ Alike(x))'
  BY <1>0 DEF TableInv, Numbered, Alike
<1>3. Named(request[r])'
  BY <1>0 DEF Named, Known, TableInv, Numbered, Unique
<1>4. Confined(request[r])'
  BY DEF Confined, RowsOf, Known
<1>5. Listing(request[r])'
  BY <1>0 DEF Listing, RowsOf, TableInv, Unique
<1>6. Followed(request[r])'
  BY DEF Followed
<1>7. Standing(request[r])' /\ Written(request[r])' /\ Deleted(request[r])'
  BY DEF Standing, Written, Deleted
<1>8. QED BY <1>1, <1>2, <1>3, <1>4, <1>5, <1>6, <1>7 DEF Sound

\* A request that reads on.
LEMMA ReadsOn ==
    ASSUME DnsInv, NEW r \in Request, NEW q \in RequestType, Goto(r, q), Formed(q),
           UNCHANGED <<edited, tables, muddled, unsure>>,
           request[r].pc \notin {"insert", "remove", "done"},
           q.pc \notin {"insert", "row", "remove"}, q.todo \subseteq rows, q.about \subseteq request[r].about,
           \A x \in q.todo : Known(q, x.name),
           q.pc \notin Early /\ q.op # "remove",
           \A a \in answers' \ answers : a.name \in Name /\ Held(a)'
    PROVE  DnsInv'
<1>0. TableInv /\ \A s \in Request : Sound(request[s])
  BY DEF DnsInv
<1>1. request'[r] = q /\ Bystanders(r) /\ request' \in [Request -> RequestType]
  BY <1>0, Moves
<1>2. Still
  BY DEF Still, edited, tables
<1>3. Typed'
  BY <1>0, <1>1 DEF TableInv, Typed, edited, tables, Ids
<1>4. Reserved'
  BY <1>0, <1>1, ReservedStep
<1>5. Sound(request[r])'
  BY <1>1, <1>2, ReadSound DEF Known
<1>6. QED BY <1>1, <1>2, <1>3, <1>4, <1>5, StillCarries

LEMMA EndsStill ==
    ASSUME DnsInv, NEW r \in Request, Goto(r, Done), Still, Typed',
           request[r].pc \in {"insert", "remove"} => request[r].about \subseteq muddled',
           \A a \in answers' \ answers : a.name \in Name /\ Held(a)'
    PROVE  DnsInv'
<1>0. TableInv /\ \A s \in Request : Sound(request[s])
  BY DEF DnsInv
<1>1. request'[r] = Done /\ Bystanders(r)
  BY <1>0, Moves, DoneShape
<1>2. Reserved'
  BY <1>0, <1>1, ReservedStep, DoneShape
<1>3. Sound(request[r])'
  BY <1>1, DoneSound
<1>4. QED BY <1>1, <1>2, <1>3, DoneShape, StillCarries

LEMMA ReadProviderStep ==
    ASSUME DnsInv, NEW r \in Request, ReadProvider(r)
    PROVE  DnsInv'
<1> DEFINE q == request[r]
<1>0. TableInv /\ Formed(q) /\ q \in RequestType /\ q.pc = "provider"
  BY DEF DnsInv, TableInv, Typed, Sound, ReadProvider
<1>1. UNCHANGED <<edited, tables, muddled, unsure>> /\ answers' = answers
  BY DEF ReadProvider, history
<1>2. CASE Goto(r, Done)
  <2>1. Still /\ request' \in [Request -> RequestType]
    BY <1>0, <1>1, <1>2, Moves, DoneShape DEF Still, tables
  <2>2. Typed'
    BY <1>0, <1>1, <2>1 DEF TableInv, Typed, edited, tables, Ids
  <2>3. QED BY <1>0, <1>1, <1>2, <2>1, <2>2, EndsStill
<1>3. ASSUME NEW p \in default, Goto(r, [q EXCEPT !.pc = "find", !.provider = {p}])
      PROVE  DnsInv'
  <2> DEFINE f == [q EXCEPT !.pc = "find", !.provider = {p}]
  <2>1. /\ f.pc = "find" /\ f.provider = {p} /\ f.about = q.about /\ f.todo = q.todo /\ f.ip = q.ip
        /\ f.node = q.node /\ f.name = q.name /\ f.op = q.op /\ f \in RequestType
    BY <1>0, <1>3 DEF RequestType, TableInv, Typed, Early
  <2>2. Formed(f)
    BY <1>0, <2>1 DEF Formed, Early, Snapshot, Singleton
  <2>3. request'[r] = f /\ Bystanders(r) /\ request' \in [Request -> RequestType]
    BY <1>0, <1>3, <2>1, Moves
  <2>4. Still
    BY <1>1 DEF Still, tables
  <2>5. Typed'
    BY <1>0, <1>1, <2>3 DEF TableInv, Typed, edited, tables, Ids
  <2>6. Reserved'
    BY <2>1, <2>3, ReservedStep DEF DnsInv, Snapshot
  <2>7. f.todo = {}
    BY <2>1, <2>2 DEF Formed, Snapshot
  <2>8. \A y \in RowsOf(f.node) : y.name \in f.about \/ y.name \in muddled'
    BY <1>0, <1>1, <2>1 DEF DnsInv, Sound, Confined, Early, Known
  <2>9. Sound(request[r])'
    BY <1>0, <2>1, <2>2, <2>3, <2>4, <2>7, <2>8, ReadSound DEF Formed
  <2>10. QED BY <1>0, <1>1, <2>1, <2>3, <2>4, <2>5, <2>6, <2>9, StillCarries
<1>4. QED BY <1>2, <1>3 DEF ReadProvider
\* While a request is at work on a name that is not muddled, the entries of
\* the name are those of its row.
LEMMA OneEntry ==
    ASSUME DnsInv, NEW r \in Request, NEW x \in rows, NEW z \in zone,
           x.name \in request[r].about, x.name \notin muddled, request[r].pc # "insert",
           z.provider = x.provider, z.name = x.name
    PROVE  z.ext = x.ext
<1>1. CASE \E y \in rows : y.provider = z.provider /\ y.name = z.name /\ y.ext = z.ext
  BY <1>1 DEF DnsInv, TableInv, Unique
<1>2. CASE \E s \in Request : request[s].pc = "insert" /\ z \in request[s].todo
  <2>1. PICK s \in Request : request[s].pc = "insert" /\ z \in request[s].todo
    BY <1>2
  <2>2. z.name \in request[s].about /\ s # r
    BY <2>1 DEF DnsInv, Sound, Formed
  <2>3. QED BY <2>2, Meeting DEF DnsInv, TableInv, Apart
<1>3. QED BY <1>1, <1>2 DEF DnsInv, Backed

\* The record that ensureNodeDomain finds as it should be is so in the zone.
LEMMA FoundHeld ==
    ASSUME DnsInv, NEW r \in Request, request[r].pc = "find", Goto(r, Done),
           UNCHANGED <<tables, muddled, unsure>>,
           NEW x \in RowsOf(request[r].node), x.provider \in request[r].provider, x.content = request[r].ip,
           NEW a, a = Returned(request[r], x)
    PROVE  Held(a)'
<1> DEFINE q == request[r]
<1>0. TableInv /\ Sound(q) /\ q \in RequestType /\ x \in rows /\ x.node = q.node
  BY DEF DnsInv, TableInv, Typed, RowsOf
<1>1. a.name = x.name /\ a.provider = x.provider /\ a.gone = FALSE /\ a.ip = q.ip
  BY DEF Returned
<1> SUFFICES ASSUME x.name \notin muddled
             PROVE  /\ \A s \in Request : x.name \notin request'[s].about
                    /\ Settled(x.provider, x.name) => Recorded(x.provider, x.name) = {q.ip}
  BY <1>1 DEF Held, tables, Settled, Recorded
<1>2. x.name \in q.about /\ q.node \in Node /\ NoNode \notin Node
  BY <1>0, DnsAssumption DEF Sound, Confined, Early, Known, Formed
<1>3. request'[r] = Done /\ Bystanders(r)
  BY <1>0, Moves, DoneShape
<1>4. \A s \in Request : x.name \notin request'[s].about
  BY <1>0, <1>2, <1>3, DoneShape, Meeting DEF Bystanders, TableInv, Apart
<1>5. ASSUME x.id \notin unsure PROVE Recorded(x.provider, x.name) = {q.ip}
  <2>1. Kept(x)
    BY <1>0, <1>2 DEF DnsInv
  <2>2. \A s \in Request : request[s].pc = "remove" => \A y \in request[s].todo : y.id # x.id
    <3> SUFFICES ASSUME NEW s \in Request, request[s].pc = "remove", NEW y \in request[s].todo, y.id = x.id
                 PROVE  FALSE
      OBVIOUS
    <3>1. x.name \in request[s].about /\ s # r
      BY <1>0 DEF DnsInv, Sound, Named, Snapshot, Known
    <3>2. QED BY <1>0, <1>2, <3>1, Meeting DEF TableInv, Apart
  <2>3. PICK z \in zone : z.ext = x.ext /\ z.content = x.content
    BY <1>5, <2>1, <2>2 DEF Kept
  <2>4. z.provider = x.provider /\ z.name = x.name
    BY <1>0, <2>3 DEF DnsInv, Alike
  <2>5. \A w \in zone : w.provider = x.provider /\ w.name = x.name => w = z
    BY <1>0, <1>2, <2>3, OneEntry DEF TableInv, Unique
  <2>6. {w \in zone : w.provider = x.provider /\ w.name = x.name} = {z}
    BY <2>4, <2>5
  <2>7. QED BY <2>3, <2>6 DEF Recorded
<1>6. QED BY <1>0, <1>4, <1>5 DEF Settled

LEMMA FindStep ==
    ASSUME DnsInv, NEW r \in Request, Find(r)
    PROVE  DnsInv'
<1> DEFINE q == request[r]
<1>0. TableInv /\ Formed(q) /\ q \in RequestType /\ q.pc = "find"
  BY DEF DnsInv, TableInv, Typed, Sound, Find
<1>1. UNCHANGED <<edited, tables, muddled, unsure>>
  BY DEF Find
<1>2. CASE Goto(r, [q EXCEPT !.pc = "create"]) /\ answers' = answers
  <2> DEFINE f == [q EXCEPT !.pc = "create"]
  <2>1. /\ f.pc = "create" /\ f.provider = q.provider /\ f.about = q.about /\ f.todo = q.todo /\ f.ip = q.ip
        /\ f.node = q.node /\ f.name = q.name /\ f.op = q.op /\ f \in RequestType
    BY <1>0 DEF RequestType
  <2>2. Formed(f) /\ f.todo = {}
    BY <1>0, <2>1 DEF Formed, Early, Snapshot, Singleton
  <2> HIDE DEF f
  <2>3. f.pc \notin Early /\ f.op # "remove"
    BY <2>1, <2>2 DEF Formed, Early
  <2>4. QED BY <1>0, <1>1, <1>2, <2>1, <2>2, <2>3, ReadsOn DEF f
<1>3. ASSUME NEW x \in RowsOf(q.node), x.provider \in q.provider,
             x.content = q.ip, Goto(r, Done), answers' = answers \cup {Returned(q, x)}
      PROVE  DnsInv'
  <2>1. Still /\ request' \in [Request -> RequestType]
    BY <1>0, <1>1, <1>3, Moves, DoneShape DEF Still, tables
  <2>2. Typed'
    BY <1>0, <1>1, <2>1 DEF TableInv, Typed, edited, tables, Ids
  <2>3. \A a : a = Returned(q, x) => Held(a)'
    BY <1>0, <1>1, <1>3, FoundHeld
  <2>4. Returned(q, x).name \in Name
    BY <1>0, <1>3 DEF Returned, RowsOf, TableInv, Typed, Row
  <2>5. QED BY <1>0, <1>1, <1>3, <2>1, <2>2, <2>3, <2>4, EndsStill
<1>4. ASSUME NEW x \in RowsOf(q.node), x.provider \in q.provider,
             Goto(r, [q EXCEPT !.pc = "read", !.todo = {x}]), answers' = answers
      PROVE  DnsInv'
  <2> DEFINE f == [q EXCEPT !.pc = "read", !.todo = {x}]
  <2>1. x \in rows /\ x \in Row /\ Known(q, x.name)
    BY <1>0 DEF RowsOf, TableInv, Typed, DnsInv, Sound, Confined, Early
  <2>2. /\ f.pc = "read" /\ f.provider = q.provider /\ f.about = q.about /\ f.todo = {x} /\ f.ip = q.ip
        /\ f.node = q.node /\ f.name = q.name /\ f.op = q.op /\ f \in RequestType
    BY <1>0, <2>1 DEF RequestType, Snapshot
  <2>3. Formed(f)
    BY <1>0, <2>1, <2>2 DEF Formed, Early, Snapshot, Singleton
  <2> HIDE DEF f
  <2>4. f.pc \notin Early /\ f.op # "remove"
    BY <2>2, <2>3 DEF Formed, Early
  <2>5. QED BY <1>0, <1>1, <1>4, <2>1, <2>2, <2>3, <2>4, ReadsOn DEF f, Known
<1>5. QED BY <1>2, <1>3, <1>4 DEF Find, Current

LEMMA ReadRowStep ==
    ASSUME DnsInv, NEW r \in Request, ReadRow(r)
    PROVE  DnsInv'
<1> DEFINE q == request[r]
           now == {x \in rows : \E y \in q.todo : x.id = y.id}
<1>0. TableInv /\ Sound(q) /\ q \in RequestType /\ q.pc = "read"
  BY DEF DnsInv, TableInv, Typed, ReadRow
<1>1. UNCHANGED <<edited, tables, muddled, unsure>> /\ answers' = answers
  BY DEF ReadRow, history
<1>2. CASE Goto(r, Done)
  <2>1. Still /\ request' \in [Request -> RequestType]
    BY <1>0, <1>1, <1>2, Moves, DoneShape DEF Still, tables
  <2>2. Typed'
    BY <1>0, <1>1, <2>1 DEF TableInv, Typed, edited, tables, Ids
  <2>3. QED BY <1>0, <1>1, <1>2, <2>1, <2>2, EndsStill
<1>3. CASE now # {} /\ Goto(r, [q EXCEPT !.pc = "zone", !.todo = now])
  <2> DEFINE f == [q EXCEPT !.pc = "zone", !.todo = now]
  <2>1. PICK x \in q.todo : q.todo = {x}
    BY <1>0 DEF Sound, Formed, Singleton
  <2>2. now \subseteq rows /\ now \subseteq Row /\ \A y \in now : y.id = x.id
    BY <1>0, <2>1 DEF TableInv, Typed
  <2>3. Singleton(now) /\ \A y \in now : Known(q, y.name)
    BY <1>0, <1>3, <2>2 DEF Singleton, TableInv, Unique, Sound, Named, Snapshot
  <2> HIDE DEF now
  <2>4. /\ f.pc = "zone" /\ f.provider = q.provider /\ f.about = q.about /\ f.todo = now /\ f.ip = q.ip
        /\ f.node = q.node /\ f.name = q.name /\ f.op = q.op /\ f \in RequestType
    BY <1>0, <2>2 DEF RequestType, Snapshot
  <2>5. Formed(f)
    BY <1>0, <2>2, <2>3, <2>4 DEF Formed, Early, Snapshot, Sound
  <2> HIDE DEF f
  <2>6. f.pc \notin Early /\ f.op # "remove"
    BY <2>4, <2>5 DEF Formed, Early
  <2>7. QED BY <1>0, <1>1, <1>3, <2>2, <2>3, <2>4, <2>5, <2>6, ReadsOn DEF f, Known
<1>4. QED BY <1>2, <1>3 DEF ReadRow

LEMMA SetDefaultStep ==
    ASSUME DnsInv, NEW r \in Request, SetDefault(r)
    PROVE  DnsInv'
<1>0. TableInv /\ request[r] \in RequestType /\ request[r].pc = "set" /\ Goto(r, Done)
  BY DEF DnsInv, TableInv, Typed, SetDefault
<1>1. Still /\ UNCHANGED <<node, changes, muddled, answers>> /\ default' = default \cup request[r].provider
  BY DEF SetDefault, Still, edited, history
<1>2. request' \in [Request -> RequestType] /\ request[r].provider \subseteq Provider
  BY <1>0, Moves, DoneShape DEF RequestType
<1>3. Typed'
  BY <1>0, <1>1, <1>2 DEF TableInv, Typed, Still, Ids
<1>4. QED BY <1>0, <1>1, <1>3, EndsStill

LEMMA DieStep ==
    ASSUME DnsInv, NEW r \in Request, Die(r)
    PROVE  DnsInv'
<1>0. TableInv /\ request[r] \in RequestType /\ Goto(r, Done)
  BY DEF DnsInv, TableInv, Typed, Die
<1>1. /\ UNCHANGED <<edited, tables, answers, unsure>>
      /\ muddled' = IF request[r].pc \in {"insert", "remove"} THEN muddled \cup request[r].about ELSE muddled
  BY DEF Die
<1>2. Still
  BY <1>1 DEF Still, tables
<1>3. request' \in [Request -> RequestType] /\ request[r].about \subseteq Mark
  BY <1>0, Moves, DoneShape DEF RequestType
<1>4. Typed'
  BY <1>0, <1>1, <1>3 DEF TableInv, Typed, edited, tables, Ids
<1>5. QED BY <1>0, <1>1, <1>2, <1>4, EndsStill
-----------------------------------------------------------------------------
(* Steps that begin a request.                                             *)

\* A request that begins muddles what it shares with others, and takes the
\* answers it may change.
Begun(r, f) ==
    LET others == {s \in Request : Active(s) /\ request[s].about \cap f.about # {}}
    IN  /\ request[r].pc = "idle" /\ request' = [request EXCEPT ![r] = f]
        /\ \A a \in answers' : a \in answers /\ a.name \notin f.about
        /\ muddled' = IF others = {} THEN muddled
                      ELSE muddled \cup f.about \cup UNION {request[s].about : s \in others}
        /\ UNCHANGED <<node, unsure>>

LEMMA StartBegins ==
    ASSUME NEW r \in Request, NEW q, NEW about, Starts(r, q, about),
           [q EXCEPT !.about = about].about = about
    PROVE  Begun(r, [q EXCEPT !.about = about])
<1> DEFINE f == [q EXCEPT !.about = about]
<1>1. \A a \in answers' : a \in answers /\ a.name \notin f.about
  BY DEF Starts
<1>2. QED BY <1>1 DEF Starts, Begun

LEMMA StartCarries ==
    ASSUME DnsInv, NEW r \in Request, NEW f \in RequestType, Begun(r, f),
           UNCHANGED <<rows, zone, made>>, default' \subseteq Provider, changes' \in 0..MaxChanges,
           Formed(f), f.pc \notin {"insert", "row", "remove"}, f.todo \subseteq rows,
           \A x \in f.todo : x.name \in f.about,
           f.pc \in Early \/ f.op = "remove" => \A y \in RowsOf(f.node) : y.name \in f.about,
           f.op = "remove" => f.todo = RowsOf(f.node)
    PROVE  DnsInv'
<1> DEFINE about == f.about
           others == {s \in Request : Active(s) /\ request[s].about \cap about # {}}
<1>0. TableInv /\ (\A s \in Request : Sound(request[s])) /\ \A x \in rows : Alike(x)
  BY DEF DnsInv
<1>1. /\ request[r].pc = "idle" /\ request' = [request EXCEPT ![r] = f]
      /\ \A a \in answers' : a \in answers /\ a.name \notin about
      /\ muddled' = IF others = {} THEN muddled
                    ELSE muddled \cup about \cup UNION {request[s].about : s \in others}
      /\ UNCHANGED <<node, unsure>>
  BY DEF Begun
<1>a. about \subseteq Mark
  BY DEF RequestType
<1>2. request'[r] = f /\ Bystanders(r) /\ request' \in [Request -> RequestType]
  BY <1>0, <1>1, Moves DEF Goto
<1>3. request[r].about = {} /\ request[r].todo = {}
  BY <1>0, <1>1 DEF Sound, Formed, Snapshot
<1>4. muddled \subseteq muddled' /\ muddled' \subseteq Mark
  <2>1. \A s \in Request : request[s].about \subseteq Mark
    BY <1>0 DEF TableInv, Typed, RequestType
  <2>2. QED BY <1>0, <1>1, <1>a, <2>1 DEF TableInv, Typed
<1>5. Still
  BY <1>1, <1>4 DEF Still
<1>6. Typed'
  BY <1>0, <1>1, <1>2, <1>4 DEF TableInv, Typed, Ids
<1>7. Apart'
  <2>1. ASSUME NEW s \in Request, s # r, request[s].about \cap about # {}
        PROVE  request[s].about \cup about \subseteq muddled'
    <3>1. s \in others
      BY <1>0, <2>1 DEF Sound, Formed, Active
    <3>2. request[s].about \in {request[t].about : t \in others}
      BY <3>1
    <3>3. QED BY <1>1, <3>1, <3>2
  <2>2. \A s \in Request : s # r => request'[s] = request[s]
    BY <1>2 DEF Bystanders
  <2>3. QED BY <1>0, <1>2, <1>4, <2>1, <2>2 DEF Apart, TableInv
<1>8. Reserved' /\ Counted'
  BY <1>0, <1>1, <1>2, ReservedStep, CountedStep
<1>9. TableInv'
  BY <1>0, <1>5, <1>6, <1>7, <1>8 DEF TableInv, Numbered, Unique, Still
<1>10. Harmless(request[r])
  BY <1>0, <1>5, StillHarmless
<1>11. Sound(request[r])'
  BY <1>2, <1>5, ReadSound
<1>12. \A s \in Request : Sound(request[s])'
  BY <1>0, <1>2, <1>10, <1>11, OthersSound DEF Bystanders
<1>13. \A x \in rows' : Alike(x)'
  BY <1>0, <1>5 DEF Alike, Still
<1>14. ASSUME NEW z \in zone', z.name \notin muddled' PROVE Backed(z)'
  <2>1. Backed(z)
    BY <1>4, <1>14 DEF DnsInv
  <2>2. QED BY <1>1, <1>2, <2>1 DEF Backed, Bystanders
<1>15. ASSUME NEW y \in rows', y.node # NoNode, y.name \notin muddled' PROVE Kept(y)'
  <2>1. Kept(y)
    BY <1>4, <1>15 DEF DnsInv
  <2>2. QED BY <1>1, <1>2, <1>5, <2>1 DEF Kept, Bystanders, Still
<1>16. ASSUME NEW a \in answers' PROVE a.name \in Name /\ Held(a)'
  <2>1. a \in answers /\ a.name \notin about
    BY <1>1
  <2>2. a.name \in Name /\ Held(a)
    BY <2>1 DEF DnsInv
  <2>3. QED BY <1>2, <1>4, <1>5, <2>1, <2>2 DEF Held, Bystanders, Still, Settled, Recorded
<1>17. QED BY <1>9, <1>12, <1>13, <1>14, <1>15, <1>16 DEF DnsInv

LEMMA IdleShape ==
    /\ Idle \in RequestType
    /\ Idle.pc = "idle" /\ Idle.op = "none" /\ Idle.about = {} /\ Idle.provider = {}
    /\ Idle.node = NoNode /\ Idle.name = {} /\ Idle.ip = 0 /\ Idle.todo = {}
BY DnsAssumption DEF Idle, RequestType, Early, Snapshot

LEMMA AboutNames ==
    ASSUME Typed, NEW xs \in SUBSET rows
    PROVE  About(xs) \subseteq Mark /\ \A x \in xs : x.name \in About(xs)
<1>1. \A x \in xs : x.name \in Name /\ x.node \in Node \cup {NoNode}
  BY DEF Typed, Row
<1>2. QED BY <1>1, DnsAssumption DEF About, Mark

LEMMA EnsureStep ==
    ASSUME DnsInv, NEW r \in Request, NEW n \in Node, Ensure(r, n)
    PROVE  DnsInv'
<1> DEFINE q == [Idle EXCEPT !.pc = "provider", !.op = "ensure", !.node = n,
                    !.ip = node[n].addr, !.name = {node[n].name}]
           about == {n, node[n].name} \cup About(RowsOf(n))
           f == [q EXCEPT !.about = about]
<1>0. Typed /\ node[n].addr \in 1..MaxAddr /\ node[n].name \in Name
  BY DnsAssumption DEF DnsInv, TableInv, Typed, Ensure
<1>1. RowsOf(n) \subseteq rows
  BY DEF RowsOf
<1>2. about \subseteq Mark /\ \A y \in RowsOf(n) : y.name \in about
  BY <1>0, <1>1, AboutNames DEF Mark
<1>3. Starts(r, q, about) /\ UNCHANGED <<changes, tables>>
  BY DEF Ensure, Begin
<1> HIDE DEF about
<1>m. about \in SUBSET Mark /\ {node[n].name} \in SUBSET Name /\ node[n].addr \in 0..MaxAddr
      /\ n \in Node \cup {NoNode}
  BY <1>0, <1>2, DnsAssumption
<1>4. /\ f.pc = "provider" /\ f.op = "ensure" /\ f.about = about /\ f.provider = {} /\ f.node = n
      /\ f.name = {node[n].name} /\ f.ip = node[n].addr /\ f.todo = {} /\ f \in RequestType
  BY <1>m, IdleShape DEF RequestType, Early
<1>5. n \in about /\ node[n].name \in about
  BY DEF about
<1>6. Formed(f)
  BY <1>0, <1>4, <1>5 DEF Formed, Early, Snapshot, Singleton
<1> HIDE DEF f
<1>7. DnsInv'
  <2>1. default' \subseteq Provider /\ changes' \in 0..MaxChanges /\ UNCHANGED <<rows, zone, made>>
    BY <1>0, <1>3 DEF Typed, tables
  <2>2. Begun(r, f)
    BY <1>3, <1>4, StartBegins DEF f
  <2>3. QED BY <1>2, <1>4, <1>6, <2>1, <2>2, StartCarries
<1>8. QED BY <1>7

LEMMA CreateRecordStep ==
    ASSUME DnsInv, NEW r \in Request, NEW n \in Node, CreateRecord(r, n)
    PROVE  DnsInv'
<1>1. PICK p \in Provider, d \in Name, a \in 1..MaxAddr :
        Starts(r, [Idle EXCEPT !.pc = "create", !.op = "manual", !.provider = {p}, !.node = n,
                      !.name = {d}, !.ip = a], {n, d})
  BY DEF CreateRecord
<1> DEFINE q == [Idle EXCEPT !.pc = "create", !.op = "manual", !.provider = {p}, !.node = n,
                    !.name = {d}, !.ip = a]
           f == [q EXCEPT !.about = {n, d}]
<1>2. Typed /\ changes < MaxChanges /\ changes' = changes + 1 /\ UNCHANGED tables
  BY DEF DnsInv, TableInv, CreateRecord
<1>m. {n, d} \in SUBSET Mark /\ {p} \in SUBSET Provider /\ {d} \in SUBSET Name /\ a \in 0..MaxAddr
      /\ n \in Node \cup {NoNode}
  BY DnsAssumption DEF Mark
<1>3. /\ f.pc = "create" /\ f.op = "manual" /\ f.about = {n, d} /\ f.provider = {p} /\ f.node = n
      /\ f.name = {d} /\ f.ip = a /\ f.todo = {} /\ f \in RequestType
  BY IdleShape, <1>m DEF RequestType
<1>4. Formed(f)
  BY <1>3, DnsAssumption DEF Formed, Early, Snapshot, Singleton
<1>5. default' \subseteq Provider /\ changes' \in 0..MaxChanges /\ UNCHANGED <<rows, zone, made>>
  BY <1>2, DnsAssumption DEF Typed, tables
<1>6. Begun(r, f)
  BY <1>1, <1>3, StartBegins
<1> HIDE DEF f
<1>7. f.pc \notin Early
  BY <1>3 DEF Early
<1>8. QED BY <1>3, <1>4, <1>5, <1>6, <1>7, StartCarries

\* Requests of operators on rows that are there.
LEMMA OnRows ==
    ASSUME DnsInv, NEW r \in Request, NEW q \in RequestType, NEW about \in SUBSET Mark,
           Begin(r, q, about), q.pc \in {"zone", "delete", "list"}, q.todo \subseteq rows,
           \A x \in q.todo : x.name \in about,
           q.pc = "zone" => q.ip # 0 /\ Singleton(q.todo),
           q.pc = "list" => about = Mark,
           q.op # "ensure",
           q.op = "remove" => /\ q.pc = "delete" /\ q.node \in Node /\ q.node \in about
                              /\ q.todo = RowsOf(q.node)
    PROVE  DnsInv'
<1> DEFINE f == [q EXCEPT !.about = about]
<1>1. /\ f.pc = q.pc /\ f.op = q.op /\ f.about = about /\ f.provider = q.provider /\ f.node = q.node
      /\ f.name = q.name /\ f.ip = q.ip /\ f.todo = q.todo /\ f \in RequestType
  BY DEF RequestType
<1>2. Typed /\ rows \subseteq Row
  BY DEF DnsInv, TableInv, Typed
<1>3. Formed(f)
  BY <1>1, <1>2 DEF Formed, Early, Snapshot
<1>4. Starts(r, q, about) /\ UNCHANGED <<changes, tables>>
  BY DEF Begin
<1>5. default' \subseteq Provider /\ changes' \in 0..MaxChanges /\ UNCHANGED <<rows, zone, made>>
  BY <1>2, <1>4 DEF Typed, tables
<1>6. Begun(r, f)
  BY <1>1, <1>4, StartBegins
<1> HIDE DEF f
<1>7. f.pc \notin Early /\ f.pc \notin {"insert", "row", "remove"}
  BY <1>1 DEF Early
<1>8. QED BY <1>1, <1>3, <1>4, <1>5, <1>6, <1>7, StartCarries

LEMMA UpdateRecordStep ==
    ASSUME DnsInv, NEW r \in Request, UpdateRecord(r)
    PROVE  DnsInv'
<1>1. PICK x \in rows, a \in 1..MaxAddr :
        Begin(r, [Idle EXCEPT !.pc = "zone", !.op = "manual", !.todo = {x}, !.ip = a], About({x}))
  BY DEF UpdateRecord
<1> DEFINE q == [Idle EXCEPT !.pc = "zone", !.op = "manual", !.todo = {x}, !.ip = a]
<1>2. Typed /\ x \in Row
  BY DEF DnsInv, TableInv, Typed
<1>3. About({x}) \subseteq Mark /\ x.name \in About({x})
  BY <1>2, AboutNames
<1>z. a \in 0..MaxAddr /\ {x} \subseteq Row \cup Entry
  BY <1>2, DnsAssumption
<1>4. q \in RequestType /\ q.pc = "zone" /\ q.op = "manual" /\ q.todo = {x} /\ q.ip = a
  BY IdleShape, <1>z DEF RequestType, Snapshot
<1>5. Singleton({x}) /\ a # 0
  BY DnsAssumption DEF Singleton
<1> HIDE DEF q
<1>6. Begin(r, q, About({x}))
  BY <1>1 DEF q
<1>7. QED BY <1>3, <1>4, <1>5, <1>6, OnRows

LEMMA DeleteRecordStep ==
    ASSUME DnsInv, NEW r \in Request, DeleteRecord(r)
    PROVE  DnsInv'
<1>1. PICK x \in rows :
        Begin(r, [Idle EXCEPT !.pc = "delete", !.op = "manual", !.todo = {x}], About({x}))
  BY DEF DeleteRecord
<1> DEFINE q == [Idle EXCEPT !.pc = "delete", !.op = "manual", !.todo = {x}]
<1>2. Typed /\ x \in Row
  BY DEF DnsInv, TableInv, Typed
<1>3. About({x}) \subseteq Mark /\ x.name \in About({x})
  BY <1>2, AboutNames
<1>4. q \in RequestType /\ q.pc = "delete" /\ q.op = "manual" /\ q.todo = {x}
  BY IdleShape, <1>2, DnsAssumption DEF RequestType, Snapshot
<1> HIDE DEF q
<1>5. Begin(r, q, About({x}))
  BY <1>1 DEF q
<1>6. QED BY <1>3, <1>4, <1>5, OnRows

LEMMA RemoveDomainStep ==
    ASSUME DnsInv, NEW r \in Request, NEW n \in Node, RemoveDomain(r, n)
    PROVE  DnsInv'
<1> DEFINE q == [Idle EXCEPT !.pc = "delete", !.op = "remove", !.node = n, !.todo = RowsOf(n)]
           about == {n} \cup About(RowsOf(n))
<1>1. Begin(r, q, about)
  BY DEF RemoveDomain
<1>2. Typed /\ RowsOf(n) \subseteq rows /\ rows \subseteq Row
  BY DEF DnsInv, TableInv, Typed, RowsOf
<1>3. about \subseteq Mark /\ n \in about /\ \A x \in RowsOf(n) : x.name \in about
  BY <1>2, AboutNames DEF Mark
<1>4. q \in RequestType /\ q.pc = "delete" /\ q.op = "remove" /\ q.node = n /\ q.todo = RowsOf(n)
  BY IdleShape, <1>2, DnsAssumption DEF RequestType, Snapshot
<1> HIDE DEF q, about
<1>5. QED BY <1>1, <1>2, <1>3, <1>4, OnRows

LEMMA SyncStep ==
    ASSUME DnsInv, NEW r \in Request, Sync(r)
    PROVE  DnsInv'
<1> DEFINE q == [Idle EXCEPT !.pc = "list", !.op = "sync", !.todo = rows]
<1>1. Begin(r, q, Mark)
  BY DEF Sync, Mark
<1>2. Typed /\ rows \subseteq Row
  BY DEF DnsInv, TableInv, Typed
<1>3. q \in RequestType /\ q.pc = "list" /\ q.op = "sync" /\ q.todo = rows
  BY IdleShape, <1>2, DnsAssumption DEF RequestType, Snapshot
<1>4. \A x \in rows : x.name \in Mark
  BY <1>2 DEF Row, Mark
<1> HIDE DEF q
<1>5. QED BY <1>1, <1>3, <1>4, OnRows

LEMMA UnsetOthersStep ==
    ASSUME DnsInv, NEW r \in Request, NEW p \in Provider, UnsetOthers(r, p)
    PROVE  DnsInv'
<1> DEFINE q == [Idle EXCEPT !.pc = "set", !.op = "default", !.provider = {p}]
           f == [q EXCEPT !.about = {}]
<1>1. Starts(r, q, {}) /\ Typed /\ UNCHANGED <<changes, rows, zone, made>> /\ default' \subseteq default
  BY DEF DnsInv, TableInv, UnsetOthers
<1>2. /\ f.pc = "set" /\ f.op = "default" /\ f.about = {} /\ f.todo = {} /\ f \in RequestType
      /\ f = [q EXCEPT !.about = {}]
  BY IdleShape, DnsAssumption DEF RequestType
<1>3. Formed(f)
  BY <1>2 DEF Formed, Early, Snapshot
<1>4. default' \subseteq Provider /\ changes' \in 0..MaxChanges /\ f.pc \notin Early
  BY <1>1, <1>2 DEF Typed, Early
<1>6. Begun(r, f)
  BY <1>1, <1>2, StartBegins
<1> HIDE DEF f
<1>5. QED BY <1>1, <1>2, <1>3, <1>4, <1>6, StartCarries
-----------------------------------------------------------------------------
(* Steps that change the tables.                                           *)

LEMMA MadeBelow ==
    ASSUME TableInv, NEW r \in Request, request[r].pc = "create"
    PROVE  /\ made + 1 \in Ids /\ made + 1 <= Cardinality(Past \cup {r})
           /\ IsFiniteSet(Past \cup {r})
<1>1. /\ IsFiniteSet(Request) /\ Past \subseteq Request /\ r \notin Past
      /\ Past \cup {r} \subseteq Request
  BY DnsAssumption DEF Past
<1>2. IsFiniteSet(Past) /\ IsFiniteSet(Past \cup {r})
  BY <1>1, FS_Subset
<1>3. /\ Cardinality(Past \cup {r}) = Cardinality(Past) + 1
      /\ Cardinality(Past) \in Nat /\ Cardinality(Request) \in Nat
      /\ Cardinality(Past \cup {r}) <= Cardinality(Request)
  BY <1>1, <1>2, FS_AddElement, FS_CardinalityType, FS_Subset
<1>4. QED BY <1>2, <1>3 DEF TableInv, Counted, Typed, Ids

\* A record that a provider made.
LEMMA ZoneCreateStep ==
    ASSUME DnsInv, NEW r \in Request, ZoneCreate(r)
    PROVE  DnsInv'
<1> DEFINE q == request[r]
<1>z. PICK z : z = Made(q)
  OBVIOUS
<1>0. /\ TableInv /\ \A s \in Request : Sound(request[s])
      /\ Sound(q) /\ Formed(q) /\ q \in RequestType /\ q.pc = "create" /\ q.todo = {}
      /\ made \in Nat /\ rows \subseteq Row /\ zone \subseteq Entry
  BY DEF DnsInv, TableInv, Typed, Sound, ZoneCreate, Formed, Snapshot
<1>1. UNCHANGED <<node, changes, default, rows, answers, unsure>>
  BY DEF ZoneCreate, edited
<1>2. CASE Goto(r, Done) /\ UNCHANGED <<zone, made, muddled>>
  <2>1. Still /\ request' \in [Request -> RequestType]
    BY <1>0, <1>1, <1>2, Moves, DoneShape DEF Still
  <2>2. Typed'
    BY <1>0, <1>1, <1>2, <2>1 DEF TableInv, Typed, Ids
  <2>3. QED BY <1>0, <1>1, <1>2, <2>1, <2>2, EndsStill
<1>3. ASSUME zone' = zone \cup {z}, made' = made + 1,
             \/ Goto(r, [q EXCEPT !.pc = "insert", !.todo = {z}]) /\ muddled' = muddled
             \/ Goto(r, Done) /\ muddled' = muddled \cup q.about
      PROVE  DnsInv'
  <2> DEFINE f == [q EXCEPT !.pc = "insert", !.todo = {z}]
  <2>1. /\ z \in Entry /\ z.ext = made + 1 /\ z.content = q.ip
        /\ z.name \in q.name /\ z.name \in q.about
    <3>1. PICK p \in Provider : q.provider = {p}
      BY <1>0 DEF Formed, Singleton, RequestType
    <3>2. PICK d \in Name : q.name = {d} /\ d \in q.about
      BY <1>0 DEF Formed, Singleton, RequestType, Early
    <3>3. q.ip \in 1..MaxAddr
      BY <1>0, DnsAssumption DEF Formed, RequestType
    <3>4. z = [ext |-> made + 1, provider |-> p, name |-> d, at |-> Place(p, d), content |-> q.ip]
      <4>1. (CHOOSE u \in q.provider : TRUE) = p /\ (CHOOSE u \in q.name : TRUE) = d
        BY <3>1, <3>2
      <4>2. QED BY <1>z, <4>1 DEF Made
    <3>5. made + 1 \in Ids
      BY <1>0, MadeBelow
    <3>6. Place(p, d) \in Name
      BY PlaceName
    <3>7. QED BY <3>2, <3>3, <3>4, <3>5, <3>6 DEF Entry
  <2>2. /\ f.pc = "insert" /\ f.provider = q.provider /\ f.about = q.about /\ f.todo = {z} /\ f.ip = q.ip
        /\ f.node = q.node /\ f.name = q.name /\ f.op = q.op /\ f \in RequestType
    BY <1>0, <2>1 DEF RequestType
  <2> HIDE DEF f
  <2>3. /\ Bystanders(r) /\ request' \in [Request -> RequestType]
        /\ \/ request'[r] = f /\ muddled' = muddled
           \/ request'[r] = Done /\ muddled' = muddled \cup q.about
    BY <1>0, <1>3, <2>2, Moves, DoneShape DEF f
  <2>4. muddled \subseteq muddled' /\ muddled' \subseteq Mark
    BY <1>0, <2>3 DEF TableInv, Typed, RequestType
  <2>5. Typed'
    BY <1>0, <1>1, <1>3, <2>1, <2>3, <2>4 DEF TableInv, Typed, Ids
  <2>6. Counted'
    <3>1. Past' = Past \cup {r}
      BY <1>0, <2>2, <2>3, DoneShape DEF Past, Bystanders
    <3>2. QED BY <1>0, <1>3, <3>1, MadeBelow DEF Counted
  <2>7. Numbered'
    <3>1. \A w \in zone' : w.ext <= made'
      BY <1>0, <1>3, <2>1 DEF TableInv, Numbered, Entry, Ids
    <3>2. \A x \in rows' : x.id <= made' /\ x.ext <= made'
      BY <1>0, <1>1, <1>3 DEF TableInv, Numbered, Row, Ids
    <3>3. QED BY <3>1, <3>2 DEF Numbered
  <2>8. Unique'
    <3>1. \A w \in zone : w.ext # z.ext
      BY <1>0, <2>1 DEF TableInv, Numbered, Entry, Ids
    <3>2. QED BY <1>0, <1>1, <1>3, <3>1 DEF TableInv, Unique
  <2>9. \A s \in Request : \A x \in request[s].todo :
          x.ext # z.ext /\ (request[s].pc \in Snapshot => x.id # z.ext)
    <3> SUFFICES ASSUME NEW s \in Request, NEW x \in request[s].todo
                 PROVE  x.ext # z.ext /\ (request[s].pc \in Snapshot => x.id # z.ext)
      OBVIOUS
    <3>1. x \in Row \cup Entry /\ (request[s].pc \in Snapshot => x \in Row)
      BY <1>0 DEF TableInv, Typed, RequestType, Sound, Formed
    <3>2. x.ext <= made /\ (request[s].pc \in Snapshot => x.id <= made)
      BY <1>0 DEF Sound, Named
    <3>3. QED BY <1>0, <2>1, <3>1, <3>2 DEF Row, Entry, Ids
  <2>10. Reserved'
    <3> SUFFICES ASSUME NEW s \in Request, NEW t \in Request, request'[s].pc = "insert", s # t,
                        NEW w \in request'[s].todo, NEW x \in request'[t].todo
                 PROVE  /\ request'[t].pc \in Snapshot => x.id # w.ext
                        /\ request'[t].pc = "insert" => x.ext # w.ext
      BY DEF Reserved
    <3>1. CASE s = r
      BY <2>2, <2>3, <2>9, <3>1, DoneShape DEF Bystanders
    <3>2. CASE t = r
      BY <2>2, <2>3, <2>9, <3>2, DoneShape DEF Bystanders, Snapshot
    <3>3. CASE s # r /\ t # r
      BY <1>0, <2>3, <3>3 DEF Bystanders, TableInv, Reserved
    <3>4. QED BY <3>1, <3>2, <3>3
  <2>11. StaysAlike
    <3> SUFFICES ASSUME NEW x \in Row \cup Entry, Alike(x), x.ext <= made
                 PROVE  Alike(x)'
      BY DEF StaysAlike
    <3>1. x.ext # z.ext
      BY <1>0, <2>1 DEF Row, Entry, Ids
    <3>2. QED BY <1>3, <2>4, <3>1 DEF Alike
  <2>12. Harmless(q) /\ StaysUnsure(q)
    <3>1. Untouched(q)
      BY <1>1, <1>3, <2>1 DEF Untouched, Known
    <3>2. Descends(q)
      BY <1>1 DEF Descends
    <3>3. made' \in Nat /\ made <= made'
      BY <1>0, <1>3
    <3>4. QED BY <1>1, <2>4, <2>5, <2>11, <3>1, <3>2, <3>3 DEF Harmless, StaysUnsure, Typed
  <2>13. Sound(request[r])'
    <3>1. CASE request'[r] = Done
      BY <3>1, DoneSound
    <3>2. CASE request'[r] = f
      <4>1. Formed(request[r])'
        BY <1>0, <2>1, <2>2, <3>2 DEF Formed, Early, Snapshot, Singleton
      <4>2. (\A x \in request[r].todo : x.ext <= made /\ Alike(x))'
        <5>1. \A w \in zone' : w.ext = z.ext => w = z
          BY <1>0, <1>3, <2>1 DEF TableInv, Numbered, Entry, Ids
        <5>2. Alike(z)'
          BY <5>1 DEF Alike
        <5>4. z.ext <= made'
          BY <1>0, <1>3, <2>1
        <5>3. QED BY <2>2, <3>2, <5>2, <5>4
      <4>3. \A y \in rows' : y.id # z.ext
        BY <1>0, <1>1, <2>1 DEF TableInv, Numbered, Row, Ids
      <4>4. Standing(request[r])'
        BY <1>3, <2>2, <3>2, <4>3 DEF Standing
      <4>5. f.op # "remove"
        BY <1>0, <2>2 DEF Formed
      <4>6. QED
        BY <2>2, <3>2, <4>1, <4>2, <4>4, <4>5
        DEF Sound, Named, Confined, Listing, Followed, Written, Deleted, Snapshot, Early
    <3>3. QED BY <2>3, <3>1, <3>2
  <2>14. \A x \in rows' : Alike(x)'
    BY <1>0, <1>1, <2>11 DEF DnsInv, StaysAlike, TableInv, Numbered
  <2>15. ASSUME NEW w \in zone', w.name \notin muddled', w.name \in q.about PROVE Backed(w)'
    <3>1. request'[r] = f
      BY <2>3, <2>15
    <3>2. CASE w = z
      BY <2>2, <3>1, <3>2 DEF Backed
    <3>3. CASE w \in zone
      <4>1. Backed(w)
        BY <2>4, <2>15, <3>3 DEF DnsInv
      <4>2. QED BY <1>0, <1>1, <2>3, <4>1 DEF Backed, Bystanders
    <3>4. QED BY <1>3, <3>2, <3>3
  <2>16. ASSUME NEW y \in rows', y.node # NoNode, y.name \notin muddled' PROVE Kept(y)'
    <3>1. Kept(y)
      BY <1>1, <2>4, <2>16 DEF DnsInv
    <3>2. QED BY <1>0, <1>1, <1>3, <2>3, <3>1 DEF Kept, Bystanders
  <2>17. request'[r].about \subseteq q.about
    BY <2>2, <2>3, DoneShape
  <2>18. Carries(r)
    BY <1>1, <2>3, <2>5, <2>6, <2>7, <2>8, <2>10, <2>12, <2>13, <2>14, <2>15, <2>16, <2>17 DEF Carries
  <2>19. QED BY <2>18, CarriesStep
<1>4. QED BY <1>z, <1>2, <1>3 DEF ZoneCreate

\* What a request that ends has to keep: all that it has to do with itself.
LEMMA EndCarries ==
    ASSUME DnsInv, NEW r \in Request, Goto(r, Done), Typed', Numbered', Unique',
           made' = made, muddled' = muddled, Harmless(request[r]), StaysUnsure(request[r]),
           \A x \in rows' : Alike(x)',
           \A z \in zone' : z.name \notin muddled /\ z.name \in request[r].about => Backed(z)',
           \A y \in rows' :
             y.node # NoNode /\ y.name \notin muddled /\ y.name \in request[r].about => Kept(y)',
           \A a \in answers' \ answers : a.name \in Name /\ Held(a)'
    PROVE  DnsInv'
<1>0. TableInv /\ \A s \in Request : Sound(request[s])
  BY DEF DnsInv
<1>1. request'[r] = Done /\ Bystanders(r) /\ request'[r].pc = "done" /\ request'[r].about = {}
      /\ request'[r].todo = {}
  BY <1>0, Moves, DoneShape
<1>2. Reserved' /\ Counted'
  BY <1>0, <1>1, ReservedStep, CountedStep
<1>3. Sound(request[r])'
  BY <1>1, DoneSound
<1>4. Carries(r)
  BY <1>1, <1>2, <1>3 DEF Carries
<1>5. QED BY <1>4, CarriesStep

LEMMA RowCreateStep ==
    ASSUME DnsInv, NEW r \in Request, RowCreate(r)
    PROVE  DnsInv'
<1> DEFINE q == request[r]
<1>0. /\ TableInv /\ \A s \in Request : Sound(request[s])
      /\ Sound(q) /\ Formed(q) /\ q \in RequestType /\ q.pc = "insert" /\ Goto(r, Done)
      /\ rows \subseteq Row /\ zone \subseteq Entry /\ made \in Nat
  BY DEF DnsInv, TableInv, Typed, Sound, RowCreate
<1>1. UNCHANGED <<node, changes, default, zone, made, unsure>>
  BY DEF RowCreate, edited
<1>2. request'[r] = Done /\ Bystanders(r) /\ request' \in [Request -> RequestType]
  BY <1>0, Moves, DoneShape
<1>3. CASE muddled' = muddled \cup q.about /\ UNCHANGED <<rows, answers>>
  <2>1. Still /\ muddled' \subseteq Mark
    BY <1>0, <1>1, <1>3 DEF Still, TableInv, Typed, RequestType
  <2>2. Typed'
    BY <1>0, <1>1, <1>2, <1>3, <2>1 DEF TableInv, Typed, Ids
  <2>3. QED BY <1>0, <1>1, <1>3, <2>1, <2>2, EndsStill
<1>4. ASSUME NEW z \in q.todo, NEW x, ~ Taken(z), muddled' = muddled, rows' = rows \cup {x},
             x = [id |-> z.ext, provider |-> z.provider, name |-> z.name, content |-> z.content,
                  ext |-> z.ext, node |-> q.node],
             answers' = IF q.op = "ensure" THEN answers \cup {Returned(q, x)} ELSE answers
      PROVE  DnsInv'
  <2>1. /\ z \in Entry /\ z.name \in q.about /\ z.content = q.ip /\ q.node \in Node /\ q.todo = {z}
        /\ z.ext <= made /\ Alike(z) /\ z.ext \in Nat
        /\ \A y \in rows : y.id # z.ext
        /\ z.name \notin muddled => z \in zone
    BY <1>0 DEF Formed, Sound, Standing, Singleton, Early, Entry, Ids
  <2>2. /\ x \in Row /\ x.id = z.ext /\ x.provider = z.provider /\ x.name = z.name
        /\ x.content = q.ip /\ x.ext = z.ext /\ x.node = q.node
    BY <1>4, <2>1 DEF Row, Entry
  <2>3. Typed'
    BY <1>0, <1>1, <1>2, <1>4, <2>2 DEF TableInv, Typed, Ids
  <2>4. Numbered' /\ Unique'
    <3>1. Numbered'
      BY <1>0, <1>1, <1>4, <2>1, <2>2 DEF TableInv, Numbered
    <3>2. \A y \in rows : y.id # x.id /\ ~ (y.provider = x.provider /\ y.name = x.name)
      BY <1>4, <2>1, <2>2 DEF Taken
    <3>3. Unique'
      BY <1>0, <1>1, <1>4, <3>2 DEF TableInv, Unique
    <3>4. QED BY <3>1, <3>3
  <2>5. Harmless(q) /\ StaysUnsure(q)
    <3>1. Untouched(q)
      BY <1>1, <1>4, <2>1, <2>2 DEF Untouched, Known
    <3>2. Descends(q)
      BY <1>0, <1>4, <2>2 DEF Descends, Born
    <3>3. StaysAlike /\ StaysUnsure(q)
      BY <1>1, <1>4 DEF StaysAlike, Alike, StaysUnsure
    <3>4. QED BY <1>0, <1>1, <1>4, <2>3, <3>1, <3>2, <3>3 DEF Harmless, Typed
  <2>6. \A y \in rows' : Alike(y)'
    <3>1. Alike(x)
      BY <2>1, <2>2 DEF Alike
    <3>2. QED BY <1>1, <1>4, <3>1 DEF DnsInv, Alike
  <2>7. ASSUME NEW w \in zone', w.name \notin muddled PROVE Backed(w)'
    <3>1. Backed(w)
      BY <1>1, <2>7 DEF DnsInv
    <3>2. CASE \E y \in rows : y.provider = w.provider /\ y.name = w.name /\ y.ext = w.ext
      BY <1>4, <3>2 DEF Backed
    <3>3. CASE w = z
      BY <1>4, <2>2, <3>3 DEF Backed
    <3>4. CASE \E s \in Request \ {r} : request[s].pc = "insert" /\ w \in request[s].todo
      BY <1>2, <3>4 DEF Backed, Bystanders
    <3>5. QED BY <2>1, <3>1, <3>2, <3>3, <3>4 DEF Backed
  <2>8. ASSUME NEW y \in rows', y.node # NoNode, y.name \notin muddled PROVE Kept(y)'
    <3>1. CASE y \in rows
      <4>1. Kept(y)
        BY <2>8, <3>1 DEF DnsInv
      <4>2. QED BY <1>0, <1>1, <1>2, <4>1 DEF Kept, Bystanders
    <3>2. CASE y = x
      BY <1>1, <2>1, <2>2, <2>8, <3>2 DEF Kept
    <3>3. QED BY <1>4, <3>1, <3>2
  <2>9. ASSUME NEW a, a = Returned(q, x) PROVE a.name \in Name /\ Held(a)'
    <3>1. a.name = z.name /\ a.provider = z.provider /\ a.gone = FALSE /\ a.ip = q.ip
      BY <2>2, <2>9 DEF Returned
    <3>2. z.name \in Name
      BY <2>1 DEF Entry
    <3>3. SUFFICES ASSUME z.name \notin muddled
                   PROVE  /\ \A s \in Request : z.name \notin request'[s].about
                          /\ Recorded(z.provider, z.name)' = {q.ip}
      BY <1>4, <3>1, <3>2 DEF Held
    <3>4. \A s \in Request : z.name \notin request'[s].about
      BY <1>0, <1>2, <2>1, <3>3, DoneShape, Meeting DEF Bystanders, TableInv, Apart
    <3>5. ASSUME NEW w \in zone, w.provider = z.provider, w.name = z.name PROVE w = z
      <4>1. Backed(w)
        BY <3>3, <3>5 DEF DnsInv
      <4>2. ~ \E y \in rows : y.provider = w.provider /\ y.name = w.name
        BY <1>4, <3>5 DEF Taken
      <4>3. PICK s \in Request : request[s].pc = "insert" /\ w \in request[s].todo
        BY <4>1, <4>2 DEF Backed
      <4>4. w.name \in request[s].about
        BY <1>0, <4>3 DEF Formed, Sound
      <4>5. s = r
        BY <1>0, <2>1, <3>3, <3>5, <4>4, Meeting DEF TableInv, Apart
      <4>6. QED BY <2>1, <4>3, <4>5
    <3>6. {w \in zone' : w.provider = z.provider /\ w.name = z.name} = {z}
      BY <1>1, <2>1, <3>3, <3>5
    <3>7. Recorded(z.provider, z.name)' = {q.ip}
      BY <2>1, <3>6 DEF Recorded
    <3>8. QED BY <3>4, <3>7
  <2>10. \A a \in answers' \ answers : a.name \in Name /\ Held(a)'
    BY <1>4, <2>9
  <2>11. QED BY <1>0, <1>1, <1>4, <2>3, <2>4, <2>5, <2>6, <2>7, <2>8, <2>10, EndCarries
<1>5. QED BY <1>3, <1>4 DEF RowCreate

LEMMA ZoneUpdateStep ==
    ASSUME DnsInv, NEW r \in Request, ZoneUpdate(r)
    PROVE  DnsInv'
<1> DEFINE q == request[r]
           hit == {z \in zone : \E x \in q.todo : z.ext = x.ext}
<1>0. /\ TableInv /\ \A s \in Request : Sound(request[s])
      /\ Sound(q) /\ Formed(q) /\ q \in RequestType /\ q.pc = "zone"
      /\ rows \subseteq Row /\ zone \subseteq Entry /\ made \in Nat
  BY DEF DnsInv, TableInv, Typed, Sound, ZoneUpdate
<1>1. UNCHANGED <<node, changes, default, rows, made, answers, muddled>>
  BY DEF ZoneUpdate, edited
<1>x. PICK x \in q.todo : q.todo = {x}
  BY <1>0 DEF Formed, Singleton
<1>2. CASE Goto(r, Done) /\ UNCHANGED <<zone, unsure>>
  <2>1. Still /\ request' \in [Request -> RequestType]
    BY <1>0, <1>1, <1>2, Moves, DoneShape DEF Still
  <2>2. Typed'
    BY <1>0, <1>1, <1>2, <2>1 DEF TableInv, Typed, Ids
  <2>3. QED BY <1>0, <1>1, <1>2, <2>1, <2>2, EndsStill
<1>3. ASSUME NEW z \in hit,
             zone' = (zone \ hit) \cup
                     UNION {{[w EXCEPT !.content = q.ip, !.name = u.name,
                                       !.at = Place(w.provider, u.name)] : u \in q.todo} : w \in hit},
             unsure' = unsure \cup {u.id : u \in q.todo},
             Goto(r, [q EXCEPT !.pc = "row"]) \/ Goto(r, Done)
      PROVE  DnsInv'
  <2> DEFINE f == [q EXCEPT !.pc = "row"]
  <2>1. /\ x \in Row /\ x.ext <= made /\ Alike(x) /\ x.id <= made /\ Known(q, x.name)
        /\ \A y \in rows : x.id = y.id => x.name = y.name /\ x.provider = y.provider
        /\ q.ip \in 1..MaxAddr /\ x.name \in Name /\ x.id \in Ids
    BY <1>0, DnsAssumption DEF Sound, Formed, Named, Snapshot, RequestType, Row
  <2>2. z \in zone /\ z \in Entry /\ z.ext = x.ext /\ hit = {z}
    BY <1>0, <1>x DEF TableInv, Unique
  <2>3. /\ z.provider = x.provider
        /\ z.name = x.name \/ (z.name \in muddled /\ x.name \in muddled)
    BY <2>1, <2>2 DEF Alike
  <2>n. PICK v : v = [z EXCEPT !.content = q.ip, !.name = x.name, !.at = Place(z.provider, x.name)]
    OBVIOUS
  <2>4. /\ v \in Entry /\ v.ext = x.ext /\ v.provider = z.provider /\ v.name = x.name
        /\ v.content = q.ip
    <3>1. Place(z.provider, x.name) \in Name
      BY <2>1, PlaceName
    <3>2. QED BY <2>n, <2>1, <2>2, <3>1 DEF Entry
  <2>5. zone' = (zone \ {z}) \cup {v} /\ unsure' = unsure \cup {x.id}
    <3> DEFINE Under(w) == {[w EXCEPT !.content = q.ip, !.name = u.name,
                                      !.at = Place(w.provider, u.name)] : u \in q.todo}
    <3>1. Under(z) = {v}
      BY <1>x, <2>n
    <3>2. zone' = (zone \ hit) \cup UNION {Under(w) : w \in hit}
      BY <1>3
    <3> HIDE DEF Under
    <3>3. \A e : e \in UNION {Under(w) : w \in {z}} <=> e \in Under(z)
      OBVIOUS
    <3>4. {u.id : u \in {x}} = {x.id}
      OBVIOUS
    <3>5. unsure' = unsure \cup {x.id}
      BY <1>3, <1>x, <3>4
    <3>6. \A e : e \in zone' <=> e \in (zone \ {z}) \cup {v}
      BY <2>2, <3>1, <3>2, <3>3
    <3>7. QED BY <3>5, <3>6
  <2>6. /\ f.pc = "row" /\ f.provider = q.provider /\ f.about = q.about /\ f.todo = {x} /\ f.ip = q.ip
        /\ f.node = q.node /\ f.name = q.name /\ f.op = q.op /\ f \in RequestType
    BY <1>0, <1>x DEF RequestType, Snapshot
  <2> HIDE DEF f
  <2>7. /\ Bystanders(r) /\ request' \in [Request -> RequestType]
        /\ request'[r] = f \/ request'[r] = Done
    BY <1>0, <1>3, <2>6, Moves, DoneShape DEF f
  <2> HIDE DEF hit
  <2>8. Typed'
    BY <1>0, <1>1, <2>1, <2>4, <2>5, <2>7 DEF TableInv, Typed, Ids
  <2>9. Numbered' /\ Unique'
    <3>1. \A w \in zone' : w.ext <= made'
      BY <1>0, <1>1, <2>1, <2>4, <2>5 DEF TableInv, Numbered
    <3>2. \A w \in zone : w.ext = v.ext => w = z
      BY <1>0, <2>2, <2>4 DEF TableInv, Unique
    <3>3. \A u, w \in zone' : u.ext = w.ext => u = w
      BY <1>0, <2>5, <3>2 DEF TableInv, Unique
    <3>4. QED BY <1>0, <1>1, <3>1, <3>3 DEF TableInv, Numbered, Unique
  <2>10. Reserved' /\ Counted'
    BY <1>0, <1>1, <1>x, <2>6, <2>7, DoneShape, ReservedStep, CountedStep DEF Snapshot
  <2>11. StaysAlike
    BY <1>1, <2>2, <2>3, <2>4, <2>5 DEF StaysAlike, Alike
  <2>12. Harmless(q) /\ StaysUnsure(q)
    <3>1. Untouched(q)
      BY <1>1, <2>1, <2>3, <2>4, <2>5 DEF Untouched, Known
    <3>2. Descends(q) /\ StaysUnsure(q)
      BY <1>1, <2>5 DEF Descends, StaysUnsure
    <3>3. QED BY <1>0, <1>1, <2>8, <2>11, <3>1, <3>2 DEF Harmless, Typed
  <2>13. Sound(request[r])'
    <3>1. CASE request'[r] = Done
      BY <3>1, DoneSound
    <3>2. CASE request'[r] = f
      <4>1. Formed(request[r])'
        BY <1>0, <1>x, <2>6, <3>2 DEF Formed, Early, Snapshot
      <4>2. (\A u \in request[r].todo : u.ext <= made /\ Alike(u))'
        BY <1>1, <2>1, <2>6, <2>11, <3>2 DEF StaysAlike
      <4>3. Named(request[r])' /\ Followed(request[r])'
        BY <1>0, <1>1, <1>x, <2>1, <2>6, <3>2 DEF Sound, Named, Followed, Known
      <4>4. Written(request[r])'
        BY <2>4, <2>5, <2>6, <3>2 DEF Written
      <4>5. f.op # "remove" /\ f.pc \notin Early
        BY <1>0, <2>6 DEF Formed, Early
      <4>6. Confined(request[r])' /\ Listing(request[r])' /\ Standing(request[r])' /\ Deleted(request[r])'
        BY <2>6, <3>2, <4>5 DEF Confined, Listing, Standing, Deleted
      <4>7. QED BY <4>1, <4>2, <4>3, <4>4, <4>6 DEF Sound
    <3>3. QED BY <2>7, <3>1, <3>2
  <2>14. \A y \in rows' : Alike(y)'
    BY <1>0, <1>1, <2>11 DEF DnsInv, StaysAlike, TableInv, Numbered
  <2>15. ASSUME NEW w \in zone', w.name \notin muddled PROVE Backed(w)'
    <3>1. CASE w = v
      <4>1. z.name = x.name /\ x.name \in q.about /\ z.name \notin muddled
        BY <2>1, <2>3, <2>4, <2>15, <3>1 DEF Known
      <4>2. Backed(z)
        BY <2>2, <4>1 DEF DnsInv
      <4>3. ~ \E s \in Request : request[s].pc = "insert" /\ z \in request[s].todo
        <5>1. \A s \in Request : request[s].pc = "insert" /\ z \in request[s].todo => z.name \in request[s].about
          BY <1>0 DEF Sound, Formed
        <5>2. \A s \in Request : request[s].pc = "insert" => s # r
          BY <1>0
        <5>3. QED BY <1>0, <4>1, <5>1, <5>2, Meeting DEF TableInv
      <4>4. QED BY <1>1, <2>2, <2>4, <3>1, <4>1, <4>2, <4>3 DEF Backed
    <3>2. CASE w \in zone
      <4>1. Backed(w)
        BY <2>15, <3>2 DEF DnsInv
      <4>2. QED BY <1>0, <1>1, <2>7, <4>1 DEF Backed, Bystanders
    <3>3. QED BY <2>5, <3>1, <3>2
  <2>16. ASSUME NEW y \in rows', y.node # NoNode, y.name \notin muddled PROVE Kept(y)'
    <3>1. Kept(y) /\ y \in rows /\ Alike(y)
      BY <1>1, <2>16 DEF DnsInv
    <3>2. CASE \E s \in Request : request[s].pc = "remove" /\ \E u \in request[s].todo : u.id = y.id
      BY <1>0, <2>7, <3>2 DEF Kept, Bystanders
    <3>3. CASE \E w \in zone : w.ext = y.ext /\ (y.id \notin unsure => w.content = y.content)
      <4>1. PICK w \in zone : w.ext = y.ext /\ (y.id \notin unsure => w.content = y.content)
        BY <3>3
      <4>2. CASE w # z
        BY <2>5, <4>1, <4>2 DEF Kept
      <4>3. CASE w = z
        <5>1. z.name = y.name /\ z.provider = y.provider /\ x.name = y.name
          BY <2>2, <2>3, <2>16, <3>1, <4>1, <4>3 DEF Alike
        <5>2. PICK u \in rows : u.id = x.id /\ u.ext = x.ext
          BY <1>0, <1>x, <2>16, <5>1 DEF Sound, Followed
        <5>3. u = y
          BY <1>0, <2>1, <2>3, <3>1, <5>1, <5>2 DEF TableInv, Unique
        <5>4. QED BY <2>4, <2>5, <5>2, <5>3 DEF Kept
      <4>4. QED BY <4>2, <4>3
    <3>4. QED BY <3>1, <3>2, <3>3 DEF Kept
  <2>17. request'[r].about \subseteq q.about
    BY <2>6, <2>7, DoneShape
  <2>18. Carries(r)
    BY <1>1, <2>7, <2>8, <2>9, <2>10, <2>12, <2>13, <2>14, <2>15, <2>16, <2>17 DEF Carries
  <2>19. QED BY <2>18, CarriesStep
<1>4. CASE hit = {}
  BY <1>2, <1>4 DEF ZoneUpdate
<1>5. CASE hit # {}
  <2>1. PICK z \in hit : TRUE
    BY <1>5
  <2>2. QED BY <1>3, <1>5, <2>1 DEF ZoneUpdate
<1>6. QED BY <1>4, <1>5

LEMMA RowUpdateStep ==
    ASSUME DnsInv, NEW r \in Request, RowUpdate(r)
    PROVE  DnsInv'
<1> DEFINE q == request[r]
<1>0. /\ TableInv /\ \A s \in Request : Sound(request[s])
      /\ Sound(q) /\ Formed(q) /\ q \in RequestType /\ q.pc = "row" /\ Goto(r, Done)
      /\ rows \subseteq Row /\ zone \subseteq Entry /\ made \in Nat
  BY DEF DnsInv, TableInv, Typed, Sound, RowUpdate
<1>1. UNCHANGED <<node, changes, default, zone, made, muddled>>
  BY DEF RowUpdate, edited
<1>2. request'[r] = Done /\ Bystanders(r) /\ request' \in [Request -> RequestType]
  BY <1>0, Moves, DoneShape
<1>3. PICK x \in q.todo :
        LET now == {y \in rows : y.id = x.id}
        IN  /\ rows' = {IF y \in now THEN [y EXCEPT !.content = q.ip] ELSE y : y \in rows}
            /\ unsure' = IF now = {} THEN unsure ELSE unsure \ {x.id}
            /\ answers' = IF now # {} /\ q.op = "ensure" THEN answers \cup {Returned(q, x)}
                          ELSE answers
  BY DEF RowUpdate
<1>4. CASE {y \in rows : y.id = x.id} = {}
  <2>1. rows' = rows /\ unsure' = unsure /\ answers' = answers
    <3>1. rows' = {y : y \in rows}
      BY <1>3, <1>4
    <3>2. QED BY <1>3, <1>4, <3>1
  <2>2. Still
    BY <1>1, <2>1 DEF Still
  <2>3. Typed'
    BY <1>0, <1>1, <1>2, <2>1 DEF TableInv, Typed, Ids
  <2>4. QED BY <1>0, <2>1, <2>2, <2>3, EndsStill
<1>5. ASSUME NEW y \in rows, y.id = x.id PROVE DnsInv'
  <2>1. /\ x \in Row /\ x.ext <= made /\ Alike(x) /\ Known(q, x.name)
        /\ x.name = y.name /\ x.provider = y.provider /\ y \in Row
        /\ q.ip \in 1..MaxAddr /\ x.name \in Name /\ q.todo = {x}
    BY <1>0, <1>5, DnsAssumption DEF Sound, Formed, Named, Snapshot, RequestType, Singleton, Row
  <2>n. PICK v : v = [y EXCEPT !.content = q.ip]
    OBVIOUS
  <2>2. /\ v \in Row /\ v.id = y.id /\ v.provider = y.provider /\ v.name = y.name
        /\ v.ext = y.ext /\ v.node = y.node /\ v.content = q.ip
    BY <2>1, <2>n DEF Row
  <2>3. \A u \in rows : u.id = x.id => u = y
    BY <1>0, <1>5 DEF TableInv, Unique
  <2>4. rows' = (rows \ {y}) \cup {v}
    <3>1. {u \in rows : u.id = x.id} = {y}
      BY <1>5, <2>3
    <3>2. rows' = {IF u \in {y} THEN [u EXCEPT !.content = q.ip] ELSE u : u \in rows}
      BY <1>3, <3>1
    <3>3. QED BY <1>5, <2>n, <3>2
  <2>5. unsure' = unsure \ {x.id}
        /\ answers' = IF q.op = "ensure" THEN answers \cup {Returned(q, x)} ELSE answers
    BY <1>3, <1>5
  <2>6. Typed'
    BY <1>0, <1>1, <1>2, <2>2, <2>4, <2>5 DEF TableInv, Typed, Ids
  <2>7. Numbered' /\ Unique'
    <3>1. \A u \in rows' : u.id <= made' /\ u.ext <= made'
      BY <1>0, <1>1, <1>5, <2>2, <2>4 DEF TableInv, Numbered
    <3>2. \A u \in rows :
            u.id = v.id \/ (u.provider = v.provider /\ u.name = v.name) => u = y
      BY <1>0, <1>5, <2>2 DEF TableInv, Unique
    <3>3. \A u, w \in rows' :
            u.id = w.id \/ (u.provider = w.provider /\ u.name = w.name) => u = w
      BY <1>0, <2>4, <3>2 DEF TableInv, Unique
    <3>4. QED BY <1>0, <1>1, <3>1, <3>3 DEF TableInv, Numbered, Unique
  <2>8. Harmless(q) /\ StaysUnsure(q)
    <3>1. Untouched(q)
      BY <1>1, <2>1, <2>2, <2>4 DEF Untouched, Known
    <3>2. Descends(q)
      BY <1>5, <2>2, <2>4 DEF Descends
    <3>3. StaysAlike
      BY <1>1 DEF StaysAlike, Alike
    <3>4. StaysUnsure(q)
      <4>1. ASSUME NEW u \in rows, ~ Known(q, u.name) PROVE u.id # x.id
        BY <2>1, <2>3, <4>1
      <4>2. QED BY <2>5, <4>1 DEF StaysUnsure
    <3>5. QED BY <1>0, <1>1, <2>6, <3>1, <3>2, <3>3, <3>4 DEF Harmless, Typed
  <2>9. \A u \in rows' : Alike(u)'
    <3>1. Alike(v)
      BY <1>5, <2>2 DEF DnsInv, Alike
    <3>2. QED BY <1>1, <2>4, <3>1 DEF DnsInv, Alike
  <2>10. ASSUME NEW w \in zone', w.name \notin muddled PROVE Backed(w)'
    <3>1. Backed(w)
      BY <1>1, <2>10 DEF DnsInv
    <3>2. CASE \E u \in rows : u.provider = w.provider /\ u.name = w.name /\ u.ext = w.ext
      BY <2>2, <2>4, <3>2 DEF Backed
    <3>3. CASE \E s \in Request : request[s].pc = "insert" /\ w \in request[s].todo
      BY <1>0, <1>2, <3>3 DEF Backed, Bystanders
    <3>4. QED BY <3>1, <3>2, <3>3 DEF Backed
  <2>w. ASSUME x.name \notin muddled
        PROVE  y.ext = x.ext /\ \E z \in zone : z.ext = x.ext /\ z.content = q.ip
    BY <1>0, <1>5, <2>3, <2>w DEF Sound, Followed, Written
  <2>11. ASSUME NEW u \in rows', u.node # NoNode, u.name \notin muddled PROVE Kept(u)'
    <3>1. CASE u = v
      BY <1>1, <2>1, <2>2, <2>11, <2>w, <3>1 DEF Kept
    <3>2. CASE u \in rows /\ u # y
      <4>1. Kept(u) /\ u.id # x.id
        BY <1>1, <2>3, <2>11, <3>2 DEF DnsInv
      <4>2. QED BY <1>0, <1>1, <1>2, <2>5, <4>1 DEF Kept, Bystanders
    <3>3. QED BY <2>4, <2>11, <3>1, <3>2
  <2>12. ASSUME NEW a, a = Returned(q, x) PROVE a.name \in Name /\ Held(a)'
    <3>1. a.name = x.name /\ a.provider = x.provider /\ a.gone = FALSE /\ a.ip = q.ip
      BY <2>12 DEF Returned
    <3>2. SUFFICES ASSUME x.name \notin muddled
                   PROVE  /\ \A s \in Request : x.name \notin request'[s].about
                          /\ Recorded(x.provider, x.name)' = {q.ip}
      BY <1>1, <2>1, <3>1 DEF Held
    <3>3. x.name \in q.about
      BY <2>1, <3>2 DEF Known
    <3>4. \A s \in Request : x.name \notin request'[s].about
      BY <1>0, <1>2, <3>2, <3>3, DoneShape, Meeting DEF Bystanders, TableInv, Apart
    <3>5. PICK z \in zone : z.ext = x.ext /\ z.content = q.ip
      BY <2>w, <3>2
    <3>6. z.provider = x.provider /\ z.name = x.name /\ y.ext = z.ext
      BY <2>1, <2>w, <3>2, <3>5 DEF Alike
    <3>7. \A w \in zone : w.provider = x.provider /\ w.name = x.name => w = z
      BY <1>0, <1>5, <2>1, <3>2, <3>3, <3>5, <3>6, OneEntry DEF TableInv, Unique
    <3>8. {w \in zone' : w.provider = x.provider /\ w.name = x.name} = {z}
      BY <1>1, <3>5, <3>6, <3>7
    <3>9. Recorded(x.provider, x.name)' = {q.ip}
      BY <3>5, <3>8 DEF Recorded
    <3>10. QED BY <3>4, <3>9
  <2>13. \A a \in answers' \ answers : a.name \in Name /\ Held(a)'
    BY <2>5, <2>12
  <2>14. QED BY <1>0, <1>1, <2>6, <2>7, <2>8, <2>9, <2>10, <2>11, <2>13, EndCarries
<1>6. QED BY <1>4, <1>5

LEMMA ZoneDeleteStep ==
    ASSUME DnsInv, NEW r \in Request, ZoneDelete(r)
    PROVE  DnsInv'
<1> DEFINE q == request[r]
           f == [q EXCEPT !.pc = "remove"]
<1>0. /\ TableInv /\ \A s \in Request : Sound(request[s])
      /\ Sound(q) /\ Formed(q) /\ q \in RequestType /\ q.pc = "delete" /\ q.todo \subseteq Row
      /\ rows \subseteq Row /\ zone \subseteq Entry /\ made \in Nat
  BY DEF DnsInv, TableInv, Typed, Sound, ZoneDelete, Formed, Snapshot
<1>1. UNCHANGED <<node, changes, default, rows, made, answers, unsure>>
  BY DEF ZoneDelete, edited
<1>2. /\ f.pc = "remove" /\ f.provider = q.provider /\ f.about = q.about /\ f.todo = q.todo /\ f.ip = q.ip
      /\ f.node = q.node /\ f.name = q.name /\ f.op = q.op /\ f \in RequestType
  BY <1>0 DEF RequestType, Snapshot
<1>3. request'[r] = f /\ Bystanders(r) /\ request' \in [Request -> RequestType]
  BY <1>0, <1>2, Moves DEF ZoneDelete
<1> HIDE DEF f
<1>4. /\ zone' \subseteq zone
      /\ \A z \in zone \ zone' : \E x \in q.todo : z.ext = x.ext
      /\ muddled \subseteq muddled' /\ muddled' \subseteq Mark
      /\ q.about \subseteq muddled' \/ (\A z \in zone' : \A x \in q.todo : z.ext # x.ext)
  <2>1. q.about \subseteq Mark /\ muddled \subseteq Mark
    BY <1>0 DEF RequestType, TableInv, Typed
  <2>2. QED BY <2>1 DEF ZoneDelete
<1>5. \A x \in q.todo :
        /\ x \in Row /\ x.ext <= made /\ Alike(x) /\ Known(q, x.name)
        /\ \A y \in rows : x.id = y.id => x.name = y.name /\ x.provider = y.provider
        /\ x.name \notin muddled => \E y \in rows : y.id = x.id /\ y.ext = x.ext
  BY <1>0 DEF Sound, Named, Followed, Snapshot
<1>6. Typed'
  BY <1>0, <1>1, <1>3, <1>4 DEF TableInv, Typed, Ids
<1>7. Numbered' /\ Unique'
  BY <1>0, <1>1, <1>4 DEF TableInv, Numbered, Unique
<1>8. Reserved' /\ Counted'
  BY <1>0, <1>1, <1>2, <1>3, ReservedStep, CountedStep DEF Snapshot
<1>9. StaysAlike
  BY <1>4 DEF StaysAlike, Alike
<1>10. Harmless(q) /\ StaysUnsure(q)
  <2>1. Untouched(q)
    <3>1. ASSUME NEW z \in Entry, ~ Known(q, z.name), z \in zone PROVE z \in zone'
      <4>1. \A x \in q.todo : z.ext = x.ext => Known(q, z.name)
        BY <1>5, <3>1 DEF Alike, Known
      <4>2. QED BY <1>4, <3>1, <4>1
    <3>2. QED BY <1>1, <1>4, <3>1 DEF Untouched
  <2>2. Descends(q) /\ StaysUnsure(q)
    BY <1>1 DEF Descends, StaysUnsure
  <2>3. QED BY <1>0, <1>1, <1>4, <1>6, <1>9, <2>1, <2>2 DEF Harmless, Typed
<1>11. Sound(request[r])'
  <2>1. Formed(request[r])'
    BY <1>0, <1>2, <1>3 DEF Formed, Early, Snapshot
  <2>2. (\A u \in request[r].todo : u.ext <= made /\ Alike(u))'
    BY <1>1, <1>2, <1>3, <1>5, <1>9 DEF StaysAlike
  <2>3. Named(request[r])' /\ Followed(request[r])'
    <3>1. \A d : Known(q, d) => d \in f.about \/ d \in muddled'
      BY <1>2, <1>4 DEF Known
    <3>2. Named(q) /\ \A x \in q.todo : x.id <= made
      BY <1>0 DEF Sound, Named, Snapshot
    <3>3. Named(request[r])'
      BY <1>1, <1>2, <1>3, <1>5, <3>1, <3>2 DEF Named, Known
    <3>4. Followed(request[r])'
      BY <1>1, <1>2, <1>3, <1>4, <1>5 DEF Followed
    <3>5. QED BY <3>3, <3>4
  <2>4. Confined(request[r])'
    <3>1. Confined(q)
      BY <1>0 DEF Sound
    <3>2. QED BY <1>1, <1>2, <1>3, <1>4, <3>1 DEF Confined, RowsOf, Known, Early
  <2>5. Listing(request[r])'
    BY <1>0, <1>1, <1>2, <1>3, <1>4 DEF Sound, Listing, RowsOf
  <2>6. Deleted(request[r])'
    <3> SUFFICES ASSUME NEW x \in q.todo, x.name \notin muddled', NEW z \in zone', z.ext = x.ext
                 PROVE  FALSE
      BY <1>2, <1>3 DEF Deleted
    <3>1. x.name \in q.about
      BY <1>4, <1>5 DEF Known
    <3>2. QED BY <1>4, <3>1
  <2>7. Standing(request[r])' /\ Written(request[r])'
    BY <1>2, <1>3 DEF Standing, Written
  <2>8. QED BY <2>1, <2>2, <2>3, <2>4, <2>5, <2>6, <2>7 DEF Sound
<1>12. \A y \in rows' : Alike(y)'
  BY <1>0, <1>1, <1>9 DEF DnsInv, StaysAlike, TableInv, Numbered
<1>13. ASSUME NEW w \in zone', w.name \notin muddled' PROVE Backed(w)'
  <2>1. Backed(w)
    BY <1>4, <1>13 DEF DnsInv
  <2>2. QED BY <1>0, <1>1, <1>3, <2>1 DEF Backed, Bystanders
<1>14. ASSUME NEW y \in rows', y.node # NoNode, y.name \notin muddled' PROVE Kept(y)'
  <2>1. Kept(y) /\ Alike(y) /\ y \in rows /\ y.name \notin muddled
    BY <1>1, <1>4, <1>14 DEF DnsInv
  <2>2. CASE \E s \in Request : request[s].pc = "remove" /\ \E u \in request[s].todo : u.id = y.id
    BY <1>0, <1>3, <2>2 DEF Kept, Bystanders
  <2>3. CASE \E z \in zone : z.ext = y.ext /\ (y.id \notin unsure => z.content = y.content)
    <3>1. PICK z \in zone : z.ext = y.ext /\ (y.id \notin unsure => z.content = y.content)
      BY <2>3
    <3>2. CASE z \in zone'
      BY <1>1, <3>1, <3>2 DEF Kept
    <3>3. CASE z \notin zone'
      <4>1. PICK x \in q.todo : z.ext = x.ext
        BY <1>4, <3>3
      <4>2. z.name = y.name /\ z.provider = y.provider /\ z.name = x.name /\ z.provider = x.provider
        BY <1>5, <2>1, <3>1, <4>1 DEF Alike
      <4>3. PICK u \in rows : u.id = x.id /\ u.ext = x.ext
        BY <1>5, <2>1, <4>2
      <4>4. u = y
        <5>1. u.name = x.name /\ u.provider = x.provider
          BY <1>5, <4>1, <4>3
        <5>2. QED BY <1>0, <2>1, <4>2, <5>1 DEF TableInv, Unique
      <4>5. QED BY <1>2, <1>3, <4>1, <4>3, <4>4 DEF Kept
    <3>4. QED BY <3>2, <3>3
  <2>4. QED BY <2>1, <2>2, <2>3 DEF Kept
<1>15. Carries(r)
  BY <1>1, <1>2, <1>3, <1>6, <1>7, <1>8, <1>10, <1>11, <1>12, <1>13, <1>14 DEF Carries
<1>16. QED BY <1>15, CarriesStep

LEMMA RowDeleteStep ==
    ASSUME DnsInv, NEW r \in Request, RowDelete(r)
    PROVE  DnsInv'
<1> DEFINE q == request[r]
<1>0. /\ TableInv /\ \A s \in Request : Sound(request[s])
      /\ Sound(q) /\ Formed(q) /\ q \in RequestType /\ q.pc = "remove" /\ Goto(r, Done)
      /\ q.todo \subseteq Row
      /\ rows \subseteq Row /\ zone \subseteq Entry /\ made \in Nat
  BY DEF DnsInv, TableInv, Typed, Sound, RowDelete, Formed, Snapshot
<1>1. UNCHANGED <<node, changes, default, zone, made, muddled, unsure>> /\ rows' = rows \ Removed(q)
  BY DEF RowDelete, edited
<1>2. request'[r] = Done /\ Bystanders(r) /\ request' \in [Request -> RequestType]
  BY <1>0, Moves, DoneShape
<1>3. \A x \in q.todo :
        /\ x \in Row /\ Alike(x) /\ Known(q, x.name)
        /\ \A y \in rows : x.id = y.id => x.name = y.name /\ x.provider = y.provider
  BY <1>0 DEF Sound, Named, Snapshot
<1>4. \A x \in q.todo : x.name \notin muddled => /\ \E y \in rows : y.id = x.id /\ y.ext = x.ext
                                               /\ \A z \in zone : z.ext # x.ext
  BY <1>0 DEF Sound, Followed, Deleted
\* What is removed was asked for, unless its name is muddled.
<1>5. \A y \in Removed(q) : y \in rows /\ Known(q, y.name)
                            /\ (y.name \in muddled \/ \E x \in q.todo : x.id = y.id)
  <2>1. CASE q.op = "remove"
    BY <1>0, <1>3, <2>1 DEF Removed, RowsOf, Sound, Listing, Confined
  <2>2. CASE q.op # "remove"
    BY <1>3, <2>2 DEF Removed
  <2>3. QED BY <2>1, <2>2
\* And what was asked for is removed, unless it has left the node.
<1>6. \A y \in rows : y.node # NoNode /\ (\E x \in q.todo : x.id = y.id) => y \in Removed(q)
  <2>1. CASE q.op = "remove"
    BY <1>0, <2>1 DEF Removed, RowsOf, Sound, Listing
  <2>2. CASE q.op # "remove"
    BY <2>2 DEF Removed
  <2>3. QED BY <2>1, <2>2
<1>7. Typed' /\ Numbered' /\ Unique' /\ rows' \subseteq rows
  BY <1>0, <1>1, <1>2 DEF TableInv, Typed, Ids, Numbered, Unique
<1>8. Harmless(q) /\ StaysUnsure(q)
  <2>1. Untouched(q)
    BY <1>1, <1>5 DEF Untouched
  <2>2. Descends(q)
    BY <1>7 DEF Descends
  <2>3. StaysAlike /\ StaysUnsure(q)
    BY <1>1 DEF StaysAlike, Alike, StaysUnsure
  <2>4. QED BY <1>0, <1>1, <1>7, <2>1, <2>2, <2>3 DEF Harmless, Typed
<1>9. \A y \in rows' : Alike(y)'
  BY <1>1, <1>7 DEF DnsInv, Alike
<1>10. ASSUME NEW w \in zone', w.name \notin muddled PROVE Backed(w)'
  <2>1. Backed(w)
    BY <1>1, <1>10 DEF DnsInv
  <2>2. CASE \E s \in Request : request[s].pc = "insert" /\ w \in request[s].todo
    BY <1>0, <1>2, <2>2 DEF Backed, Bystanders
  <2>3. CASE \E y \in rows : y.provider = w.provider /\ y.name = w.name /\ y.ext = w.ext
    <3>1. PICK y \in rows : y.provider = w.provider /\ y.name = w.name /\ y.ext = w.ext
      BY <2>3
    <3>2. y \notin Removed(q)
      <4>1. SUFFICES ASSUME y \in Removed(q) PROVE FALSE
        OBVIOUS
      <4>2. PICK x \in q.todo : x.id = y.id
        BY <1>5, <1>10, <3>1, <4>1
      <4>3. x.name = y.name
        BY <1>3, <3>1, <4>2
      <4>4. PICK u \in rows : u.id = x.id /\ u.ext = x.ext
        BY <1>4, <1>10, <3>1, <4>2, <4>3
      <4>5. u = y
        BY <1>0, <3>1, <4>2, <4>4 DEF TableInv, Unique
      <4>6. QED BY <1>1, <1>4, <1>10, <3>1, <4>2, <4>3, <4>4, <4>5
    <3>3. QED BY <1>1, <3>1, <3>2 DEF Backed
  <2>4. QED BY <2>1, <2>2, <2>3 DEF Backed
<1>11. ASSUME NEW y \in rows', y.node # NoNode, y.name \notin muddled PROVE Kept(y)'
  <2>1. Kept(y) /\ y \in rows /\ y \notin Removed(q)
    BY <1>1, <1>11 DEF DnsInv
  <2>2. ~ \E x \in q.todo : x.id = y.id
    BY <1>6, <1>11, <2>1
  <2>3. QED BY <1>1, <1>2, <2>1, <2>2 DEF Kept, Bystanders
<1>12. ASSUME NEW x \in q.todo, NEW a,
              a = [gone |-> TRUE, provider |-> x.provider, name |-> x.name, node |-> q.node, ip |-> 0]
       PROVE  a.name \in Name /\ Held(a)'
  <2>1. a.name = x.name /\ a.provider = x.provider /\ a.gone = TRUE /\ x.name \in Name
    BY <1>3, <1>12 DEF Row
  <2>2. SUFFICES ASSUME x.name \notin muddled
                 PROVE  /\ \A s \in Request : x.name \notin request'[s].about
                        /\ Recorded(x.provider, x.name)' = {}
    BY <1>1, <2>1 DEF Held
  <2>3. x.name \in q.about
    BY <1>3, <1>12, <2>2 DEF Known
  <2>4. \A s \in Request : x.name \notin request'[s].about
    BY <1>0, <1>2, <2>2, <2>3, DoneShape, Meeting DEF Bystanders, TableInv, Apart
  <2>5. PICK y \in rows : y.id = x.id /\ y.ext = x.ext
    BY <1>4, <1>12, <2>2
  <2>6. y.name = x.name /\ y.provider = x.provider
    BY <1>3, <1>12, <2>5
  <2>7. \A w \in zone : ~ (w.provider = x.provider /\ w.name = x.name)
    <3>1. \A w \in zone : w.ext # y.ext
      BY <1>4, <1>12, <2>2, <2>5
    <3>2. QED BY <1>0, <2>2, <2>3, <2>5, <2>6, <3>1, OneEntry
  <2>8. {w \in zone' : w.provider = x.provider /\ w.name = x.name} = {}
    BY <1>1, <2>7
  <2>9. Recorded(x.provider, x.name)' = {}
    BY <2>8 DEF Recorded
  <2>10. QED BY <2>4, <2>9
<1>13. \A a \in answers' \ answers : a.name \in Name /\ Held(a)'
  BY <1>12 DEF RowDelete
<1>14. QED BY <1>0, <1>1, <1>7, <1>8, <1>9, <1>10, <1>11, <1>13, EndCarries

\* A row that takes the number of an entry of its own name has that already:
\* the others are muddled.
LEMMA SyncRowStep ==
    ASSUME DnsInv, NEW r \in Request, SyncRow(r)
    PROVE  DnsInv'
<1> DEFINE q == request[r]
<1>0. /\ TableInv /\ \A s \in Request : Sound(request[s])
      /\ Sound(q) /\ Formed(q) /\ q \in RequestType /\ q.pc = "list" /\ q.about = Mark
      /\ q.todo \subseteq Row /\ q.op # "remove"
      /\ rows \subseteq Row /\ zone \subseteq Entry /\ made \in Nat
  BY DEF DnsInv, TableInv, Typed, Sound, SyncRow, Formed, Snapshot
<1>1. UNCHANGED <<node, changes, default, zone, made, answers, unsure>>
  BY DEF SyncRow, edited
<1>2. PICK x \in q.todo :
        \/ /\ Goto(r, IF q.todo = {x} THEN Done ELSE [q EXCEPT !.todo = @ \ {x}])
           /\ UNCHANGED <<rows, muddled>>
        \/ \E z \in Listed(x) :
              /\ rows' = {IF y.id = x.id THEN [y EXCEPT !.ext = z.ext] ELSE y : y \in rows}
              /\ muddled' = IF z.name = x.name THEN muddled ELSE muddled \cup {z.name, x.name}
              /\ IF \E y \in rows : y.id = x.id
                 THEN Goto(r, IF q.todo = {x} THEN Done ELSE [q EXCEPT !.todo = @ \ {x}])
                 ELSE Goto(r, Done)
  BY DEF SyncRow
<1> DEFINE f == [q EXCEPT !.todo = @ \ {x}]
<1>3. /\ f.pc = "list" /\ f.provider = q.provider /\ f.about = Mark /\ f.todo \subseteq q.todo /\ f.ip = q.ip
      /\ f.node = q.node /\ f.name = q.name /\ f.op = q.op /\ f \in RequestType
  BY <1>0 DEF RequestType
<1>4. Formed(f)
  BY <1>0, <1>3 DEF Formed, Early, Snapshot
<1> HIDE DEF f
<1>5. /\ Bystanders(r) /\ request' \in [Request -> RequestType]
      /\ request'[r] = Done \/ request'[r] = f
  BY <1>0, <1>2, <1>3, Moves, DoneShape DEF f
<1>6. Reserved' /\ Counted'
  BY <1>0, <1>1, <1>3, <1>5, ReservedStep, CountedStep, DoneShape DEF Snapshot
<1>7. \A u \in q.todo :
        /\ u.ext <= made /\ Alike(u) /\ u.id <= made /\ Known(q, u.name)
        /\ \A y \in rows : u.id = y.id => u.name = y.name /\ u.provider = y.provider
  BY <1>0 DEF Sound, Named, Snapshot
\* The rest of the list is as it was.
<1>8. ASSUME muddled \subseteq muddled', StaysAlike,
             \A y \in rows' : \E u \in rows : u.id = y.id /\ u.name = y.name /\ u.provider = y.provider
      PROVE  Sound(request[r])'
  <2>1. CASE request'[r] = Done
    BY <2>1, DoneSound
  <2>2. CASE request'[r] = f
    <3>1. Formed(request[r])'
      BY <1>4, <2>2 DEF Formed
    <3>2. (\A u \in request[r].todo : u.ext <= made /\ Alike(u))'
      BY <1>0, <1>1, <1>3, <1>7, <1>8, <2>2 DEF StaysAlike
    <3>3. Named(request[r])'
      <4>1. \A u \in q.todo : u.name \in f.about \/ u.name \in muddled'
        BY <1>0, <1>3, <1>7, <1>8 DEF Known
      <4>2. QED BY <1>1, <1>3, <1>7, <1>8, <2>2, <4>1 DEF Named, Known
    <3>4. /\ Confined(request[r])' /\ Listing(request[r])' /\ Followed(request[r])'
          /\ Standing(request[r])' /\ Written(request[r])' /\ Deleted(request[r])'
      BY <1>0, <1>3, <2>2 DEF Confined, Listing, Followed, Standing, Written, Deleted, Early
    <3>5. QED BY <3>1, <3>2, <3>3, <3>4 DEF Sound
  <2>3. QED BY <1>5, <2>1, <2>2
<1>9. ASSUME Still, rows' = rows, muddled' \subseteq Mark PROVE DnsInv'
  <2>1. Typed'
    BY <1>0, <1>1, <1>5, <1>9 DEF TableInv, Typed, Ids
  <2>2. StaysAlike
    BY <1>0, <1>9, StillHarmless DEF Harmless
  <2>3. Sound(request[r])'
    BY <1>8, <1>9, <2>2 DEF Still
  <2>4. request'[r].about \subseteq q.about
    BY <1>0, <1>3, <1>5, DoneShape
  <2>5. QED BY <1>0, <1>1, <1>5, <1>6, <1>9, <2>1, <2>3, <2>4, StillCarries
<1>10. CASE UNCHANGED <<rows, muddled>>
  BY <1>0, <1>1, <1>9, <1>10 DEF Still, TableInv, Typed
<1>11. ASSUME NEW z \in Listed(x),
              rows' = {IF y.id = x.id THEN [y EXCEPT !.ext = z.ext] ELSE y : y \in rows},
              muddled' = IF z.name = x.name THEN muddled ELSE muddled \cup {z.name, x.name}
       PROVE  DnsInv'
  <2>1. /\ z \in zone /\ z \in Entry /\ z.provider = x.provider /\ x \in Row
        /\ z.ext \in Ids /\ z.ext <= made
    BY <1>0 DEF Listed, TableInv, Numbered, Entry
  <2>2. /\ muddled \subseteq muddled' /\ muddled' \subseteq Mark
        /\ z.name = x.name \/ (z.name \in muddled' /\ x.name \in muddled')
    BY <1>0, <1>11, <2>1 DEF TableInv, Typed, Mark, Row, Entry
  <2>3. CASE \A y \in rows : y.id # x.id
    <3>1. rows' = {y : y \in rows}
      BY <1>11, <2>3
    <3>2. rows' = rows
      BY <3>1
    <3>3. QED BY <1>1, <1>9, <2>2, <3>2 DEF Still
  <2>4. ASSUME NEW y \in rows, y.id = x.id PROVE DnsInv'
    <3>1. y \in Row /\ y.name = x.name /\ y.provider = x.provider /\ x.name \in Name
      BY <1>0, <1>7, <2>1, <2>4 DEF Row
    <3>n. PICK v : v = [y EXCEPT !.ext = z.ext]
      OBVIOUS
    <3>2. /\ v \in Row /\ v.id = y.id /\ v.provider = y.provider /\ v.name = y.name
          /\ v.ext = z.ext /\ v.node = y.node /\ v.content = y.content
      BY <2>1, <3>1, <3>n DEF Row
    <3>3. \A u \in rows : u.id = x.id => u = y
      BY <1>0, <2>4 DEF TableInv, Unique
    <3>4. rows' = (rows \ {y}) \cup {v}
      <4>1. rows' = {IF u = y THEN v ELSE u : u \in rows}
        BY <1>11, <2>4, <3>3, <3>n
      <4>2. QED BY <2>4, <4>1
    <3>5. Typed'
      BY <1>0, <1>1, <1>5, <2>2, <3>2, <3>4 DEF TableInv, Typed, Ids
    <3>6. Numbered' /\ Unique'
      <4>1. \A u \in rows' : u.id <= made' /\ u.ext <= made'
        BY <1>0, <1>1, <2>1, <2>4, <3>2, <3>4 DEF TableInv, Numbered
      <4>2. \A u \in rows :
              u.id = v.id \/ (u.provider = v.provider /\ u.name = v.name) => u = y
        BY <1>0, <2>4, <3>2 DEF TableInv, Unique
      <4>3. \A u, w \in rows' :
              u.id = w.id \/ (u.provider = w.provider /\ u.name = w.name) => u = w
        BY <1>0, <3>4, <4>2 DEF TableInv, Unique
      <4>4. QED BY <1>0, <1>1, <4>1, <4>3 DEF TableInv, Numbered, Unique
    <3>7. Harmless(q) /\ StaysUnsure(q)
      <4>1. \A u \in Row \cup Entry : Known(q, u.name)
        BY <1>0 DEF Known, Mark, Row, Entry
      <4>2. Untouched(q) /\ StaysUnsure(q)
        BY <1>0, <4>1 DEF Untouched, StaysUnsure
      <4>3. Descends(q)
        BY <2>4, <3>2, <3>4 DEF Descends
      <4>4. StaysAlike
        BY <1>1, <2>2 DEF StaysAlike, Alike
      <4>5. QED BY <1>0, <1>1, <2>2, <3>5, <4>2, <4>3, <4>4 DEF Harmless, Typed
    <3>8. Sound(request[r])'
      <4>1. \A u \in rows' : \E w \in rows : w.id = u.id /\ w.name = u.name /\ w.provider = u.provider
        BY <2>4, <3>2, <3>4
      <4>2. QED BY <1>8, <2>2, <3>7, <4>1 DEF Harmless
    <3>9. \A u \in rows' : Alike(u)'
      <4>1. \A w \in zone : w.ext = z.ext => w = z
        BY <1>0, <2>1 DEF TableInv, Unique
      <4>2. Alike(v)'
        BY <1>1, <2>1, <2>2, <3>1, <3>2, <4>1 DEF Alike
      <4>3. \A u \in rows : Alike(u)'
        BY <1>1, <2>2 DEF DnsInv, Alike
      <4>4. QED BY <3>4, <4>2, <4>3
    <3>10. ASSUME y.name \notin muddled' PROVE v = y
      <4>1. z.name = y.name /\ z.provider = y.provider /\ y.name \in q.about /\ y.name \notin muddled
        BY <1>0, <2>1, <2>2, <3>1, <3>10 DEF Mark
      <4>2. z.ext = y.ext
        BY <1>0, <2>1, <2>4, <4>1, OneEntry
      <4>3. QED BY <3>1, <3>n, <4>2 DEF Row
    <3>11. ASSUME NEW w \in zone', w.name \notin muddled' PROVE Backed(w)'
      <4>1. Backed(w)
        BY <1>1, <2>2, <3>11 DEF DnsInv
      <4>2. CASE \E u \in rows : u.provider = w.provider /\ u.name = w.name /\ u.ext = w.ext
        BY <3>4, <3>10, <3>11, <4>2 DEF Backed
      <4>3. CASE \E s \in Request : request[s].pc = "insert" /\ w \in request[s].todo
        BY <1>0, <1>5, <4>3 DEF Backed, Bystanders
      <4>4. QED BY <4>1, <4>2, <4>3 DEF Backed
    <3>12. ASSUME NEW u \in rows', u.node # NoNode, u.name \notin muddled' PROVE Kept(u)'
      <4>1. u \in rows
        BY <2>4, <3>2, <3>4, <3>10, <3>12
      <4>2. Kept(u)
        BY <2>2, <3>12, <4>1 DEF DnsInv
      <4>3. QED BY <1>0, <1>1, <1>5, <4>2 DEF Kept, Bystanders
    <3>13. request'[r].about \subseteq q.about
      BY <1>0, <1>3, <1>5, DoneShape
    <3>14. Carries(r)
      BY <1>1, <1>5, <1>6, <3>5, <3>6, <3>7, <3>8, <3>9, <3>11, <3>12, <3>13 DEF Carries
    <3>15. QED BY <3>14, CarriesStep
  <2>5. QED BY <2>3, <2>4
<1>12. QED BY <1>2, <1>10, <1>11
-----------------------------------------------------------------------------
(* Nodes, and the whole.                                                   *)

\* Rows that lose their node keep all else.
LEMMA DeleteNodeStep ==
    ASSUME DnsInv, NEW n \in Node, DeleteNode(n)
    PROVE  DnsInv'
<1>0. /\ TableInv /\ (\A s \in Request : Sound(request[s])) /\ rows \subseteq Row /\ NoNode \notin Node
  BY DnsAssumption DEF DnsInv, TableInv, Typed
<1>1. UNCHANGED <<default, zone, made, request, answers, muddled, unsure>>
  BY DEF DeleteNode, history
<1>2. rows' = {IF x.node = n THEN [x EXCEPT !.node = NoNode] ELSE x : x \in rows}
  BY DEF DeleteNode
<1>3. \A y \in rows' : \E x \in rows :
        /\ y \in Row /\ y.id = x.id /\ y.provider = x.provider /\ y.name = x.name /\ y.ext = x.ext
        /\ y.content = x.content /\ (y = x \/ y.node = NoNode)
        /\ y = IF x.node = n THEN [x EXCEPT !.node = NoNode] ELSE x
  BY <1>0, <1>2 DEF Row
<1>4. \A x \in rows : \E y \in rows' :
        /\ y.id = x.id /\ y.provider = x.provider /\ y.name = x.name /\ y.ext = x.ext
  <2> SUFFICES ASSUME NEW x \in rows
               PROVE  \E y \in rows' : /\ y.id = x.id /\ y.provider = x.provider
                                       /\ y.name = x.name /\ y.ext = x.ext
    OBVIOUS
  <2>1. PICK y : y = IF x.node = n THEN [x EXCEPT !.node = NoNode] ELSE x
    OBVIOUS
  <2>2. y.id = x.id /\ y.provider = x.provider /\ y.name = x.name /\ y.ext = x.ext
    BY <1>0, <2>1 DEF Row
  <2>3. QED BY <1>2, <2>1, <2>2
<1>5. \A y \in rows' : y.node # NoNode => y \in rows
  BY <1>3
<1>6. Typed'
  <2>1. node' \in [Node -> [addr : 0..MaxAddr, name : Name]]
    BY <1>0, DnsAssumption DEF TableInv, Typed, DeleteNode
  <2>2. changes' \in 0..MaxChanges /\ rows' \subseteq Row
    BY <1>0, <1>3, DnsAssumption DEF TableInv, Typed, DeleteNode
  <2>3. QED BY <1>0, <1>1, <2>1, <2>2 DEF TableInv, Typed, Ids
<1>7. Unique'
  <2>1. ASSUME NEW u \in rows', NEW w \in rows',
               u.id = w.id \/ (u.provider = w.provider /\ u.name = w.name)
        PROVE  u = w
    <3>1. PICK x \in rows : /\ u.id = x.id /\ u.provider = x.provider /\ u.name = x.name
                            /\ u = IF x.node = n THEN [x EXCEPT !.node = NoNode] ELSE x
      BY <1>3
    <3>2. PICK y \in rows : /\ w.id = y.id /\ w.provider = y.provider /\ w.name = y.name
                            /\ w = IF y.node = n THEN [y EXCEPT !.node = NoNode] ELSE y
      BY <1>3
    <3>3. x = y
      BY <1>0, <2>1, <3>1, <3>2 DEF TableInv, Unique
    <3>4. QED BY <3>1, <3>2, <3>3
  <2>2. QED BY <1>0, <1>1, <2>1 DEF TableInv, Unique
<1>8. Numbered' /\ Counted' /\ Reserved' /\ Apart'
  BY <1>0, <1>1, <1>3 DEF TableInv, Numbered, Counted, Past, Reserved, Apart
<1>9. ASSUME NEW s \in Request PROVE Sound(request[s])'
  <2> DEFINE q == request[s]
  <2>0. Sound(q) /\ Formed(q) /\ request'[s] = q
    BY <1>0, <1>1 DEF Sound
  <2>1. q.pc \in Early \/ q.op = "remove" => q.node # NoNode
    BY <1>0, <2>0 DEF Formed
  <2>2. Formed(request[s])'
    BY <2>0 DEF Formed
  <2>3. (\A x \in request[s].todo : x.ext <= made /\ Alike(x))'
    BY <1>1, <2>0 DEF Sound, Alike
  <2>4. Named(request[s])'
    BY <1>1, <1>3, <2>0 DEF Sound, Named, Known
  <2>5. Confined(request[s])'
    BY <1>1, <1>5, <2>0, <2>1 DEF Sound, Confined, RowsOf, Known
  <2>6. Listing(request[s])'
    <3> SUFFICES ASSUME q.op = "remove", NEW y \in rows'
                 PROVE  /\ y.node = q.node => y.name \in muddled \/ \E x \in q.todo : x.id = y.id
                        /\ \A x \in q.todo : x.id = y.id => y.node \in {q.node, NoNode}
      BY <1>1, <2>0 DEF Listing, RowsOf
    <3>1. y \in rows \/ y.node = NoNode
      BY <1>5
    <3>2. QED BY <2>0, <2>1, <3>1 DEF Sound, Listing, RowsOf
  <2>7. Followed(request[s])'
    <3> SUFFICES ASSUME q.pc \in {"zone", "row", "delete", "remove"}, NEW x \in q.todo, x.name \notin muddled
                 PROVE  \E y \in rows' : y.id = x.id /\ y.ext = x.ext
      BY <1>1, <2>0 DEF Followed
    <3>1. PICK y \in rows : y.id = x.id /\ y.ext = x.ext
      BY <2>0 DEF Sound, Followed
    <3>2. QED BY <1>4, <3>1
  <2>8. Standing(request[s])'
    BY <1>1, <1>3, <2>0 DEF Sound, Standing
  <2>9. Written(request[s])' /\ Deleted(request[s])'
    BY <1>1, <2>0 DEF Sound, Written, Deleted
  <2>10. QED BY <2>2, <2>3, <2>4, <2>5, <2>6, <2>7, <2>8, <2>9 DEF Sound
<1>10. \A y \in rows' : Alike(y)'
  BY <1>1, <1>3 DEF DnsInv, Alike
<1>11. ASSUME NEW z \in zone', z.name \notin muddled' PROVE Backed(z)'
  <2>1. Backed(z)
    BY <1>1, <1>11 DEF DnsInv
  <2>2. CASE \E y \in rows : y.provider = z.provider /\ y.name = z.name /\ y.ext = z.ext
    <3>1. PICK y \in rows : y.provider = z.provider /\ y.name = z.name /\ y.ext = z.ext
      BY <2>2
    <3>2. QED BY <1>4, <3>1 DEF Backed
  <2>3. CASE \E s \in Request : request[s].pc = "insert" /\ z \in request[s].todo
    BY <1>1, <2>3 DEF Backed
  <2>4. QED BY <2>1, <2>2, <2>3 DEF Backed
<1>12. ASSUME NEW y \in rows', y.node # NoNode, y.name \notin muddled' PROVE Kept(y)'
  <2>1. Kept(y)
    BY <1>1, <1>5, <1>12 DEF DnsInv
  <2>2. QED BY <1>1, <2>1 DEF Kept
<1>13. ASSUME NEW a \in answers' PROVE a.name \in Name /\ Held(a)'
  <2>1. a.name \in Name /\ Held(a)
    BY <1>1, <1>13 DEF DnsInv
  <2>2. Settled(a.provider, a.name)' => Settled(a.provider, a.name)
    <3> SUFFICES ASSUME Settled(a.provider, a.name)',
                        NEW x \in rows, x.provider = a.provider, x.name = a.name
                 PROVE  x.id \notin unsure
      BY DEF Settled
    <3>1. PICK y \in rows' : y.id = x.id /\ y.provider = x.provider /\ y.name = x.name
      BY <1>4
    <3>2. QED BY <1>1, <3>1 DEF Settled
  <2>3. Recorded(a.provider, a.name)' = Recorded(a.provider, a.name)
    BY <1>1 DEF Recorded
  <2>4. QED BY <1>1, <2>1, <2>2, <2>3 DEF Held
<1>14. TableInv'
  BY <1>6, <1>7, <1>8 DEF TableInv
<1>15. QED BY <1>9, <1>10, <1>11, <1>12, <1>13, <1>14 DEF DnsInv

\* Nothing else in the invariant speaks of the nodes and the default providers.
LEMMA NodeEdited ==
    ASSUME DnsInv, UNCHANGED <<rows, zone, made, request, history>>, Typed'
    PROVE  DnsInv'
<1>0. UNCHANGED <<answers, muddled, unsure>>
  BY DEF history
<1>1. TableInv'
  BY <1>0 DEF DnsInv, TableInv, Counted, Past, Numbered, Unique, Reserved, Apart
<1>2. ASSUME NEW s \in Request PROVE Sound(request[s])'
  <2>1. Sound(request[s])
    BY DEF DnsInv
  <2>2. QED
    BY <1>0, <2>1
    DEF Sound, Formed, Alike, Named, Confined, RowsOf, Known, Listing, Followed, Standing, Written, Deleted
<1>3. \A x \in rows' : Alike(x)'
  BY <1>0 DEF DnsInv, Alike
<1>4. \A z \in zone' : z.name \notin muddled' => Backed(z)'
  BY <1>0 DEF DnsInv, Backed
<1>5. \A y \in rows' : y.node # NoNode /\ y.name \notin muddled' => Kept(y)'
  BY <1>0 DEF DnsInv, Kept
<1>6. \A a \in answers' : a.name \in Name /\ Held(a)'
  BY <1>0 DEF DnsInv, Held, Settled, Recorded
<1>7. QED BY <1>1, <1>2, <1>3, <1>4, <1>5, <1>6 DEF DnsInv

LEMMA EditNodeStep ==
    ASSUME DnsInv, NEW n \in Node, EditNode(n)
    PROVE  DnsInv'
<1>1. Typed /\ changes' \in 0..MaxChanges /\ UNCHANGED <<default, rows, zone, made, request, history>>
  BY DnsAssumption DEF DnsInv, TableInv, Typed, EditNode, tables
<1>2. node' \in [Node -> [addr : 0..MaxAddr, name : Name]]
  BY <1>1, DnsAssumption DEF Typed, EditNode
<1>3. Typed'
  BY <1>1, <1>2 DEF Typed, history, Ids
<1>4. QED BY <1>1, <1>3, NodeEdited

LEMMA DnsStart ==
    ASSUME DnsInit
    PROVE  DnsInv
<1>1. Typed
  <2>1. request \in [Request -> RequestType]
    BY IdleShape DEF DnsInit
  <2>2. QED BY <2>1, DnsAssumption DEF DnsInit, Typed
<1>2. \A r \in Request : request[r] = Idle
  BY DEF DnsInit
<1>3. Counted
  <2>1. IsFiniteSet(Past) /\ Cardinality(Past) \in Nat
    BY DnsAssumption, FS_Subset, FS_CardinalityType DEF Past
  <2>2. QED BY <2>1 DEF Counted, DnsInit
<1>4. TableInv
  BY <1>1, <1>2, <1>3, IdleShape DEF TableInv, Numbered, Unique, Reserved, Apart, DnsInit
<1>5. \A r \in Request : Sound(request[r])
  BY <1>2, IdleShape
  DEF Sound, Formed, Named, Confined, Listing, Followed, Standing, Written, Deleted, Early, Snapshot
<1>6. QED BY <1>4, <1>5 DEF DnsInv, DnsInit

LEMMA DnsStep ==
    ASSUME DnsInv, [DnsNext]_dnsVars
    PROVE  DnsInv'
<1>1. CASE \E n \in Node : EditNode(n) \/ DeleteNode(n)
  BY <1>1, EditNodeStep, DeleteNodeStep
<1>2. ASSUME NEW r \in Request,
             \/ \E n \in Node : Ensure(r, n) \/ CreateRecord(r, n) \/ RemoveDomain(r, n)
             \/ UpdateRecord(r) \/ DeleteRecord(r) \/ Sync(r)
             \/ \E p \in Provider : UnsetOthers(r, p)
             \/ ReadProvider(r) \/ Find(r) \/ ZoneCreate(r) \/ RowCreate(r)
             \/ ReadRow(r) \/ ZoneUpdate(r) \/ RowUpdate(r) \/ ZoneDelete(r) \/ RowDelete(r)
             \/ SyncRow(r) \/ SetDefault(r) \/ Die(r)
      PROVE  DnsInv'
  BY <1>2, EnsureStep, CreateRecordStep, RemoveDomainStep, UpdateRecordStep, DeleteRecordStep,
     SyncStep, UnsetOthersStep, ReadProviderStep, FindStep, ZoneCreateStep, RowCreateStep,
     ReadRowStep, ZoneUpdateStep, RowUpdateStep, ZoneDeleteStep, RowDeleteStep, SyncRowStep,
     SetDefaultStep, DieStep
<1>3. CASE UNCHANGED dnsVars
  <2>1. Typed' /\ UNCHANGED <<rows, zone, made, request, history>>
    BY <1>3 DEF DnsInv, TableInv, Typed, dnsVars, edited, tables, history, Ids
  <2>2. QED BY <2>1, NodeEdited
<1>4. QED BY <1>1, <1>2, <1>3 DEF DnsNext
-----------------------------------------------------------------------------
\* The invariant of the invariants below.
LEMMA DnsInvariant == DnsSpec => []DnsInv
BY DnsStart, DnsStep, PTL DEF DnsSpec

\* Types; that names are unique in a provider and numbers everywhere; and that
\* no row means the record of another provider, whatever requests have done to
\* each other and wherever they have died.
THEOREM DnsTypeCorrect == DnsSpec => []DnsTypeOK
<1>1. DnsInv => DnsTypeOK
  <2> SUFFICES ASSUME DnsInv PROVE DnsTypeOK
    OBVIOUS
  <2>1. Typed /\ Unique /\ Counted
    BY DEF DnsInv, TableInv
  <2>2. made \in 0..Cardinality(Request)
    <3>1. Past \subseteq Request
      BY DEF Past
    <3>2. Cardinality(Past) \in Nat /\ Cardinality(Request) \in Nat
          /\ Cardinality(Past) <= Cardinality(Request)
      BY <3>1, DnsAssumption, FS_Subset, FS_CardinalityType
    <3>3. QED BY <2>1, <3>2 DEF Counted, Typed
  <2>3. \A x \in rows, z \in zone : x.ext = z.ext => x.provider = z.provider
    BY DEF DnsInv, Alike
  <2>4. QED BY <2>1, <2>2, <2>3 DEF Typed, Unique, DnsTypeOK
<1>2. QED BY <1>1, DnsInvariant, PTL

\* A record is at the place of its name.
LEMMA RecordedThere ==
    ASSUME zone \subseteq Entry, NEW p, NEW d, ~Shared(p, d)
    PROVE  Resolved(p, Place(p, d)) = Recorded(p, d)
<1>1. \A z \in zone : z.at = Place(z.provider, z.name)
  BY DEF Entry
<1>2. {z \in zone : z.provider = p /\ z.at = Place(p, d)} = {z \in zone : z.provider = p /\ z.name = d}
  BY <1>1 DEF Shared
<1>3. QED BY <1>2 DEF Resolved, Recorded

\* What dns.service answered holds in the provider's zone until another request
\* touches the name, at the place where the provider's adapter writes the name:
\* for any number of nodes, names, providers and requests, and any cutting of
\* names, under the exceptions that AnswersHold lists.
THEOREM AnswersCorrect == DnsSpec => []AnswersHold
<1>1. DnsInv => AnswersHold
  <2> SUFFICES ASSUME DnsInv, NEW a \in answers, a.name \notin muddled,
                      Settled(a.provider, a.name), ~Shared(a.provider, a.name)
               PROVE  Resolved(a.provider, Place(a.provider, a.name)) = IF a.gone THEN {} ELSE {a.ip}
    BY DEF AnswersHold, Settled
  <2>1. Recorded(a.provider, a.name) = IF a.gone THEN {} ELSE {a.ip}
    BY DEF DnsInv, Held
  <2>2. zone \subseteq Entry
    BY DEF DnsInv, TableInv, Typed
  <2>3. QED BY <2>1, <2>2, RecordedThere
<1>2. QED BY <1>1, DnsInvariant, PTL
-----------------------------------------------------------------------------
(* NodeHealth: its types.                                                  *)

\* Capped never leaves its range.
LEMMA CappedType ==
    ASSUME NEW max \in Nat, NEW n \in Nat
    PROVE  /\ Capped(n, max) \in 0..max
           /\ Capped(n, max) <= n
           /\ n < max => Capped(n, max) = n
           /\ n >= max => Capped(n, max) = max
BY DEF Capped

\* What the bound needs of multiplication.
LEMMA Product ==
    ASSUME NEW a \in Nat, NEW b \in Nat
    PROVE  a * b \in Nat /\ a * (b + 1) = a * b + a
<1>1. a * b \in Nat
  OBVIOUS
<1>2. a * (b + 1) = a * b + a
  OBVIOUS
<1>3. QED BY <1>1, <1>2

\* The prover does not add primed variables unless it is told what a sum is.
LEMMA Sum == \A a, b \in Nat : a + b \in Nat
OBVIOUS

LEMMA ProductMonotone ==
    ASSUME NEW a \in Nat, NEW b \in Nat, NEW c \in Nat, b <= c
    PROVE  a * b <= a * c
OBVIOUS

USE TimeoutAssumption, ThresholdAssumption, BoundAssumption

LEMMA LimitType == Limit \in Nat /\ Limit > 2
<1>1. CheckEvery \in Nat /\ Excluded + MaxFailures \in Nat
  BY DEF Excluded
<1>2. CheckEvery * (Excluded + MaxFailures) \in Nat
  BY <1>1, Product
<1>3. QED BY <1>2 DEF Limit
-----------------------------------------------------------------------------
(* The types.                                                              *)

LEMMA TypeInit == Init => TypeOK
<1> SUFFICES ASSUME Init PROVE TypeOK
  OBVIOUS
<1>1. reporting \in BOOLEAN
  BY Zenon DEF Init
<1>2. job \in [pc : {"idle", "read", "unhealthy", "mark", "healthy", "markOnline", "ungrouped"},
               status : {"online", "offline", "maintenance"},
               silent : 0..Limit, age : 0..1]
  BY LimitType DEF Init, NoJob
<1>3. QED BY <1>1, <1>2, LimitType DEF Init, TypeOK, Excluded

LEMMA TypeStep == TypeOK /\ [Next]_vars => TypeOK'
<1> SUFFICES ASSUME TypeOK, [Next]_vars PROVE TypeOK'
  OBVIOUS
<1> USE LimitType DEF TypeOK, keys, row, bounds, Excluded
<1>1. CASE Register BY <1>1 DEF Register
<1>2. CASE LoadChanges BY <1>2 DEF LoadChanges
<1>3. CASE Report BY <1>3 DEF Report, StatusKey
<1>4. CASE ReportRow
  <2>1. reporting' \in BOOLEAN
    BY <1>4, Zenon DEF ReportRow
  <2>2. QED BY <1>4, <2>1 DEF ReportRow
<1>5. CASE SetStatus BY <1>5 DEF SetStatus
<1>6. CASE SetGroup BY <1>6 DEF SetGroup
<1>7. CASE StartCheck BY <1>7 DEF StartCheck
<1>8. CASE Evaluate BY <1>8 DEF Evaluate
<1>9. CASE CountFailure
  <2>1. /\ Capped(count + 1, Unhealthy) \in 0..Unhealthy
        /\ Capped(judged + 1, 3) \in 0..3
    BY DEF Capped
  <2>2. count' \in 0..Unhealthy /\ recovery' = 0 /\ judged' \in 0..3
    BY <1>9, <2>1 DEF CountFailure
  <2>3. QED BY <1>9, <2>2 DEF CountFailure
<1>10. CASE MarkOffline BY <1>10 DEF MarkOffline
<1>11. CASE CountSuccess
  <2>1. recovery' \in 0..Healthy /\ count' \in 0..Unhealthy
    BY <1>11, CappedType DEF CountSuccess, Cleared
  <2>2. QED BY <1>11, <2>1 DEF CountSuccess
<1>12. CASE MarkOnline BY <1>12 DEF MarkOnline
<1>13. CASE CheckUngrouped BY <1>13 DEF CheckUngrouped, NoJob
<1>14. CASE FailCheck BY <1>14 DEF FailCheck, NoJob
<1>15. CASE Tick
  <2>0. /\ Capped(silent + 1, Limit) \in 0..Limit
        /\ Capped(watched + 1, Limit) \in 0..Limit
        /\ Capped(job.silent + 1, Limit) \in 0..Limit
    BY DEF Capped
  <2>1. /\ silent' \in 0..Limit /\ watched' \in 0..Limit
        /\ told' \in {"none", "low", "high"} /\ due' \in 0..CheckEvery
    BY <1>15, <2>0 DEF Tick
  <2>2. job' \in [pc : {"idle", "read", "unhealthy", "mark", "healthy", "markOnline", "ungrouped"},
                  status : {"online", "offline", "maintenance"},
                  silent : 0..Limit, age : 0..1]
    <3>1. job' = job \/ job' = [pc |-> job.pc, status |-> job.status,
                                silent |-> Capped(job.silent + 1, Limit), age |-> 1]
      BY <1>15 DEF Tick
    <3>2. QED BY <3>1, <2>0
  <2>3. QED BY <1>15, <2>1, <2>2 DEF Tick
<1>16. CASE Expire BY <1>16 DEF Expire
<1>17. CASE UNCHANGED vars BY <1>17 DEF vars
<1>18. QED
  BY <1>1, <1>2, <1>3, <1>4, <1>5, <1>6, <1>7, <1>8, <1>9, <1>10, <1>11,
     <1>12, <1>13, <1>14, <1>15, <1>16, <1>17 DEF Next, CheckStep

\* The rows, the counters in Redis and the steps of the job keep their types.
THEOREM HealthTypeCorrect == Spec => []TypeOK
<1>1. QED BY TypeInit, TypeStep, PTL DEF Spec
-----------------------------------------------------------------------------
(* A node found unhealthy three times in a row.  The counter in Redis      *)
(* never falls behind the findings: what clears it is a good check, and    *)
(* the job that follows one up still knows of none since.                  *)

JudgedCounted ==
    /\ judged <= count
    /\ job.pc = "markOnline" => judged = 0
    /\ group # "on" => judged = 0

(* A node that died in a checked group.  A check whose row was read when   *)
(* the node had been silent too long is a strike, or it fails; between two *)
(* checks pass CheckEvery intervals, of which due are still to come.  So   *)
(* while the strikes are too few, the time the node has been watched is at *)
(* most the timeout and a period per strike, failure and pending check.    *)

\* The check that runs will count a failure, if it does not fail itself.
Pending == IF job.pc \in {"read", "unhealthy"} THEN 1 ELSE 0

Strikes == count + failures + Pending

\* The time that so many strikes account for.
Budget(n) == Timeout + CheckEvery * (n + 1)

WatchedBounded ==
    /\ group # "on" => watched = 0
    /\ watched <= silent
    /\ job.pc # "idle" => watched <= job.silent /\ due + job.age = CheckEvery
    /\ job.pc \in {"healthy", "markOnline"} => watched + due <= Timeout + CheckEvery
    /\ count < Excluded => watched + due <= Budget(Strikes)

HealthInv == TypeOK /\ JudgedCounted /\ WatchedBounded
-----------------------------------------------------------------------------
LEMMA BudgetStep ==
    ASSUME NEW n \in Nat
    PROVE  /\ Budget(n) \in Nat
           /\ Budget(n) >= Timeout + CheckEvery
           /\ Budget(n + 1) = Budget(n) + CheckEvery
<1>1. CheckEvery * n \in Nat /\ CheckEvery * (n + 1) = CheckEvery * n + CheckEvery
  BY Product
<1>2. CheckEvery * (n + 1) \in Nat
      /\ CheckEvery * ((n + 1) + 1) = CheckEvery * (n + 1) + CheckEvery
  BY Product
<1>3. QED BY <1>1, <1>2 DEF Budget

LEMMA BudgetMonotone ==
    ASSUME NEW m \in Nat, NEW n \in Nat, m <= n
    PROVE  Budget(m) <= Budget(n)
<1>1. CheckEvery * (m + 1) <= CheckEvery * (n + 1)
  BY ProductMonotone
<1>2. CheckEvery * (m + 1) \in Nat /\ CheckEvery * (n + 1) \in Nat
  BY Product
<1>3. QED BY <1>1, <1>2 DEF Budget

LEMMA StrikesType == TypeOK => Strikes \in Nat
BY DEF TypeOK, Strikes, Pending

\* The counter is never behind the findings.
LEMMA JudgedStep == TypeOK /\ JudgedCounted /\ [Next]_vars => JudgedCounted'
<1> SUFFICES ASSUME TypeOK, JudgedCounted, [Next]_vars PROVE JudgedCounted'
  OBVIOUS
<1> USE DEF JudgedCounted, row, keys, bounds
<1>1. CASE CountFailure
  <2>1. /\ Capped(judged + 1, 3) <= Capped(count + 1, Unhealthy)
        /\ judged <= Capped(count + 1, Unhealthy)
    BY DEF Capped, TypeOK, Excluded
  <2>2. /\ judged' <= count' /\ group' = group
        /\ group # "on" => judged' = judged
    BY <1>1, <2>1 DEF CountFailure, Excluded
  <2>3. job'.pc # "markOnline"
    BY <1>1 DEF CountFailure, TypeOK
  <2>4. QED BY <2>2, <2>3
<1>2. CASE CountSuccess
  <2>1. judged' = 0 /\ count' \in Nat
    BY <1>2 DEF CountSuccess, Cleared, TypeOK
  <2>2. QED BY <2>1
<1>3. CASE StartCheck \/ Evaluate \/ MarkOffline \/ MarkOnline \/ CheckUngrouped \/ FailCheck
  <2>1. job'.pc # "markOnline"
    BY <1>3 DEF StartCheck, Evaluate, MarkOffline, MarkOnline, CheckUngrouped, FailCheck,
                NoJob, TypeOK
  <2>2. judged' = judged /\ group' = group /\ (count' = count \/ (judged = 0 /\ count' = 0))
    BY <1>3 DEF StartCheck, Evaluate, MarkOffline, MarkOnline, CheckUngrouped, FailCheck
  <2>3. QED BY <2>1, <2>2
<1>4. CASE Tick
  <2>1. judged' = judged /\ count' = count /\ group' = group
    BY <1>4 DEF Tick
  <2>2. job'.pc = job.pc
    BY <1>4 DEF Tick, TypeOK
  <2>3. QED BY <2>1, <2>2
<1>5. CASE Register \/ LoadChanges \/ Report \/ ReportRow \/ SetStatus \/ UNCHANGED vars
  BY <1>5 DEF Register, LoadChanges, Report, StatusKey, ReportRow, SetStatus, vars
<1>6. CASE SetGroup BY <1>6 DEF SetGroup, TypeOK
<1>7. CASE Expire BY <1>7 DEF Expire
<1>8. QED
  BY <1>1, <1>2, <1>3, <1>4, <1>5, <1>6, <1>7 DEF Next, CheckStep
\* No time watched, or a check that found the node alive: the budget holds.
LEMMA BudgetFits ==
    ASSUME TypeOK', watched' + due' <= Timeout + CheckEvery
    PROVE  watched' + due' <= Budget(Strikes)'
<1>1. Strikes' \in Nat
  <2>1. count' \in Nat /\ failures' \in Nat
    BY DEF TypeOK
  <2>2. Pending' \in Nat
    BY DEF Pending
  <2>3. QED BY <2>1, <2>2, Sum DEF Strikes
<1>2. Budget(Strikes') >= Timeout + CheckEvery /\ Budget(Strikes') \in Nat
  BY <1>1, BudgetStep
<1>3. Budget(Strikes)' = Budget(Strikes')
  BY DEF Budget
<1>4. watched' + due' \in Nat
  <2>1. watched' \in Nat /\ due' \in Nat
    BY LimitType DEF TypeOK
  <2>2. QED BY <2>1, Sum
<1>5. QED BY <1>2, <1>3, <1>4

\* The time watched stays within the budget of the strikes.
LEMMA WatchedStep == TypeOK /\ WatchedBounded /\ [Next]_vars => WatchedBounded'
<1> SUFFICES ASSUME TypeOK, WatchedBounded, [Next]_vars PROVE WatchedBounded'
  OBVIOUS
<1>0. TypeOK'
  BY TypeStep
<1>s. Strikes \in Nat /\ Strikes' \in Nat /\ Budget(Strikes)' = Budget(Strikes')
  <2>1. count \in Nat /\ failures \in Nat /\ count' \in Nat /\ failures' \in Nat
    BY <1>0 DEF TypeOK
  <2>2. Pending \in Nat /\ Pending' \in Nat
    BY DEF Pending
  <2>3. Budget(Strikes)' = Budget(Strikes')
    BY DEF Budget
  <2>4. QED BY <2>1, <2>2, <2>3, Sum DEF Strikes
<1>b. /\ Budget(Strikes) \in Nat /\ Budget(Strikes') \in Nat
      /\ Budget(Strikes + 1) = Budget(Strikes) + CheckEvery
      /\ Strikes <= Strikes' => Budget(Strikes) <= Budget(Strikes')
  BY <1>s, BudgetStep, BudgetMonotone
<1> USE DEF WatchedBounded, row, keys, bounds
\* Steps after which the node has not been watched.
<1>1. CASE Register \/ ReportRow \/ SetGroup
  <2>1. watched' = 0 /\ job' = job /\ due' = due
    BY <1>1 DEF Register, ReportRow, SetGroup
  <2>2. watched' + due' <= Timeout + CheckEvery
    BY <2>1 DEF TypeOK
  <2>3. watched' <= silent' /\ (job'.pc # "idle" => watched' <= job'.silent)
    BY <2>1, <1>0, LimitType DEF TypeOK
  <2>4. QED BY <2>1, <2>2, <2>3, BudgetFits, <1>0
\* Steps that change nothing of this.
<1>2. CASE LoadChanges \/ Report \/ SetStatus \/ UNCHANGED vars
  <2>1. UNCHANGED <<group, watched, silent, job, count, failures, due>>
    BY <1>2 DEF LoadChanges, Report, StatusKey, SetStatus, vars
  <2>2. Strikes' = Strikes
    BY <2>1 DEF Strikes, Pending
  <2>3. QED BY <2>1, <2>2, <1>s
<1>3. CASE Expire
  <2>1. watched' = 0 /\ UNCHANGED <<group, watched, silent, job, due>>
    BY <1>3 DEF Expire
  <2>2. watched' + due' <= Timeout + CheckEvery
    BY <2>1 DEF TypeOK
  <2>3. QED BY <2>1, <2>2, BudgetFits, <1>0
\* A check that starts may become a strike; until now due was zero.
<1>4. CASE StartCheck
  <2>1. /\ UNCHANGED <<group, watched, silent, count, failures>>
        /\ due = 0 /\ due' = CheckEvery /\ job.pc = "idle"
        /\ job'.silent = silent /\ job'.age = 0
        /\ job'.pc = IF group = "on" THEN "read" ELSE "ungrouped"
    BY <1>4 DEF StartCheck
  <2>2. CASE group = "on"
    <3>1. Strikes' = Strikes + 1
      BY <2>1, <2>2, <1>s DEF Strikes, Pending, TypeOK
    <3>2. count < Excluded => watched' + due' <= Budget(Strikes')
      BY <2>1, <3>1, <1>b DEF TypeOK
    <3>3. QED BY <2>1, <2>2, <3>2, <1>s DEF TypeOK
  <2>3. CASE group # "on"
    <3>1. watched' + due' <= Timeout + CheckEvery
      BY <2>1, <2>3
    <3>2. QED BY <2>1, <2>3, <3>1, BudgetFits, <1>0 DEF TypeOK
  <2>4. QED BY <2>2, <2>3
<1>5. CASE Evaluate
  <2>1. /\ UNCHANGED <<group, watched, silent, count, failures, due>>
        /\ job.pc = "read" /\ job'.silent = job.silent /\ job'.age = job.age
        /\ job'.pc = IF Evaluated THEN "healthy" ELSE "unhealthy"
    BY <1>5 DEF Evaluate, TypeOK
  <2>2. CASE Evaluated
    <3>1. watched' + due' <= Timeout + CheckEvery
      BY <2>1, <2>2 DEF Evaluated, TypeOK
    <3>2. QED BY <2>1, <3>1, BudgetFits, <1>0
  <2>3. CASE ~ Evaluated
    <3>1. Strikes' = Strikes
      BY <2>1, <2>3 DEF Strikes, Pending
    <3>2. QED BY <2>1, <2>3, <3>1, <1>s
  <2>4. QED BY <2>2, <2>3
\* The pending strike is counted.
<1>6. CASE CountFailure
  <2>1. /\ UNCHANGED <<group, watched, silent, failures, due>>
        /\ job.pc = "unhealthy" /\ job'.silent = job.silent /\ job'.age = job.age
        /\ job'.pc \in {"mark", "ungrouped"} /\ count' = Capped(count + 1, Unhealthy)
    BY <1>6 DEF CountFailure, TypeOK
  <2>2. count' < Excluded => count' = count + 1
    BY <2>1 DEF Capped, TypeOK, Excluded
  <2>3. count' < Excluded => Strikes' = Strikes /\ count < Excluded
    BY <2>1, <2>2 DEF Strikes, Pending, TypeOK, Excluded
  <2>4. QED BY <2>1, <2>3, <1>s
\* A good check clears the counter only of a node that was alive a moment ago.
<1>7. CASE CountSuccess \/ MarkOnline
  <2>1. /\ UNCHANGED <<group, watched, silent, failures, due>>
        /\ job.pc \in {"healthy", "markOnline"}
        /\ job'.silent = job.silent /\ job'.age = job.age
    BY <1>7 DEF CountSuccess, MarkOnline, TypeOK
  <2>2. watched' + due' <= Timeout + CheckEvery
    BY <2>1
  <2>3. QED BY <2>1, <2>2, BudgetFits, <1>0
<1>8. CASE MarkOffline \/ CheckUngrouped
  <2>1. /\ UNCHANGED <<group, watched, silent, count, failures, due>>
        /\ job.pc \in {"mark", "ungrouped"} /\ job'.pc \in {"ungrouped", "idle"}
        /\ job'.pc # "idle" => job'.silent = job.silent /\ job'.age = job.age
    BY <1>8 DEF MarkOffline, CheckUngrouped, NoJob, TypeOK
  <2>2. Strikes' = Strikes
    BY <2>1 DEF Strikes, Pending
  <2>3. QED BY <2>1, <2>2, <1>s
\* A check that fails is accounted for as a failure.
<1>9. CASE FailCheck
  <2>1. /\ UNCHANGED <<group, watched, silent, count, due>>
        /\ failures' = failures + 1 /\ job'.pc = "idle"
    BY <1>9 DEF FailCheck, NoJob
  <2>2. Strikes <= Strikes'
    BY <2>1 DEF Strikes, Pending, TypeOK
  <2>3. QED BY <2>1, <2>2, <1>s, <1>b DEF TypeOK
\* Time passes for the node and for the next check.
<1>10. CASE Tick
  <2>1. /\ UNCHANGED <<group, count, failures>>
        /\ due > 0 /\ due' = due - 1 /\ job.age = 0
        /\ silent' = Capped(silent + 1, Limit)
        /\ watched' = IF group = "on" /\ load = "down" THEN Capped(watched + 1, Limit) ELSE 0
    BY <1>10 DEF Tick
  <2>2. /\ job'.pc = job.pc
        /\ job.pc # "idle" => job'.age = 1 /\ job'.silent = Capped(job.silent + 1, Limit)
    BY <1>10 DEF Tick, TypeOK
  <2>3. Strikes' = Strikes
    BY <2>1, <2>2 DEF Strikes, Pending
  <2>4. watched' + due' <= watched + due /\ watched' <= silent'
    BY <2>1, LimitType DEF Capped, TypeOK
  <2>5. job'.pc # "idle" => watched' <= job'.silent /\ due' + job'.age = CheckEvery
    BY <2>1, <2>2, LimitType DEF Capped, TypeOK
  <2>6. count' < Excluded => watched' + due' <= Budget(Strikes')
    BY <2>1, <2>3, <2>4, <1>0, <1>b DEF TypeOK
  <2>7. job'.pc \in {"healthy", "markOnline"} => watched' + due' <= Timeout + CheckEvery
    <3>1. watched' + due' \in Nat /\ watched + due \in Nat
      <4>1. watched' \in Nat /\ due' \in Nat /\ watched \in Nat /\ due \in Nat
        BY <1>0, LimitType DEF TypeOK
      <4>2. QED BY <4>1, Sum
    <3>2. QED BY <3>1, <2>2, <2>4
  <2>8. group' # "on" => watched' = 0
    BY <2>1
  <2>9. QED BY <2>4, <2>5, <2>6, <2>7, <2>8, <1>s
<1>11. QED
  BY <1>1, <1>2, <1>3, <1>4, <1>5, <1>6, <1>7, <1>8, <1>9, <1>10 DEF Next, CheckStep
LEMMA HealthInit == Init => HealthInv
<1> SUFFICES ASSUME Init PROVE HealthInv
  OBVIOUS
<1>1. TypeOK
  BY TypeInit
<1>2. JudgedCounted
  BY DEF Init, JudgedCounted, NoJob
<1>3. WatchedBounded
  <2>1. Strikes = 0
    BY DEF Init, Strikes, Pending, NoJob
  <2>2. Budget(0) \in Nat /\ Budget(0) >= Timeout + CheckEvery
    BY BudgetStep
  <2>3. QED BY <2>1, <2>2, LimitType DEF Init, WatchedBounded, NoJob
<1>4. QED BY <1>1, <1>2, <1>3 DEF HealthInv

LEMMA HealthStep == HealthInv /\ [Next]_vars => HealthInv'
BY TypeStep, JudgedStep, WatchedStep DEF HealthInv

LEMMA HealthInvariant == Spec => []HealthInv
<1>1. QED BY HealthInit, HealthStep, PTL DEF Spec

\* A node that the checks found unhealthy three times in a row is not
\* selected: the counter that the selector reads is at least as high, whatever
\* the status reports write (checkNodeHealth, selectNode).
THEOREM OverloadCorrect == Spec => []OverloadStaysOut
<1>1. HealthInv => OverloadStaysOut
  BY DEF HealthInv, TypeOK, JudgedCounted, OverloadStaysOut, Selectable, Excluded
<1>2. QED BY <1>1, HealthInvariant, PTL

\* When the node has been watched up to the limit, the strikes are three.
LEMMA WatchedOut == HealthInv => DeadIsOut
<1> SUFFICES ASSUME HealthInv, watched >= Limit, count < Excluded PROVE FALSE
  BY DEF HealthInv, TypeOK, DeadIsOut, Selectable, Excluded
<1> USE DEF HealthInv, TypeOK, Excluded
<1>1. watched + due <= Budget(Strikes)
  BY DEF WatchedBounded
<1>2. CheckEvery * (Excluded + MaxFailures) \in Nat
      /\ CheckEvery * ((Excluded + MaxFailures) + 1)
           = CheckEvery * (Excluded + MaxFailures) + CheckEvery
  BY Product
<1>3. CASE Pending = 0
  <2>1. Strikes + 1 \in Nat /\ Strikes + 1 <= Excluded + MaxFailures
    BY <1>3 DEF Strikes
  <2>2. CheckEvery * (Strikes + 1) <= CheckEvery * (Excluded + MaxFailures)
        /\ CheckEvery * (Strikes + 1) \in Nat
    BY <2>1, ProductMonotone, Product
  <2>3. QED BY <1>1, <1>2, <2>2 DEF Budget, Limit
<1>4. CASE Pending = 1
  <2>1. due + 1 >= CheckEvery
    BY <1>4 DEF Pending, WatchedBounded
  <2>2. Strikes + 1 \in Nat /\ Strikes + 1 <= (Excluded + MaxFailures) + 1
    BY <1>4 DEF Strikes
  <2>3. CheckEvery * (Strikes + 1) <= CheckEvery * ((Excluded + MaxFailures) + 1)
        /\ CheckEvery * (Strikes + 1) \in Nat
    BY <2>2, ProductMonotone, Product
  <2>4. QED BY <1>1, <1>2, <2>1, <2>3 DEF Budget, Limit
<1>5. QED BY <1>3, <1>4 DEF Pending

\* However status reports, edits, failed runs and rows read too early
\* interleave, a node that died in a checked group is not selected beyond
\* Limit: the timeout, a period of the check for each of the three strikes and
\* for each failed run, and the time a run may take (checkNodeHealth, markOffline).
THEOREM DeadCorrect == Spec => []DeadIsOut
<1>1. QED BY HealthInvariant, WatchedOut, PTL
=============================================================================
