------------------------- MODULE ClientAccessProofs --------------------------
(***************************************************************************)
(* Proofs about ClientAccess, for every number of clients, inbounds and    *)
(* requests.  The inductive invariant AccessInv says what each request     *)
(* still has to do: a copy in the settings older than the last edit will   *)
(* be written, and a cached configuration that differs will be thrown      *)
(* away, by the one request that concerns the client.                      *)
(***************************************************************************)
EXTENDS ClientAccess, TLAPS

Snapshot == [tag : Tag, entries : SUBSET Entry]
Work == [pc : {"idle", "row", "read", "write", "void", "invalidate", "drop", "done"},
         op : {"none", "sync", "delete", "inbound"}, clients : SUBSET Client,
         sync : SUBSET Tag, remove : SUBSET Tag, read : SUBSET Snapshot]
Shown == [client : Client, cred : 0..MaxCred, enable : BOOLEAN]

\* One entry for a client.
Unique(entries) == \A x, y \in entries : x.client = y.client => x = y

Types ==
    /\ row \in [Client -> Row \cup {Missing, Gone}]
    /\ inbound \in [Tag -> {"none", "on", "off"}]
    /\ settings \in [Tag -> SUBSET Entry] /\ \A t \in Tag : Unique(settings[t])
    /\ request \in [Request -> Work]
    /\ cached \in [Tag -> [etag : BOOLEAN, rows : SUBSET Shown]]
    /\ muddled \subseteq Client \cup Tag /\ lost \subseteq Tag

\* What the position of a request tells.
Sound(q) ==
    /\ q.op = "none" \/ q.pc \in {"idle", "done"} => q.clients = {}
    /\ q.op = "inbound" => q.clients = {} /\ q.remove = {}
    /\ q.op = "delete" => q.sync = {}
    /\ q.pc = "row" => q.op = "sync" /\ q.sync = {} /\ \E c \in Client : q.clients = {c}
    /\ q.pc = "drop" => q.op = "delete"
    /\ q.pc # "write" => q.read = {}
    /\ q.pc = "write" => \A t \in Tag : t \in Part(q) <=> \E x \in q.read : x.tag = t
    /\ \A x, y \in q.read : x.tag = y.tag => x = y
    /\ \A x \in q.read : Unique(x.entries)

Positions == \A r \in Request : Sound(request[r])

\* An inbound that is not there has no settings, and nobody writes any.
Absent == \A t \in Tag \ Present :
    /\ settings[t] = {}
    /\ \A r \in Request : request[r].pc = "write" => t \notin Part(request[r])

\* Settings that are not lost have one writer, who has read what is there.
Writers == \A t \in Tag \ lost, r \in Request :
    request[r].pc = "write" /\ t \in Part(request[r]) =>
        /\ \A s \in Request : request[s].pc = "write" /\ t \in Part(request[s]) => s = r
        /\ \A x \in request[r].read : x.tag = t => x.entries = settings[t]

\* One request concerns a client, and knows the tags the client had.
OneOf(c) == \A r, s \in Request : c \in request[r].clients /\ c \in request[s].clients => r = s

Knows(q, c) ==
    /\ Exists(c)
    /\ q.pc = "row" => q.remove = row[c].tags
    /\ q.op = "sync" /\ q.pc # "row" => q.remove \cap row[c].tags = {}

Alone == \A c \in Client \ muddled :
    OneOf(c) /\ \A r \in Request : c \in request[r].clients => Knows(request[r], c)

Names(c, t) == Exists(c) /\ t \in row[c].tags
Stored(t, c) == {x \in settings[t] : x.client = c}
Should(t, c) == IF Names(c, t) THEN {{[client |-> c, cred |-> v]} : v \in row[c].told..row[c].cred}
                ELSE {{}}
Agrees(t, c) == Stored(t, c) \in Should(t, c)

\* The request will still write the client's entry.
Rewrites(q, t, c) ==
    \/ q.pc = "void"
    \/ q.pc \in {"read", "write"} /\ t \in q.sync /\ Names(c, t)
    \/ q.pc \in {"read", "write"} /\ t \in q.remove /\ ~Names(c, t)
    \/ q.pc = "invalidate" /\ q.sync # {} /\ t \in q.remove /\ ~Names(c, t)

\* A deletion takes the entry away before the row.
Removes(q, t, c) ==
    \/ Stored(t, c) = {}
    \/ q.pc = "void"
    \/ q.pc \in {"read", "write"} /\ t \in q.remove

Handles(q, t, c) ==
    /\ q.op = "sync" => Agrees(t, c) \/ Rewrites(q, t, c)
    /\ q.op = "delete" => Removes(q, t, c)

Copied(t, c) ==
    /\ (\A r \in Request : c \notin request[r].clients) => Agrees(t, c)
    /\ \A r \in Request : c \in request[r].clients => Handles(request[r], t, c)

Copies == \A t \in Present \ lost, c \in Client \ muddled : Copied(t, c)

\* The cached configuration has of a client what the row has, or had since it
\* was last synchronised.
Serves(t, c) ==
    /\ inbound[t] = "on" /\ t \in row[c].tags <=> \E x \in cached[t].rows : x.client = c
    /\ \A x \in cached[t].rows : x.client = c =>
          x.cred \in row[c].told..row[c].cred /\ (row[c].enable => x.enable)

\* The request throws it away before it returns, or dies.
Reforms(q, t) == t \in Form(q) /\ q.pc \in {"invalidate", "void"}
Renews(q, t, c) ==
    \/ Reforms(q, t)
    \/ c \in q.clients /\ q.pc = "void"
    \/ c \in q.clients /\ q.op = "sync" /\ q.pc \in {"read", "write", "invalidate"}
       /\ t \in q.sync \cup q.remove

Fits(t, c) == Exists(c) => Serves(t, c) \/ \E r \in Request : Renews(request[r], t, c)

Served == \A t \in Tag \ muddled : cached[t].etag =>
    /\ \A c \in Client \ muddled : Fits(t, c)
    /\ t \in Present \/ cached[t].rows = {} \/ \E r \in Request : Reforms(request[r], t)
    /\ \A c \in Client : row[c] = Missing => \A x \in cached[t].rows : x.client # c

AccessInv == Types /\ Positions /\ Absent /\ Writers /\ Alone /\ Copies /\ Served
-----------------------------------------------------------------------------
(* What requests are made of.                                              *)

LEMMA IdleWork == Idle \in Work /\ Done \in Work /\ Sound(Idle) /\ Sound(Done)
<1>1. Idle \in Work /\ Done \in Work
  BY DEF Idle, Done, At, Work
<1>2. QED BY <1>1 DEF Idle, Done, At, Sound, Part

\* The fields of a request.
LEMMA Fields ==
    ASSUME NEW q \in Work
    PROVE  /\ q.pc \in {"idle", "row", "read", "write", "void", "invalidate", "drop", "done"}
           /\ q.op \in {"none", "sync", "delete", "inbound"}
           /\ q.clients \subseteq Client /\ q.sync \subseteq Tag /\ q.remove \subseteq Tag
           /\ q.read \subseteq Snapshot
BY DEF Work

LEMMA AtWork ==
    ASSUME NEW pc \in {"row", "read", "void", "invalidate", "drop"},
           NEW op \in {"none", "sync", "delete", "inbound"}, NEW cs \in SUBSET Client,
           NEW sync \in SUBSET Tag, NEW remove \in SUBSET Tag,
           op = "none" => cs = {},
           op = "inbound" => cs = {} /\ remove = {},
           op = "delete" => sync = {},
           pc = "row" => op = "sync" /\ sync = {} /\ \E c \in Client : cs = {c},
           pc = "drop" => op = "delete"
    PROVE  At(pc, op, cs, sync, remove) \in Work /\ Sound(At(pc, op, cs, sync, remove))
<1>1. At(pc, op, cs, sync, remove) \in Work
  BY DEF At, Work
<1>2. Sound(At(pc, op, cs, sync, remove))
  BY DEF At, Sound
<1>3. QED BY <1>1, <1>2

\* Continue goes on with a request, or ends it.
Goes(r, q) == request' = [request EXCEPT ![r] = q]
Rest(q) == IF q.sync \cup q.remove = {} THEN Done ELSE q

LEMMA Continuing ==
    ASSUME NEW r, NEW q
    PROVE  Continue(r, q) <=> Goes(r, Rest(q))
BY DEF Continue, Goes, Rest

LEMMA RestWork ==
    ASSUME NEW q \in Work, Sound(q)
    PROVE  Rest(q) \in Work /\ Sound(Rest(q))
BY IdleWork DEF Rest

\* A request that goes on keeps the requests what they are.
LEMMA GoesKeeps ==
    ASSUME Types, Positions, NEW r \in Request, NEW q \in Work, Sound(q), Goes(r, q)
    PROVE  request' \in [Request -> Work] /\ Positions'
BY DEF Types, Positions, Goes
-----------------------------------------------------------------------------
(* Rows.                                                                   *)

LEMMA Rows ==
    ASSUME Types, NEW c \in Client
    PROVE  /\ row[c] \in Row \cup {Missing, Gone}
           /\ Exists(c) <=> row[c] \in Row
           /\ row[c] \in Row => row[c].tags \subseteq Tag /\ row[c].cred \in 0..MaxCred
                                /\ row[c].enable \in BOOLEAN
                                /\ row[c].cred \in row[c].told..row[c].cred
<1>1. row[c] \in Row \cup {Missing, Gone}
  BY DEF Types
<1>2. Exists(c) <=> row[c] \in Row
  BY <1>1, NullAssumption DEF Exists
<1>3. row[c] \in Row => row[c].tags \subseteq Tag /\ row[c].cred \in 0..MaxCred
                        /\ row[c].enable \in BOOLEAN
                        /\ row[c].cred \in row[c].told..row[c].cred
  BY MaxCredAssumption DEF Row
<1>4. QED BY <1>1, <1>2, <1>3

LEMMA CreatedRow ==
    ASSUME NEW tags \in SUBSET Tag, NEW enable \in BOOLEAN
    PROVE  Created(tags, enable) \in Row /\ Created(tags, enable).tags = tags
           /\ Created(tags, enable).cred \in Created(tags, enable).told..Created(tags, enable).cred
<1>1. 0 \in 0..MaxCred
  BY MaxCredAssumption
<1>2. QED BY <1>1 DEF Created, Row

\* An edit numbers the credentials on.
LEMMA ChangedRow ==
    ASSUME NEW c \in Client, row[c] \in Row, NEW given \in BOOLEAN, NEW new \in Changed(c, given)
    PROVE  /\ new \in Row /\ new.told = row[c].told /\ row[c].cred <= new.cred
           /\ ~given => new.enable = row[c].enable
<1>1. /\ row[c].cred \in 0..MaxCred /\ row[c].told \in 0..MaxCred /\ row[c].told <= row[c].cred
      /\ row[c].tags \subseteq Tag
  BY DEF Row
<1>2. CASE \E tags \in SUBSET Tag : new = [row[c] EXCEPT !.tags = tags]
  <2>1. PICK tags \in SUBSET Tag : new = [row[c] EXCEPT !.tags = tags]
    BY <1>2
  <2>2. new \in Row /\ new.told = row[c].told /\ row[c].cred <= new.cred
    BY <1>1, <2>1 DEF Row
  <2>3. new.enable = row[c].enable
    BY <2>1 DEF Row
  <2>4. QED BY <2>2, <2>3
<1>3. CASE \E cred \in {row[c].cred + 1} \cap 0..MaxCred : new = [row[c] EXCEPT !.cred = cred]
  <2>1. PICK cred \in 0..MaxCred : cred = row[c].cred + 1 /\ new = [row[c] EXCEPT !.cred = cred]
    BY <1>3
  <2>2. new \in Row /\ new.told = row[c].told /\ row[c].cred <= new.cred
    BY <1>1, <2>1, MaxCredAssumption DEF Row
  <2>3. new.enable = row[c].enable
    BY <2>1 DEF Row
  <2>4. QED BY <2>2, <2>3
<1>4. CASE \E enable \in {x \in BOOLEAN : given \/ x = row[c].enable} : new = [row[c] EXCEPT !.enable = enable]
  <2>1. PICK enable \in BOOLEAN :
           (given \/ enable = row[c].enable) /\ new = [row[c] EXCEPT !.enable = enable]
    BY <1>4
  <2>2. new \in Row /\ new.told = row[c].told /\ row[c].cred <= new.cred
    BY <1>1, <2>1 DEF Row
  <2>3. new.enable = enable
    BY <2>1 DEF Row
  <2>4. ~given => new.enable = row[c].enable
    BY <2>1, <2>3, Zenon
  <2>5. QED BY <2>2, <2>4
<1>5. QED BY <1>2, <1>3, <1>4 DEF Changed

\* The row of an edit that is synchronised.
LEMMA SyncedRow ==
    ASSUME NEW new \in Row
    PROVE  Synced(new) \in Row /\ Synced(new).tags = new.tags
BY MaxCredAssumption DEF Row, Synced

\* The row that bulkCreate leaves a client with.
BulkRow(c, tags) == IF Exists(c) THEN row[c] ELSE Created(tags, TRUE)

LEMMA BulkRows ==
    ASSUME Types, NEW c \in Client, NEW tags \in SUBSET Tag
    PROVE  BulkRow(c, tags) \in Row /\ BulkRow(c, tags).tags \subseteq Tag
<1>1. CASE Exists(c)
  BY <1>1, Rows DEF BulkRow
<1>2. CASE ~Exists(c)
  BY <1>2, CreatedRow DEF BulkRow
<1>3. QED BY <1>1, <1>2

\* A row only ever comes, changes or goes for good.
LEMMA RowsStep ==
    ASSUME Types, Next
    PROVE  /\ row' \in [Client -> Row \cup {Missing, Gone}]
           /\ \A c \in Client : row'[c] = Missing => row[c] = Missing
           /\ \A c \in Client : row'[c] = Gone =>
                 row[c] = Gone \/ \E r \in Request : DropRow(r) /\ c \in request[r].clients
<1> DEFINE Rowlike == Row \cup {Missing, Gone}
           Only(c, new) == row' = [row EXCEPT ![c] = new]
           Goal == /\ row' \in [Client -> Rowlike]
                   /\ \A c \in Client : row'[c] = Missing => row[c] = Missing
                   /\ \A c \in Client : row'[c] = Gone =>
                         row[c] = Gone \/ \E r \in Request : DropRow(r) /\ c \in request[r].clients
<1>1. row \in [Client -> Rowlike] /\ Missing \notin Row /\ Gone \notin Row /\ Gone # Missing
  BY NullAssumption DEF Types
<1>2. ASSUME NEW c \in Client, NEW new \in Row, Only(c, new)
      PROVE  Goal
  BY <1>1, <1>2
<1>3. ASSUME UNCHANGED row
      PROVE  Goal
  BY <1>1, <1>3
<1>4. CASE \E r \in Request, c \in Client : Create(r, c)
  BY <1>2, <1>4, CreatedRow DEF Create
<1>5. ASSUME NEW r \in Request, NEW cs \in SUBSET Client, BulkCreate(r, cs)
      PROVE  Goal
  <2>1. PICK tags \in SUBSET Tag :
           row' = [c \in Client |-> IF c \in cs THEN BulkRow(c, tags) ELSE row[c]]
    BY <1>5 DEF BulkCreate, BulkRow
  <2>2. \A c \in Client : BulkRow(c, tags) \in Row
    BY BulkRows
  <2>3. QED BY <1>1, <2>1, <2>2
<1>6. ASSUME NEW r \in Request, UpdateRow(r)
      PROVE  Goal
  <2>1. PICK c \in request[r].clients, given \in BOOLEAN :
           Exists(c) /\ \E new \in Changed(c, given) : Only(c, new) \/ Only(c, Synced(new))
    BY <1>6 DEF UpdateRow
  <2>2. PICK new \in Changed(c, given) : Only(c, new) \/ Only(c, Synced(new))
    BY <2>1
  <2>3. c \in Client
    BY Fields DEF Types
  <2>4. new \in Row /\ Synced(new) \in Row
    BY <2>1, <2>3, Rows, ChangedRow, SyncedRow
  <2>5. QED BY <1>2, <2>2, <2>3, <2>4
<1>7. ASSUME NEW r \in Request, DropRow(r)
      PROVE  Goal
  <2>1. row' = [c \in Client |-> IF c \in request[r].clients THEN Gone ELSE row[c]]
    BY <1>7 DEF DropRow
  <2>2. QED BY <1>1, <1>7, <2>1
<1>8. ASSUME NEW cs \in SUBSET Client, ExpiryCheck(cs)
      PROVE  Goal
  <2>1. row' = [c \in Client |-> IF c \in cs THEN [row[c] EXCEPT !.enable = FALSE] ELSE row[c]]
    BY <1>8 DEF ExpiryCheck
  <2>2. \A c \in cs : row[c] \in Row
    BY <1>8, Rows DEF ExpiryCheck
  <2>3. \A c \in cs : [row[c] EXCEPT !.enable = FALSE] \in Row
    BY <2>2 DEF Row
  <2>4. QED BY <1>1, <2>1, <2>3
<1>9. QED
  BY <1>3, <1>4, <1>5, <1>6, <1>7, <1>8 DEF Next, Poll, Expire, Update, Delete, EditInbound,
     SetEnable, CreateInbound, DeleteInbound, ReadSettings, WriteSettings, Invalidate, Die, panel
-----------------------------------------------------------------------------
(* What each step does to its request.                                     *)

\* The request after a part of its tags.
Past(q) == IF q.op = "delete" THEN At("drop", q.op, q.clients, {}, q.remove)
           ELSE Rest(At("read", q.op, q.clients, {}, IF q.sync # {} THEN q.remove ELSE {}))

LEMMA PastGoes ==
    ASSUME NEW r
    PROVE  PartDone(r) <=> Goes(r, Past(request[r]))
BY Continuing DEF PartDone, Past, Goes

LEMMA PastWork ==
    ASSUME NEW q \in Work, Sound(q)
    PROVE  Past(q) \in Work /\ Sound(Past(q))
<1>1. /\ q.op \in {"none", "sync", "delete", "inbound"} /\ q.clients \subseteq Client
      /\ q.sync \subseteq Tag /\ q.remove \subseteq Tag
  BY Fields
<1>2. /\ q.op = "none" => q.clients = {}
      /\ q.op = "inbound" => q.clients = {} /\ q.remove = {}
  BY DEF Sound
<1>3. CASE q.op = "delete"
  <2>1. Past(q) = At("drop", "delete", q.clients, {}, q.remove)
    BY <1>3 DEF Past
  <2>2. QED BY <1>1, <2>1, AtWork
<1>4. CASE q.op # "delete"
  <2> DEFINE rem == IF q.sync # {} THEN q.remove ELSE {}
             p == At("read", q.op, q.clients, {}, rem)
  <2>1. rem \subseteq Tag /\ (q.op = "inbound" => rem = {})
    BY <1>1, <1>2
  <2>2. Past(q) = Rest(p)
    BY <1>4 DEF Past
  <2> HIDE DEF rem
  <2>3. p \in Work /\ Sound(p)
    BY <1>1, <1>2, <1>4, <2>1, AtWork
  <2> HIDE DEF p
  <2>4. QED BY <2>2, <2>3, RestWork
<1>5. QED BY <1>3, <1>4

\* The request that has read the settings of these inbounds.
Reader(q, found) ==
    [pc |-> "write", op |-> q.op, clients |-> q.clients,
     sync |-> IF q.sync # {} THEN found ELSE {}, remove |-> IF q.sync # {} THEN q.remove ELSE found,
     read |-> {[tag |-> t, entries |-> settings[t]] : t \in found}]

LEMMA ReadGoes ==
    ASSUME NEW r \in Request, ReadSettings(r)
    PROVE  LET found == Part(request[r]) \cap Present IN
           \/ found = {} /\ Goes(r, Past(request[r]))
           \/ found # {} /\ Goes(r, Reader(request[r], found))
<1> DEFINE q == request[r]
           found == Part(q) \cap Present
           sync == IF q.sync # {} THEN found ELSE {}
           remove == IF q.sync # {} THEN q.remove ELSE found
           read == {[tag |-> t, entries |-> settings[t]] : t \in found}
<1>1. CASE found = {}
  BY <1>1, PastGoes DEF ReadSettings
<1>2. CASE found # {}
  <2>1. Goes(r, [At("write", q.op, q.clients, sync, remove) EXCEPT !.read = read])
    BY <1>2 DEF ReadSettings, Goes
  <2>2. Reader(q, found) = [pc |-> "write", op |-> q.op, clients |-> q.clients, sync |-> sync,
                            remove |-> remove, read |-> read]
    BY DEF Reader
  <2> HIDE DEF sync, remove, read
  <2>3. [At("write", q.op, q.clients, sync, remove) EXCEPT !.read = read] = Reader(q, found)
    BY <2>2 DEF At
  <2>4. QED BY <1>2, <2>1, <2>3
<1>3. QED BY <1>1, <1>2

LEMMA ReaderWork ==
    ASSUME Types, NEW q \in Work, Sound(q),
           NEW found, found # {}, found \subseteq Part(q)
    PROVE  Reader(q, found) \in Work /\ Sound(Reader(q, found))
<1> DEFINE p == Reader(q, found)
           sync == IF q.sync # {} THEN found ELSE {}
           remove == IF q.sync # {} THEN q.remove ELSE found
           read == {[tag |-> t, entries |-> settings[t]] : t \in found}
<1>1. p = [pc |-> "write", op |-> q.op, clients |-> q.clients, sync |-> sync,
           remove |-> remove, read |-> read]
  BY DEF Reader
<1>2. found \subseteq Tag /\ sync \subseteq Tag /\ remove \subseteq Tag
  BY Fields DEF Part
<1>3. read \subseteq Snapshot /\ (\A x, y \in read : x.tag = y.tag => x = y)
      /\ (\A x \in read : Unique(x.entries)) /\ (\A t : t \in found <=> \E x \in read : x.tag = t)
  <2>1. \A t \in found : settings[t] \in SUBSET Entry /\ Unique(settings[t])
    BY <1>2 DEF Types
  <2>2. \A x \in read : \E t \in found : /\ x.tag = t /\ x.entries = settings[t]
                                       /\ x = [tag |-> t, entries |-> settings[t]]
    OBVIOUS
  <2>3. \A t \in found : [tag |-> t, entries |-> settings[t]] \in read
                         /\ [tag |-> t, entries |-> settings[t]].tag = t
    OBVIOUS
  <2>4. \A t \in found : [tag |-> t, entries |-> settings[t]] \in Snapshot
    BY <1>2, <2>1 DEF Snapshot
  <2> HIDE DEF read
  <2>5. read \subseteq Snapshot
    BY <2>2, <2>4
  <2>6. \A x, y \in read : x.tag = y.tag => x = y
    BY <2>2
  <2>7. \A x \in read : Unique(x.entries)
    BY <2>1, <2>2
  <2>8. \A t : t \in found <=> \E x \in read : x.tag = t
    BY <2>2, <2>3
  <2>9. QED BY <2>5, <2>6, <2>7, <2>8
<1>4. sync = {} <=> q.sync = {}
  OBVIOUS
<1>5. (IF sync # {} THEN sync ELSE remove) = found
  OBVIOUS
<1>6. /\ q.op = "inbound" => q.clients = {} /\ q.remove = {} 
      /\ q.op = "delete" => q.sync = {}
      /\ q.op = "none" => q.clients = {}
  BY DEF Sound
<1>7. q.op = "inbound" => remove = {}
  BY <1>6 DEF Part
<1> HIDE DEF sync, remove, read
<1>8. p \in Work
  BY <1>1, <1>2, <1>3, Fields DEF Work
<1>9. Part(p) = found
  BY <1>1, <1>5 DEF Part
<1>10. Sound(p)
  BY <1>1, <1>3, <1>4, <1>6, <1>7, <1>9 DEF Sound
<1>11. QED BY <1>8, <1>10

\* An edit of a row either is synchronised or keeps the tags that were read, the
\* flag, and all credentials since the last that was.
LEMMA UpdateGoes ==
    ASSUME Types, Positions, NEW r \in Request, UpdateRow(r)
    PROVE  \E c \in Client, new \in Row :
              /\ request[r].pc = "row" /\ request[r].op = "sync" /\ request[r].sync = {}
              /\ request[r].clients = {c} /\ row[c] \in Row
              /\ row' = [row EXCEPT ![c] = new]
              /\ \/ Goes(r, Rest(At("read", "sync", {c}, new.tags, request[r].remove \ new.tags)))
                 \/ /\ Goes(r, Done)
                    /\ new.tags = request[r].remove /\ new.enable = row[c].enable
                    /\ new.told = row[c].told /\ row[c].cred <= new.cred
<1> DEFINE q == request[r]
           Step(c, new, sync) ==
              /\ row' = [row EXCEPT ![c] = IF sync THEN Synced(new) ELSE new]
              /\ Continue(r, IF sync THEN At("read", "sync", q.clients, new.tags, q.remove \ new.tags)
                             ELSE Done)
<1>1. PICK c \in q.clients, given \in BOOLEAN :
         Exists(c) /\ \E new \in Changed(c, given) : Step(c, new, NeedsSync(q.remove, new, given))
  BY DEF UpdateRow
<1>2. PICK new \in Changed(c, given) : Step(c, new, NeedsSync(q.remove, new, given))
  BY <1>1
<1>3. q \in Work /\ Sound(q)
  BY DEF Types, Positions
<1>4. q.pc = "row" /\ q.op = "sync" /\ q.sync = {} /\ c \in Client /\ q.clients = {c}
  BY <1>1, <1>3, Fields DEF UpdateRow, Sound
<1>5. /\ row[c] \in Row /\ new \in Row /\ new.told = row[c].told /\ row[c].cred <= new.cred
      /\ ~given => new.enable = row[c].enable
  <2>1. row[c] \in Row
    BY <1>1, <1>4, Rows
  <2>2. QED BY <1>4, <2>1, ChangedRow
<1>6. Rest(Done) = Done
  BY DEF Rest, Done, At
<1>7. CASE NeedsSync(q.remove, new, given)
  <2>1. row' = [row EXCEPT ![c] = Synced(new)] /\ Synced(new) \in Row /\ Synced(new).tags = new.tags
    BY <1>2, <1>5, <1>7, SyncedRow
  <2>2. Goes(r, Rest(At("read", "sync", {c}, new.tags, q.remove \ new.tags)))
    BY <1>2, <1>4, <1>7, Continuing
  <2>3. QED BY <1>4, <1>5, <2>1, <2>2
<1>8. CASE ~NeedsSync(q.remove, new, given)
  <2>1. row' = [row EXCEPT ![c] = new] /\ Goes(r, Done)
    BY <1>2, <1>6, <1>8, Continuing
  <2>2. new.tags = q.remove /\ ~given
    BY <1>8 DEF NeedsSync
  <2>3. new.enable = row[c].enable
    BY <1>5, <2>2
  <2>4. /\ q.pc = "row" /\ q.op = "sync" /\ q.sync = {} /\ q.clients = {c} /\ row[c] \in Row
        /\ row' = [row EXCEPT ![c] = new]
        /\ Goes(r, Done) /\ new.tags = q.remove /\ new.enable = row[c].enable
        /\ new.told = row[c].told /\ row[c].cred <= new.cred
    BY <1>4, <1>5, <2>1, <2>2, <2>3
  <2>5. QED BY <1>4, <1>5, <2>4, Zenon
<1>9. QED BY <1>7, <1>8

\* A request that has the settings in its hands no more.
LEMMA HandsWork ==
    ASSUME NEW q \in Work, Sound(q), NEW pc \in {"void", "invalidate"}
    PROVE  /\ At(pc, q.op, q.clients, q.sync, q.remove) \in Work
           /\ Sound(At(pc, q.op, q.clients, q.sync, q.remove))
<1>1. /\ q.op \in {"none", "sync", "delete", "inbound"} /\ q.clients \in SUBSET Client
      /\ q.sync \in SUBSET Tag /\ q.remove \in SUBSET Tag
  BY Fields
<1>2. /\ q.op = "none" => q.clients = {}
      /\ q.op = "inbound" => q.clients = {} /\ q.remove = {}
      /\ q.op = "delete" => q.sync = {}
  BY DEF Sound
<1>3. pc \in {"row", "read", "void", "invalidate", "drop"} /\ pc # "row" /\ pc # "drop"
  OBVIOUS
<1>4. QED BY <1>1, <1>2, <1>3, AtWork

LEMMA VoidWork ==
    ASSUME NEW q \in Work, Sound(q), q.read # {}
    PROVE  Void(q) \in Work /\ Sound(Void(q))
BY HandsWork DEF Void

LEMMA RequestsStep ==
    ASSUME Types, Positions, Next
    PROVE  request' \in [Request -> Work] /\ Positions'
<1> DEFINE Goal == request' \in [Request -> Work] /\ Positions'
<1>1. ASSUME NEW r \in Request, NEW q \in Work, Sound(q), Goes(r, q)
      PROVE  Goal
  BY <1>1, GoesKeeps
<1>2. ASSUME UNCHANGED request
      PROVE  Goal
  BY <1>2 DEF Types, Positions
<1>3. \A r \in Request : request[r] \in Work /\ Sound(request[r])
  BY DEF Types, Positions
<1>4. ASSUME NEW r \in Request, NEW c \in Client, Create(r, c)
      PROVE  Goal
  <2>1. PICK tags \in SUBSET Tag : Goes(r, Rest(At("read", "sync", {c}, tags, {})))
    BY <1>4, Continuing DEF Create
  <2>2. At("read", "sync", {c}, tags, {}) \in Work /\ Sound(At("read", "sync", {c}, tags, {}))
    BY AtWork
  <2>3. QED BY <1>1, <2>1, <2>2, RestWork
<1>5. ASSUME NEW r \in Request, NEW cs \in SUBSET Client, BulkCreate(r, cs)
      PROVE  Goal
  <2>1. PICK tags \in SUBSET Tag :
           Goes(r, Rest(At("read", "sync", cs, UNION {BulkRow(c, tags).tags : c \in cs}, {})))
    BY <1>5, Continuing DEF BulkCreate, BulkRow
  <2> DEFINE all == UNION {BulkRow(c, tags).tags : c \in cs}
  <2>2. all \subseteq Tag
    BY BulkRows
  <2> HIDE DEF all
  <2>3. At("read", "sync", cs, all, {}) \in Work /\ Sound(At("read", "sync", cs, all, {}))
    BY <2>2, AtWork
  <2>4. QED BY <1>1, <2>1, <2>3, RestWork DEF all
<1>6. ASSUME NEW r \in Request, NEW c \in Client, Update(r, c)
      PROVE  Goal
  <2>1. Goes(r, At("row", "sync", {c}, {}, row[c].tags)) /\ row[c].tags \subseteq Tag
    BY <1>6, Rows DEF Update, Goes
  <2>2. At("row", "sync", {c}, {}, row[c].tags) \in Work /\ Sound(At("row", "sync", {c}, {}, row[c].tags))
    BY <2>1, AtWork
  <2>3. QED BY <1>1, <2>1, <2>2
<1>7. ASSUME NEW r \in Request, NEW c \in Client, Delete(r, c)
      PROVE  Goal
  <2> DEFINE pc == IF row[c].tags = {} THEN "drop" ELSE "read"
  <2>1. Goes(r, At(pc, "delete", {c}, {}, row[c].tags)) /\ row[c].tags \subseteq Tag
    BY <1>7, Rows DEF Delete, Goes
  <2>2. pc \in {"row", "read", "void", "invalidate", "drop"} /\ pc # "row"
    OBVIOUS
  <2> HIDE DEF pc
  <2>3. At(pc, "delete", {c}, {}, row[c].tags) \in Work /\ Sound(At(pc, "delete", {c}, {}, row[c].tags))
    BY <2>1, <2>2, AtWork
  <2>4. QED BY <1>1, <2>1, <2>3
<1>8. ASSUME NEW r \in Request, UpdateRow(r)
      PROVE  Goal
  <2>1. PICK c \in Client, new \in Row :
           \/ Goes(r, Rest(At("read", "sync", {c}, new.tags, request[r].remove \ new.tags)))
           \/ Goes(r, Done)
    BY <1>8, UpdateGoes
  <2>2. new.tags \subseteq Tag /\ request[r].remove \ new.tags \subseteq Tag
    BY <1>3, Fields DEF Row
  <2> DEFINE rem == request[r].remove \ new.tags
             q == At("read", "sync", {c}, new.tags, rem)
  <2> HIDE DEF rem
  <2>3. q \in Work /\ Sound(q)
    BY <2>2, AtWork DEF rem
  <2>4. QED BY <1>1, <2>1, <2>3, RestWork, IdleWork DEF rem
<1>9. ASSUME NEW r \in Request, ReadSettings(r)
      PROVE  Goal
  <2>1. PICK found : /\ found \subseteq Part(request[r])
                     /\ \/ Goes(r, Past(request[r]))
                        \/ found # {} /\ Goes(r, Reader(request[r], found))
    BY <1>9, ReadGoes
  <2>2. QED BY <1>1, <1>3, <2>1, PastWork, ReaderWork
<1>10. ASSUME NEW r \in Request, WriteSettings(r)
       PROVE  Goal
  <2> DEFINE q == request[r]
             p == At("invalidate", q.op, q.clients, q.sync, q.remove)
  <2>1. Goes(r, p)
    BY <1>10 DEF WriteSettings, Goes
  <2>2. q \in Work /\ Sound(q)
    BY <1>3
  <2> HIDE DEF q
  <2>3. p \in Work /\ Sound(p)
    BY <2>2, HandsWork
  <2>4. QED BY <1>1, <2>1, <2>3
<1>11. ASSUME NEW r \in Request, Invalidate(r)
       PROVE  Goal
  BY <1>1, <1>3, <1>11, PastGoes, PastWork DEF Invalidate
<1>12. ASSUME NEW r \in Request, DropRow(r) \/ Die(r)
       PROVE  Goal
  BY <1>1, <1>12, IdleWork DEF DropRow, Die, Goes
<1>13. ASSUME NEW r \in Request, NEW t \in Tag, EditInbound(r, t) \/ SetEnable(r, t) \/ CreateInbound(r, t)
       PROVE  Goal
  <2>1. PICK pc \in {"read", "invalidate"} : Goes(r, At(pc, "inbound", {}, {t}, {}))
    BY <1>13 DEF EditInbound, SetEnable, CreateInbound, Written, Goes
  <2>2. At(pc, "inbound", {}, {t}, {}) \in Work /\ Sound(At(pc, "inbound", {}, {t}, {}))
    BY AtWork
  <2>3. QED BY <1>1, <2>1, <2>2
<1>14. ASSUME NEW r \in Request, NEW t \in Tag, DeleteInbound(r, t)
       PROVE  Goal
  <2>1. At("invalidate", "inbound", {}, {t}, {}) \in Work /\ Sound(At("invalidate", "inbound", {}, {t}, {}))
    BY AtWork
  <2>2. \A s \in Request : (\E x \in request[s].read : x.tag = t) =>
                              Void(request[s]) \in Work /\ Sound(Void(request[s]))
    BY <1>3, VoidWork
  <2>3. QED BY <1>3, <1>14, <2>1, <2>2 DEF DeleteInbound, Positions
<1>15. QED
  BY <1>2, <1>4, <1>5, <1>6, <1>7, <1>8, <1>9, <1>10, <1>11, <1>12, <1>13, <1>14
     DEF Next, Poll, Expire, ExpiryCheck
-----------------------------------------------------------------------------
(* The tables keep their types.                                            *)

LEMMA EntriesTyped ==
    ASSUME Types, NEW cs, cs \subseteq Client, \A c \in cs : Exists(c)
    PROVE  Entries(cs) \subseteq Entry /\ Unique(Entries(cs))
           /\ \A x \in Entries(cs) : x.client \in cs /\ x.cred = row[x.client].cred
<1>1. \A c \in cs : row[c].cred \in 0..MaxCred
  BY Rows
<1>2. \A x \in Entries(cs) : \E c \in cs : x = [client |-> c, cred |-> row[c].cred]
  BY DEF Entries
<1>3. QED BY <1>1, <1>2 DEF Entry, Unique

LEMMA NamingExists == \A t : Naming(t) \subseteq Client /\ \A c \in Naming(t) : Exists(c)
BY DEF Naming

LEMMA RewrittenTyped ==
    ASSUME Types, NEW q \in Work, NEW x \in Snapshot, Unique(x.entries)
    PROVE  Rewritten(q, x) \subseteq Entry /\ Unique(Rewritten(q, x))
<1> DEFINE here == q.clients \cap Naming(x.tag)
<1>1. x.entries \subseteq Entry
  BY DEF Snapshot
<1>2. \A cs : Without(x.entries, cs) \subseteq Entry /\ Unique(Without(x.entries, cs))
              /\ \A y \in Without(x.entries, cs) : y.client \notin cs
  BY <1>1 DEF Without, Unique
<1>3. /\ Entries(here) \subseteq Entry /\ Unique(Entries(here))
      /\ \A y \in Entries(here) : y.client \in here
  <2>1. here \subseteq Client /\ \A c \in here : Exists(c)
    BY NamingExists
  <2> HIDE DEF here
  <2>2. QED BY <2>1, EntriesTyped
<1>4. \/ Rewritten(q, x) = x.entries
      \/ Rewritten(q, x) = Without(x.entries, here) \cup Entries(here)
      \/ Rewritten(q, x) = Without(x.entries, q.clients)
  BY DEF Rewritten
<1> HIDE DEF here
<1>5. Unique(Without(x.entries, here) \cup Entries(here))
  BY <1>2, <1>3 DEF Unique
<1>6. QED BY <1>1, <1>2, <1>3, <1>4, <1>5

\* What a writer leaves of an inbound's settings.
LEMMA Writes ==
    ASSUME Types, Positions, NEW r \in Request, WriteSettings(r), NEW t \in Tag
    PROVE  /\ t \notin Part(request[r]) => settings'[t] = settings[t]
           /\ t \in Part(request[r]) =>
                 \E x \in request[r].read : x.tag = t /\ x \in Snapshot /\ Unique(x.entries)
                                            /\ settings'[t] = Rewritten(request[r], x)
<1> DEFINE q == request[r]
           y == CHOOSE x \in q.read : x.tag = t
<1>1. q \in Work /\ Sound(q) /\ q.pc = "write"
  BY DEF Types, Positions, WriteSettings
<1>2. t \in Part(q) <=> \E x \in q.read : x.tag = t
  BY <1>1 DEF Sound
<1>3. settings'[t] = IF \E x \in q.read : x.tag = t THEN Rewritten(q, y) ELSE settings[t]
  BY DEF WriteSettings
<1>4. (\E x \in q.read : x.tag = t) => y \in q.read /\ y.tag = t
  OBVIOUS
<1>5. \A x \in q.read : x \in Snapshot /\ Unique(x.entries)
  BY <1>1, Fields DEF Sound
<1> HIDE DEF q, y
<1>6. QED BY <1>2, <1>3, <1>4, <1>5 DEF q

LEMMA ToggledTyped ==
    ASSUME Types, NEW t \in Tag
    PROVE  Toggled(t) \in [Tag -> {"none", "on", "off"}]
BY DEF Types, Toggled

LEMMA SettingsStep ==
    ASSUME Types, Positions, Next
    PROVE  settings' \in [Tag -> SUBSET Entry] /\ \A t \in Tag : Unique(settings'[t])
<1> DEFINE Goal == settings' \in [Tag -> SUBSET Entry] /\ \A t \in Tag : Unique(settings'[t])
<1>1. CASE UNCHANGED settings
  BY <1>1 DEF Types
<1>2. ASSUME NEW r \in Request, WriteSettings(r)
      PROVE  Goal
  <2>1. request[r] \in Work
    BY DEF Types
  <2>2. \A t \in Tag : settings'[t] \subseteq Entry /\ Unique(settings'[t])
    <3> SUFFICES ASSUME NEW t \in Tag
                 PROVE  settings'[t] \subseteq Entry /\ Unique(settings'[t])
      OBVIOUS
    <3>1. CASE t \in Part(request[r])
      BY <1>2, <2>1, <3>1, Writes, RewrittenTyped
    <3>2. CASE t \notin Part(request[r])
      BY <1>2, <3>2, Writes DEF Types
    <3>3. QED BY <3>1, <3>2
  <2>3. DOMAIN settings' = Tag /\ settings' = [t \in Tag |-> settings'[t]]
    BY <1>2 DEF WriteSettings
  <2>4. QED BY <2>2, <2>3
<1>3. ASSUME NEW r \in Request, NEW t \in Tag, DeleteInbound(r, t)
      PROVE  Goal
  BY <1>3 DEF DeleteInbound, Types, Unique
<1>4. QED
  BY <1>1, <1>2, <1>3 DEF Next, Poll, Expire, Create, BulkCreate, Update, UpdateRow, Delete, ReadSettings,
     Invalidate, DropRow, Die, EditInbound, SetEnable, CreateInbound, ExpiryCheck, panel

LEMMA InboundStep ==
    ASSUME Types, Positions, Next
    PROVE  inbound' \in [Tag -> {"none", "on", "off"}]
<1> DEFINE Goal == inbound' \in [Tag -> {"none", "on", "off"}]
<1>1. CASE UNCHANGED inbound
  BY <1>1 DEF Types
<1>2. ASSUME NEW r \in Request, WriteSettings(r)
      PROVE  Goal
  <2>1. Form(request[r]) \subseteq Tag
    BY Fields DEF Types, Form
  <2>2. QED BY <1>1, <1>2, <2>1, ToggledTyped DEF WriteSettings
<1>3. CASE \E r \in Request, t \in Tag : SetEnable(r, t)
  BY <1>3, ToggledTyped DEF SetEnable
<1>4. CASE \E r \in Request, t \in Tag : CreateInbound(r, t) \/ DeleteInbound(r, t)
  BY <1>4 DEF CreateInbound, DeleteInbound, Types
<1>5. QED
  BY <1>1, <1>2, <1>3, <1>4 DEF Next, Poll, Expire, Create, BulkCreate, Update, UpdateRow, Delete,
     ReadSettings, Invalidate, DropRow, Die, EditInbound, ExpiryCheck, panel

\* The rows a node is served when it asks.
ServedRows(t) == {[client |-> c, cred |-> row[c].cred, enable |-> row[c].enable] :
                    c \in IF inbound[t] = "on" THEN Naming(t) ELSE {}}

LEMMA ServedTyped ==
    ASSUME Types, NEW t \in Tag
    PROVE  /\ ServedRows(t) \in SUBSET Shown
           /\ \A x \in ServedRows(t) : /\ inbound[t] = "on" /\ x.client \in Naming(t)
                                       /\ x.cred = row[x.client].cred
                                       /\ x.enable = row[x.client].enable
           /\ inbound[t] = "on" => \A c \in Naming(t) : \E x \in ServedRows(t) : x.client = c
<1> DEFINE who == IF inbound[t] = "on" THEN Naming(t) ELSE {}
<1>1. who \subseteq Client /\ \A c \in who : row[c].cred \in 0..MaxCred /\ row[c].enable \in BOOLEAN
  BY NamingExists, Rows
<1> DEFINE rec(c) == [client |-> c, cred |-> row[c].cred, enable |-> row[c].enable]
<1>2. \A c : rec(c).client = c /\ rec(c).cred = row[c].cred /\ rec(c).enable = row[c].enable
  <2> SUFFICES ASSUME NEW c
               PROVE  rec(c).client = c /\ rec(c).cred = row[c].cred /\ rec(c).enable = row[c].enable
    OBVIOUS
  <2>1. rec(c).client = c /\ rec(c).cred = row[c].cred
    OBVIOUS
  <2>2. rec(c).enable = row[c].enable
    BY Zenon
  <2>3. QED BY <2>1, <2>2
<1>3. \A c \in who : [client |-> c, cred |-> row[c].cred, enable |-> row[c].enable] \in Shown
  BY <1>1 DEF Shown
<1>4. ServedRows(t) = {rec(c) : c \in who}
  BY DEF ServedRows
<1>5. \A c \in who : inbound[t] = "on" /\ c \in Naming(t)
  OBVIOUS
<1>6. inbound[t] = "on" => who = Naming(t)
  OBVIOUS
<1> HIDE DEF rec, who
<1>7. \A x \in ServedRows(t) : \E c \in who : x = rec(c)
  BY <1>4
<1>8. ServedRows(t) \in SUBSET Shown
  <2>1. \A c \in who : rec(c) \in Shown
    BY <1>3 DEF rec
  <2>2. QED BY <1>7, <2>1
<1>9. \A c \in who : \E x \in ServedRows(t) : x.client = c
  BY <1>2, <1>4, Zenon
<1>10. \A x \in ServedRows(t) : /\ inbound[t] = "on" /\ x.client \in Naming(t)
                                /\ x.cred = row[x.client].cred
                                /\ x.enable = row[x.client].enable
  <2> SUFFICES ASSUME NEW x \in ServedRows(t)
               PROVE  /\ inbound[t] = "on" /\ x.client \in Naming(t)
                      /\ x.cred = row[x.client].cred
                      /\ x.enable = row[x.client].enable
    OBVIOUS
  <2>1. PICK c \in who : x = rec(c)
    BY <1>7
  <2>2. x.client = c /\ x.cred = row[c].cred
    BY <1>2, <2>1
  <2>3. x.enable = row[c].enable
    BY <1>2, <2>1, Zenon
  <2>4. inbound[t] = "on" /\ c \in Naming(t)
    BY <1>5, <2>1
  <2>5. x.enable = row[x.client].enable
    BY <2>2, <2>3, Zenon
  <2>6. QED BY <2>2, <2>4, <2>5
<1>11. QED BY <1>6, <1>8, <1>9, <1>10, Zenon

Cache == [etag : BOOLEAN, rows : SUBSET Shown]

LEMMA CachedStep ==
    ASSUME Types, Next
    PROVE  cached' \in [Tag -> Cache]
<1>1. cached \in [Tag -> Cache] /\ NoConfig \in Cache
  BY DEF Types, NoConfig, Cache
<1>2. CASE UNCHANGED cached
  BY <1>1, <1>2
<1>3. ASSUME NEW t \in Tag, Poll(t)
      PROVE  cached' \in [Tag -> Cache]
  <2>1. cached' = [cached EXCEPT ![t] = [etag |-> TRUE, rows |-> ServedRows(t)]]
    BY <1>3 DEF Poll, ServedRows
  <2>2. [etag |-> TRUE, rows |-> ServedRows(t)] \in Cache
    BY ServedTyped DEF Cache
  <2>3. QED BY <1>1, <2>1, <2>2
<1>4. CASE \E t \in Tag : Expire(t)
  BY <1>1, <1>4 DEF Expire
<1>5. CASE \E r \in Request : Invalidate(r)
  BY <1>1, <1>5 DEF Invalidate
<1>6. QED
  BY <1>2, <1>3, <1>4, <1>5 DEF Next, Create, BulkCreate, Update, UpdateRow, Delete,
     ReadSettings, WriteSettings, DropRow, Die, EditInbound, SetEnable, CreateInbound,
     DeleteInbound, ExpiryCheck

LEMMA HistoryStep ==
    ASSUME Types, Positions, Next
    PROVE  muddled' \subseteq Client \cup Tag /\ lost' \subseteq Tag /\ muddled \subseteq muddled'
<1> DEFINE Goal == muddled' \subseteq Client \cup Tag /\ lost' \subseteq Tag /\ muddled \subseteq muddled'
<1>1. muddled \subseteq Client \cup Tag /\ lost \subseteq Tag
  BY DEF Types
<1>2. CASE UNCHANGED <<muddled, lost>>
  BY <1>1, <1>2
<1>3. ASSUME NEW cs \in SUBSET Client, Muddle(cs), lost' = lost
      PROVE  Goal
  BY <1>1, <1>3 DEF Muddle
<1>4. ASSUME NEW r \in Request, Die(r)
      PROVE  Goal
  <2>1. request[r].clients \subseteq Client /\ Form(request[r]) \subseteq Tag
    BY Fields DEF Types, Form
  <2>2. QED BY <1>1, <1>4, <2>1 DEF Die
<1>5. ASSUME NEW r \in Request, ReadSettings(r)
      PROVE  Goal
  BY <1>1, <1>5 DEF ReadSettings, Present
<1>6. CASE \E r \in Request, t \in Tag : CreateInbound(r, t) \/ DeleteInbound(r, t)
  BY <1>1, <1>6 DEF CreateInbound, DeleteInbound
<1>7. CASE \E r \in Request, c \in Client : Create(r, c) \/ Update(r, c) \/ Delete(r, c)
  BY <1>3, <1>7 DEF Create, Update, Delete
<1>8. CASE \E r \in Request, cs \in SUBSET Client : BulkCreate(r, cs)
  BY <1>3, <1>8 DEF BulkCreate
<1>9. QED
  BY <1>2, <1>4, <1>5, <1>6, <1>7, <1>8 DEF Next, history, Poll, Expire, UpdateRow, WriteSettings,
     Invalidate, DropRow, EditInbound, SetEnable, ExpiryCheck

LEMMA TypesStep ==
    ASSUME Types, Positions, Next
    PROVE  Types' /\ Positions'
<1>1. Types'
  BY RowsStep, InboundStep, SettingsStep, RequestsStep, CachedStep, HistoryStep DEF Types, Cache
<1>2. QED BY <1>1, RequestsStep
-----------------------------------------------------------------------------
(* Who writes what.                                                        *)

LEMMA Places ==
    /\ Done.pc = "done" /\ Done.clients = {} /\ Done.sync = {} /\ Done.remove = {} /\ Done.op = "none"
    /\ \A pc, op, cs, sync, remove :
          LET p == At(pc, op, cs, sync, remove) IN
          /\ p.pc = pc /\ p.op = op /\ p.clients = cs /\ p.sync = sync /\ p.remove = remove
          /\ p.read = {}
          /\ sync \cup remove # {} => Rest(p) = p
          /\ sync \cup remove = {} => Rest(p) = Done
<1>1. /\ Done.pc = "done" /\ Done.clients = {} /\ Done.sync = {} /\ Done.remove = {} /\ Done.op = "none"
  BY DEF Done, At
<1>2. ASSUME NEW pc, NEW op, NEW cs, NEW sync, NEW remove
      PROVE  LET p == At(pc, op, cs, sync, remove) IN
             /\ p.pc = pc /\ p.op = op /\ p.clients = cs /\ p.sync = sync /\ p.remove = remove
             /\ p.read = {}
  BY DEF At
<1>3. QED BY <1>1, <1>2 DEF Rest

LEMMA PastPlace ==
    ASSUME NEW q
    PROVE  Past(q).pc \in {"drop", "read", "done"}
BY Places DEF Past

\* A request that is about to write the settings of an inbound was before the
\* step, or has just read them.
LEMMA WritingStep ==
    ASSUME Types, Positions, Next, NEW r \in Request, request'[r].pc = "write"
    PROVE  \/ request'[r] = request[r]
           \/ /\ ReadSettings(r)
              /\ \A t \in Part(request'[r]) :
                    t \in Present /\ \A x \in request'[r].read : x.tag = t => x.entries = settings[t]
<1> DEFINE Goal == \/ request'[r] = request[r]
                   \/ /\ ReadSettings(r)
                      /\ \A t \in Part(request'[r]) :
                            t \in Present /\ \A x \in request'[r].read : x.tag = t => x.entries = settings[t]
<1>1. ASSUME NEW s, NEW q, Goes(s, q), q.pc # "write"
      PROVE  Goal
  BY <1>1 DEF Goes, Types
<1>2. CASE UNCHANGED request
  BY <1>2
<1>3. CASE \E s \in Request, c \in Client : Create(s, c)
  BY <1>1, <1>3, Continuing, Places DEF Create
<1>4. CASE \E s \in Request, cs \in SUBSET Client : BulkCreate(s, cs)
  <2>1. PICK s \in Request, cs \in SUBSET Client :
           \E all : Goes(s, Rest(At("read", "sync", cs, all, {})))
    BY <1>4, Continuing DEF BulkCreate
  <2>2. QED BY <1>1, <2>1, Places
<1>5. CASE \E s \in Request, c \in Client : Update(s, c)
  BY <1>1, <1>5, Places DEF Update, Goes
<1>6. CASE \E s \in Request, c \in Client : Delete(s, c)
  <2>1. PICK s \in Request, c \in Client, pc \in {"drop", "read"} :
           Goes(s, At(pc, "delete", {c}, {}, row[c].tags))
    BY <1>6 DEF Delete, Goes
  <2>2. QED BY <1>1, <2>1, Places
<1>7. CASE \E s \in Request : UpdateRow(s)
  <2>1. PICK s \in Request, c \in Client, new \in Row :
           \/ Goes(s, Rest(At("read", "sync", {c}, new.tags, request[s].remove \ new.tags)))
           \/ Goes(s, Done)
    BY <1>7, UpdateGoes
  <2>2. QED BY <1>1, <2>1, Places
<1>8. ASSUME NEW s \in Request, ReadSettings(s)
      PROVE  Goal
  <2> DEFINE found == Part(request[s]) \cap Present
  <2>1. CASE Goes(s, Past(request[s]))
    BY <1>1, <2>1, PastPlace
  <2>2. CASE Goes(s, Reader(request[s], found)) /\ s # r
    BY <2>2 DEF Goes, Types
  <2>3. CASE Goes(s, Reader(request[s], found)) /\ s = r /\ found # {}
    <3>1. request'[r] = Reader(request[r], found)
      BY <2>3 DEF Goes, Types
    <3>2. Part(request'[r]) = found
      BY <2>3, <3>1 DEF Reader, Part
    <3>3. \A x \in request'[r].read : x.entries = settings[x.tag]
      BY <3>1 DEF Reader
    <3>4. QED BY <1>8, <2>3, <3>2, <3>3
  <2>4. QED BY <1>8, <2>1, <2>2, <2>3, ReadGoes
<1>9. CASE \E s \in Request : WriteSettings(s)
  BY <1>1, <1>9, Places DEF WriteSettings, Goes
<1>10. CASE \E s \in Request : Invalidate(s)
  BY <1>1, <1>10, PastGoes, PastPlace DEF Invalidate
<1>11. CASE \E s \in Request : DropRow(s) \/ Die(s)
  BY <1>1, <1>11, Places DEF DropRow, Die, Goes
<1>12. CASE \E s \in Request, t \in Tag : EditInbound(s, t) \/ SetEnable(s, t) \/ CreateInbound(s, t)
  <2>1. PICK s \in Request, t \in Tag, pc \in {"read", "invalidate"} :
           Goes(s, At(pc, "inbound", {}, {t}, {}))
    BY <1>12 DEF EditInbound, SetEnable, CreateInbound, Written, Goes
  <2>2. QED BY <1>1, <2>1, Places
<1>13. CASE \E s \in Request, t \in Tag : DeleteInbound(s, t)
  BY <1>13, Places DEF DeleteInbound, Void
<1>14. QED
  BY <1>2, <1>3, <1>4, <1>5, <1>6, <1>7, <1>8, <1>9, <1>10, <1>11, <1>12, <1>13
     DEF Next, Poll, Expire, ExpiryCheck

\* An operator's form writes an inbound that is there.
LEMMA FormPresent ==
    ASSUME Types, Positions, Absent, NEW r \in Request, WriteSettings(r)
    PROVE  /\ Part(request[r]) \subseteq Present /\ Form(request[r]) \subseteq Present
           /\ Form(request[r]) \subseteq Part(request[r])
<1>1. Part(request[r]) \subseteq Present
  BY Fields DEF Absent, Types, Part, WriteSettings
<1>2. Form(request[r]) \subseteq Part(request[r])
  BY DEF Form, Part
<1>3. QED BY <1>1, <1>2

LEMMA PresentStep ==
    ASSUME Types, Positions, Absent, Next, NEW t \in Tag
    PROVE  \/ t \in Present' <=> t \in Present
           \/ \E r \in Request : /\ CreateInbound(r, t) \/ DeleteInbound(r, t)
                                 /\ CreateInbound(r, t) => t \in Present'
                                 /\ DeleteInbound(r, t) => t \notin Present'
<1> DEFINE Goal == \/ t \in Present' <=> t \in Present
                   \/ \E r \in Request : /\ CreateInbound(r, t) \/ DeleteInbound(r, t)
                                         /\ CreateInbound(r, t) => t \in Present'
                                         /\ DeleteInbound(r, t) => t \notin Present'
<1>1. CASE UNCHANGED inbound
  BY <1>1 DEF Present
<1>2. ASSUME NEW s \in Present, inbound' = Toggled(s)
      PROVE  Goal
  BY <1>2 DEF Present, Toggled, Types
<1>3. CASE \E r \in Request : WriteSettings(r)
  BY <1>1, <1>2, <1>3, FormPresent DEF WriteSettings
<1>4. CASE \E r \in Request, s \in Tag : SetEnable(r, s)
  BY <1>2, <1>4 DEF SetEnable
<1>5. ASSUME NEW r \in Request, NEW s \in Tag, CreateInbound(r, s)
      PROVE  Goal
  BY <1>5 DEF CreateInbound, Present, Types, DeleteInbound
<1>6. ASSUME NEW r \in Request, NEW s \in Tag, DeleteInbound(r, s)
      PROVE  Goal
  <2>1. s \in Present /\ inbound' = [inbound EXCEPT ![s] = "none"]
    BY <1>6 DEF DeleteInbound
  <2>2. CASE s # t
    BY <2>1, <2>2 DEF Present, Types
  <2>3. CASE s = t
    <3>1. t \notin Present' /\ ~CreateInbound(r, t)
      BY <2>1, <2>3 DEF CreateInbound, Present, Types
    <3>2. QED BY <1>6, <2>3, <3>1
  <2>4. QED BY <2>2, <2>3
<1>7. QED
  BY <1>1, <1>3, <1>4, <1>5, <1>6 DEF Next, Poll, Expire, Create, BulkCreate, Update, UpdateRow, Delete,
     ReadSettings, Invalidate, DropRow, Die, EditInbound, ExpiryCheck, panel

LEMMA AbsentStep ==
    ASSUME Types, Positions, Absent, Next
    PROVE  Absent'
<1> SUFFICES ASSUME NEW t \in Tag, t \notin Present'
             PROVE  /\ settings'[t] = {}
                    /\ \A r \in Request : request'[r].pc = "write" => t \notin Part(request'[r])
  BY DEF Absent, Part
<1>1. CASE \E r \in Request : DeleteInbound(r, t)
  <2>1. PICK r \in Request : DeleteInbound(r, t)
    BY <1>1
  <2>2. settings'[t] = {}
    BY <2>1 DEF DeleteInbound, Types
  <2>3. ASSUME NEW s \in Request, request'[s].pc = "write"
        PROVE  t \notin Part(request'[s])
    <3>1. /\ request'[s] = request[s] /\ ~\E x \in request[s].read : x.tag = t
      BY <2>1, <2>3, Places DEF DeleteInbound, Void
    <3>2. QED BY <2>3, <3>1 DEF Positions, Sound
  <2>4. QED BY <2>2, <2>3
<1>2. CASE ~\E r \in Request : DeleteInbound(r, t)
  <2>1. t \notin Present
    BY <1>2, PresentStep
  <2>2. settings[t] = {} /\ \A r \in Request : request[r].pc = "write" => t \notin Part(request[r])
    BY <2>1 DEF Absent
  <2>3. settings'[t] = {}
    <3>1. CASE UNCHANGED settings
      BY <2>2, <3>1
    <3>2. CASE \E r \in Request : WriteSettings(r)
      <4>1. PICK r \in Request : WriteSettings(r)
        BY <3>2
      <4>2. t \notin Part(request[r])
        BY <2>2, <4>1 DEF WriteSettings
      <4>3. QED BY <2>2, <4>1, <4>2, Writes
    <3>3. CASE \E r \in Request, s \in Tag : DeleteInbound(r, s)
      BY <2>2, <3>3 DEF DeleteInbound, Types
    <3>4. QED
      BY <3>1, <3>2, <3>3 DEF Next, Poll, Expire, Create, BulkCreate, Update, UpdateRow, Delete,
         ReadSettings, Invalidate, DropRow, Die, EditInbound, SetEnable, CreateInbound, ExpiryCheck, panel
  <2>4. \A r \in Request : request'[r].pc = "write" => t \notin Part(request'[r])
    BY <2>1, <2>2, WritingStep
  <2>5. QED BY <2>3, <2>4
<1>3. QED BY <1>1, <1>2

\* What is lost stays so, until the inbound goes.
LEMMA LostStep ==
    ASSUME Next, NEW t \in lost, \A r \in Request : ~DeleteInbound(r, t)
    PROVE  t \in lost'
<1>1. CASE lost' = lost
  BY <1>1
<1>2. CASE \E r \in Request : ReadSettings(r)
  BY <1>2 DEF ReadSettings
<1>3. CASE \E r \in Request, s \in Tag : CreateInbound(r, s)
  BY <1>3 DEF CreateInbound
<1>4. CASE \E r \in Request, s \in Tag : DeleteInbound(r, s)
  <2>1. PICK r \in Request, s \in Tag : DeleteInbound(r, s)
    BY <1>4
  <2>2. s # t /\ lost' = lost \ {s}
    BY <2>1 DEF DeleteInbound
  <2>3. QED BY <2>2
<1>5. QED
  BY <1>1, <1>2, <1>3, <1>4 DEF Next, Poll, Expire, Create, BulkCreate, Update, UpdateRow, Delete,
     WriteSettings, Invalidate, DropRow, Die, EditInbound, SetEnable, ExpiryCheck, history

\* Who writes the settings of an inbound.
LEMMA SettingsKept ==
    ASSUME Types, Positions, Next, NEW t \in Tag,
           \A r \in Request : ~DeleteInbound(r, t),
           \A r \in Request : WriteSettings(r) => t \notin Part(request[r])
    PROVE  settings'[t] = settings[t]
<1>1. CASE UNCHANGED settings
  BY <1>1
<1>2. CASE \E r \in Request : WriteSettings(r)
  BY <1>2, Writes
<1>3. CASE \E r \in Request, s \in Tag : DeleteInbound(r, s)
  <2>1. PICK r \in Request, s \in Tag : DeleteInbound(r, s)
    BY <1>3
  <2>2. s # t /\ settings' = [settings EXCEPT ![s] = {}]
    BY <2>1 DEF DeleteInbound
  <2>3. QED BY <2>2 DEF Types
<1>4. QED
  BY <1>1, <1>2, <1>3 DEF Next, Poll, Expire, Create, BulkCreate, Update, UpdateRow, Delete,
     ReadSettings, Invalidate, DropRow, Die, EditInbound, SetEnable, CreateInbound, ExpiryCheck, panel

LEMMA WritersStep ==
    ASSUME Types, Positions, Absent, Writers, Next
    PROVE  Writers'
<1> SUFFICES ASSUME NEW t \in Tag, t \notin lost', NEW r \in Request,
                    request'[r].pc = "write", t \in Part(request'[r])
             PROVE  /\ \A s \in Request : request'[s].pc = "write" /\ t \in Part(request'[s]) => s = r
                    /\ \A x \in request'[r].read : x.tag = t => x.entries = settings'[t]
  BY DEF Writers, Part
<1>1. \A s \in Request : ~DeleteInbound(s, t)
  <2>1. SUFFICES ASSUME NEW s \in Request, DeleteInbound(s, t)
                 PROVE  FALSE
    OBVIOUS
  <2>2. t \notin Present'
    BY <2>1 DEF DeleteInbound, Present, Types
  <2>3. Absent'
    BY AbsentStep
  <2>4. QED BY <2>2, <2>3 DEF Absent, Part
<1>2. t \notin lost
  BY <1>1, LostStep
<1>3. ASSUME NEW a \in Request, ReadSettings(a), request'[a].pc = "write", t \in Part(request'[a])
      PROVE  \A s \in Request : request'[s].pc = "write" /\ t \in Part(request'[s]) => s = a
  <2> SUFFICES ASSUME NEW s \in Request, request'[s].pc = "write", t \in Part(request'[s]), s # a
               PROVE  FALSE
    OBVIOUS
  <2> DEFINE found == Part(request[a]) \cap Present
  <2>1. \/ Goes(a, Past(request[a]))
        \/ found # {} /\ Goes(a, Reader(request[a], found))
    BY <1>3, ReadGoes
  <2>2. request'[s] = request[s]
    BY <2>1 DEF Goes, Types
  <2>3. found # {} /\ Goes(a, Reader(request[a], found))
    BY <1>3, <2>1, PastPlace DEF Goes, Types
  <2>4. request'[a] = Reader(request[a], found)
    BY <2>3 DEF Goes, Types
  <2>5. t \in found
    BY <1>3, <2>3, <2>4 DEF Reader, Part
  <2>6. Reading(a, t)
    BY <2>2 DEF Reading
  <2>7. QED BY <1>3, <2>5, <2>6 DEF ReadSettings
<1>4. ASSUME NEW a \in Request, ~ReadSettings(a), request'[a].pc = "write", t \in Part(request'[a])
      PROVE  request'[a] = request[a]
  BY <1>4, WritingStep
<1>5. ASSUME NEW s \in Request, request'[s].pc = "write", t \in Part(request'[s])
      PROVE  s = r
  BY <1>2, <1>3, <1>4, <1>5 DEF Writers
<1>6. ASSUME NEW x \in request'[r].read, x.tag = t
      PROVE  x.entries = settings'[t]
  <2>1. x.entries = settings[t]
    BY <1>2, <1>6, WritingStep DEF Writers
  <2>2. ASSUME NEW s \in Request, WriteSettings(s), t \in Part(request[s])
        PROVE  FALSE
    <3>1. request' = [request EXCEPT ![s] = At("invalidate", request[s].op, request[s].clients,
                                               request[s].sync, request[s].remove)]
          /\ request[s].pc = "write"
      BY <2>2 DEF WriteSettings
    <3>2. s # r
      BY <3>1, Places DEF Types
    <3>3. request'[r] = request[r]
      BY <3>1, <3>2 DEF Types
    <3>4. QED BY <1>2, <2>2, <3>1, <3>2, <3>3 DEF Writers
  <2>3. settings'[t] = settings[t]
    BY <1>1, <2>2, SettingsKept
  <2>4. QED BY <2>1, <2>3
<1>7. QED BY <1>5, <1>6
-----------------------------------------------------------------------------
(* Who is at work on a client.                                             *)

LEMMA Turning ==
    ASSUME Types, NEW r \in Request, NEW q, Goes(r, q)
    PROVE  request'[r] = q /\ \A s \in Request \ {r} : request'[s] = request[s]
BY DEF Goes, Types

\* Nobody is at work on a client whose edit begins, unless it is muddled.
LEMMA NobodyElse ==
    ASSUME Positions, NEW cs, Muddle(cs), NEW c \in cs, c \notin muddled', NEW s \in Request
    PROVE  c \notin request[s].clients
<1>1. ~Concerns(s, c)
  BY DEF Muddle
<1>2. request[s].pc \in {"idle", "done"} => request[s].clients = {}
  BY DEF Positions, Sound
<1>3. QED BY <1>1, <1>2 DEF Concerns, Active

LEMMA IdleNobody ==
    ASSUME Positions, NEW r \in Request, request[r].pc \in {"idle", "done"}
    PROVE  request[r].clients = {}
BY DEF Positions, Sound

LEMMA PastClients ==
    ASSUME NEW q
    PROVE  Past(q).clients \subseteq q.clients
BY Places DEF Past

\* A step begins an edit, or leaves the requests their clients or fewer.
LEMMA ClientsStep ==
    ASSUME Types, Positions, Next
    PROVE  \/ \E r \in Request, cs \in SUBSET Client : \E q :
                 /\ request[r].pc = "idle" /\ Muddle(cs) /\ Goes(r, q) /\ q.clients \subseteq cs
                 /\ \A c \in cs : Exists(c)'
           \/ \A r \in Request : request'[r].clients \subseteq request[r].clients
<1> DEFINE Begins == \E r \in Request, cs \in SUBSET Client : \E q :
                        /\ request[r].pc = "idle" /\ Muddle(cs) /\ Goes(r, q) /\ q.clients \subseteq cs
                        /\ \A c \in cs : Exists(c)'
           Fewer == \A r \in Request : request'[r].clients \subseteq request[r].clients
<1>1. ASSUME NEW r \in Request, NEW q, Goes(r, q), q.clients \subseteq request[r].clients
      PROVE  Fewer
  BY <1>1, Turning
<1>2. CASE UNCHANGED request
  BY <1>2
<1>3. ASSUME NEW r \in Request, NEW c \in Client, Create(r, c)
      PROVE  Begins
  <2>1. PICK tags \in SUBSET Tag, enable \in BOOLEAN :
           /\ row' = [row EXCEPT ![c] = Created(tags, enable)]
           /\ Goes(r, Rest(At("read", "sync", {c}, tags, {})))
    BY <1>3, Continuing DEF Create
  <2>2. Rest(At("read", "sync", {c}, tags, {})).clients \subseteq {c} /\ {c} \in SUBSET Client
    BY Places
  <2>3. Exists(c)'
    BY <2>1, CreatedRow, NullAssumption DEF Exists, Types
  <2>4. QED BY <1>3, <2>1, <2>2, <2>3 DEF Create
<1>4. ASSUME NEW r \in Request, NEW cs \in SUBSET Client, BulkCreate(r, cs)
      PROVE  Begins
  <2>1. PICK tags \in SUBSET Tag :
           /\ row' = [c \in Client |-> IF c \in cs THEN BulkRow(c, tags) ELSE row[c]]
           /\ Goes(r, Rest(At("read", "sync", cs, UNION {BulkRow(c, tags).tags : c \in cs}, {})))
    BY <1>4, Continuing DEF BulkCreate, BulkRow
  <2> DEFINE all == UNION {BulkRow(c, tags).tags : c \in cs}
  <2>2. Rest(At("read", "sync", cs, all, {})).clients \subseteq cs
    <3> HIDE DEF all
    <3> QED BY Places
  <2>3. \A c \in cs : Exists(c)'
    BY <2>1, BulkRows, NullAssumption DEF Exists
  <2>4. QED BY <1>4, <2>1, <2>2, <2>3 DEF BulkCreate
<1>5. ASSUME NEW r \in Request, NEW c \in Client, Update(r, c)
      PROVE  Begins
  <2>1. Goes(r, At("row", "sync", {c}, {}, row[c].tags))
    BY <1>5 DEF Update, Goes
  <2>2. At("row", "sync", {c}, {}, row[c].tags).clients \subseteq {c} /\ {c} \in SUBSET Client
    BY Places
  <2>3. Exists(c)'
    BY <1>5 DEF Update, Exists, panel
  <2>4. QED BY <1>5, <2>1, <2>2, <2>3 DEF Update
<1>6. ASSUME NEW r \in Request, NEW c \in Client, Delete(r, c)
      PROVE  Begins
  <2> DEFINE q == At(IF row[c].tags = {} THEN "drop" ELSE "read", "delete", {c}, {}, row[c].tags)
  <2>1. Goes(r, q)
    BY <1>6 DEF Delete, Goes
  <2>2. q.clients \subseteq {c} /\ {c} \in SUBSET Client
    BY Places
  <2>3. Exists(c)'
    BY <1>6 DEF Delete, Exists, panel
  <2> HIDE DEF q
  <2>4. QED BY <1>6, <2>1, <2>2, <2>3 DEF Delete
<1>7. ASSUME NEW r \in Request, UpdateRow(r)
      PROVE  Fewer
  <2>1. PICK c \in Client, new \in Row :
           /\ request[r].clients = {c}
           /\ \/ Goes(r, Rest(At("read", "sync", {c}, new.tags, request[r].remove \ new.tags)))
              \/ Goes(r, Done)
    BY <1>7, UpdateGoes
  <2>2. QED BY <1>1, <2>1, Places
<1>8. ASSUME NEW r \in Request, ReadSettings(r)
      PROVE  Fewer
  <2>1. PICK q : Goes(r, q) /\ (q = Past(request[r]) \/ \E found : q = Reader(request[r], found))
    BY <1>8, ReadGoes
  <2>2. q.clients \subseteq request[r].clients
    BY <2>1, PastClients DEF Reader
  <2>3. QED BY <1>1, <2>1, <2>2
<1>9. CASE \E r \in Request : WriteSettings(r)
  BY <1>1, <1>9, Places DEF WriteSettings, Goes
<1>10. CASE \E r \in Request : Invalidate(r)
  BY <1>1, <1>10, PastGoes, PastClients DEF Invalidate
<1>11. CASE \E r \in Request : DropRow(r) \/ Die(r)
  BY <1>1, <1>11, Places DEF DropRow, Die, Goes
<1>12. CASE \E r \in Request, t \in Tag : EditInbound(r, t) \/ SetEnable(r, t) \/ CreateInbound(r, t)
  <2>1. PICK r \in Request, t \in Tag, pc \in {"read", "invalidate"} :
           Goes(r, At(pc, "inbound", {}, {t}, {}))
    BY <1>12 DEF EditInbound, SetEnable, CreateInbound, Written, Goes
  <2>2. QED BY <1>1, <2>1, Places
<1>13. CASE \E r \in Request, t \in Tag : DeleteInbound(r, t)
  BY <1>13, Places DEF DeleteInbound, Void
<1>14. QED
  BY <1>2, <1>3, <1>4, <1>5, <1>6, <1>7, <1>8, <1>9, <1>10, <1>11, <1>12, <1>13
     DEF Next, Poll, Expire, ExpiryCheck

LEMMA OneStep ==
    ASSUME Types, Positions, Next, NEW c \in Client, c \notin muddled', OneOf(c)
    PROVE  OneOf(c)'
<1>1. ASSUME NEW r \in Request, NEW cs \in SUBSET Client, NEW q, request[r].pc = "idle",
             Muddle(cs), Goes(r, q), q.clients \subseteq cs
      PROVE  OneOf(c)'
  <2>1. request'[r] = q /\ \A s \in Request \ {r} : request'[s] = request[s]
    BY <1>1, Turning
  <2>2. CASE c \in cs
    <3>1. \A s \in Request \ {r} : c \notin request'[s].clients
      BY <1>1, <2>1, <2>2, NobodyElse
    <3>2. QED BY <3>1 DEF OneOf
  <2>3. CASE c \notin cs
    <3>1. \A s \in Request : c \in request'[s].clients => c \in request[s].clients
      BY <1>1, <2>1, <2>3
    <3>2. QED BY <3>1 DEF OneOf
  <2>4. QED BY <2>2, <2>3
<1>2. ASSUME \A r \in Request : request'[r].clients \subseteq request[r].clients
      PROVE  OneOf(c)'
  BY <1>2 DEF OneOf
<1>3. QED BY <1>1, <1>2, ClientsStep
\* A client that somebody is at work on exists.
LEMMA ExistsStep ==
    ASSUME Types, Positions, Alone, Next, NEW c \in Client, c \notin muddled,
           NEW s \in Request, c \in request'[s].clients
    PROVE  Exists(c)'
<1>1. CASE c \in request[s].clients
  <2>1. row[c] \notin {Missing, Gone} /\ OneOf(c)
    BY <1>1 DEF Alone, Knows, Exists
  <2>2. ASSUME NEW r \in Request, DropRow(r), c \in request[r].clients
        PROVE  FALSE
    <3>1. r = s
      BY <1>1, <2>1, <2>2 DEF OneOf
    <3>2. request'[s] = Done
      BY <2>2, <3>1, Turning DEF DropRow, Goes
    <3>3. QED BY <3>2, Places
  <2>3. QED BY <2>1, <2>2, RowsStep DEF Exists
<1>2. CASE c \notin request[s].clients
  <2>1. PICK r \in Request, cs \in SUBSET Client : \E q :
           Goes(r, q) /\ q.clients \subseteq cs /\ \A d \in cs : Exists(d)'
    BY <1>2, ClientsStep
  <2>2. PICK q : Goes(r, q) /\ q.clients \subseteq cs /\ \A d \in cs : Exists(d)'
    BY <2>1
  <2>3. c \in q.clients
    BY <1>2, <2>2, Turning
  <2>4. QED BY <2>2, <2>3
<1>3. QED BY <1>1, <1>2
-----------------------------------------------------------------------------
(* What a step leaves alone.                                               *)

\* A client whose row and requests a step leaves alone.
LEMMA Untouched ==
    ASSUME Alone, Copies, NEW c \in Client, c \notin muddled, row'[c] = row[c],
           \A s \in Request : c \in request[s].clients \/ c \in request'[s].clients =>
                                 request'[s] = request[s]
    PROVE  /\ \A s \in Request : c \in request'[s].clients => Knows(request[s], c)'
           /\ \A t \in Present \ lost : Stored(t, c)' = Stored(t, c) => Copied(t, c)'
<1>1. ASSUME NEW s \in Request, c \in request'[s].clients
      PROVE  Knows(request[s], c)'
  <2>1. request'[s] = request[s] /\ Knows(request[s], c)
    BY <1>1 DEF Alone
  <2>2. QED BY <2>1 DEF Knows, Exists
<1>2. ASSUME NEW t \in Present \ lost, Stored(t, c)' = Stored(t, c)
      PROVE  Copied(t, c)'
  <2>1. Copied(t, c)
    BY DEF Copies
  <2>2. (Agrees(t, c) <=> Agrees(t, c)') /\ (Names(c, t) <=> Names(c, t)')
    BY <1>2 DEF Agrees, Should, Names, Exists
  <2>3. ASSUME NEW s \in Request, c \in request'[s].clients
        PROVE  Handles(request[s], t, c)'
    <3>1. request'[s] = request[s] /\ Handles(request[s], t, c)
      BY <2>1, <2>3 DEF Copied
    <3>2. QED BY <1>2, <2>2, <3>1 DEF Handles, Rewrites, Removes
  <2>4. ASSUME \A s \in Request : c \notin request'[s].clients
        PROVE  Agrees(t, c)'
    BY <2>1, <2>2, <2>4 DEF Copied
  <2>5. QED BY <2>3, <2>4 DEF Copied
<1>3. QED BY <1>1, <1>2

\* A form that has been written throws the node's configuration away, or dies.
LEMMA ReformsKept ==
    ASSUME Types, Positions, Next, NEW t \in Tag, t \notin muddled', cached'[t].etag,
           NEW s \in Request, Reforms(request[s], t)
    PROVE  Reforms(request[s], t)'
<1>1. /\ request[s].pc \in {"invalidate", "void"} /\ request[s].op = "inbound" /\ t \in request[s].sync
      /\ t \in Form(request[s])
  BY DEF Reforms, Form
<1>2. request[s].read = {}
  BY <1>1 DEF Positions, Sound
<1>3. CASE request'[s] = request[s]
  BY <1>3 DEF Reforms, Form
<1>4. ASSUME NEW r \in Request, NEW q, Goes(r, q), request[r].pc \notin {"invalidate", "void"}
      PROVE  request'[s] = request[s]
  BY <1>1, <1>4, Turning
<1>5. CASE Invalidate(s)
  <2>1. t \in Part(request[s])
    BY <1>1 DEF Part
  <2>2. cached'[t] = NoConfig
    BY <1>5, <2>1 DEF Invalidate, Invalidated
  <2>3. QED BY <2>2 DEF NoConfig
<1>6. CASE Die(s)
  BY <1>1, <1>6 DEF Die
<1>7. CASE \E r \in Request : r # s /\ (Invalidate(r) \/ Die(r))
  <2>1. PICK r \in Request : r # s /\ \E q : Goes(r, q)
    BY <1>7, PastGoes DEF Invalidate, Die, Goes
  <2>2. QED BY <1>3, <2>1, Turning
<1>8. CASE UNCHANGED request
  BY <1>3, <1>8
<1>9. CASE \E r \in Request, c \in Client : Create(r, c) \/ Update(r, c) \/ Delete(r, c)
  BY <1>3, <1>4, <1>9, Continuing DEF Create, Update, Delete, Goes
<1>10. CASE \E r \in Request, cs \in SUBSET Client : BulkCreate(r, cs)
  BY <1>3, <1>4, <1>10, Continuing DEF BulkCreate
<1>11. CASE \E r \in Request : UpdateRow(r)
  BY <1>3, <1>4, <1>11, Continuing DEF UpdateRow
<1>12. CASE \E r \in Request : ReadSettings(r)
  BY <1>3, <1>4, <1>12, ReadGoes DEF ReadSettings
<1>13. CASE \E r \in Request : WriteSettings(r) \/ DropRow(r)
  BY <1>3, <1>4, <1>13 DEF WriteSettings, DropRow, Goes
<1>14. CASE \E r \in Request, u \in Tag : EditInbound(r, u) \/ SetEnable(r, u) \/ CreateInbound(r, u)
  BY <1>3, <1>4, <1>14 DEF EditInbound, SetEnable, CreateInbound, Written, Goes
<1>15. CASE \E r \in Request, u \in Tag : DeleteInbound(r, u)
  BY <1>1, <1>2, <1>3, <1>15 DEF DeleteInbound
<1>16. QED
  BY <1>5, <1>6, <1>7, <1>8, <1>9, <1>10, <1>11, <1>12, <1>13, <1>14, <1>15
     DEF Next, Poll, Expire, ExpiryCheck

\* Whoever changes an inbound's flag will throw the node's configuration away.
LEMMA FlagStep ==
    ASSUME Types, Positions, Next, NEW t \in Tag, inbound'[t] # inbound[t]
    PROVE  \E r \in Request : Reforms(request[r], t)'
<1> DEFINE q0(u) == At("invalidate", "inbound", {}, {u}, {})
<1>1. ASSUME NEW r \in Request, request'[r] = q0(t)
      PROVE  Reforms(request[r], t)'
  BY <1>1, Places DEF Reforms, Form
<1>2. CASE \E r \in Request, u \in Tag : SetEnable(r, u)
  <2>1. PICK r \in Request, u \in Tag : SetEnable(r, u)
    BY <1>2
  <2>2. request'[r] = q0(u)
    BY <2>1, Turning DEF SetEnable, Written, Goes
  <2>3. u = t
    BY <2>1 DEF SetEnable, Toggled, Types
  <2>4. QED BY <1>1, <2>2, <2>3
<1>3. CASE \E r \in Request, u \in Tag : CreateInbound(r, u)
  <2>1. PICK r \in Request, u \in Tag : CreateInbound(r, u)
    BY <1>3
  <2>2. request'[r] = q0(u)
    BY <2>1, Turning DEF CreateInbound, Written, Goes
  <2>3. u = t
    BY <2>1 DEF CreateInbound, Types
  <2>4. QED BY <1>1, <2>2, <2>3
<1>4. CASE \E r \in Request, u \in Tag : DeleteInbound(r, u)
  <2>1. PICK r \in Request, u \in Tag : DeleteInbound(r, u)
    BY <1>4
  <2>2. request'[r] = q0(u)
    BY <2>1 DEF DeleteInbound
  <2>3. u = t
    BY <2>1 DEF DeleteInbound, Types
  <2>4. QED BY <1>1, <2>2, <2>3
<1>5. CASE \E r \in Request : WriteSettings(r)
  <2>1. PICK r \in Request : WriteSettings(r)
    BY <1>5
  <2>2. PICK u \in Form(request[r]) : inbound' = Toggled(u)
    BY <2>1 DEF WriteSettings
  <2>3. u = t
    BY <2>2 DEF Toggled, Types
  <2>4. request'[r] = At("invalidate", request[r].op, request[r].clients, request[r].sync, request[r].remove)
    BY <2>1, Turning DEF WriteSettings, Goes
  <2>5. QED BY <2>2, <2>3, <2>4, Places DEF Reforms, Form
<1>6. QED
  BY <1>2, <1>3, <1>4, <1>5 DEF Next, Poll, Expire, Create, BulkCreate, Update, UpdateRow, Delete,
     ReadSettings, Invalidate, DropRow, Die, EditInbound, ExpiryCheck, panel

LEMMA CacheStep ==
    ASSUME Types, Next, NEW t \in Tag, cached'[t].etag, ~Poll(t)
    PROVE  cached'[t] = cached[t]
<1>1. ~NoConfig.etag
  BY DEF NoConfig
<1>2. CASE \E r \in Request : Invalidate(r)
  BY <1>1, <1>2 DEF Invalidate
<1>3. CASE \E u \in Tag : Poll(u) \/ Expire(u)
  BY <1>1, <1>3 DEF Poll, Expire, Types
<1>4. QED
  BY <1>2, <1>3 DEF Next, Create, BulkCreate, Update, UpdateRow, Delete, ReadSettings, WriteSettings,
     DropRow, Die, EditInbound, SetEnable, CreateInbound, DeleteInbound, ExpiryCheck

\* The row is the one it was, or has been disabled or edited without telling.
Milder(c) ==
    Exists(c)' => /\ Exists(c) /\ row'[c].tags = row[c].tags
                  /\ row[c].told..row[c].cred \subseteq row'[c].told..row'[c].cred
                  /\ row'[c].enable => row[c].enable

LEMMA SameMilder ==
    ASSUME NEW c, row'[c] = row[c]
    PROVE  Milder(c)
BY DEF Milder, Exists

LEMMA ServesKept ==
    ASSUME NEW t \in Tag, NEW c \in Client, Serves(t, c), Milder(c), Exists(c)',
           cached'[t] = cached[t], inbound'[t] = inbound[t]
    PROVE  Serves(t, c)'
<1>1. inbound'[t] = "on" /\ t \in row'[c].tags <=> \E x \in cached'[t].rows : x.client = c
  BY DEF Serves, Milder
<1>2. ASSUME NEW x \in cached'[t].rows, x.client = c
      PROVE  x.cred \in row'[c].told..row'[c].cred /\ (row'[c].enable => x.enable)
  <2>1. x.cred \in row[c].told..row[c].cred /\ (row[c].enable => x.enable)
    BY <1>2 DEF Serves
  <2>2. QED BY <2>1 DEF Milder
<1>3. QED BY <1>1, <1>2 DEF Serves

LEMMA PollFits ==
    ASSUME Types, NEW t \in Tag, Poll(t), NEW c \in Client
    PROVE  Fits(t, c)'
<1>1. cached'[t].rows = ServedRows(t) /\ row' = row /\ inbound' = inbound
  BY DEF Poll, ServedRows, Types, panel
<1> SUFFICES ASSUME Exists(c)
             PROVE  Serves(t, c)'
  BY <1>1 DEF Fits, Exists
<1>2. inbound[t] = "on" /\ t \in row[c].tags <=> \E x \in ServedRows(t) : x.client = c
  BY ServedTyped DEF Naming
<1>3. ASSUME NEW x \in ServedRows(t), x.client = c
      PROVE  x.cred \in row[c].told..row[c].cred /\ (row[c].enable => x.enable)
  <2>1. x.cred = row[x.client].cred /\ x.enable = row[x.client].enable
    BY ServedTyped
  <2>2. row[c].cred \in row[c].told..row[c].cred
    BY Rows
  <2>3. QED BY <1>3, <2>1, <2>2, Zenon
<1>4. QED BY <1>1, <1>2, <1>3 DEF Serves

\* What the cached configuration has of a client still fits, unless the one
\* request that would have thrown it away will not.
LEMMA FitsKept ==
    ASSUME Types, Positions, Served, Next, NEW t \in Tag, t \notin muddled', cached'[t].etag,
           NEW c \in Client, c \notin muddled', Milder(c),
           \A s \in Request : c \in request[s].clients /\ Renews(request[s], t, c) =>
                                 Renews(request[s], t, c)' \/ Serves(t, c) \/ Reforms(request[s], t)
    PROVE  Fits(t, c)'
<1>1. CASE Poll(t)
  BY <1>1, PollFits
<1>2. CASE inbound'[t] # inbound[t]
  BY <1>2, FlagStep DEF Fits, Renews
<1>3. CASE ~Poll(t) /\ inbound'[t] = inbound[t]
  <2>1. cached'[t] = cached[t]
    BY <1>3, CacheStep
  <2>2. t \notin muddled /\ c \notin muddled
    BY HistoryStep
  <2>3. Fits(t, c)
    BY <2>1, <2>2 DEF Served
  <2>4. CASE \E s \in Request : Reforms(request[s], t)
    BY <2>4, ReformsKept DEF Fits, Renews
  <2>5. CASE Serves(t, c)
    BY <1>3, <2>1, <2>5, ServesKept DEF Fits
  <2>6. ASSUME NEW s \in Request, Renews(request[s], t, c)
        PROVE  Fits(t, c)'
    <3>1. Reforms(request[s], t) \/ c \in request[s].clients
      BY <2>6 DEF Renews
    <3>2. QED BY <2>4, <2>5, <2>6, <3>1 DEF Fits
  <2>7. QED BY <2>3, <2>4, <2>5, <2>6 DEF Fits, Milder
<1>4. QED BY <1>1, <1>2, <1>3

\* The presence of the inbound, and clients that do not exist yet.
LEMMA ServedRest ==
    ASSUME Types, Positions, Absent, Served, Next, NEW t \in Tag, t \notin muddled', cached'[t].etag
    PROVE  /\ t \in Present' \/ cached'[t].rows = {} \/ \E r \in Request : Reforms(request[r], t)'
           /\ \A c \in Client : row'[c] = Missing => \A x \in cached'[t].rows : x.client # c
<1>1. CASE Poll(t)
  <2>1. cached'[t].rows = ServedRows(t) /\ row' = row /\ inbound' = inbound
    BY <1>1 DEF Poll, ServedRows, Types, panel
  <2>2. t \notin Present => ServedRows(t) = {}
    BY ServedTyped DEF Present
  <2>3. \A x \in ServedRows(t) : row[x.client] # Missing
    BY ServedTyped, NamingExists DEF Exists
  <2>4. QED BY <2>1, <2>2, <2>3 DEF Present
<1>2. CASE ~Poll(t)
  <2>1. cached'[t] = cached[t] /\ t \notin muddled
    BY <1>2, CacheStep, HistoryStep
  <2>2. \A c \in Client : row'[c] = Missing => \A x \in cached'[t].rows : x.client # c
    BY <2>1, RowsStep DEF Served
  <2>3. t \in Present \/ cached[t].rows = {} \/ \E r \in Request : Reforms(request[r], t)
    BY <2>1 DEF Served
  <2>4. CASE inbound'[t] # inbound[t]
    BY <2>2, <2>4, FlagStep
  <2>5. CASE inbound'[t] = inbound[t]
    <3>1. t \in Present => t \in Present'
      BY <2>5 DEF Present
    <3>2. QED BY <2>1, <2>2, <2>3, <3>1, ReformsKept
  <2>6. QED BY <2>4, <2>5
<1>3. QED BY <1>1, <1>2
-----------------------------------------------------------------------------
(* What a step keeps true of a client and an inbound.                      *)

Carries(c, t) ==
    /\ \A s \in Request : c \in request'[s].clients => Knows(request[s], c)'
    /\ t \in Present' \ lost' => Copied(t, c)'
    /\ t \notin muddled' /\ cached'[t].etag => Fits(t, c)'

LEMMA OldInbound ==
    ASSUME Types, Positions, Absent, Next, NEW t \in Tag, t \in Present' \ lost',
           \A r \in Request : ~CreateInbound(r, t)
    PROVE  t \in Present \ lost /\ \A r \in Request : ~DeleteInbound(r, t)
<1>1. \A r \in Request : ~DeleteInbound(r, t)
  BY DEF DeleteInbound, Present, Types
<1>2. QED BY <1>1, PresentStep, LostStep

LEMMA Bystander ==
    ASSUME AccessInv, Next, NEW c \in Client, c \notin muddled', NEW t \in Tag, row'[c] = row[c],
           \A s \in Request : c \in request[s].clients \/ c \in request'[s].clients =>
                                 request'[s] = request[s],
           t \in Present \ lost => Stored(t, c)' = Stored(t, c),
           \A r \in Request : ~CreateInbound(r, t)
    PROVE  Carries(c, t)
<1>1. c \notin muddled
  BY HistoryStep DEF AccessInv
<1>2. \A s \in Request : c \in request'[s].clients => Knows(request[s], c)'
  BY <1>1, Untouched DEF AccessInv
<1>3. t \in Present' \ lost' => Copied(t, c)'
  BY <1>1, Untouched, OldInbound DEF AccessInv
<1>4. ASSUME t \notin muddled', cached'[t].etag
      PROVE  Fits(t, c)'
  <2>1. ASSUME NEW s \in Request, c \in request[s].clients, Renews(request[s], t, c)
        PROVE  Renews(request[s], t, c)'
    BY <2>1 DEF Renews, Reforms, Form
  <2>2. QED BY <1>4, <2>1, FitsKept, SameMilder DEF AccessInv
<1>5. QED BY <1>2, <1>3, <1>4 DEF Carries

LEMMA TimeCarries ==
    ASSUME AccessInv, Next, NEW c \in Client, c \notin muddled', NEW t \in Tag,
           UNCHANGED <<row, request, settings, inbound>>
    PROVE  Carries(c, t)
<1>1. \A r \in Request : ~CreateInbound(r, t)
  BY DEF CreateInbound, AccessInv, Types, Present
<1>2. Stored(t, c)' = Stored(t, c)
  BY DEF Stored
<1>3. QED BY <1>1, <1>2, Bystander

LEMMA CheckCarries ==
    ASSUME AccessInv, Next, NEW c \in Client, c \notin muddled', NEW t \in Tag,
           NEW cs \in SUBSET Client, ExpiryCheck(cs)
    PROVE  Carries(c, t)
<1>1. CASE c \notin cs
  <2>1. row'[c] = row[c] /\ UNCHANGED <<request, settings, inbound>>
    BY <1>1 DEF ExpiryCheck
  <2>2. \A r \in Request : ~CreateInbound(r, t)
    BY <2>1 DEF CreateInbound, AccessInv, Types, Present
  <2>3. Stored(t, c)' = Stored(t, c)
    BY <2>1 DEF Stored
  <2>4. QED BY <2>1, <2>2, <2>3, Bystander
<1>2. CASE c \in cs
  <2>1. row[c] \in Row /\ Exists(c)
    BY <1>2, Rows DEF ExpiryCheck, AccessInv
  <2>2. /\ row'[c] \in Row /\ row'[c].tags = row[c].tags /\ row'[c].cred = row[c].cred
        /\ row'[c].told = row[c].told
        /\ ~row'[c].enable
    <3>1. row'[c] = [row[c] EXCEPT !.enable = FALSE]
      BY <1>2 DEF ExpiryCheck
    <3>2. [row[c] EXCEPT !.enable = FALSE] \in Row
      BY <2>1 DEF Row
    <3>3. /\ [row[c] EXCEPT !.enable = FALSE].tags = row[c].tags
          /\ [row[c] EXCEPT !.enable = FALSE].cred = row[c].cred
          /\ [row[c] EXCEPT !.enable = FALSE].told = row[c].told
      BY <2>1 DEF Row
    <3>4. ~[row[c] EXCEPT !.enable = FALSE].enable
      BY <2>1 DEF Row
    <3>5. QED BY <3>1, <3>2, <3>3, <3>4
  <2>3. Exists(c)' /\ Milder(c)
    BY <2>1, <2>2, NullAssumption DEF Exists, Milder
  <2>4. UNCHANGED <<request, settings, inbound, lost>> /\ c \notin muddled
    BY <1>2, HistoryStep DEF ExpiryCheck, history, AccessInv
  <2>5. ASSUME NEW s \in Request, c \in request'[s].clients
        PROVE  Knows(request[s], c)'
    BY <2>2, <2>3, <2>4, <2>5 DEF Knows, AccessInv, Alone
  <2>6. ASSUME t \in Present' \ lost'
        PROVE  Copied(t, c)'
    <3>1. t \in Present \ lost
      BY <2>4, <2>6 DEF Present
    <3>2. /\ Names(c, t)' <=> Names(c, t)
          /\ Stored(t, c)' = Stored(t, c) /\ Should(t, c)' = Should(t, c)
      BY <2>1, <2>2, <2>3, <2>4 DEF Names, Stored, Should
    <3>3. Copied(t, c)
      BY <2>4, <3>1 DEF AccessInv, Copies
    <3>4. QED BY <2>4, <3>2, <3>3 DEF Copied, Handles, Agrees, Rewrites, Removes
  <2>7. ASSUME t \notin muddled', cached'[t].etag
        PROVE  Fits(t, c)'
    <3>1. \A s \in Request : Renews(request[s], t, c) => Renews(request[s], t, c)'
      BY <2>4 DEF Renews, Reforms, Form
    <3>2. QED BY <2>3, <2>7, <3>1, FitsKept DEF AccessInv
  <2>8. QED BY <2>5, <2>6, <2>7 DEF Carries
<1>3. QED BY <1>1, <1>2
-----------------------------------------------------------------------------
(* Edits that begin.                                                       *)

LEMMA BeginBystander ==
    ASSUME AccessInv, Next, NEW c \in Client, c \notin muddled', NEW t \in Tag,
           NEW r \in Request, NEW q, request[r].pc = "idle", Goes(r, q), c \notin q.clients,
           row'[c] = row[c], UNCHANGED <<settings, inbound>>
    PROVE  Carries(c, t)
<1>1. request'[r] = q /\ \A s \in Request \ {r} : request'[s] = request[s]
  BY Turning DEF AccessInv
<1>2. c \notin request[r].clients
  BY IdleNobody DEF AccessInv
<1>3. \A s \in Request : ~CreateInbound(s, t)
  BY DEF CreateInbound, AccessInv, Types, Present
<1>4. Stored(t, c)' = Stored(t, c)
  BY DEF Stored
<1>5. QED BY <1>1, <1>2, <1>3, <1>4, Bystander

LEMMA BeginCarries ==
    ASSUME AccessInv, Next, NEW r \in Request, NEW cs \in SUBSET Client, NEW c \in cs, c \notin muddled',
           NEW t \in Tag, NEW q, request[r].pc = "idle", Muddle(cs), Goes(r, q),
           UNCHANGED <<settings, inbound, lost, cached>>,
           c \in q.clients => Knows(q, c)',
           Agrees(t, c) => IF c \in q.clients THEN Handles(q, t, c)' ELSE Agrees(t, c)',
           Exists(c)' /\ (Exists(c) => Serves(t, c))
              /\ (row[c] = Missing => \A x \in cached[t].rows : x.client # c)
              => Serves(t, c)' \/ Renews(q, t, c)'
    PROVE  Carries(c, t)
<1>1. request'[r] = q /\ \A s \in Request \ {r} : request'[s] = request[s]
  BY Turning DEF AccessInv
<1>2. \A s \in Request : c \notin request[s].clients
  BY NobodyElse DEF AccessInv
<1>3. c \notin muddled
  BY HistoryStep DEF AccessInv
<1>4. \A s \in Request : c \in request'[s].clients => s = r /\ request'[s] = q /\ c \in q.clients
  BY <1>1, <1>2
<1>5. \A s \in Request : c \in request'[s].clients => Knows(request[s], c)'
  BY <1>4 DEF Knows
<1>6. ASSUME t \in Present' \ lost'
      PROVE  Copied(t, c)'
  <2>1. t \in Present \ lost
    BY <1>6 DEF Present
  <2>2. Agrees(t, c)
    BY <1>2, <1>3, <2>1 DEF AccessInv, Copies, Copied
  <2>3. ASSUME \A s \in Request : c \notin request'[s].clients
        PROVE  Agrees(t, c)'
    BY <1>1, <2>2, <2>3
  <2>4. ASSUME NEW s \in Request, c \in request'[s].clients
        PROVE  Handles(request[s], t, c)'
    <3>1. request'[s] = q /\ Handles(q, t, c)'
      BY <1>4, <2>2, <2>4
    <3>2. QED BY <3>1 DEF Handles, Rewrites, Removes
  <2>5. QED BY <2>3, <2>4 DEF Copied
<1>7. ASSUME t \notin muddled', cached'[t].etag
      PROVE  Fits(t, c)'
  <2>1. t \notin muddled /\ cached[t].etag
    BY <1>7, HistoryStep DEF AccessInv
  <2>2. /\ Fits(t, c)
        /\ row[c] = Missing => \A x \in cached[t].rows : x.client # c
    BY <1>3, <2>1 DEF AccessInv, Served
  <2>3. CASE \E s \in Request : Reforms(request[s], t)
    BY <1>7, <2>3, ReformsKept DEF AccessInv, Fits, Renews
  <2>4. CASE ~\E s \in Request : Reforms(request[s], t)
    <3>1. Exists(c) => Serves(t, c)
      BY <1>2, <2>2, <2>4 DEF Fits, Renews
    <3>2. Exists(c)' => Serves(t, c)' \/ Renews(q, t, c)'
      BY <2>2, <3>1
    <3>3. Renews(q, t, c)' => Renews(request[r], t, c)'
      BY <1>1 DEF Renews, Reforms, Form
    <3>4. QED BY <3>2, <3>3 DEF Fits
  <2>5. QED BY <2>3, <2>4
<1>8. QED BY <1>5, <1>6, <1>7 DEF Carries

\* A client's row, new or not, is about to be written into the settings.
LEMMA SyncBegins ==
    ASSUME AccessInv, Next, NEW r \in Request, NEW cs \in SUBSET Client, NEW c \in cs, c \notin muddled',
           NEW t \in Tag, request[r].pc = "idle", Muddle(cs), NEW tags \in SUBSET Tag,
           Goes(r, Rest(At("read", "sync", cs, tags, {}))),
           UNCHANGED <<settings, inbound, lost, cached>>,
           row'[c] \in Row, row'[c].tags \subseteq tags, row[c] = Missing \/ row'[c] = row[c]
    PROVE  Carries(c, t)
<1> PICK p : p = At("read", "sync", cs, tags, {})
  OBVIOUS
<1> PICK q : q = Rest(p)
  OBVIOUS
<1>1. /\ p.pc = "read" /\ p.op = "sync" /\ p.clients = cs /\ p.sync = tags /\ p.remove = {}
      /\ tags = {} => q = Done
      /\ tags # {} => q = p
  BY Places
<1>2. Exists(c)'
  BY NullAssumption DEF Exists
<1>3. tags = {} => q.clients = {}
  BY <1>1, Places
<1>4. c \in q.clients => tags # {} /\ q = p
  BY <1>1, <1>3
<1>5. c \in q.clients => Knows(q, c)'
  BY <1>1, <1>2, <1>4 DEF Knows
<1>6. Agrees(t, c) /\ ~Names(c, t)' => Agrees(t, c)'
  <2>1. CASE row[c] = Missing
    BY <2>1 DEF Agrees, Should, Names, Stored, Exists
  <2>2. CASE row'[c] = row[c]
    BY <2>2 DEF Agrees, Should, Names, Stored, Exists
  <2>3. QED BY <2>1, <2>2
<1>7. Agrees(t, c) => IF c \in q.clients THEN Handles(q, t, c)' ELSE Agrees(t, c)'
  <2>1. CASE t \in row'[c].tags
    <3>1. tags # {} /\ q = p /\ t \in q.sync
      BY <1>1, <2>1
    <3>2. Names(c, t)'
      BY <1>2, <2>1 DEF Names
    <3>3. Rewrites(q, t, c)'
      BY <1>1, <3>1, <3>2 DEF Rewrites
    <3>4. QED BY <1>1, <3>1, <3>3 DEF Handles
  <2>2. CASE t \notin row'[c].tags
    <3>1. ~Names(c, t)'
      BY <2>2 DEF Names
    <3>2. q.op # "delete"
      BY <1>1, Places
    <3>3. QED BY <1>6, <3>1, <3>2 DEF Handles
  <2>3. QED BY <2>1, <2>2
<1>8. ASSUME Exists(c) => Serves(t, c), row[c] = Missing => \A x \in cached[t].rows : x.client # c
      PROVE  Serves(t, c)' \/ Renews(q, t, c)'
  <2>1. CASE t \in row'[c].tags
    <3>1. tags # {} /\ q = p /\ t \in q.sync
      BY <1>1, <2>1
    <3>2. QED BY <1>1, <3>1 DEF Renews
  <2>2. CASE t \notin row'[c].tags /\ row[c] = Missing
    BY <1>8, <2>2 DEF Serves
  <2>3. CASE row'[c] = row[c]
    <3>1. Exists(c)
      BY <1>2, <2>3 DEF Exists
    <3>2. QED BY <1>2, <1>8, <2>3, <3>1, SameMilder, ServesKept
  <2>4. QED BY <2>1, <2>2, <2>3
<1>9. Goes(r, q)
  OBVIOUS
<1>10. Exists(c)' /\ (Exists(c) => Serves(t, c))
          /\ (row[c] = Missing => \A x \in cached[t].rows : x.client # c)
          => Serves(t, c)' \/ Renews(q, t, c)'
  BY <1>8
<1>11. QED BY <1>5, <1>7, <1>9, <1>10, BeginCarries

LEMMA CreateCarries ==
    ASSUME AccessInv, Next, NEW c \in Client, c \notin muddled', NEW t \in Tag,
           NEW r \in Request, NEW d \in Client, Create(r, d)
    PROVE  Carries(c, t)
<1>1. PICK tags \in SUBSET Tag, enable \in BOOLEAN :
         /\ row' = [row EXCEPT ![d] = Created(tags, enable)]
         /\ Goes(r, Rest(At("read", "sync", {d}, tags, {})))
  BY Continuing DEF Create
<1>2. /\ request[r].pc = "idle" /\ row[d] = Missing /\ Muddle({d})
      /\ UNCHANGED <<inbound, settings, cached, lost>>
  BY DEF Create
<1>3. CASE c = d
  <2>1. row'[c] = Created(tags, enable)
    BY <1>1, <1>3 DEF AccessInv, Types
  <2>2. row'[c] \in Row /\ row'[c].tags = tags
    BY <2>1, CreatedRow
  <2>3. QED BY <1>1, <1>2, <1>3, <2>2, SyncBegins
<1>4. CASE c # d
  <2>1. row'[c] = row[c]
    BY <1>1, <1>4 DEF AccessInv, Types
  <2>2. c \notin Rest(At("read", "sync", {d}, tags, {})).clients
    BY <1>4, Places
  <2>3. QED BY <1>1, <1>2, <2>1, <2>2, BeginBystander
<1>5. QED BY <1>3, <1>4

LEMMA BulkCarries ==
    ASSUME AccessInv, Next, NEW c \in Client, c \notin muddled', NEW t \in Tag,
           NEW r \in Request, NEW cs \in SUBSET Client, BulkCreate(r, cs)
    PROVE  Carries(c, t)
<1>1. PICK tags \in SUBSET Tag :
         /\ row' = [d \in Client |-> IF d \in cs THEN BulkRow(d, tags) ELSE row[d]]
         /\ Goes(r, Rest(At("read", "sync", cs, UNION {BulkRow(d, tags).tags : d \in cs}, {})))
  BY Continuing DEF BulkCreate, BulkRow
<1>2. /\ request[r].pc = "idle" /\ (\A d \in cs : row[d] # Gone) /\ Muddle(cs)
      /\ UNCHANGED <<inbound, settings, cached, lost>>
  BY DEF BulkCreate
<1>3. PICK all : all = UNION {BulkRow(d, tags).tags : d \in cs}
  OBVIOUS
<1>4. all \in SUBSET Tag /\ Goes(r, Rest(At("read", "sync", cs, all, {})))
  BY <1>1, <1>3, BulkRows DEF AccessInv
<1>5. CASE c \in cs
  <2>1. row'[c] = BulkRow(c, tags) /\ row'[c] \in Row
    BY <1>1, <1>5, BulkRows DEF AccessInv
  <2>2. row'[c].tags \subseteq all
    BY <1>3, <1>5, <2>1
  <2>3. row[c] = Missing \/ row'[c] = row[c]
    BY <1>2, <1>5, <2>1 DEF BulkRow, Exists
  <2>4. QED BY <1>2, <1>4, <1>5, <2>1, <2>2, <2>3, SyncBegins
<1>6. CASE c \notin cs
  <2>1. row'[c] = row[c]
    BY <1>1, <1>6
  <2>2. c \notin Rest(At("read", "sync", cs, all, {})).clients
    BY <1>6, Places
  <2>3. QED BY <1>2, <1>4, <2>1, <2>2, BeginBystander
<1>7. QED BY <1>5, <1>6

LEMMA UpdateCarries ==
    ASSUME AccessInv, Next, NEW c \in Client, c \notin muddled', NEW t \in Tag,
           NEW r \in Request, NEW d \in Client, Update(r, d)
    PROVE  Carries(c, t)
<1>1. PICK q : q = At("row", "sync", {d}, {}, row[d].tags)
  OBVIOUS
<1>2. /\ q.pc = "row" /\ q.op = "sync" /\ q.clients = {d} /\ q.sync = {} /\ q.remove = row[d].tags
  BY <1>1, Places
<1>3. /\ Goes(r, q) /\ request[r].pc = "idle" /\ Exists(d) /\ Muddle({d})
      /\ UNCHANGED <<row, inbound, settings, cached, lost>>
  BY <1>1 DEF Update, Goes, panel
<1>4. CASE c # d
  BY <1>2, <1>3, <1>4, BeginBystander
<1>5. CASE c = d
  <2>1. Exists(c)' /\ Exists(c)
    BY <1>3, <1>5 DEF Exists
  <2>2. Knows(q, c)'
    BY <1>2, <1>3, <1>5, <2>1 DEF Knows
  <2>3. Agrees(t, c) => Handles(q, t, c)'
    BY <1>2, <1>3 DEF Agrees, Handles, Stored, Should, Names, Exists
  <2>4. Serves(t, c) => Serves(t, c)'
    BY <1>3 DEF Serves
  <2>5. QED BY <1>2, <1>3, <1>5, <2>1, <2>2, <2>3, <2>4, BeginCarries
<1>6. QED BY <1>4, <1>5

LEMMA DeleteCarries ==
    ASSUME AccessInv, Next, NEW c \in Client, c \notin muddled', NEW t \in Tag,
           NEW r \in Request, NEW d \in Client, Delete(r, d)
    PROVE  Carries(c, t)
<1>1. PICK pc : pc = IF row[d].tags = {} THEN "drop" ELSE "read"
  OBVIOUS
<1>2. PICK q : q = At(pc, "delete", {d}, {}, row[d].tags)
  OBVIOUS
<1>3. /\ q.pc = pc /\ q.op = "delete" /\ q.clients = {d} /\ q.sync = {} /\ q.remove = row[d].tags
  BY <1>2, Places
<1>4. /\ Goes(r, q) /\ request[r].pc = "idle" /\ Exists(d) /\ Muddle({d})
      /\ UNCHANGED <<row, inbound, settings, cached, lost>>
  BY <1>1, <1>2 DEF Delete, Goes, panel
<1>5. CASE c # d
  BY <1>3, <1>4, <1>5, BeginBystander
<1>6. CASE c = d
  <2>1. Exists(c)' /\ Exists(c)
    BY <1>4, <1>6 DEF Exists
  <2>2. Knows(q, c)'
    BY <1>1, <1>3, <2>1 DEF Knows
  <2>3. Agrees(t, c) => Handles(q, t, c)'
    <3>1. CASE t \in row[c].tags
      BY <1>1, <1>3, <1>6, <3>1 DEF Handles, Removes
    <3>2. CASE t \notin row[c].tags
      BY <1>3, <1>4, <3>2 DEF Agrees, Handles, Removes, Stored, Should, Names
    <3>3. QED BY <3>1, <3>2
  <2>4. Serves(t, c) => Serves(t, c)'
    BY <1>4 DEF Serves
  <2>5. QED BY <1>3, <1>4, <1>6, <2>1, <2>2, <2>3, <2>4, BeginCarries
<1>7. QED BY <1>5, <1>6
-----------------------------------------------------------------------------
(* Edits that go on.                                                       *)

LEMMA OnBystander ==
    ASSUME AccessInv, Next, NEW c \in Client, c \notin muddled', NEW t \in Tag,
           NEW r \in Request, NEW q, Goes(r, q), q.clients \subseteq request[r].clients,
           c \notin request[r].clients, row'[c] = row[c],
           t \in Present \ lost => Stored(t, c)' = Stored(t, c),
           \A s \in Request : ~CreateInbound(s, t)
    PROVE  Carries(c, t)
<1>1. request'[r] = q /\ \A s \in Request \ {r} : request'[s] = request[s]
  BY Turning DEF AccessInv
<1>2. QED BY <1>1, Bystander

LEMMA OnCarries ==
    ASSUME AccessInv, Next, NEW c \in Client, c \notin muddled', NEW t \in Tag,
           NEW r \in Request, c \in request[r].clients, NEW q, Goes(r, q),
           \A s \in Request : ~CreateInbound(s, t),
           c \in q.clients => Knows(q, c)',
           t \in Present \ lost /\ Handles(request[r], t, c) =>
              IF c \in q.clients THEN Handles(q, t, c)' ELSE Agrees(t, c)',
           t \notin muddled' /\ cached'[t].etag => Fits(t, c)'
    PROVE  Carries(c, t)
<1>1. request'[r] = q /\ \A s \in Request \ {r} : request'[s] = request[s]
  BY Turning DEF AccessInv
<1>2. c \notin muddled
  BY HistoryStep DEF AccessInv
<1>3. \A s \in Request : c \in request'[s].clients => s = r /\ request'[s] = q /\ c \in q.clients
  BY <1>1, <1>2 DEF AccessInv, Alone, OneOf
<1>4. \A s \in Request : c \in request'[s].clients => Knows(request[s], c)'
  BY <1>3 DEF Knows
<1>5. ASSUME t \in Present' \ lost'
      PROVE  Copied(t, c)'
  <2>1. t \in Present \ lost
    BY <1>5, OldInbound DEF AccessInv
  <2>2. Handles(request[r], t, c)
    BY <1>2, <2>1 DEF AccessInv, Copies, Copied
  <2>3. ASSUME \A s \in Request : c \notin request'[s].clients
        PROVE  Agrees(t, c)'
    BY <1>1, <2>1, <2>2, <2>3
  <2>4. ASSUME NEW s \in Request, c \in request'[s].clients
        PROVE  Handles(request[s], t, c)'
    <3>1. request'[s] = q /\ Handles(q, t, c)'
      BY <1>3, <2>1, <2>2, <2>4
    <3>2. QED BY <3>1 DEF Handles, Rewrites, Removes
  <2>5. QED BY <2>3, <2>4 DEF Copied
<1>6. QED BY <1>4, <1>5 DEF Carries

\* What became of what the configuration had of the client.
LEMMA FitsStep ==
    ASSUME AccessInv, Next, NEW t \in Tag, t \notin muddled', cached'[t].etag,
           NEW c \in Client, c \notin muddled', Exists(c)' => Exists(c),
           Serves(t, c) /\ inbound'[t] = inbound[t] /\ cached'[t] = cached[t] => Fits(t, c)',
           \A s \in Request : c \in request[s].clients /\ Renews(request[s], t, c) =>
                                 Fits(t, c)' \/ Reforms(request[s], t)
    PROVE  Fits(t, c)'
<1>1. CASE Poll(t)
  BY <1>1, PollFits DEF AccessInv
<1>2. CASE inbound'[t] # inbound[t]
  BY <1>2, FlagStep DEF Fits, Renews, AccessInv
<1>3. CASE ~Poll(t) /\ inbound'[t] = inbound[t]
  <2>1. cached'[t] = cached[t]
    BY <1>3, CacheStep DEF AccessInv
  <2>2. t \notin muddled /\ c \notin muddled
    BY HistoryStep DEF AccessInv
  <2>3. Fits(t, c)
    BY <2>1, <2>2 DEF AccessInv, Served
  <2>4. CASE \E s \in Request : Reforms(request[s], t)
    BY <2>4, ReformsKept DEF Fits, Renews, AccessInv
  <2>5. CASE Serves(t, c)
    BY <1>3, <2>1, <2>5
  <2>6. CASE ~Exists(c)
    BY <2>6 DEF Fits
  <2>7. ASSUME NEW s \in Request, Renews(request[s], t, c)
        PROVE  Fits(t, c)'
    <3>1. Reforms(request[s], t) \/ c \in request[s].clients
      BY <2>7 DEF Renews
    <3>2. QED BY <2>4, <2>7, <3>1
  <2>8. QED BY <2>3, <2>5, <2>6, <2>7 DEF Fits
<1>4. QED BY <1>1, <1>2, <1>3

LEMMA RowCarries ==
    ASSUME AccessInv, Next, NEW c \in Client, c \notin muddled', NEW t \in Tag,
           NEW r \in Request, UpdateRow(r)
    PROVE  Carries(c, t)
<1> PICK q0 : q0 = request[r]
  OBVIOUS
<1>1. PICK d \in Client, new \in Row :
         /\ q0.pc = "row" /\ q0.op = "sync" /\ q0.sync = {} /\ q0.clients = {d}
         /\ row[d] \in Row /\ row' = [row EXCEPT ![d] = new]
         /\ \/ Goes(r, Rest(At("read", "sync", {d}, new.tags, q0.remove \ new.tags)))
            \/ /\ Goes(r, Done)
               /\ new.tags = q0.remove /\ new.enable = row[d].enable
               /\ new.told = row[d].told /\ row[d].cred <= new.cred
  BY UpdateGoes DEF AccessInv
<1>2. PICK rem : rem = q0.remove \ new.tags
  OBVIOUS
<1>3. PICK p : p = At("read", "sync", {d}, new.tags, rem)
  OBVIOUS
<1>4. /\ p.pc = "read" /\ p.op = "sync" /\ p.clients = {d} /\ p.sync = new.tags /\ p.remove = rem
      /\ new.tags \cup rem # {} => Rest(p) = p
      /\ new.tags \cup rem = {} => Rest(p) = Done
  BY <1>3, Places
<1> DEFINE Untold == /\ new.tags = q0.remove /\ new.enable = row[d].enable
                     /\ new.told = row[d].told /\ row[d].cred <= new.cred
<1>5. PICK q : Goes(r, q) /\ (q = Rest(p) \/ (q = Done /\ Untold))
  BY <1>1, <1>2, <1>3
<1>6. q = Done \/ q = p
  BY <1>4, <1>5
<1>7. UNCHANGED <<inbound, settings, cached>>
  BY DEF UpdateRow
<1>8. \A s \in Request : ~CreateInbound(s, t)
  BY <1>7 DEF CreateInbound, AccessInv, Types, Present
<1>9. Stored(t, c)' = Stored(t, c)
  BY <1>7 DEF Stored
<1>10. CASE c # d
  <2>1. row'[c] = row[c]
    BY <1>1, <1>10 DEF AccessInv, Types
  <2>2. q.clients \subseteq request[r].clients /\ c \notin request[r].clients
    BY <1>1, <1>4, <1>6, <1>10, Places
  <2>3. QED BY <1>5, <1>8, <1>9, <2>1, <2>2, OnBystander
<1>11. CASE c = d
  <2>1. c \notin muddled /\ c \in request[r].clients
    BY <1>1, <1>11, HistoryStep DEF AccessInv
  <2>2. q0.remove = row[c].tags /\ Exists(c)
    BY <1>1, <2>1 DEF AccessInv, Alone, Knows
  <2>3. row'[c] = new
    BY <1>1, <1>11 DEF AccessInv, Types
  <2>4. Exists(c)'
    BY <1>1, <2>3, NullAssumption DEF Exists
  <2>5. c \in q.clients => Knows(q, c)'
    BY <1>2, <1>4, <1>6, <2>3, <2>4, Places DEF Knows
  <2>6. Handles(request[r], t, c) => Agrees(t, c)
    BY <1>1 DEF Handles, Rewrites
  <2>7. ASSUME q = Rest(p), t \in new.tags \cup rem
        PROVE  c \in q.clients /\ Rewrites(q, t, c)' /\ Renews(q, t, c)' /\ q.op = "sync"
    <3>1. q = p
      BY <1>4, <1>5, <2>7
    <3>2. t \in new.tags => Names(c, t)'
      BY <2>3, <2>4 DEF Names
    <3>3. t \notin new.tags => ~Names(c, t)'
      BY <2>3 DEF Names
    <3>4. QED BY <1>4, <1>11, <2>7, <3>1, <3>2, <3>3 DEF Rewrites, Renews
  <2>8. ASSUME t \notin new.tags \cup rem
        PROVE  (Agrees(t, c) => Agrees(t, c)') /\ (Serves(t, c) => Serves(t, c)')
    <3>1. t \notin row[c].tags /\ t \notin row'[c].tags
      BY <1>2, <2>2, <2>3, <2>8
    <3>2. Agrees(t, c) => Agrees(t, c)'
      BY <1>9, <3>1 DEF Agrees, Should, Names
    <3>3. Serves(t, c) => Serves(t, c)'
      BY <1>7, <3>1 DEF Serves
    <3>4. QED BY <3>2, <3>3
  <2>9. ASSUME q = Done, Untold
        PROVE  (Agrees(t, c) => Agrees(t, c)') /\ (Serves(t, c) => Serves(t, c)')
    <3>1. row'[c].tags = row[c].tags /\ row'[c].enable = row[c].enable
      BY <1>11, <2>2, <2>3, <2>9, Zenon
    <3>2. row'[c].told = row[c].told /\ row[c].cred <= row'[c].cred
      BY <1>11, <2>3, <2>9
    <3>3. /\ row[c].told \in Nat /\ row[c].cred \in Nat /\ row'[c].cred \in Nat
      BY <1>1, <1>11, <2>3, MaxCredAssumption DEF Row
    <3>4. row[c].told..row[c].cred \subseteq row'[c].told..row'[c].cred
      BY <3>2, <3>3
    <3>5. row'[c].enable => row[c].enable
      BY <3>1, Zenon
    <3>6. Milder(c)
      BY <2>2, <3>1, <3>4, <3>5 DEF Milder
    <3>7. Agrees(t, c) => Agrees(t, c)'
      <4>1. Names(c, t)' <=> Names(c, t)
        BY <2>2, <2>4, <3>1 DEF Names
      <4>2. QED BY <1>9, <3>4, <4>1 DEF Agrees, Should
    <3>8. Serves(t, c) => Serves(t, c)'
      BY <1>7, <2>4, <3>6, ServesKept
    <3>9. QED BY <3>7, <3>8
  <2>10. ASSUME t \notin muddled', cached'[t].etag
         PROVE  Fits(t, c)'
    <3>1. request'[r] = q
      BY <1>5, Turning DEF AccessInv
    <3>2. Serves(t, c) => Fits(t, c)'
      <4>1. Renews(q, t, c)' => Renews(request[r], t, c)'
        BY <3>1 DEF Renews, Reforms, Form
      <4>2. QED BY <1>5, <2>7, <2>8, <2>9, <4>1 DEF Fits
    <3>3. \A s \in Request : c \in request[s].clients => s = r
      BY <2>1 DEF AccessInv, Alone, OneOf
    <3>4. ~Renews(request[r], t, c)
      BY <1>1 DEF Renews, Reforms
    <3>5. QED BY <2>2, <2>10, <3>2, <3>3, <3>4, FitsStep
  <2>11. Handles(request[r], t, c) => IF c \in q.clients THEN Handles(q, t, c)' ELSE Agrees(t, c)'
    <3>1. q.op # "delete"
      BY <1>4, <1>6, Places
    <3>2. c \notin Done.clients
      BY Places
    <3>3. QED BY <1>5, <2>6, <2>7, <2>8, <2>9, <3>1, <3>2 DEF Handles
  <2>12. QED BY <1>5, <1>8, <2>1, <2>5, <2>10, <2>11, OnCarries
<1>12. QED BY <1>10, <1>11

\* A request concerns clients when it synchronises or deletes them.
LEMMA ConcernedOp ==
    ASSUME Types, Positions, NEW r \in Request, NEW c \in request[r].clients
    PROVE  /\ request[r].op \in {"sync", "delete"} /\ request[r].pc \notin {"idle", "done"}
           /\ request[r].op = "delete" => request[r].sync = {}
           /\ \A t : ~Reforms(request[r], t)
<1>1. request[r].op \in {"none", "sync", "delete", "inbound"}
  BY Fields DEF Types
<1>2. QED BY <1>1 DEF Positions, Sound, Reforms, Form

\* Where the inbound is not, the configuration has nothing of a client.
LEMMA AbsentServes ==
    ASSUME Served, NEW t \in Tag, t \notin muddled, cached[t].etag, t \notin Present, NEW c \in Client
    PROVE  Serves(t, c) \/ \E r \in Request : Reforms(request[r], t)
BY DEF Served, Serves, Present

LEMMA ReadCarries ==
    ASSUME AccessInv, Next, NEW c \in Client, c \notin muddled', NEW t \in Tag,
           NEW r \in Request, ReadSettings(r)
    PROVE  Carries(c, t)
<1> PICK q0 : q0 = request[r]
  OBVIOUS
<1> PICK found : found = Part(q0) \cap Present
  OBVIOUS
<1>1. PICK q : /\ Goes(r, q)
               /\ \/ found = {} /\ q = Past(q0)
                  \/ found # {} /\ q = Reader(q0, found)
  BY ReadGoes
<1>2. q0.pc = "read" /\ UNCHANGED <<row, inbound, settings, cached>> /\ c \notin muddled
  BY HistoryStep DEF ReadSettings, panel, AccessInv
<1>3. \A s \in Request : ~CreateInbound(s, t)
  BY <1>2 DEF CreateInbound, AccessInv, Types, Present
<1>4. Stored(t, c)' = Stored(t, c)
  BY <1>2 DEF Stored
<1>5. CASE c \notin q0.clients
  <2>1. q.clients \subseteq q0.clients
    BY <1>1, PastClients DEF Reader
  <2>2. QED BY <1>1, <1>2, <1>3, <1>4, <1>5, <2>1, OnBystander
<1>6. CASE c \in q0.clients
  <2>1. q0.op \in {"sync", "delete"} /\ (q0.op = "delete" => q0.sync = {})
    BY <1>6, ConcernedOp DEF AccessInv
  <2>2. /\ q.clients \subseteq q0.clients
        /\ c \in q.clients => q.op = q0.op /\ q.remove \subseteq q0.remove /\ q.pc # "row"
        /\ c \notin q.clients => q0.op = "sync"
        /\ t \in Present /\ t \in q0.sync => q.pc \in {"read", "write"} /\ t \in q.sync /\ c \in q.clients
        /\ t \in Present /\ t \in q0.remove => q.pc \in {"read", "write"} /\ t \in q.remove /\ c \in q.clients
    <3>1. CASE found # {} /\ q = Reader(q0, found)
      BY <1>6, <3>1 DEF Reader, Part
    <3>2. CASE found = {} /\ q = Past(q0) /\ q0.op = "delete"
      BY <1>6, <2>1, <3>2, Places DEF Past, Part
    <3>3. CASE found = {} /\ q = Past(q0) /\ q0.op # "delete"
      <4>1. PICK rem : rem = IF q0.sync # {} THEN q0.remove ELSE {}
        OBVIOUS
      <4>2. PICK p : p = At("read", q0.op, q0.clients, {}, rem)
        OBVIOUS
      <4>3. /\ p.pc = "read" /\ p.op = q0.op /\ p.clients = q0.clients /\ p.sync = {} /\ p.remove = rem
            /\ rem # {} => q = p
            /\ rem = {} => q = Done
        BY <3>3, <4>1, <4>2, Places DEF Past
      <4>4. Done.clients = {}
        BY Places
      <4>5. t \in Present => t \notin q0.sync /\ (t \in q0.remove => rem = q0.remove)
        BY <3>3, <4>1 DEF Part
      <4>6. QED BY <1>6, <2>1, <3>3, <4>1, <4>3, <4>4, <4>5
    <3>4. QED BY <1>1, <3>1, <3>2, <3>3
  <2>3. Knows(q0, c)
    BY <1>2, <1>6 DEF AccessInv, Alone
  <2>4. c \in q.clients => Knows(q, c)'
    BY <1>2, <2>2, <2>3 DEF Knows, Exists
  <2>5. /\ Agrees(t, c) <=> Agrees(t, c)'
        /\ Names(c, t) <=> Names(c, t)'
        /\ Serves(t, c) => Serves(t, c)'
    BY <1>2 DEF Agrees, Stored, Should, Names, Exists, Serves
  <2>6. ASSUME t \in Present, Handles(q0, t, c)
        PROVE  IF c \in q.clients THEN Handles(q, t, c)' ELSE Agrees(t, c)'
    <3>1. CASE q0.op = "sync"
      <4>1. Agrees(t, c) \/ Rewrites(q0, t, c)
        BY <2>6, <3>1 DEF Handles
      <4>2. Rewrites(q0, t, c) => c \in q.clients /\ Rewrites(q, t, c)'
        BY <1>2, <2>2, <2>5, <2>6 DEF Rewrites
      <4>3. QED BY <2>2, <2>5, <3>1, <4>1, <4>2 DEF Handles
    <3>2. CASE q0.op = "delete"
      <4>1. Removes(q0, t, c)
        BY <2>6, <3>2 DEF Handles
      <4>2. Removes(q, t, c)'
        BY <1>2, <1>4, <2>2, <2>6, <4>1 DEF Removes
      <4>3. QED BY <2>2, <3>2, <4>2 DEF Handles
    <3>3. QED BY <2>1, <3>1, <3>2
  <2>7. ASSUME t \notin muddled', cached'[t].etag
        PROVE  Fits(t, c)'
    <3>1. request'[r] = q
      BY <1>1, Turning DEF AccessInv
    <3>2. t \notin muddled /\ cached[t].etag
      BY <1>2, <2>7, HistoryStep DEF AccessInv
    <3>3. \A s \in Request : c \in request[s].clients => s = r
      BY <1>2, <1>6 DEF AccessInv, Alone, OneOf
    <3>4. ASSUME Renews(q0, t, c)
          PROVE  Fits(t, c)'
      <4>1. q0.op = "sync" /\ t \in q0.sync \cup q0.remove
        BY <1>2, <1>6, <3>4, ConcernedOp DEF Renews, AccessInv
      <4>2. CASE t \in Present
        <5>1. Renews(q, t, c)'
          BY <2>2, <4>1, <4>2 DEF Renews
        <5>2. Renews(request[r], t, c)'
          BY <3>1, <5>1 DEF Renews, Reforms, Form
        <5>3. QED BY <5>2 DEF Fits
      <4>3. CASE t \notin Present
        <5>1. CASE Serves(t, c)
          BY <2>5, <5>1 DEF Fits
        <5>2. CASE \E s \in Request : Reforms(request[s], t)
          BY <2>7, <5>2, ReformsKept DEF AccessInv, Fits, Renews
        <5>3. QED BY <3>2, <4>3, <5>1, <5>2, AbsentServes DEF AccessInv
      <4>4. QED BY <4>2, <4>3
    <3>5. Exists(c)' => Exists(c)
      BY <1>2 DEF Exists
    <3>6. Serves(t, c) => Fits(t, c)'
      BY <2>5 DEF Fits
    <3>7. QED BY <2>7, <3>3, <3>4, <3>5, <3>6, FitsStep
  <2>8. QED BY <1>1, <1>3, <1>6, <2>4, <2>6, <2>7, OnCarries
<1>7. QED BY <1>5, <1>6

LEMMA NoCreation ==
    ASSUME Types, NEW r \in Request, NEW q, Goes(r, q), request[r].pc # "idle", NEW t
    PROVE  \A s \in Request : ~CreateInbound(s, t)
<1> SUFFICES ASSUME NEW s \in Request, CreateInbound(s, t)
             PROVE  FALSE
  OBVIOUS
<1>1. request[s].pc = "idle" /\ Goes(s, At("invalidate", "inbound", {}, {t}, {}))
  BY DEF CreateInbound, Written, Goes
<1>2. request'[s].pc = "invalidate"
  BY <1>1, Turning, Places
<1>3. request'[s] = request[s]
  BY <1>1, Turning
<1>4. QED BY <1>1, <1>2, <1>3

Of(entries, c) == {y \in entries : y.client = c}

\* What a rewriting does to the entry of a client.
LEMMA RewrittenOf ==
    ASSUME Types, NEW q \in Work, NEW x, NEW c \in Client
    PROVE  /\ c \notin q.clients => Of(Rewritten(q, x), c) = Of(x.entries, c)
           /\ c \in q.clients /\ q.op = "sync" /\ q.sync # {} =>
                 Of(Rewritten(q, x), c) = IF Names(c, x.tag) THEN {[client |-> c, cred |-> row[c].cred]}
                                          ELSE Of(x.entries, c)
           /\ c \in q.clients /\ (q.op = "delete" \/ (q.op = "sync" /\ q.sync = {})) =>
                 Of(Rewritten(q, x), c) = {}
<1> DEFINE here == q.clients \cap Naming(x.tag)
           e == [client |-> c, cred |-> row[c].cred]
<1>1. c \in Naming(x.tag) <=> Names(c, x.tag)
  BY DEF Naming, Names
<1>2. \A cs : /\ c \in cs => Of(Without(x.entries, cs), c) = {}
              /\ c \notin cs => Of(Without(x.entries, cs), c) = Of(x.entries, c)
  BY DEF Of, Without
<1>3. /\ c \notin here => Of(Entries(here), c) = {}
      /\ c \in here => Of(Entries(here), c) = {e}
  <2>1. \A y \in Entries(here) : \E d \in here : y = [client |-> d, cred |-> row[d].cred] /\ y.client = d
    BY DEF Entries
  <2>2. c \in here => e \in Entries(here) /\ e.client = c
    BY DEF Entries
  <2> HIDE DEF here
  <2>3. QED BY <2>1, <2>2 DEF Of
<1>4. \A a, b : Of(a \cup b, c) = Of(a, c) \cup Of(b, c)
  BY DEF Of
<1>5. CASE q.op = "inbound"
  BY <1>5 DEF Rewritten
<1>6. CASE q.op = "sync" /\ q.sync # {}
  <2>1. Rewritten(q, x) = Without(x.entries, here) \cup Entries(here)
    BY <1>6 DEF Rewritten
  <2>2. c \in here <=> c \in q.clients /\ Names(c, x.tag)
    BY <1>1
  <2> HIDE DEF here, e
  <2>3. c \in here => Of(Rewritten(q, x), c) = {e}
    BY <1>2, <1>3, <1>4, <2>1
  <2>4. c \notin here => Of(Rewritten(q, x), c) = Of(x.entries, c)
    BY <1>2, <1>3, <1>4, <2>1
  <2>5. QED BY <1>6, <2>2, <2>3, <2>4 DEF e
<1>7. CASE q.op # "inbound" /\ ~(q.op = "sync" /\ q.sync # {})
  <2>1. Rewritten(q, x) = Without(x.entries, q.clients)
    BY <1>7 DEF Rewritten
  <2>2. QED BY <1>2, <1>7, <2>1
<1>8. QED BY <1>5, <1>6, <1>7

\* What a writer does to it, unless the settings are lost.
LEMMA WriteStored ==
    ASSUME Types, Positions, Writers, NEW r \in Request, WriteSettings(r), NEW t \in Tag, t \notin lost,
           NEW c \in Client
    PROVE  /\ c \notin request[r].clients \/ t \notin Part(request[r]) =>
                 Stored(t, c)' = Stored(t, c)
           /\ c \in request[r].clients /\ t \in Part(request[r]) =>
                 /\ request[r].op = "sync" /\ request[r].sync # {} =>
                       Stored(t, c)' = IF Names(c, t) THEN {[client |-> c, cred |-> row[c].cred]}
                                       ELSE Stored(t, c)
                 /\ request[r].op = "delete" \/ (request[r].op = "sync" /\ request[r].sync = {}) =>
                       Stored(t, c)' = {}
<1>1. Stored(t, c) = Of(settings[t], c) /\ Stored(t, c)' = Of(settings'[t], c)
  BY DEF Stored, Of
<1>2. CASE t \notin Part(request[r])
  BY <1>1, <1>2, Writes
<1>3. CASE t \in Part(request[r])
  <2>1. PICK x \in request[r].read : x.tag = t /\ settings'[t] = Rewritten(request[r], x)
    BY <1>3, Writes
  <2>2. x.entries = settings[t]
    BY <1>3, <2>1 DEF Writers, WriteSettings
  <2>3. request[r] \in Work
    BY DEF Types
  <2>4. QED BY <1>1, <1>3, <2>1, <2>2, <2>3, RewrittenOf
<1>4. QED BY <1>2, <1>3

LEMMA WriteCarries ==
    ASSUME AccessInv, Next, NEW c \in Client, c \notin muddled', NEW t \in Tag,
           NEW r \in Request, WriteSettings(r)
    PROVE  Carries(c, t)
<1> PICK q0 : q0 = request[r]
  OBVIOUS
<1> PICK q : q = At("invalidate", q0.op, q0.clients, q0.sync, q0.remove)
  OBVIOUS
<1>1. /\ q.pc = "invalidate" /\ q.op = q0.op /\ q.clients = q0.clients
      /\ q.sync = q0.sync /\ q.remove = q0.remove
  BY Places
<1>2. /\ Goes(r, q) /\ q0.pc = "write" /\ UNCHANGED <<row, cached>> /\ c \notin muddled
  BY HistoryStep DEF WriteSettings, Goes, AccessInv
<1>3. \A s \in Request : ~CreateInbound(s, t)
  BY <1>2, NoCreation DEF AccessInv
<1>4. CASE c \notin q0.clients
  <2>1. t \in Present \ lost => Stored(t, c)' = Stored(t, c)
    BY <1>4, WriteStored DEF AccessInv
  <2>2. q.clients \subseteq request[r].clients
    BY <1>1
  <2>3. row'[c] = row[c]
    BY <1>2
  <2>4. QED BY <1>2, <1>3, <1>4, <2>1, <2>2, <2>3, OnBystander
<1>5. CASE c \in q0.clients
  <2>1. q0.op \in {"sync", "delete"} /\ (q0.op = "delete" => q0.sync = {})
    BY <1>5, ConcernedOp DEF AccessInv
  <2>2. Knows(q0, c)
    BY <1>2, <1>5 DEF AccessInv, Alone
  <2>3. Knows(q, c)'
    BY <1>1, <1>2, <2>2 DEF Knows, Exists
  <2>4. /\ Names(c, t)' <=> Names(c, t)
        /\ Should(t, c)' = Should(t, c)
    BY <1>2 DEF Names, Should, Exists
  <2>5. ASSUME t \in Present \ lost, Handles(q0, t, c)
        PROVE  Handles(q, t, c)'
    <3>1. CASE t \notin Part(q0)
      <4>1. Stored(t, c)' = Stored(t, c)
        BY <2>5, <3>1, WriteStored DEF AccessInv
      <4>2. CASE q0.op = "delete"
        <5>1. t \notin q0.remove
          BY <2>1, <3>1, <4>2 DEF Part
        <5>2. QED BY <1>1, <1>2, <2>5, <4>1, <4>2, <5>1 DEF Handles, Removes
      <4>3. CASE q0.op = "sync"
        <5>1. t \notin q0.sync /\ (t \in q0.remove => q0.sync # {})
          BY <3>1 DEF Part
        <5>2. Agrees(t, c) => Agrees(t, c)'
          BY <2>4, <4>1 DEF Agrees
        <5>3. Rewrites(q0, t, c) => Rewrites(q, t, c)'
          BY <1>1, <1>2, <2>4, <5>1 DEF Rewrites
        <5>4. QED BY <1>1, <2>5, <4>3, <5>2, <5>3 DEF Handles
      <4>4. QED BY <2>1, <4>2, <4>3
    <3>2. CASE t \in Part(q0)
      <4>1. CASE q0.op = "delete"
        <5>1. Stored(t, c)' = {}
          BY <1>5, <2>5, <3>2, <4>1, WriteStored DEF AccessInv
        <5>2. QED BY <1>1, <4>1, <5>1 DEF Handles, Removes
      <4>2. CASE q0.op = "sync" /\ q0.sync = {}
        <5>1. Stored(t, c)' = {}
          BY <1>5, <2>5, <3>2, <4>2, WriteStored DEF AccessInv
        <5>2. ~Names(c, t)
          BY <1>2, <2>2, <3>2, <4>2 DEF Knows, Names, Part
        <5>3. Agrees(t, c)'
          BY <2>4, <5>1, <5>2 DEF Agrees, Should
        <5>4. QED BY <1>1, <4>2, <5>3 DEF Handles
      <4>3. CASE q0.op = "sync" /\ q0.sync # {}
        <5>1. Stored(t, c)' = IF Names(c, t) THEN {[client |-> c, cred |-> row[c].cred]}
                              ELSE Stored(t, c)
          BY <1>5, <2>5, <3>2, <4>3, WriteStored DEF AccessInv
        <5>2. CASE Names(c, t)
          <6>1. row[c].cred \in row[c].told..row[c].cred
            BY <5>2, Rows DEF Names, AccessInv
          <6>2. Agrees(t, c)'
            BY <2>4, <5>1, <5>2, <6>1 DEF Agrees, Should
          <6>3. QED BY <1>1, <4>3, <6>2 DEF Handles
        <5>3. CASE ~Names(c, t)
          <6>1. Agrees(t, c) => Agrees(t, c)'
            BY <2>4, <5>1, <5>3 DEF Agrees
          <6>2. Rewrites(q0, t, c) => Rewrites(q, t, c)'
            BY <1>1, <1>2, <2>4, <4>3, <5>3 DEF Rewrites
          <6>3. QED BY <1>1, <2>5, <4>3, <6>1, <6>2 DEF Handles
        <5>4. QED BY <5>2, <5>3
      <4>4. QED BY <2>1, <4>1, <4>2, <4>3
    <3>3. QED BY <3>1, <3>2
  <2>6. ASSUME t \notin muddled', cached'[t].etag
        PROVE  Fits(t, c)'
    <3>1. request'[r] = q
      BY <1>2, Turning DEF AccessInv
    <3>2. \A s \in Request : c \in request[s].clients => s = r
      BY <1>2, <1>5 DEF AccessInv, Alone, OneOf
    <3>3. Renews(q0, t, c) => Renews(request[r], t, c)'
      BY <1>1, <1>2, <3>1 DEF Renews, Reforms, Form
    <3>4. QED BY <1>2, <2>6, <3>2, <3>3, SameMilder, FitsKept DEF AccessInv
  <2>7. QED BY <1>1, <1>2, <1>3, <1>5, <2>3, <2>5, <2>6, OnCarries
<1>6. QED BY <1>4, <1>5

LEMMA InvalidateCarries ==
    ASSUME AccessInv, Next, NEW c \in Client, c \notin muddled', NEW t \in Tag,
           NEW r \in Request, Invalidate(r)
    PROVE  Carries(c, t)
<1> PICK q0 : q0 = request[r]
  OBVIOUS
<1> PICK q : q = Past(q0)
  OBVIOUS
<1>1. /\ Goes(r, q) /\ q0.pc = "invalidate" /\ UNCHANGED <<row, inbound, settings>> /\ c \notin muddled
  BY PastGoes, HistoryStep DEF Invalidate, AccessInv, panel
<1>2. \A s \in Request : ~CreateInbound(s, t)
  BY <1>1, NoCreation DEF AccessInv
<1>3. Stored(t, c)' = Stored(t, c)
  BY <1>1 DEF Stored
<1>4. CASE c \notin q0.clients
  <2>1. q.clients \subseteq q0.clients
    BY PastClients
  <2>2. QED BY <1>1, <1>2, <1>3, <1>4, <2>1, OnBystander
<1>5. CASE c \in q0.clients
  <2>1. q0.op \in {"sync", "delete"} /\ (q0.op = "delete" => q0.sync = {})
    BY <1>5, ConcernedOp DEF AccessInv
  <2>2. /\ c \in q.clients => q.op = q0.op /\ q.remove \subseteq q0.remove /\ q.pc # "row"
        /\ c \notin q.clients => q0.op = "sync"
        /\ q0.op = "sync" /\ q0.sync # {} /\ t \in q0.remove =>
              q.pc = "read" /\ t \in q.remove /\ c \in q.clients
    <3>1. CASE q0.op = "delete"
      BY <1>5, <2>1, <3>1, Places DEF Past
    <3>2. CASE q0.op = "sync"
      <4>1. PICK rem : rem = IF q0.sync # {} THEN q0.remove ELSE {}
        OBVIOUS
      <4>2. PICK p : p = At("read", q0.op, q0.clients, {}, rem)
        OBVIOUS
      <4>3. /\ p.pc = "read" /\ p.op = q0.op /\ p.clients = q0.clients /\ p.remove = rem
            /\ rem # {} => q = p
            /\ rem = {} => q = Done
        BY <3>2, <4>1, <4>2, Places DEF Past
      <4>4. Done.clients = {}
        BY Places
      <4>5. QED BY <1>5, <3>2, <4>1, <4>3, <4>4
    <3>3. QED BY <2>1, <3>1, <3>2
  <2>3. Knows(q0, c)
    BY <1>1, <1>5 DEF AccessInv, Alone
  <2>4. c \in q.clients => Knows(q, c)'
    BY <1>1, <2>2, <2>3 DEF Knows, Exists
  <2>5. /\ Agrees(t, c) <=> Agrees(t, c)'
        /\ Names(c, t) <=> Names(c, t)'
    BY <1>1 DEF Agrees, Stored, Should, Names, Exists
  <2>6. ASSUME Handles(q0, t, c)
        PROVE  IF c \in q.clients THEN Handles(q, t, c)' ELSE Agrees(t, c)'
    <3>1. CASE q0.op = "sync"
      <4>1. Agrees(t, c) \/ Rewrites(q0, t, c)
        BY <2>6, <3>1 DEF Handles
      <4>2. Rewrites(q0, t, c) => c \in q.clients /\ Rewrites(q, t, c)'
        BY <1>1, <2>2, <2>5, <3>1 DEF Rewrites
      <4>3. QED BY <2>2, <2>5, <3>1, <4>1, <4>2 DEF Handles
    <3>2. CASE q0.op = "delete"
      BY <1>1, <1>3, <2>2, <2>6, <3>2 DEF Handles, Removes
    <3>3. QED BY <2>1, <3>1, <3>2
  <2>7. ASSUME t \notin muddled', cached'[t].etag
        PROVE  Fits(t, c)'
    <3>1. request'[r] = q
      BY <1>1, Turning DEF AccessInv
    <3>2. t \notin Part(q0)
      BY <2>7 DEF Invalidate, Invalidated, NoConfig
    <3>3. \A s \in Request : c \in request[s].clients => s = r
      BY <1>1, <1>5 DEF AccessInv, Alone, OneOf
    <3>4. ASSUME Renews(q0, t, c)
          PROVE  Renews(request[r], t, c)'
      <4>1. q0.op = "sync" /\ t \in q0.sync \cup q0.remove
        BY <1>1, <1>5, <3>4, ConcernedOp DEF Renews, AccessInv
      <4>2. q0.sync # {} /\ t \in q0.remove
        BY <3>2, <4>1 DEF Part
      <4>3. QED BY <2>2, <3>1, <4>1, <4>2 DEF Renews
    <3>5. QED BY <1>1, <2>7, <3>3, <3>4, SameMilder, FitsKept DEF AccessInv
  <2>8. QED BY <1>1, <1>2, <1>5, <2>4, <2>6, <2>7, OnCarries
<1>6. QED BY <1>4, <1>5

LEMMA DropCarries ==
    ASSUME AccessInv, Next, NEW c \in Client, c \notin muddled', NEW t \in Tag,
           NEW r \in Request, DropRow(r)
    PROVE  Carries(c, t)
<1>1. /\ Goes(r, Done) /\ request[r].pc = "drop" /\ UNCHANGED <<inbound, settings, cached>>
      /\ row' = [d \in Client |-> IF d \in request[r].clients THEN Gone ELSE row[d]]
  BY DEF DropRow, Goes
<1>2. \A s \in Request : ~CreateInbound(s, t)
  BY <1>1, NoCreation DEF AccessInv
<1>3. Stored(t, c)' = Stored(t, c)
  BY <1>1 DEF Stored
<1>4. CASE c \notin request[r].clients
  <2>1. row'[c] = row[c] /\ Done.clients \subseteq request[r].clients
    BY <1>1, <1>4, Places
  <2>2. QED BY <1>1, <1>2, <1>3, <1>4, <2>1, OnBystander
<1>5. CASE c \in request[r].clients
  <2>1. ~Exists(c)'
    BY <1>1, <1>5 DEF Exists
  <2>2. c \notin Done.clients
    BY Places
  <2>3. request[r].op = "delete"
    BY <1>1 DEF AccessInv, Positions, Sound
  <2>4. Handles(request[r], t, c) => Agrees(t, c)'
    BY <1>1, <1>3, <2>1, <2>3 DEF Handles, Removes, Agrees, Should, Names
  <2>5. Fits(t, c)'
    BY <2>1 DEF Fits
  <2>6. QED BY <1>1, <1>2, <1>5, <2>2, <2>4, <2>5, OnCarries
<1>6. QED BY <1>4, <1>5

LEMMA DieCarries ==
    ASSUME AccessInv, Next, NEW c \in Client, c \notin muddled', NEW t \in Tag,
           NEW r \in Request, Die(r)
    PROVE  Carries(c, t)
<1>1. /\ Goes(r, Done) /\ request[r].pc \notin {"idle", "done"} /\ c \notin request[r].clients
      /\ UNCHANGED <<row, settings>>
  BY DEF Die, Active, Goes, panel
<1>2. \A s \in Request : ~CreateInbound(s, t)
  BY <1>1, NoCreation DEF AccessInv
<1>3. Stored(t, c)' = Stored(t, c)
  BY <1>1 DEF Stored
<1>4. row'[c] = row[c] /\ Done.clients \subseteq request[r].clients
  BY <1>1, Places
<1>5. QED BY <1>1, <1>2, <1>3, <1>4, OnBystander
-----------------------------------------------------------------------------
(* Edits of inbounds.                                                      *)

\* Requests on inbounds concern no client.
LEMMA FormBystander ==
    ASSUME AccessInv, Next, NEW c \in Client, c \notin muddled', NEW t \in Tag,
           NEW r \in Request, request[r].pc = "idle", NEW pc, NEW u,
           Goes(r, At(pc, "inbound", {}, {u}, {})), UNCHANGED <<row, settings>>,
           \A s \in Request : ~CreateInbound(s, t)
    PROVE  Carries(c, t)
<1>1. /\ request'[r] = At(pc, "inbound", {}, {u}, {})
      /\ \A s \in Request \ {r} : request'[s] = request[s]
  BY Turning DEF AccessInv
<1>2. request[r].clients = {} /\ request'[r].clients = {}
  BY <1>1, IdleNobody, Places DEF AccessInv
<1>3. Stored(t, c)' = Stored(t, c)
  BY DEF Stored
<1>4. QED BY <1>1, <1>2, <1>3, Bystander

LEMMA FormCarries ==
    ASSUME AccessInv, Next, NEW c \in Client, c \notin muddled', NEW t \in Tag,
           NEW r \in Request, NEW u \in Tag, EditInbound(r, u) \/ SetEnable(r, u)
    PROVE  Carries(c, t)
<1>1. PICK pc \in {"read", "invalidate"} : Goes(r, At(pc, "inbound", {}, {u}, {}))
  BY DEF EditInbound, SetEnable, Written, Goes
<1>2. request[r].pc = "idle" /\ UNCHANGED <<row, settings>>
  BY DEF EditInbound, SetEnable, Written, panel
<1>3. \A s \in Request : ~CreateInbound(s, t)
  <2> SUFFICES ASSUME NEW s \in Request, CreateInbound(s, t)
               PROVE  FALSE
    OBVIOUS
  <2>1. t \notin Present /\ inbound' = [inbound EXCEPT ![t] = "on"]
    BY DEF CreateInbound
  <2>2. inbound'[t] # inbound[t]
    BY <2>1 DEF Present, AccessInv, Types
  <2>3. SetEnable(r, u)
    BY <2>2 DEF EditInbound, panel
  <2>4. u = t
    BY <2>2, <2>3 DEF SetEnable, Toggled, AccessInv, Types
  <2>5. QED BY <2>1, <2>3, <2>4 DEF SetEnable
<1>4. QED BY <1>1, <1>2, <1>3, FormBystander

LEMMA InboundCreated ==
    ASSUME AccessInv, Next, NEW c \in Client, c \notin muddled', NEW t \in Tag,
           NEW r \in Request, NEW u \in Tag, CreateInbound(r, u)
    PROVE  Carries(c, t)
<1>1. /\ Goes(r, At("invalidate", "inbound", {}, {u}, {})) /\ request[r].pc = "idle"
      /\ UNCHANGED <<row, settings, cached, muddled>> /\ inbound' = [inbound EXCEPT ![u] = "on"]
      /\ lost' = IF Naming(u) = {} THEN lost ELSE lost \cup {u}
      /\ u \notin Present
  BY DEF CreateInbound, Written, Goes
<1>2. CASE u # t
  <2>1. inbound'[t] = inbound[t]
    BY <1>1, <1>2 DEF AccessInv, Types
  <2>2. \A s \in Request : ~CreateInbound(s, t)
    BY <2>1 DEF CreateInbound, AccessInv, Types, Present
  <2>3. QED BY <1>1, <2>2, FormBystander
<1>3. CASE u = t
  <2>1. c \notin muddled /\ row'[c] = row[c]
    BY <1>1
  <2>2. ASSUME NEW s \in Request, c \in request[s].clients \/ c \in request'[s].clients
        PROVE  request'[s] = request[s]
    <3>1. request'[r].clients = {} /\ request[r].clients = {}
      BY <1>1, Turning, Places, IdleNobody DEF AccessInv
    <3>2. QED BY <1>1, <2>2, <3>1, Turning DEF AccessInv
  <2>3. \A s \in Request : c \in request'[s].clients => Knows(request[s], c)'
    BY <2>1, <2>2, Untouched DEF AccessInv
  <2>4. ASSUME t \notin lost'
        PROVE  Copied(t, c)'
    <3>1. settings'[t] = {}
      BY <1>1, <1>3 DEF AccessInv, Absent
    <3>2. ~Names(c, t)
      BY <1>1, <1>3, <2>4 DEF Naming, Names
    <3>3. ~Names(c, t)'
      BY <1>1, <3>2 DEF Names, Exists
    <3>4. Stored(t, c)' = {} /\ Should(t, c)' = {{}}
      BY <3>1, <3>3 DEF Stored, Should
    <3>5. QED BY <3>4 DEF Copied, Handles, Agrees, Removes
  <2>5. inbound'[t] # inbound[t]
    BY <1>1, <1>3 DEF AccessInv, Types, Present
  <2>6. Fits(t, c)'
    BY <2>5, FlagStep DEF Fits, Renews, AccessInv
  <2>7. QED BY <2>3, <2>4, <2>6 DEF Carries
<1>4. QED BY <1>2, <1>3

\* A request that had read the inbound's settings fails, in the transaction
\* that would have written the others.
LEMMA InboundDeleted ==
    ASSUME AccessInv, Next, NEW c \in Client, c \notin muddled', NEW t \in Tag,
           NEW r \in Request, NEW u \in Tag, DeleteInbound(r, u)
    PROVE  Carries(c, t)
<1>1. /\ request[r].pc = "idle" /\ UNCHANGED <<row, cached, muddled>>
      /\ inbound' = [inbound EXCEPT ![u] = "none"] /\ settings' = [settings EXCEPT ![u] = {}]
      /\ lost' = lost \ {u} /\ u \in Present
  BY DEF DeleteInbound
<1>2. /\ request'[r] = At("invalidate", "inbound", {}, {u}, {})
      /\ \A s \in Request \ {r} :
            \/ request'[s] = request[s]
            \/ request'[s] = Void(request[s]) /\ request[s].pc = "write"
  <2>1. \A s \in Request : request[s].read # {} => request[s].pc = "write"
    BY DEF AccessInv, Positions, Sound
  <2>2. QED BY <2>1 DEF DeleteInbound
<1>3. request'[r].clients = {} /\ request[r].clients = {}
  BY <1>1, <1>2, Places, IdleNobody DEF AccessInv
<1>4. \A q : /\ Void(q).pc = "void" /\ Void(q).op = q.op /\ Void(q).clients = q.clients
             /\ Void(q).sync = q.sync /\ Void(q).remove = q.remove
  BY Places DEF Void
<1>5. c \notin muddled /\ row'[c] = row[c]
  BY <1>1
<1>6. ASSUME NEW s \in Request, c \in request'[s].clients
      PROVE  /\ c \in request[s].clients /\ request'[s].op = request[s].op
             /\ request'[s].remove = request[s].remove
             /\ \/ request'[s] = request[s]
                \/ request'[s].pc = "void" /\ request[s].pc = "write"
  <2>1. s # r
    BY <1>3, <1>6
  <2>2. CASE request'[s] = request[s]
    BY <1>6, <2>2
  <2>3. CASE request'[s] = Void(request[s]) /\ request[s].pc = "write"
    BY <1>4, <1>6, <2>3
  <2>4. QED BY <1>2, <2>1, <2>2, <2>3
<1>7. ASSUME NEW s \in Request, c \in request'[s].clients
      PROVE  Knows(request[s], c)'
  <2>1. Knows(request[s], c)
    BY <1>5, <1>6, <1>7 DEF AccessInv, Alone
  <2>2. QED BY <1>5, <1>6, <1>7, <2>1 DEF Knows, Exists
<1>8. ASSUME t \in Present' \ lost'
      PROVE  Copied(t, c)'
  <2>1. t # u /\ t \in Present \ lost
    BY <1>1, <1>8 DEF Present, AccessInv, Types
  <2>2. Stored(t, c)' = Stored(t, c) /\ Should(t, c)' = Should(t, c)
        /\ (Names(c, t)' <=> Names(c, t))
    BY <1>1, <2>1 DEF Stored, Should, Names, Exists, AccessInv, Types
  <2>3. Copied(t, c)
    BY <1>5, <2>1 DEF AccessInv, Copies
  <2>4. ASSUME NEW s \in Request, c \in request'[s].clients
        PROVE  Handles(request[s], t, c)'
    <3>1. Handles(request[s], t, c)
      BY <1>6, <2>3, <2>4 DEF Copied
    <3>2. QED BY <1>6, <2>2, <2>4, <3>1 DEF Handles, Agrees, Rewrites, Removes
  <2>5. ASSUME \A s \in Request : c \notin request'[s].clients
        PROVE  Agrees(t, c)'
    <3>1. \A s \in Request : c \notin request[s].clients
      BY <1>2, <1>3, <1>4, <2>5
    <3>2. QED BY <2>2, <2>3, <3>1 DEF Copied, Agrees
  <2>6. QED BY <2>4, <2>5 DEF Copied
<1>9. ASSUME t \notin muddled', cached'[t].etag
      PROVE  Fits(t, c)'
  <2>1. ASSUME NEW s \in Request, c \in request[s].clients, Renews(request[s], t, c)
        PROVE  Renews(request[s], t, c)'
    <3>1. s # r
      BY <1>3, <2>1
    <3>2. CASE request'[s] = request[s]
      BY <2>1, <3>2 DEF Renews, Reforms, Form
    <3>3. CASE request'[s] = Void(request[s])
      BY <1>4, <2>1, <3>3 DEF Renews
    <3>4. QED BY <1>2, <3>1, <3>2, <3>3
  <2>2. QED BY <1>5, <1>9, <2>1, SameMilder, FitsKept DEF AccessInv
<1>10. QED BY <1>7, <1>8, <1>9 DEF Carries
-----------------------------------------------------------------------------
(* The invariant.                                                          *)

LEMMA CarriesStep ==
    ASSUME AccessInv, Next, NEW c \in Client, c \notin muddled', NEW t \in Tag
    PROVE  Carries(c, t)
<1>1. CASE \E u \in Tag : Poll(u) \/ Expire(u)
  BY <1>1, TimeCarries DEF Poll, Expire, panel
<1>2. CASE \E r \in Request, d \in Client : Create(r, d) \/ Update(r, d) \/ Delete(r, d)
  BY <1>2, CreateCarries, UpdateCarries, DeleteCarries
<1>3. CASE \E r \in Request, cs \in SUBSET Client : BulkCreate(r, cs)
  BY <1>3, BulkCarries
<1>4. CASE \E r \in Request, u \in Tag :
              EditInbound(r, u) \/ SetEnable(r, u) \/ CreateInbound(r, u) \/ DeleteInbound(r, u)
  BY <1>4, FormCarries, InboundCreated, InboundDeleted
<1>5. CASE \E r \in Request : UpdateRow(r) \/ ReadSettings(r) \/ WriteSettings(r) \/ Invalidate(r)
  BY <1>5, RowCarries, ReadCarries, WriteCarries, InvalidateCarries
<1>6. CASE \E r \in Request : DropRow(r) \/ Die(r)
  BY <1>6, DropCarries, DieCarries
<1>7. CASE \E cs \in SUBSET Client : ExpiryCheck(cs)
  BY <1>7, CheckCarries
<1>8. QED
  BY <1>1, <1>2, <1>3, <1>4, <1>5, <1>6, <1>7 DEF Next

LEMMA AccessStep ==
    ASSUME AccessInv, [Next]_vars
    PROVE  AccessInv'
<1>1. CASE UNCHANGED vars
  BY <1>1 DEF vars, panel, history, AccessInv, Types, Positions, Absent, Writers, Alone, Copies, Served,
     Sound, Part, Present, OneOf, Knows, Exists, Copied, Agrees, Stored, Should, Names, Handles, Rewrites,
     Removes, Fits, Serves, Renews, Reforms, Form
<1>2. CASE Next
  <2>1. Types' /\ Positions'
    BY <1>2, TypesStep DEF AccessInv
  <2>2. Absent' /\ Writers'
    BY <1>2, AbsentStep, WritersStep DEF AccessInv
  <2>3. muddled \subseteq muddled'
    BY <1>2, HistoryStep DEF AccessInv
  <2>4. Alone'
    <3> SUFFICES ASSUME NEW c \in Client, c \notin muddled'
                 PROVE  OneOf(c)' /\ \A s \in Request : c \in request'[s].clients => Knows(request[s], c)'
      BY DEF Alone
    <3>1. OneOf(c)'
      BY <1>2, <2>3, OneStep DEF AccessInv, Alone
    <3>2. ASSUME NEW s \in Request, c \in request'[s].clients
          PROVE  Knows(request[s], c)'
      <4>1. CASE \E t \in Tag : TRUE
        BY <1>2, <3>2, <4>1, CarriesStep DEF Carries
      <4>2. CASE ~\E t \in Tag : TRUE
        <5>1. row'[c] \in Row /\ Exists(c)'
          BY <1>2, <2>1, <2>3, <3>2, ExistsStep DEF Types, Exists, AccessInv
        <5>2. row'[c].tags = {} /\ request'[s].remove = {}
          BY <2>1, <4>2, <5>1 DEF Types, Row, Work
        <5>3. QED BY <5>1, <5>2 DEF Knows
      <4>3. QED BY <4>1, <4>2
    <3>3. QED BY <3>1, <3>2
  <2>5. Copies'
    <3> SUFFICES ASSUME NEW t \in Present' \ lost', NEW c \in Client, c \notin muddled'
                 PROVE  Copied(t, c)'
      BY DEF Copies
    <3>1. t \in Tag
      BY DEF Present
    <3>2. QED BY <1>2, <3>1, CarriesStep DEF Carries
  <2>6. Served'
    <3> SUFFICES ASSUME NEW t \in Tag, t \notin muddled', cached'[t].etag
                 PROVE  /\ \A c \in Client : c \notin muddled' => Fits(t, c)'
                        /\ t \in Present' \/ cached'[t].rows = {} \/ \E r \in Request : Reforms(request[r], t)'
                        /\ \A c \in Client : row'[c] = Missing => \A x \in cached'[t].rows : x.client # c
      BY DEF Served
    <3>1. \A c \in Client : c \notin muddled' => Fits(t, c)'
      BY <1>2, CarriesStep DEF Carries
    <3>2. QED BY <1>2, <3>1, ServedRest DEF AccessInv
  <2>7. QED BY <2>1, <2>2, <2>4, <2>5, <2>6 DEF AccessInv
<1>3. QED BY <1>1, <1>2

\* The entry of a client among those of others.
LEMMA EntriesOf ==
    ASSUME NEW cs, NEW c
    PROVE  Of(Entries(cs), c) = IF c \in cs THEN {[client |-> c, cred |-> row[c].cred]} ELSE {}
<1>1. \A y \in Entries(cs) : \E d \in cs : y = [client |-> d, cred |-> row[d].cred] /\ y.client = d
  BY DEF Entries
<1>2. \A d \in cs : [client |-> d, cred |-> row[d].cred] \in Entries(cs)
                    /\ [client |-> d, cred |-> row[d].cred].client = d
  BY DEF Entries
<1>3. QED BY <1>1, <1>2 DEF Of

LEMMA InitAccess ==
    ASSUME Init
    PROVE  AccessInv
<1>1. /\ row \in [Client -> Row \cup {Missing, Gone}] /\ inbound \in [Tag -> {"none", "on", "off"}]
      /\ settings = [t \in Tag |-> IF t \in Present THEN Entries(Naming(t)) ELSE {}]
      /\ request = [r \in Request |-> Idle] /\ cached = [t \in Tag |-> NoConfig]
      /\ muddled = {} /\ lost = {}
  <2>1. \A tags \in SUBSET Tag : Created(tags, TRUE) \in Row
    BY CreatedRow
  <2>2. {Missing} \cup {Created(tags, TRUE) : tags \in SUBSET Tag} \subseteq Row \cup {Missing, Gone}
    BY <2>1
  <2>3. row \in [Client -> {Missing} \cup {Created(tags, TRUE) : tags \in SUBSET Tag}]
    BY DEF Init
  <2>4. row \in [Client -> Row \cup {Missing, Gone}]
    BY <2>2, <2>3
  <2>5. QED BY <2>4 DEF Init
<1>2. Types
  <2>1. cached \in [Tag -> [etag : BOOLEAN, rows : SUBSET Shown]]
    BY <1>1 DEF NoConfig
  <2>2. \A t \in Tag : Entries(Naming(t)) \subseteq Entry /\ Unique(Entries(Naming(t)))
    <3> SUFFICES ASSUME NEW t \in Tag
                 PROVE  Entries(Naming(t)) \subseteq Entry /\ Unique(Entries(Naming(t)))
      OBVIOUS
    <3>1. \A c \in Naming(t) : c \in Client /\ row[c] \in Row
      BY <1>1, NullAssumption DEF Naming, Exists
    <3>2. \A c \in Naming(t) : row[c].cred \in 0..MaxCred
      BY <3>1 DEF Row
    <3>3. \A x \in Entries(Naming(t)) : \E c \in Naming(t) : x = [client |-> c, cred |-> row[c].cred]
      BY DEF Entries
    <3>4. QED BY <3>1, <3>2, <3>3 DEF Entry, Unique
  <2>3. \A t \in Tag : settings[t] \subseteq Entry /\ Unique(settings[t])
    BY <1>1, <2>2 DEF Unique
  <2>4. QED BY <1>1, <2>1, <2>3, IdleWork DEF Types
<1>3. \A r \in Request : request[r] = Idle /\ request[r].clients = {} /\ request[r].pc = "idle"
  BY <1>1 DEF Idle, At
<1>4. Positions
  BY <1>3, IdleWork DEF Positions
<1>5. Absent /\ Writers /\ Alone
  BY <1>1, <1>3 DEF Absent, Writers, Alone, OneOf
<1>6. Copies
  <2> SUFFICES ASSUME NEW t \in Present, NEW c \in Client
               PROVE  Agrees(t, c)
    BY <1>3 DEF Copies, Copied
  <2>1. t \in Tag /\ settings[t] = Entries(Naming(t))
    BY <1>1 DEF Present
  <2>2. Stored(t, c) = Of(settings[t], c) /\ (c \in Naming(t) <=> Names(c, t))
    BY DEF Stored, Of, Naming, Names
  <2>3. Exists(c) => row[c].cred \in row[c].told..row[c].cred
    BY <1>2, Rows
  <2>4. QED BY <2>1, <2>2, <2>3, EntriesOf DEF Agrees, Should, Names
<1>7. Served
  BY <1>1 DEF Served, NoConfig
<1>8. QED BY <1>2, <1>4, <1>5, <1>6, <1>7 DEF AccessInv

\* The invariant holds: of every client and inbound that no overlapping edit
\* or failure of a request has left undecided, the requests in progress still
\* owe what differs between the rows, the settings and the configuration that
\* the node is served.
THEOREM AccessCorrect == Spec => []AccessInv
<1>1. Init => AccessInv
  BY InitAccess
<1>2. AccessInv /\ [Next]_vars => AccessInv'
  BY AccessStep
<1>3. QED BY <1>1, <1>2, PTL DEF Spec
-----------------------------------------------------------------------------
(* Properties.                                                             *)

\* The tables keep their shape, whatever requests and failures interleave; in
\* the settings of an inbound a client has one entry.
THEOREM TypeCorrect == Spec => []TypeOK
<1>1. Types => TypeOK
  <2> SUFFICES ASSUME Types
               PROVE  TypeOK
    OBVIOUS
  <2>1. \A r \in Request :
           /\ request[r].pc \in {"idle", "row", "read", "write", "void", "invalidate", "drop", "done"}
           /\ request[r].sync \cup request[r].remove \subseteq Tag
    BY Fields DEF Types
  <2>2. \A t \in Tag : cached[t].rows \subseteq [client : Client, cred : 0..MaxCred, enable : BOOLEAN]
    BY DEF Types, Shown
  <2>3. QED BY <2>1, <2>2 DEF Types, TypeOK, Unique
<1>2. AccessInv => TypeOK
  BY <1>1 DEF AccessInv
<1>3. QED BY <1>2, AccessCorrect, PTL

\* No request is at work on a quiet client.
LEMMA QuietNobody ==
    ASSUME Types, Positions, NEW c \in Client, Quiet(c)
    PROVE  c \notin muddled /\ \A r \in Request : c \notin request[r].clients
BY ConcernedOp DEF Quiet, Concerns, Active

\* A cached ETag hides no edit that was synchronised and has returned: when
\* neither the client nor the inbound is being edited, and none of their edits
\* died or overlapped another of the client, the configuration behind the node's
\* ETag has of the client the tags and the flag that its row has, and the
\* credentials as its last synchronised edit left them or a later one.
THEOREM EditsCorrect == Spec => []EditsServed
<1>1. AccessInv => EditsServed
  <2> SUFFICES ASSUME AccessInv, NEW t \in Tag, NEW c \in Client, Quiet(c), Settled(t), Exists(c), cached[t].etag
               PROVE  Serves(t, c)
    BY DEF EditsServed, Serves, Since
  <2>1. c \notin muddled /\ \A r \in Request : c \notin request[r].clients
    BY QuietNobody DEF AccessInv
  <2>2. t \notin muddled
    BY DEF Settled
  <2>3. Fits(t, c)
    BY <2>1, <2>2 DEF AccessInv, Served
  <2>4. \A r \in Request : ~Reforms(request[r], t)
    BY DEF Reforms, Settled, Active
  <2>5. \A r \in Request : ~Renews(request[r], t, c)
    BY <2>1, <2>4 DEF Renews
  <2>6. QED BY <2>3, <2>5 DEF Fits
<1>2. QED BY <1>1, AccessCorrect, PTL

\* The settings of an inbound and the rows agree on who has access when no edit
\* of a client is in progress, and the credentials in the settings are not older
\* than the client's last synchronised edit, unless two requests rewrote the
\* settings at once or the inbound came after its clients.
THEOREM CopiesCorrect == Spec => []CopiesAgree
<1>1. AccessInv => CopiesAgree
  <2> SUFFICES ASSUME AccessInv, NEW t \in Present \ lost, \A c \in Client : Quiet(c)
               PROVE  /\ {x.client : x \in settings[t]} = Naming(t)
                      /\ \A x \in settings[t] : x.cred \in Since(x.client)
    BY DEF CopiesAgree
  <2>1. t \in Tag
    BY DEF Present
  <2>2. \A c \in Client : c \notin muddled /\ \A r \in Request : c \notin request[r].clients
    BY QuietNobody DEF AccessInv
  <2>3. \A c \in Client : Stored(t, c) \in Should(t, c)
    BY <2>2 DEF AccessInv, Copies, Copied, Agrees
  <2>4. ASSUME NEW x \in settings[t]
        PROVE  x.client \in Naming(t) /\ x.cred \in Since(x.client)
    <3>1. x \in Entry /\ x.client \in Client
      BY <2>1 DEF AccessInv, Types, Entry
    <3>2. PICK c \in Client : c = x.client
      BY <3>1
    <3>3. x \in Stored(t, c)
      BY <3>2 DEF Stored
    <3>4. Names(c, t) /\ \E v \in row[c].told..row[c].cred : x = [client |-> c, cred |-> v]
      BY <2>3, <3>3 DEF Should
    <3>5. QED BY <3>2, <3>4 DEF Naming, Names, Since
  <2>5. ASSUME NEW c \in Naming(t)
        PROVE  \E x \in settings[t] : x.client = c
    <3>1. c \in Client /\ Names(c, t)
      BY DEF Naming, Names
    <3>2. Stored(t, c) # {}
      BY <2>3, <3>1 DEF Should
    <3>3. QED BY <3>2 DEF Stored
  <2>6. QED BY <2>4, <2>5
<1>2. QED BY <1>1, AccessCorrect, PTL
=============================================================================
