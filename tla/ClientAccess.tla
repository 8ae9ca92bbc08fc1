---------------------------- MODULE ClientAccess ----------------------------
(***************************************************************************)
(* Clients and the inbounds they may use.  The panel keeps a client's      *)
(* access twice: in its row (inboundTags), from which agent.service fills  *)
(* the configuration of a node, and in the settings of every inbound,      *)
(* which client.service rewrites after each edit: it reads the settings,   *)
(* changes them and writes them back, and then invalidates the node's      *)
(* cached ETag.  Requests interleave at every query and may die at one.    *)
(*                                                                         *)
(* Inbounds stand for their tags; each is alone on its node here, so that  *)
(* a tag is a node too.  They come and go while clients name their tags.   *)
(* ConfigDelivery has the steps within a poll.                             *)
(***************************************************************************)
EXTENDS Naturals, FiniteSets

CONSTANTS
    Client,       \* e-mail addresses
    Tag,          \* inbounds, each on a node of its own
    Request,      \* bound: requests of operators
    MaxCred,      \* bound: edits of a client's credentials
    Missing,      \* the row of a client that does not exist yet
    Gone          \* bound: and of one that was deleted, whose address is not reused

ASSUME ClientAssumption == IsFiniteSet(Client) /\ IsFiniteSet(Tag) /\ IsFiniteSet(Request)
ASSUME MaxCredAssumption == MaxCred \in Nat

VARIABLES
    row,        \* the client table
    inbound,    \* the inbound table: none, or enabled or not
    settings,   \* per inbound: the clients written into its settings
    request,    \* the requests in progress
    cached,     \* per node: the rows that the configuration with the cached ETag is from
    muddled,    \* history: clients with an edit that overlapped another or died,
                \* inbounds with an edit that died
    lost        \* history: inbounds whose settings two requests rewrote at once,
                \* or that were created when clients named them already

panel == <<row, inbound, settings>>
history == <<muddled, lost>>
vars == <<panel, request, cached, history>>

\* cred numbers what buildClient copies from the row: uuid, password, flow,
\* method and level, as an edit has left them.  told is a history: the number
\* at the last edit of the client that was synchronised.
Row == {x \in [tags : SUBSET Tag, cred : 0..MaxCred, told : 0..MaxCred, enable : BOOLEAN] :
          x.told <= x.cred}
ASSUME NullAssumption == {Missing, Gone} \cap Row = {} /\ Missing # Gone
Entry == [client : Client, cred : 0..MaxCred]

\* A request that has no settings in its hands.
At(pc, op, clients, sync, remove) ==
    [pc |-> pc, op |-> op, clients |-> clients, sync |-> sync, remove |-> remove, read |-> {}]
Idle == At("idle", "none", {}, {}, {})
Done == At("done", "none", {}, {}, {})
NoConfig == [etag |-> FALSE, rows |-> {}]

Created(tags, enable) == [tags |-> tags, cred |-> 0, told |-> 0, enable |-> enable]
Exists(c) == row[c] \notin {Missing, Gone}
Present == {t \in Tag : inbound[t] # "none"}
Naming(t) == {c \in Client : Exists(c) /\ t \in row[c].tags}
Entries(cs) == {[client |-> c, cred |-> row[c].cred] : c \in cs}

TypeOK ==
    /\ row \in [Client -> Row \cup {Missing, Gone}]
    /\ inbound \in [Tag -> {"none", "on", "off"}]
    /\ settings \in [Tag -> SUBSET Entry]
    /\ \A t \in Tag : \A x, y \in settings[t] : x.client = y.client => x = y
    /\ \A r \in Request :
          /\ request[r].pc \in {"idle", "row", "read", "write", "void", "invalidate", "drop", "done"}
          /\ request[r].sync \cup request[r].remove \subseteq Tag
    /\ \A t \in Tag : cached[t].rows \subseteq [client : Client, cred : 0..MaxCred, enable : BOOLEAN]
    /\ muddled \subseteq Client \cup Tag /\ lost \subseteq Tag

Init ==
    /\ row \in [Client -> {Missing} \cup {Created(tags, TRUE) : tags \in SUBSET Tag}]
    /\ inbound \in [Tag -> {"none", "on"}]
    /\ settings = [t \in Tag |-> IF t \in Present THEN Entries(Naming(t)) ELSE {}]
    /\ request = [r \in Request |-> Idle]
    /\ cached = [t \in Tag |-> NoConfig]
    /\ muddled = {} /\ lost = {}
-----------------------------------------------------------------------------
(* What a node is served.                                                  *)

\* getNodeConfig and injectClientsToConfig: the enabled inbound with the rows
\* that name it.  (When no client of it is enabled and within expiry and
\* quota, the stored settings are served instead of them, disabled clients
\* included.)
Poll(t) ==
    /\ ~cached[t].etag
    /\ cached' = [cached EXCEPT ![t] =
          [etag |-> TRUE,
           rows |-> {[client |-> c, cred |-> row[c].cred, enable |-> row[c].enable] :
                      c \in IF inbound[t] = "on" THEN Naming(t) ELSE {}}]]
    /\ UNCHANGED <<panel, request, history>>

\* Five minutes after the poll.
Expire(t) ==
    /\ cached[t].etag /\ cached' = [cached EXCEPT ![t] = NoConfig]
    /\ UNCHANGED <<panel, request, history>>
-----------------------------------------------------------------------------
(* Requests: the row.                                                      *)

Active(r) == request[r].pc \notin {"idle", "done"}
Concerns(r, c) == Active(r) /\ c \in request[r].clients

\* An edit of these clients begins while others are edited.
Muddle(cs) == muddled' = muddled \cup {c \in cs : \E r \in Request : Concerns(r, c)}

Continue(r, q) == request' = [request EXCEPT ![r] =
    IF q.sync \cup q.remove = {} THEN Done ELSE q]

\* The e-mail address is looked for and created; a unique index decides
\* between two creators.
Create(r, c) ==
    /\ request[r].pc = "idle" /\ row[c] = Missing /\ Muddle({c})
    /\ \E tags \in SUBSET Tag, enable \in BOOLEAN :
          /\ row' = [row EXCEPT ![c] = Created(tags, enable)]
          /\ Continue(r, At("read", "sync", {c}, tags, {}))
    /\ UNCHANGED <<inbound, settings, cached, lost>>

\* bulkCreate skips the addresses it finds taken and synchronises them all
\* the same, each to its own tags.
BulkCreate(r, cs) ==
    /\ request[r].pc = "idle" /\ (\A c \in cs : row[c] # Gone) /\ Muddle(cs)
    /\ \E tags \in (SUBSET Tag) \ {{}} :
          LET new(c) == IF Exists(c) THEN row[c]
                        ELSE Created(tags, TRUE)
          IN  /\ row' = [c \in Client |-> IF c \in cs THEN new(c) ELSE row[c]]
              /\ Continue(r, At("read", "sync", cs, UNION {new(c).tags : c \in cs}, {}))
    /\ UNCHANGED <<inbound, settings, cached, lost>>

\* findOne: the tags that the client has now decide what is removed.
Update(r, c) ==
    /\ request[r].pc = "idle" /\ Exists(c) /\ Muddle({c})
    /\ request' = [request EXCEPT ![r] = At("row", "sync", {c}, {}, row[c].tags)]
    /\ UNCHANGED <<panel, cached, lost>>

\* MUTANT of NeedsSync: a given credential is forgotten.
NeedsSyncByTags(tags, new, given) == tags # new.tags

\* Tags that differ from those read before, or a non-empty uuid, password or
\* flow, or the flag, changed or not.  A method, a level, and a flow or password
\* that is cleared are in the row and in nobody's settings.
NeedsSync(tags, new, given) == tags # new.tags \/ given

\* What an edit may leave of a row: one thing differs, or nothing.  (Of several
\* at once, one that needs it has all of them synchronised.)  The flag cannot
\* change without being given.
Changed(c, given) ==
    {[row[c] EXCEPT !.tags = tags] : tags \in SUBSET Tag}
    \cup {[row[c] EXCEPT !.cred = cred] : cred \in {row[c].cred + 1} \cap 0..MaxCred}
    \cup {[row[c] EXCEPT !.enable = enable] : enable \in {x \in BOOLEAN : given \/ x = row[c].enable}}

Synced(new) == [new EXCEPT !.told = new.cred]

UpdateRow(r) ==
    LET q == request[r] IN
    /\ q.pc = "row"
    /\ \A c \in q.clients : Exists(c)
    /\ \E c \in q.clients, given \in BOOLEAN : \E new \in Changed(c, given) :
          LET sync == NeedsSync(q.remove, new, given)
          IN  /\ row' = [row EXCEPT ![c] = IF sync THEN Synced(new) ELSE new]
              /\ Continue(r, IF sync THEN At("read", "sync", q.clients, new.tags, q.remove \ new.tags)
                             ELSE Done)
    /\ UNCHANGED <<inbound, settings, cached, history>>

\* The settings and the cache first, the row last.
Delete(r, c) ==
    /\ request[r].pc = "idle" /\ Exists(c) /\ Muddle({c})
    /\ request' = [request EXCEPT ![r] =
          At(IF row[c].tags = {} THEN "drop" ELSE "read", "delete", {c}, {}, row[c].tags)]
    /\ UNCHANGED <<panel, cached, lost>>
-----------------------------------------------------------------------------
(* Requests: the settings.  First the tags the client has, then those it   *)
(* has no more.                                                            *)

Part(q) == IF q.sync # {} THEN q.sync ELSE q.remove

\* Another request has read the settings and not yet written them.
Reading(r, t) == \E s \in Request \ {r} : request[s].pc = "write" /\ t \in Part(request[s])

\* The tags that the client has are done, or those it has no more.
PartDone(r) ==
    LET q == request[r] IN
    IF q.op = "delete" THEN request' = [request EXCEPT ![r] = At("drop", q.op, q.clients, {}, q.remove)]
    ELSE Continue(r, At("read", q.op, q.clients, {}, IF q.sync # {} THEN q.remove ELSE {}))

\* Tags without an inbound are left out; if none is left, nothing is written
\* and no cache invalidated.
ReadSettings(r) ==
    LET q == request[r]
        found == Part(q) \cap Present
    IN  /\ q.pc = "read"
        /\ IF found = {}
           THEN PartDone(r)
           ELSE request' = [request EXCEPT ![r] =
                   [At("write", q.op, q.clients, IF q.sync # {} THEN found ELSE {},
                       IF q.sync # {} THEN q.remove ELSE found)
                    EXCEPT !.read = {[tag |-> t, entries |-> settings[t]] : t \in found}]]
        /\ lost' = lost \cup {t \in found : Reading(r, t)}
        /\ UNCHANGED <<panel, cached, muddled>>

Without(entries, cs) == {x \in entries : x.client \notin cs}

\* MUTANT of Rewritten: an entry that is there already is kept.
RewrittenOnce(q, x) ==
    CASE q.op = "inbound" -> x.entries
      [] q.sync # {} -> x.entries \cup Entries({c \in q.clients \cap Naming(x.tag) :
                                                   \A y \in x.entries : y.client # c})
      [] OTHER -> Without(x.entries, q.clients)

\* MUTANT of Rewritten: the new entry is pushed without looking for the old one.
RewrittenPushed(q, x) ==
    CASE q.op = "inbound" -> x.entries
      [] q.op = "sync" /\ q.sync # {} -> x.entries \cup Entries(q.clients \cap Naming(x.tag))
      [] OTHER -> Without(x.entries, q.clients)

\* The upserted or removed entries.  A client that is disabled or expired
\* is written like any other.  (The code writes the rows it got when it wrote
\* them; another edit of the same client in between makes it muddled.)
Rewritten(q, x) ==
    LET here == q.clients \cap Naming(x.tag)
    IN  CASE q.op = "inbound" -> x.entries
          [] q.op = "sync" /\ q.sync # {} -> Without(x.entries, here) \cup Entries(here)
          [] OTHER -> Without(x.entries, q.clients)

\* The inbound that an operator's form writes, with or without its flag.
Form(q) == IF q.op = "inbound" THEN q.sync ELSE {}
Toggled(t) == [inbound EXCEPT ![t] = IF @ = "on" THEN "off" ELSE "on"]

WriteSettings(r) ==
    LET q == request[r] IN
    /\ q.pc = "write"
    /\ settings' = [t \in Tag |->
          IF \E x \in q.read : x.tag = t
          THEN Rewritten(q, CHOOSE x \in q.read : x.tag = t) ELSE settings[t]]
    /\ \/ inbound' = inbound
       \/ \E t \in Form(q) : inbound' = Toggled(t)
    /\ request' = [request EXCEPT ![r] = At("invalidate", q.op, q.clients, q.sync, q.remove)]
    /\ UNCHANGED <<row, cached, history>>

\* MUTANT of Invalidated: the tags that were taken away are forgotten.
InvalidatedForSync(q) == q.sync

\* The nodes of the inbounds just written.
Invalidated(q) == Part(q)

Invalidate(r) ==
    LET q == request[r]
    IN  /\ q.pc = "invalidate"
        /\ cached' = [t \in Tag |-> IF t \in Invalidated(q) THEN NoConfig ELSE cached[t]]
        /\ PartDone(r)
        /\ UNCHANGED <<panel, history>>

DropRow(r) ==
    LET q == request[r] IN
    /\ q.pc = "drop" /\ \A c \in q.clients : Exists(c)
    /\ row' = [c \in Client |-> IF c \in q.clients THEN Gone ELSE row[c]]
    /\ request' = [request EXCEPT ![r] = Done]
    /\ UNCHANGED <<inbound, settings, cached, history>>

\* A query fails; so do updates of a row that is gone, and with them all
\* others of their transaction.
Die(r) ==
    /\ Active(r)
    /\ request' = [request EXCEPT ![r] = Done]
    /\ muddled' = muddled \cup request[r].clients \cup Form(request[r])
    /\ UNCHANGED <<panel, cached, lost>>
-----------------------------------------------------------------------------
(* Requests on inbounds.                                                   *)

\* update: the operator's form sends back the settings it has shown.
EditInbound(r, t) ==
    /\ request[r].pc = "idle" /\ t \in Present
    /\ request' = [request EXCEPT ![r] = At("read", "inbound", {}, {t}, {})]
    /\ UNCHANGED <<panel, cached, history>>

Written(r, t) ==
    /\ request[r].pc = "idle"
    /\ request' = [request EXCEPT ![r] = At("invalidate", "inbound", {}, {t}, {})]

\* update without settings.
SetEnable(r, t) ==
    /\ t \in Present /\ Written(r, t)
    /\ inbound' = Toggled(t)
    /\ UNCHANGED <<row, settings, cached, history>>

\* Clients that name the tag already are not written into the new settings.
CreateInbound(r, t) ==
    /\ t \notin Present /\ Written(r, t)
    /\ inbound' = [inbound EXCEPT ![t] = "on"]
    /\ lost' = IF Naming(t) = {} THEN lost ELSE lost \cup {t}
    /\ UNCHANGED <<row, settings, cached, muddled>>

\* What a request has read of the inbound has no row to go to.
Void(q) == At("void", q.op, q.clients, q.sync, q.remove)

\* The row and its settings; requests that have read them fail when they write.
DeleteInbound(r, t) ==
    /\ t \in Present /\ request[r].pc = "idle"
    /\ inbound' = [inbound EXCEPT ![t] = "none"] /\ settings' = [settings EXCEPT ![t] = {}]
    /\ request' = [s \in Request |->
          IF s = r THEN At("invalidate", "inbound", {}, {t}, {})
          ELSE IF \E x \in request[s].read : x.tag = t THEN Void(request[s]) ELSE request[s]]
    /\ lost' = lost \ {t}
    /\ UNCHANGED <<row, cached, muddled>>
-----------------------------------------------------------------------------
(* Time and traffic.                                                       *)

\* The job disables the clients that have expired or used up their quota: no
\* settings and no cache.
ExpiryCheck(cs) ==
    /\ \A c \in cs : Exists(c) /\ row[c].enable
    /\ row' = [c \in Client |-> IF c \in cs THEN [row[c] EXCEPT !.enable = FALSE] ELSE row[c]]
    /\ UNCHANGED <<inbound, settings, request, cached, history>>
-----------------------------------------------------------------------------
Next ==
    \/ \E t \in Tag : Poll(t) \/ Expire(t)
    \/ \E r \in Request :
          \/ \E c \in Client : Create(r, c) \/ Update(r, c) \/ Delete(r, c)
          \/ \E cs \in (SUBSET Client) \ {{}} : BulkCreate(r, cs)
          \/ \E t \in Tag : EditInbound(r, t) \/ SetEnable(r, t) \/ CreateInbound(r, t) \/ DeleteInbound(r, t)
          \/ UpdateRow(r) \/ ReadSettings(r) \/ WriteSettings(r) \/ Invalidate(r)
          \/ DropRow(r) \/ Die(r)
    \/ \E cs \in (SUBSET Client) \ {{}} : ExpiryCheck(cs)

Spec == Init /\ [][Next]_vars
-----------------------------------------------------------------------------
(* Properties.                                                             *)

Quiet(c) == c \notin muddled /\ \A r \in Request : ~Concerns(r, c)

Settled(t) == t \notin muddled /\ \A r \in Request : Active(r) => t \notin Form(request[r])

\* The credentials the row has had since an edit was last synchronised.
Since(c) == row[c].told..row[c].cred

\* A cached ETag hides no edit that was synchronised and has returned: the
\* configuration was built from the inbound's flag, from the tags that the
\* client's row has now, from the credentials of that edit or of a later one,
\* and from the client's flag if it has been set.  The edits it does hide, until
\* it expires, are those that NeedsSync passes over: of a method or a level, and
\* of a flow or a password that is cleared.
EditsServed ==
    \A t \in Tag, c \in Client : Quiet(c) /\ Settled(t) /\ Exists(c) /\ cached[t].etag =>
        /\ inbound[t] = "on" /\ t \in row[c].tags <=> \E x \in cached[t].rows : x.client = c
        /\ \A x \in cached[t].rows : x.client = c =>
              x.cred \in Since(c) /\ (row[c].enable => x.enable)

\* The two copies agree on who has access: with no edit in progress, settings
\* that no two requests rewrote at once, of an inbound that was there before its
\* clients, hold exactly the clients whose rows name the inbound, with the
\* credentials of the last edit that was synchronised or of a later one.  (They
\* may be older than the row's: see NeedsSync.)
CopiesAgree ==
    \A t \in Present \ lost : (\A c \in Client : Quiet(c)) =>
        /\ {x.client : x \in settings[t]} = Naming(t)
        /\ \A x \in settings[t] : x.cred \in Since(x.client)
=============================================================================
