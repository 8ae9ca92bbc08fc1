------------------------- MODULE AgentStreamProofs --------------------------
(***************************************************************************)
(* Proofs about AgentStream, for every number of streams, rollbacks and    *)
(* edits.  The inductive invariant StreamInv counts the version rows that  *)
(* may still be written, says who holds the registry's entry as long as no *)
(* two streams overlap, and follows the one piece of work that can change  *)
(* the version rows or what the agent runs as long as nothing is muddled.  *)
(***************************************************************************)
EXTENDS AgentStream, FiniteSetTheorems, WellFoundedInduction, TLAPS

Number == DOMAIN versions
Version == [cfg : Revision, rollback : BOOLEAN,
            status : {"pending", "pushing", "applied", "failed"}]

\* What may be at work while there are n version rows.
Pushing(n) == [pc : {"idle", "read", "create", "version", "mark", "write"},
               to : Stream \cup {NoStream}, cfg : Revision, snap : Revision, ver : 0..n]
Parcel(n) == [cfg : Revision, ver : 0..n]
Answer(n) == [ver : 0..n, ok : BOOLEAN]
Failing(n) == [ver : 1..n, target : 0..n]
Before == {"read", "create", "version"}

Types ==
    /\ rows \in Revision
    /\ versions \in Seq(Version)
    /\ conn \in Stream \cup {NoStream}
    /\ strm \in [Stream -> StreamState]
    /\ push \in [Task -> Pushing(Len(versions))]
    /\ \A p \in Task : /\ push[p].pc # "idle" => push[p].to \in Stream
                       /\ push[p].pc \in Before => push[p].ver = 0
                       /\ push[p].pc = "mark" => push[p].ver # 0
    /\ inbox \in [Stream -> Seq(Parcel(Len(versions)))]
    /\ results \in [Stream -> Seq(Answer(Len(versions)))]
    /\ failing \subseteq Failing(Len(versions))
    /\ runs \in Revision
    /\ muddled \in BOOLEAN /\ overlapped \in BOOLEAN

\* Who may still write a version row: streams that have not pushed, and
\* rollbacks that have not.  A rollback writes one of its own first.
Owed == {s \in Stream : strm[s].reg \in {"no", "lookup", "stored"} \/ push[s].pc \in Before}
        \cup {m \in Manual : push[m].pc \in Before}
Rollbacks == {v \in Number : versions[v].rollback}

Counted ==
    /\ Len(versions) + Cardinality(Owed) <= Cardinality(Stream) + 2 * Cardinality(Rollbacks)
    /\ Cardinality(Rollbacks) <= Cardinality(Manual)

\* A stream pushes while its registration waits for the push.
Waiting == \A s \in Stream : /\ ~Idle(s) <=> strm[s].reg = "pushing"
                             /\ strm[s].side = "new" => strm[s].reg = "no"

Live(s) == strm[s].side \in {"open", "dropped"} \/ strm[s].reg \in {"lookup", "stored", "pushing"}

\* Without an overlap one stream lives, and it has the entry once registered.
Alone ==
    ~overlapped =>
        /\ \A s, t \in Stream : Live(s) /\ Live(t) => s = t
        /\ \A s \in Stream :
              strm[s].side = "open" /\ strm[s].reg \in {"stored", "pushing", "known"} => conn = s

\* Row v holds this configuration, and no applied row is newer.
Newest(vs, v, cfg) ==
    /\ v \in DOMAIN vs /\ vs[v].cfg = cfg
    /\ \A w \in DOMAIN vs : vs[w].status = "applied" => w <= v

Knows == LastApplied # 0 => runs = versions[LastApplied].cfg

Resting == \A p \in Task : Idle(p)
Empty(box) == \A s \in Stream : box[s] = <<>>
Holds(box, s, m) == box[s] = <<m>> /\ \A t \in Stream : t # s => box[t] = <<>>

\* The one piece of work is a push, ...
AtPush(p) ==
    /\ ~Idle(p) /\ \A q \in Task : q # p => Idle(q)
    /\ Empty(inbox) /\ Empty(results) /\ failing = {}
    /\ push[p].pc \in Before => Knows
    /\ push[p].pc = "version" => push[p].snap = push[p].cfg
    /\ push[p].pc = "mark" => Newest(versions, push[p].ver, push[p].cfg)
    /\ push[p].pc = "write" => push[p].ver = 0 \/ Newest(versions, push[p].ver, push[p].cfg)

\* ... a message, ...
AtMessage(s, m) ==
    /\ Resting /\ Holds(inbox, s, m) /\ Empty(results) /\ failing = {}
    /\ Newest(versions, m.ver, m.cfg)

\* ... a result, ...
AtResult(s, r) ==
    /\ Resting /\ Empty(inbox) /\ Holds(results, s, r) /\ failing = {}
    /\ r.ver # 0 /\ (r.ok => Newest(versions, r.ver, runs))

\* ... or a rollback.
AtFailure(f) ==
    /\ Resting /\ Empty(inbox) /\ Empty(results) /\ failing = {f}
    /\ f.target # 0 => Newest(versions, f.target, versions[f.target].cfg)

\* Without a muddle there is at most one piece of work; what it carries is
\* that of the newest row, and what runs is known while none is on its way.
OneWork ==
    ~muddled =>
        \/ Quiet /\ Knows
        \/ \E p \in Task : AtPush(p)
        \/ \E s \in Stream : \E m \in Parcel(Len(versions)) : AtMessage(s, m)
        \/ \E s \in Stream : \E r \in Answer(Len(versions)) : AtResult(s, r)
        \/ \E f \in Failing(Len(versions)) : AtFailure(f)

StreamInv == Types /\ Counted /\ Waiting /\ Alone /\ OneWork
-----------------------------------------------------------------------------
(* The last applied version.                                               *)

Applied(vs) == {v \in DOMAIN vs : vs[v].status = "applied"}
LastOf(vs) == IF Applied(vs) = {} THEN 0
              ELSE CHOOSE v \in Applied(vs) : \A w \in Applied(vs) : w <= v

LEMMA LastIsLastOf == LastApplied = LastOf(versions)
BY DEF LastApplied, LastOf, Applied

\* Numbers up to n have a greatest one.
LEMMA Greatest ==
    ASSUME NEW n \in Nat, NEW S \in SUBSET (1..n), S # {}
    PROVE  \E v \in S : \A w \in S : w <= v
<1> DEFINE T == {t \in Nat : n - t \in S}
<1>1. \A v \in S : n - v \in T
  OBVIOUS
<1>2. T \in SUBSET Nat /\ T # {}
  BY <1>1
<1> HIDE DEF T
<1>3. PICK t \in T : \A u \in T : t <= u
  <2> DEFINE R == OpToRel(<, Nat)
  <2>1. \A x, y \in Nat : y < x => <<y, x>> \in R
    BY DEF OpToRel
  <2>2. IsWellFoundedOn(R, Nat)
    BY NatLessThanWellFounded
  <2> HIDE DEF R
  <2>3. \E t \in T : \A u \in T : <<u, t>> \notin R
    BY <1>2, <2>2, WFMin
  <2>4. \E t \in T : \A u \in T : ~(u < t)
    BY <1>2, <2>1, <2>3, Zenon
  <2>5. \A t, u \in Nat : ~(u < t) => t <= u
    OBVIOUS
  <2>6. QED BY <1>2, <2>4, <2>5, Zenon
<1>4. n - t \in S /\ t \in Nat
  BY <1>3 DEF T
<1>5. \A w \in S : t <= n - w
  BY <1>1, <1>3
<1>6. \A w \in S : w <= n - t
  BY <1>4, <1>5
<1>7. QED BY <1>4, <1>6

LEMMA LastOfIs ==
    ASSUME NEW vs \in Seq(Version)
    PROVE  /\ LastOf(vs) \in 0..Len(vs)
           /\ LastOf(vs) # 0 => LastOf(vs) \in Applied(vs) /\ \A w \in Applied(vs) : w <= LastOf(vs)
           /\ LastOf(vs) = 0 => Applied(vs) = {}
<1>1. Applied(vs) \in SUBSET (1..Len(vs)) /\ Len(vs) \in Nat
  BY DEF Applied
<1>2. CASE Applied(vs) = {}
  BY <1>1, <1>2 DEF LastOf
<1>3. CASE Applied(vs) # {}
  <2>1. \E v \in Applied(vs) : \A w \in Applied(vs) : w <= v
    BY <1>1, <1>3, Greatest
  <2>2. LastOf(vs) \in Applied(vs) /\ \A w \in Applied(vs) : w <= LastOf(vs)
    BY <1>3, <2>1 DEF LastOf
  <2>3. QED BY <1>1, <2>2
<1>4. QED BY <1>2, <1>3

LEMMA LastOfUnique ==
    ASSUME NEW vs \in Seq(Version), NEW v \in Applied(vs), \A w \in Applied(vs) : w <= v
    PROVE  LastOf(vs) = v
<1>1. Applied(vs) \subseteq Nat
  BY DEF Applied
<1>2. LastOf(vs) # 0
  BY LastOfIs
<1>3. LastOf(vs) \in Applied(vs) /\ v <= LastOf(vs) /\ LastOf(vs) <= v
  BY <1>2, LastOfIs
<1>4. QED BY <1>1, <1>3

\* A row that is not applied leaves the last applied one as it is.
LEMMA LastOfSame ==
    ASSUME NEW vs \in Seq(Version), NEW ws \in Seq(Version), Applied(vs) = Applied(ws)
    PROVE  LastOf(vs) = LastOf(ws)
BY DEF LastOf
-----------------------------------------------------------------------------
(* Types.                                                                  *)

LEMMA Wider ==
    ASSUME NEW m \in Nat, NEW n \in Nat, m <= n
    PROVE  /\ Pushing(m) \subseteq Pushing(n) /\ Failing(m) \subseteq Failing(n)
           /\ Seq(Parcel(m)) \subseteq Seq(Parcel(n)) /\ Seq(Answer(m)) \subseteq Seq(Answer(n))
<1>1. Parcel(m) \subseteq Parcel(n) /\ Answer(m) \subseteq Answer(n)
  BY DEF Parcel, Answer
<1>2. QED BY <1>1 DEF Pushing, Failing

\* What a step can do to the version rows.
Marks(v) == \E status \in {"pushing", "applied", "failed"} : SetStatus(v, status)
Adds == \E row \in Version : versions' = Append(versions, row) /\ row.status = "pending"

LEMMA VersionsStep ==
    ASSUME Types, Next
    PROVE  /\ versions' = versions \/ Adds \/ \E v \in Number : Marks(v)
           /\ versions' \in Seq(Version) /\ Len(versions') \in Nat
           /\ Len(versions) <= Len(versions')
           /\ Adds => \/ \E p \in Task : PushVersion(p)
                      \/ \E m \in Manual, v \in Number : RollbackTo(m, v)
                      \/ versions' = versions \/ \E v \in Number : Marks(v)
<1>1. ASSUME NEW p \in Task, PushVersion(p)
      PROVE  versions' = versions \/ Adds
  <2> DEFINE row == [cfg |-> push[p].snap, rollback |-> FALSE, status |-> "pending"]
  <2>1. row \in Version /\ row.status = "pending"
    BY DEF Version, Types, Pushing
  <2>2. versions' = versions \/ versions' = Append(versions, row)
    BY <1>1 DEF PushVersion
  <2>3. QED BY <2>1, <2>2 DEF Adds
<1>2. ASSUME NEW p \in Task, PushMark(p)
      PROVE  \E v \in Number : Marks(v)
  <2>1. push[p].ver \in Number
    BY <1>2 DEF PushMark, Types, Pushing, Number
  <2>2. QED BY <1>2, <2>1 DEF PushMark, Marks
<1>3. ASSUME NEW s \in Stream, MarkApplied(s) \/ MarkFailed(s)
      PROVE  \E v \in Number : Marks(v)
  <2>1. results[s] \in Seq(Answer(Len(versions))) /\ results[s] # <<>> /\ Head(results[s]).ver # 0
    BY <1>3 DEF MarkApplied, MarkFailed, Dropped, Types
  <2>2. Head(results[s]) \in Answer(Len(versions))
    BY <2>1
  <2>3. Head(results[s]).ver \in Number
    BY <2>1, <2>2 DEF Answer, Number, Types
  <2>4. QED BY <1>3, <2>3 DEF MarkApplied, MarkFailed, FailedStatus, Marks
<1>4. ASSUME NEW m \in Manual, NEW v \in Number, RollbackTo(m, v)
      PROVE  Adds
  <2> DEFINE row == [cfg |-> versions[v].cfg, rollback |-> TRUE, status |-> "pending"]
  <2>1. versions[v].cfg \in Revision
    <3>1. versions[v] \in Version
      BY DEF Types, Number
    <3>2. QED BY <3>1 DEF Version
  <2>2. row \in Version /\ row.status = "pending"
    BY <2>1 DEF Version
  <2>3. versions' = Append(versions, row)
    BY <1>4 DEF RollbackTo
  <2>4. QED BY <2>2, <2>3 DEF Adds
<1>5. versions' = versions \/ Adds \/ \E v \in Number : Marks(v)
  BY <1>1, <1>2, <1>3, <1>4
     DEF Next, Panel, PushStep, EditRows, Connect, Drop, Try, Refuse, HealthCheck, Register,
         StartPush, End, PushRead, PushSnapshot, PushWrite, ResultIgnored, FindRollback,
         SendRollback, Number
<1>9. \/ \E p \in Task : PushVersion(p)
      \/ \E m \in Manual, v \in Number : RollbackTo(m, v)
      \/ versions' = versions \/ \E v \in Number : Marks(v)
  BY <1>2, <1>3
     DEF Next, Panel, PushStep, EditRows, Connect, Drop, Try, Refuse, HealthCheck, Register,
         StartPush, End, PushRead, PushSnapshot, PushWrite, ResultIgnored, FindRollback,
         SendRollback, Number
<1>6. CASE Adds
  BY <1>5, <1>6, <1>9 DEF Adds, Types
<1>7. CASE \E v \in Number : Marks(v)
  <2>1. PICK v \in Number, status \in {"pushing", "applied", "failed"} :
           versions' = [versions EXCEPT ![v].status = status]
    BY <1>7 DEF Marks, SetStatus
  <2>2. versions[v] \in Version /\ v \in 1..Len(versions)
    BY DEF Types, Number
  <2>3. versions' = [versions EXCEPT ![v] = [versions[v] EXCEPT !.status = status]]
    BY <2>1
  <2>4. [versions[v] EXCEPT !.status = status] \in Version
    BY <2>2 DEF Version
  <2>5. versions' \in Seq(Version) /\ Len(versions') = Len(versions)
    BY <2>2, <2>3, <2>4 DEF Types
  <2>6. QED BY <1>5, <1>9, <2>5 DEF Types
<1>8. QED BY <1>5, <1>6, <1>7, <1>9 DEF Types

\* What a step can do to the messages and the results on their way.
Sends == \E s \in Stream, m \in Parcel(Len(versions)) : inbox' = [inbox EXCEPT ![s] = Append(inbox[s], m)]
Takes(box, next) == \E s \in Stream : box[s] # <<>> /\ next = [box EXCEPT ![s] = Tail(box[s])]
Loses(box, next) == \E s \in Stream : next = [box EXCEPT ![s] = <<>>]
Reports == \E s \in Stream, a \in Answer(Len(versions)) :
              results' = [results EXCEPT ![s] = Append(results[s], a)]

LEMMA Heads ==
    ASSUME Types, NEW s \in Stream
    PROVE  /\ inbox[s] \in Seq(Parcel(Len(versions)))
           /\ inbox[s] # <<>> => Head(inbox[s]) \in Parcel(Len(versions)) /\ Head(inbox[s]) = inbox[s][1]
           /\ results[s] \in Seq(Answer(Len(versions)))
           /\ results[s] # <<>> => Head(results[s]) \in Answer(Len(versions)) /\ Head(results[s]) = results[s][1]
BY DEF Types

LEMMA WriteStep ==
    ASSUME Types, NEW s \in Stream, NEW cfg \in Revision, NEW ver \in 0..Len(versions),
           Write(s, cfg, ver)
    PROVE  (inbox' = inbox \/ Sends) /\ muddled' \in BOOLEAN
<1>1. CASE strm[s].side = "open"
  <2>1. [cfg |-> cfg, ver |-> ver] \in Parcel(Len(versions))
    BY DEF Parcel
  <2>2. inbox' = [inbox EXCEPT ![s] = Append(inbox[s], [cfg |-> cfg, ver |-> ver])]
    BY <1>1 DEF Write
  <2>3. Sends
    BY <2>1, <2>2 DEF Sends
  <2>4. muddled' = (muddled \/ ver = 0)
    BY <1>1 DEF Write
  <2>5. QED BY <2>3, <2>4, Zenon
<1>2. CASE strm[s].side # "open"
  <2>1. inbox' = inbox /\ muddled' = TRUE
    BY <1>2 DEF Write
  <2>2. muddled' \in BOOLEAN
    BY <2>1, Zenon
  <2>3. QED BY <2>1, <2>2
<1>3. QED BY <1>1, <1>2

LEMMA Sending ==
    ASSUME Types, \/ \E p \in Task : PushWrite(p)
                  \/ \E f \in failing : SendRollback(f)
    PROVE  (inbox' = inbox \/ Sends) /\ muddled' \in BOOLEAN
<1>1. ASSUME NEW p \in Task, PushWrite(p)
      PROVE  (inbox' = inbox \/ Sends) /\ muddled' \in BOOLEAN
  <2>1. push[p].to \in Stream /\ push[p].cfg \in Revision /\ push[p].ver \in 0..Len(versions)
    BY <1>1 DEF PushWrite, Types, Pushing
  <2>2. QED BY <1>1, <2>1, WriteStep DEF PushWrite
<1>2. ASSUME NEW f \in failing, SendRollback(f)
      PROVE  (inbox' = inbox \/ Sends) /\ muddled' \in BOOLEAN
  <2>1. f.target \in 1..Len(versions) /\ f.target \in 0..Len(versions)
    BY <1>2 DEF SendRollback, Types, Failing
  <2>2. versions[f.target].cfg \in Revision
    <3>1. versions[f.target] \in Version
      BY <2>1 DEF Types
    <3>2. QED BY <3>1 DEF Version
  <2>3. CASE conn = NoStream
    <3>1. inbox' = inbox /\ muddled' = TRUE
      BY <1>2, <2>3 DEF SendRollback
    <3>2. muddled' \in BOOLEAN
      BY <3>1, Zenon
    <3>3. QED BY <3>1, <3>2
  <2>4. CASE conn # NoStream
    <3>1. conn \in Stream /\ Write(conn, versions[f.target].cfg, f.target)
      BY <1>2, <2>4 DEF SendRollback, Types
    <3>2. QED BY <2>1, <2>2, <3>1, WriteStep
  <2>5. QED BY <2>3, <2>4
<1>3. QED BY <1>1, <1>2

LEMMA BoxesStep ==
    ASSUME Types, Next
    PROVE  /\ inbox' = inbox \/ Sends \/ Takes(inbox, inbox') \/ Loses(inbox, inbox')
           /\ results' = results \/ Reports \/ Takes(results, results') \/ Loses(results, results')
<1>1. ASSUME NEW s \in Stream, Try(s)
      PROVE  Takes(inbox, inbox') /\ Reports
  <2>1. PICK ok \in BOOLEAN :
           results' = [results EXCEPT ![s] = Append(@, [ver |-> Head(inbox[s]).ver, ok |-> ok])]
    BY <1>1 DEF Try
  <2>2. [ver |-> Head(inbox[s]).ver, ok |-> ok] \in Answer(Len(versions))
    BY <1>1, Heads DEF Try, Parcel, Answer
  <2>3. Reports
    BY <2>1, <2>2 DEF Reports
  <2>4. QED BY <1>1, <2>3 DEF Try, Takes
<1>2. ASSUME NEW s \in Stream, Drop(s)
      PROVE  Loses(inbox, inbox') /\ Loses(results, results')
  BY <1>2 DEF Drop, Loses
<1>3. ASSUME HealthCheck
      PROVE  Loses(inbox, inbox') /\ Loses(results, results')
  BY <1>3 DEF HealthCheck, Loses, Types
<1>4. ASSUME NEW s \in Stream, ResultIgnored(s) \/ MarkApplied(s) \/ MarkFailed(s)
      PROVE  Takes(results, results') /\ inbox' = inbox
  BY <1>4 DEF ResultIgnored, MarkApplied, MarkFailed, Takes
<1>5. ASSUME \/ \E p \in Task : PushWrite(p)
             \/ \E f \in failing : SendRollback(f)
      PROVE  (inbox' = inbox \/ Sends) /\ results' = results
  BY <1>5, Sending DEF PushWrite, SendRollback
<1>6. QED
  BY <1>1, <1>2, <1>3, <1>4, <1>5
     DEF Next, Panel, PushStep, EditRows, Connect, Refuse, Register, StartPush, End, PushRead,
         PushSnapshot, PushVersion, PushMark, FindRollback, RollbackTo

LEMMA BoxTyped ==
    ASSUME NEW S, NEW box \in [Stream -> Seq(S)], NEW next,
           \/ next = box \/ Takes(box, next) \/ Loses(box, next)
           \/ \E s \in Stream, m \in S : next = [box EXCEPT ![s] = Append(box[s], m)]
    PROVE  next \in [Stream -> Seq(S)]
<1>1. CASE Takes(box, next)
  <2>1. PICK s \in Stream : box[s] # <<>> /\ next = [box EXCEPT ![s] = Tail(box[s])]
    BY <1>1 DEF Takes
  <2>2. Tail(box[s]) \in Seq(S)
    BY <2>1
  <2>3. QED BY <2>1, <2>2
<1>2. CASE Loses(box, next)
  <2>1. <<>> \in Seq(S)
    OBVIOUS
  <2>2. QED BY <1>2, <2>1 DEF Loses
<1>3. CASE \E s \in Stream, m \in S : next = [box EXCEPT ![s] = Append(box[s], m)]
  <2>1. \A s \in Stream, m \in S : Append(box[s], m) \in Seq(S)
    OBVIOUS
  <2>2. QED BY <1>3, <2>1
<1>4. QED BY <1>1, <1>2, <1>3

LEMMA BoxesTyped ==
    ASSUME Types, Next
    PROVE  /\ inbox' \in [Stream -> Seq(Parcel(Len(versions')))]
           /\ results' \in [Stream -> Seq(Answer(Len(versions')))]
<1> DEFINE n == Len(versions)
<1>1. /\ inbox \in [Stream -> Seq(Parcel(n))] /\ results \in [Stream -> Seq(Answer(n))]
      /\ n \in Nat
  BY DEF Types
<1>2. inbox' \in [Stream -> Seq(Parcel(n))] /\ results' \in [Stream -> Seq(Answer(n))]
  BY <1>1, BoxesStep, BoxTyped DEF Sends, Reports
<1>3. Seq(Parcel(n)) \subseteq Seq(Parcel(Len(versions'))) /\ Seq(Answer(n)) \subseteq Seq(Answer(Len(versions')))
  BY <1>1, VersionsStep, Wider
<1>4. QED BY <1>2, <1>3

\* A push that begins, and one that is over.
LEMMA Fresh ==
    ASSUME NEW to
    PROVE  [NoPush EXCEPT !.pc = "read", !.to = to] =
              [pc |-> "read", to |-> to, cfg |-> 0, snap |-> 0, ver |-> 0]
<1> DEFINE N == [NoPush EXCEPT !.pc = "read"]
<1>1. [NoPush EXCEPT !.pc = "read", !.to = to] = [N EXCEPT !.to = to]
  OBVIOUS
<1>2. N = [pc |-> "read", to |-> NoStream, cfg |-> 0, snap |-> 0, ver |-> 0]
  BY DEF NoPush
<1> HIDE DEF N
<1>3. [N EXCEPT !.to = to] = [pc |-> "read", to |-> to, cfg |-> 0, snap |-> 0, ver |-> 0]
  BY <1>2
<1>4. QED BY <1>1, <1>3, Zenon

Sound(q) == /\ q.pc # "idle" => q.to \in Stream
            /\ q.pc \in Before => q.ver = 0
            /\ q.pc = "mark" => q.ver # 0

\* The push of task p, after its step, and all the others as they were.
PutTo(p, q) == push' \in [Task -> Pushing(Len(versions'))] /\ push'[p] = q
               /\ \A r \in Task : r # p => push'[r] = push[r]

LEMMA PushWider ==
    ASSUME Types, Next
    PROVE  push \in [Task -> Pushing(Len(versions'))]
BY VersionsStep, Wider DEF Types

LEMMA Putting ==
    ASSUME Types, Next, NEW p \in Task, NEW q \in Pushing(Len(versions')),
           push' = [push EXCEPT ![p] = q]
    PROVE  PutTo(p, q)
<1>1. push \in [Task -> Pushing(Len(versions'))]
  BY PushWider
<1>2. QED BY <1>1 DEF PutTo

\* The fields of a push that a step changes.
Fields(a, b) == a \in {"idle", "read", "create", "version", "mark", "write"} /\ b \in Revision

LEMMA PutPc ==
    ASSUME Types, Next, NEW p \in Task, NEW a, Fields(a, 0), push' = [push EXCEPT ![p].pc = a]
    PROVE  PutTo(p, [pc |-> a, to |-> push[p].to, cfg |-> push[p].cfg,
                     snap |-> push[p].snap, ver |-> push[p].ver])
<1>1. push \in [Task -> Pushing(Len(versions'))]
  BY PushWider
<1>2. QED BY <1>1 DEF PutTo, Pushing, Fields

LEMMA PutCfg ==
    ASSUME Types, Next, NEW p \in Task, NEW a, NEW b, Fields(a, b),
           push' = [push EXCEPT ![p].pc = a, ![p].cfg = b]
    PROVE  PutTo(p, [pc |-> a, to |-> push[p].to, cfg |-> b,
                     snap |-> push[p].snap, ver |-> push[p].ver])
<1>1. push \in [Task -> Pushing(Len(versions'))]
  BY PushWider
<1>2. QED BY <1>1 DEF PutTo, Pushing, Fields

LEMMA PutSnap ==
    ASSUME Types, Next, NEW p \in Task, NEW a, NEW b, Fields(a, b),
           push' = [push EXCEPT ![p].snap = b, ![p].pc = a]
    PROVE  PutTo(p, [pc |-> a, to |-> push[p].to, cfg |-> push[p].cfg,
                     snap |-> b, ver |-> push[p].ver])
<1>1. push \in [Task -> Pushing(Len(versions'))]
  BY PushWider
<1>2. QED BY <1>1 DEF PutTo, Pushing, Fields

LEMMA PutVer ==
    ASSUME Types, Next, NEW p \in Task, NEW a, NEW b, Fields(a, b),
           NEW c \in 0..Len(versions'),
           push' = [push EXCEPT ![p].pc = a, ![p].snap = b, ![p].ver = c]
    PROVE  PutTo(p, [pc |-> a, to |-> push[p].to, cfg |-> push[p].cfg, snap |-> b, ver |-> c])
<1>1. push \in [Task -> Pushing(Len(versions'))]
  BY PushWider
<1>2. QED BY <1>1 DEF PutTo, Pushing, Fields

LEMMA NoPushTyped ==
    ASSUME NEW n \in Nat
    PROVE  NoPush \in Pushing(n) /\ Sound(NoPush)
<1>1. 0 \in Revision /\ 0 \in 0..n
  BY RevisionAssumption DEF Revision
<1>2. QED BY <1>1 DEF NoPush, Pushing, Sound, Before

LEMMA Beginning ==
    ASSUME Types, Next, NEW p \in Task, conn # NoStream,
           push' = [push EXCEPT ![p] = [NoPush EXCEPT !.pc = "read", !.to = conn]]
    PROVE  /\ PutTo(p, [pc |-> "read", to |-> conn, cfg |-> 0, snap |-> 0, ver |-> 0])
           /\ Sound(push'[p])
<1>1. [pc |-> "read", to |-> conn, cfg |-> 0, snap |-> 0, ver |-> 0] \in Pushing(Len(versions'))
  <2>1. 0 \in Revision /\ 0 \in 0..Len(versions')
    BY RevisionAssumption, VersionsStep DEF Revision
  <2>2. conn \in Stream \cup {NoStream}
    BY DEF Types
  <2>3. QED BY <2>1, <2>2 DEF Pushing
<1>2. push' = [push EXCEPT ![p] = [pc |-> "read", to |-> conn, cfg |-> 0, snap |-> 0, ver |-> 0]]
  BY Fresh
<1>3. PutTo(p, [pc |-> "read", to |-> conn, cfg |-> 0, snap |-> 0, ver |-> 0])
  BY <1>1, <1>2, Putting
<1>4. conn \in Stream
  BY DEF Types
<1>5. Sound([pc |-> "read", to |-> conn, cfg |-> 0, snap |-> 0, ver |-> 0])
  BY <1>4 DEF Sound, Before
<1>6. push'[p] = [pc |-> "read", to |-> conn, cfg |-> 0, snap |-> 0, ver |-> 0]
  BY <1>3 DEF PutTo
<1>7. QED BY <1>3, <1>5, <1>6

\* What each step of a push does to it.
LEMMA PushMoves ==
    ASSUME Types, Next, NEW p \in Task
    PROVE  /\ PushRead(p) =>
                 \/ PutTo(p, NoPush) /\ rows \in Invalid
                 \/ PutTo(p, [pc |-> "create", to |-> push[p].to, cfg |-> rows,
                              snap |-> push[p].snap, ver |-> push[p].ver])
           /\ PushSnapshot(p) =>
                 PutTo(p, [pc |-> IF Versioned(rows) THEN "version" ELSE "write", to |-> push[p].to,
                           cfg |-> push[p].cfg, snap |-> rows, ver |-> push[p].ver])
           /\ PushVersion(p) =>
                 \E v \in 1..Len(versions') :
                    /\ PutTo(p, [pc |-> "mark", to |-> push[p].to, cfg |-> push[p].cfg,
                                 snap |-> 0, ver |-> v])
                    /\ \/ /\ versions' = versions /\ v = LastApplied /\ v # 0
                          /\ versions[v].cfg = push[p].snap
                       \/ /\ v = Len(versions) + 1
                          /\ versions' = Append(versions, [cfg |-> push[p].snap, rollback |-> FALSE,
                                                           status |-> "pending"])
           /\ PushMark(p) =>
                 PutTo(p, [pc |-> "write", to |-> push[p].to, cfg |-> push[p].cfg,
                           snap |-> push[p].snap, ver |-> push[p].ver])
           /\ PushWrite(p) => PutTo(p, NoPush)
<1> DEFINE n == Len(versions')
<1>1. n \in Nat /\ Len(versions) <= n /\ versions' \in Seq(Version)
  BY VersionsStep
<1>2. /\ rows \in Revision /\ 0 \in Revision /\ push[p] \in Pushing(n)
      /\ Len(versions) \in Nat /\ versions \in Seq(Version)
  BY <1>1, Wider, RevisionAssumption DEF Types, Revision
<1>3. ASSUME PushRead(p)
      PROVE  \/ PutTo(p, NoPush) /\ rows \in Invalid
             \/ PutTo(p, [pc |-> "create", to |-> push[p].to, cfg |-> rows,
                          snap |-> push[p].snap, ver |-> push[p].ver])
  <2>1. CASE rows \in Invalid
    BY <1>1, <1>3, <2>1, NoPushTyped, Putting DEF PushRead, Returns
  <2>2. CASE rows \notin Invalid
    <3>1. push' = [push EXCEPT ![p].pc = "create", ![p].cfg = rows]
      BY <1>3, <2>2 DEF PushRead
    <3>2. QED BY <1>2, <3>1, PutCfg DEF Fields
  <2>3. QED BY <2>1, <2>2
<1>4. ASSUME PushSnapshot(p)
      PROVE  PutTo(p, [pc |-> IF Versioned(rows) THEN "version" ELSE "write", to |-> push[p].to,
                       cfg |-> push[p].cfg, snap |-> rows, ver |-> push[p].ver])
  <2> DEFINE pc == IF Versioned(rows) THEN "version" ELSE "write"
  <2>1. push' = [push EXCEPT ![p].snap = rows, ![p].pc = pc]
    BY <1>4 DEF PushSnapshot
  <2>2. pc \in {"idle", "read", "create", "version", "mark", "write"}
    OBVIOUS
  <2> HIDE DEF pc
  <2>3. PutTo(p, [pc |-> pc, to |-> push[p].to,
                  cfg |-> push[p].cfg, snap |-> rows, ver |-> push[p].ver])
    BY <1>2, <2>1, <2>2, PutSnap DEF Fields
  <2>4. QED BY <2>3 DEF pc
<1>5. ASSUME PushVersion(p)
      PROVE  \E v \in 1..Len(versions') :
                /\ PutTo(p, [pc |-> "mark", to |-> push[p].to, cfg |-> push[p].cfg,
                             snap |-> 0, ver |-> v])
                /\ \/ /\ versions' = versions /\ v = LastApplied /\ v # 0
                      /\ versions[v].cfg = push[p].snap
                   \/ /\ v = Len(versions) + 1
                      /\ versions' = Append(versions, [cfg |-> push[p].snap, rollback |-> FALSE,
                                                       status |-> "pending"])
  <2>1. PICK v : /\ push' = [push EXCEPT ![p].pc = "mark", ![p].snap = 0, ![p].ver = v]
                 /\ \/ /\ versions' = versions /\ v = LastApplied /\ v # 0
                       /\ versions[v].cfg = push[p].snap
                    \/ /\ v = Len(versions) + 1
                       /\ versions' = Append(versions, [cfg |-> push[p].snap, rollback |-> FALSE,
                                                        status |-> "pending"])
    BY <1>5 DEF PushVersion
  <2>2. CASE versions' = versions /\ v = LastApplied /\ v # 0
    <3>1. LastApplied \in 0..Len(versions)
      BY <1>2, LastIsLastOf, LastOfIs
    <3>2. v \in 1..n /\ v \in 0..n
      BY <1>1, <2>2, <3>1
    <3>3. PutTo(p, [pc |-> "mark", to |-> push[p].to, cfg |-> push[p].cfg, snap |-> 0, ver |-> v])
      BY <1>2, <2>1, <3>2, PutVer DEF Fields
    <3>4. QED BY <2>1, <3>2, <3>3
  <2>3. CASE /\ v = Len(versions) + 1
             /\ versions' = Append(versions, [cfg |-> push[p].snap, rollback |-> FALSE,
                                              status |-> "pending"])
    <3>1. n = Len(versions) + 1
      BY <1>2, <2>3
    <3>2. v \in 1..n /\ v \in 0..n
      BY <1>1, <1>2, <2>3, <3>1
    <3>3. PutTo(p, [pc |-> "mark", to |-> push[p].to, cfg |-> push[p].cfg, snap |-> 0, ver |-> v])
      BY <1>2, <2>1, <3>2, PutVer DEF Fields
    <3>4. QED BY <2>1, <3>2, <3>3
  <2>4. QED BY <2>1, <2>2, <2>3
<1>6. ASSUME PushMark(p)
      PROVE  PutTo(p, [pc |-> "write", to |-> push[p].to, cfg |-> push[p].cfg,
                       snap |-> push[p].snap, ver |-> push[p].ver])
  <2>1. push' = [push EXCEPT ![p].pc = "write"]
    BY <1>6 DEF PushMark
  <2>2. QED BY <1>2, <2>1, PutPc DEF Fields
<1>7. ASSUME PushWrite(p)
      PROVE  PutTo(p, NoPush)
  BY <1>1, <1>7, NoPushTyped, Putting DEF PushWrite, Returns
<1>8. QED BY <1>3, <1>4, <1>5, <1>6, <1>7

LEMMA PushTyped ==
    ASSUME Types, Next
    PROVE  /\ push' \in [Task -> Pushing(Len(versions'))]
           /\ \A p \in Task : Sound(push'[p])
<1> DEFINE Goal == /\ push' \in [Task -> Pushing(Len(versions'))]
                   /\ \A p \in Task : Sound(push'[p])
<1>1. Len(versions') \in Nat /\ \A p \in Task : Sound(push[p]) /\ push[p] \in Pushing(Len(versions))
  BY VersionsStep DEF Types, Sound
<1>2. push \in [Task -> Pushing(Len(versions'))]
  BY VersionsStep, Wider DEF Types
<1>3. ASSUME NEW p \in Task, NEW q, PutTo(p, q), Sound(q)
      PROVE  Goal
  BY <1>1, <1>3 DEF PutTo
<1>4. ASSUME NEW p \in Task, PushStep(p)
      PROVE  Goal
  <2>1. NoPush.pc = "idle" /\ Sound(NoPush)
    BY <1>1, NoPushTyped DEF NoPush
  <2>2. CASE PushRead(p)
    <3>1. push[p].pc = "read"
      BY <2>2 DEF PushRead
    <3>2. Sound([pc |-> "create", to |-> push[p].to, cfg |-> rows,
                 snap |-> push[p].snap, ver |-> push[p].ver])
      BY <1>1, <3>1 DEF Sound, Before
    <3>3. QED BY <1>3, <2>1, <2>2, <3>2, PushMoves
  <2>3. CASE PushSnapshot(p)
    <3>1. push[p].pc = "create"
      BY <2>3 DEF PushSnapshot
    <3>2. Sound([pc |-> IF Versioned(rows) THEN "version" ELSE "write", to |-> push[p].to,
                 cfg |-> push[p].cfg, snap |-> rows, ver |-> push[p].ver])
      BY <1>1, <3>1 DEF Sound, Before
    <3>3. QED BY <1>3, <2>3, <3>2, PushMoves
  <2>4. CASE PushVersion(p)
    <3>1. push[p].pc = "version"
      BY <2>4 DEF PushVersion
    <3>2. PICK v \in 1..Len(versions') :
             PutTo(p, [pc |-> "mark", to |-> push[p].to, cfg |-> push[p].cfg, snap |-> 0, ver |-> v])
      BY <2>4, PushMoves
    <3>3. Sound([pc |-> "mark", to |-> push[p].to, cfg |-> push[p].cfg, snap |-> 0, ver |-> v])
      BY <1>1, <3>1 DEF Sound, Before
    <3>4. QED BY <1>3, <3>2, <3>3
  <2>5. CASE PushMark(p)
    <3>1. push[p].pc = "mark"
      BY <2>5 DEF PushMark
    <3>2. Sound([pc |-> "write", to |-> push[p].to, cfg |-> push[p].cfg,
                 snap |-> push[p].snap, ver |-> push[p].ver])
      BY <1>1, <3>1 DEF Sound, Before
    <3>3. QED BY <1>3, <2>5, <3>2, PushMoves
  <2>6. CASE PushWrite(p)
    BY <1>3, <2>1, <2>6, PushMoves
  <2>7. QED BY <1>4, <2>2, <2>3, <2>4, <2>5, <2>6 DEF PushStep
<1>5. ASSUME NEW p \in Task, conn # NoStream,
             push' = [push EXCEPT ![p] = [NoPush EXCEPT !.pc = "read", !.to = conn]]
      PROVE  Goal
  BY <1>1, <1>5, Beginning DEF PutTo
<1>6. CASE UNCHANGED push
  BY <1>1, <1>2, <1>6
<1>7. ASSUME NEW s \in Stream, StartPush(s)
      PROVE  Goal
  BY <1>5, <1>6, <1>7 DEF StartPush, Task
<1>8. ASSUME NEW m \in Manual, NEW v \in Number, RollbackTo(m, v)
      PROVE  Goal
  BY <1>5, <1>6, <1>8 DEF RollbackTo, Task
<1>9. QED
  BY <1>4, <1>6, <1>7, <1>8
     DEF Next, Panel, EditRows, Connect, Drop, Try, Refuse, HealthCheck, Register, End,
         ResultIgnored, MarkApplied, MarkFailed, FindRollback, SendRollback, Number

\* What a step can do to the streams.
LEMMA StreamsStep ==
    ASSUME Types, Next
    PROVE  /\ strm' \in [Stream -> StreamState] /\ conn' \in Stream \cup {NoStream}
           /\ rows' \in Revision
<1>1. strm \in [Stream -> StreamState] /\ conn \in Stream \cup {NoStream} /\ rows \in Revision
  BY DEF Types
<1>2. ASSUME NEW s \in Stream, NEW reg \in {"no", "lookup", "stored", "pushing", "known"},
             SetReg(s, reg)
      PROVE  strm' \in [Stream -> StreamState]
  BY <1>1, <1>2 DEF SetReg, StreamState
<1>3. ASSUME NEW s \in Stream, NEW side \in {"new", "open", "dropped", "ended"},
             strm' = [strm EXCEPT ![s].side = side]
      PROVE  strm' \in [Stream -> StreamState]
  BY <1>1, <1>3 DEF StreamState
<1>4. CASE EditRows
  BY <1>1, <1>4, RevisionAssumption DEF EditRows, Revision
<1>5. ASSUME NEW s \in Stream, Connect(s) \/ Drop(s) \/ Try(s) \/ Refuse(s)
      PROVE  strm' \in [Stream -> StreamState] /\ conn' = conn /\ rows' = rows
  <2>1. CASE Connect(s) \/ Refuse(s)
    BY <1>1, <2>1 DEF Connect, Refuse, StreamState
  <2>2. CASE Drop(s)
    BY <1>3, <2>2 DEF Drop
  <2>3. CASE Try(s)
    BY <1>1, <2>3 DEF Try
  <2>4. QED BY <1>5, <2>1, <2>2, <2>3
<1>6. CASE HealthCheck
  BY <1>1, <1>3, <1>6 DEF HealthCheck, TimedOut
<1>7. ASSUME NEW s \in Stream, Register(s) \/ StartPush(s) \/ End(s)
      PROVE  strm' \in [Stream -> StreamState] /\ conn' \in Stream \cup {NoStream} /\ rows' = rows
  <2>1. CASE Register(s)
    BY <1>2, <2>1 DEF Register
  <2>2. CASE StartPush(s)
    BY <1>1, <1>2, <2>2 DEF StartPush
  <2>3. CASE End(s)
    BY <1>1, <1>3, <2>3 DEF End
  <2>4. QED BY <1>7, <2>1, <2>2, <2>3
<1>8. ASSUME NEW p \in Task, PushStep(p)
      PROVE  strm' \in [Stream -> StreamState] /\ conn' = conn /\ rows' = rows
  <2>1. strm' = strm \/ \E s \in Stream : SetReg(s, "known")
    BY <1>8 DEF PushStep, PushRead, PushSnapshot, PushVersion, PushMark, PushWrite, Returns
  <2>2. conn' = conn /\ rows' = rows
    BY <1>8 DEF PushStep, PushRead, PushSnapshot, PushVersion, PushMark, PushWrite
  <2>3. QED BY <1>1, <1>2, <2>1, <2>2
<1>9. QED
  BY <1>1, <1>4, <1>5, <1>6, <1>7, <1>8
     DEF Next, Panel, ResultIgnored, MarkApplied, MarkFailed, FindRollback, SendRollback, RollbackTo

\* What a step can do to the rollbacks and the agent.
LEMMA RollbacksStep ==
    ASSUME Types, Next
    PROVE  failing' \subseteq Failing(Len(versions')) /\ runs' \in Revision
<1>1. failing \subseteq Failing(Len(versions)) /\ runs \in Revision
  BY DEF Types
<1>2. Failing(Len(versions)) \subseteq Failing(Len(versions')) /\ Len(versions) \in Nat
  BY VersionsStep, Wider DEF Types
<1>3. ASSUME NEW s \in Stream, MarkFailed(s)
      PROVE  failing' \subseteq Failing(Len(versions)) /\ runs' = runs
  <2>1. Head(results[s]).ver \in 0..Len(versions) /\ Head(results[s]).ver # 0
    BY <1>3, Heads DEF MarkFailed, Dropped, Answer
  <2>2. [ver |-> Head(results[s]).ver, target |-> 0] \in Failing(Len(versions))
    BY <1>2, <2>1 DEF Failing
  <2>3. QED BY <1>1, <1>3, <2>2 DEF MarkFailed
<1>4. ASSUME NEW f \in failing, FindRollback(f)
      PROVE  failing' \subseteq Failing(Len(versions)) /\ runs' = runs
  <2>1. LastApplied \in 0..Len(versions)
    BY LastIsLastOf, LastOfIs DEF Types
  <2>2. [f EXCEPT !.target = LastApplied] \in Failing(Len(versions))
    BY <1>1, <2>1 DEF Failing
  <2>3. QED BY <1>1, <1>4, <2>2 DEF FindRollback
<1>5. ASSUME NEW f \in failing, SendRollback(f)
      PROVE  failing' \subseteq failing /\ runs' = runs
  BY <1>5 DEF SendRollback
<1>6. ASSUME NEW s \in Stream, Try(s)
      PROVE  failing' = failing /\ runs' \in Revision
  BY <1>1, <1>6, Heads DEF Try, Parcel
<1>7. ASSUME NEW p \in Task, PushStep(p)
      PROVE  UNCHANGED <<failing, runs>>
  BY <1>7 DEF PushStep, PushRead, PushSnapshot, PushVersion, PushMark, PushWrite
<1>8. QED
  BY <1>1, <1>2, <1>3, <1>4, <1>5, <1>6, <1>7
     DEF Next, Panel, EditRows, Connect, Drop, Refuse, HealthCheck, Register, StartPush, End,
         ResultIgnored, MarkApplied, RollbackTo

LEMMA HistoryStep ==
    ASSUME Types, Next
    PROVE  muddled' \in BOOLEAN /\ overlapped' \in BOOLEAN
<1>1. muddled \in BOOLEAN /\ overlapped \in BOOLEAN
  BY DEF Types
<1>3. ASSUME NEW s \in Stream, Connect(s)
      PROVE  muddled' = muddled /\ overlapped' \in BOOLEAN
  <2>1. muddled' = muddled
    BY <1>3 DEF Connect
  <2>2. overlapped' \in BOOLEAN
    BY <1>3, Zenon DEF Connect
  <2>3. QED BY <2>1, <2>2
<1>4. ASSUME NEW s \in Stream, Drop(s)
      PROVE  muddled' \in BOOLEAN
  BY <1>4, Zenon DEF Drop
<1>5. ASSUME HealthCheck
      PROVE  muddled' \in BOOLEAN
  BY <1>5, Zenon DEF HealthCheck
<1>6. ASSUME NEW s \in Stream, StartPush(s)
      PROVE  muddled' \in BOOLEAN
  <2>1. CASE conn = NoStream
    BY <1>1, <1>6, <2>1, Zenon DEF StartPush
  <2>2. CASE conn # NoStream
    BY <1>6, <2>2, Zenon DEF StartPush
  <2>3. QED BY <2>1, <2>2
<1>7. ASSUME NEW p \in Task, PushSnapshot(p)
      PROVE  muddled' \in BOOLEAN
  BY <1>7, Zenon DEF PushSnapshot
<1>8. ASSUME NEW s \in Stream, ResultIgnored(s) \/ MarkFailed(s)
      PROVE  muddled' \in BOOLEAN
  <2>1. CASE ResultIgnored(s)
    BY <2>1, Zenon DEF ResultIgnored
  <2>2. CASE MarkFailed(s)
    BY <2>2, Zenon DEF MarkFailed
  <2>3. QED BY <1>8, <2>1, <2>2
<1>9. ASSUME NEW m \in Manual, NEW v \in Number, RollbackTo(m, v)
      PROVE  muddled' \in BOOLEAN
  BY <1>9, Zenon DEF RollbackTo
<1>10. muddled' \in BOOLEAN
  BY <1>1, <1>3, <1>4, <1>5, <1>6, <1>7, <1>8, <1>9, Sending
     DEF Next, Panel, PushStep, EditRows, Try, Refuse, Register, End, PushRead, PushVersion,
         PushMark, MarkApplied, FindRollback, Number
<1>11. overlapped' \in BOOLEAN
  BY <1>1, <1>3
     DEF Next, Panel, PushStep, EditRows, Drop, Try, Refuse, HealthCheck, Register, StartPush,
         End, PushRead, PushSnapshot, PushVersion, PushMark, PushWrite, ResultIgnored,
         MarkApplied, MarkFailed, FindRollback, SendRollback, RollbackTo
<1>12. QED BY <1>10, <1>11

LEMMA TypesStep ==
    ASSUME Types, Next
    PROVE  Types'
<1>1. \A p \in Task : /\ push'[p].pc # "idle" => push'[p].to \in Stream
                      /\ push'[p].pc \in Before => push'[p].ver = 0
                      /\ push'[p].pc = "mark" => push'[p].ver # 0
  BY PushTyped DEF Sound
<1>2. QED BY <1>1, VersionsStep, BoxesTyped, PushTyped, StreamsStep, RollbacksStep, HistoryStep
          DEF Types
-----------------------------------------------------------------------------
(* Registrations and pushes.                                               *)

\* A stream of which only the side changes, or only the registration.
Side(s, side) == /\ strm'[s].side = side /\ strm'[s].reg = strm[s].reg
                 /\ \A t \in Stream : t # s => strm'[t] = strm[t]
Reg(s, reg) == /\ strm'[s].reg = reg /\ strm'[s].side = strm[s].side
               /\ \A t \in Stream : t # s => strm'[t] = strm[t]

LEMMA SideReg ==
    ASSUME Types, NEW s \in Stream, NEW x
    PROVE  /\ strm' = [strm EXCEPT ![s].side = x] => Side(s, x)
           /\ SetReg(s, x) => Reg(s, x)
BY DEF Types, StreamState, Side, Reg, SetReg

\* What each step does to the streams, the registry and the pushes.
StreamMoves ==
    \/ UNCHANGED <<strm, conn, push, overlapped>>
    \/ \E s \in Stream :
          \/ Connect(s) /\ UNCHANGED <<conn, push>>
          \/ /\ Drop(s) /\ strm[s].side = "open" /\ Side(s, "dropped")
             /\ UNCHANGED <<conn, push, overlapped>>
          \/ /\ Refuse(s) /\ UNCHANGED <<conn, push, overlapped>>
          \/ /\ Register(s) /\ strm[s].reg = "lookup" /\ Reg(s, "stored") /\ conn' = s
             /\ UNCHANGED <<push, overlapped>>
          \/ /\ StartPush(s) /\ strm[s].reg = "stored" /\ UNCHANGED <<conn, overlapped>>
             /\ \/ conn = NoStream /\ Reg(s, "known") /\ UNCHANGED push
                \/ /\ conn # NoStream /\ Reg(s, "pushing")
                   /\ PutTo(s, [pc |-> "read", to |-> conn, cfg |-> 0, snap |-> 0, ver |-> 0])
          \/ /\ End(s) /\ strm[s].side = "dropped" /\ Side(s, "ended")
             /\ conn' = (IF strm[s].reg = "known" THEN NoStream ELSE conn)
             /\ UNCHANGED <<push, overlapped>>
    \/ /\ HealthCheck /\ conn \in Stream /\ Side(conn, "ended") /\ conn' = NoStream
       /\ UNCHANGED <<push, overlapped>>
    \/ \E p \in Task :
          /\ PushStep(p) /\ UNCHANGED <<conn, overlapped>>
          /\ push[p].pc # "idle"
          /\ \/ strm' = strm /\ \E q : PutTo(p, q) /\ q.pc # "idle"
             \/ PutTo(p, NoPush) /\ p \in Stream /\ Reg(p, "known")
             \/ PutTo(p, NoPush) /\ p \notin Stream /\ strm' = strm
    \/ \E m \in Manual, v \in Number :
          /\ RollbackTo(m, v) /\ UNCHANGED <<strm, conn, overlapped>>
          /\ \/ push' = push
             \/ PutTo(m, [pc |-> "read", to |-> conn, cfg |-> 0, snap |-> 0, ver |-> 0])

LEMMA StreamMoving ==
    ASSUME Types, Next
    PROVE  StreamMoves
<1> USE DEF StreamMoves
<1>1. ASSUME NEW s \in Stream, Connect(s) \/ Drop(s) \/ Refuse(s) \/ Register(s) \/ End(s)
      PROVE  StreamMoves
  BY <1>1, SideReg DEF Connect, Drop, Refuse, Register, End
<1>2. ASSUME NEW s \in Stream, StartPush(s)
      PROVE  StreamMoves
  <2>1. strm[s].reg = "stored" /\ UNCHANGED <<conn, overlapped>>
    BY <1>2 DEF StartPush
  <2>2. CASE conn = NoStream
    BY <1>2, <2>1, <2>2, SideReg DEF StartPush
  <2>3. CASE conn # NoStream
    <3>1. Reg(s, "pushing") /\ s \in Task
      BY <1>2, <2>3, SideReg DEF StartPush, Task
    <3>2. PutTo(s, [pc |-> "read", to |-> conn, cfg |-> 0, snap |-> 0, ver |-> 0])
      BY <1>2, <2>3, <3>1, Beginning DEF StartPush
    <3>3. QED BY <1>2, <2>1, <2>3, <3>1, <3>2
  <2>4. QED BY <2>2, <2>3
<1>3. CASE HealthCheck
  <2>1. conn \in Stream
    BY <1>3 DEF HealthCheck, Types
  <2>2. QED BY <1>3, <2>1, SideReg DEF HealthCheck, TimedOut
<1>4. ASSUME NEW p \in Task, PushStep(p)
      PROVE  StreamMoves
  <2>1. UNCHANGED <<conn, overlapped>> /\ push[p].pc # "idle"
    BY <1>4 DEF PushStep, PushRead, PushSnapshot, PushVersion, PushMark, PushWrite
  <2>2. CASE Returns(p)
    <3>1. PutTo(p, NoPush)
      BY <2>2, VersionsStep, NoPushTyped, Putting DEF Returns
    <3>2. QED BY <1>4, <2>1, <2>2, <3>1, SideReg DEF Returns
  <2>3. CASE ~Returns(p)
    <3>1. strm' = strm
      BY <1>4, <2>3 DEF PushStep, PushRead, PushSnapshot, PushVersion, PushMark, PushWrite
    <3>2. CASE PushRead(p)
      <4>1. push' = [push EXCEPT ![p].pc = "create", ![p].cfg = rows]
        BY <2>3, <3>2 DEF PushRead
      <4>2. Fields("create", rows)
        BY DEF Fields, Types
      <4>3. PutTo(p, [pc |-> "create", to |-> push[p].to, cfg |-> rows,
                      snap |-> push[p].snap, ver |-> push[p].ver])
        BY <4>1, <4>2, PutCfg
      <4>4. QED BY <1>4, <2>1, <3>1, <4>3
    <3>3. CASE PushSnapshot(p)
      <4> DEFINE pc == IF Versioned(rows) THEN "version" ELSE "write"
      <4>1. PutTo(p, [pc |-> pc, to |-> push[p].to,
                      cfg |-> push[p].cfg, snap |-> rows, ver |-> push[p].ver])
        BY <3>3, PushMoves
      <4>2. pc # "idle"
        OBVIOUS
      <4> HIDE DEF pc
      <4>3. QED BY <1>4, <2>1, <3>1, <4>1, <4>2
    <3>4. CASE PushVersion(p)
      <4>1. PICK v : PutTo(p, [pc |-> "mark", to |-> push[p].to, cfg |-> push[p].cfg,
                               snap |-> 0, ver |-> v])
        BY <3>4, PushMoves
      <4>2. QED BY <1>4, <2>1, <3>1, <4>1
    <3>5. CASE PushMark(p)
      <4>1. PutTo(p, [pc |-> "write", to |-> push[p].to, cfg |-> push[p].cfg,
                      snap |-> push[p].snap, ver |-> push[p].ver])
        BY <3>5, PushMoves
      <4>2. QED BY <1>4, <2>1, <3>1, <4>1
    <3>6. QED BY <1>4, <2>3, <3>2, <3>3, <3>4, <3>5 DEF PushStep, PushWrite
  <2>4. QED BY <2>2, <2>3
<1>5. ASSUME NEW m \in Manual, NEW v \in Number, RollbackTo(m, v)
      PROVE  StreamMoves
  <2>1. UNCHANGED <<strm, conn, overlapped>> /\ m \in Task
    BY <1>5 DEF RollbackTo, Task
  <2>2. CASE conn = NoStream
    BY <1>5, <2>1, <2>2 DEF RollbackTo
  <2>3. CASE conn # NoStream
    <3>1. PutTo(m, [pc |-> "read", to |-> conn, cfg |-> 0, snap |-> 0, ver |-> 0])
      BY <1>5, <2>1, <2>3, Beginning DEF RollbackTo
    <3>2. QED BY <1>5, <2>1, <3>1
  <2>4. QED BY <2>2, <2>3
<1>6. QED
  BY <1>1, <1>2, <1>3, <1>4, <1>5
     DEF Next, Panel, EditRows, Try, ResultIgnored, MarkApplied, MarkFailed, FindRollback,
         SendRollback, Number

LEMMA WaitingStep ==
    ASSUME Types, Waiting, Next
    PROVE  Waiting'
<1> DEFINE W(st, pu) == \A s \in Stream : /\ pu[s].pc # "idle" <=> st[s].reg = "pushing"
                                          /\ st[s].side = "new" => st[s].reg = "no"
<1>1. W(strm, push) /\ (W(strm', push') => Waiting')
  BY DEF Waiting, Idle
<1>2. strm \in [Stream -> StreamState] /\ Stream \subseteq Task /\ NoPush.pc = "idle"
  BY DEF Types, Task, NoPush
<1>3. \A m \in Manual : m \notin Stream
  BY ManualAssumption
<1>4. CASE UNCHANGED <<strm, conn, push, overlapped>>
  BY <1>1, <1>4
<1>5. ASSUME NEW s \in Stream,
             UNCHANGED push /\ strm' = [strm EXCEPT ![s] = strm'[s]], push[s].pc = "idle",
             strm'[s].reg # "pushing", strm'[s].side = "new" => strm'[s].reg = "no"
      PROVE  W(strm', push')
  BY <1>1, <1>2, <1>5
<1>6. ASSUME NEW s \in Stream, Connect(s) \/ Refuse(s), UNCHANGED push
      PROVE  W(strm', push')
  BY <1>1, <1>2, <1>6 DEF Connect, Refuse
<1>7. ASSUME NEW s \in Stream, NEW side \in {"dropped", "ended"}, Side(s, side), UNCHANGED push
      PROVE  W(strm', push')
  BY <1>1, <1>7 DEF Side
<1>8. ASSUME NEW s \in Stream, NEW reg \in {"stored", "known"}, Reg(s, reg), UNCHANGED push,
             strm[s].reg \in {"lookup", "stored"}
      PROVE  W(strm', push')
  BY <1>1, <1>8 DEF Reg
<1>9. ASSUME NEW s \in Stream, NEW q, Reg(s, "pushing"), PutTo(s, q), q.pc # "idle",
             strm[s].reg = "stored"
      PROVE  W(strm', push')
  BY <1>1, <1>2, <1>9 DEF Reg, PutTo
<1>10. ASSUME NEW p \in Task, push[p].pc # "idle",
              \/ strm' = strm /\ \E q : PutTo(p, q) /\ q.pc # "idle"
              \/ PutTo(p, NoPush) /\ p \in Stream /\ Reg(p, "known")
              \/ PutTo(p, NoPush) /\ p \notin Stream /\ strm' = strm
       PROVE  W(strm', push')
  <2>1. CASE strm' = strm /\ \E q : PutTo(p, q) /\ q.pc # "idle"
    BY <1>1, <1>2, <1>10, <2>1 DEF PutTo
  <2>2. CASE PutTo(p, NoPush) /\ p \in Stream /\ Reg(p, "known")
    BY <1>1, <1>2, <1>10, <2>2 DEF PutTo, Reg
  <2>3. CASE PutTo(p, NoPush) /\ p \notin Stream /\ strm' = strm
    BY <1>1, <1>2, <2>3 DEF PutTo
  <2>4. QED BY <1>10, <2>1, <2>2, <2>3
<1>11. ASSUME NEW m \in Manual, NEW q, strm' = strm, PutTo(m, q)
       PROVE  W(strm', push')
  BY <1>1, <1>2, <1>3, <1>11 DEF PutTo
<1> HIDE DEF W
<1>12. QED
  <2>1. ASSUME NEW s \in Stream, StartPush(s), strm[s].reg = "stored",
               \/ conn = NoStream /\ Reg(s, "known") /\ UNCHANGED push
               \/ /\ conn # NoStream /\ Reg(s, "pushing")
                  /\ PutTo(s, [pc |-> "read", to |-> conn, cfg |-> 0, snap |-> 0, ver |-> 0])
        PROVE  W(strm', push')
    BY <2>1, <1>8, <1>9
  <2>2. CASE \E s \in Stream :
               \/ Connect(s) /\ UNCHANGED <<conn, push>>
               \/ Refuse(s) /\ UNCHANGED <<conn, push, overlapped>>
    BY <1>1, <2>2, <1>6
  <2>3. CASE \E s \in Stream : (Side(s, "dropped") \/ Side(s, "ended")) /\ UNCHANGED push
    BY <1>1, <2>3, <1>7
  <2>4. CASE \E s \in Stream : strm[s].reg = "lookup" /\ Reg(s, "stored") /\ UNCHANGED push
    BY <1>1, <2>4, <1>8
  <2>5. CASE \E m \in Manual, v \in Number :
               /\ RollbackTo(m, v) /\ UNCHANGED <<strm, conn, overlapped>>
               /\ \/ push' = push
                  \/ PutTo(m, [pc |-> "read", to |-> conn, cfg |-> 0, snap |-> 0, ver |-> 0])
    <3>1. PICK m \in Manual : \/ UNCHANGED <<strm, conn, push, overlapped>>
                              \/ strm' = strm /\ \E q : PutTo(m, q)
      BY <2>5
    <3>2. QED BY <1>1, <3>1, <1>4, <1>11
  <2>6. QED BY <1>1, StreamMoving, <1>4, <1>10, <2>1, <2>2, <2>3, <2>4, <2>5 DEF StreamMoves

LEMMA AloneStep ==
    ASSUME Types, Waiting, Alone, Next
    PROVE  Alone'
<1> DEFINE At(st, c, s) == st[s].side = "open" /\ st[s].reg \in {"stored", "pushing", "known"} => c = s
<1> DEFINE Lives(x) == x.side \in {"open", "dropped"} \/ x.reg \in {"lookup", "stored", "pushing"}
<1> SUFFICES ASSUME ~overlapped'
             PROVE  /\ \A s, t \in Stream : Lives(strm'[s]) /\ Lives(strm'[t]) => s = t
                    /\ \A s \in Stream : At(strm', conn', s)
  BY DEF Alone, Live
<1>1. strm \in [Stream -> StreamState] /\ conn \in Stream \cup {NoStream} /\ NoStream \notin Stream
  BY StreamAssumption DEF Types
<1>2. ~overlapped
  BY StreamMoving DEF StreamMoves, Connect
<1>3. /\ \A s, t \in Stream : Lives(strm[s]) /\ Lives(strm[t]) => s = t
      /\ \A s \in Stream : At(strm, conn, s)
  BY <1>2 DEF Alone, Live
<1>4. ASSUME NEW s \in Stream, Connect(s), UNCHANGED conn
      PROVE  /\ \A r, t \in Stream : Lives(strm'[r]) /\ Lives(strm'[t]) => r = t
             /\ \A t \in Stream : At(strm', conn', t)
  <2>1. \A t \in Stream : ~Lives(strm[t])
    <3>1. ~ \E t \in Stream : strm[t].side = "dropped" \/ strm[t].reg \in {"lookup", "stored", "pushing"}
      BY <1>4 DEF Connect
    <3>2. QED BY <1>4, <3>1 DEF Connect
  <2>2. \A t \in Stream : t # s => strm'[t] = strm[t]
    BY <1>1, <1>4 DEF Connect
  <2>3. strm'[s] = [side |-> "open", reg |-> "lookup"]
    BY <1>1, <1>4 DEF Connect
  <2>4. QED BY <1>3, <1>4, <2>1, <2>2, <2>3
\* A step of one stream that leaves the others as they were.
<1>5. ASSUME NEW s \in Stream, \A t \in Stream : t # s => strm'[t] = strm[t],
             Lives(strm'[s]) => Lives(strm[s]), conn' = conn \/ conn = s \/ Lives(strm[s]),
             At(strm', conn', s)
      PROVE  /\ \A r, t \in Stream : Lives(strm'[r]) /\ Lives(strm'[t]) => r = t
             /\ \A t \in Stream : At(strm', conn', t)
  <2>1. \A t \in Stream : Lives(strm'[t]) => Lives(strm[t])
    BY <1>5
  <2>2. ASSUME NEW t \in Stream, strm'[t].side = "open", strm'[t].reg \in {"stored", "pushing", "known"}
        PROVE  conn' = t
    <3>1. CASE t = s
      BY <1>5, <2>2, <3>1
    <3>2. CASE t # s
      <4>1. conn = t /\ Lives(strm[t])
        BY <1>3, <1>5, <2>2, <3>2
      <4>2. conn # s /\ ~Lives(strm[s])
        BY <1>3, <3>2, <4>1
      <4>3. QED BY <1>5, <4>1, <4>2
    <3>3. QED BY <3>1, <3>2
  <2>3. QED BY <1>3, <2>1, <2>2
<1>6. ASSUME NEW s \in Stream, Drop(s) \/ Refuse(s) \/ Register(s) \/ StartPush(s) \/ End(s)
      PROVE  /\ \A r, t \in Stream : Lives(strm'[r]) /\ Lives(strm'[t]) => r = t
             /\ \A t \in Stream : At(strm', conn', t)
  <2>1. \A t \in Stream : t # s => strm'[t] = strm[t]
    BY <1>1, <1>6 DEF Drop, Refuse, Register, StartPush, End, SetReg
  <2>2. CASE Drop(s)
    BY <1>1, <1>5, <2>1, <2>2, SideReg DEF Drop, Side
  <2>3. CASE Refuse(s)
    BY <1>1, <1>5, <2>1, <2>3 DEF Refuse
  <2>4. CASE Register(s)
    BY <1>1, <1>5, <2>1, <2>4, SideReg DEF Register, Reg
  <2>5. CASE StartPush(s)
    <3>1. strm[s].reg = "stored" /\ strm'[s].side = strm[s].side /\ conn' = conn
      BY <2>5, SideReg DEF StartPush, Reg
    <3>2. At(strm', conn', s)
      BY <1>3, <3>1
    <3>3. QED BY <1>5, <2>1, <3>1, <3>2
  <2>6. CASE End(s)
    BY <1>1, <1>5, <2>1, <2>6, SideReg DEF End, Side
  <2>7. QED BY <1>6, <2>2, <2>3, <2>4, <2>5, <2>6
<1>7. ASSUME HealthCheck
      PROVE  /\ \A r, t \in Stream : Lives(strm'[r]) /\ Lives(strm'[t]) => r = t
             /\ \A t \in Stream : At(strm', conn', t)
  <2>1. conn \in Stream
    BY <1>1, <1>7 DEF HealthCheck
  <2>2. Side(conn, "ended")
    BY <1>7, <2>1, SideReg DEF HealthCheck, TimedOut
  <2>3. QED BY <1>1, <1>5, <2>1, <2>2 DEF Side
<1>8. ASSUME NEW p \in Task, conn' = conn, push[p].pc # "idle",
             \/ strm' = strm
             \/ p \in Stream /\ Reg(p, "known")
      PROVE  /\ \A r, t \in Stream : Lives(strm'[r]) /\ Lives(strm'[t]) => r = t
             /\ \A t \in Stream : At(strm', conn', t)
  <2>1. CASE strm' = strm
    BY <1>3, <1>8, <2>1
  <2>2. CASE p \in Stream /\ Reg(p, "known")
    <3>1. strm[p].reg = "pushing"
      BY <1>8, <2>2 DEF Waiting, Idle
    <3>2. At(strm', conn', p)
      BY <1>3, <1>8, <2>2, <3>1 DEF Reg
    <3>3. QED BY <1>5, <1>8, <2>2, <3>1, <3>2 DEF Reg
  <2>3. QED BY <1>8, <2>1, <2>2
<1>9. CASE UNCHANGED <<strm, conn>>
  BY <1>3, <1>9
<1>10. QED
  <2>1. \/ UNCHANGED <<strm, conn>>
        \/ \E s \in Stream : Connect(s) /\ UNCHANGED conn
        \/ \E s \in Stream : Drop(s) \/ Refuse(s) \/ Register(s) \/ StartPush(s) \/ End(s)
        \/ HealthCheck
        \/ \E p \in Task : /\ conn' = conn /\ push[p].pc # "idle"
                           /\ strm' = strm \/ (p \in Stream /\ Reg(p, "known"))
    BY StreamMoving DEF StreamMoves
  <2>2. QED BY <1>4, <1>6, <1>7, <1>8, <1>9, <2>1
-----------------------------------------------------------------------------
(* The number of version rows.                                             *)

Finite(n) == Cardinality(n) \in Nat /\ IsFiniteSet(n)

LEMMA OwedFinite == Finite(Owed)
<1>1. IsFiniteSet(Stream \cup Manual)
  BY StreamAssumption, ManualAssumption, FS_Union
<1>2. Owed \subseteq Stream \cup Manual
  BY DEF Owed
<1>3. QED BY <1>1, <1>2, FS_Subset, FS_CardinalityType DEF Finite

LEMMA RollbacksFinite ==
    ASSUME Types
    PROVE  Finite(Rollbacks)
<1>1. Len(versions) \in Nat /\ Rollbacks \subseteq 1..Len(versions)
  BY DEF Types, Rollbacks, Number
<1>2. IsFiniteSet(1..Len(versions))
  BY <1>1, FS_Interval
<1>3. QED BY <1>1, <1>2, FS_Subset, FS_CardinalityType DEF Finite

\* A step that only goes on with a push.
LEMMA OwedPush ==
    ASSUME Types, Waiting, NEW p \in Task, NEW q, PutTo(p, q), strm' = strm
    PROVE  /\ push[p].pc \in Before \/ q.pc \notin Before => Owed' \subseteq Owed
           /\ push[p].pc \in Before => p \in Owed
           /\ push[p].pc \in Before /\ q.pc \notin Before => p \notin Owed'
<1>1. \A r \in Task : r # p => push'[r] = push[r]
  BY DEF PutTo
<1>2. push'[p] = q /\ Stream \subseteq Task /\ Manual \subseteq Task /\ p \in Stream \cup Manual
  BY DEF PutTo, Task
<1>3. push[p].pc \in Before => /\ push[p].pc # "idle"
                               /\ p \in Stream => strm[p].reg = "pushing"
  BY DEF Waiting, Idle, Before
<1>4. push[p].pc \in Before => p \in Owed
  BY <1>2 DEF Owed
<1>5. push[p].pc \in Before /\ q.pc \notin Before => p \notin Owed'
  BY <1>2, <1>3 DEF Owed
<1>6. Owed' \subseteq Owed \cup {p}
  BY <1>1, <1>2 DEF Owed
<1>7. q.pc \notin Before /\ push[p].pc \notin Before => Owed' \subseteq Owed
  BY <1>1, <1>2 DEF Owed
<1>8. QED BY <1>4, <1>5, <1>6, <1>7

LEMMA OwedStep ==
    ASSUME Types, Waiting, Next
    PROVE  /\ (\A m \in Manual, v \in Number : ~RollbackTo(m, v)) => Owed' \subseteq Owed
           /\ \A m \in Manual, v \in Number : RollbackTo(m, v) => Owed' \subseteq Owed \cup {m}
<1>1. /\ strm \in [Stream -> StreamState] /\ Stream \subseteq Task /\ Manual \subseteq Task
      /\ NoPush.pc \notin Before
  BY DEF Types, Task, NoPush, Before
<1>2. CASE UNCHANGED <<strm, conn, push, overlapped>>
  BY <1>2 DEF Owed
<1>3. ASSUME NEW s \in Stream, UNCHANGED push, \A t \in Stream : t # s => strm'[t] = strm[t],
             \/ strm[s].reg \in {"no", "lookup", "stored"}
             \/ strm'[s].reg = strm[s].reg
      PROVE  Owed' \subseteq Owed
  BY <1>3 DEF Owed
<1>4. ASSUME NEW s \in Stream, Connect(s) \/ Refuse(s), UNCHANGED push
      PROVE  Owed' \subseteq Owed
  <2>1. strm[s].reg \in {"no", "lookup"} /\ \A t \in Stream : t # s => strm'[t] = strm[t]
    BY <1>1, <1>4 DEF Connect, Refuse, Waiting
  <2>2. QED BY <1>3, <1>4, <2>1
<1>5. ASSUME NEW s \in Stream, strm[s].reg = "stored",
             \/ Reg(s, "known") /\ UNCHANGED push
             \/ Reg(s, "pushing") /\ \E q : PutTo(s, q)
      PROVE  Owed' \subseteq Owed
  <2>1. \A t \in Stream \cup Manual : t # s => push'[t] = push[t]
    BY <1>5 DEF PutTo, Task
  <2>2. \A t \in Stream : t # s => strm'[t] = strm[t]
    BY <1>5 DEF Reg
  <2>3. s \in Owed
    BY <1>5 DEF Owed
  <2>4. QED BY <2>1, <2>2, <2>3 DEF Owed
<1>6. ASSUME NEW p \in Task, PutTo(p, NoPush), p \in Stream, Reg(p, "known")
      PROVE  Owed' \subseteq Owed
  <2>1. \A t \in Stream \cup Manual : t # p => push'[t] = push[t]
    BY <1>6 DEF PutTo, Task
  <2>2. \A t \in Stream : t # p => strm'[t] = strm[t]
    BY <1>6 DEF Reg
  <2>3. push'[p] = NoPush /\ strm'[p].reg = "known" /\ p \notin Manual
    BY <1>6, ManualAssumption DEF PutTo, Reg
  <2>4. QED BY <1>1, <2>1, <2>2, <2>3 DEF Owed
<1>7. ASSUME NEW p \in Task, PushStep(p), strm' = strm
      PROVE  Owed' \subseteq Owed
  <2>1. ASSUME NEW q, PutTo(p, q), push[p].pc \in Before \/ q.pc \notin Before
        PROVE  Owed' \subseteq Owed
    BY <1>7, <2>1, OwedPush
  <2>2. CASE PushRead(p) \/ PushSnapshot(p)
    <3>1. push[p].pc \in Before /\ \E q : PutTo(p, q)
      BY <2>2, PushMoves DEF PushRead, PushSnapshot, Before
    <3>2. QED BY <2>1, <3>1
  <2>3. CASE PushVersion(p) \/ PushMark(p) \/ PushWrite(p)
    <3>1. \E q : PutTo(p, q) /\ q.pc \notin Before
      <4>1. CASE PushVersion(p)
        <5>1. PICK v : PutTo(p, [pc |-> "mark", to |-> push[p].to, cfg |-> push[p].cfg,
                                 snap |-> 0, ver |-> v])
          BY <4>1, PushMoves
        <5>2. "mark" \notin Before
          BY DEF Before
        <5>3. QED BY <5>1, <5>2
      <4>2. CASE PushMark(p)
        <5>1. PutTo(p, [pc |-> "write", to |-> push[p].to, cfg |-> push[p].cfg,
                        snap |-> push[p].snap, ver |-> push[p].ver])
          BY <4>2, PushMoves
        <5>2. "write" \notin Before
          BY DEF Before
        <5>3. QED BY <5>1, <5>2
      <4>3. CASE PushWrite(p)
        BY <1>1, <4>3, PushMoves
      <4>4. QED BY <2>3, <4>1, <4>2, <4>3
    <3>2. QED BY <2>1, <3>1
  <2>4. QED BY <1>7, <2>2, <2>3 DEF PushStep
<1>8. ASSUME NEW m \in Manual, NEW v \in Number, RollbackTo(m, v)
      PROVE  Owed' \subseteq Owed \cup {m}
  <2>1. strm' = strm /\ \A t \in Stream \cup Manual : t # m => push'[t] = push[t]
    <3>1. strm' = strm /\ (push' = push \/ push' = [push EXCEPT ![m] = push'[m]])
      BY <1>8 DEF RollbackTo, Types
    <3>2. push \in [Stream \cup Manual -> Pushing(Len(versions))]
      BY DEF Types, Task
    <3>3. QED BY <3>1, <3>2
  <2>2. QED BY <2>1 DEF Owed
<1>9. ASSUME NEW s \in Stream, Side(s, "dropped") \/ Side(s, "ended"), UNCHANGED push
      PROVE  Owed' \subseteq Owed
  BY <1>3, <1>9 DEF Side
<1>10. ASSUME NEW s \in Stream, strm[s].reg = "lookup", Reg(s, "stored"), UNCHANGED push
      PROVE  Owed' \subseteq Owed
  BY <1>3, <1>10 DEF Reg
<1>11. \/ Owed' \subseteq Owed
       \/ \E m \in Manual, v \in Number : RollbackTo(m, v)
  BY StreamMoving, <1>2, <1>4, <1>5, <1>6, <1>7, <1>9, <1>10 DEF StreamMoves
<1>12. QED BY <1>8, <1>11

LEMMA RollbacksMarked ==
    ASSUME Types, NEW v \in Number, Marks(v)
    PROVE  Len(versions') = Len(versions) /\ Rollbacks' = Rollbacks
<1>1. PICK status : versions' = [versions EXCEPT ![v].status = status]
  BY DEF Marks, SetStatus
<1>2. versions \in Seq(Version) /\ v \in 1..Len(versions)
  BY DEF Types, Number
<1>3. DOMAIN versions' = DOMAIN versions /\ Len(versions') = Len(versions)
  BY <1>1, <1>2
<1>4. \A w \in DOMAIN versions : versions'[w].rollback = versions[w].rollback
  BY <1>1, <1>2 DEF Version
<1>5. QED BY <1>3, <1>4 DEF Rollbacks, Number

LEMMA RollbacksAdded ==
    ASSUME Types, NEW cfg, NEW rollback,
           versions' = Append(versions, [cfg |-> cfg, rollback |-> rollback, status |-> "pending"])
    PROVE  /\ Len(versions') = Len(versions) + 1
           /\ ~rollback => Rollbacks' = Rollbacks
           /\ rollback => Rollbacks' = Rollbacks \cup {Len(versions) + 1}
           /\ Len(versions) + 1 \notin Rollbacks
<1>1. versions \in Seq(Version) /\ Len(versions) \in Nat
  BY DEF Types
<1>2. /\ Len(versions') = Len(versions) + 1 /\ DOMAIN versions' = 1..Len(versions) + 1
      /\ DOMAIN versions = 1..Len(versions) /\ versions'[Len(versions) + 1].rollback = rollback
      /\ \A w \in 1..Len(versions) : versions'[w] = versions[w]
  BY <1>1
<1>3. QED BY <1>1, <1>2 DEF Rollbacks, Number

\* What the versions, the owed ones and the rollbacks add up to, step by step.
LEMMA Balance ==
    ASSUME NEW a \in Nat, NEW b \in Nat, NEW c \in Nat, NEW s \in Nat,
           a + b <= s + 2 * c,
           NEW a1 \in Nat, NEW b1 \in Nat, NEW c1 \in Nat,
           \/ a1 = a /\ b1 <= b /\ c1 = c
           \/ a1 = a + 1 /\ b1 <= b - 1 /\ c1 = c
           \/ a1 = a + 1 /\ b1 <= b + 1 /\ c1 = c + 1
    PROVE  a1 + b1 <= s + 2 * c1
OBVIOUS

LEMMA CountedStep ==
    ASSUME Types, Waiting, Counted, Next
    PROVE  Counted'
<1> DEFINE a == Len(versions)
           b == Cardinality(Owed)
           c == Cardinality(Rollbacks)
           S == Cardinality(Stream)
           Goal == /\ \/ a' = a /\ b' <= b /\ c' = c
                      \/ a' = a + 1 /\ b' <= b - 1 /\ c' = c
                      \/ a' = a + 1 /\ b' <= b + 1 /\ c' = c + 1
                   /\ c' <= Cardinality(Manual)
<1>1. a \in Nat /\ b \in Nat /\ c \in Nat /\ S \in Nat /\ Cardinality(Manual) \in Nat
  BY OwedFinite, RollbacksFinite, FS_CardinalityType, StreamAssumption, ManualAssumption
     DEF Types, Finite
<1>2. Types'
  BY TypesStep
<1>3. Finite(Owed)'
  BY OwedFinite, PTL
<1>4. Types => Finite(Rollbacks)
  BY RollbacksFinite
<1>5. a' \in Nat /\ b' \in Nat /\ Finite(Owed') /\ IsFiniteSet(Owed)
  BY <1>2, <1>3, OwedFinite DEF Types, Finite
<1>6. a + b <= S + 2 * c /\ c <= Cardinality(Manual)
  BY DEF Counted
<1>7. ASSUME Owed' \subseteq Owed
      PROVE  b' <= b
  BY <1>5, <1>7, FS_Subset
<1>8. ASSUME Owed' \subseteq Owed, a' = a, Rollbacks' = Rollbacks
      PROVE  Goal
  BY <1>6, <1>7, <1>8
<1>9. ASSUME NEW p \in Task, PushVersion(p)
      PROVE  Goal
  <2>1. PICK v : /\ PutTo(p, [pc |-> "mark", to |-> push[p].to, cfg |-> push[p].cfg,
                              snap |-> 0, ver |-> v])
                 /\ \/ versions' = versions
                    \/ versions' = Append(versions, [cfg |-> push[p].snap, rollback |-> FALSE,
                                                     status |-> "pending"])
    BY <1>9, PushMoves
  <2>2. push[p].pc \in Before /\ "mark" \notin Before /\ strm' = strm
    BY <1>9 DEF PushVersion, Before
  <2>3. Owed' \subseteq Owed /\ p \in Owed /\ p \notin Owed'
    BY <2>1, <2>2, OwedPush
  <2>4. CASE versions' = versions
    BY <1>8, <2>3, <2>4 DEF Rollbacks, Number
  <2>5. CASE versions' = Append(versions, [cfg |-> push[p].snap, rollback |-> FALSE,
                                           status |-> "pending"])
    <3>1. a' = a + 1 /\ Rollbacks' = Rollbacks
      BY <2>5, RollbacksAdded, Zenon
    <3>2. Owed' \subseteq Owed \ {p}
      BY <2>3
    <3>3. IsFiniteSet(Owed \ {p}) /\ Cardinality(Owed \ {p}) = b - 1
      BY <1>5, <2>3, FS_RemoveElement
    <3>4. b' <= b - 1
      BY <3>2, <3>3, FS_Subset
    <3>5. QED BY <1>6, <3>1, <3>4
  <2>6. QED BY <2>1, <2>4, <2>5
<1>10. ASSUME NEW m \in Manual, NEW v \in Number, RollbackTo(m, v)
       PROVE  Goal
  <2>1. versions' = Append(versions, [cfg |-> versions[v].cfg, rollback |-> TRUE, status |-> "pending"])
    BY <1>10 DEF RollbackTo
  <2>2. /\ a' = a + 1 /\ Rollbacks' = Rollbacks \cup {Len(versions) + 1}
        /\ Len(versions) + 1 \notin Rollbacks
    BY <2>1, RollbacksAdded, Zenon
  <2>3. c' = c + 1
    BY <2>2, RollbacksFinite, FS_AddElement DEF Finite
  <2>4. c < Cardinality(Manual)
    BY <1>10 DEF RollbackTo, Rollbacks, Number
  <2>5. Owed' \subseteq Owed \cup {m}
    BY <1>10, OwedStep
  <2>6. IsFiniteSet(Owed \cup {m}) /\ Cardinality(Owed \cup {m}) <= b + 1
    <3>1. /\ IsFiniteSet(Owed \cup {m})
          /\ Cardinality(Owed \cup {m}) = IF m \in Owed THEN b ELSE b + 1
      BY <1>5, FS_AddElement
    <3>2. QED BY <1>1, <3>1
  <2>7. b' <= Cardinality(Owed \cup {m})
    BY <2>5, <2>6, FS_Subset
  <2>8. Cardinality(Owed \cup {m}) \in Nat
    BY <2>6, FS_CardinalityType
  <2>9. b' <= b + 1
    BY <1>1, <1>5, <2>6, <2>7, <2>8
  <2>10. QED BY <1>1, <2>2, <2>3, <2>4, <2>9
<1>11. ASSUME versions' = versions \/ \E v \in Number : Marks(v)
       PROVE  Goal
  <2>1. a' = a /\ Rollbacks' = Rollbacks
    BY <1>11, RollbacksMarked DEF Rollbacks, Number
  <2>2. CASE \E m \in Manual, v \in Number : RollbackTo(m, v)
    BY <1>10, <2>2
  <2>3. CASE \A m \in Manual, v \in Number : ~RollbackTo(m, v)
    BY <1>8, <2>1, <2>3, OwedStep
  <2>4. QED BY <2>2, <2>3
<1>12. Goal
  BY <1>9, <1>10, <1>11, VersionsStep
<1>13. c' \in Nat
  BY <1>1, <1>12
<1>14. a' + b' <= S + 2 * c'
  <2>1. \/ a' = a /\ b' <= b /\ c' = c
        \/ a' = a + 1 /\ b' <= b - 1 /\ c' = c
        \/ a' = a + 1 /\ b' <= b + 1 /\ c' = c + 1
    BY <1>12
  <2> HIDE DEF a, b, c, S
  <2> QED BY <1>1, <1>5, <1>6, <1>13, <2>1, Balance
<1>15. QED BY <1>12, <1>14 DEF Counted
-----------------------------------------------------------------------------
(* The one piece of work.                                                  *)

Work == <<versions, push, inbox, results, failing, runs>>

\* What is at work tells which phase it is.
LEMMA Phases ==
    ASSUME OneWork, ~muddled
    PROVE  /\ Quiet => Knows
           /\ \A p \in Task : ~Idle(p) => AtPush(p)
           /\ \A s \in Stream : inbox[s] # <<>> =>
                 \E m \in Parcel(Len(versions)) : AtMessage(s, m)
           /\ \A s \in Stream : results[s] # <<>> =>
                 \E r \in Answer(Len(versions)) : AtResult(s, r)
           /\ \A f \in failing : AtFailure(f)
<1>1. CASE Quiet /\ Knows
  BY <1>1 DEF Quiet
<1>2. CASE \E p \in Task : AtPush(p)
  <2>1. PICK p \in Task : AtPush(p)
    BY <1>2
  <2>2. ~Quiet /\ \A q \in Task : ~Idle(q) => q = p
    BY <2>1 DEF AtPush, Quiet
  <2>3. Empty(inbox) /\ Empty(results) /\ failing = {}
    BY <2>1 DEF AtPush
  <2>4. QED BY <2>1, <2>2, <2>3 DEF Empty
<1>3. CASE \E s \in Stream : \E m \in Parcel(Len(versions)) : AtMessage(s, m)
  <2>1. PICK s \in Stream, m \in Parcel(Len(versions)) : AtMessage(s, m)
    BY <1>3
  <2>2. ~Quiet /\ \A t \in Stream : inbox[t] # <<>> => t = s
    BY <2>1 DEF AtMessage, Quiet, Holds
  <2>3. Resting /\ Empty(results) /\ failing = {}
    BY <2>1 DEF AtMessage
  <2>4. QED BY <2>1, <2>2, <2>3 DEF Empty, Resting
<1>4. CASE \E s \in Stream : \E r \in Answer(Len(versions)) : AtResult(s, r)
  <2>1. PICK s \in Stream, r \in Answer(Len(versions)) : AtResult(s, r)
    BY <1>4
  <2>2. ~Quiet /\ \A t \in Stream : results[t] # <<>> => t = s
    <3>1. results[s] = <<r>> /\ \A t \in Stream : t # s => results[t] = <<>>
      BY <2>1 DEF AtResult, Holds
    <3>2. results[s] # <<>>
      <4> HIDE DEF Answer
      <4>1. \A x : <<x>> # <<>>
        OBVIOUS
      <4>2. QED BY <3>1, <4>1, Zenon
    <3>3. QED BY <3>1, <3>2 DEF Quiet
  <2>3. Resting /\ Empty(inbox) /\ failing = {}
    BY <2>1 DEF AtResult
  <2>4. QED BY <2>1, <2>2, <2>3 DEF Empty, Resting
<1>5. CASE \E f \in Failing(Len(versions)) : AtFailure(f)
  <2>1. PICK f : AtFailure(f)
    BY <1>5
  <2>2. ~Quiet /\ Resting /\ Empty(inbox) /\ Empty(results) /\ failing = {f}
    BY <2>1 DEF AtFailure, Quiet
  <2>3. QED BY <2>1, <2>2 DEF Empty, Resting
<1>6. QED BY <1>1, <1>2, <1>3, <1>4, <1>5 DEF OneWork

LEMMA OneWorkKept ==
    ASSUME OneWork, UNCHANGED Work, UNCHANGED muddled
    PROVE  OneWork'
BY DEF Work, OneWork, Quiet, Idle, Knows, LastApplied, AtPush, AtMessage, AtResult, AtFailure,
       Resting, Empty, Holds, Newest, Number

\* Rows that keep their configuration, of which the same are applied.
LEMMA KnowsKept ==
    ASSUME Types, Types', Knows, runs' = runs, Applied(versions') = Applied(versions),
           \A v \in Number : versions'[v].cfg = versions[v].cfg
    PROVE  Knows'
<1>1. LastApplied' = LastOf(versions')
  BY DEF LastApplied, LastOf, Applied
<1>2. LastApplied = LastOf(versions) /\ versions \in Seq(Version) /\ versions' \in Seq(Version)
  BY LastIsLastOf DEF Types
<1>3. LastOf(versions') = LastOf(versions)
  BY <1>2, LastOfSame
<1>4. LastOf(versions) # 0 => LastOf(versions) \in Number
  BY <1>2, LastOfIs DEF Number
<1>5. QED BY <1>1, <1>2, <1>3, <1>4 DEF Knows

LEMMA AddedRow ==
    ASSUME Types, NEW cfg, NEW rollback, NEW n, n = Len(versions) + 1,
           versions' = Append(versions, [cfg |-> cfg, rollback |-> rollback, status |-> "pending"])
    PROVE  /\ Applied(versions') = Applied(versions)
           /\ \A v \in Number : versions'[v].cfg = versions[v].cfg
           /\ Newest(versions', n, cfg)
<1>1. versions \in Seq(Version) /\ Len(versions) \in Nat
  BY DEF Types
<1>2. /\ DOMAIN versions' = 1..Len(versions) + 1 /\ DOMAIN versions = 1..Len(versions)
      /\ versions'[Len(versions) + 1].cfg = cfg /\ versions'[Len(versions) + 1].status = "pending"
      /\ \A w \in 1..Len(versions) : versions'[w] = versions[w]
  BY <1>1
<1>3. Applied(versions') = Applied(versions)
  BY <1>1, <1>2 DEF Applied
<1>4. \A v \in Number : versions'[v].cfg = versions[v].cfg
  BY <1>2 DEF Number
<1>5. Newest(versions', n, cfg)
  BY <1>1, <1>2 DEF Newest, Number
<1>6. QED BY <1>3, <1>4, <1>5

LEMMA MarkedRow ==
    ASSUME Types, NEW v \in Number, NEW status, SetStatus(v, status)
    PROVE  /\ DOMAIN versions' = Number
           /\ \A w \in Number : versions'[w].cfg = versions[w].cfg
           /\ \A w \in Number : w # v => versions'[w].status = versions[w].status
           /\ versions'[v].status = status
<1>1. versions \in Seq(Version) /\ v \in 1..Len(versions)
  BY DEF Types, Number
<1>2. versions' = [versions EXCEPT ![v].status = status] /\ versions[v] \in Version
  BY <1>1 DEF SetStatus
<1>3. DOMAIN versions' = Number /\ \A w \in Number : w # v => versions'[w] = versions[w]
  BY <1>1, <1>2 DEF Number
<1>4. versions'[v] = [versions[v] EXCEPT !.status = status]
  BY <1>1, <1>2
<1>5. versions'[v].cfg = versions[v].cfg /\ versions'[v].status = status
  BY <1>2, <1>4 DEF Version
<1>6. QED BY <1>3, <1>5

\* A muddle stays.
LEMMA Unmuddled ==
    ASSUME Types, Next, ~muddled'
    PROVE  ~muddled
<1>1. ASSUME NEW s \in Stream, NEW cfg, NEW ver, Write(s, cfg, ver)
      PROVE  ~muddled
  <2>1. CASE strm[s].side = "open"
    BY <1>1, <2>1, Zenon DEF Write
  <2>2. CASE strm[s].side # "open"
    BY <1>1, <2>2, Zenon DEF Write
  <2>3. QED BY <2>1, <2>2
<1>2. ASSUME NEW f \in failing, SendRollback(f)
      PROVE  ~muddled
  <2>1. conn # NoStream
    BY <1>2, Zenon DEF SendRollback
  <2>2. conn \in Stream
    BY <2>1 DEF Types
  <2>3. QED BY <1>1, <1>2, <2>1, <2>2 DEF SendRollback
<1>3. ASSUME NEW p \in Task, PushStep(p)
      PROVE  ~muddled
  <2>1. CASE PushSnapshot(p)
    BY <2>1, Zenon DEF PushSnapshot
  <2>2. CASE PushWrite(p)
    BY <1>1, <2>2 DEF PushWrite, Types
  <2>3. QED BY <1>3, <2>1, <2>2 DEF PushStep, PushRead, PushVersion, PushMark
<1>4. ASSUME NEW s \in Stream, Drop(s) \/ ResultIgnored(s) \/ MarkFailed(s)
      PROVE  ~muddled
  BY <1>4, Zenon DEF Drop, ResultIgnored, MarkFailed
<1>5. ASSUME NEW s \in Stream, StartPush(s)
      PROVE  ~muddled
  <2>1. CASE conn = NoStream
    BY <1>5, <2>1, Zenon DEF StartPush
  <2>2. CASE conn # NoStream
    BY <1>5, <2>2, Zenon DEF StartPush
  <2>3. QED BY <2>1, <2>2
<1>6. CASE HealthCheck
  BY <1>6, Zenon DEF HealthCheck
<1>7. ASSUME NEW m \in Manual, NEW v \in Number, RollbackTo(m, v)
      PROVE  ~muddled
  BY <1>7, Zenon DEF RollbackTo
<1>8. QED
  BY <1>2, <1>3, <1>4, <1>5, <1>6, <1>7
     DEF Next, Panel, EditRows, Connect, Try, Refuse, Register, End, MarkApplied, FindRollback,
         Number

\* Nothing but the push of p is at work.
OnlyPush(p) == /\ \A q \in Task : q # p => Idle(q)
               /\ Empty(inbox) /\ Empty(results) /\ failing = {}

LEMMA OnePush ==
    ASSUME NEW p \in Task, NEW q, OnlyPush(p), PutTo(p, q), UNCHANGED <<inbox, results, failing>>,
           q.pc # "idle", q.pc \in Before => Knows', q.pc = "version" => q.snap = q.cfg,
           q.pc = "mark" => Newest(versions', q.ver, q.cfg),
           q.pc = "write" => q.ver = 0 \/ Newest(versions', q.ver, q.cfg)
    PROVE  OneWork'
<1>1. push'[p] = q /\ \A r \in Task : r # p => push'[r] = push[r]
  BY DEF PutTo
<1>2. ~Idle(p)' /\ \A r \in Task : r # p => Idle(r)'
  BY <1>1 DEF OnlyPush, Idle
<1>3. Empty(inbox)' /\ Empty(results)' /\ failing' = {}
  BY DEF OnlyPush, Empty
<1>4. /\ push'[p].pc = "mark" => Newest(versions', push'[p].ver, push'[p].cfg)
      /\ push'[p].pc = "write" => push'[p].ver = 0 \/ Newest(versions', push'[p].ver, push'[p].cfg)
  BY <1>1
<1>5. AtPush(p)'
  BY <1>1, <1>2, <1>3, <1>4 DEF AtPush
<1>6. QED BY <1>5 DEF OneWork

LEMMA NoMorePush ==
    ASSUME NEW p \in Task, OnlyPush(p), PutTo(p, NoPush), UNCHANGED <<inbox, results, failing>>, Knows'
    PROVE  OneWork'
<1>1. \A r \in Task : Idle(r)'
  BY DEF PutTo, OnlyPush, Idle, NoPush
<1>2. Quiet'
  BY <1>1 DEF Quiet, OnlyPush, Empty
<1>3. QED BY <1>2 DEF OneWork

LEMMA OneWorkRead ==
    ASSUME Types, Next, OneWork, ~muddled', NEW p \in Task, PushRead(p) \/ PushSnapshot(p)
    PROVE  OneWork'
<1>1. ~muddled /\ UNCHANGED <<versions, inbox, results, failing, runs>> /\ ~Idle(p)
  BY Unmuddled DEF PushRead, PushSnapshot, Idle
<1>2. AtPush(p) /\ OnlyPush(p) /\ push[p].pc \in Before /\ push[p].ver = 0
  <2>1. AtPush(p)
    BY <1>1, Phases
  <2>2. push[p].pc \in Before
    BY DEF PushRead, PushSnapshot, Before
  <2>3. QED BY <2>1, <2>2 DEF AtPush, OnlyPush, Types
<1>3. Knows'
  BY <1>1, <1>2 DEF AtPush, Knows, LastApplied
<1>4. CASE PushRead(p)
  <2>1. CASE PutTo(p, NoPush)
    BY <1>1, <1>2, <1>3, <2>1, NoMorePush
  <2>2. CASE PutTo(p, [pc |-> "create", to |-> push[p].to, cfg |-> rows,
                       snap |-> push[p].snap, ver |-> push[p].ver])
    BY <1>1, <1>2, <1>3, <2>2, OnePush
  <2>3. QED BY <1>4, <2>1, <2>2, PushMoves
<1>5. CASE PushSnapshot(p)
  <2>1. rows = push[p].cfg
    BY <1>5 DEF PushSnapshot
  <2> DEFINE pc == IF Versioned(rows) THEN "version" ELSE "write"
  <2>2. PutTo(p, [pc |-> pc, to |-> push[p].to, cfg |-> push[p].cfg,
                  snap |-> rows, ver |-> push[p].ver])
    BY <1>5, PushMoves
  <2>3. pc \in {"version", "write"}
    OBVIOUS
  <2> HIDE DEF pc
  <2>4. QED BY <1>1, <1>2, <1>3, <2>1, <2>2, <2>3, OnePush
<1>6. QED BY <1>4, <1>5

LEMMA OneWorkVersion ==
    ASSUME Types, Next, OneWork, ~muddled', NEW p \in Task, PushVersion(p)
    PROVE  OneWork'
<1>1. ~muddled /\ UNCHANGED <<inbox, results, failing, runs>> /\ ~Idle(p) /\ push[p].pc = "version"
  BY DEF PushVersion, Idle
<1>2. AtPush(p)
  BY <1>1, Phases
<1>3. OnlyPush(p) /\ push[p].snap = push[p].cfg
  BY <1>1, <1>2 DEF AtPush, OnlyPush
<1>4. PICK v : /\ PutTo(p, [pc |-> "mark", to |-> push[p].to, cfg |-> push[p].cfg,
                            snap |-> 0, ver |-> v])
               /\ \/ /\ versions' = versions /\ v = LastApplied /\ v # 0
                     /\ versions[v].cfg = push[p].snap
                  \/ /\ v = Len(versions) + 1
                     /\ versions' = Append(versions, [cfg |-> push[p].snap, rollback |-> FALSE,
                                                      status |-> "pending"])
  BY PushMoves
<1>5. Newest(versions', v, push[p].cfg)
  <2>1. CASE /\ versions' = versions /\ v = LastApplied /\ v # 0
             /\ versions[v].cfg = push[p].snap
    <3>1. /\ v \in Applied(versions) /\ \A w \in Applied(versions) : w <= v
          /\ versions[v].cfg = push[p].cfg
      BY <1>3, <2>1, LastIsLastOf, LastOfIs DEF Types
    <3>2. QED BY <2>1, <3>1 DEF Newest, Applied
  <2>2. CASE /\ v = Len(versions) + 1
             /\ versions' = Append(versions, [cfg |-> push[p].cfg, rollback |-> FALSE,
                                              status |-> "pending"])
    BY <2>2, AddedRow, Zenon
  <2>3. QED BY <1>3, <1>4, <2>1, <2>2
<1>6. "mark" # "idle" /\ "mark" \notin Before
  BY DEF Before
<1>7. QED BY <1>1, <1>3, <1>4, <1>5, <1>6, OnePush

LEMMA OneWorkMark ==
    ASSUME Types, Next, OneWork, ~muddled', NEW p \in Task, PushMark(p)
    PROVE  OneWork'
<1>1. ~muddled /\ UNCHANGED <<inbox, results, failing, runs>> /\ ~Idle(p) /\ push[p].pc = "mark"
  BY Unmuddled DEF PushMark, Idle
<1>2. AtPush(p)
  BY <1>1, Phases
<1>3. OnlyPush(p) /\ Newest(versions, push[p].ver, push[p].cfg)
  BY <1>1, <1>2 DEF AtPush, OnlyPush
<1>4. SetStatus(push[p].ver, "pushing") /\ push[p].ver \in Number
  BY <1>3 DEF PushMark, Newest, Number
<1>5. Newest(versions', push[p].ver, push[p].cfg)
  BY <1>3, <1>4, MarkedRow DEF Newest, Number
<1>6. PutTo(p, [pc |-> "write", to |-> push[p].to, cfg |-> push[p].cfg,
                snap |-> push[p].snap, ver |-> push[p].ver])
  BY PushMoves
<1>7. "write" # "idle" /\ "write" \notin Before
  BY DEF Before
<1>8. QED BY <1>1, <1>3, <1>5, <1>6, <1>7, OnePush

\* A message that is written, is of a known version and is received.
LEMMA WrittenMessage ==
    ASSUME Types, NEW s \in Stream, NEW cfg \in Revision, NEW ver \in 0..Len(versions),
           Write(s, cfg, ver), ~muddled', UNCHANGED <<versions, results>>,
           Empty(inbox), Empty(results), failing' = {}, Resting',
           ver = 0 \/ Newest(versions, ver, cfg)
    PROVE  OneWork'
<1>1. strm[s].side = "open" /\ ver # 0
  <2>1. strm[s].side = "open"
    BY Zenon DEF Write
  <2>2. muddled' = (muddled \/ ver = 0)
    BY <2>1 DEF Write
  <2>3. ver # 0
    BY <2>2, Zenon
  <2>4. QED BY <2>1, <2>3
<1>2. inbox' = [inbox EXCEPT ![s] = Append(inbox[s], [cfg |-> cfg, ver |-> ver])]
  BY <1>1 DEF Write
<1>3. inbox \in [Stream -> Seq(Parcel(Len(versions)))] /\ inbox[s] = <<>>
  BY DEF Types, Empty
<1> DEFINE m == [cfg |-> cfg, ver |-> ver]
<1>4. m \in Parcel(Len(versions)) /\ m.ver = ver /\ m.cfg = cfg
  BY DEF Parcel
<1> HIDE DEF m
<1>5. Append(<<>>, m) = <<m>>
  OBVIOUS
<1>6. Holds(inbox', s, m)
  BY <1>2, <1>3, <1>5 DEF Holds, Empty, m
<1>7. AtMessage(s, m)'
  <2>1. Empty(results)' /\ Newest(versions', m.ver, m.cfg)
    BY <1>1, <1>4 DEF Empty
  <2>2. m' = m
    BY DEF m
  <2>3. QED BY <1>6, <2>1, <2>2 DEF AtMessage
<1>8. QED BY <1>4, <1>7 DEF OneWork

LEMMA OneWorkWrite ==
    ASSUME Types, Next, OneWork, ~muddled', NEW p \in Task, PushWrite(p)
    PROVE  OneWork'
<1>1. ~muddled /\ UNCHANGED <<versions, results, failing, runs>> /\ ~Idle(p) /\ push[p].pc = "write"
  BY Unmuddled DEF PushWrite, Idle
<1>2. AtPush(p)
  BY <1>1, Phases
<1>3. /\ push[p].to \in Stream /\ push[p].cfg \in Revision /\ push[p].ver \in 0..Len(versions)
      /\ push[p].ver = 0 \/ Newest(versions, push[p].ver, push[p].cfg)
  BY <1>1, <1>2 DEF AtPush, Types, Pushing
<1>4. Empty(inbox) /\ Empty(results) /\ failing' = {}
  BY <1>1, <1>2 DEF AtPush
<1>5. Resting'
  <2>1. PutTo(p, NoPush) /\ NoPush.pc = "idle"
    BY PushMoves DEF NoPush
  <2>2. \A q \in Task : q # p => push[q].pc = "idle"
    BY <1>2 DEF AtPush, Idle
  <2>3. QED BY <2>1, <2>2 DEF PutTo, Resting, Idle
<1>6. Write(push[p].to, push[p].cfg, push[p].ver)
  BY DEF PushWrite
<1>7. QED BY <1>1, <1>3, <1>4, <1>5, <1>6, WrittenMessage

LEMMA OneWorkSend ==
    ASSUME Types, Next, OneWork, ~muddled', NEW f \in failing, SendRollback(f)
    PROVE  OneWork'
<1>1. ~muddled /\ UNCHANGED <<versions, push, results, runs>>
  BY Unmuddled DEF SendRollback
<1>2. AtFailure(f)
  BY <1>1, Phases
<1>3. conn # NoStream
  BY Zenon DEF SendRollback
<1>4. /\ conn \in Stream /\ f.target # 0 /\ Write(conn, versions[f.target].cfg, f.target)
  BY <1>3 DEF SendRollback, Types
<1>5. Newest(versions, f.target, versions[f.target].cfg) /\ f.target \in 0..Len(versions)
  BY <1>2, <1>4 DEF AtFailure, Types, Failing
<1>6. versions[f.target].cfg \in Revision
  <2>1. versions[f.target] \in Version
    BY <1>5 DEF Newest, Types
  <2>2. QED BY <2>1 DEF Version
<1>7. Empty(inbox) /\ Empty(results) /\ failing' = {} /\ Resting'
  BY <1>1, <1>2 DEF AtFailure, SendRollback, Resting, Idle
<1>8. QED BY <1>1, <1>4, <1>5, <1>6, <1>7, WrittenMessage

LEMMA OneWorkTry ==
    ASSUME Types, Next, OneWork, ~muddled', NEW s \in Stream, Try(s)
    PROVE  OneWork'
<1>1. ~muddled /\ UNCHANGED <<versions, push, failing>> /\ inbox[s] # <<>>
  BY Unmuddled DEF Try
<1>2. PICK m \in Parcel(Len(versions)) : AtMessage(s, m)
  BY <1>1, Phases
<1>3. inbox[s] = <<m>> /\ \A t \in Stream : t # s => inbox[t] = <<>>
  BY <1>2 DEF AtMessage, Holds
<1>4. Head(<<m>>) = m /\ Tail(<<m>>) = <<>> /\ \A r : Append(<<>>, r) = <<r>>
  OBVIOUS
<1>5. PICK ok \in BOOLEAN :
         /\ results' = [results EXCEPT ![s] = Append(results[s], [ver |-> m.ver, ok |-> ok])]
         /\ runs' = IF ok THEN m.cfg ELSE runs
  BY <1>3, <1>4 DEF Try
<1> DEFINE r == [ver |-> m.ver, ok |-> ok]
<1>6. r \in Answer(Len(versions)) /\ r.ver = m.ver /\ r.ok = ok /\ r' = r
  BY DEF Parcel, Answer
<1> HIDE DEF r
<1>7. Empty(inbox)'
  BY <1>3, <1>4 DEF Try, Types, Empty
<1>8. Holds(results', s, r)
  <2>1. results \in [Stream -> Seq(Answer(Len(versions)))] /\ \A t \in Stream : results[t] = <<>>
    BY <1>2 DEF Types, AtMessage, Empty
  <2>2. QED BY <1>4, <1>5, <2>1 DEF Holds, r
<1>9. r.ver # 0 /\ (r.ok => Newest(versions', r.ver, runs'))
  <2>1. Newest(versions, m.ver, m.cfg)
    BY <1>2 DEF AtMessage
  <2>2. m.ver # 0
    BY <2>1 DEF Newest, Types
  <2>3. QED BY <1>1, <1>5, <1>6, <2>1, <2>2
<1>10. Resting' /\ failing' = {}
  BY <1>1, <1>2 DEF AtMessage, Resting, Idle
<1>11. AtResult(s, r)'
  BY <1>6, <1>7, <1>8, <1>9, <1>10 DEF AtResult
<1>12. QED BY <1>1, <1>6, <1>11 DEF OneWork

\* A result that is read was the only piece of work.
LEMMA ReadResult ==
    ASSUME Types, Next, OneWork, ~muddled, NEW s \in Stream, results[s] # <<>>,
           results' = [results EXCEPT ![s] = Tail(@)], UNCHANGED <<push, inbox>>
    PROVE  /\ AtResult(s, Head(results[s]))
           /\ Resting' /\ Empty(inbox)' /\ Empty(results)' /\ failing = {}
           /\ Head(results[s]).ver \in Number
<1>1. PICK r \in Answer(Len(versions)) : AtResult(s, r)
  BY Phases
<1>2. results[s] = <<r>> /\ \A t \in Stream : t # s => results[t] = <<>>
  BY <1>1 DEF AtResult, Holds
<1>3. Head(<<r>>) = r /\ Tail(<<r>>) = <<>>
  OBVIOUS
<1>4. Empty(results)'
  BY <1>2, <1>3 DEF Types, Empty
<1>5. Resting' /\ Empty(inbox)' /\ failing = {}
  BY <1>1 DEF AtResult, Resting, Idle, Empty
<1>6. r.ver \in Number
  BY <1>1 DEF AtResult, Answer, Number, Types
<1>7. QED BY <1>1, <1>2, <1>3, <1>4, <1>5, <1>6

LEMMA OneWorkApplied ==
    ASSUME Types, Next, OneWork, ~muddled', NEW s \in Stream, MarkApplied(s)
    PROVE  OneWork'
<1>1. ~muddled /\ UNCHANGED <<push, inbox, failing, runs>> /\ results[s] # <<>>
  BY Unmuddled DEF MarkApplied
<1> DEFINE r == Head(results[s])
<1>2. /\ AtResult(s, r) /\ Resting' /\ Empty(inbox)' /\ Empty(results)' /\ failing' = {}
      /\ r.ver \in Number
  BY <1>1, ReadResult DEF MarkApplied
<1>3. r.ok /\ SetStatus(r.ver, "applied")
  BY DEF MarkApplied
<1>4. Newest(versions, r.ver, runs)
  BY <1>2, <1>3 DEF AtResult
<1> HIDE DEF r
<1>5. /\ DOMAIN versions' = Number /\ versions'[r.ver].status = "applied"
      /\ \A w \in Number : versions'[w].cfg = versions[w].cfg
      /\ \A w \in Number : w # r.ver => versions'[w].status = versions[w].status
  BY <1>2, <1>3, MarkedRow
<1>6. r.ver \in Applied(versions') /\ \A w \in Applied(versions') : w <= r.ver
  <2>1. Number \subseteq Nat /\ Number = DOMAIN versions
    BY DEF Number, Types
  <2>2. r.ver \in Applied(versions')
    BY <1>2, <1>5 DEF Applied
  <2>3. ASSUME NEW w \in Applied(versions')
        PROVE  w <= r.ver
    <3>1. w \in Number /\ versions'[w].status = "applied"
      BY <1>5 DEF Applied
    <3>2. CASE w = r.ver
      BY <1>2, <2>1, <3>2
    <3>3. CASE w # r.ver
      BY <1>4, <1>5, <2>1, <3>1, <3>3 DEF Newest
    <3>4. QED BY <3>2, <3>3
  <2>4. QED BY <2>2, <2>3
<1>7. versions' \in Seq(Version)
  BY VersionsStep
<1>8. LastOf(versions') = r.ver /\ versions'[r.ver].cfg = runs'
  BY <1>1, <1>2, <1>4, <1>5, <1>6, <1>7, LastOfUnique DEF Newest
<1>9. LastApplied' = LastOf(versions')
  BY DEF LastApplied, LastOf, Applied
<1>10. Knows'
  BY <1>8, <1>9 DEF Knows
<1>11. Quiet'
  BY <1>2 DEF Quiet, Resting, Empty
<1>12. QED BY <1>10, <1>11 DEF OneWork

LEMMA OneWorkFailed ==
    ASSUME Types, Next, OneWork, ~muddled', NEW s \in Stream, MarkFailed(s)
    PROVE  OneWork'
<1>1. ~muddled /\ UNCHANGED <<push, inbox, runs>> /\ results[s] # <<>>
  BY Unmuddled DEF MarkFailed
<1> DEFINE r == Head(results[s])
<1> DEFINE f == [ver |-> r.ver, target |-> 0]
<1>2. /\ Resting' /\ Empty(inbox)' /\ Empty(results)' /\ failing = {} /\ r.ver \in Number
  BY <1>1, ReadResult DEF MarkFailed
<1>3. failing' = {f}
  BY <1>2 DEF MarkFailed
<1>4. f \in failing' /\ f.target = 0
  BY <1>3
<1> HIDE DEF f
<1>5. PICK g : failing' = {g} /\ g.target = 0 /\ g \in Failing(Len(versions'))
  BY <1>3, <1>4, RollbacksStep
<1>6. AtFailure(g)'
  BY <1>2, <1>5 DEF AtFailure
<1>7. QED BY <1>5, <1>6 DEF OneWork

LEMMA OneWorkFind ==
    ASSUME Types, Next, OneWork, ~muddled', NEW f \in failing, FindRollback(f)
    PROVE  OneWork'
<1>1. ~muddled /\ UNCHANGED <<versions, push, inbox, results, runs>>
  BY Unmuddled DEF FindRollback
<1>2. AtFailure(f)
  BY <1>1, Phases
<1>3. Resting' /\ Empty(inbox)' /\ Empty(results)' /\ failing = {f}
  BY <1>1, <1>2 DEF AtFailure, Resting, Idle, Empty
<1>4. CASE LastApplied = 0
  <2>1. failing' = {} /\ LastApplied' = 0
    BY <1>1, <1>3, <1>4 DEF FindRollback, LastApplied
  <2>2. Quiet' /\ Knows'
    BY <1>3, <2>1 DEF Quiet, Resting, Empty, Knows
  <2>3. QED BY <2>2 DEF OneWork
<1>5. CASE LastApplied # 0
  <2>1. failing' = {[f EXCEPT !.target = LastApplied]}
    BY <1>3, <1>5 DEF FindRollback
  <2>2. [f EXCEPT !.target = LastApplied].target = LastApplied
    <3>1. f \in Failing(Len(versions))
      BY DEF Types
    <3>2. QED BY <3>1 DEF Failing
  <2>3. PICK g : failing' = {g} /\ g.target = LastApplied
    BY <2>1, <2>2
  <2>4. /\ LastApplied \in Applied(versions)
        /\ \A w \in Applied(versions) : w <= LastApplied
    BY <1>5, LastIsLastOf, LastOfIs DEF Types
  <2>5. Newest(versions, g.target, versions[g.target].cfg)
    BY <2>3, <2>4 DEF Newest, Applied
  <2>6. AtFailure(g)' /\ g \in Failing(Len(versions'))
    <3>1. Newest(versions', g.target, versions'[g.target].cfg)
      BY <1>1, <2>5
    <3>2. QED BY <1>3, <2>3, <3>1, RollbacksStep DEF AtFailure
  <2>7. QED BY <2>6 DEF OneWork
<1>6. QED BY <1>4, <1>5

LEMMA OneWorkBegins ==
    ASSUME Types, Next, OneWork, ~muddled',
           \/ \E s \in Stream : StartPush(s)
           \/ \E m \in Manual, v \in Number : RollbackTo(m, v)
    PROVE  OneWork'
<1> DEFINE N == [pc |-> "read", to |-> conn, cfg |-> 0, snap |-> 0, ver |-> 0]
<1>1. ~muddled
  BY Unmuddled
<1>2. ASSUME NEW p \in Task, PutTo(p, N), Quiet, UNCHANGED <<inbox, results, failing>>, Knows'
      PROVE  OneWork'
  <2>1. OnlyPush(p)
    BY <1>2 DEF Quiet, OnlyPush, Empty
  <2>2. N.pc = "read"
    OBVIOUS
  <2> HIDE DEF N
  <2>3. QED BY <1>2, <2>1, <2>2, OnePush
<1>3. ASSUME NEW s \in Stream, StartPush(s)
      PROVE  OneWork'
  <2>1. UNCHANGED <<versions, inbox, results, failing, runs>> /\ s \in Task
    BY <1>3 DEF StartPush, Task
  <2>2. CASE conn = NoStream
    <3>1. UNCHANGED <<push, muddled>>
      BY <1>3, <2>2 DEF StartPush
    <3>2. QED BY <2>1, <3>1, OneWorkKept DEF Work
  <2>3. CASE conn # NoStream
    <3>1. Quiet
      BY <1>3, <2>3, Zenon DEF StartPush
    <3>2. Knows'
      BY <1>1, <2>1, <3>1, Phases DEF Knows, LastApplied
    <3>3. push' = [push EXCEPT ![s] = [NoPush EXCEPT !.pc = "read", !.to = conn]]
      BY <1>3, <2>3 DEF StartPush
    <3>4. PutTo(s, N)
      BY <2>1, <2>3, <3>3, Beginning
    <3>5. QED BY <1>2, <2>1, <3>1, <3>2, <3>4
  <2>4. QED BY <2>2, <2>3
<1>4. ASSUME NEW m \in Manual, NEW v \in Number, RollbackTo(m, v)
      PROVE  OneWork'
  <2>1. UNCHANGED <<inbox, results, failing, runs>> /\ m \in Task
    BY <1>4 DEF RollbackTo, Task
  <2>2. Quiet
    BY <1>4, Zenon DEF RollbackTo
  <2>3. Knows
    BY <1>1, <2>2, Phases
  <2>4. /\ Applied(versions') = Applied(versions)
        /\ \A w \in Number : versions'[w].cfg = versions[w].cfg
    <3>1. versions' = Append(versions, [cfg |-> versions[v].cfg, rollback |-> TRUE, status |-> "pending"])
      BY <1>4 DEF RollbackTo
    <3>2. QED BY <3>1, AddedRow, Zenon
  <2>5. Knows'
    BY <2>1, <2>3, <2>4, KnowsKept, TypesStep
  <2>6. CASE conn = NoStream
    <3>1. push' = push
      BY <1>4, <2>6 DEF RollbackTo
    <3>2. Quiet'
      BY <2>1, <2>2, <3>1 DEF Quiet, Idle
    <3>3. QED BY <2>5, <3>2 DEF OneWork
  <2>7. CASE conn # NoStream
    <3>1. push' = [push EXCEPT ![m] = [NoPush EXCEPT !.pc = "read", !.to = conn]]
      BY <1>4, <2>7 DEF RollbackTo
    <3>2. PutTo(m, N)
      BY <2>1, <2>7, <3>1, Beginning
    <3>3. QED BY <1>2, <2>1, <2>2, <2>5, <3>2
  <2>8. QED BY <2>6, <2>7
<1>5. QED BY <1>3, <1>4

\* A stream that is lost without a muddle had nothing on its way.
LEMMA OneWorkLost ==
    ASSUME Types, Next, OneWork, ~muddled', HealthCheck \/ \E s \in Stream : Drop(s)
    PROVE  OneWork'
<1>1. ASSUME NEW s \in Stream, UNCHANGED <<versions, push, failing, runs>>,
             inbox' = [inbox EXCEPT ![s] = <<>>], results' = [results EXCEPT ![s] = <<>>],
             inbox[s] = <<>>, results[s] = <<>>
      PROVE  UNCHANGED Work
  BY <1>1 DEF Work, Types
<1>2. ASSUME NEW s \in Stream, Drop(s)
      PROVE  inbox[s] = <<>> /\ results[s] = <<>>
  BY <1>2, Zenon DEF Drop
<1>3. ASSUME HealthCheck
      PROVE  conn \in Stream /\ inbox[conn] = <<>> /\ results[conn] = <<>>
  <2>1. inbox[conn] = <<>> /\ results[conn] = <<>>
    BY <1>3, Zenon DEF HealthCheck
  <2>2. QED BY <1>3, <2>1 DEF HealthCheck, Types
<1>4. UNCHANGED Work
  BY <1>1, <1>2, <1>3 DEF Drop, HealthCheck
<1>5. ~muddled
  BY Unmuddled
<1>6. UNCHANGED muddled
  BY <1>5, HistoryStep DEF Types
<1>7. QED BY <1>4, <1>6, OneWorkKept

LEMMA OneWorkStep ==
    ASSUME Types, Next, OneWork
    PROVE  OneWork'
<1> SUFFICES ASSUME ~muddled'
             PROVE  OneWork'
  BY DEF OneWork
<1>1. ASSUME UNCHANGED Work, UNCHANGED muddled
      PROVE  OneWork'
  BY <1>1, OneWorkKept
<1>2. ASSUME EditRows \/ \E s \in Stream : Connect(s) \/ Refuse(s) \/ Register(s) \/ End(s)
      PROVE  UNCHANGED Work /\ UNCHANGED muddled
  BY <1>2 DEF EditRows, Connect, Refuse, Register, End, Work
<1>3. \A s \in Stream : ~ResultIgnored(s)
  BY Zenon DEF ResultIgnored
<1>4. ASSUME NEW p \in Task, PushStep(p)
      PROVE  OneWork'
  BY <1>4, OneWorkRead, OneWorkVersion, OneWorkMark, OneWorkWrite DEF PushStep
<1>5. ASSUME Panel
      PROVE  OneWork'
  BY <1>1, <1>2, <1>3, <1>4, <1>5, OneWorkBegins, OneWorkApplied, OneWorkFailed, OneWorkFind,
     OneWorkSend DEF Panel
<1>6. QED
  BY <1>1, <1>2, <1>5, OneWorkTry, OneWorkLost, OneWorkBegins DEF Next, Number
-----------------------------------------------------------------------------
(* The theorems.                                                           *)

LEMMA StreamInit ==
    ASSUME Init
    PROVE  StreamInv
<1>1. /\ rows = 0 /\ versions = <<>> /\ Len(versions) = 0 /\ conn = NoStream
      /\ strm = [s \in Stream |-> [side |-> "new", reg |-> "no"]]
      /\ push = [p \in Task |-> NoPush] /\ failing = {} /\ runs = 0
      /\ inbox = [s \in Stream |-> <<>>] /\ results = [s \in Stream |-> <<>>]
      /\ muddled = FALSE /\ overlapped = FALSE
  BY DEF Init
<1>2. 0 \in Revision
  BY RevisionAssumption DEF Revision
<1>3. muddled \in BOOLEAN /\ overlapped \in BOOLEAN
  BY <1>1, Zenon
<1>4. NoPush \in Pushing(0) /\ Sound(NoPush) /\ NoPush.pc = "idle"
  BY NoPushTyped DEF NoPush
<1>5. <<>> \in Seq(Version) /\ <<>> \in Seq(Parcel(0)) /\ <<>> \in Seq(Answer(0))
  OBVIOUS
<1>6. Types
  <2>1. push \in [Task -> Pushing(Len(versions))] /\ \A p \in Task : Sound(push[p])
    BY <1>1, <1>4
  <2>2. strm \in [Stream -> StreamState]
    BY <1>1 DEF StreamState
  <2>3. inbox \in [Stream -> Seq(Parcel(Len(versions)))] /\ results \in [Stream -> Seq(Answer(Len(versions)))]
    BY <1>1, <1>5
  <2>4. rows \in Revision /\ versions \in Seq(Version) /\ conn \in Stream \cup {NoStream}
    BY <1>1, <1>2, <1>5
  <2>5. failing \subseteq Failing(Len(versions)) /\ runs \in Revision
    BY <1>1, <1>2
  <2>6. QED BY <1>3, <2>1, <2>2, <2>3, <2>4, <2>5 DEF Types, Sound
<1>7. Counted
  <2>1. Owed = Stream
    BY <1>1, <1>4 DEF Owed, Before, Task
  <2>2. Rollbacks = {}
    BY <1>1 DEF Rollbacks, Number
  <2>3. Cardinality(Rollbacks) = 0
    BY <2>2, FS_EmptySet
  <2>4. Cardinality(Manual) \in Nat /\ Cardinality(Stream) \in Nat
    BY StreamAssumption, ManualAssumption, FS_CardinalityType
  <2>5. QED BY <1>1, <2>1, <2>3, <2>4 DEF Counted
<1>8. Waiting /\ Alone
  BY <1>1, <1>4 DEF Waiting, Alone, Live, Idle, Task
<1>9. OneWork
  <2>1. LastApplied = 0
    BY <1>1 DEF LastApplied
  <2>2. Quiet
    BY <1>1, <1>4 DEF Quiet, Idle
  <2>3. QED BY <2>1, <2>2 DEF OneWork, Knows
<1>10. QED BY <1>6, <1>7, <1>8, <1>9 DEF StreamInv

LEMMA StreamStep ==
    ASSUME StreamInv, [Next]_vars
    PROVE  StreamInv'
<1>1. Types /\ Counted /\ Waiting /\ Alone /\ OneWork
  BY DEF StreamInv
<1>2. CASE Next
  BY <1>1, <1>2, TypesStep, CountedStep, WaitingStep, AloneStep, OneWorkStep DEF StreamInv
<1>3. CASE UNCHANGED vars
  <2>1. OneWork'
    BY <1>1, <1>3, OneWorkKept DEF vars, Work
  <2>2. Types'
    BY <1>1, <1>3 DEF vars, Types
  <2>3. Counted'
    BY <1>1, <1>3 DEF vars, Counted, Owed, Rollbacks, Number
  <2>4. Waiting' /\ Alone'
    BY <1>1, <1>3 DEF vars, Waiting, Alone, Live, Idle
  <2>5. QED BY <2>1, <2>2, <2>3, <2>4 DEF StreamInv
<1>4. QED BY <1>2, <1>3

\* In every state the version rows are counted, the stream that lives alone
\* has the registry's entry, and one piece of work is followed.
THEOREM StreamCorrect == Spec => []StreamInv
<1>1. Init => StreamInv
  BY StreamInit
<1>2. StreamInv /\ [Next]_vars => StreamInv'
  BY StreamStep
<1>3. QED BY <1>1, <1>2, PTL DEF Spec

LEMMA RowsBounded ==
    ASSUME StreamInv
    PROVE  Len(versions) <= MaxVersions /\ Len(versions) \in Nat /\ MaxVersions \in Nat
<1>1. /\ Len(versions) + Cardinality(Owed) <= Cardinality(Stream) + 2 * Cardinality(Rollbacks)
      /\ Cardinality(Rollbacks) <= Cardinality(Manual)
  BY DEF StreamInv, Counted
<1>2. /\ Cardinality(Owed) \in Nat /\ Cardinality(Rollbacks) \in Nat /\ Len(versions) \in Nat
      /\ Cardinality(Stream) \in Nat /\ Cardinality(Manual) \in Nat
  BY OwedFinite, RollbacksFinite, StreamAssumption, ManualAssumption, FS_CardinalityType
     DEF StreamInv, Types, Finite
<1>3. QED BY <1>1, <1>2 DEF MaxVersions

LEMMA InBoxes ==
    ASSUME NEW T, NEW box \in [Stream -> Seq(T)]
    PROVE  InFlight(box) \subseteq T
<1>1. ASSUME NEW m \in InFlight(box)
      PROVE  m \in T
  <2>1. PICK s \in Stream : m \in {box[s][i] : i \in DOMAIN box[s]}
    BY <1>1 DEF InFlight
  <2>2. PICK i \in DOMAIN box[s] : m = box[s][i]
    BY <2>1
  <2>3. box[s] \in Seq(T)
    OBVIOUS
  <2>4. QED BY <2>2, <2>3
<1>2. QED BY <1>1

LEMMA StreamTyped ==
    ASSUME StreamInv
    PROVE  StreamTypeOK
<1>1. Types
  BY DEF StreamInv
<1> DEFINE n == Len(versions)
<1>2. n \in Nat /\ MaxVersions \in Nat /\ n <= MaxVersions
  BY RowsBounded
<1>3. /\ Pushing(n) \subseteq Pushing(MaxVersions) /\ Failing(n) \subseteq Failing(MaxVersions)
      /\ Parcel(n) \subseteq Message /\ Answer(n) \subseteq [ver : 0..MaxVersions, ok : BOOLEAN]
  <2> HIDE DEF n
  <2>1. Pushing(n) \subseteq Pushing(MaxVersions) /\ Failing(n) \subseteq Failing(MaxVersions)
    BY <1>2, Wider
  <2>2. 0..n \subseteq 0..MaxVersions
    BY <1>2
  <2>3. Parcel(n) \subseteq Message /\ Answer(n) \subseteq [ver : 0..MaxVersions, ok : BOOLEAN]
    BY <2>2 DEF Parcel, Answer, Message
  <2>4. QED BY <2>1, <2>3
<1>4. push \in [Task -> [pc : {"idle", "read", "create", "version", "mark", "write"},
                         to : Stream \cup {NoStream}, cfg : Revision, snap : Revision,
                         ver : 0..MaxVersions]]
  BY <1>1, <1>3 DEF Types, Pushing
<1>5. failing \subseteq [ver : 1..MaxVersions, target : 0..MaxVersions]
  BY <1>1, <1>3 DEF Types, Failing
<1>6. InFlight(inbox) \subseteq Message /\ InFlight(results) \subseteq [ver : 0..MaxVersions, ok : BOOLEAN]
  BY <1>1, <1>3, InBoxes DEF Types
<1>7. \A v \in DOMAIN versions : versions[v] \in Version
  BY <1>1 DEF Types
<1>8. QED BY <1>1, <1>2, <1>4, <1>5, <1>6, <1>7 DEF Types, StreamTypeOK, Version

\* The version rows, messages, results and rollbacks at work have their
\* types, and there are never more rows than one for each stream and two
\* for each rollback an operator asks for.
THEOREM TypeCorrect == Spec => []StreamTypeOK
BY StreamCorrect, StreamTyped, PTL

\* As long as no stream is opened before the one before is over, a
\* registered stream that is open is the one pushes go to.
THEOREM ReachableCorrect == Spec => []Reachable
<1>1. StreamInv => Reachable
  BY DEF StreamInv, Alone, Reachable
<1>2. QED BY <1>1, StreamCorrect, PTL

\* Without a muddle, when all is quiet, the node runs the configuration of
\* the last applied version.
THEOREM KnowsCorrect == Spec => []KnowsWhatRuns
<1>1. ASSUME StreamInv
      PROVE  KnowsWhatRuns
  <2> SUFFICES ASSUME Quiet, ~muddled
               PROVE  LastApplied # 0 => runs = versions[LastApplied].cfg
    BY DEF KnowsWhatRuns
  <2>1. Knows
    BY <1>1, Phases DEF StreamInv
  <2>2. QED BY <2>1 DEF Knows
<1>2. QED BY <1>1, StreamCorrect, PTL
=============================================================================
