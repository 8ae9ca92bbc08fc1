---------------------------- MODULE AgentStream ----------------------------
(***************************************************************************)
(* The panel's end of a node's gRPC stream: the registration of a stream,  *)
(* the push of a configuration with its version row, the agent's results,  *)
(* and the rollback after a failure.                                       *)
(*                                                                         *)
(* The registry has one entry for a node.  A stream's messages are handled *)
(* by an async callback that nobody awaits: all handlers interleave at     *)
(* every query they make.  An old stream may end, as the panel sees it,    *)
(* long after the agent has opened a new one.                              *)
(*                                                                         *)
(* A configuration is the revision of the node's rows it was built from.   *)
(* The agent is any that speaks agent.proto.                               *)
(***************************************************************************)
EXTENDS Naturals, Sequences, FiniteSets

CONSTANTS
    Stream,       \* bound: streams the agent ever opens
    Manual,       \* bound: rollbacks an operator asks for
    MaxEdits,     \* bound: edits of the node's rows
    Invalid,      \* revisions the validator refuses
    NoStream

ASSUME StreamAssumption == IsFiniteSet(Stream) /\ NoStream \notin Stream
ASSUME ManualAssumption == IsFiniteSet(Manual) /\ Manual \cap Stream = {}
ASSUME RevisionAssumption ==
    MaxEdits \in Nat /\ Invalid \subseteq 1..MaxEdits

VARIABLES
    rows,       \* revision of the node's rows
    versions,   \* the ConfigVersion rows, by number
    conn,       \* the registry's entry for the node
    strm,       \* the streams as panel and agent see them
    push,       \* the pushes at work: one per registration, one per rollback
    inbox,      \* configurations on their way to the agent
    results,    \* results on their way to the panel
    failing,    \* failed results whose rollback is at work
    runs,       \* what the agent runs
    muddled,    \* history: two pieces of work overlapped, or a message was lost
    overlapped  \* history: a stream was opened before the one before was over

vars == <<rows, versions, conn, strm, push, inbox, results, failing, runs,
          muddled, overlapped>>

Revision == 0..MaxEdits
MaxVersions == Cardinality(Stream) + 2 * Cardinality(Manual)
Task == Stream \cup Manual

\* dropped: the agent has given the stream up and the panel does not know;
\* ended: the panel knows, or has closed it itself.
StreamState == [side : {"new", "open", "dropped", "ended"},
                reg : {"no", "lookup", "stored", "pushing", "known"}]
NoPush == [pc |-> "idle", to |-> NoStream, cfg |-> 0, snap |-> 0, ver |-> 0]

Message == [cfg : Revision, ver : 0..MaxVersions]
InFlight(box) == UNION {{box[s][i] : i \in DOMAIN box[s]} : s \in Stream}

StreamTypeOK ==
    /\ rows \in Revision
    /\ \A v \in DOMAIN versions : versions[v] \in
          [cfg : Revision, rollback : BOOLEAN,
           status : {"pending", "pushing", "applied", "failed"}]
    /\ Len(versions) <= MaxVersions
    /\ conn \in Stream \cup {NoStream}
    /\ strm \in [Stream -> StreamState]
    /\ push \in [Task -> [pc : {"idle", "read", "create", "version", "mark", "write"},
                          to : Stream \cup {NoStream}, cfg : Revision, snap : Revision,
                          ver : 0..MaxVersions]]
    /\ InFlight(inbox) \subseteq Message
    /\ InFlight(results) \subseteq [ver : 0..MaxVersions, ok : BOOLEAN]
    /\ failing \subseteq [ver : 1..MaxVersions, target : 0..MaxVersions]
    /\ runs \in Revision
    /\ muddled \in BOOLEAN /\ overlapped \in BOOLEAN

Init ==
    /\ rows = 0 /\ versions = <<>>
    /\ conn = NoStream
    /\ strm = [s \in Stream |-> [side |-> "new", reg |-> "no"]]
    /\ push = [p \in Task |-> NoPush]
    /\ inbox = [s \in Stream |-> <<>>] /\ results = [s \in Stream |-> <<>>]
    /\ failing = {} /\ runs = 0
    /\ muddled = FALSE /\ overlapped = FALSE

Idle(p) == push[p].pc = "idle"
Quiet ==
    /\ \A p \in Task : Idle(p)
    /\ \A s \in Stream : inbox[s] = <<>> /\ results[s] = <<>>
    /\ failing = {}

\* MUTANT of LastApplied: the lowest number instead of the highest.
FirstApplied ==
    LET applied == {v \in DOMAIN versions : versions[v].status = "applied"}
    IN  IF applied = {} THEN 0 ELSE CHOOSE v \in applied : \A w \in applied : v <= w

LastApplied ==
    LET applied == {v \in DOMAIN versions : versions[v].status = "applied"}
    IN  IF applied = {} THEN 0 ELSE CHOOSE v \in applied : \A w \in applied : w <= v

SetStatus(v, status) == versions' = [versions EXCEPT ![v].status = status]
SetReg(s, reg) == strm' = [strm EXCEPT ![s].reg = reg]

\* call.write: nobody hears of a message that a dead stream swallows.
Write(s, cfg, ver) ==
    IF strm[s].side = "open"
    THEN /\ inbox' = [inbox EXCEPT ![s] = Append(@, [cfg |-> cfg, ver |-> ver])]
         /\ muddled' = (muddled \/ ver = 0)
    ELSE inbox' = inbox /\ muddled' = TRUE
-----------------------------------------------------------------------------
(* The environment: operators and the node.                                *)

EditRows ==
    /\ rows < MaxEdits /\ rows' = rows + 1
    /\ UNCHANGED <<versions, conn, strm, push, inbox, results, failing, runs, muddled, overlapped>>

\* The agent opens a stream, when it has given up the one before, and sends
\* its registration.
Connect(s) ==
    /\ strm[s].side = "new" /\ \A t \in Stream : strm[t].side # "open"
    /\ strm' = [strm EXCEPT ![s] = [side |-> "open", reg |-> "lookup"]]
    /\ overlapped' = (overlapped \/ \E t \in Stream :
                         strm[t].side = "dropped" \/ strm[t].reg \in {"lookup", "stored", "pushing"})
    /\ UNCHANGED <<rows, versions, conn, push, inbox, results, failing, runs, muddled>>

\* What is on its way in either direction is lost.
Drop(s) ==
    /\ strm[s].side = "open"
    /\ strm' = [strm EXCEPT ![s].side = "dropped"]
    /\ inbox' = [inbox EXCEPT ![s] = <<>>] /\ results' = [results EXCEPT ![s] = <<>>]
    /\ muddled' = (muddled \/ inbox[s] # <<>> \/ results[s] # <<>>)
    /\ UNCHANGED <<rows, versions, conn, push, failing, runs, overlapped>>

\* The agent tries a configuration and reports how it went.
Try(s) ==
    /\ inbox[s] # <<>> /\ inbox' = [inbox EXCEPT ![s] = Tail(@)]
    /\ \E ok \in BOOLEAN :
          /\ results' = [results EXCEPT ![s] = Append(@, [ver |-> Head(inbox[s]).ver, ok |-> ok])]
          /\ runs' = IF ok THEN Head(inbox[s]).cfg ELSE runs
    /\ UNCHANGED <<rows, versions, conn, strm, push, failing, muddled, overlapped>>
-----------------------------------------------------------------------------
(* Registration and end of a stream.                                       *)

\* Wrong credentials, or a node in maintenance.
Refuse(s) ==
    /\ strm[s].reg = "lookup"
    /\ strm' = [strm EXCEPT ![s] = [side |-> "ended", reg |-> "no"]]
    /\ UNCHANGED <<rows, versions, conn, push, inbox, results, failing, runs, muddled, overlapped>>

\* Whether or not the stream is still there.
Register(s) ==
    /\ strm[s].reg = "lookup" /\ SetReg(s, "stored")
    /\ conn' = s
    /\ UNCHANGED <<rows, versions, push, inbox, results, failing, runs, muddled, overlapped>>

\* After the node's row is written: the first push, to whatever stream the
\* registry names by then.
StartPush(s) ==
    /\ strm[s].reg = "stored"
    /\ IF conn = NoStream
       THEN SetReg(s, "known") /\ UNCHANGED <<push, muddled>>
       ELSE /\ SetReg(s, "pushing")
            /\ push' = [push EXCEPT ![s] = [NoPush EXCEPT !.pc = "read", !.to = conn]]
            /\ muddled' = (muddled \/ ~Quiet)
    /\ UNCHANGED <<rows, versions, conn, inbox, results, failing, runs, overlapped>>

\* The panel hears that a stream ended.  The callback knows the node only
\* when the registration has returned, and the registry only by the node.
End(s) ==
    /\ strm[s].side = "dropped"
    /\ strm' = [strm EXCEPT ![s].side = "ended"]
    /\ conn' = IF strm[s].reg = "known" THEN NoStream ELSE conn
    /\ UNCHANGED <<rows, versions, push, inbox, results, failing, runs, muddled, overlapped>>

\* MUTANT of TimedOut: the entry goes and the stream stays.
TimedOutQuietly == strm' = strm

TimedOut == strm' = [strm EXCEPT ![conn].side = "ended"]

\* No sign of life for two minutes; a stream that registered, or the stream
\* that took its place in the registry, gives one.
HealthCheck ==
    /\ conn # NoStream /\ TimedOut /\ conn' = NoStream
    /\ ~ \E s \in Stream \ {conn} : strm[s].side = "open" /\ strm[s].reg = "known"
    /\ inbox' = [inbox EXCEPT ![conn] = <<>>] /\ results' = [results EXCEPT ![conn] = <<>>]
    /\ muddled' = (muddled \/ inbox[conn] # <<>> \/ results[conn] # <<>>)
    /\ UNCHANGED <<rows, versions, push, failing, runs, overlapped>>
-----------------------------------------------------------------------------
(* pushConfig.                                                             *)

\* The stream's own callback goes on when the push it waits for is over.
Returns(p) ==
    /\ push' = [push EXCEPT ![p] = NoPush]
    /\ IF p \in Stream THEN SetReg(p, "known") ELSE strm' = strm

PushRead(p) ==
    /\ push[p].pc = "read"
    /\ IF rows \in Invalid
       THEN Returns(p)
       ELSE push' = [push EXCEPT ![p].pc = "create", ![p].cfg = rows] /\ strm' = strm
    /\ UNCHANGED <<rows, versions, conn, inbox, results, failing, runs, muddled, overlapped>>

Versioned(snap) == snap \notin Invalid

\* createVersion reads the rows again; what it throws is caught, and the
\* push goes on without a version.
PushSnapshot(p) ==
    /\ push[p].pc = "create"
    /\ push' = [push EXCEPT ![p].snap = rows,
                            ![p].pc = IF Versioned(rows) THEN "version" ELSE "write"]
    /\ muddled' = (muddled \/ rows # push[p].cfg)
    /\ UNCHANGED <<rows, versions, conn, strm, inbox, results, failing, runs, overlapped>>

\* The row of the last applied version serves again when nothing changed.
PushVersion(p) ==
    /\ push[p].pc = "version"
    /\ LET last == LastApplied
           reuse == last # 0 /\ versions[last].cfg = push[p].snap
       IN  /\ versions' = IF reuse THEN versions ELSE Append(versions,
                 [cfg |-> push[p].snap, rollback |-> FALSE, status |-> "pending"])
           /\ push' = [push EXCEPT ![p].pc = "mark", ![p].snap = 0,
                           ![p].ver = IF reuse THEN last ELSE Len(versions) + 1]
    /\ UNCHANGED <<rows, conn, strm, inbox, results, failing, runs, muddled, overlapped>>

PushMark(p) ==
    /\ push[p].pc = "mark" /\ push' = [push EXCEPT ![p].pc = "write"]
    /\ SetStatus(push[p].ver, "pushing")
    /\ UNCHANGED <<rows, conn, strm, inbox, results, failing, runs, muddled, overlapped>>

PushWrite(p) ==
    /\ push[p].pc = "write" /\ Returns(p)
    /\ Write(push[p].to, push[p].cfg, push[p].ver)
    /\ UNCHANGED <<rows, versions, conn, results, failing, runs, overlapped>>
-----------------------------------------------------------------------------
(* Results and rollbacks.                                                  *)

\* MUTANT of Dropped: a result without a version is taken.
DroppedUnknown(s) == strm[s].reg # "known"

\* Without a node the callback drops the message; handleConfigResult drops
\* one without a version.
Dropped(s) == strm[s].reg # "known" \/ Head(results[s]).ver = 0

ResultIgnored(s) ==
    /\ results[s] # <<>> /\ Dropped(s)
    /\ results' = [results EXCEPT ![s] = Tail(@)] /\ muddled' = TRUE
    /\ UNCHANGED <<rows, versions, conn, strm, push, inbox, failing, runs, overlapped>>

MarkApplied(s) ==
    /\ results[s] # <<>> /\ ~Dropped(s) /\ Head(results[s]).ok
    /\ SetStatus(Head(results[s]).ver, "applied")
    /\ results' = [results EXCEPT ![s] = Tail(@)]
    /\ UNCHANGED <<rows, conn, strm, push, inbox, failing, runs, muddled, overlapped>>

\* MUTANT of FailedStatus: the row is left as it is.
FailedStatusKept(v) == versions' = versions

FailedStatus(v) == SetStatus(v, "failed")

MarkFailed(s) ==
    /\ results[s] # <<>> /\ ~Dropped(s) /\ ~Head(results[s]).ok
    /\ FailedStatus(Head(results[s]).ver)
    /\ failing' = failing \cup {[ver |-> Head(results[s]).ver, target |-> 0]}
    /\ results' = [results EXCEPT ![s] = Tail(@)]
    /\ muddled' = (muddled \/ failing # {} \/ \E p \in Task : ~Idle(p))
    /\ UNCHANGED <<rows, conn, strm, push, inbox, runs, overlapped>>

FindRollback(f) ==
    /\ f.target = 0
    /\ failing' = (failing \ {f}) \cup
                  (IF LastApplied = 0 THEN {} ELSE {[f EXCEPT !.target = LastApplied]})
    /\ UNCHANGED <<rows, versions, conn, strm, push, inbox, results, runs,
                   muddled, overlapped>>

SendRollback(f) ==
    /\ f.target # 0 /\ failing' = failing \ {f}
    /\ IF conn = NoStream THEN inbox' = inbox /\ muddled' = TRUE
       ELSE Write(conn, versions[f.target].cfg, f.target)
    /\ UNCHANGED <<rows, versions, conn, strm, push, results, runs, overlapped>>

\* rollbackToVersion: a row for the rollback, and an event that makes the
\* panel push the node's rows.
RollbackTo(m, v) ==
    /\ Idle(m)
    /\ Cardinality({w \in DOMAIN versions : versions[w].rollback}) < Cardinality(Manual)
    /\ versions' = Append(versions, [cfg |-> versions[v].cfg, rollback |-> TRUE,
                                     status |-> "pending"])
    /\ push' = IF conn = NoStream THEN push
               ELSE [push EXCEPT ![m] = [NoPush EXCEPT !.pc = "read", !.to = conn]]
    /\ muddled' = (muddled \/ ~Quiet)
    /\ UNCHANGED <<rows, conn, strm, inbox, results, failing, runs, overlapped>>
-----------------------------------------------------------------------------
PushStep(p) == PushRead(p) \/ PushSnapshot(p) \/ PushVersion(p) \/ PushMark(p) \/ PushWrite(p)

Panel ==
    \/ \E s \in Stream : Register(s) \/ StartPush(s) \/ End(s)
    \/ \E p \in Task : PushStep(p)
    \/ \E s \in Stream : ResultIgnored(s) \/ MarkApplied(s) \/ MarkFailed(s)
    \/ \E f \in failing : FindRollback(f) \/ SendRollback(f)

Next ==
    \/ EditRows
    \/ \E s \in Stream : Connect(s) \/ Drop(s) \/ Try(s) \/ Refuse(s)
    \/ HealthCheck \/ Panel
    \/ \E m \in Manual, v \in DOMAIN versions : RollbackTo(m, v)

\* Queries return, and an agent tries what it receives.
Fairness == WF_vars(Panel) /\ \A s \in Stream : WF_vars(Try(s))

Spec == Init /\ [][Next]_vars /\ Fairness
-----------------------------------------------------------------------------
(* Properties.                                                             *)

\* When nothing was lost and nothing overlapped, the version rows tell what
\* the node runs: it is the configuration of the last applied version,
\* through updates, unchanged updates, failures and rollbacks.
KnowsWhatRuns ==
    Quiet /\ ~muddled /\ LastApplied # 0 => runs = versions[LastApplied].cfg

\* As long as the agent opens a stream only when the one before is over on
\* both ends, a registered stream that is open is the one pushes go to.
Reachable ==
    ~overlapped => \A s \in Stream :
        strm[s].side = "open" /\ strm[s].reg = "known" => conn = s

\* Every push and every result comes to an end: a rollback that fails in
\* its turn is answered by an older one, not by itself again.
Settles == <>[]Quiet
=============================================================================
