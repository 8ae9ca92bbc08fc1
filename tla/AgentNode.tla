----------------------------- MODULE AgentNode -----------------------------
(***************************************************************************)
(* A node: the agent's two synchronisation loops and the Xray they both    *)
(* change.                                                                 *)
(*                                                                         *)
(* The config loop fetches the node's configuration, writes Xray's file    *)
(* with the users the agent knows by then, and restarts Xray, at every     *)
(* poll.  The user loop fetches the list of users and tells the running    *)
(* Xray the difference from the list it had, call by call; then it does    *)
(* the same for rate limits.  Nothing orders the two loops.                *)
(*                                                                         *)
(* A user stands for one email in one inbound; its credential is a number, *)
(* 0 when the panel does not list it; so is its rate limit.  The panel     *)
(* answers a poll with its current rows (how an answer can be older is the *)
(* module ConfigDelivery); a poll that fails changes nothing.              *)
(***************************************************************************)
EXTENDS XrayProcess

CONSTANTS
    User,         \* emails in inbounds
    Protocol,     \* the protocol of a user's inbound
    Vision,       \* the users that have a flow
    MaxCred,      \* bound: credentials a user is given
    MaxEdits,     \* bound: edits of the panel's rows
    MaxFailures   \* bound: calls to Xray's API that fail though Xray serves

ASSUME UserAssumption ==
    /\ User # {} /\ Vision \subseteq User
    /\ Protocol \in [User -> {"vless", "vmess", "trojan", "shadowsocks", "socks"}]
ASSUME NodeBounds == MaxCred \in Nat \ {0} /\ MaxEdits \in Nat /\ MaxFailures \in Nat

VARIABLES
    db,        \* the panel's rows: credentials, limits and the structure
    edits,
    held,      \* nodeConfig: the rows it was built from
    known,     \* m.users and m.rateLimits
    file,      \* Xray's config file
    xray,      \* what a process serves: its users and their limits
    cloop,     \* where the config loop is
    todo,      \* the calls the user loop still has to make
    failures,
    missed     \* history: Xray may differ from m.users until its next start

panel == <<db, edits>>
agent == <<held, known, file, cloop, todo>>
vars  == <<process, panel, agent, xray, failures, missed>>

Cred  == 0..MaxCred
Limit == 0..1
None  == [u \in User |-> 0]
Row   == [cred : [User -> Cred], limit : [User -> Limit], structure : 0..1]
Blank == [cred |-> None, limit |-> None, structure |-> 0]

Idle == [remove |-> {}, add |-> {}, limits |-> {}]
Listed(list) == {u \in User : list[u] # 0}

AgentTypeOK ==
    /\ ProcessTypeOK
    /\ db \in Row /\ edits \in 0..MaxEdits
    /\ held \in [cred : [User -> Cred], structure : 0..1]
    /\ known \in [cred : [User -> Cred], limit : [User -> Limit]]
    /\ file \in [cred : [User -> Cred], structure : 0..1]
    /\ xray \in [Slot -> Row]
    /\ cloop \in {"idle", "generate", "stop", "stopping", "start"}
    /\ todo \in [remove : SUBSET User, add : SUBSET User, limits : SUBSET User]
    /\ failures \in 0..MaxFailures /\ missed \in BOOLEAN

\* Start: registered, the configuration and the users fetched, the file
\* written and Xray started.  The limits fetched are told to nobody.
Init ==
    /\ ProcessInit
    /\ db \in [cred : [User -> 0..1], limit : {None}, structure : {0}]
    /\ edits = 0
    /\ held = [cred |-> db.cred, structure |-> 0]
    /\ known = [cred |-> db.cred, limit |-> db.limit]
    /\ file = held
    /\ xray = [s \in Slot |-> IF s = cmd THEN [db EXCEPT !.limit = None] ELSE Blank]
    /\ cloop = "idle" /\ todo = Idle /\ failures = 0 /\ missed = FALSE
-----------------------------------------------------------------------------
(* The panel's rows.                                                       *)

EditUser(u) ==
    /\ edits < MaxEdits /\ edits' = edits + 1
    /\ \/ \E c \in Cred \ {db.cred[u]} : db' = [db EXCEPT !.cred[u] = c]
       \/ db' = [db EXCEPT !.limit[u] = 1 - @]
    /\ UNCHANGED <<process, agent, xray, failures, missed>>

EditStructure ==
    /\ edits < MaxEdits /\ edits' = edits + 1
    /\ db' = [db EXCEPT !.structure = 1 - @]
    /\ UNCHANGED <<process, agent, xray, failures, missed>>
-----------------------------------------------------------------------------
(* The config loop.                                                        *)

Unchanged == held.cred = db.cred /\ held.structure = db.structure

\* MUTANT of AfterPoll: an answer 304 ends the poll.
AfterPollChanged == IF Unchanged THEN "idle" ELSE "generate"

\* The file is written and Xray restarted whatever the answer was.
AfterPoll == "generate"

\* syncConfig: the answer carries the clients too, so that a change of
\* either replaces nodeConfig.
PollConfig ==
    /\ cloop = "idle" /\ cloop' = AfterPoll
    /\ held' = IF Unchanged THEN held
               ELSE [cred |-> db.cred, structure |-> db.structure]
    /\ UNCHANGED <<process, panel, known, file, todo, xray, failures, missed>>

\* MUTANT of Written: the file is written when the users changed.
WrittenForUsers ==
    IF file.cred = known.cred THEN file
    ELSE [cred |-> known.cred, structure |-> held.structure]

\* generateAndWriteConfig: the users are m.users, whatever the answer
\* carried.
Written == [cred |-> known.cred, structure |-> held.structure]

GenerateAndWrite ==
    /\ cloop = "generate" /\ cloop' = "stop"
    /\ file' = Written
    /\ UNCHANGED <<process, panel, held, known, todo, xray, failures, missed>>

RestartStops ==
    /\ cloop = "stop"
    /\ \/ StopNothing /\ cloop' = "start"
       \/ SignalTerm /\ cloop' = "stopping"
       \/ SignalFails /\ cloop' = "idle"
    /\ UNCHANGED <<panel, held, known, file, todo, xray, failures, missed>>

RestartWaits ==
    /\ cloop = "stopping" /\ (StopReturns \/ StopKills) /\ cloop' = "start"
    /\ UNCHANGED <<panel, held, known, file, todo, xray, failures, missed>>

\* The new Xray serves what the file says: no limits, and the users the
\* agent knew when the file was written.
RestartStarts ==
    /\ cloop = "start" /\ SleptEnough /\ cloop' = "idle"
    /\ StartProcess
    /\ xray' = [xray EXCEPT ![cmd'] = [cred |-> file.cred, limit |-> None,
                                       structure |-> file.structure]]
    /\ missed' = (known.cred # file.cred)
    /\ UNCHANGED <<panel, held, known, file, todo, failures>>
-----------------------------------------------------------------------------
(* The user loop.                                                          *)

\* MUTANT of Difference: the old list is read after it was replaced.
DifferenceLate(old, new) == Idle

\* MUTANT of Difference: limits are set, and never taken back.
DifferenceSetting(old, new) ==
    [remove |-> Listed(old.cred) \ Listed(new.cred),
     add    |-> Listed(new.cred) \ Listed(old.cred),
     limits |-> {u \in User : new.limit[u] \notin {0, old.limit[u]}}]

\* What hotSyncUsers and hotSyncRateLimits find between two lists: an email
\* that is in both is left alone, whatever its credential.
Difference(old, new) ==
    [remove |-> Listed(old.cred) \ Listed(new.cred),
     add    |-> Listed(new.cred) \ Listed(old.cred),
     limits |-> {u \in User : old.limit[u] # new.limit[u]}]

\* syncUsers, after the loop saved the old lists.
PollUsers ==
    /\ todo = Idle
    /\ known' = [cred |-> db.cred, limit |-> db.limit]
    /\ todo' = Difference(known, known')
    /\ UNCHANGED <<process, panel, held, file, cloop, xray, failures, missed>>

\* buildProtocolUser: every client has a UUID, so that the account is
\* VLESS with a flow and VMess without, whatever the inbound speaks.
Account(u) == IF u \in Vision THEN "vless" ELSE "vmess"
HotAddable(u) == Account(u) = Protocol[u]

Done(u, kind) == todo' = [todo EXCEPT ![kind] = @ \ {u}]

HotRemove(u) ==
    /\ u \in todo.remove /\ Done(u, "remove")
    /\ \E s \in Serving : xray' = [xray EXCEPT ![s].cred[u] = 0]
    /\ UNCHANGED <<process, panel, held, known, file, cloop, failures, missed>>

\* MUTANT of Added: an email that is there already is added to.
AddedAgain(u, cred) == cred + known.cred[u]

\* Xray refuses an account of another protocol, and an email it has.
Added(u, cred) == IF cred = 0 /\ HotAddable(u) THEN known.cred[u] ELSE cred

HotAdd(u) ==
    /\ u \in todo.add /\ Done(u, "add")
    /\ \E s \in Serving : xray' = [xray EXCEPT ![s].cred[u] = Added(u, @)]
    /\ missed' = (missed \/ ~HotAddable(u))
    /\ UNCHANGED <<process, panel, held, known, file, cloop, failures>>

HotLimit(u) ==
    /\ todo.remove = {} /\ todo.add = {}
    /\ u \in todo.limits /\ Done(u, "limits")
    /\ \E s \in Serving : xray' = [xray EXCEPT ![s].limit[u] = known.limit[u]]
    /\ UNCHANGED <<process, panel, held, known, file, cloop, failures, missed>>

\* No Xray to dial, or one that answers with an error: it is logged.
HotFails(u, kind) ==
    /\ u \in todo[kind] /\ Done(u, kind)
    /\ kind = "limits" => todo.remove = {} /\ todo.add = {}
    /\ \/ Serving = {} /\ UNCHANGED failures
       \/ Serving # {} /\ failures < MaxFailures /\ failures' = failures + 1
    /\ missed' = (missed \/ kind # "limits")
    /\ UNCHANGED <<process, panel, held, known, file, cloop, xray>>
-----------------------------------------------------------------------------
Processes ==
    /\ ProcessNext
    /\ xray' = [s \in Slot |-> IF proc'[s] = "free" THEN Blank ELSE xray[s]]
    /\ UNCHANGED <<panel, agent, failures, missed>>

ConfigLoop == PollConfig \/ GenerateAndWrite \/ RestartStops \/ RestartWaits \/ RestartStarts

HotSync(u) ==
    \/ HotRemove(u) \/ HotAdd(u) \/ HotLimit(u)
    \/ \E kind \in {"remove", "add", "limits"} : HotFails(u, kind)

UserLoop == PollUsers \/ \E u \in User : HotSync(u)

Next ==
    \/ EditStructure \/ \E u \in User : EditUser(u)
    \/ ConfigLoop \/ UserLoop \/ Processes

\* Xray boots in less than the interval of the config loop, which would
\* else stop every process before it serves.
BootDone == (\E s \in Slot : Boots(s)) /\ Processes

\* The tickers of both loops keep coming, calls return within their
\* timeouts, and the operating system runs processes and goroutines.
Fairness ==
    /\ WF_vars(ConfigLoop) /\ WF_vars(UserLoop) /\ WF_vars(Processes)
    /\ SF_vars(BootDone)

Spec == Init /\ [][Next]_vars /\ Fairness
-----------------------------------------------------------------------------
(* Properties.                                                             *)

\* The manager never loses an Xray: the one process that lives is the one it
\* started last, and while no stop is at work the flag says that it runs.
\* Losing one would leave it serving an old file, and every later start
\* would fail on its ports.
NoOrphan ==
    /\ Alive \subseteq {cmd}
    /\ stop = "none" /\ Alive # {} => running

\* A poll of the config loop that ended has put its file into effect: the
\* Xray that serves between two polls has the structure the agent holds.
AppliedAfterPoll ==
    cloop = "idle" => \A s \in Serving : xray[s].structure = held.structure

\* The calls of the user loop are complete: when no call failed and no list
\* was fetched between the write of the file and Xray's start, the running
\* Xray knows the very emails the agent believes it to know.
HotSyncComplete ==
    todo = Idle /\ ~missed =>
        \A s \in Serving : Listed(xray[s].cred) = Listed(known.cred)

\* What the loops miss, failed calls, credentials that changed, a list that
\* was overtaken by a restart, accounts that the API refused and an Xray
\* that died, is made up for: when the panel's rows rest, Xray ends up with
\* exactly the panel's users and structure.
Repaired ==
    /\ <>[](\A s \in Serving : xray[s].cred = db.cred /\ xray[s].structure = db.structure)
    /\ []<>(Serving # {})

\* A limit the panel changed or lifted does not stay in force: unless a call
\* failed, each limit of the running Xray is the one the agent holds.  (The
\* converse fails: every restart starts an Xray without limits, and only a
\* change of a limit tells it one.)
NoStaleLimit ==
    todo = Idle /\ failures = 0 =>
        \A s \in Serving, u \in User : xray[s].limit[u] \in {0, known.limit[u]}
=============================================================================
