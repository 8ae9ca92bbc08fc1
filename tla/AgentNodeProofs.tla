-------------------------- MODULE AgentNodeProofs ---------------------------
(***************************************************************************)
(* Proofs about AgentNode: the types, the one process of the manager, and  *)
(* what the loops bring to the Xray that runs, for any number of slots,    *)
(* users, edits, crashes and failed calls.  What concerns the processes    *)
(* is proved for a pause between Stop and Start that is long enough, as    *)
(* the agent's authors chose it (Prompt).  That every miss is repaired in  *)
(* the end is liveness, and stays with TLC.                                *)
(***************************************************************************)
EXTENDS AgentNode, TLAPS

\* The processes that serve or will.
Fresh == {s \in Slot : proc[s] \in {"booting", "up"}}

\* There is at most one process or goroutine, of the command.  While the flag
\* is down nothing of it serves; a killed one was given up by the last stop.
OneProcess ==
    /\ \A s \in Slot : s # cmd => proc[s] = "free"
    /\ ~running => proc[cmd] \notin {"booting", "up", "term"}
    /\ proc[cmd] = "kill" => stop = "done" /\ ~running

\* What the file says is what the agent holds, from the write to the start;
\* and between two polls so does the Xray that the file was written for.
FileApplied ==
    /\ cloop \in {"stop", "stopping", "start"} => file.structure = held.structure
    /\ cloop = "idle" => \A s \in Fresh : xray[s].structure = held.structure

\* Unless something was missed, Xray has the users that are known, but for the
\* calls that are still to be made.
UsersFollow ==
    /\ \A u \in todo.remove : known.cred[u] = 0
    /\ \A u \in todo.add : known.cred[u] # 0
    /\ ~missed => \A s \in Fresh, u \in User :
          /\ known.cred[u] # 0 => xray[s].cred[u] # 0 \/ u \in todo.add
          /\ xray[s].cred[u] # 0 => known.cred[u] # 0 \/ u \in todo.remove

\* A new Xray has no limits; a limit that is neither known nor to be set is
\* one whose call failed.
LimitsFollow ==
    /\ \A s \in Slot : proc[s] = "booting" => xray[s].limit = None
    /\ failures = 0 => \A s \in Serving, u \in User :
          xray[s].limit[u] \in {0, known.limit[u]} \/ u \in todo.limits

AgentInv == AgentTypeOK /\ OneProcess /\ FileApplied /\ UsersFollow /\ LimitsFollow
-----------------------------------------------------------------------------
(* What the steps of a node do to the processes.                           *)

Restarting ==
    \/ StopNothing \/ SignalTerm \/ SignalFails \/ StopReturns \/ StopKills
    \/ SleptEnough /\ StartProcess

ProcessStep == Restarting \/ ProcessNext \/ UNCHANGED process

\* A start takes a slot that is free.
LEMMA StartTakesFree ==
    ASSUME StartProcess
    PROVE  cmd' \in Slot /\ proc[cmd'] = "free"
BY DEF StartProcess

LEMMA NodeProcessStep == [Next]_vars => ProcessStep
<1> SUFFICES ASSUME [Next]_vars PROVE ProcessStep
  OBVIOUS
<1> USE DEF ProcessStep, Restarting
<1>1. CASE \/ EditStructure \/ (\E u \in User : EditUser(u)) \/ PollConfig
           \/ GenerateAndWrite \/ UserLoop
  <2>1. UNCHANGED process
    BY <1>1 DEF EditStructure, EditUser, PollConfig, GenerateAndWrite, UserLoop, PollUsers,
                HotSync, HotRemove, HotAdd, HotLimit, HotFails
  <2>2. QED BY <2>1
<1>2. CASE RestartStops BY <1>2 DEF RestartStops
<1>3. CASE RestartWaits BY <1>3 DEF RestartWaits
<1>4. CASE RestartStarts BY <1>4 DEF RestartStarts
<1>5. CASE Processes BY <1>5 DEF Processes
<1>6. CASE UNCHANGED vars BY <1>6 DEF vars
<1>7. QED BY <1>1, <1>2, <1>3, <1>4, <1>5, <1>6 DEF Next, ConfigLoop

LEMMA ProcessTypeStep == ProcessTypeOK /\ ProcessStep => ProcessTypeOK'
<1> SUFFICES ASSUME ProcessTypeOK, ProcessStep PROVE ProcessTypeOK'
  OBVIOUS
<1> USE ProcessAssumption DEF ProcessTypeOK, ProcState, process, Becomes
<1>1. CASE StopNothing
  <2>1. stop' \in {"none", "waiting", "done"} BY <1>1 DEF StopNothing
  <2>2. QED BY <1>1, <2>1 DEF StopNothing
<1>2. CASE SignalTerm BY <1>2 DEF SignalTerm
<1>3. CASE SignalFails BY <1>3 DEF SignalFails
<1>4. CASE StopReturns
  <2>1. running' \in BOOLEAN BY <1>4, Zenon DEF StopReturns
  <2>2. QED BY <1>4, <2>1 DEF StopReturns
<1>5. CASE StopKills
  <2>1. running' \in BOOLEAN BY <1>5, Zenon DEF StopKills
  <2>2. QED BY <1>5, <2>1 DEF StopKills
<1>6. CASE StartProcess
  <2>1. running' \in BOOLEAN BY <1>6, Zenon DEF StartProcess
  <2>2. QED BY <1>6, <2>1, StartTakesFree DEF StartProcess
<1>7. CASE ProcessNext
  <2>1. PICK s \in Slot : Boots(s) \/ Crashes(s) \/ Exits(s) \/ Waited(s) \/ WaitLost(s) \/ Clears(s)
    BY <1>7 DEF ProcessNext
  <2>2. proc' \in [Slot -> ProcState] /\ cmd' \in Slot /\ crashes' \in 0..MaxCrashes
    BY <2>1 DEF Boots, Crashes, Exits, Waited, WaitLost, Clears
  <2>3. running' = running \/ running' = FALSE
    BY <2>1, Zenon DEF Boots, Crashes, Exits, Waited, WaitLost, Clears
  <2>4. running' \in BOOLEAN
    BY <2>3, Zenon DEF ProcessTypeOK
  <2>5. stop' = stop
    BY <2>1 DEF Boots, Crashes, Exits, Waited, WaitLost, Clears
  <2>6. QED BY <2>2, <2>4, <2>5
<1>8. CASE UNCHANGED process BY <1>8
<1>9. QED
  BY <1>1, <1>2, <1>3, <1>4, <1>5, <1>6, <1>7, <1>8 DEF ProcessStep, Restarting

\* With the pause long enough, nothing of the old process is left at a start.
LEMMA OneProcessStep ==
    ASSUME Prompt, ProcessTypeOK, OneProcess, ProcessStep
    PROVE  OneProcess'
<1> USE DEF ProcessTypeOK, ProcState, OneProcess, process, Becomes
<1>1. CASE StopNothing BY <1>1 DEF StopNothing
<1>2. CASE SignalTerm BY <1>2 DEF SignalTerm
<1>3. CASE SignalFails BY <1>3 DEF SignalFails
<1>4. CASE StopReturns BY <1>4 DEF StopReturns, Alive
<1>5. CASE StopKills BY <1>5 DEF StopKills
<1>6. CASE SleptEnough /\ StartProcess
  <2>1. \A s \in Slot : proc[s] = "free"
    BY <1>6 DEF SleptEnough, StartProcess
  <2>2. cmd' \in Slot /\ proc' = [proc EXCEPT ![cmd'] = "booting"] /\ running'
    BY <1>6, StartTakesFree DEF StartProcess
  <2>3. \A s \in Slot : s # cmd' => proc'[s] = "free"
    BY <2>1, <2>2
  <2>4. proc'[cmd'] = "booting"
    BY <2>2
  <2>5. QED BY <2>2, <2>3, <2>4
<1>7. CASE ProcessNext
  <2>1. PICK s \in Slot : Boots(s) \/ Crashes(s) \/ Exits(s) \/ Waited(s) \/ WaitLost(s) \/ Clears(s)
    BY <1>7 DEF ProcessNext
  <2>2. s = cmd /\ cmd' = cmd
    BY <2>1 DEF Boots, Crashes, Exits, Waited, WaitLost, Clears
  <2>3. \A t \in Slot : t # cmd => proc'[t] = proc[t]
    BY <2>1, <2>2 DEF Boots, Crashes, Exits, Waited, WaitLost, Clears
  <2>4. \/ running' = running /\ proc'[cmd] \notin {"term", "booting", "kill"}
           /\ (proc'[cmd] = "up" => proc[cmd] = "booting")
        \/ proc'[cmd] = "free"
    BY <2>1, <2>2 DEF Boots, Crashes, Exits, Waited, WaitLost, Clears
  <2>5. QED BY <2>2, <2>3, <2>4
<1>8. CASE UNCHANGED process BY <1>8
<1>9. QED
  BY <1>1, <1>2, <1>3, <1>4, <1>5, <1>6, <1>7, <1>8 DEF ProcessStep, Restarting
-----------------------------------------------------------------------------
(* The types.                                                              *)

CredRow == [cred : [User -> Cred], structure : 0..1]

LEMMA ConstantTypes ==
    /\ Cred \subseteq Nat /\ 0 \in Cred /\ 1 \in Cred /\ 0 \in Limit
    /\ None \in [User -> Cred] /\ None \in [User -> Limit] /\ None \in [User -> 0..1]
    /\ Blank \in Row
BY NodeBounds DEF Cred, Limit, None, Blank, Row

LEMMA TypeInit == Init => AgentTypeOK
<1> SUFFICES ASSUME Init PROVE AgentTypeOK
  OBVIOUS
<1> USE DEF Init
<1>1. ProcessTypeOK
  <2>1. running \in BOOLEAN BY Zenon DEF ProcessInit
  <2>2. cmd \in Slot BY SlotAssumption DEF ProcessInit
  <2>3. QED BY <2>1, <2>2, ProcessAssumption DEF ProcessInit, ProcessTypeOK, ProcState
<1>2. db \in Row /\ db.structure = 0 /\ db.limit = None
  <2>1. db.cred \in [User -> Cred]
    BY NodeBounds DEF Cred
  <2>2. QED BY <2>1, ConstantTypes DEF Row
<1>3. held \in CredRow /\ file \in CredRow /\ known \in [cred : [User -> Cred], limit : [User -> Limit]]
  BY <1>2 DEF Row, CredRow
<1>4. xray \in [Slot -> Row]
  <2>1. [db EXCEPT !.limit = None] = db
    BY <1>2 DEF Row
  <2>2. QED BY <1>2, <2>1, ConstantTypes
<1>5. missed \in BOOLEAN BY Zenon
<1>6. todo \in [remove : SUBSET User, add : SUBSET User, limits : SUBSET User]
  BY DEF Idle
<1>7. edits \in 0..MaxEdits /\ failures \in 0..MaxFailures
  BY NodeBounds
<1>8. cloop \in {"idle", "generate", "stop", "stopping", "start"}
  OBVIOUS
<1>9. QED BY <1>1, <1>2, <1>3, <1>4, <1>5, <1>6, <1>7, <1>8 DEF AgentTypeOK, CredRow

\* The difference of two lists, and what is left of it after a call.
LEMMA TodoType ==
    /\ \A old, new : Difference(old, new)
                      \in [remove : SUBSET User, add : SUBSET User, limits : SUBSET User]
    /\ AgentTypeOK => \A u, kind : Done(u, kind) /\ kind \in {"remove", "add", "limits"}
         => todo' \in [remove : SUBSET User, add : SUBSET User, limits : SUBSET User]
<1>1. \A old, new : Difference(old, new)
                      \in [remove : SUBSET User, add : SUBSET User, limits : SUBSET User]
  BY DEF Difference, Listed
<1>2. ASSUME AgentTypeOK, NEW u, NEW kind \in {"remove", "add", "limits"}, Done(u, kind)
      PROVE  todo' \in [remove : SUBSET User, add : SUBSET User, limits : SUBSET User]
  <2>1. /\ kind = "remove" => todo' = [remove |-> todo.remove \ {u}, add |-> todo.add,
                                      limits |-> todo.limits]
        /\ kind = "add" => todo' = [remove |-> todo.remove, add |-> todo.add \ {u},
                                   limits |-> todo.limits]
        /\ kind = "limits" => todo' = [remove |-> todo.remove, add |-> todo.add,
                                      limits |-> todo.limits \ {u}]
    BY <1>2 DEF Done, AgentTypeOK
  <2>2. QED BY <2>1, <1>2 DEF AgentTypeOK
<1>3. QED BY <1>1, <1>2

\* What a call does to the Xray it reaches: one user's credential or limit.
LEMMA CredEffect ==
    ASSUME AgentTypeOK, NEW s \in Slot, NEW u \in User, NEW c \in Cred,
           xray' = [xray EXCEPT ![s].cred[u] = c]
    PROVE  /\ xray' \in [Slot -> Row]
           /\ xray' = [xray EXCEPT ![s] = [cred |-> [xray[s].cred EXCEPT ![u] = c],
                                              limit |-> xray[s].limit, structure |-> xray[s].structure]]
<1>1. xray[s] \in Row
  BY DEF AgentTypeOK
<1>2. xray' = [xray EXCEPT ![s] = [cred |-> [xray[s].cred EXCEPT ![u] = c],
                                              limit |-> xray[s].limit, structure |-> xray[s].structure]]
  <2>1. xray' = [xray EXCEPT ![s] = [xray[s] EXCEPT !.cred = [xray[s].cred EXCEPT ![u] = c]]]
    OBVIOUS
  <2>2. \A F : [xray[s] EXCEPT !.cred = F]
               = [cred |-> F, limit |-> xray[s].limit, structure |-> xray[s].structure]
    BY <1>1 DEF Row
  <2>3. QED BY <2>1, <2>2
<1>3. [cred |-> [xray[s].cred EXCEPT ![u] = c], limit |-> xray[s].limit,
      structure |-> xray[s].structure] \in Row
  <2>1. [xray[s].cred EXCEPT ![u] = c] \in [User -> Cred]
    BY <1>1 DEF Row
  <2>2. QED BY <1>1, <2>1 DEF Row
<1>4. QED BY <1>2, <1>3 DEF AgentTypeOK

LEMMA LimitEffect ==
    ASSUME AgentTypeOK, NEW s \in Slot, NEW u \in User, NEW l \in Limit,
           xray' = [xray EXCEPT ![s].limit[u] = l]
    PROVE  /\ xray' \in [Slot -> Row]
           /\ xray' = [xray EXCEPT ![s] = [cred |-> xray[s].cred,
                                              limit |-> [xray[s].limit EXCEPT ![u] = l],
                                              structure |-> xray[s].structure]]
<1>1. xray[s] \in Row
  BY DEF AgentTypeOK
<1>2. xray' = [xray EXCEPT ![s] = [cred |-> xray[s].cred,
                                              limit |-> [xray[s].limit EXCEPT ![u] = l],
                                              structure |-> xray[s].structure]]
  <2>1. xray' = [xray EXCEPT ![s] = [xray[s] EXCEPT !.limit = [xray[s].limit EXCEPT ![u] = l]]]
    OBVIOUS
  <2>2. \A F : [xray[s] EXCEPT !.limit = F]
               = [cred |-> xray[s].cred, limit |-> F, structure |-> xray[s].structure]
    BY <1>1 DEF Row
  <2>3. QED BY <2>1, <2>2
<1>3. [cred |-> xray[s].cred, limit |-> [xray[s].limit EXCEPT ![u] = l],
      structure |-> xray[s].structure] \in Row
  <2>1. [xray[s].limit EXCEPT ![u] = l] \in [User -> Limit]
    BY <1>1 DEF Row
  <2>2. QED BY <1>1, <2>1 DEF Row
<1>4. QED BY <1>2, <1>3 DEF AgentTypeOK

LEMMA HotTypes ==
    ASSUME AgentTypeOK, NEW u \in User, HotSync(u)
    PROVE  AgentTypeOK'
<1>1. todo' \in [remove : SUBSET User, add : SUBSET User, limits : SUBSET User]
  BY TodoType DEF HotSync, HotRemove, HotAdd, HotLimit, HotFails
<1>2. xray' \in [Slot -> Row]
  <2>1. CASE HotRemove(u)
    <3>1. PICK s \in Serving : xray' = [xray EXCEPT ![s].cred[u] = 0]
      BY <2>1 DEF HotRemove
    <3>2. s \in Slot /\ 0 \in Cred
      BY ConstantTypes DEF Serving
    <3>3. QED BY <3>1, <3>2, CredEffect
  <2>2. CASE HotAdd(u)
    <3>1. PICK s \in Serving : xray' = [xray EXCEPT ![s].cred[u] = Added(u, xray[s].cred[u])]
      BY <2>2 DEF HotAdd
    <3>2. s \in Slot
      BY DEF Serving
    <3>3. Added(u, xray[s].cred[u]) \in Cred
      BY <3>2 DEF Added, AgentTypeOK, Row
    <3>4. QED BY <3>1, <3>2, <3>3, CredEffect
  <2>3. CASE HotLimit(u)
    <3>1. PICK s \in Serving : xray' = [xray EXCEPT ![s].limit[u] = known.limit[u]]
      BY <2>3 DEF HotLimit
    <3>2. s \in Slot /\ known.limit[u] \in Limit
      BY DEF Serving, AgentTypeOK
    <3>3. QED BY <3>1, <3>2, LimitEffect
  <2>4. CASE \E kind \in {"remove", "add", "limits"} : HotFails(u, kind)
    BY <2>4 DEF HotFails, AgentTypeOK
  <2>5. QED BY <2>1, <2>2, <2>3, <2>4 DEF HotSync
<1>3. UNCHANGED <<process, db, edits, held, known, file, cloop>>
  BY DEF HotSync, HotRemove, HotAdd, HotLimit, HotFails, panel
<1>4. missed' \in BOOLEAN
  <2>1. missed' = missed \/ (\E b \in BOOLEAN : missed' = (missed \/ b))
    BY Zenon DEF HotSync, HotRemove, HotAdd, HotLimit, HotFails
  <2>2. QED BY <2>1, Zenon DEF AgentTypeOK
<1>5. failures' \in 0..MaxFailures
  BY NodeBounds DEF HotSync, HotRemove, HotAdd, HotLimit, HotFails, AgentTypeOK
<1>6. ProcessTypeOK'
  BY <1>3 DEF AgentTypeOK, ProcessTypeOK, process
<1>7. QED BY <1>1, <1>2, <1>3, <1>4, <1>5, <1>6 DEF AgentTypeOK

LEMMA TypeStep == AgentTypeOK /\ [Next]_vars => AgentTypeOK'
<1> SUFFICES ASSUME AgentTypeOK, [Next]_vars PROVE AgentTypeOK'
  OBVIOUS
<1>0. ProcessTypeOK'
  BY NodeProcessStep, ProcessTypeStep DEF AgentTypeOK
<1> USE ConstantTypes, NodeBounds DEF panel, agent
<1>1. CASE EditStructure
  <2>1. db' \in Row
    <3>1. db' = [cred |-> db.cred, limit |-> db.limit, structure |-> 1 - db.structure]
      BY <1>1 DEF EditStructure, AgentTypeOK, Row
    <3>2. 1 - db.structure \in 0..1
      BY DEF AgentTypeOK, Row
    <3>3. QED BY <3>1, <3>2 DEF AgentTypeOK, Row
  <2>2. QED BY <1>0, <1>1, <2>1 DEF EditStructure, AgentTypeOK
<1>2. ASSUME NEW u \in User, EditUser(u)
      PROVE  AgentTypeOK'
  <2>1. db' \in Row
    <3>1. \/ \E c \in Cred : db' = [db EXCEPT !.cred = [db.cred EXCEPT ![u] = c]]
          \/ db' = [db EXCEPT !.limit = [db.limit EXCEPT ![u] = 1 - db.limit[u]]]
      BY <1>2 DEF EditUser
    <3>2. \A F : /\ [db EXCEPT !.cred = F]
                      = [cred |-> F, limit |-> db.limit, structure |-> db.structure]
                 /\ [db EXCEPT !.limit = F]
                      = [cred |-> db.cred, limit |-> F, structure |-> db.structure]
      BY DEF AgentTypeOK, Row
    <3>3. /\ \A c \in Cred : [db.cred EXCEPT ![u] = c] \in [User -> Cred]
          /\ [db.limit EXCEPT ![u] = 1 - db.limit[u]] \in [User -> Limit]
      BY DEF AgentTypeOK, Row, Limit
    <3>4. \E F \in [User -> Cred], G \in [User -> Limit] :
             db' = [cred |-> F, limit |-> G, structure |-> db.structure]
      <4>1. db.cred \in [User -> Cred] /\ db.limit \in [User -> Limit]
        BY DEF AgentTypeOK, Row
      <4>2. CASE \E c \in Cred : db' = [db EXCEPT !.cred = [db.cred EXCEPT ![u] = c]]
        BY <4>1, <4>2, <3>2, <3>3
      <4>3. CASE db' = [db EXCEPT !.limit = [db.limit EXCEPT ![u] = 1 - db.limit[u]]]
        BY <4>1, <4>3, <3>2, <3>3
      <4>4. QED BY <4>2, <4>3, <3>1
    <3>5. QED BY <3>4 DEF AgentTypeOK, Row
  <2>2. QED BY <1>0, <1>2, <2>1 DEF EditUser, AgentTypeOK
<1>3. CASE PollConfig
  BY <1>0, <1>3 DEF PollConfig, AfterPoll, AgentTypeOK, Row
<1>4. CASE GenerateAndWrite
  BY <1>0, <1>4 DEF GenerateAndWrite, Written, AgentTypeOK
<1>5. CASE RestartStops
  BY <1>0, <1>5 DEF RestartStops, AgentTypeOK
<1>6. CASE RestartWaits
  BY <1>0, <1>6 DEF RestartWaits, AgentTypeOK
<1>7. CASE RestartStarts
  <2>1. missed' \in BOOLEAN BY <1>7, Zenon DEF RestartStarts
  <2>2. [cred |-> file.cred, limit |-> None, structure |-> file.structure] \in Row
    BY DEF AgentTypeOK, Row
  <2>3. xray' \in [Slot -> Row]
    BY <1>7, <2>2 DEF RestartStarts, AgentTypeOK
  <2>4. QED BY <1>0, <1>7, <2>1, <2>3 DEF RestartStarts, AgentTypeOK
<1>8. CASE PollUsers
  BY <1>0, <1>8, TodoType DEF PollUsers, AgentTypeOK, Row
<1>9. ASSUME NEW u \in User, HotSync(u)
      PROVE  AgentTypeOK'
  BY <1>9, HotTypes
<1>10. CASE Processes
  BY <1>0, <1>10 DEF Processes, AgentTypeOK
<1>11. CASE UNCHANGED vars
  BY <1>0, <1>11 DEF vars, AgentTypeOK
<1>12. QED
  BY <1>1, <1>2, <1>3, <1>4, <1>5, <1>6, <1>7, <1>8, <1>9, <1>10, <1>11
  DEF Next, ConfigLoop, UserLoop

\* The rows, the lists, the file, the processes and the calls that are left
\* keep their types.
THEOREM TypeCorrect == Spec => []AgentTypeOK
<1>1. QED BY TypeInit, TypeStep, PTL DEF Spec

LEMMA ProcessInitOne == ProcessInit => OneProcess
<1> SUFFICES ASSUME ProcessInit PROVE OneProcess
  OBVIOUS
<1>1. running
  BY Zenon DEF ProcessInit
<1>2. proc[cmd] = "booting" /\ \A s \in Slot : s # cmd => proc[s] = "free"
  BY SlotAssumption DEF ProcessInit
<1>3. QED BY <1>1, <1>2 DEF OneProcess

\* The manager never loses an Xray: the one process that lives is the one it
\* started last, and unless a stop is at work the flag says that it runs, for
\* every interleaving of boots, crashes, goroutines and restarts
\* (Manager.Restart, Start, Stop), if the pause before a start is long enough.
THEOREM NoOrphanCorrect ==
    ASSUME Prompt
    PROVE  Spec => []NoOrphan
<1>1. Init => OneProcess
  BY ProcessInitOne DEF Init
<1>2. AgentTypeOK /\ OneProcess /\ [Next]_vars => OneProcess'
  BY NodeProcessStep, OneProcessStep DEF AgentTypeOK
<1>3. AgentTypeOK /\ OneProcess => NoOrphan
  BY DEF AgentTypeOK, ProcessTypeOK, OneProcess, NoOrphan, Alive
<1>4. QED BY <1>1, <1>2, <1>3, TypeCorrect, PTL DEF Spec
-----------------------------------------------------------------------------
(* What the steps do to the processes that serve or will, and to what they *)
(* serve.                                                                  *)

\* Nothing but a start brings a process, and only a boot lets one serve.
LEMMA FreshShrinks ==
    ASSUME ProcessTypeOK, ProcessNext \/ StopNothing \/ SignalTerm \/ SignalFails
                              \/ StopReturns \/ StopKills
    PROVE  \A s \in Slot : /\ proc'[s] = "booting" => proc[s] = "booting"
                           /\ proc'[s] = "up" => proc[s] \in {"booting", "up"}
<1> USE DEF ProcessTypeOK, ProcState, process, Becomes
<1>1. CASE StopNothing \/ SignalTerm \/ SignalFails \/ StopReturns \/ StopKills
  BY <1>1 DEF StopNothing, SignalTerm, SignalFails, StopReturns, StopKills
<1>2. CASE ProcessNext
  BY <1>2 DEF ProcessNext, Boots, Crashes, Exits, Waited, WaitLost, Clears
<1>3. QED BY <1>1, <1>2

\* After a start the new process is the only one.
LEMMA StartIsFresh ==
    ASSUME Prompt, AgentTypeOK, OneProcess, RestartStarts
    PROVE  /\ \A s \in Slot : proc'[s] # "free" => s = cmd'
           /\ cmd' \in Slot /\ proc'[cmd'] = "booting"
           /\ xray'[cmd'] = [cred |-> file.cred, limit |-> None, structure |-> file.structure]
<1>1. OneProcess'
  BY OneProcessStep DEF RestartStarts, ProcessStep, Restarting, AgentTypeOK
<1>2. cmd' \in Slot /\ proc'[cmd'] = "booting"
  BY StartTakesFree DEF RestartStarts, StartProcess, Becomes, AgentTypeOK, ProcessTypeOK
<1>3. QED BY <1>1, <1>2 DEF OneProcess, RestartStarts, AgentTypeOK

\* One user's credential, or limit, in one Xray.
CredSet(s, u, c) ==
    \A t \in Slot :
        /\ xray'[t].structure = xray[t].structure /\ xray'[t].limit = xray[t].limit
        /\ \A v \in User : xray'[t].cred[v] = IF t = s /\ v = u THEN c ELSE xray[t].cred[v]

LimitSet(s, u, l) ==
    \A t \in Slot :
        /\ xray'[t].structure = xray[t].structure /\ xray'[t].cred = xray[t].cred
        /\ \A v \in User : xray'[t].limit[v] = IF t = s /\ v = u THEN l ELSE xray[t].limit[v]

LEMMA HotRemoves ==
    ASSUME AgentTypeOK, NEW u \in User, HotRemove(u)
    PROVE  /\ todo' = [todo EXCEPT !.remove = @ \ {u}] /\ u \in todo.remove
           /\ \E s \in Serving : CredSet(s, u, 0)
<1>1. PICK s \in Serving : xray' = [xray EXCEPT ![s].cred[u] = 0]
  BY DEF HotRemove
<1>2. s \in Slot /\ 0 \in Cred
  BY ConstantTypes DEF Serving
<1>3. xray' = [xray EXCEPT ![s] = [cred |-> [xray[s].cred EXCEPT ![u] = 0],
                                   limit |-> xray[s].limit, structure |-> xray[s].structure]]
  BY <1>1, <1>2, CredEffect
<1>4. CredSet(s, u, 0)
  BY <1>2, <1>3 DEF CredSet, AgentTypeOK, Row
<1>5. QED BY <1>4 DEF HotRemove, Done

LEMMA HotAdds ==
    ASSUME AgentTypeOK, NEW u \in User, HotAdd(u)
    PROVE  /\ todo' = [todo EXCEPT !.add = @ \ {u}] /\ u \in todo.add
           /\ \E s \in Serving : CredSet(s, u, Added(u, xray[s].cred[u]))
<1>1. PICK s \in Serving : xray' = [xray EXCEPT ![s].cred[u] = Added(u, xray[s].cred[u])]
  BY DEF HotAdd
<1>2. s \in Slot /\ Added(u, xray[s].cred[u]) \in Cred
  BY DEF Serving, Added, AgentTypeOK, Row
<1>3. xray' = [xray EXCEPT ![s] = [cred |-> [xray[s].cred EXCEPT ![u] = Added(u, xray[s].cred[u])],
                                   limit |-> xray[s].limit, structure |-> xray[s].structure]]
  BY <1>1, <1>2, CredEffect
<1>4. CredSet(s, u, Added(u, xray[s].cred[u]))
  BY <1>2, <1>3 DEF CredSet, AgentTypeOK, Row
<1>5. QED BY <1>4 DEF HotAdd, Done

LEMMA HotLimits ==
    ASSUME AgentTypeOK, NEW u \in User, HotLimit(u)
    PROVE  /\ todo' = [todo EXCEPT !.limits = @ \ {u}] /\ u \in todo.limits
           /\ \E s \in Serving : LimitSet(s, u, known.limit[u])
<1>1. PICK s \in Serving : xray' = [xray EXCEPT ![s].limit[u] = known.limit[u]]
  BY DEF HotLimit
<1>2. s \in Slot /\ known.limit[u] \in Limit
  BY DEF Serving, AgentTypeOK
<1>3. xray' = [xray EXCEPT ![s] = [cred |-> xray[s].cred,
                                   limit |-> [xray[s].limit EXCEPT ![u] = known.limit[u]],
                                   structure |-> xray[s].structure]]
  BY <1>1, <1>2, LimitEffect
<1>4. LimitSet(s, u, known.limit[u])
  BY <1>2, <1>3 DEF LimitSet, AgentTypeOK, Row
<1>5. QED BY <1>4 DEF HotLimit, Done
-----------------------------------------------------------------------------
(* The structure.                                                          *)

LEMMA FileStep ==
    ASSUME Prompt, AgentTypeOK, OneProcess, FileApplied, [Next]_vars
    PROVE  FileApplied'
<1> USE DEF FileApplied, Fresh
<1>0. ProcessTypeOK
  BY DEF AgentTypeOK
<1>1. CASE EditStructure \/ (\E u \in User : EditUser(u)) \/ PollUsers \/ UNCHANGED vars
  <2>1. UNCHANGED <<proc, xray, file, held, cloop>>
    BY <1>1 DEF EditStructure, EditUser, PollUsers, vars, agent, process
  <2>2. QED BY <2>1
<1>2. ASSUME NEW u \in User, HotSync(u)
      PROVE  FileApplied'
  <2>1. UNCHANGED <<proc, file, held, cloop>>
    BY <1>2 DEF HotSync, HotRemove, HotAdd, HotLimit, HotFails, process
  <2>2. \A t \in Slot : xray'[t].structure = xray[t].structure
    BY <1>2, HotRemoves, HotAdds, HotLimits DEF HotSync, HotFails, CredSet, LimitSet
  <2>3. QED BY <2>1, <2>2
<1>3. CASE PollConfig BY <1>3 DEF PollConfig, AfterPoll
<1>4. CASE GenerateAndWrite BY <1>4 DEF GenerateAndWrite, Written
<1>5. CASE RestartStops
  <2>1. CASE SignalFails
    <3>1. \A s \in Slot : proc'[s] \notin {"booting", "up"}
      BY <2>1 DEF SignalFails, OneProcess, process
    <3>2. QED BY <1>5, <3>1 DEF RestartStops
  <2>2. CASE ~ SignalFails
    BY <1>5, <2>2 DEF RestartStops
  <2>3. QED BY <2>1, <2>2
<1>6. CASE RestartWaits BY <1>6 DEF RestartWaits
<1>7. CASE RestartStarts
  <2>1. file.structure = held.structure /\ held' = held /\ cloop' = "idle"
    BY <1>7 DEF RestartStarts
  <2>2. \A s \in Slot : proc'[s] \in {"booting", "up"} => xray'[s].structure = held.structure
    BY <1>7, <2>1, StartIsFresh
  <2>3. QED BY <2>1, <2>2
<1>8. CASE Processes
  <2>1. UNCHANGED <<file, held, cloop>> /\ ProcessNext
    BY <1>8 DEF Processes, agent
  <2>2. \A s \in Slot : proc'[s] # "free" => xray'[s] = xray[s]
    BY <1>8 DEF Processes
  <2>3. QED BY <2>1, <2>2, <1>0, FreshShrinks
<1>9. QED
  BY <1>1, <1>2, <1>3, <1>4, <1>5, <1>6, <1>7, <1>8 DEF Next, ConfigLoop, UserLoop
-----------------------------------------------------------------------------
(* The users.                                                              *)

\* The config loop, short of a start, and the processes touch no list.
LEMMA UsersUntouched ==
    ASSUME AgentTypeOK, UsersFollow, UNCHANGED <<known, todo, missed>>,
           \A s \in Slot : proc'[s] \in {"booting", "up"}
               => proc[s] \in {"booting", "up"} /\ xray'[s] = xray[s]
    PROVE  UsersFollow'
BY DEF UsersFollow, Fresh

LEMMA UsersStep ==
    ASSUME Prompt, AgentTypeOK, OneProcess, UsersFollow, [Next]_vars
    PROVE  UsersFollow'
<1>0. ProcessTypeOK
  BY DEF AgentTypeOK
<1> USE DEF process, panel, agent
<1>1. CASE \/ EditStructure \/ (\E u \in User : EditUser(u)) \/ PollConfig
           \/ GenerateAndWrite \/ UNCHANGED vars
  <2>1. UNCHANGED <<proc, xray, known, todo, missed>>
    BY <1>1 DEF EditStructure, EditUser, PollConfig, GenerateAndWrite, vars
  <2>2. QED BY <2>1, UsersUntouched
<1>2. CASE RestartStops \/ RestartWaits \/ Processes
  <2>1. UNCHANGED <<known, todo, missed>>
    BY <1>2 DEF RestartStops, RestartWaits, Processes
  <2>2. \A s \in Slot : proc'[s] # "free" => xray'[s] = xray[s]
    BY <1>2 DEF RestartStops, RestartWaits, Processes
  <2>3. ProcessNext \/ StopNothing \/ SignalTerm \/ SignalFails \/ StopReturns \/ StopKills
    BY <1>2 DEF RestartStops, RestartWaits, Processes
  <2>4. QED BY <2>1, <2>2, <2>3, <1>0, FreshShrinks, UsersUntouched
<1>3. CASE RestartStarts
  <2>1. UNCHANGED <<known, todo>> /\ missed' = (known.cred # file.cred)
    BY <1>3 DEF RestartStarts
  <2>2. ASSUME ~ missed', NEW s \in Slot, proc'[s] \in {"booting", "up"}
        PROVE  xray'[s].cred = known.cred
    <3>1. known.cred = file.cred
      BY <2>1, <2>2, Zenon
    <3>2. s = cmd' /\ xray'[cmd'].cred = file.cred
      BY <2>2, <1>3, StartIsFresh
    <3>3. QED BY <3>1, <3>2
  <2>3. QED BY <2>1, <2>2 DEF UsersFollow, Fresh
<1>4. CASE PollUsers
  <2>1. /\ UNCHANGED <<proc, xray, missed>>
        /\ todo = Idle /\ todo' = Difference(known, known')
    BY <1>4 DEF PollUsers
  <2>2. /\ todo'.remove = {u \in User : known.cred[u] # 0} \ {u \in User : known'.cred[u] # 0}
        /\ todo'.add = {u \in User : known'.cred[u] # 0} \ {u \in User : known.cred[u] # 0}
    BY <2>1 DEF Difference, Listed
  <2>3. ~ missed => \A s \in Fresh, u \in User : known.cred[u] # 0 <=> xray[s].cred[u] # 0
    BY <2>1 DEF UsersFollow, Idle
  <2>4. Fresh' = Fresh
    BY <2>1 DEF Fresh
  <2>5. QED BY <2>1, <2>2, <2>3, <2>4 DEF UsersFollow
<1>5. ASSUME NEW u \in User, HotRemove(u)
      PROVE  UsersFollow'
  <2>1. UNCHANGED <<proc, known, missed>>
    BY <1>5 DEF HotRemove
  <2>2. PICK s \in Serving : CredSet(s, u, 0)
    BY <1>5, HotRemoves
  <2>3. /\ u \in todo.remove /\ todo'.add = todo.add
        /\ todo'.remove = todo.remove \ {u}
    BY <1>5, HotRemoves DEF AgentTypeOK
  <2>4. known.cred[u] = 0
    BY <2>3 DEF UsersFollow
  <2>5. ASSUME ~ missed, NEW t \in Fresh, NEW v \in User
        PROVE  /\ known.cred[v] # 0 => xray'[t].cred[v] # 0 \/ v \in todo'.add
               /\ xray'[t].cred[v] # 0 => known.cred[v] # 0 \/ v \in todo'.remove
    <3>1. /\ known.cred[v] # 0 => xray[t].cred[v] # 0 \/ v \in todo.add
          /\ xray[t].cred[v] # 0 => known.cred[v] # 0 \/ v \in todo.remove
      BY <2>5 DEF UsersFollow
    <3>2. xray'[t].cred[v] = IF t = s /\ v = u THEN 0 ELSE xray[t].cred[v]
      BY <2>2 DEF CredSet, Fresh
    <3>3. v = u => t = s
      BY <1>0 DEF OneProcess, Fresh, Serving, ProcessTypeOK
    <3>4. QED BY <2>3, <2>4, <3>1, <3>2, <3>3
  <2>6. Fresh' = Fresh
    BY <2>1 DEF Fresh
  <2>7. QED BY <2>1, <2>3, <2>5, <2>6 DEF UsersFollow
<1>6. ASSUME NEW u \in User, HotAdd(u)
      PROVE  UsersFollow'
  <2>1. UNCHANGED <<proc, known>> /\ missed' = (missed \/ ~HotAddable(u))
    BY <1>6 DEF HotAdd
  <2>2. PICK s \in Serving : CredSet(s, u, Added(u, xray[s].cred[u]))
    BY <1>6, HotAdds
  <2>3. /\ u \in todo.add /\ todo'.add = todo.add \ {u} /\ todo'.remove = todo.remove
    BY <1>6, HotAdds DEF AgentTypeOK
  <2>4. known.cred[u] # 0
    BY <2>3 DEF UsersFollow
  <2>5. ASSUME ~ missed', NEW t \in Fresh, NEW v \in User
        PROVE  /\ known.cred[v] # 0 => xray'[t].cred[v] # 0 \/ v \in todo'.add
               /\ xray'[t].cred[v] # 0 => known.cred[v] # 0 \/ v \in todo'.remove
    <3>0. ~ missed /\ HotAddable(u)
      BY <2>1, <2>5
    <3>1. /\ known.cred[v] # 0 => xray[t].cred[v] # 0 \/ v \in todo.add
          /\ xray[t].cred[v] # 0 => known.cred[v] # 0 \/ v \in todo.remove
      BY <3>0 DEF UsersFollow
    <3>2. xray'[t].cred[v] = IF t = s /\ v = u THEN Added(u, xray[s].cred[u]) ELSE xray[t].cred[v]
      BY <2>2 DEF CredSet, Fresh
    <3>3. v = u => t = s
      BY <1>0 DEF OneProcess, Fresh, Serving, ProcessTypeOK
    <3>4. Added(u, xray[s].cred[u]) # 0
      BY <3>0, <2>4 DEF Added
    <3>5. QED BY <2>3, <2>4, <3>1, <3>2, <3>3, <3>4
  <2>6. Fresh' = Fresh
    BY <2>1 DEF Fresh
  <2>7. QED BY <2>1, <2>3, <2>5, <2>6 DEF UsersFollow
<1>7. ASSUME NEW u \in User, HotLimit(u)
      PROVE  UsersFollow'
  <2>1. UNCHANGED <<proc, known, missed>>
    BY <1>7 DEF HotLimit
  <2>2. \A t \in Slot : xray'[t].cred = xray[t].cred
    BY <1>7, HotLimits DEF LimitSet
  <2>3. todo'.add = todo.add /\ todo'.remove = todo.remove
    BY <1>7, HotLimits DEF AgentTypeOK
  <2>4. QED BY <2>1, <2>2, <2>3 DEF UsersFollow, Fresh
\* A call that fails is missed, except that of a limit.
<1>8. ASSUME NEW u \in User, NEW kind \in {"remove", "add", "limits"}, HotFails(u, kind)
      PROVE  UsersFollow'
  <2>1. UNCHANGED <<proc, xray, known>> /\ missed' = (missed \/ kind # "limits")
    BY <1>8 DEF HotFails
  <2>2. /\ todo'.add \subseteq todo.add /\ todo'.remove \subseteq todo.remove
        /\ kind = "limits" => todo'.add = todo.add /\ todo'.remove = todo.remove
    BY <1>8 DEF HotFails, Done, AgentTypeOK
  <2>3. QED BY <2>1, <2>2 DEF UsersFollow, Fresh
<1>9. QED
  BY <1>1, <1>2, <1>3, <1>4, <1>5, <1>6, <1>7, <1>8 DEF Next, ConfigLoop, UserLoop, HotSync
-----------------------------------------------------------------------------
(* The limits.                                                             *)

LEMMA LimitsStep ==
    ASSUME Prompt, AgentTypeOK, OneProcess, LimitsFollow, [Next]_vars
    PROVE  LimitsFollow'
<1>0. ProcessTypeOK
  BY DEF AgentTypeOK
<1> USE DEF process, panel, agent
<1>1. CASE \/ EditStructure \/ (\E u \in User : EditUser(u)) \/ PollConfig
           \/ GenerateAndWrite \/ UNCHANGED vars
  <2>1. UNCHANGED <<proc, xray, known, todo, failures>>
    BY <1>1 DEF EditStructure, EditUser, PollConfig, GenerateAndWrite, vars
  <2>2. QED BY <2>1 DEF LimitsFollow, Serving
<1>2. CASE RestartStops \/ RestartWaits \/ Processes
  <2>1. UNCHANGED <<known, todo, failures>>
    BY <1>2 DEF RestartStops, RestartWaits, Processes
  <2>2. \A s \in Slot : proc'[s] # "free" => xray'[s] = xray[s]
    BY <1>2 DEF RestartStops, RestartWaits, Processes
  <2>3. \A s \in Slot : /\ proc'[s] = "booting" => proc[s] = "booting"
                        /\ proc'[s] = "up" => proc[s] \in {"booting", "up"}
    BY <1>0, <1>2, FreshShrinks DEF RestartStops, RestartWaits, Processes
  <2>4. \A u \in User : None[u] = 0
    BY DEF None
  <2>5. QED BY <2>1, <2>2, <2>3, <2>4 DEF LimitsFollow, Serving
<1>3. CASE RestartStarts
  <2>1. \A s \in Slot : proc'[s] # "free" => proc'[s] = "booting" /\ xray'[s].limit = None
    BY <1>3, StartIsFresh
  <2>2. QED BY <2>1 DEF LimitsFollow, Serving
<1>4. CASE PollUsers
  <2>1. /\ UNCHANGED <<proc, xray, failures>>
        /\ todo = Idle /\ todo' = Difference(known, known')
    BY <1>4 DEF PollUsers
  <2>2. todo'.limits = {u \in User : known.limit[u] # known'.limit[u]}
    BY <2>1 DEF Difference
  <2>3. QED BY <2>1, <2>2 DEF LimitsFollow, Serving, Idle
<1>5. ASSUME NEW u \in User, HotRemove(u) \/ HotAdd(u)
      PROVE  LimitsFollow'
  <2>1. UNCHANGED <<proc, known, failures>>
    BY <1>5 DEF HotRemove, HotAdd
  <2>2. \A t \in Slot : xray'[t].limit = xray[t].limit
    BY <1>5, HotRemoves, HotAdds DEF CredSet
  <2>3. todo'.limits = todo.limits
    BY <1>5, HotRemoves, HotAdds DEF AgentTypeOK
  <2>4. QED BY <2>1, <2>2, <2>3 DEF LimitsFollow, Serving
<1>6. ASSUME NEW u \in User, HotLimit(u)
      PROVE  LimitsFollow'
  <2>1. UNCHANGED <<proc, known, failures>>
    BY <1>6 DEF HotLimit
  <2>2. PICK s \in Serving : LimitSet(s, u, known.limit[u])
    BY <1>6, HotLimits
  <2>3. todo'.limits = todo.limits \ {u}
    BY <1>6, HotLimits DEF AgentTypeOK
  <2>4. \A t \in Slot : proc[t] = "booting" => t # s
    BY DEF Serving
  <2>5. \A t \in Slot : proc[t] = "booting" => xray'[t].limit = xray[t].limit
    <3>1. TAKE t \in Slot
    <3>2. HAVE proc[t] = "booting"
    <3>3. xray'[t] \in Row /\ xray[t] \in Row
      BY <1>6, TypeStep DEF AgentTypeOK, Next, UserLoop, HotSync
    <3>4. \A v \in User : xray'[t].limit[v] = xray[t].limit[v]
      BY <2>2, <2>4, <3>2 DEF LimitSet
    <3>5. QED BY <3>3, <3>4 DEF Row
  <2>6. \A t \in Serving : t = s
    BY <1>0 DEF OneProcess, Serving, ProcessTypeOK
  <2>7. QED BY <2>1, <2>2, <2>3, <2>5, <2>6 DEF LimitsFollow, Serving, LimitSet
<1>7. ASSUME NEW u \in User, NEW kind \in {"remove", "add", "limits"}, HotFails(u, kind)
      PROVE  LimitsFollow'
  <2>1. UNCHANGED <<proc, xray, known>>
    BY <1>7 DEF HotFails
  <2>2. failures' = 0 => Serving = {} /\ failures = 0
    BY <1>7 DEF HotFails, AgentTypeOK
  <2>3. QED BY <2>1, <2>2 DEF LimitsFollow, Serving
<1>8. QED
  BY <1>1, <1>2, <1>3, <1>4, <1>5, <1>6, <1>7 DEF Next, ConfigLoop, UserLoop, HotSync
-----------------------------------------------------------------------------
(* The theorems.                                                           *)

LEMMA AgentInit == Init => AgentInv
<1> SUFFICES ASSUME Init PROVE AgentInv
  OBVIOUS
<1>1. AgentTypeOK
  BY TypeInit
<1>2. OneProcess
  BY ProcessInitOne DEF Init
<1>3. /\ cmd \in Slot /\ \A s \in Slot : s # cmd => proc[s] = "free"
      /\ \A s \in Slot : xray[s] = IF s = cmd THEN [db EXCEPT !.limit = None] ELSE Blank
  BY SlotAssumption DEF Init, ProcessInit
<1>4. xray[cmd] = [cred |-> db.cred, limit |-> None, structure |-> 0]
  BY <1>3 DEF Init
<1>5. held.structure = 0 /\ known.cred = db.cred /\ cloop = "idle" /\ todo = Idle
  BY DEF Init
<1>6. FileApplied
  BY <1>3, <1>4, <1>5 DEF FileApplied, Fresh
<1>7. UsersFollow
  BY <1>3, <1>4, <1>5 DEF UsersFollow, Fresh, Idle
<1>8. LimitsFollow
  <2>1. \A u \in User : None[u] = 0
    BY DEF None
  <2>2. \A s \in Slot : proc[s] \in {"booting", "up"} => xray[s].limit = None
    BY <1>3, <1>4
  <2>3. QED BY <2>1, <2>2 DEF LimitsFollow, Serving
<1>9. QED BY <1>1, <1>2, <1>6, <1>7, <1>8 DEF AgentInv

LEMMA AgentInvariant ==
    ASSUME Prompt
    PROVE  Spec => []AgentInv
<1>1. AgentInv /\ [Next]_vars => AgentInv'
  <2>1. AgentTypeOK /\ OneProcess /\ [Next]_vars => OneProcess'
    BY NodeProcessStep, OneProcessStep DEF AgentTypeOK
  <2>2. QED BY <2>1, TypeStep, FileStep, UsersStep, LimitsStep DEF AgentInv
<1>2. QED BY <1>1, AgentInit, PTL DEF Spec

\* A poll of the config loop that ended has put its file into effect: whatever
\* came between, boots, crashes, signals that failed or kills, the Xray that
\* serves between two polls has the structure the agent holds
\* (syncConfig, generateAndWriteConfig, Restart).
THEOREM AppliedCorrect ==
    ASSUME Prompt
    PROVE  Spec => []AppliedAfterPoll
<1>1. AgentInv => AppliedAfterPoll
  BY DEF AgentInv, FileApplied, Fresh, Serving, AppliedAfterPoll
<1>2. QED BY <1>1, AgentInvariant, PTL

\* When no call of the user loop failed and no list was fetched between the
\* write of the file and Xray's start, the running Xray knows the very emails
\* the agent believes it to know (hotSyncUsers).
THEOREM HotSyncCorrect ==
    ASSUME Prompt
    PROVE  Spec => []HotSyncComplete
<1>1. AgentInv => HotSyncComplete
  <2> SUFFICES ASSUME AgentInv, todo = Idle, ~ missed, NEW s \in Serving
               PROVE  Listed(xray[s].cred) = Listed(known.cred)
    BY DEF HotSyncComplete
  <2>1. s \in Fresh
    BY DEF Serving, Fresh
  <2>2. \A u \in User : known.cred[u] # 0 <=> xray[s].cred[u] # 0
    BY <2>1 DEF AgentInv, UsersFollow, Idle
  <2>3. QED BY <2>2 DEF Listed
<1>2. QED BY <1>1, AgentInvariant, PTL

\* A limit that was changed or lifted does not stay in force: unless a call
\* failed, each limit of the running Xray is the one the agent holds
\* (hotSyncRateLimits).
THEOREM LimitsCorrect ==
    ASSUME Prompt
    PROVE  Spec => []NoStaleLimit
<1>1. AgentInv => NoStaleLimit
  BY DEF AgentInv, LimitsFollow, NoStaleLimit, Idle
<1>2. QED BY <1>1, AgentInvariant, PTL
=============================================================================
