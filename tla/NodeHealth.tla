----------------------------- MODULE NodeHealth -----------------------------
(***************************************************************************)
(* Whether the panel takes a node for usable: the agent's status reports,  *)
(* the periodic health check with its failure and recovery counters in     *)
(* Redis, the operator's edits, and the selection that reads the result.   *)
(*                                                                         *)
(* The check works on rows it read at its start; reports, restarts of the  *)
(* agent and edits happen between any two of its steps.  Time is counted   *)
(* in intervals of the agent's status report.                              *)
(***************************************************************************)
EXTENDS Naturals

CONSTANTS
    Timeout,       \* healthCheck.timeoutSeconds
    CheckEvery,    \* the period of the job
    Unhealthy,     \* healthCheck.unhealthyThreshold
    Healthy,       \* healthCheck.healthyThreshold
    MaxFailures,   \* bound: runs of the job that fail
    MaxEdits       \* bound: edits by an operator

Excluded == 3      \* unhealthyCount from which the selector leaves a node out

\* The timeout leaves room for a late report and a slow check.  A group's own
\* unhealthyThreshold below the selector's is another matter: its nodes
\* are marked offline, and the next report makes them selectable again.
ASSUME TimeoutAssumption == Timeout \in Nat /\ Timeout >= 3 /\ CheckEvery \in Nat \ {0}
ASSUME ThresholdAssumption == Unhealthy \in Nat /\ Unhealthy >= Excluded /\ Healthy \in Nat \ {0}
ASSUME BoundAssumption == MaxFailures \in Nat /\ MaxEdits \in Nat

VARIABLES
    status,     \* Node.status
    silent,     \* time since Node.lastSeenAt
    told,       \* the load in the node's status key, in Redis
    count,      \* node:health:<id>
    recovery,   \* node:recovery:<id>
    group,      \* the node's group: none, or one whose check is on or off
    load,       \* the node: its load, or down
    reporting,  \* a report has written Redis and not yet the row
    job,        \* the health check: its step and the row it read
    due,        \* time until the next check
    failures, edits,
    judged,     \* history: checks that found the node unhealthy, in a row
    watched     \* history: how long the node has been silent in a checked group

row == <<status, silent>>
keys == <<told, count, recovery>>
bounds == <<failures, edits>>
vars == <<row, keys, group, load, reporting, job, due, bounds, judged, watched>>

\* How long a dead node may stay selected: the timeout, a check per strike,
\* a failed run or more, and the time of a run.
Limit == Timeout + CheckEvery * (Excluded + MaxFailures) + 2
Capped(n, max) == IF n < max THEN n ELSE max
NoJob == [pc |-> "idle", status |-> "offline", silent |-> 0, age |-> 0]

TypeOK ==
    /\ status \in {"online", "offline", "maintenance"}
    /\ silent \in 0..Limit /\ watched \in 0..Limit
    /\ told \in {"none", "low", "high"}
    /\ count \in 0..Unhealthy /\ recovery \in 0..Healthy
    /\ judged \in 0..Excluded
    /\ group \in {"none", "on", "off"}
    /\ load \in {"low", "high", "down"} /\ reporting \in BOOLEAN
    /\ job \in [pc : {"idle", "read", "unhealthy", "mark", "healthy", "markOnline", "ungrouped"},
                status : {"online", "offline", "maintenance"},
                silent : 0..Limit, age : 0..1]
    /\ due \in 0..CheckEvery
    /\ failures \in 0..MaxFailures /\ edits \in 0..MaxEdits

Init ==
    /\ status = "offline" /\ silent = Limit
    /\ told = "none" /\ count = 0 /\ recovery = 0
    /\ group \in {"none", "on", "off"} /\ load = "down" /\ reporting = FALSE
    /\ job = NoJob /\ due = CheckEvery
    /\ failures = 0 /\ edits = 0 /\ judged = 0 /\ watched = 0
-----------------------------------------------------------------------------
(* The node and its agent.                                                 *)

\* registerNode, when the agent starts.
Register ==
    /\ load = "down" /\ load' \in {"low", "high"}
    /\ status' = "online" /\ silent' = 0 /\ watched' = 0
    /\ UNCHANGED <<keys, group, reporting, job, due, bounds, judged>>

\* A node goes down, or is cut off, and comes back.
LoadChanges ==
    /\ ~reporting /\ load' \in {"low", "high", "down"} \ {load}
    /\ UNCHANGED <<row, keys, group, reporting, job, due, bounds, judged, watched>>

\* MUTANT of StatusKey: the report forgives the failures.
StatusKeyForgiving == told' = load /\ count' = 0 /\ recovery' = recovery

StatusKey == told' = load /\ UNCHANGED <<count, recovery>>

\* reportStatus writes the key, and then the row: whatever status it had.
Report ==
    /\ load # "down" /\ ~reporting /\ silent > 0 /\ reporting' = TRUE
    /\ StatusKey
    /\ UNCHANGED <<row, group, load, job, due, bounds, judged, watched>>

ReportRow ==
    /\ reporting /\ reporting' = FALSE
    /\ status' = "online" /\ silent' = 0 /\ watched' = 0
    /\ UNCHANGED <<keys, group, load, job, due, bounds, judged>>
-----------------------------------------------------------------------------
(* Operators.                                                              *)

SetStatus ==
    /\ edits < MaxEdits /\ edits' = edits + 1
    /\ status' \in {"online", "offline", "maintenance"} \ {status}
    /\ UNCHANGED <<silent, keys, group, load, reporting, job, due, failures, judged, watched>>

\* addNode, removeNode, a group deleted, its check switched on or off.
SetGroup ==
    /\ edits < MaxEdits /\ edits' = edits + 1
    /\ group' \in {"none", "on", "off"} \ {group}
    /\ judged' = 0 /\ watched' = 0
    /\ UNCHANGED <<row, keys, load, reporting, job, due, failures>>
-----------------------------------------------------------------------------
(* The health check.                                                       *)

\* findMany reads the node's row; a group whose check is off is passed over.
StartCheck ==
    /\ job.pc = "idle" /\ due = 0 /\ due' = CheckEvery
    /\ job' = [pc |-> IF group = "on" THEN "read" ELSE "ungrouped",
               status |-> status, silent |-> silent, age |-> 0]
    /\ UNCHANGED <<row, keys, group, load, reporting, bounds, judged, watched>>

\* MUTANT of Evaluated: only the reported load counts.
EvaluatedByLoad == told # "high"

Evaluated == job.silent <= Timeout /\ told # "high"

\* evaluateHealth: the row that was read, the key as it is now.
Evaluate ==
    /\ job.pc = "read"
    /\ job' = [job EXCEPT !.pc = IF Evaluated THEN "healthy" ELSE "unhealthy"]
    /\ UNCHANGED <<row, keys, group, load, reporting, due, bounds, judged, watched>>

CountFailure ==
    /\ job.pc = "unhealthy"
    /\ count' = Capped(count + 1, Unhealthy) /\ recovery' = 0
    /\ judged' = IF group = "on" THEN Capped(judged + 1, Excluded) ELSE judged
    /\ job' = [job EXCEPT !.pc = IF count + 1 >= Unhealthy /\ job.status = "online"
                                 THEN "mark" ELSE "ungrouped"]
    /\ UNCHANGED <<row, told, group, load, reporting, due, bounds, watched>>

\* MUTANT of MarkOffline: a status that nobody looks for.
MarkUnhealthy ==
    /\ job.pc = "mark" /\ job' = [job EXCEPT !.pc = "ungrouped"]
    /\ status' = "unhealthy"
    /\ UNCHANGED <<silent, keys, group, load, reporting, due, bounds, judged, watched>>

MarkOffline ==
    /\ job.pc = "mark" /\ job' = [job EXCEPT !.pc = "ungrouped"]
    /\ status' = "offline"
    /\ UNCHANGED <<silent, keys, group, load, reporting, due, bounds, judged, watched>>

\* MUTANT of Cleared: only a recovery clears the failures.
ClearedByRecovery == count' = count /\ recovery' = recovery

Cleared == count' = 0 /\ recovery' = recovery

\* An offline node needs several good checks, any other just this one.
CountSuccess ==
    /\ job.pc = "healthy" /\ judged' = 0
    /\ IF job.status = "offline"
       THEN /\ recovery' = Capped(recovery + 1, Healthy) /\ count' = count
            /\ job' = [job EXCEPT !.pc = IF recovery + 1 >= Healthy THEN "markOnline" ELSE "ungrouped"]
       ELSE Cleared /\ job' = [job EXCEPT !.pc = "ungrouped"]
    /\ UNCHANGED <<row, told, group, load, reporting, due, bounds, watched>>

MarkOnline ==
    /\ job.pc = "markOnline" /\ job' = [job EXCEPT !.pc = "ungrouped"]
    /\ status' = "online" /\ count' = 0 /\ recovery' = 0
    /\ UNCHANGED <<silent, told, group, load, reporting, due, bounds, judged, watched>>

\* checkUngroupedNodes: one statement on the rows as they are.
CheckUngrouped ==
    /\ job.pc = "ungrouped" /\ job' = NoJob
    /\ status' = IF status = "online" /\ group = "none" /\ silent > Timeout
                 THEN "offline" ELSE status
    /\ UNCHANGED <<silent, keys, group, load, reporting, due, bounds, judged, watched>>

\* A query fails: what was done stays, and the job waits for its next time.
FailCheck ==
    /\ job.pc # "idle" /\ failures < MaxFailures /\ failures' = failures + 1
    /\ job' = NoJob
    /\ UNCHANGED <<row, keys, group, load, reporting, due, edits, judged, watched>>

\* A check is done within one interval, and starts in the one it is due in;
\* a node that is up reports at the latest one interval late.
\* The status key outlives its report by a minute.
Tick ==
    /\ due > 0 /\ job.age = 0 /\ (load = "down" \/ silent < 2)
    /\ due' = due - 1
    /\ silent' = Capped(silent + 1, Limit)
    /\ told' = IF silent + 1 > Timeout THEN "none" ELSE told
    /\ watched' = IF group = "on" /\ load = "down" THEN Capped(watched + 1, Limit) ELSE 0
    /\ job' = IF job.pc = "idle" THEN job
              ELSE [job EXCEPT !.age = 1, !.silent = Capped(@ + 1, Limit)]
    /\ UNCHANGED <<status, count, recovery, group, load, reporting, bounds, judged>>

\* The counters live ten minutes, longer than a check leaves them alone: they
\* expire when the node is not checked.
Expire ==
    /\ group # "on" /\ job.pc = "idle" /\ <<count, recovery>> # <<0, 0>>
    /\ count' = 0 /\ recovery' = 0
    /\ UNCHANGED <<row, told, group, load, reporting, job, due, bounds, judged, watched>>
-----------------------------------------------------------------------------
CheckStep == StartCheck \/ Evaluate \/ CountFailure \/ MarkOffline \/ CountSuccess
                 \/ MarkOnline \/ CheckUngrouped

Next ==
    \/ Register \/ LoadChanges \/ Report \/ ReportRow
    \/ SetStatus \/ SetGroup
    \/ CheckStep \/ FailCheck \/ Tick \/ Expire

\* Time passes, the job runs, and the agent's ticker reports.
Fairness == WF_vars(Tick) /\ WF_vars(CheckStep) /\ WF_vars(ReportRow) /\ WF_vars(Report)

Spec == Init /\ [][Next]_vars /\ Fairness
-----------------------------------------------------------------------------
(* Properties.                                                             *)

\* selectNode: the nodes of a group it may return.
Selectable == group # "none" /\ status = "online" /\ count < Excluded

\* However reports, edits, failed runs and rows read too early interleave, a
\* node that died in a checked group is not selected beyond the limit.
DeadIsOut == watched >= Limit => ~Selectable

\* A node that the checks found unhealthy three times in a row is not
\* selected, although every status report marks it online again.
OverloadStaysOut == judged >= Excluded => ~Selectable

\* A node that is up and well in a checked group is selected in the end,
\* whatever failures, marks and edits it went through.
Well == load = "low" /\ group = "on"
Recovers == <>[]Well => <>[]Selectable
=============================================================================
