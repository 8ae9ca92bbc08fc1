---------------------------- MODULE XrayProcess ----------------------------
(***************************************************************************)
(* The agent's process manager: one command slot, one flag and, for every  *)
(* process it started, a goroutine that waits for the process and then     *)
(* clears the flag.  A stop holds the manager's lock while it waits, so    *)
(* goroutines that came back from their wait queue up behind it.           *)
(*                                                                         *)
(* Xray binds its ports when it boots and exits when they are taken.       *)
(* Slots are reused once their process and goroutine are gone.             *)
(***************************************************************************)
EXTENDS Naturals, FiniteSets

CONSTANTS
    Slot,       \* bound: processes at the same time, with their goroutines
    MaxCrashes, \* bound: how often Xray dies by itself
    Prompt      \* whether 500 ms are enough for a killed process to be gone
                \* and for its goroutine to have cleared the flag

ASSUME SlotAssumption == Slot # {} /\ IsFiniteSet(Slot)
ASSUME ProcessAssumption == MaxCrashes \in Nat /\ Prompt \in BOOLEAN

VARIABLES
    proc,     \* state of each process, with its goroutine's
    cmd,      \* the manager's command: the process started last
    running,  \* the manager's flag
    stop,     \* the stop that holds the lock, or holds it no more
    crashes

process == <<proc, cmd, running, stop, crashes>>

\* dead, stopped: exited, by itself or after a signal, and not waited for
\* yet; reaped: its goroutine is back from the wait and wants the lock
ProcState == {"free", "booting", "up", "term", "kill", "dead", "stopped", "reaped"}

Alive   == {s \in Slot : proc[s] \in {"booting", "up", "term", "kill"}}
Bound   == {s \in Slot : proc[s] \in {"up", "term", "kill"}}
Serving == {s \in Slot : proc[s] = "up"}

ProcessTypeOK ==
    /\ proc \in [Slot -> ProcState]
    /\ cmd \in Slot /\ running \in BOOLEAN
    /\ stop \in {"none", "waiting", "done"}
    /\ crashes \in 0..MaxCrashes

\* Manager.Start has started the first process.
ProcessInit ==
    /\ cmd = CHOOSE s \in Slot : TRUE
    /\ proc = [s \in Slot |-> IF s = cmd THEN "booting" ELSE "free"]
    /\ running = TRUE /\ stop = "none" /\ crashes = 0

Becomes(s, state) == proc' = [proc EXCEPT ![s] = state]
-----------------------------------------------------------------------------
(* Start and Stop, as the manager's Restart calls them: a start always      *)
(* follows a stop that returned, so that Start never finds the flag set.   *)

StartProcess ==
    /\ ~running
    /\ \E s \in Slot : proc[s] = "free"
    /\ cmd' = CHOOSE s \in Slot : proc[s] = "free"
    /\ Becomes(cmd', "booting")
    /\ running' = TRUE /\ stop' = "none"
    /\ UNCHANGED crashes

StopNothing == ~running /\ stop' = "done" /\ UNCHANGED <<proc, cmd, running, crashes>>

\* The signal fails once the goroutine has waited for the process.
SignalFails == running /\ proc[cmd] = "reaped" /\ UNCHANGED process

SignalTerm ==
    /\ running /\ proc[cmd] # "reaped"
    /\ proc' = [proc EXCEPT ![cmd] = IF @ \in {"booting", "up"} THEN "term" ELSE @]
    /\ stop' = "waiting"
    /\ UNCHANGED <<cmd, running, crashes>>

\* MUTANT of StopReturns: the stop does not wait for the process to exit.
StopReturnsAtOnce ==
    /\ stop = "waiting"
    /\ running' = FALSE /\ stop' = "done"
    /\ UNCHANGED <<proc, cmd, crashes>>

StopReturns ==
    /\ stop = "waiting" /\ cmd \notin Alive
    /\ running' = FALSE /\ stop' = "done"
    /\ UNCHANGED <<proc, cmd, crashes>>

\* Five seconds later: Kill, and no wait for the process to be gone.
StopKills ==
    /\ stop = "waiting" /\ proc[cmd] = "term"
    /\ Becomes(cmd, "kill")
    /\ running' = FALSE /\ stop' = "done"
    /\ UNCHANGED <<cmd, crashes>>

\* The sleep between Stop and Start.
SleptEnough ==
    Prompt => \A s \in Slot : proc[s] \notin {"kill", "dead", "stopped", "reaped"}
-----------------------------------------------------------------------------
(* The processes and the goroutines that wait for them.                    *)

Boots(s) ==
    /\ proc[s] = "booting"
    /\ Becomes(s, IF Bound = {} THEN "up" ELSE "dead")
    /\ UNCHANGED <<cmd, running, stop, crashes>>

Crashes(s) ==
    /\ proc[s] = "up" /\ crashes < MaxCrashes
    /\ Becomes(s, "dead") /\ crashes' = crashes + 1
    /\ UNCHANGED <<cmd, running, stop>>

Exits(s) ==
    /\ proc[s] \in {"term", "kill"}
    /\ Becomes(s, "stopped")
    /\ UNCHANGED <<cmd, running, stop, crashes>>

Waited(s) ==
    /\ proc[s] \in {"dead", "stopped"}
    /\ Becomes(s, "reaped")
    /\ UNCHANGED <<cmd, running, stop, crashes>>

\* Stop's own wait took what the runtime hands to one of the two: this
\* goroutine never returns.
WaitLost(s) ==
    /\ proc[s] = "stopped"
    /\ Becomes(s, "free")
    /\ UNCHANGED <<cmd, running, stop, crashes>>

\* Whichever process the flag is about by now.
Clears(s) ==
    /\ proc[s] = "reaped" /\ stop # "waiting"
    /\ running' = FALSE /\ Becomes(s, "free")
    /\ UNCHANGED <<cmd, stop, crashes>>

ProcessNext ==
    \E s \in Slot :
        Boots(s) \/ Crashes(s) \/ Exits(s) \/ Waited(s) \/ WaitLost(s) \/ Clears(s)
=============================================================================
