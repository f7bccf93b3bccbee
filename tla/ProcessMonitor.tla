-------------------------- MODULE ProcessMonitor --------------------------
(***************************************************************************)
(* Liveness of nodes through locked files:                                 *)
(* entangle-platform/src/process_monitor.rs over file_lock.rs.  A node     *)
(* opens the file named by its id, creating it, and takes an flock on it   *)
(* for as long as it lives; whoever wants to know whether the node lives   *)
(* tries to take the same lock.  Every system call is a step of its own.   *)
(*                                                                         *)
(* A node's id is drawn anew for every node (node.rs:62), so a file is     *)
(* created once, and both the file and its name are known by the node.  A  *)
(* file that lost its name is still there for those who have it open.      *)
(***************************************************************************)
EXTENDS Naturals

CONSTANTS
    Node,
    Monitor,     \* processes that call cleanup_dead_nodes or is_alive
    NoOne,
    MaxPolls,    \* bound: calls of is_alive
    MaxMonitorCrashes   \* bound: monitors that die; a node dies once

ASSUME HolderAssumption == NoOne \notin Node \union Monitor /\ Node \intersect Monitor = {}
ASSUME PollAssumption == MaxPolls \in Nat /\ MaxMonitorCrashes \in Nat

VARIABLES
    state,     \* where each node is in its life
    nodeFiles, \* the nodes whose file is in the directory
    lock,      \* who has the flock on each node's file
    mpc,       \* where each monitor is
    todo,      \* the nodes its cleanup has listed and not looked at
    at,        \* the node it is looking at
    cleaning,  \* whether it looks on behalf of cleanup_dead_nodes
    polls, monitorCrashes,
    raced      \* history: nodes that took their lock too late, see RegisterLock

monitor == <<mpc, todo, at, cleaning>>
monitorVars == <<state, nodeFiles, lock, monitor, polls, monitorCrashes, raced>>

MonitorInit ==
    /\ state = [n \in Node |-> "absent"]
    /\ nodeFiles = {}
    /\ lock = [n \in Node |-> NoOne]
    /\ mpc = [m \in Monitor |-> "idle"]
    /\ todo = [m \in Monitor |-> {}]
    /\ at = [m \in Monitor |-> NoOne]
    /\ cleaning = [m \in Monitor |-> FALSE]
    /\ polls = 0 /\ monitorCrashes = 0 /\ raced = {}

Become(n, s) == state' = [state EXCEPT ![n] = s]

\* flock(LOCK_EX | LOCK_NB) by h, and LOCK_UN or the end of the process.
Lock(n, h) == lock[n] = NoOne /\ lock' = [lock EXCEPT ![n] = h]
Unlock(n) == lock' = [lock EXCEPT ![n] = NoOne]
LocksOf(h) == [n \in Node |-> IF lock[n] = h THEN NoOne ELSE lock[n]]

-----------------------------------------------------------------------------
(* The life of a node *)

RegisterOpen(n) ==
    /\ state[n] = "absent"
    /\ Become(n, "opened")
    /\ nodeFiles' = nodeFiles \union {n}
    /\ UNCHANGED <<lock, monitor, polls, monitorCrashes, raced>>

\* Too late: a monitor has found the file unlocked, and has removed it or will.
RegisterLock(n) ==
    /\ state[n] = "opened"
    /\ Lock(n, n)
    /\ Become(n, "live")
    /\ raced' = IF n \notin nodeFiles \/ \E m \in Monitor : at[m] = n /\ mpc[m] = "remove"
                THEN raced \union {n} ELSE raced
    /\ UNCHANGED <<nodeFiles, monitor, polls, monitorCrashes>>

\* A monitor has the lock, to try it: register fails, and the file stays.
RegisterLocked(n) ==
    /\ state[n] = "opened" /\ lock[n] # NoOne
    /\ Become(n, "gone")
    /\ UNCHANGED <<nodeFiles, lock, monitor, polls, monitorCrashes, raced>>

\* Dropping the monitor of a node gives up the lock and leaves the file.
NodeDrop(n) ==
    /\ state[n] = "live"
    /\ Become(n, "gone")
    /\ Unlock(n)
    /\ UNCHANGED <<nodeFiles, monitor, polls, monitorCrashes, raced>>

DeregisterUnlock(n) ==
    /\ state[n] = "live"
    /\ Become(n, "removing")
    /\ Unlock(n)
    /\ UNCHANGED <<nodeFiles, monitor, polls, monitorCrashes, raced>>

\* Fails, to no other effect, when a monitor was faster.
DeregisterRemove(n) ==
    /\ state[n] = "removing"
    /\ Become(n, "gone")
    /\ nodeFiles' = nodeFiles \ {n}
    /\ UNCHANGED <<lock, monitor, polls, monitorCrashes, raced>>

\* The operating system releases the lock of a process that dies.
NodeCrash(n) ==
    /\ state[n] \in {"opened", "live", "removing"}
    /\ Become(n, "gone")
    /\ lock' = LocksOf(n)
    /\ UNCHANGED <<nodeFiles, monitor, polls, monitorCrashes, raced>>

-----------------------------------------------------------------------------
(* cleanup_dead_nodes and is_alive *)

MonitorAt(m, where, n) ==
    /\ mpc' = [mpc EXCEPT ![m] = where]
    /\ at' = [at EXCEPT ![m] = n]

\* list_nodes
CleanupCall(m) ==
    /\ mpc[m] = "idle" /\ nodeFiles # {}
    /\ MonitorAt(m, "next", NoOne)
    /\ todo' = [todo EXCEPT ![m] = nodeFiles]
    /\ cleaning' = [cleaning EXCEPT ![m] = TRUE]
    /\ UNCHANGED <<state, nodeFiles, lock, polls, monitorCrashes, raced>>

\* The next node of the list, which is in no order.
CleanupNext(m) ==
    /\ mpc[m] = "next"
    /\ \E n \in todo[m] :
          /\ MonitorAt(m, "open", n)
          /\ todo' = [todo EXCEPT ![m] = @ \ {n}]
    /\ UNCHANGED <<state, nodeFiles, lock, cleaning, polls, monitorCrashes, raced>>

CleanupReturn(m) ==
    /\ mpc[m] = "next" /\ todo[m] = {}
    /\ MonitorAt(m, "idle", NoOne)
    /\ UNCHANGED <<state, nodeFiles, lock, todo, cleaning, polls, monitorCrashes, raced>>

IsAlive(m, n) ==
    /\ mpc[m] = "idle" /\ polls < MaxPolls
    /\ MonitorAt(m, "open", n)
    /\ cleaning' = [cleaning EXCEPT ![m] = FALSE]
    /\ polls' = polls + 1
    /\ UNCHANGED <<state, nodeFiles, lock, todo, monitorCrashes, raced>>

\* What follows is_locked: is_alive returns; cleanup removes the file of a dead node and
\* passes over that of a live one.
Verdict(m, alive) ==
    \/ ~cleaning[m] /\ MonitorAt(m, "idle", NoOne)
    \/ cleaning[m] /\ alive /\ MonitorAt(m, "next", NoOne)
    \/ cleaning[m] /\ ~alive /\ MonitorAt(m, "remove", at[m])

\* is_locked: without a file, no.
ProbeOpen(m) ==
    /\ mpc[m] = "open"
    /\ \/ at[m] \in nodeFiles /\ MonitorAt(m, "probe", at[m])
       \/ at[m] \notin nodeFiles /\ Verdict(m, FALSE)
    /\ UNCHANGED <<state, nodeFiles, lock, todo, cleaning, polls, monitorCrashes, raced>>

ProbeLock(m) ==
    /\ mpc[m] = "probe"
    /\ Lock(at[m], m)
    /\ MonitorAt(m, "unlock", at[m])
    /\ UNCHANGED <<state, nodeFiles, todo, cleaning, polls, monitorCrashes, raced>>

\* The result of the attempt to lock is not looked at.
ProbeLockedIgnored(m) ==
    /\ mpc[m] = "probe" /\ lock[at[m]] # NoOne
    /\ Verdict(m, FALSE)
    /\ UNCHANGED <<state, nodeFiles, lock, todo, cleaning, polls, monitorCrashes, raced>>

\* The cleanup ends with the first node that lives.
ProbeLockedStops(m) ==
    /\ mpc[m] = "probe" /\ lock[at[m]] # NoOne
    /\ MonitorAt(m, "idle", NoOne)
    /\ UNCHANGED <<state, nodeFiles, lock, todo, cleaning, polls, monitorCrashes, raced>>

ProbeLocked(m) ==
    /\ mpc[m] = "probe" /\ lock[at[m]] # NoOne
    /\ Verdict(m, TRUE)
    /\ UNCHANGED <<state, nodeFiles, lock, todo, cleaning, polls, monitorCrashes, raced>>

ProbeUnlock(m) ==
    /\ mpc[m] = "unlock"
    /\ Unlock(at[m])
    /\ Verdict(m, FALSE)
    /\ UNCHANGED <<state, nodeFiles, todo, cleaning, polls, monitorCrashes, raced>>

\* A file that is gone by now is only logged.
RemoveNode(m) ==
    /\ mpc[m] = "remove"
    /\ nodeFiles' = nodeFiles \ {at[m]}
    /\ MonitorAt(m, "next", NoOne)
    /\ UNCHANGED <<state, lock, todo, cleaning, polls, monitorCrashes, raced>>

\* A monitor dies, and one like it is started in its place.
MonitorCrash(m) ==
    /\ monitorCrashes < MaxMonitorCrashes /\ mpc[m] # "idle"
    /\ MonitorAt(m, "idle", NoOne)
    /\ todo' = [todo EXCEPT ![m] = {}]
    /\ lock' = LocksOf(m)
    /\ monitorCrashes' = monitorCrashes + 1
    /\ UNCHANGED <<state, nodeFiles, cleaning, polls, raced>>

-----------------------------------------------------------------------------
NodeStep(n) == RegisterLock(n) \/ RegisterLocked(n) \/ DeregisterRemove(n)

MonitorStep(m) ==
    \/ CleanupNext(m) \/ CleanupReturn(m)
    \/ ProbeOpen(m) \/ ProbeLock(m) \/ ProbeLocked(m) \/ ProbeUnlock(m) \/ RemoveNode(m)

MonitorNext ==
    \/ \E n \in Node :
          \/ RegisterOpen(n) \/ NodeDrop(n) \/ DeregisterUnlock(n) \/ NodeCrash(n)
          \/ NodeStep(n)
    \/ \E m \in Monitor :
          \/ CleanupCall(m) \/ MonitorCrash(m) \/ MonitorStep(m)
          \/ \E n \in Node : IsAlive(m, n)

\* Calls under way proceed, and every monitor calls cleanup_dead_nodes again and again.
MonitorFairness ==
    /\ \A n \in Node : WF_monitorVars(NodeStep(n))
    /\ \A m \in Monitor : WF_monitorVars(CleanupCall(m)) /\ WF_monitorVars(MonitorStep(m))

MonitorSafetySpec == MonitorInit /\ [][MonitorNext]_monitorVars
MonitorSpec == MonitorSafetySpec /\ MonitorFairness

-----------------------------------------------------------------------------
(* Properties *)

\* Every variable stays in its range, and a lock has a holder that knows of it: the node
\* itself while it lives, or a monitor between trying the lock and giving it back.
MonitorTypeOK ==
    /\ state \in [Node -> {"absent", "opened", "live", "removing", "gone"}]
    /\ nodeFiles \subseteq Node /\ raced \subseteq Node
    /\ lock \in [Node -> Node \union Monitor \union {NoOne}]
    /\ mpc \in [Monitor -> {"idle", "next", "open", "probe", "unlock", "remove"}]
    /\ todo \in [Monitor -> SUBSET Node]
    /\ at \in [Monitor -> Node \union {NoOne}]
    /\ cleaning \in [Monitor -> BOOLEAN]
    /\ polls \in 0 .. MaxPolls /\ monitorCrashes \in 0 .. MaxMonitorCrashes
    /\ \A n \in Node :
          /\ lock[n] \in Node => lock[n] = n /\ state[n] = "live"
          /\ lock[n] \in Monitor => mpc[lock[n]] = "unlock" /\ at[lock[n]] = n

\* cleanup_dead_nodes removes "lock files for processes that are no longer alive"
\* (process_monitor.rs:79): a node that had its lock before any monitor found the file
\* without it keeps its file and its lock for as long as it lives, whatever monitors
\* list, try and remove, and whichever of them die.  Between the attempt and the removal
\* there is no lock, so a node that takes its lock then is removed alive; the property
\* does not cover it.
EstablishedNodesKept ==
    \A n \in Node : state[n] = "live" /\ n \notin raced => n \in nodeFiles /\ lock[n] = n

\* What a monitor in the middle of a probe knows: it looks at some node; while it has the
\* lock, the node has not; and if a node it is about to remove lives, the node was late.
MonitorsKnow ==
    \A m \in Monitor :
        /\ mpc[m] \in {"open", "probe", "unlock", "remove"} => at[m] \in Node
        /\ mpc[m] = "unlock" => lock[at[m]] = m
        /\ mpc[m] = "remove" /\ state[at[m]] = "live" => at[m] \in raced

\* A live node has its lock, late or not.
LiveHoldsLock == \A n \in Node : state[n] = "live" => lock[n] = n

(* The inductive invariant behind EstablishedNodesKept. *)
MonitorInv == MonitorTypeOK /\ LiveHoldsLock /\ MonitorsKnow /\ EstablishedNodesKept

\* A node that died, was dropped or failed to register does not stay in the directory,
\* as long as somebody calls cleanup_dead_nodes: monitors that try the same lock at the
\* same time take the node for alive, but never all of them.
DeadNodesCleaned ==
    \A n \in Node : (state[n] = "gone" /\ n \in nodeFiles) ~> n \notin nodeFiles
=============================================================================
