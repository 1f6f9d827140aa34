----------------------------- MODULE Deployments -----------------------------
(***************************************************************************)
(* The deployment manager: the rows of deployments, the manager's map of   *)
(* listeners under its mutex, and the sockets behind them.  Requests       *)
(* create, start, stop and delete deployments; the main goroutine restores *)
(* the running ones at startup and stops all of them at shutdown.          *)
(*                                                                         *)
(* Start holds the mutex from its first check to its last write.  Stop     *)
(* holds it only to take the entry out of the map: it closes the socket    *)
(* and writes the row without it, and so does Delete with its last write.  *)
(***************************************************************************)
EXTENDS Integers

CONSTANTS
  Deps,         \* ids of deployments, each used once
  Ports,        \* the ports they may have
  PortOf,       \* the port in the request that creates the deployment
  Clients,      \* concurrent requests
  Main,         \* the goroutine that runs NewAPIApp, run and Close
  Nobody,       \* no holder of the mutex
  NoDep,        \* no deployment
  Faults,       \* what may go wrong, a subset of FaultKinds
  MaxRestarts   \* bound on the number of process restarts

FaultKinds ==
  {"listen",    \* the directory is missing, or the listener does not come up
   "dies",      \* a server ends by itself
   "database",  \* an SQL statement returns an error
   "request",   \* the client goes away
   "drain",     \* handlers outlive the 5 seconds of server.Shutdown
   "crash"}     \* the process dies

Actors == Clients \cup {Main}

ASSUME ConstantsOK ==
  /\ PortOf \in [Deps -> Ports]
  /\ Main \notin Clients
  /\ Nobody \notin Clients \cup {Main}
  /\ NoDep \notin Deps
  /\ Faults \subseteq FaultKinds
  /\ MaxRestarts \in Nat

VARIABLES
  row,        \* status of the row; "new" before it is created, "gone" after
  listeners,  \* the manager's map: no entry, a live server, or one that ended
  mu,         \* holder of Manager.mu
  pc,         \* control state of each actor
  dep,        \* the deployment it works on
  goal,       \* the operation it performs
  sock,       \* the server that a Stop has taken out of the map
  phase,      \* what the main goroutine is doing
  signaled,   \* the lifecycle context is cancelled
  todo,       \* deployments it has still to restore or to stop
  restarts,   \* number of restarts so far
  adrift,     \* history: the last write of the row's status was lost
  raced       \* history: started while it was being stopped or deleted

act  == <<pc, dep, goal, sock>>
proc == <<phase, signaled, todo, restarts>>
hist == <<adrift, raced>>
vars == <<row, listeners, mu, act, proc, hist>>

Rows == {"stopped", "running"}

StopPc == {"stopTake", "stopClose", "stopMark"}

TypeOK ==
  /\ row \in [Deps -> Rows \cup {"new", "gone"}]
  /\ listeners \in [Deps -> {"none", "live", "dead"}]
  /\ mu \in Actors \cup {Nobody}
  /\ pc \in [Actors -> StopPc \cup {"idle", "createInsert", "startGet",
                "startListen", "startMark", "restoreMark", "deleteRow"}]
  /\ dep \in [Actors -> Deps \cup {NoDep}]
  /\ goal \in [Actors -> {"none", "create", "start", "stop", "delete"}]
  /\ sock \in [Actors -> {"none", "live", "dead"}]
  /\ phase \in {"listing", "restoring", "up", "draining", "closing", "down"}
  /\ signaled \in BOOLEAN
  /\ todo \subseteq Deps
  /\ restarts \in 0..MaxRestarts
  /\ adrift \subseteq Deps
  /\ raced \subseteq Deps

Init ==
  /\ row = [d \in Deps |-> "new"]
  /\ listeners = [d \in Deps |-> "none"]
  /\ mu = Nobody
  /\ pc = [a \in Actors |-> "idle"]
  /\ dep = [a \in Actors |-> NoDep]
  /\ goal = [a \in Actors |-> "none"]
  /\ sock = [a \in Actors |-> "none"]
  /\ phase = "listing"
  /\ signaled = FALSE
  /\ todo = {}
  /\ restarts = 0
  /\ adrift = {}
  /\ raced = {}

(***************************************************************************)
(* Steps of an actor.                                                      *)
(***************************************************************************)
Begin(a, g, d, where) ==
  /\ pc' = [pc EXCEPT ![a] = where]
  /\ dep' = [dep EXCEPT ![a] = d]
  /\ goal' = [goal EXCEPT ![a] = g]
  /\ UNCHANGED sock

Goto(a, where) ==
  /\ pc' = [pc EXCEPT ![a] = where]
  /\ UNCHANGED <<dep, goal, sock>>

End(a) == Begin(a, "none", NoDep, "idle")

Free == mu = Nobody

(* Requests arrive until server.Shutdown closes the API's listener. *)
Accepting == phase = "up"

(* A call with the lifecycle context fails once that is cancelled; one with *)
(* a request's context may fail because the client has gone.  StopAll uses  *)
(* a background context.                                                    *)
Expired(a) == a = Main /\ phase = "restoring" /\ signaled

CallFails(a) ==
  \/ Expired(a)
  \/ "database" \in Faults
  \/ a \in Clients /\ "request" \in Faults

(***************************************************************************)
(* Create: look for the port, then insert under the unique index.          *)
(***************************************************************************)
PortTaken(d) == \E e \in Deps : row[e] \in Rows /\ PortOf[e] = PortOf[d]

CreateCheck(c, d) ==
  /\ Accepting
  /\ pc[c] = "idle"
  /\ row[d] = "new"
  /\ \A b \in Actors : dep[b] # d
  /\ ~PortTaken(d)
  /\ Begin(c, "create", d, "createInsert")
  /\ UNCHANGED <<row, listeners, mu, proc, hist>>

(* Mutant of CreateInsert: the ports are not unique in the schema. *)
CreateInsertUnchecked(c) ==
  /\ pc[c] = "createInsert"
  /\ row' = [row EXCEPT ![dep[c]] = "stopped"]
  /\ End(c)
  /\ UNCHANGED <<listeners, mu, proc, hist>>

CreateInsert(c) ==
  /\ pc[c] = "createInsert"
  /\ \/ ~PortTaken(dep[c]) /\ row' = [row EXCEPT ![dep[c]] = "stopped"]
     \/ (PortTaken(dep[c]) \/ CallFails(c)) /\ UNCHANGED row
  /\ End(c)
  /\ UNCHANGED <<listeners, mu, proc, hist>>

(***************************************************************************)
(* Manager.Start.                                                          *)
(***************************************************************************)
StartLock(a, d) ==
  /\ pc[a] = "idle"
  /\ Free
  /\ listeners[d] = "none"
  /\ mu' = a
  /\ Begin(a, "start", d, "startGet")
  /\ UNCHANGED <<row, listeners, hist>>

(* A client may name any deployment it has seen, deleted ones included. *)
StartRequest(c, d) ==
  /\ Accepting
  /\ row[d] # "new"
  /\ StartLock(c, d)
  /\ UNCHANGED proc

(* RestoreRunning writes "stopped" when Start has failed; a handler answers. *)
StartReturns(a, failed) ==
  /\ mu' = Nobody
  /\ IF failed /\ a = Main THEN Goto(a, "restoreMark") ELSE End(a)

(* Mutant of StartGet: the mutex is kept when the row is not found. *)
StartGetKeepsLock(a) ==
  /\ pc[a] = "startGet"
  /\ \/ row[dep[a]] \in Rows /\ ~Expired(a) /\ Goto(a, "startListen")
     \/ (row[dep[a]] \notin Rows \/ CallFails(a)) /\ End(a)
  /\ UNCHANGED <<row, listeners, mu, proc, hist>>

StartGet(a) ==
  /\ pc[a] = "startGet"
  /\ \/ row[dep[a]] \in Rows /\ ~Expired(a) /\ Goto(a, "startListen") /\ UNCHANGED mu
     \/ (row[dep[a]] \notin Rows \/ CallFails(a)) /\ StartReturns(a, TRUE)
  /\ UNCHANGED <<row, listeners, proc, hist>>

PortBusy(d) ==
  \/ \E e \in Deps : listeners[e] = "live" /\ PortOf[e] = PortOf[d]
  \/ \E a \in Actors : sock[a] = "live" /\ PortOf[dep[a]] = PortOf[d]

(* Somebody has taken the entry of d, or seen that there is none, and will *)
(* write the row without looking again.                                    *)
BeingRemoved(d) ==
  \E b \in Actors : dep[b] = d /\ pc[b] \in {"stopClose", "stopMark", "deleteRow"}

Races(d) == row[d] = "gone" \/ BeingRemoved(d)

(* Mutant of StartListen: the mutex is released once the entry is in. *)
StartListenUnlocks(a) ==
  /\ pc[a] = "startListen"
  /\ ~PortBusy(dep[a])
  /\ listeners' = [listeners EXCEPT ![dep[a]] = "live"]
  /\ raced' = IF Races(dep[a]) THEN raced \cup {dep[a]} ELSE raced
  /\ mu' = Nobody
  /\ Goto(a, "startMark")
  /\ UNCHANGED <<row, proc, adrift>>

(* The directory is looked up, the socket bound, the entry put in the map. *)
StartListen(a) ==
  LET d == dep[a] IN
  /\ pc[a] = "startListen"
  /\ \/ /\ ~PortBusy(d)
        /\ listeners' = [listeners EXCEPT ![d] = "live"]
        /\ raced' = IF Races(d) THEN raced \cup {d} ELSE raced
        /\ Goto(a, "startMark")
        /\ UNCHANGED mu
     \/ /\ PortBusy(d) \/ "listen" \in Faults
        /\ StartReturns(a, TRUE)
        /\ UNCHANGED <<listeners, raced>>
  /\ UNCHANGED <<row, proc, adrift>>

(* UpdateStatus finds the row, or the error leaves the entry in the map. *)
StartMark(a) ==
  LET d == dep[a] IN
  /\ pc[a] = "startMark"
  /\ \/ /\ row[d] \in Rows /\ ~Expired(a)
        /\ row' = [row EXCEPT ![d] = "running"]
        /\ adrift' = adrift \ {d}
        /\ StartReturns(a, FALSE)
     \/ /\ row[d] \notin Rows \/ CallFails(a)
        /\ adrift' = IF row[d] \in Rows THEN adrift \cup {d} ELSE adrift
        /\ StartReturns(a, TRUE)
        /\ UNCHANGED row
  /\ UNCHANGED <<listeners, proc, raced>>

(***************************************************************************)
(* Manager.Stop, and Delete which may call it.                             *)
(***************************************************************************)
(* Mutant of TakeEntry: the entry stays in the map. *)
TakeEntryKeeps(a, d) ==
  /\ sock' = [sock EXCEPT ![a] = listeners[d]]
  /\ pc' = [pc EXCEPT ![a] = IF listeners[d] = "none" THEN "stopMark" ELSE "stopClose"]
  /\ UNCHANGED <<listeners, raced>>

TakeEntry(a, d) ==
  /\ sock' = [sock EXCEPT ![a] = listeners[d]]
  /\ pc' = [pc EXCEPT ![a] = IF listeners[d] = "none" THEN "stopMark" ELSE "stopClose"]
  /\ listeners' = [listeners EXCEPT ![d] = "none"]
  /\ raced' = raced \ {d}

StopRequest(a, d) ==
  /\ pc[a] = "idle"
  /\ Free
  /\ TakeEntry(a, d)
  /\ dep' = [dep EXCEPT ![a] = d]
  /\ goal' = [goal EXCEPT ![a] = "stop"]
  /\ UNCHANGED <<row, mu, adrift>>

ClientStops(c, d) ==
  /\ Accepting
  /\ row[d] # "new"
  /\ StopRequest(c, d)
  /\ UNCHANGED proc

StopTake(a) ==
  /\ pc[a] = "stopTake"
  /\ Free
  /\ TakeEntry(a, dep[a])
  /\ UNCHANGED <<row, mu, dep, goal, proc, adrift>>

StopClose(a) ==
  /\ pc[a] = "stopClose"
  /\ sock' = [sock EXCEPT ![a] = "none"]
  /\ pc' = [pc EXCEPT ![a] = "stopMark"]
  /\ UNCHANGED <<row, listeners, mu, dep, goal, proc, hist>>

(* After a failed UpdateStatus, also one that finds no row, Delete gives up. *)
StopMark(a) ==
  LET d == dep[a] IN
  /\ pc[a] = "stopMark"
  /\ \/ /\ row[d] \in Rows
        /\ row' = [row EXCEPT ![d] = "stopped"]
        /\ adrift' = adrift \ {d}
        /\ IF goal[a] = "delete" THEN Goto(a, "deleteRow") ELSE End(a)
     \/ /\ row[d] \notin Rows \/ CallFails(a)
        /\ adrift' = IF row[d] \in Rows THEN adrift \cup {d} ELSE adrift
        /\ End(a)
        /\ UNCHANGED row
  /\ UNCHANGED <<listeners, mu, proc, raced>>

(* IsRunning, under the mutex. *)
DeleteCheck(c, d) ==
  /\ Accepting
  /\ pc[c] = "idle"
  /\ row[d] # "new"
  /\ Free
  /\ Begin(c, "delete", d, IF listeners[d] = "none" THEN "deleteRow" ELSE "stopTake")
  /\ UNCHANGED <<row, listeners, mu, proc, hist>>

DeleteRow(c) ==
  LET d == dep[c] IN
  /\ pc[c] = "deleteRow"
  /\ \/ row' = [row EXCEPT ![d] = "gone"] /\ adrift' = adrift \ {d}
     \/ CallFails(c) /\ UNCHANGED <<row, adrift>>
  /\ End(c)
  /\ UNCHANGED <<listeners, mu, proc, raced>>

(* A server ends, or smbd exits: its goroutine logs it, the entry stays. *)
ServerDies(d) ==
  /\ phase # "down"
  /\ "dies" \in Faults
  /\ listeners[d] = "live"
  /\ listeners' = [listeners EXCEPT ![d] = "dead"]
  /\ UNCHANGED <<row, mu, act, proc, hist>>

(***************************************************************************)
(* The main goroutine: RestoreRunning, the shutdown, StopAll.              *)
(***************************************************************************)
Running == {d \in Deps : row[d] = "running"}

List ==
  /\ phase = "listing"
  /\ \/ /\ ~signaled
        /\ phase' = "restoring"
        /\ todo' = Running
        /\ UNCHANGED adrift
     \/ /\ signaled \/ "database" \in Faults
        /\ phase' = "up"
        /\ adrift' = adrift \cup Running
        /\ UNCHANGED todo
  /\ UNCHANGED <<row, listeners, mu, act, signaled, restarts, raced>>

RestoreNext(d) ==
  /\ phase = "restoring"
  /\ d \in todo
  /\ todo' = todo \ {d}
  /\ StartLock(Main, d)
  /\ UNCHANGED <<phase, signaled, restarts>>

(* Mutant of RestoreMark: a status of its own for a failed restore. *)
RestoreMarkFailed ==
  /\ pc[Main] = "restoreMark"
  /\ row' = [row EXCEPT ![dep[Main]] = "failed"]
  /\ End(Main)
  /\ UNCHANGED <<listeners, mu, proc, hist>>

RestoreMark ==
  LET d == dep[Main] IN
  /\ pc[Main] = "restoreMark"
  /\ \/ /\ ~Expired(Main)
        /\ row' = [row EXCEPT ![d] = "stopped"]
        /\ UNCHANGED adrift
     \/ /\ CallFails(Main)
        /\ adrift' = adrift \cup {d}
        /\ UNCHANGED row
  /\ End(Main)
  /\ UNCHANGED <<listeners, mu, proc, raced>>

Serve ==
  /\ phase = "restoring"
  /\ todo = {}
  /\ pc[Main] = "idle"
  /\ phase' = "up"
  /\ UNCHANGED <<row, listeners, mu, act, signaled, todo, restarts, hist>>

Signal ==
  /\ phase \in {"listing", "restoring", "up"}
  /\ ~signaled
  /\ signaled' = TRUE
  /\ UNCHANGED <<row, listeners, mu, act, phase, todo, restarts, hist>>

Shutdown ==
  /\ phase = "up"
  /\ signaled
  /\ phase' = "draining"
  /\ UNCHANGED <<row, listeners, mu, act, signaled, todo, restarts, hist>>

(* Mutant of CloseSnapshot: StopAll keeps the mutex while it calls Stop. *)
CloseSnapshotKeepsLock ==
  /\ phase = "draining"
  /\ (\A c \in Clients : pc[c] = "idle") \/ "drain" \in Faults
  /\ Free
  /\ mu' = Main
  /\ phase' = "closing"
  /\ todo' = {d \in Deps : listeners[d] # "none"}
  /\ UNCHANGED <<row, listeners, act, signaled, restarts, hist>>

(* StopAll lists the map under the mutex. *)
CloseSnapshot ==
  /\ phase = "draining"
  /\ (\A c \in Clients : pc[c] = "idle") \/ "drain" \in Faults
  /\ Free
  /\ phase' = "closing"
  /\ todo' = {d \in Deps : listeners[d] # "none"}
  /\ UNCHANGED <<row, listeners, mu, act, signaled, restarts, hist>>

CloseStop(d) ==
  /\ phase = "closing"
  /\ d \in todo
  /\ todo' = todo \ {d}
  /\ StopRequest(Main, d)
  /\ UNCHANGED <<phase, signaled, restarts>>

(* The sockets close, and the map and the mutex go, with the process. *)
Halt ==
  /\ phase' = "down"
  /\ signaled' = FALSE
  /\ todo' = {}
  /\ listeners' = [d \in Deps |-> "none"]
  /\ mu' = Nobody
  /\ pc' = [a \in Actors |-> "idle"]
  /\ dep' = [a \in Actors |-> NoDep]
  /\ goal' = [a \in Actors |-> "none"]
  /\ sock' = [a \in Actors |-> "none"]
  /\ adrift' = {}
  /\ raced' = {}
  /\ UNCHANGED <<row, restarts>>

CloseReturns ==
  /\ phase = "closing"
  /\ todo = {}
  /\ pc[Main] = "idle"
  /\ Halt

Crash ==
  /\ phase # "down"
  /\ "crash" \in Faults
  /\ Halt

Restart ==
  /\ phase = "down"
  /\ restarts < MaxRestarts
  /\ phase' = "listing"
  /\ restarts' = restarts + 1
  /\ UNCHANGED <<row, listeners, mu, act, signaled, todo, hist>>

(* The process has ended for good. *)
Stopped ==
  /\ phase = "down"
  /\ restarts = MaxRestarts
  /\ UNCHANGED vars

Step(a) ==
  \/ CreateInsert(a)
  \/ StartGet(a) \/ StartListen(a) \/ StartMark(a)
  \/ StopTake(a) \/ StopClose(a) \/ StopMark(a)
  \/ DeleteRow(a)

Lifecycle ==
  \/ List \/ RestoreMark \/ Serve \/ Shutdown \/ CloseSnapshot \/ CloseReturns
  \/ \E d \in Deps : RestoreNext(d) \/ CloseStop(d)

Next ==
  \/ \E c \in Clients, d \in Deps :
       CreateCheck(c, d) \/ StartRequest(c, d) \/ ClientStops(c, d) \/ DeleteCheck(c, d)
  \/ \E a \in Actors : Step(a)
  \/ \E d \in Deps : ServerDies(d)
  \/ Lifecycle \/ Signal \/ Crash \/ Restart \/ Stopped

Spec == Init /\ [][Next]_vars

(* Goroutines that can run do run, and sync.Mutex lets no goroutine starve; *)
(* clients, operators and faults need not act.  Once the API's listener is  *)
(* closed nobody contends for the mutex again and again.                    *)
Fairness ==
  /\ \A a \in Actors : WF_vars(Step(a))
  /\ \A c \in Clients : SF_vars(StopTake(c))
  /\ WF_vars(Lifecycle)

FairSpec == Spec /\ Fairness

(***************************************************************************)
(* Properties.                                                             *)
(***************************************************************************)

Restoring(d) ==
  \/ phase \in {"listing", "down"}
  \/ phase = "restoring" /\ (d \in todo \/ dep[Main] = d)

(* A row that says running has an entry in the map: otherwise somebody is  *)
(* about to write stopped, or the write was lost, or it is being restored. *)
(* No interleaving of starts, stops and deletes leaves it so by itself.    *)
RunningIsServed ==
  \A d \in Deps :
    row[d] = "running" /\ listeners[d] = "none" =>
      \/ \E a \in Actors : dep[a] = d /\ pc[a] \in {"stopClose", "stopMark"}
      \/ d \in adrift
      \/ Restoring(d)

(* An entry belongs to a row that says running, unless Start is about to   *)
(* write it, the write was lost, or the start overlapped a stop or delete. *)
ServedIsRunning ==
  \A d \in Deps :
    listeners[d] # "none" =>
      \/ row[d] = "running"
      \/ \E a \in Actors : dep[a] = d /\ pc[a] \in {"startMark", "restoreMark"}
      \/ d \in adrift \cup raced

(* No two rows have one port, although Create looks before it inserts. *)
PortsDiffer ==
  \A d, e \in Deps :
    row[d] \in Rows /\ row[e] \in Rows /\ PortOf[d] = PortOf[e] => d = e

(* The steps of requests, servers and process implement the lifecycle of   *)
(* the deployments: a port has one row and one server, a row says running  *)
(* only by a Start that has its entry, and is stopped or deleted only by   *)
(* one that took the entry out or saw none, or by a failed restore.        *)
Leaving == {d \in Deps : BeingRemoved(d)}

Lifecycles == INSTANCE DeploymentLifecycle WITH
  listed <- {d \in Deps : listeners[d] # "none"},
  live <- {d \in Deps : listeners[d] = "live"},
  leaving <- Leaving,
  restoring <- phase = "restoring"

ImplementsDeploymentLifecycle == Lifecycles!Spec

(* Every request is answered: no path through Start keeps the mutex. *)
RequestsEnd == \A a \in Actors : pc[a] # "idle" ~> pc[a] = "idle"

(* A signal ends the process, whatever StopAll has to wait for. *)
ShutdownCompletes == signaled ~> phase = "down"

(* The promise of DELETE: a deleted deployment is not served any more. *)
DeletedIsNotServed ==
  \A d \in Deps :
    row[d] = "gone" /\ (\A a \in Actors : dep[a] # d) => listeners[d] # "live"
=============================================================================
