-------------------------- MODULE DeploymentsProofs --------------------------
(***************************************************************************)
(* Theorems about Deployments, for every set of deployments, ports and     *)
(* clients, every combination of faults and any number of restarts.        *)
(***************************************************************************)
EXTENDS Deployments, FiniteSets, FiniteSetTheorems, TLAPS

(***************************************************************************)
(* The inductive invariant.                                                *)
(***************************************************************************)
StartPc == {"startGet", "startListen", "startMark"}

(* The holder of the mutex is the one actor inside Start. *)
LockOK ==
  /\ \A a \in Actors : mu = a <=> pc[a] \in StartPc
  /\ \A a \in Actors : pc[a] = "idle" <=> dep[a] = NoDep

(* A deployment is worked on, served and restored only once it has a row;  *)
(* until then the one request that creates it has it for itself.           *)
KnownOK ==
  /\ \A a \in Actors :
       pc[a] \in {"startListen", "startMark", "deleteRow"} => row[dep[a]] # "new"
  /\ \A a \in Actors : pc[a] = "createInsert" => row[dep[a]] = "new"
  /\ \A a, b \in Actors :
       pc[a] = "createInsert" /\ pc[b] = "createInsert" /\ dep[a] = dep[b] => a = b
  /\ \A d \in Deps : listeners[d] # "none" => row[d] # "new"

(* Requests and the main goroutine by phase: nothing runs next to the      *)
(* restore, which restores deployments that have a row.                    *)
PhaseOK ==
  /\ phase \in {"listing", "restoring", "down"} =>
       \A c \in Clients : pc[c] = "idle"
  /\ phase \notin {"restoring", "closing"} => pc[Main] = "idle"
  /\ phase = "restoring" =>
       /\ pc[Main] \in StartPc \cup {"idle", "restoreMark"}
       /\ \A d \in todo : row[d] \in Rows
       /\ pc[Main] # "idle" => row[dep[Main]] \in Rows
  /\ pc[Main] \in StartPc \cup {"restoreMark"} => phase = "restoring"
  /\ \A a \in Actors : pc[a] = "restoreMark" => a = Main

(* What Start knows of the map. *)
StartOK ==
  /\ \A a \in Actors : pc[a] \in {"startGet", "startListen"} => listeners[dep[a]] = "none"
  /\ \A a \in Actors : pc[a] = "startMark" => listeners[dep[a]] # "none"
  /\ \A a \in Actors : pc[a] = "restoreMark" =>
       listeners[dep[a]] = "none" \/ dep[a] \in adrift \cup raced

(* A served deployment whose row is, or may soon be, written without a look *)
(* at the map has been marked as raced.                                    *)
RacedOK == \A d \in Deps : listeners[d] # "none" /\ Races(d) => d \in raced

IInv ==
  TypeOK /\ LockOK /\ KnownOK /\ PhaseOK /\ StartOK /\ RacedOK
  /\ RunningIsServed /\ ServedIsRunning /\ PortsDiffer

(***************************************************************************)
(* Facts about the constants, and one lemma for each action.               *)
(***************************************************************************)
LEMMA ActorFacts ==
  /\ Clients \subseteq Actors /\ Main \in Actors /\ Main \notin Clients
  /\ \A a \in Actors : a = Main \/ a \in Clients
  /\ Nobody \notin Actors
  /\ NoDep \notin Deps
  /\ MaxRestarts \in Nat
  /\ PortOf \in [Deps -> Ports]
  BY ConstantsOK DEF Actors

LEMMA CreateCheckInv ==
  ASSUME IInv, NEW c \in Clients, NEW d \in Deps, CreateCheck(c, d)
  PROVE  IInv'
<1> USE ActorFacts DEF IInv, CreateCheck, Begin, Accepting, act, proc, hist
<1>1. TypeOK'
  BY DEF TypeOK
<1>2. LockOK'
  BY DEF TypeOK, LockOK, StartPc
<1>3. KnownOK'
  BY DEF TypeOK, KnownOK
<1>4. PhaseOK'
  BY DEF PhaseOK
<1>5. StartOK'
  BY DEF StartOK
<1>6. RacedOK'
  BY DEF RacedOK, Races, BeingRemoved
<1>7. RunningIsServed'
  BY DEF RunningIsServed, Restoring
<1>8. ServedIsRunning'
  BY DEF ServedIsRunning
<1>9. PortsDiffer'
  BY DEF PortsDiffer
<1>10. QED
  BY <1>1, <1>2, <1>3, <1>4, <1>5, <1>6, <1>7, <1>8, <1>9

LEMMA CreateInsertInv ==
  ASSUME IInv, NEW a \in Actors, CreateInsert(a)
  PROVE  IInv'
<1> USE ActorFacts DEF IInv, CreateInsert, End, Begin, PortTaken, act, proc, hist
<1>1. TypeOK'
  BY DEF TypeOK, Rows
<1>2. LockOK'
  BY DEF TypeOK, LockOK, StartPc
<1>3. KnownOK'
  BY DEF TypeOK, LockOK, KnownOK
<1>4. PhaseOK'
  BY DEF PhaseOK, StartPc
<1>5. StartOK'
  BY DEF StartOK
<1>6. RacedOK'
  BY DEF TypeOK, RacedOK, Races, BeingRemoved
<1>7. RunningIsServed'
  BY DEF TypeOK, KnownOK, RunningIsServed, Restoring
<1>8. ServedIsRunning'
  BY DEF TypeOK, ServedIsRunning
<1>9. PortsDiffer'
  BY DEF TypeOK, PortsDiffer
<1>10. QED
  BY <1>1, <1>2, <1>3, <1>4, <1>5, <1>6, <1>7, <1>8, <1>9

LEMMA StartRequestInv ==
  ASSUME IInv, NEW c \in Clients, NEW d \in Deps, StartRequest(c, d)
  PROVE  IInv'
<1> USE ActorFacts DEF IInv, StartRequest, StartLock, Begin, Free, Accepting, act,
   proc, hist
<1>1. TypeOK'
  BY DEF TypeOK
<1>2. LockOK'
  BY DEF TypeOK, LockOK, StartPc
<1>3. KnownOK'
  BY DEF KnownOK
<1>4. PhaseOK'
  BY DEF PhaseOK
<1>5. StartOK'
  BY DEF TypeOK, StartOK
<1>6. RacedOK'
  BY DEF RacedOK, Races, BeingRemoved
<1>7. RunningIsServed'
  BY DEF RunningIsServed, Restoring
<1>8. ServedIsRunning'
  BY DEF ServedIsRunning
<1>9. PortsDiffer'
  BY DEF PortsDiffer
<1>10. QED
  BY <1>1, <1>2, <1>3, <1>4, <1>5, <1>6, <1>7, <1>8, <1>9

LEMMA RestoreNextInv ==
  ASSUME IInv, NEW d \in Deps, RestoreNext(d)
  PROVE  IInv'
<1> USE ActorFacts DEF IInv, RestoreNext, StartLock, Begin, Free, act, proc, hist
<1>1. TypeOK'
  BY DEF TypeOK
<1>2. LockOK'
  BY DEF TypeOK, LockOK, StartPc
<1>3. KnownOK'
  BY DEF KnownOK
<1>4. PhaseOK'
  BY DEF TypeOK, PhaseOK, StartPc
<1>5. StartOK'
  BY DEF TypeOK, StartOK
<1>6. RacedOK'
  BY DEF RacedOK, Races, BeingRemoved
<1>7. RunningIsServed'
  BY DEF TypeOK, LockOK, RunningIsServed, Restoring
<1>8. ServedIsRunning'
  BY DEF ServedIsRunning
<1>9. PortsDiffer'
  BY DEF PortsDiffer
<1>10. QED
  BY <1>1, <1>2, <1>3, <1>4, <1>5, <1>6, <1>7, <1>8, <1>9

LEMMA StartGetInv ==
  ASSUME IInv, NEW a \in Actors, StartGet(a)
  PROVE  IInv'
<1> USE ActorFacts DEF IInv, StartGet, StartReturns, Goto, End, Begin, act, proc, hist
<1>1. TypeOK'
  BY DEF TypeOK
<1>2. LockOK'
  BY DEF TypeOK, LockOK, StartPc
<1>3. KnownOK'
  BY DEF TypeOK, KnownOK, Rows
<1>4. PhaseOK'
  BY DEF TypeOK, PhaseOK, StartPc
<1>5. StartOK'
  BY DEF TypeOK, StartOK
<1>6. RacedOK'
  BY DEF TypeOK, RacedOK, Races, BeingRemoved
<1>7. RunningIsServed'
  BY DEF TypeOK, RunningIsServed, Restoring
<1>8. ServedIsRunning'
  BY DEF LockOK, StartOK, ServedIsRunning, StartPc
<1>9. PortsDiffer'
  BY DEF PortsDiffer
<1>10. QED
  BY <1>1, <1>2, <1>3, <1>4, <1>5, <1>6, <1>7, <1>8, <1>9

LEMMA StartListenInv ==
  ASSUME IInv, NEW a \in Actors, StartListen(a)
  PROVE  IInv'
<1> USE ActorFacts DEF IInv, StartListen, StartReturns, Goto, End, Begin, act, proc,
   hist
<1>a. dep[a] \in Deps
  BY DEF TypeOK, LockOK
<1>1. TypeOK'
  BY <1>a DEF TypeOK
<1>2. LockOK'
  BY DEF TypeOK, LockOK, StartPc
<1>3. KnownOK'
  BY DEF TypeOK, KnownOK
<1>4. PhaseOK'
  BY DEF TypeOK, PhaseOK, StartPc
<1>5. StartOK'
  BY DEF TypeOK, LockOK, PhaseOK, StartOK, StartPc
<1>6. RacedOK'
  BY DEF TypeOK, RacedOK, Races, BeingRemoved
<1>7. RunningIsServed'
  BY DEF TypeOK, RunningIsServed, Restoring
<1>8. ServedIsRunning'
  BY DEF TypeOK, ServedIsRunning
<1>9. PortsDiffer'
  BY DEF PortsDiffer
<1>10. QED
  BY <1>1, <1>2, <1>3, <1>4, <1>5, <1>6, <1>7, <1>8, <1>9

LEMMA StartMarkInv ==
  ASSUME IInv, NEW a \in Actors, StartMark(a)
  PROVE  IInv'
<1> USE ActorFacts DEF IInv, StartMark, StartReturns, Goto, End, Begin, act, proc, hist
<1>a. dep[a] \in Deps
  BY DEF TypeOK, LockOK
<1>1. TypeOK'
  BY <1>a DEF TypeOK, Rows
<1>2. LockOK'
  BY DEF TypeOK, LockOK, StartPc
<1>3. KnownOK'
  BY DEF TypeOK, LockOK, KnownOK
<1>4. PhaseOK'
  BY DEF TypeOK, PhaseOK, StartPc, Rows
<1>5. StartOK'
  BY <1>a DEF TypeOK, KnownOK, PhaseOK, StartOK, RacedOK, Races
<1>6. RacedOK'
  BY DEF TypeOK, RacedOK, Races, BeingRemoved
<1>7. RunningIsServed'
  BY DEF TypeOK, StartOK, RunningIsServed, Restoring
<1>8. ServedIsRunning'
  BY DEF TypeOK, KnownOK, RacedOK, Races, ServedIsRunning
<1>9. PortsDiffer'
  BY DEF TypeOK, PortsDiffer
<1>10. QED
  BY <1>1, <1>2, <1>3, <1>4, <1>5, <1>6, <1>7, <1>8, <1>9

LEMMA ClientStopsInv ==
  ASSUME IInv, NEW c \in Clients, NEW d \in Deps, ClientStops(c, d)
  PROVE  IInv'
<1> USE ActorFacts DEF IInv, ClientStops, StopRequest, TakeEntry, Free, Accepting,
   act, proc, hist
<1>1. TypeOK'
  BY DEF TypeOK, StopPc
<1>2. LockOK'
  BY DEF TypeOK, LockOK, StartPc
<1>3. KnownOK'
  BY DEF KnownOK
<1>4. PhaseOK'
  BY DEF PhaseOK
<1>5. StartOK'
  BY DEF LockOK, PhaseOK, StartOK, StartPc
<1>6. RacedOK'
  BY DEF TypeOK, RacedOK, Races, BeingRemoved
<1>7. RunningIsServed'
  BY DEF TypeOK, RunningIsServed, Restoring
<1>8. ServedIsRunning'
  BY DEF TypeOK, ServedIsRunning
<1>9. PortsDiffer'
  BY DEF PortsDiffer
<1>10. QED
  BY <1>1, <1>2, <1>3, <1>4, <1>5, <1>6, <1>7, <1>8, <1>9

LEMMA CloseStopInv ==
  ASSUME IInv, NEW d \in Deps, CloseStop(d)
  PROVE  IInv'
<1> USE ActorFacts DEF IInv, CloseStop, StopRequest, TakeEntry, Free, act, proc, hist
<1>1. TypeOK'
  BY DEF TypeOK, StopPc
<1>2. LockOK'
  BY DEF TypeOK, LockOK, StartPc
<1>3. KnownOK'
  BY DEF KnownOK
<1>4. PhaseOK'
  BY DEF PhaseOK, StartPc
<1>5. StartOK'
  BY DEF LockOK, PhaseOK, StartOK, StartPc
<1>6. RacedOK'
  BY DEF TypeOK, RacedOK, Races, BeingRemoved
<1>7. RunningIsServed'
  BY DEF TypeOK, RunningIsServed, Restoring
<1>8. ServedIsRunning'
  BY DEF TypeOK, ServedIsRunning
<1>9. PortsDiffer'
  BY DEF PortsDiffer
<1>10. QED
  BY <1>1, <1>2, <1>3, <1>4, <1>5, <1>6, <1>7, <1>8, <1>9

LEMMA StopTakeInv ==
  ASSUME IInv, NEW a \in Actors, StopTake(a)
  PROVE  IInv'
<1> USE ActorFacts DEF IInv, StopTake, TakeEntry, Free, act, proc, hist
<1>a. dep[a] \in Deps
  BY DEF TypeOK, LockOK
<1>1. TypeOK'
  BY <1>a DEF TypeOK, StopPc
<1>2. LockOK'
  BY DEF LockOK, StartPc
<1>3. KnownOK'
  BY DEF KnownOK
<1>4. PhaseOK'
  BY DEF PhaseOK, StartPc
<1>5. StartOK'
  BY DEF LockOK, PhaseOK, StartOK, StartPc
<1>6. RacedOK'
  BY DEF TypeOK, RacedOK, Races, BeingRemoved
<1>7. RunningIsServed'
  BY DEF TypeOK, RunningIsServed, Restoring
<1>8. ServedIsRunning'
  BY DEF TypeOK, ServedIsRunning
<1>9. PortsDiffer'
  BY DEF PortsDiffer
<1>10. QED
  BY <1>1, <1>2, <1>3, <1>4, <1>5, <1>6, <1>7, <1>8, <1>9

LEMMA StopCloseInv ==
  ASSUME IInv, NEW a \in Actors, StopClose(a)
  PROVE  IInv'
<1> USE ActorFacts DEF IInv, StopClose, act, proc, hist
<1>1. TypeOK'
  BY DEF TypeOK, StopPc
<1>2. LockOK'
  BY DEF LockOK, StartPc
<1>3. KnownOK'
  BY DEF KnownOK
<1>4. PhaseOK'
  BY DEF PhaseOK, StartPc
<1>5. StartOK'
  BY DEF StartOK
<1>6. RacedOK'
  BY DEF RacedOK, Races, BeingRemoved
<1>7. RunningIsServed'
  BY DEF RunningIsServed, Restoring
<1>8. ServedIsRunning'
  BY DEF ServedIsRunning
<1>9. PortsDiffer'
  BY DEF PortsDiffer
<1>10. QED
  BY <1>1, <1>2, <1>3, <1>4, <1>5, <1>6, <1>7, <1>8, <1>9

LEMMA StopMarkInv ==
  ASSUME IInv, NEW a \in Actors, StopMark(a)
  PROVE  IInv'
<1> USE ActorFacts DEF IInv, StopMark, Goto, End, Begin, act, proc, hist
<1>a. dep[a] \in Deps
  BY DEF TypeOK, LockOK
<1>1. TypeOK'
  BY <1>a DEF TypeOK, Rows
<1>2. LockOK'
  BY DEF TypeOK, LockOK, StartPc
<1>3. KnownOK'
  BY DEF TypeOK, LockOK, KnownOK, Rows
<1>4. PhaseOK'
  BY DEF TypeOK, PhaseOK, StartPc
<1>5. StartOK'
  BY DEF TypeOK, PhaseOK, StartOK
<1>6. RacedOK'
  BY DEF TypeOK, RacedOK, Races, BeingRemoved
<1>7. RunningIsServed'
  BY DEF TypeOK, RunningIsServed, Restoring
<1>8. ServedIsRunning'
  BY DEF TypeOK, RacedOK, Races, BeingRemoved, ServedIsRunning
<1>9. PortsDiffer'
  BY DEF TypeOK, PortsDiffer
<1>10. QED
  BY <1>1, <1>2, <1>3, <1>4, <1>5, <1>6, <1>7, <1>8, <1>9

LEMMA DeleteCheckInv ==
  ASSUME IInv, NEW c \in Clients, NEW d \in Deps, DeleteCheck(c, d)
  PROVE  IInv'
<1> USE ActorFacts DEF IInv, DeleteCheck, Begin, Accepting, Free, act, proc, hist
<1>1. TypeOK'
  BY DEF TypeOK, StopPc
<1>2. LockOK'
  BY DEF TypeOK, LockOK, StartPc
<1>3. KnownOK'
  BY DEF TypeOK, KnownOK
<1>4. PhaseOK'
  BY DEF PhaseOK
<1>5. StartOK'
  BY DEF StartOK
<1>6. RacedOK'
  BY DEF LockOK, RacedOK, Races, BeingRemoved
<1>7. RunningIsServed'
  BY DEF RunningIsServed, Restoring
<1>8. ServedIsRunning'
  BY DEF ServedIsRunning
<1>9. PortsDiffer'
  BY DEF PortsDiffer
<1>10. QED
  BY <1>1, <1>2, <1>3, <1>4, <1>5, <1>6, <1>7, <1>8, <1>9

LEMMA DeleteRowInv ==
  ASSUME IInv, NEW a \in Actors, DeleteRow(a)
  PROVE  IInv'
<1> USE ActorFacts DEF IInv, DeleteRow, End, Begin, act, proc, hist
<1>1. TypeOK'
  BY DEF TypeOK
<1>2. LockOK'
  BY DEF TypeOK, LockOK, StartPc
<1>3. KnownOK'
  BY DEF TypeOK, LockOK, KnownOK
<1>4. PhaseOK'
  BY DEF PhaseOK, StartPc
<1>5. StartOK'
  BY DEF PhaseOK, StartOK
<1>6. RacedOK'
  BY DEF TypeOK, RacedOK, Races, BeingRemoved
<1>7. RunningIsServed'
  BY DEF TypeOK, PhaseOK, RunningIsServed, Restoring, StartPc
<1>8. ServedIsRunning'
  BY DEF TypeOK, RacedOK, Races, BeingRemoved, ServedIsRunning
<1>9. PortsDiffer'
  BY DEF TypeOK, KnownOK, PortsDiffer
<1>10. QED
  BY <1>1, <1>2, <1>3, <1>4, <1>5, <1>6, <1>7, <1>8, <1>9

LEMMA ServerDiesInv ==
  ASSUME IInv, NEW d \in Deps, ServerDies(d)
  PROVE  IInv'
<1> USE ActorFacts DEF IInv, ServerDies, act, proc, hist
<1>1. TypeOK'
  BY DEF TypeOK
<1>2. LockOK'
  BY DEF LockOK
<1>3. KnownOK'
  BY DEF KnownOK
<1>4. PhaseOK'
  BY DEF PhaseOK
<1>5. StartOK'
  BY DEF StartOK
<1>6. RacedOK'
  BY DEF RacedOK, Races, BeingRemoved
<1>7. RunningIsServed'
  BY DEF RunningIsServed, Restoring
<1>8. ServedIsRunning'
  BY DEF ServedIsRunning
<1>9. PortsDiffer'
  BY DEF PortsDiffer
<1>10. QED
  BY <1>1, <1>2, <1>3, <1>4, <1>5, <1>6, <1>7, <1>8, <1>9

LEMMA RestoreMarkInv ==
  ASSUME IInv, RestoreMark
  PROVE  IInv'
<1> USE ActorFacts DEF IInv, RestoreMark, End, Begin, act, proc, hist
<1>a. dep[Main] \in Deps
  BY DEF TypeOK, LockOK
<1>1. TypeOK'
  BY <1>a DEF TypeOK, Rows
<1>2. LockOK'
  BY DEF TypeOK, LockOK, StartPc
<1>3. KnownOK'
  BY DEF TypeOK, KnownOK, PhaseOK
<1>4. PhaseOK'
  BY DEF TypeOK, PhaseOK, Rows
<1>5. StartOK'
  BY DEF TypeOK, StartOK
<1>6. RacedOK'
  BY DEF TypeOK, RacedOK, Races, BeingRemoved
<1>7. RunningIsServed'
  BY DEF TypeOK, RunningIsServed, Restoring
<1>8. ServedIsRunning'
  BY DEF TypeOK, StartOK, ServedIsRunning
<1>9. PortsDiffer'
  BY DEF TypeOK, PhaseOK, PortsDiffer
<1>10. QED
  BY <1>1, <1>2, <1>3, <1>4, <1>5, <1>6, <1>7, <1>8, <1>9

LEMMA ListInv ==
  ASSUME IInv, List
  PROVE  IInv'
<1> USE ActorFacts DEF IInv, List, Running, act, proc, hist
<1>1. TypeOK'
  BY DEF TypeOK
<1>2. LockOK'
  BY DEF LockOK
<1>3. KnownOK'
  BY DEF KnownOK
<1>4. PhaseOK'
  BY DEF PhaseOK, Rows
<1>5. StartOK'
  BY DEF StartOK
<1>6. RacedOK'
  BY DEF RacedOK, Races, BeingRemoved
<1>7. RunningIsServed'
  BY DEF RunningIsServed, Restoring
<1>8. ServedIsRunning'
  BY DEF ServedIsRunning
<1>9. PortsDiffer'
  BY DEF PortsDiffer
<1>10. QED
  BY <1>1, <1>2, <1>3, <1>4, <1>5, <1>6, <1>7, <1>8, <1>9

LEMMA HaltInv ==
  ASSUME IInv, Halt
  PROVE  IInv'
<1> USE ActorFacts DEF IInv, Halt, act, proc, hist
<1>1. TypeOK'
  BY DEF TypeOK
<1>2. LockOK'
  BY DEF LockOK, StartPc
<1>3. KnownOK'
  BY DEF KnownOK
<1>4. PhaseOK'
  BY DEF PhaseOK, StartPc
<1>5. StartOK'
  BY DEF StartOK
<1>6. RacedOK'
  BY DEF RacedOK
<1>7. RunningIsServed'
  BY DEF RunningIsServed, Restoring
<1>8. ServedIsRunning'
  BY DEF ServedIsRunning
<1>9. PortsDiffer'
  BY DEF PortsDiffer
<1>10. QED
  BY <1>1, <1>2, <1>3, <1>4, <1>5, <1>6, <1>7, <1>8, <1>9

(* The steps of the main goroutine that change only its own state. *)
LEMMA PhaseStepInv ==
  ASSUME IInv, Serve \/ Signal \/ Shutdown \/ CloseSnapshot \/ Restart
  PROVE  IInv'
<1> USE ActorFacts DEF IInv, Serve, Signal, Shutdown, CloseSnapshot, Restart, act, hist
<1>1. TypeOK'
  <2>1. restarts' \in 0..MaxRestarts
    BY DEF TypeOK
  <2>2. phase' \in {"listing", "restoring", "up", "draining", "closing", "down"}
    BY DEF TypeOK
  <2>3. signaled' \in BOOLEAN /\ todo' \subseteq Deps
    BY DEF TypeOK
  <2>4. UNCHANGED <<row, listeners, mu, act, hist>>
    OBVIOUS
  <2>5. QED
    BY <2>1, <2>2, <2>3, <2>4 DEF TypeOK
<1>2. LockOK'
  BY DEF LockOK
<1>3. KnownOK'
  BY DEF KnownOK
<1>4. PhaseOK'
  BY DEF TypeOK, PhaseOK, StartPc
<1>5. StartOK'
  BY DEF StartOK
<1>6. RacedOK'
  BY DEF RacedOK, Races, BeingRemoved
<1>7. RunningIsServed'
  BY DEF TypeOK, LockOK, RunningIsServed, Restoring
<1>8. ServedIsRunning'
  BY DEF ServedIsRunning
<1>9. PortsDiffer'
  BY DEF PortsDiffer
<1>10. QED
  BY <1>1, <1>2, <1>3, <1>4, <1>5, <1>6, <1>7, <1>8, <1>9

LEMMA InitInv == Init => IInv
<1> SUFFICES ASSUME Init PROVE IInv
  OBVIOUS
<1> USE ActorFacts DEF Init
<1>1. TypeOK
  <2>1. restarts \in 0..MaxRestarts
    OBVIOUS
  <2>2. QED
    BY <2>1 DEF TypeOK
<1>2. LockOK /\ KnownOK /\ PhaseOK
  BY DEF LockOK, KnownOK, PhaseOK, StartPc
<1>3. StartOK /\ RacedOK
  BY DEF StartOK, RacedOK
<1>4. RunningIsServed /\ ServedIsRunning /\ PortsDiffer
  BY DEF RunningIsServed, ServedIsRunning, PortsDiffer, Rows
<1>5. QED
  BY <1>1, <1>2, <1>3, <1>4 DEF IInv

LEMMA NextInv == IInv /\ [Next]_vars => IInv'
<1> SUFFICES ASSUME IInv, [Next]_vars PROVE IInv'
  OBVIOUS
<1>1. ASSUME NEW c \in Clients, NEW d \in Deps,
             CreateCheck(c, d) \/ StartRequest(c, d) \/ ClientStops(c, d) \/ DeleteCheck(c, d)
      PROVE  IInv'
  BY <1>1, CreateCheckInv, StartRequestInv, ClientStopsInv, DeleteCheckInv
<1>2. ASSUME NEW a \in Actors, Step(a) PROVE IInv'
  BY <1>2, CreateInsertInv, StartGetInv, StartListenInv, StartMarkInv, StopTakeInv,
     StopCloseInv, StopMarkInv, DeleteRowInv
     DEF Step
<1>3. ASSUME NEW d \in Deps, ServerDies(d) PROVE IInv'
  BY <1>3, ServerDiesInv
<1>4. CASE Lifecycle
  BY <1>4, ListInv, RestoreMarkInv, RestoreNextInv, CloseStopInv, PhaseStepInv, HaltInv
     DEF Lifecycle, CloseReturns
<1>5. CASE Signal \/ Restart
  BY <1>5, PhaseStepInv
<1>6. CASE Crash
  BY <1>6, HaltInv DEF Crash
<1>7. CASE UNCHANGED vars
  BY <1>7 DEF vars, act, proc, hist, IInv, TypeOK, LockOK, KnownOK, PhaseOK, StartOK,
     RacedOK,
     Races, BeingRemoved, RunningIsServed, Restoring, ServedIsRunning, PortsDiffer
<1>8. QED
  BY <1>1, <1>2, <1>3, <1>4, <1>5, <1>6, <1>7 DEF Next, Stopped

(***************************************************************************)
(* The theorems.                                                           *)
(***************************************************************************)

(* The inductive invariant holds in every reachable state. *)
THEOREM Invariance == Spec => []IInv
  BY InitInv, NextInv, PTL DEF Spec

(* Every variable keeps its type. *)
THEOREM TypeCorrect == Spec => []TypeOK
<1>1. IInv => TypeOK
  BY DEF IInv
<1>2. QED
  BY <1>1, Invariance, PTL

(* At most one actor is inside Start, and it holds the manager's mutex. *)
THEOREM StartExcludes ==
  Spec => [](\A a, b \in Actors : pc[a] \in StartPc /\ pc[b] \in StartPc => a = b)
<1>1. IInv => \A a, b \in Actors : pc[a] \in StartPc /\ pc[b] \in StartPc => a = b
  BY DEF IInv, LockOK
<1>2. QED
  BY <1>1, Invariance, PTL

(* A row says running only over an entry of the map, unless a stop is about *)
(* to write it, the write was lost, or a restart has still to restore it:   *)
(* however many requests start, stop and delete at the same time.           *)
THEOREM RunningServed == Spec => []RunningIsServed
<1>1. IInv => RunningIsServed
  BY DEF IInv
<1>2. QED
  BY <1>1, Invariance, PTL

(* An entry of the map whose row does not say running is about to be        *)
(* written, lost its write, or was raced by a stop or a delete.             *)
THEOREM ServedRunning == Spec => []ServedIsRunning
<1>1. IInv => ServedIsRunning
  BY DEF IInv
<1>2. QED
  BY <1>1, Invariance, PTL

(* No two rows have one port. *)
THEOREM PortsUnique == Spec => []PortsDiffer
<1>1. IInv => PortsDiffer
  BY DEF IInv
<1>2. QED
  BY <1>1, Invariance, PTL

(***************************************************************************)
(* What liveness rests on.  That requests are answered and a signal ends   *)
(* the process depends on fairness, but that there is always a step to     *)
(* take, and that the steps come to an end, does not.                      *)
(***************************************************************************)

(* The main goroutine waits for no entry of the map: none is there before  *)
(* the restore, and none of a deployment that is still to be restored.     *)
RestoreOK ==
  /\ phase \in {"listing", "down"} => \A d \in Deps : listeners[d] = "none"
  /\ phase = "restoring" =>
       /\ dep[Main] \notin todo
       /\ \A d \in todo : listeners[d] = "none"

LEMMA RestoreInit == Init => RestoreOK
  BY DEF Init, RestoreOK

LEMMA RestoreStep ==
  ASSUME IInv, RestoreOK, NEW a \in Actors, Step(a)
  PROVE  RestoreOK'
<1> USE ActorFacts DEF IInv, RestoreOK, act, proc, hist
<1>1. UNCHANGED <<phase, todo>> /\ pc[a] # "idle" /\ pc[a] # "restoreMark"
  BY DEF Step, CreateInsert, StartGet, StartListen, StartMark, StopTake, StopClose,
     StopMark, DeleteRow
<1>2. CASE phase \notin {"listing", "restoring", "down"}
  BY <1>1, <1>2
<1>3. CASE phase \in {"listing", "restoring", "down"}
  <2>1. a = Main /\ phase = "restoring" /\ pc[a] \in StartPc
    BY <1>1, <1>3 DEF PhaseOK
  <2>2. StartGet(Main) \/ StartListen(Main) \/ StartMark(Main)
    BY <2>1 DEF Step, CreateInsert, StopTake, StopClose, StopMark, DeleteRow, StartPc
  <2>3. dep'[Main] \in {dep[Main], NoDep}
    BY <2>2 DEF StartGet, StartListen, StartMark, StartReturns, Goto, End, Begin, TypeOK
  <2>4. \A d \in Deps : d # dep[Main] => listeners'[d] = listeners[d]
    <3>1. CASE StartGet(Main) \/ StartMark(Main)
      BY <3>1 DEF StartGet, StartMark
    <3>2. CASE StartListen(Main)
      <4>1. listeners \in [Deps -> {"none", "live", "dead"}]
        BY DEF TypeOK
      <4>2. \/ listeners' = [listeners EXCEPT ![dep[Main]] = "live"]
            \/ listeners' = listeners
        BY <3>2 DEF StartListen
      <4>3. QED
        BY <4>1, <4>2
    <3>3. QED
      BY <2>2, <3>1, <3>2
  <2>5. todo \subseteq Deps
    BY DEF TypeOK
  <2>6. QED
    BY <1>1, <2>1, <2>3, <2>4, <2>5
<1>4. QED
  BY <1>2, <1>3

LEMMA RestoreLifecycle ==
  ASSUME IInv, RestoreOK, Lifecycle
  PROVE  RestoreOK'
<1> USE ActorFacts DEF IInv, RestoreOK, act, proc, hist
<1>1. todo \subseteq Deps
  BY DEF TypeOK
<1>2. CASE List
  <2>1. dep[Main] = NoDep
    BY <1>2 DEF List, PhaseOK, LockOK
  <2>2. QED
    BY <1>2, <2>1 DEF List, Running
<1>3. CASE RestoreMark
  BY <1>1, <1>3 DEF RestoreMark, End, Begin, PhaseOK, TypeOK
<1>4. CASE Serve \/ Shutdown \/ CloseSnapshot
  BY <1>4 DEF Serve, Shutdown, CloseSnapshot
<1>5. CASE CloseReturns
  BY <1>5 DEF CloseReturns, Halt
<1>6. ASSUME NEW d \in Deps, RestoreNext(d) PROVE RestoreOK'
  BY <1>1, <1>6 DEF RestoreNext, StartLock, Begin, TypeOK
<1>7. ASSUME NEW d \in Deps, CloseStop(d) PROVE RestoreOK'
  BY <1>7 DEF CloseStop
<1>8. QED
  BY <1>2, <1>3, <1>4, <1>5, <1>6, <1>7 DEF Lifecycle

LEMMA RestoreInvariance == Spec => []RestoreOK
<1>1. ASSUME IInv, RestoreOK, [Next]_vars PROVE RestoreOK'
  <2> USE DEF RestoreOK, act, proc, hist
  <2>1. ASSUME NEW c \in Clients, NEW d \in Deps,
               CreateCheck(c, d) \/ StartRequest(c, d) \/ ClientStops(c, d) \/ DeleteCheck(c, d)
        PROVE  RestoreOK'
    BY <2>1 DEF CreateCheck, StartRequest, ClientStops, DeleteCheck, Accepting
  <2>2. ASSUME NEW d \in Deps, ServerDies(d) PROVE RestoreOK'
    <3>1. \A e \in Deps : listeners[e] = "none" => listeners'[e] = "none"
      BY <1>1, <2>2 DEF ServerDies, IInv, TypeOK
    <3>2. todo \subseteq Deps /\ UNCHANGED <<phase, todo, dep>>
      BY <1>1, <2>2 DEF ServerDies, IInv, TypeOK
    <3>3. QED
      BY <1>1, <3>1, <3>2
  <2>3. CASE Signal \/ Restart
    BY <1>1, <2>3, ActorFacts DEF Signal, Restart
  <2>4. CASE Crash
    BY <2>4 DEF Crash, Halt
  <2>5. CASE UNCHANGED vars
    BY <1>1, <2>5 DEF vars
  <2>6. QED
    BY <1>1, <2>1, <2>2, <2>3, <2>4, <2>5, RestoreStep, RestoreLifecycle DEF Next, Stopped
<1>2. QED
  BY <1>1, RestoreInit, Invariance, PTL DEF Spec

(* The guards of Step, of which each has an outcome in every state. *)
CanStep(a) ==
  \/ pc[a] \in {"createInsert", "startGet", "startListen", "startMark",
                "stopClose", "stopMark", "deleteRow"}
  \/ pc[a] = "stopTake" /\ Free

(* The guards of Lifecycle. *)
CanLead ==
  \/ phase = "listing"
  \/ pc[Main] = "restoreMark"
  \/ /\ phase = "restoring" /\ pc[Main] = "idle"
     /\ \/ todo = {}
        \/ Free /\ \E d \in todo : listeners[d] = "none"
  \/ phase = "up" /\ signaled
  \/ /\ phase = "draining" /\ Free
     /\ (\A c \in Clients : pc[c] = "idle") \/ "drain" \in Faults
  \/ phase = "closing" /\ pc[Main] = "idle" /\ (todo = {} \/ Free)

(* Nobody waits for ever: whoever holds the mutex can go on without it, an *)
(* actor that cannot go on waits for such a holder, and until the process  *)
(* has ended it either serves requests or something is left that can be    *)
(* done: StopAll, a stop and a start that meet never wait for one another. *)
NobodyStuck ==
  /\ mu # Nobody => mu \in Actors /\ CanStep(mu)
  /\ \A a \in Actors : pc[a] # "idle" =>
       \/ CanStep(a)
       \/ a = Main /\ pc[a] = "restoreMark"
       \/ pc[a] = "stopTake" /\ mu # a /\ mu # Nobody
  /\ phase # "down" =>
       \/ phase = "up" /\ ~signaled
       \/ CanLead
       \/ \E a \in Actors : CanStep(a)

THEOREM NoDeadlock == Spec => []NobodyStuck
<1>1. ASSUME IInv, RestoreOK PROVE NobodyStuck
  <2> USE ActorFacts, <1>1 DEF IInv, CanStep, Free
  <2>1. mu # Nobody => mu \in Actors /\ CanStep(mu)
    BY DEF TypeOK, LockOK, StartPc
  <2>2. ASSUME NEW a \in Actors, pc[a] # "idle"
        PROVE  \/ CanStep(a)
               \/ a = Main /\ pc[a] = "restoreMark"
               \/ pc[a] = "stopTake" /\ mu # a /\ mu # Nobody
    BY <2>2 DEF TypeOK, LockOK, PhaseOK, StartPc, StopPc
  <2>3. ASSUME phase # "down", ~(phase = "up" /\ ~signaled), \A a \in Actors : ~CanStep(a)
        PROVE  CanLead
    <3>1. Free
      BY <2>1, <2>3
    <3>2. \A a \in Actors : pc[a] # "idle" => a = Main /\ pc[a] = "restoreMark"
      BY <2>2, <2>3, <3>1
    <3>3. CASE phase = "restoring"
      BY <3>1, <3>2, <3>3 DEF CanLead, RestoreOK
    <3>4. CASE phase \in {"draining", "closing"}
      BY <3>1, <3>2, <3>4 DEF CanLead
    <3>5. CASE phase \in {"listing", "up"}
      BY <2>3, <3>5 DEF CanLead, TypeOK
    <3>6. QED
      BY <2>3, <3>3, <3>4, <3>5 DEF TypeOK
  <2>4. QED
    BY <2>1, <2>2, <2>3 DEF NobodyStuck
<1>2. QED
  BY <1>1, Invariance, RestoreInvariance, PTL

(* How many steps an actor has at most before it is done. *)
Left(a) ==
  CASE pc[a] \in {"stopTake", "startGet"} -> 4
    [] pc[a] \in {"startListen", "stopClose"} -> 3
    [] pc[a] \in {"startMark", "stopMark"} -> 2
    [] pc[a] = "idle" -> 0
    [] OTHER -> 1

LEMMA LeftIsFinite ==
  ASSUME NEW a \in Actors PROVE Left(a) \in 0..4 /\ (Left(a) = 0 <=> pc[a] = "idle")
  BY DEF Left

LEMMA StepLeaves ==
  ASSUME TypeOK, NEW a \in Actors, Step(a)
  PROVE  /\ Left(a)' \in 0..4 /\ Left(a)' < Left(a)
         /\ \A b \in Actors \ {a} : pc'[b] = pc[b]
<1> USE DEF Goto, End, Begin, act
<1>1. CASE CreateInsert(a) \/ DeleteRow(a)
  BY <1>1 DEF CreateInsert, DeleteRow, Left, TypeOK
<1>2. CASE StartGet(a) \/ StartListen(a) \/ StartMark(a)
  BY <1>2 DEF StartGet, StartListen, StartMark, StartReturns, Left, TypeOK
<1>3. CASE StopTake(a) \/ StopClose(a)
  BY <1>3 DEF StopTake, TakeEntry, StopClose, Left, TypeOK
<1>4. CASE StopMark(a)
  BY <1>4 DEF StopMark, Left, TypeOK
<1>5. QED
  BY <1>1, <1>2, <1>3, <1>4 DEF Step

(* A request or the main goroutine that is at work is done after at most   *)
(* four steps of its own, whatever the others do meanwhile: nothing sends  *)
(* it back, not even a stop that waits for the mutex.                      *)
RequestsAdvance ==
  [][\A a \in Actors : pc[a] # "idle" =>
       Left(a)' <= Left(a) /\ (Step(a) => Left(a)' < Left(a))]_vars

THEOREM RequestsAreShort == Spec => RequestsAdvance
<1> DEFINE Advance(a) == Left(a)' <= Left(a) /\ (Step(a) => Left(a)' < Left(a))
<1>1. ASSUME IInv, Next, NEW a \in Actors, pc[a] # "idle" PROVE Advance(a)
  <2> USE ActorFacts
  <2>a. TypeOK
    BY <1>1 DEF IInv
  <2>1. CASE Step(a)
    BY <2>a, <2>1, StepLeaves, LeftIsFinite
  <2>2. ASSUME ~Step(a), pc'[a] \in {pc[a], "idle"} PROVE Advance(a)
    <3>1. Left(a)' = Left(a) \/ Left(a)' = 0
      BY <2>2 DEF Left
    <3>2. QED
      BY <2>2, <3>1, LeftIsFinite
  <2>3. ASSUME NEW b \in Actors, Step(b), ~Step(a) PROVE Advance(a)
    BY <2>a, <2>2, <2>3, StepLeaves
  <2>4. ASSUME NEW c \in Clients, NEW d \in Deps, ~Step(a),
               CreateCheck(c, d) \/ StartRequest(c, d) \/ ClientStops(c, d) \/ DeleteCheck(c, d)
        PROVE  Advance(a)
    <3>1. pc'[a] = pc[a]
      BY <1>1, <2>a, <2>4 DEF CreateCheck, StartRequest, StartLock, ClientStops, StopRequest,
         TakeEntry, DeleteCheck, Begin, TypeOK
    <3>2. QED
      BY <2>2, <2>4, <3>1
  <2>5. CASE Lifecycle /\ ~Step(a)
    <3>1. pc'[a] \in {pc[a], "idle"}
      BY <1>1, <2>a, <2>5 DEF Lifecycle, List, RestoreMark, Serve, Shutdown, CloseSnapshot,
         CloseReturns, Halt, RestoreNext, StartLock, CloseStop, StopRequest, TakeEntry,
         End, Begin, TypeOK, act
    <3>2. QED
      BY <2>2, <2>5, <3>1
  <2>6. ASSUME ~Step(a), Signal \/ Crash \/ Restart \/ Stopped \/ \E d \in Deps : ServerDies(d)
        PROVE  Advance(a)
    <3>1. pc'[a] \in {pc[a], "idle"}
      BY <2>6 DEF Signal, Crash, Halt, Restart, Stopped, ServerDies, vars, act
    <3>2. QED
      BY <2>2, <2>6, <3>1
  <2>7. QED
    BY <1>1, <2>1, <2>3, <2>4, <2>5, <2>6 DEF Next
<1>2. ASSUME IInv, [Next]_vars
      PROVE  [\A a \in Actors : pc[a] # "idle" => Advance(a)]_vars
  BY <1>1, <1>2
<1>3. QED
  BY <1>2, Invariance, PTL DEF Spec, RequestsAdvance

(* What is left of a restore or of StopAll. *)
InLoop == phase \in {"restoring", "closing"}

MainLeft == 5 * Cardinality(todo) + Left(Main)

(* The restore and StopAll end: none of their steps is undone, and each    *)
(* takes something from what is left, whatever requests that outlive the   *)
(* drain do with the map meanwhile.                                        *)
MainAdvances ==
  [][InLoop /\ phase' = phase =>
       /\ MainLeft \in Nat /\ MainLeft' \in Nat
       /\ MainLeft' <= MainLeft
       /\ Lifecycle \/ Step(Main) => MainLeft' < MainLeft]_vars

THEOREM MainIsShort == ASSUME IsFiniteSet(Deps) PROVE Spec => MainAdvances
<1>1. ASSUME IInv, Next, InLoop, phase' = phase
      PROVE  /\ MainLeft \in Nat /\ MainLeft' \in Nat
             /\ MainLeft' <= MainLeft
             /\ Lifecycle \/ Step(Main) => MainLeft' < MainLeft
  <2>1. TypeOK /\ Main \in Actors
    BY <1>1, ActorFacts DEF IInv
  <2>2. \A S \in SUBSET Deps : IsFiniteSet(S) /\ Cardinality(S) \in Nat
    BY FS_Subset, FS_CardinalityType
  <2>3. \A S \in SUBSET Deps : \A d \in S : Cardinality(S \ {d}) = Cardinality(S) - 1
    BY <2>2, FS_RemoveElement
  <2>4. todo \in SUBSET Deps /\ Cardinality(todo) \in Nat /\ Left(Main) \in 0..4
    BY <2>1, <2>2, LeftIsFinite DEF TypeOK
  <2>5. ASSUME Step(Main) \/ RestoreMark
        PROVE  todo' = todo /\ Left(Main)' \in 0..4 /\ Left(Main)' < Left(Main)
    <3>1. CASE Step(Main)
      <4>1. todo' = todo
        BY <3>1 DEF Step, CreateInsert, StartGet, StartListen, StartMark, StopTake,
           StopClose, StopMark, DeleteRow, proc
      <4>2. QED
        BY <2>1, <3>1, <4>1, StepLeaves
    <3>2. CASE RestoreMark
      BY <2>1, <3>2 DEF RestoreMark, End, Begin, proc, Left, TypeOK
    <3>3. QED
      BY <2>5, <3>1, <3>2
  <2>6. ASSUME NEW d \in Deps, RestoreNext(d) \/ CloseStop(d)
        PROVE  /\ d \in todo /\ todo' = todo \ {d}
               /\ Left(Main) = 0 /\ Left(Main)' \in 0..4
    BY <2>1, <2>6 DEF RestoreNext, StartLock, CloseStop, StopRequest, TakeEntry, Begin,
       Left, TypeOK
  <2>7. ASSUME ~Step(Main), ~Lifecycle
        PROVE  todo' = todo /\ Left(Main)' = Left(Main)
    <3>1. todo' = todo /\ pc'[Main] = pc[Main]
      <4>1. ASSUME NEW c \in Clients, NEW d \in Deps,
                   CreateCheck(c, d) \/ StartRequest(c, d) \/ ClientStops(c, d) \/ DeleteCheck(c, d)
            PROVE  todo' = todo /\ pc'[Main] = pc[Main]
        BY <2>1, <4>1, ActorFacts DEF CreateCheck, StartRequest, StartLock, ClientStops,
           StopRequest, TakeEntry, DeleteCheck, Begin, proc, TypeOK
      <4>2. ASSUME NEW a \in Actors, Step(a) PROVE todo' = todo /\ pc'[Main] = pc[Main]
        <5>1. a # Main
          BY <2>7, <4>2
        <5>2. todo' = todo
          BY <4>2 DEF Step, CreateInsert, StartGet, StartListen, StartMark, StopTake,
             StopClose, StopMark, DeleteRow, proc
        <5>3. QED
          BY <2>1, <4>2, <5>1, <5>2, StepLeaves
      <4>3. CASE Signal \/ Stopped \/ \E d \in Deps : ServerDies(d)
        BY <4>3 DEF Signal, Stopped, ServerDies, vars, act, proc
      <4>4. ~Crash /\ ~Restart
        BY <1>1 DEF Crash, Halt, Restart, InLoop
      <4>5. QED
        BY <1>1, <2>7, <4>1, <4>2, <4>3, <4>4 DEF Next
    <3>2. QED
      BY <3>1 DEF Left
  <2>8. Lifecycle => RestoreMark \/ \E d \in Deps : RestoreNext(d) \/ CloseStop(d)
    BY <1>1 DEF Lifecycle, List, Serve, Shutdown, CloseSnapshot, CloseReturns, Halt, InLoop
  <2>9. CASE Step(Main) \/ RestoreMark
    BY <2>4, <2>5, <2>9 DEF MainLeft
  <2>10. ASSUME NEW d \in Deps, RestoreNext(d) \/ CloseStop(d)
         PROVE  MainLeft \in Nat /\ MainLeft' \in Nat /\ MainLeft' < MainLeft
    <3>1. /\ todo' \in SUBSET Deps /\ Cardinality(todo') = Cardinality(todo) - 1
          /\ Cardinality(todo') \in Nat
      BY <2>2, <2>3, <2>4, <2>6, <2>10
    <3>2. QED
      BY <2>4, <2>6, <2>10, <3>1 DEF MainLeft
  <2>11. CASE ~Step(Main) /\ ~Lifecycle
    BY <2>4, <2>7, <2>11 DEF MainLeft
  <2>12. QED
    BY <2>8, <2>9, <2>10, <2>11
<1>2. ASSUME IInv, [Next]_vars
      PROVE  [InLoop /\ phase' = phase =>
                /\ MainLeft \in Nat /\ MainLeft' \in Nat
                /\ MainLeft' <= MainLeft
                /\ Lifecycle \/ Step(Main) => MainLeft' < MainLeft]_vars
  BY <1>1, <1>2
<1>3. QED
  BY <1>2, Invariance, PTL DEF Spec, MainAdvances

(***************************************************************************)
(* The marks adrift and raced exempt deployments from what RunningIsServed *)
(* and ServedIsRunning say.  They come only from failed calls and from     *)
(* requests that overlap.                                                  *)
(***************************************************************************)
CallsWork == {"database", "request"} \cap Faults = {}

(* At most one request at a time, also while the server drains. *)
OneByOne == (\A b, c \in Clients : b = c) /\ "drain" \notin Faults

SignalOK == adrift # {} => signaled

(* A status write is lost only because a call fails, or because the signal *)
(* ends the restore.                                                       *)
THEOREM LostWritesHaveCause == ASSUME CallsWork PROVE Spec => [](adrift # {} => signaled)
<1>1. ASSUME CallsWork, SignalOK, [Next]_vars PROVE SignalOK'
  <2> USE DEF SignalOK, act, proc, hist
  <2>1. \A a : CallFails(a) => signaled
    BY <1>1 DEF CallsWork, CallFails, Expired
  <2>2. ASSUME NEW a \in Actors, Step(a) PROVE SignalOK'
    BY <1>1, <2>1, <2>2 DEF Step, CreateInsert, StartGet, StartListen, StartMark, StopTake,
       TakeEntry, StopClose, StopMark, DeleteRow
  <2>3. ASSUME NEW c \in Clients, NEW d \in Deps,
               CreateCheck(c, d) \/ StartRequest(c, d) \/ ClientStops(c, d) \/ DeleteCheck(c, d)
        PROVE  SignalOK'
    BY <1>1, <2>3 DEF CreateCheck, StartRequest, StartLock, ClientStops, StopRequest, DeleteCheck
  <2>4. CASE List
    BY <1>1, <2>4 DEF List, CallsWork
  <2>5. CASE RestoreMark
    BY <1>1, <2>1, <2>5 DEF RestoreMark
  <2>6. CASE Serve \/ Shutdown \/ CloseSnapshot \/ Signal \/ Restart
    BY <1>1, <2>6 DEF Serve, Shutdown, CloseSnapshot, Signal, Restart
  <2>7. CASE CloseReturns \/ Crash
    BY <2>7 DEF CloseReturns, Crash, Halt
  <2>8. ASSUME NEW d \in Deps, RestoreNext(d) \/ CloseStop(d) \/ ServerDies(d) PROVE SignalOK'
    BY <1>1, <2>8 DEF RestoreNext, StartLock, CloseStop, StopRequest, ServerDies
  <2>9. CASE UNCHANGED vars
    BY <1>1, <2>9 DEF vars
  <2>10. QED
    BY <1>1, <2>2, <2>3, <2>4, <2>5, <2>6, <2>7, <2>8, <2>9 DEF Next, Lifecycle, Stopped
<1>2. Init => SignalOK
  BY DEF Init, SignalOK
<1>3. SignalOK => (adrift # {} => signaled)
  BY DEF SignalOK
<1>4. QED
  BY <1>1, <1>2, <1>3, PTL DEF Spec

(* With requests one by one, the one actor at work finds the row as it has *)
(* read it.                                                                *)
SoleOK ==
  /\ raced = {}
  /\ phase = "closing" => \A c \in Clients : pc[c] = "idle"
  /\ \A a \in Actors : pc[a] = "startListen" => row[dep[a]] \in Rows

LEMMA SoleActor ==
  ASSUME OneByOne, IInv, SoleOK, NEW a \in Actors, NEW b \in Actors,
         pc[a] # "idle", pc[b] # "idle"
  PROVE  a = b
  BY ActorFacts DEF OneByOne, IInv, SoleOK, PhaseOK, TypeOK

(* Nothing is served without its row when requests come one by one. *)
THEOREM RacesNeedTwo == ASSUME OneByOne PROVE Spec => [](raced = {})
<1>1. ASSUME OneByOne, IInv, SoleOK, [Next]_vars PROVE SoleOK'
  <2> USE <1>1, ActorFacts DEF SoleOK, act, proc, hist
  <2>1. ASSUME NEW a \in Actors, Step(a) PROVE SoleOK'
    <3>1. pc[a] # "idle" /\ UNCHANGED phase /\ a \in Actors
      BY <2>1 DEF Step, CreateInsert, StartGet, StartListen, StartMark, StopTake, StopClose,
         StopMark, DeleteRow
    <3>2. \A b \in Actors \ {a} : pc[b] = "idle"
      BY <3>1, SoleActor
    <3>3. \A b \in Actors \ {a} : pc'[b] = pc[b]
      BY <2>1, StepLeaves DEF IInv
    <3>4. raced' = {}
      <4>1. CASE StartListen(a)
        <5>1. dep[a] \in Deps /\ row[dep[a]] \in Rows /\ ~BeingRemoved(dep[a])
          BY <3>2, <4>1 DEF StartListen, BeingRemoved, IInv, TypeOK, LockOK
        <5>2. ~Races(dep[a])
          BY <5>1 DEF Races, Rows
        <5>3. QED
          BY <4>1, <5>2 DEF StartListen
      <4>2. CASE ~StartListen(a)
        BY <2>1, <4>2 DEF Step, CreateInsert, StartGet, StartMark, StopTake, TakeEntry,
           StopClose, StopMark, DeleteRow
      <4>3. QED
        BY <4>1, <4>2
    <3>5. pc'[a] = "startListen" => row'[dep'[a]] \in Rows
      BY <2>1, <3>1 DEF Step, CreateInsert, StartGet, StartListen, StartMark, StartReturns,
         StopTake, TakeEntry, StopClose, StopMark, DeleteRow, Goto, End, Begin, IInv, TypeOK
    <3>6. a \in Clients => phase # "closing"
      BY <3>1
    <3>7. QED
      BY <3>1, <3>2, <3>3, <3>4, <3>5, <3>6
  <2>2. ASSUME NEW c \in Clients, NEW d \in Deps,
               CreateCheck(c, d) \/ StartRequest(c, d) \/ ClientStops(c, d) \/ DeleteCheck(c, d)
        PROVE  SoleOK'
    BY <2>2 DEF CreateCheck, StartRequest, StartLock, ClientStops, StopRequest, TakeEntry,
       DeleteCheck, Accepting, Begin, IInv, TypeOK
  <2>3. CASE List \/ Serve \/ Shutdown \/ Signal \/ Restart
    BY <2>3 DEF List, Serve, Shutdown, Signal, Restart
  <2>4. CASE CloseSnapshot
    BY <2>4 DEF CloseSnapshot, OneByOne
  <2>5. CASE RestoreMark
    <3>1. \A e \in Deps : row[e] \in Rows => row'[e] \in Rows
      BY <2>5 DEF RestoreMark, Rows, IInv, TypeOK
    <3>2. \A a \in Actors : pc'[a] # "idle" => pc'[a] = pc[a] /\ dep'[a] = dep[a]
      BY <2>5 DEF RestoreMark, End, Begin, IInv, TypeOK
    <3>3. UNCHANGED <<phase, raced>> /\ \A c \in Clients : pc[c] = "idle" => pc'[c] = "idle"
      BY <2>5 DEF RestoreMark, End, Begin, IInv, TypeOK
    <3>4. \A a \in Actors : pc[a] # "idle" => dep[a] \in Deps
      BY DEF IInv, TypeOK, LockOK
    <3>5. QED
      BY <3>1, <3>2, <3>3, <3>4
  <2>6. CASE CloseReturns \/ Crash
    BY <2>6 DEF CloseReturns, Crash, Halt
  <2>7. ASSUME NEW d \in Deps, RestoreNext(d) \/ CloseStop(d) PROVE SoleOK'
    BY <2>7 DEF RestoreNext, StartLock, CloseStop, StopRequest, TakeEntry, Begin, IInv, TypeOK
  <2>8. ASSUME NEW d \in Deps, ServerDies(d) PROVE SoleOK'
    BY <2>8 DEF ServerDies
  <2>9. CASE UNCHANGED vars
    BY <2>9 DEF vars
  <2>10. QED
    BY <2>1, <2>2, <2>3, <2>4, <2>5, <2>6, <2>7, <2>8, <2>9 DEF Next, Lifecycle, Stopped
<1>2. Init => SoleOK
  BY DEF Init, SoleOK
<1>3. SoleOK => raced = {}
  BY DEF SoleOK
<1>4. QED
  BY <1>1, <1>2, <1>3, Invariance, PTL DEF Spec

(* A deleted deployment is served only after requests that overlap: the     *)
(* promise of DELETE, which two requests can break (DeletedIsNotServed in   *)
(* the run deleted_served), holds for requests one by one, whatever fails.  *)
THEOREM DeletedServedNeedsTwo == ASSUME OneByOne PROVE Spec => []DeletedIsNotServed
<1>1. ASSUME IInv, raced = {} PROVE DeletedIsNotServed
  BY <1>1 DEF IInv, RacedOK, Races, DeletedIsNotServed
<1>2. Spec => [](raced = {})
  BY RacesNeedTwo
<1>3. QED
  BY <1>1, <1>2, Invariance, PTL

(* If no call fails and requests come one by one, then between requests the *)
(* rows that say running are exactly the entries of the manager's map,      *)
(* whatever listeners fail, servers end and processes crash.                *)
RowsAreEntries ==
  phase = "up" /\ ~signaled /\ (\A a \in Actors : pc[a] = "idle") =>
    \A d \in Deps : row[d] = "running" <=> listeners[d] # "none"

THEOREM RowsAndMapAgree == ASSUME CallsWork, OneByOne PROVE Spec => []RowsAreEntries
<1>1. ASSUME IInv, adrift # {} => signaled, raced = {} PROVE RowsAreEntries
  BY <1>1 DEF IInv, RunningIsServed, ServedIsRunning, Restoring, RowsAreEntries
<1>2. Spec => [](adrift # {} => signaled)
  BY LostWritesHaveCause
<1>3. Spec => [](raced = {})
  BY RacesNeedTwo
<1>4. QED
  BY <1>1, <1>2, <1>3, Invariance, PTL

(***************************************************************************)
(* The steps of requests, servers and process implement the lifecycle of   *)
(* the deployments.                                                        *)
(***************************************************************************)
LeavePc == {"stopClose", "stopMark", "deleteRow"}

Listed == {d \in Deps : listeners[d] # "none"}
Live   == {d \in Deps : listeners[d] = "live"}

lvars == <<row, Listed, Live, Leaving, phase = "restoring">>

(* What becomes of the deployments that are leaving when one actor moves.  *)
Alone(a) == \A b \in Actors \ {a} : pc'[b] = pc[b] /\ dep'[b] = dep[b]

LEMMA LeavingSame ==
  ASSUME NEW a \in Actors, Alone(a),
         \/ pc[a] \notin LeavePc /\ pc'[a] \notin LeavePc
         \/ pc[a] \in LeavePc /\ pc'[a] \in LeavePc /\ dep'[a] = dep[a]
  PROVE  Leaving' = Leaving
  BY DEF Alone, Leaving, BeingRemoved, LeavePc

LEMMA LeavingAdds ==
  ASSUME NEW a \in Actors, NEW d \in Deps, Alone(a),
         pc[a] \notin LeavePc, pc'[a] \in LeavePc, dep'[a] = d
  PROVE  Leaving' = Leaving \cup {d}
  BY DEF Alone, Leaving, BeingRemoved, LeavePc

LEMMA LeavingDrops ==
  ASSUME NEW a \in Actors, Alone(a), pc[a] \in LeavePc, pc'[a] \notin LeavePc
  PROVE  Leaving' \in {Leaving, Leaving \ {dep[a]}}
<1>1. CASE \E b \in Actors \ {a} : dep[b] = dep[a] /\ pc[b] \in LeavePc
  BY <1>1 DEF Alone, Leaving, BeingRemoved, LeavePc
<1>2. CASE ~\E b \in Actors \ {a} : dep[b] = dep[a] /\ pc[b] \in LeavePc
  <2>1. Leaving' = Leaving \ {dep[a]}
    BY <1>2 DEF Alone, Leaving, BeingRemoved, LeavePc
  <2>2. QED
    BY <2>1
<1>3. QED
  BY <1>1, <1>2

LEMMA CreateImplements ==
  ASSUME IInv, NEW a \in Actors, CreateInsert(a)
  PROVE  [Lifecycles!Next]_lvars
<1> USE DEF CreateInsert, End, Begin, IInv, TypeOK, LockOK
<1>1. dep[a] \in Deps /\ row[dep[a]] = "new"
  BY DEF KnownOK
<1>2. Leaving' = Leaving
  <2>1. Alone(a) /\ pc[a] \notin LeavePc /\ pc'[a] \notin LeavePc
    BY DEF Alone, LeavePc
  <2>2. QED
    BY <2>1, LeavingSame
<1>3. UNCHANGED <<Listed, Live, Leaving, phase>>
  BY <1>2 DEF Listed, Live, proc
<1>4. UNCHANGED row \/ Lifecycles!Create(dep[a])
  <2>1. ASSUME row' = [row EXCEPT ![dep[a]] = "stopped"], ~PortTaken(dep[a])
        PROVE  Lifecycles!Create(dep[a])
    BY <1>1, <1>3, <2>1 DEF Lifecycles!Create, Lifecycles!Rows, PortTaken, Rows, Listed, Live
  <2>2. QED
    BY <2>1
<1>5. QED
  BY <1>1, <1>3, <1>4 DEF Lifecycles!Next, lvars

LEMMA ListenImplements ==
  ASSUME IInv, NEW a \in Actors, StartListen(a)
  PROVE  [Lifecycles!Next]_lvars
<1> USE DEF StartListen, StartReturns, Goto, End, Begin, IInv, TypeOK, LockOK
<1>1. dep[a] \in Deps /\ row[dep[a]] # "new" /\ listeners[dep[a]] = "none"
  BY DEF KnownOK, StartOK
<1>2. Leaving' = Leaving
  <2>1. Alone(a) /\ pc[a] \notin LeavePc /\ pc'[a] \notin LeavePc
    BY DEF Alone, LeavePc
  <2>2. QED
    BY <2>1, LeavingSame
<1>3. UNCHANGED <<row, Leaving, phase>>
  BY <1>2 DEF proc
<1>4. ASSUME NEW d \in Deps, d = dep[a], ~PortBusy(d), listeners' = [listeners EXCEPT ![d] = "live"]
      PROVE  Lifecycles!Next
  <2>1. Listed' = Listed \cup {d} /\ Live' = Live \cup {d}
    BY <1>1, <1>4 DEF Listed, Live
  <2>2. d \notin Listed /\ \A e \in Live : PortOf[e] # PortOf[d]
    BY <1>1, <1>4 DEF Listed, Live, PortBusy
  <2>3. Lifecycles!Open(d)
    BY <1>1, <1>3, <1>4, <2>1, <2>2 DEF Lifecycles!Open, Listed, Live
  <2>4. QED
    BY <2>3 DEF Lifecycles!Next
<1>5. CASE UNCHANGED listeners
  BY <1>3, <1>5 DEF lvars, Listed, Live
<1>6. QED
  BY <1>1, <1>4, <1>5

LEMMA MarkImplements ==
  ASSUME IInv, NEW a \in Actors, StartMark(a)
  PROVE  [Lifecycles!Next]_lvars
<1> USE DEF StartMark, StartReturns, Goto, End, Begin, IInv, TypeOK, LockOK
<1>1. dep[a] \in Deps /\ listeners[dep[a]] # "none"
  BY DEF StartOK
<1>2. Leaving' = Leaving
  <2>1. Alone(a) /\ pc[a] \notin LeavePc /\ pc'[a] \notin LeavePc
    BY DEF Alone, LeavePc
  <2>2. QED
    BY <2>1, LeavingSame
<1>3. UNCHANGED <<Listed, Live, Leaving, phase>>
  BY <1>2 DEF Listed, Live, proc
<1>4. UNCHANGED row \/ Lifecycles!Record(dep[a])
  BY <1>1, <1>3 DEF Lifecycles!Record, Lifecycles!Rows, Rows, Listed, Live
<1>5. QED
  BY <1>1, <1>3, <1>4 DEF Lifecycles!Next, lvars

(* Stop takes the entry out of the map, if there is one. *)
LEMMA TakeImplements ==
  ASSUME IInv, NEW a \in Actors, NEW d \in Deps, TakeEntry(a, d), UNCHANGED <<row, phase>>,
         dep' = [dep EXCEPT ![a] = d], pc[a] \notin LeavePc, phase # "restoring"
  PROVE  [Lifecycles!Next]_lvars
<1> USE DEF TakeEntry, IInv, TypeOK
<1>1. Listed' = Listed \ {d} /\ Live' = Live \ {d}
  BY DEF Listed, Live
<1>2. Leaving' = Leaving \cup {d}
  <2>1. Alone(a) /\ pc'[a] \in LeavePc /\ dep'[a] = d
    BY DEF Alone, LeavePc
  <2>2. QED
    BY <2>1, LeavingAdds
<1>3. Lifecycles!Take(d)
  BY <1>1, <1>2 DEF Lifecycles!Take, Listed, Live
<1>4. QED
  BY <1>3 DEF Lifecycles!Next

(* The row is written or removed, or the request gives up. *)
LEMMA SettleImplements ==
  ASSUME IInv, NEW a \in Actors, StopMark(a) \/ DeleteRow(a)
  PROVE  [Lifecycles!Next]_lvars
<1> USE DEF StopMark, DeleteRow, Goto, End, Begin, IInv, TypeOK, LockOK
<1>1. dep[a] \in Leaving /\ dep[a] \in Deps
  BY DEF Leaving, BeingRemoved
<1>2. Leaving' \in {Leaving, Leaving \ {dep[a]}}
  <2>1. Alone(a) /\ pc[a] \in LeavePc
    BY DEF Alone, LeavePc
  <2>2. CASE pc'[a] \notin LeavePc
    BY <2>1, <2>2, LeavingDrops
  <2>3. CASE pc'[a] \in LeavePc
    <3>1. dep'[a] = dep[a]
      BY <2>3 DEF LeavePc
    <3>2. QED
      BY <2>1, <2>3, <3>1, LeavingSame
  <2>4. QED
    BY <2>2, <2>3
<1>3. UNCHANGED <<Listed, Live, phase>>
  BY DEF Listed, Live, proc
<1>4. \/ UNCHANGED row
      \/ row[dep[a]] \in Rows /\ \E s \in {"stopped", "gone"} : row' = [row EXCEPT ![dep[a]] = s]
  <2>1. CASE StopMark(a)
    BY <2>1
  <2>2. CASE DeleteRow(a)
    <3>1. row[dep[a]] \in Rows \/ row[dep[a]] = "gone"
      BY <1>1, <2>2 DEF KnownOK, Rows
    <3>2. QED
      BY <1>1, <2>2, <3>1
  <2>3. QED
    BY <2>1, <2>2
<1>5. Lifecycles!Settle(dep[a])
  BY <1>1, <1>2, <1>3, <1>4 DEF Lifecycles!Settle, Lifecycles!Rows, Rows, Listed, Live
<1>6. QED
  BY <1>1, <1>5 DEF Lifecycles!Next

LEMMA StepImplements ==
  ASSUME IInv, NEW a \in Actors, Step(a)
  PROVE  [Lifecycles!Next]_lvars
<1>1. CASE StartGet(a)
  <2>1. Alone(a) /\ pc[a] \notin LeavePc /\ pc'[a] \notin LeavePc
    BY <1>1 DEF StartGet, StartReturns, Goto, End, Begin, Alone, LeavePc, IInv, TypeOK
  <2>2. UNCHANGED <<row, listeners, phase>> /\ Leaving' = Leaving
    BY <1>1, <2>1, LeavingSame DEF StartGet, proc
  <2>3. QED
    BY <2>2 DEF lvars, Listed, Live
<1>2. CASE StopTake(a)
  <2>1. dep[a] \in Deps /\ dep' = [dep EXCEPT ![a] = dep[a]] /\ pc[a] = "stopTake"
    BY <1>2 DEF StopTake, IInv, TypeOK, LockOK
  <2>2. phase # "restoring"
    BY <2>1, ActorFacts DEF IInv, PhaseOK, StartPc
  <2>3. QED
    BY <1>2, <2>1, <2>2, TakeImplements DEF StopTake, LeavePc, proc
<1>3. CASE StopClose(a)
  <2>1. Alone(a) /\ pc[a] \in LeavePc /\ pc'[a] \in LeavePc /\ dep'[a] = dep[a]
    BY <1>3 DEF StopClose, Alone, LeavePc, IInv, TypeOK
  <2>2. UNCHANGED <<row, listeners, phase>> /\ Leaving' = Leaving
    BY <1>3, <2>1, LeavingSame DEF StopClose, proc
  <2>3. QED
    BY <2>2 DEF lvars, Listed, Live
<1>4. QED
  BY <1>1, <1>2, <1>3, CreateImplements, ListenImplements, MarkImplements, SettleImplements
     DEF Step

LEMMA RequestImplements ==
  ASSUME IInv, NEW c \in Clients, NEW d \in Deps,
         CreateCheck(c, d) \/ StartRequest(c, d) \/ ClientStops(c, d) \/ DeleteCheck(c, d)
  PROVE  [Lifecycles!Next]_lvars
<1>1. c \in Actors /\ pc[c] = "idle" /\ phase # "restoring"
  BY ActorFacts DEF CreateCheck, StartRequest, StartLock, ClientStops, StopRequest,
     DeleteCheck, Accepting
<1>2. CASE CreateCheck(c, d) \/ StartRequest(c, d)
  <2>1. Alone(c) /\ pc[c] \notin LeavePc /\ pc'[c] \notin LeavePc
    BY <1>1, <1>2 DEF CreateCheck, StartRequest, StartLock, Begin, Alone, LeavePc, IInv, TypeOK
  <2>2. UNCHANGED <<row, listeners, phase>> /\ Leaving' = Leaving
    BY <1>1, <1>2, <2>1, LeavingSame DEF CreateCheck, StartRequest, StartLock, proc
  <2>3. QED
    BY <2>2 DEF lvars, Listed, Live
<1>3. CASE ClientStops(c, d)
  BY <1>1, <1>3, TakeImplements DEF ClientStops, StopRequest, LeavePc, proc
<1>4. CASE DeleteCheck(c, d) /\ listeners[d] # "none"
  <2>1. Alone(c) /\ pc[c] \notin LeavePc /\ pc'[c] \notin LeavePc
    BY <1>1, <1>4 DEF DeleteCheck, Begin, Alone, LeavePc, IInv, TypeOK
  <2>2. UNCHANGED <<row, listeners, phase>> /\ Leaving' = Leaving
    BY <1>1, <1>4, <2>1, LeavingSame DEF DeleteCheck, proc
  <2>3. QED
    BY <2>2 DEF lvars, Listed, Live
<1>5. CASE DeleteCheck(c, d) /\ listeners[d] = "none"
  <2>1. Alone(c) /\ pc[c] \notin LeavePc /\ pc'[c] \in LeavePc /\ dep'[c] = d
    BY <1>1, <1>5 DEF DeleteCheck, Begin, Alone, LeavePc, IInv, TypeOK
  <2>2. UNCHANGED <<row, listeners, phase>> /\ Leaving' = Leaving \cup {d}
    BY <1>1, <1>5, <2>1, LeavingAdds DEF DeleteCheck, proc
  <2>3. Listed' = Listed \ {d} /\ Live' = Live \ {d}
    BY <1>5, <2>2 DEF Listed, Live
  <2>4. Lifecycles!Take(d)
    BY <1>1, <2>2, <2>3 DEF Lifecycles!Take, Listed, Live
  <2>5. QED
    BY <2>4 DEF Lifecycles!Next
<1>6. QED
  BY <1>2, <1>3, <1>4, <1>5

LEMMA LeadImplements ==
  ASSUME IInv, RestoreOK, Lifecycle
  PROVE  [Lifecycles!Next]_lvars
<1> USE DEF Listed, Live
<1>1. CASE List
  <2>1. UNCHANGED <<row, listeners, Leaving>> /\ phase = "listing" /\ Listed = {}
        /\ phase' \in {"restoring", "up"}
    BY <1>1 DEF List, RestoreOK, act, Leaving, BeingRemoved
  <2>2. CASE phase' = "restoring"
    BY <2>1, <2>2 DEF Lifecycles!Restore, Lifecycles!Next
  <2>3. QED
    BY <2>1, <2>2 DEF lvars
<1>2. CASE RestoreMark
  <2>1. Main \in Actors /\ pc[Main] = "restoreMark" /\ phase = "restoring"
        /\ dep[Main] \in Deps /\ row[dep[Main]] \in Rows
    BY <1>2, ActorFacts DEF RestoreMark, IInv, TypeOK, LockOK, PhaseOK
  <2>2. Alone(Main) /\ pc[Main] \notin LeavePc /\ pc'[Main] \notin LeavePc
    BY <1>2, <2>1 DEF RestoreMark, End, Begin, Alone, LeavePc, IInv, TypeOK
  <2>3. UNCHANGED <<listeners, phase, Leaving>>
    BY <1>2, <2>1, <2>2, LeavingSame DEF RestoreMark, proc
  <2>4. UNCHANGED row \/ Lifecycles!RestoreFails(dep[Main])
    BY <1>2, <2>1, <2>3 DEF RestoreMark, Lifecycles!RestoreFails, Lifecycles!Rows, Rows
  <2>5. QED
    BY <2>1, <2>3, <2>4 DEF Lifecycles!Next, lvars
<1>3. CASE Serve
  BY <1>3 DEF Serve, Lifecycles!Serve, Lifecycles!Next, act, Leaving, BeingRemoved
<1>4. CASE Shutdown \/ CloseSnapshot
  BY <1>4 DEF Shutdown, CloseSnapshot, lvars, act, Leaving, BeingRemoved
<1>5. CASE CloseReturns
  BY <1>5, ActorFacts DEF CloseReturns, Halt, Lifecycles!End, Lifecycles!Next, Leaving, BeingRemoved
<1>6. ASSUME NEW d \in Deps, RestoreNext(d) PROVE [Lifecycles!Next]_lvars
  <2>1. Main \in Actors /\ Alone(Main) /\ pc[Main] \notin LeavePc /\ pc'[Main] \notin LeavePc
    BY <1>6, ActorFacts DEF RestoreNext, StartLock, Begin, Alone, LeavePc, IInv, TypeOK
  <2>2. UNCHANGED <<row, listeners, phase, Leaving>>
    BY <1>6, <2>1, LeavingSame DEF RestoreNext, StartLock
  <2>3. QED
    BY <2>2 DEF lvars
<1>7. ASSUME NEW d \in Deps, CloseStop(d) PROVE [Lifecycles!Next]_lvars
  BY <1>7, ActorFacts, TakeImplements DEF CloseStop, StopRequest, LeavePc
<1>8. QED
  BY <1>1, <1>2, <1>3, <1>4, <1>5, <1>6, <1>7 DEF Lifecycle

(* Deployments implements DeploymentLifecycle: no row and no server on a   *)
(* port that has one, no row that says running without a Start that has    *)
(* its entry, no deployment that comes back after its delete.              *)
THEOREM DeploymentLifecycleImplemented == Spec => ImplementsDeploymentLifecycle
<1>1. Init => Lifecycles!Init
  BY DEF Init, Lifecycles!Init, Leaving, BeingRemoved
<1>2. ASSUME IInv, RestoreOK, [Next]_vars PROVE [Lifecycles!Next]_lvars
  <2>1. ASSUME NEW d \in Deps, ServerDies(d) PROVE [Lifecycles!Next]_lvars
    <3>1. Listed' = Listed /\ Live' = Live \ {d} /\ UNCHANGED <<row, phase, Leaving>>
      BY <1>2, <2>1 DEF ServerDies, IInv, TypeOK, act, proc, Listed, Live, Leaving, BeingRemoved
    <3>2. Lifecycles!Die(d)
      BY <3>1 DEF Lifecycles!Die, Listed, Live
    <3>3. QED
      BY <3>2 DEF Lifecycles!Next
  <2>2. CASE Crash
    BY <2>2, ActorFacts DEF Crash, Halt, Lifecycles!End, Lifecycles!Next, Leaving, BeingRemoved
  <2>3. CASE Signal \/ Restart
    BY <2>3 DEF Signal, Restart, lvars, Listed, Live, act, Leaving, BeingRemoved
  <2>4. CASE UNCHANGED vars
    BY <2>4 DEF vars, proc, act, lvars, Listed, Live, Leaving, BeingRemoved
  <2>5. QED
    BY <1>2, <2>1, <2>2, <2>3, <2>4, StepImplements, RequestImplements, LeadImplements
       DEF Next, Stopped
<1>3. QED
  BY <1>1, <1>2, Invariance, RestoreInvariance, PTL
     DEF Spec, ImplementsDeploymentLifecycle, Lifecycles!Spec, Lifecycles!vars, lvars, Listed, Live
=============================================================================
