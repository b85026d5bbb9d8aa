----------------------------- MODULE Automation -----------------------------
(***************************************************************************)
(* StateMachine: the automation thread moves the slaves through the        *)
(* EtherCAT states one step at a time towards the state the UI asked for,  *)
(* and runs the cyclic PDO worker (PDORTWorker) while they are in OP.      *)
(* Shutdown runs on the UI thread and stops the PDO worker itself, beside  *)
(* the automation thread.                                                  *)
(*                                                                         *)
(* The model begins when an adapter has been opened and slaves found (the  *)
(* SlaveCount guards of the Move methods hold) and ends when the window    *)
(* is closed.  A PDORTWorker object is a member of Workers, used again     *)
(* once nobody refers to it.                                               *)
(***************************************************************************)
EXTENDS Naturals

CONSTANTS
  Workers,   \* PDORTWorker objects
  Null

ASSUME WorkersAssumption == Null \notin Workers

Sequence == {"Init", "PreOp", "SafeOp", "Op"}  \* eStateSequenceName

VARIABLES
  current,   \* m_eCurrentSequence
  target,    \* _targetSequence
  signal,    \* _automationSignal is set
  running,   \* _automationRunning
  worker,    \* the field worker
  run,       \* run[w]: PDORTWorker._running
  loop,      \* loop[w]: the PDO thread of w: "none", "alive" or "dead"
  bus,       \* the state the slaves are in
  apc, hop, ok, aw,  \* automation thread: where it is, the state the step
                     \* under way leads to, ExecuteNextStep's last result,
                     \* and the worker it has in hand
  upc, closing, uw  \* UI thread: where it is, is it in Shutdown, and its worker

automationVars ==
  <<current, target, signal, running, worker, run, loop, bus, apc, hop, ok, aw, upc, closing, uw>>
requestVars == <<target, signal, running>>
pdoVars == <<worker, run, loop>>
uiVars == <<upc, closing, uw>>

(* Open has mapped the PDOs, which leaves the slaves in SAFE-OP, while the *)
(* constructor's m_eCurrentSequence is Init.                               *)
AutomationInit ==
  /\ current = "Init" /\ target = "Init" /\ signal = FALSE /\ running = TRUE
  /\ worker = Null
  /\ run = [w \in Workers |-> FALSE] /\ loop = [w \in Workers |-> "none"]
  /\ bus = "SafeOp"
  /\ apc = "wait" /\ hop = "Init" /\ ok = TRUE /\ aw = Null
  /\ upc = "idle" /\ closing = FALSE /\ uw = Null

-----------------------------------------------------------------------------
(* The automation thread: AutomationThreadMain *)

Goto(l) == apc' = l
Failed == ok' = FALSE /\ Goto("outer")

(* WaitOne: the AutoResetEvent is consumed by the one thread that waits. *)
Wake ==
  /\ apc = "wait" /\ signal
  /\ signal' = FALSE /\ ok' = TRUE
  /\ Goto(IF running THEN "loop" ELSE "dead")
  /\ UNCHANGED <<current, target, running, pdoVars, bus, hop, aw, uiVars>>

Outer ==
  /\ apc = "outer"
  /\ Goto(IF running THEN "wait" ELSE "dead")
  /\ UNCHANGED <<current, requestVars, pdoVars, bus, hop, ok, aw, uiVars>>


(* ExecuteNextStep's table: one state up or down, towards t. *)
Toward(c, t) ==
  CASE c = "Init" -> "PreOp"
    [] c = "PreOp" -> IF t = "Init" THEN "Init" ELSE "SafeOp"
    [] c = "SafeOp" -> IF t = "Op" THEN "Op" ELSE "PreOp"
    [] c = "Op" -> "SafeOp"

(* Mutant: the step down from OP leaves the PDO worker running. *)
FirstStepKeepsPdo(c, h) ==
  CASE h = "Op" -> "stop" [] h = "SafeOp" /\ c = "PreOp" -> "map" [] OTHER -> "ensure"

(* What the Move...Core method of the step from c to h begins with. *)
FirstStep(c, h) ==
  CASE h = "Op" \/ c = "Op" -> "stop"
    [] h = "SafeOp" /\ c = "PreOp" -> "map"
    [] OTHER -> "ensure"

NextStep ==
  /\ apc = "loop"
  /\ IF ~running \/ current = target
     THEN Goto("outer") /\ UNCHANGED hop
     ELSE hop' = Toward(current, target) /\ Goto(FirstStep(current, hop'))
  /\ UNCHANGED <<current, requestVars, pdoVars, bus, ok, aw, uiVars>>

(* MoveToSafeOPCore before EnsureState: the profiles are made and prepared *)
(* through the SDO worker, whatever they answer, and RebuildPdoMap asks    *)
(* each slave for SAFE-OP.                                                 *)
Map ==
  /\ apc = "map"
  /\ bus' \in {bus, "SafeOp"}
  /\ Failed \/ (Goto("ensure") /\ UNCHANGED ok)
  /\ UNCHANGED <<current, requestVars, pdoVars, hop, aw, uiVars>>

(* EnsureState (soem_set_state): all slaves have reached the state in time, *)
(* or not; late ones may still reach it.                                    *)
EnsureOk ==
  /\ apc = "ensure"
  /\ bus' = hop
  /\ Goto(IF hop = "Op" THEN "start" ELSE "set")
  /\ UNCHANGED <<current, requestVars, pdoVars, hop, ok, aw, uiVars>>

(* Mutant: the failure of EnsureState drops the worker and does not return. *)
EnsureFailsGoesOn ==
  /\ apc = "ensure"
  /\ bus' \in {bus, hop}
  /\ IF hop = "Op"
     THEN worker' = Null /\ UNCHANGED <<run, ok>> /\ Goto("start")
     ELSE Failed /\ UNCHANGED <<worker, run>>
  /\ UNCHANGED <<current, requestVars, loop, hop, aw, uiVars>>

(* A step to OP that fails drops its worker, which has not been started. *)
EnsureFails ==
  /\ apc = "ensure"
  /\ bus' \in {bus, hop}
  /\ Failed
  /\ IF hop = "Op"
     THEN worker' = Null /\ run' = [w \in Workers |-> w # worker /\ run[w]]
     ELSE UNCHANGED <<worker, run>>
  /\ UNCHANGED <<current, requestVars, loop, hop, aw, uiVars>>

(* SetCurrentState: the end of every step that succeeds. *)
SetCurrentState ==
  /\ apc = "set"
  /\ current' = hop
  /\ Goto("loop")
  /\ UNCHANGED <<requestVars, pdoVars, bus, hop, ok, aw, uiVars>>

-----------------------------------------------------------------------------
(* StopPdoWorker on the automation thread, before a step down from OP and  *)
(* at the beginning of a step to OP.                                       *)

AfterStop == IF hop = "Op" THEN "create" ELSE "ensure"
StopRun(w) == run' = [run EXCEPT ![w] = FALSE]

StopPdo ==
  /\ apc = "stop"
  /\ IF worker = Null
     THEN Goto(AfterStop) /\ UNCHANGED <<aw, run>>
     ELSE aw' = worker /\ StopRun(worker) /\ Goto("join")
  /\ UNCHANGED <<current, requestVars, worker, loop, bus, hop, ok, uiVars>>

JoinPdo ==
  /\ apc = "join" /\ loop[aw] # "alive"
  /\ Goto("clear")
  /\ UNCHANGED <<current, requestVars, pdoVars, bus, hop, ok, aw, uiVars>>

ClearPdo ==
  /\ apc = "clear"
  /\ worker' = Null /\ aw' = Null
  /\ Goto(AfterStop)
  /\ UNCHANGED <<current, requestVars, run, loop, bus, hop, ok, uiVars>>

(* MoveToOperateCore: new PDORTWorker, PrepareOp of every profile, then     *)
(* SetBinds, EnsureState and Start, each through the field `worker`.  A     *)
(* NullReferenceException on this thread ends the process.                  *)

Create ==
  /\ apc = "create"
  /\ \E w \in Workers \ {worker, aw, uw} :
       /\ loop[w] # "alive"
       /\ worker' = w /\ run' = [run EXCEPT ![w] = FALSE] /\ loop' = [loop EXCEPT ![w] = "none"]
  /\ Goto("bind")
  /\ UNCHANGED <<current, requestVars, bus, hop, ok, aw, uiVars>>

Bind ==
  /\ apc = "bind"
  /\ Goto(IF worker = Null THEN "crashed" ELSE "ensure")
  /\ UNCHANGED <<current, requestVars, pdoVars, bus, hop, ok, aw, uiVars>>

StartPdo ==
  /\ apc = "start"
  /\ aw' = worker
  /\ Goto(IF worker = Null THEN "crashed" ELSE "run")
  /\ UNCHANGED <<current, requestVars, pdoVars, bus, hop, ok, uiVars>>

StartRun ==
  /\ apc = "run"
  /\ run' = [run EXCEPT ![aw] = TRUE]
  /\ Goto("spawn")
  /\ UNCHANGED <<current, requestVars, worker, loop, bus, hop, ok, aw, uiVars>>

StartThread ==
  /\ apc = "spawn"
  /\ loop' = [loop EXCEPT ![aw] = "alive"] /\ aw' = Null
  /\ Goto("set")
  /\ UNCHANGED <<current, requestVars, worker, run, bus, hop, ok, uiVars>>

(* RunPdoLoop: the cycle that sees _running false is the last one. *)
PdoExit(w) ==
  /\ loop[w] = "alive" /\ ~run[w]
  /\ loop' = [loop EXCEPT ![w] = "dead"]
  /\ UNCHANGED <<current, requestVars, worker, run, bus, apc, hop, ok, aw, uiVars>>

-----------------------------------------------------------------------------
(* The UI thread: RequestState, and Shutdown. *)

autoVars == <<current, bus, apc, hop, ok, aw>>

RequestState(t) ==
  /\ upc = "idle"
  /\ target' = t /\ upc' = "signal"
  /\ UNCHANGED <<autoVars, signal, running, pdoVars, closing, uw>>

Shutdown ==
  /\ upc = "idle"
  /\ target' = "Init" /\ upc' = "signal" /\ closing' = TRUE
  /\ UNCHANGED <<autoVars, signal, running, pdoVars, uw>>

SetSignal ==
  /\ upc = "signal"
  /\ signal' = TRUE /\ upc' = IF closing THEN "await" ELSE "idle"
  /\ UNCHANGED <<autoVars, target, running, pdoVars, closing, uw>>

(* The automation thread can stay this long: in calls to the bus, or for   *)
(* ever once it waits and nobody has signalled it.                         *)
InLongCall == apc \in {"map", "bind", "ensure", "join"}
AtRest == apc = "wait" /\ ~signal

(* WaitForState: it polls for 5 seconds. *)
WaitForInit ==
  /\ upc = "await"
  /\ current = "Init" \/ InLongCall \/ AtRest
  /\ upc' = "stop"
  /\ UNCHANGED <<autoVars, requestVars, pdoVars, closing, uw>>

(* StopPdoWorker on the UI thread. *)
UStopPdo ==
  /\ upc = "stop"
  /\ IF worker = Null
     THEN upc' = "off" /\ UNCHANGED <<uw, run>>
     ELSE uw' = worker /\ StopRun(worker) /\ upc' = "join"
  /\ UNCHANGED <<autoVars, requestVars, worker, loop, closing>>

UJoinPdo ==
  /\ upc = "join" /\ loop[uw] # "alive"
  /\ upc' = "clear"
  /\ UNCHANGED <<autoVars, requestVars, pdoVars, closing, uw>>

UClearPdo ==
  /\ upc = "clear"
  /\ worker' = Null /\ uw' = Null /\ upc' = "off"
  /\ UNCHANGED <<autoVars, requestVars, run, loop, closing>>

SwitchOff ==
  /\ upc = "off"
  /\ running' = FALSE /\ upc' = "wake"
  /\ UNCHANGED <<autoVars, target, signal, pdoVars, closing, uw>>

(* Mutant: the thread is not woken to see that it shall end. *)
WakeThreadNot ==
  /\ upc = "wake"
  /\ upc' = "jointhread"
  /\ UNCHANGED <<autoVars, requestVars, pdoVars, closing, uw>>

WakeThread ==
  /\ upc = "wake"
  /\ signal' = TRUE /\ upc' = "jointhread"
  /\ UNCHANGED <<autoVars, target, running, pdoVars, closing, uw>>

(* Join(2000), which gives up while the thread is in a long call. *)
JoinThread ==
  /\ upc = "jointhread" /\ (apc = "dead" \/ InLongCall)
  /\ upc' = "done"
  /\ UNCHANGED <<autoVars, requestVars, pdoVars, closing, uw>>

-----------------------------------------------------------------------------
AutomationThread ==
  \/ Wake \/ Outer \/ NextStep \/ Map \/ EnsureOk \/ EnsureFails \/ SetCurrentState
  \/ StopPdo \/ JoinPdo \/ ClearPdo \/ Create \/ Bind \/ StartPdo \/ StartRun \/ StartThread
UiGoesOn ==
  \/ SetSignal \/ WaitForInit \/ UStopPdo \/ UJoinPdo \/ UClearPdo \/ SwitchOff \/ WakeThread
  \/ JoinThread

(* Nothing runs in a process that has crashed. *)
AutomationNext ==
  /\ apc # "crashed"
  /\ \/ AutomationThread
     \/ \E w \in Workers : PdoExit(w)
     \/ \E t \in Sequence : RequestState(t)
     \/ Shutdown \/ UiGoesOn

AutomationSpec == AutomationInit /\ [][AutomationNext]_automationVars

(* The threads run and bus calls end (they are bounded by their timeouts);  *)
(* the UI finishes what it has begun.                                       *)
AutomationFairness ==
  /\ WF_automationVars(AutomationThread /\ apc # "crashed")
  /\ \A w \in Workers : WF_automationVars(PdoExit(w) /\ apc # "crashed")
  /\ WF_automationVars(UiGoesOn /\ apc # "crashed")

AutomationFairSpec == AutomationSpec /\ AutomationFairness

-----------------------------------------------------------------------------
(* Shutdown has come to StopPdoWorker: two threads use `worker` now. *)
StopBegun == upc \in {"join", "clear", "off", "wake", "jointhread", "done"}

(***************************************************************************)
(* No two real-time loops ever exchange process data at the same time,     *)
(* whatever steps, failures and shutdown interleave.  Until Shutdown stops *)
(* it, the PDO thread runs only while the slaves are in OP, and it is the  *)
(* one the field `worker` refers to: no step leaves a loop behind that     *)
(* nobody can stop.                                                        *)
(***************************************************************************)
Alive(w) == loop[w] = "alive"
OnePdoLoop == \A v, w \in Workers : Alive(v) /\ Alive(w) => v = w
LoopIsHeld == ~StopBegun => \A w \in Workers : Alive(w) => bus = "Op" /\ w = worker
PdoOnlyInOp == OnePdoLoop /\ LoopIsHeld

(* The steps use the field `worker` again and again without a check: only  *)
(* Shutdown can make it null under the automation thread, which then dies  *)
(* of a NullReferenceException with the whole process.                     *)
CrashOnlyInShutdown == apc = "crashed" => StopBegun

-----------------------------------------------------------------------------
(* A state asked for is reached, through every state between, unless       *)
(* another one is asked for, a step fails, or the window is closed.        *)
StepFailed == ~ok /\ (apc = "outer" \/ AtRest)

(* Closing the window ends (or the process does), whatever the automation  *)
(* thread was doing.                                                       *)
ShutdownReturns == closing ~> (upc = "done" \/ apc = "crashed")
=============================================================================
