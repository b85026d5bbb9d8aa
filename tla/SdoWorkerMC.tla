---------------------------- MODULE SdoWorkerMC ----------------------------
(***************************************************************************)
(* Properties of SdoWorker that TLC checks, and the instances it checks.   *)
(* The clients are the threads of the program: the UI thread reads and     *)
(* writes without waiting and owns Start/Dispose, the automation thread    *)
(* waits for every read and write it asks for, the PDO thread only writes. *)
(***************************************************************************)
EXTENDS SdoWorkerProperties, TLC

CONSTANTS ui, auto, rt

MCClients == {ui, auto, rt}
MCCalls == (ui :> {"EnqueueRead"})
        @@ (auto :> {"EnqueueReadAsync", "EnqueueWriteAsync"})
        @@ (rt :> {"EnqueueWrite"})

(* Payloads are only moved about and compared, so they may change places,  *)
(* which halves the states of the safety run.                              *)
Payloads == Permutations(Values)

(* For liveness: the UI thread floods the queue in place of the PDO thread. *)
PairClients == {ui, auto}
PairCalls == (ui :> {"EnqueueRead", "EnqueueWrite"})
          @@ (auto :> {"EnqueueReadAsync", "EnqueueWriteAsync"})
=============================================================================
