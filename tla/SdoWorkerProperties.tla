------------------------ MODULE SdoWorkerProperties ------------------------
EXTENDS SdoWorker

(* Every variable has its type, and a call under way has its arguments. *)
LifeType ==
  /\ running \in BOOLEAN /\ cancelled \in BOOLEAN /\ completed \in BOOLEAN
  /\ stop \in {"new", "up", "cancel", "complete", "join", "drain", "stopped"}
  /\ thread \in {"unborn", "alive", "dead"}
JobType ==
  /\ queue \in Seq(Job)
  /\ pending \in [Keys -> Item] /\ drain \in [Keys -> Item]
  /\ wpc \in {"idle", "took", "reading", "writing", "answer", "failing"}
  /\ ok \in BOOLEAN
  /\ wpc \in {"took", "reading", "writing", "answer"} => hand \in Job
  /\ wpc = "writing" => hand.val \in Values
WriteJobType == \A i \in DOMAIN queue : queue[i].op = "Write" => queue[i].val \in Values
CallType ==
  /\ pc \in [Clients -> {"idle", "register", "mark", "add", "wait"}]
  /\ DOMAIN req = Clients
  /\ \A c \in Clients : pc[c] # "idle" => req[c] \in Request
  /\ \A c \in Clients : pc[c] # "idle" /\ req[c].method \notin ReadMethods => req[c].val \in Values
  /\ \A c \in Clients : pc[c] \in {"register", "mark"} => req[c].method \in ReadMethods
  /\ answer \in [Clients -> {"none", "true", "false"}]
StoreType == point \in [Keys -> Point] /\ device \in [Keys -> Values]

TypeOK == LifeType /\ JobType /\ WriteJobType /\ CallType /\ StoreType

(***************************************************************************)
(* Who will bring the pending item of key k to the worker: a read job in   *)
(* the queue, the job in the worker's hand, or the client that registered  *)
(* the item and has not added its job yet.                                 *)
(***************************************************************************)
ReadJobAt(i, k) == queue[i].op = "Read" /\ queue[i].key = k
Brings(c, k) == pc[c] \in {"mark", "add"} /\ req[c].method \in ReadMethods /\ req[c].key = k

Queued(k) == \E i \in DOMAIN queue : ReadJobAt(i, k)
Held(k) == wpc = "took" /\ hand.key = k
Brought(k) == \E c \in Clients : Brings(c, k)

Serving == thread # "dead" /\ wpc # "failing"

(***************************************************************************)
(* Coalescing loses no read and repeats none.  While the worker serves, a  *)
(* pending item has exactly one job, wherever that job is, and a read job  *)
(* has its pending item: so a reader that joined an item is not left there *)
(* by a job that has gone already, and one request is not read twice.      *)
(***************************************************************************)
OneJob(k) ==
  /\ \A i, j \in DOMAIN queue : ReadJobAt(i, k) /\ ReadJobAt(j, k) => i = j
  /\ \A c, d \in Clients : Brings(c, k) /\ Brings(d, k) => c = d
  /\ ~(Queued(k) /\ Held(k)) /\ ~(Queued(k) /\ Brought(k)) /\ ~(Held(k) /\ Brought(k))
  /\ Queued(k) \/ Held(k) \/ Brought(k) => pending[k].on

OneJobPerPendingRead ==
  \A k \in Keys :
    /\ Serving => OneJob(k)
    /\ ~completed /\ pending[k].on => Queued(k) \/ Held(k) \/ Brought(k)

(***************************************************************************)
(* What the store shows as the last value of an object is the value the    *)
(* slave holds, whatever reads and writes of whoever succeeded or failed,  *)
(* a write that failed after the slave took it included.                   *)
(***************************************************************************)
StoreIsDevice == \A k \in Keys : point[k].raw # Null => point[k].raw = device[k]

(***************************************************************************)
(* The worker implements SdoService: transfers do not overlap, a reader is *)
(* served only by a transfer that began after it asked, transfers go out   *)
(* in the order they were queued, and each waiter is answered at most once.*)
(***************************************************************************)
Calling(W) == {c \in W : pc[c] # "idle"}

Phase == IF thread = "unborn" THEN "new"
         ELSE IF thread = "alive" /\ wpc # "failing" THEN "up" ELSE "down"
Open == [k \in Keys |-> Calling(pending[k].waiters \cup drain[k].waiters)]
AsTurn(j) == [op |-> j.op, key |-> j.key, waiters |-> j.waiters,
              val |-> IF j.op = "Write" THEN j.val ELSE Null]
Coming == IF wpc = "took" THEN <<hand>> \o queue ELSE queue
Line == [i \in DOMAIN Coming |-> AsTurn(Coming[i])]
Busy == IF wpc = "reading" THEN "read" ELSE IF wpc = "writing" THEN "write"
        ELSE IF wpc = "answer" THEN "done" ELSE "none"
Writing == IF wpc = "writing" THEN AsTurn(hand) ELSE Null
Served == IF wpc \in {"reading", "writing", "answer"} THEN Calling(hand.waiters) ELSE {}

Service == INSTANCE SdoService WITH
  phase <- Phase, open <- Open, line <- Line, busy <- Busy, writing <- Writing,
  served <- Served, result <- answer

ServiceSpec == Service!Spec

(***************************************************************************)
(* Liveness.  Add has no order among callers that find the queue full, so  *)
(* a caller can be overtaken for ever; the first property is stated for    *)
(* behaviours in which that does not happen.                               *)
(***************************************************************************)
QueueNeverFull == [](Len(queue) < Capacity)

(* The worker thread has died of an exception and nobody has stopped it:   *)
(* nothing answers a call any more before Dispose.                         *)
Crashed == thread = "dead" /\ running

(* The job that would have answered c was in the worker's hand when the     *)
(* exception came: a read that is in no WorkItem any more.                  *)
Dropped(c) ==
  /\ wpc = "failing" \/ thread = "dead"
  /\ \A k \in Keys : c \notin pending[k].waiters \cup drain[k].waiters

(* Every EnqueueReadAsync returns, also when Dispose runs meanwhile, unless *)
(* its read was dropped by a dying worker, and a queued EnqueueWriteAsync   *)
(* does as long as the worker lives and nobody stops it.                    *)
Waits(c, method) == pc[c] = "wait" /\ req[c].method = method
Returned(c) == pc[c] = "idle" \/ Crashed
CallsReturn == \A c \in Clients :
  /\ QueueNeverFull => (Waits(c, "EnqueueReadAsync") ~> Returned(c) \/ Dropped(c))
  /\ Waits(c, "EnqueueWriteAsync") ~> Returned(c) \/ ~running

(* Dispose returns: the worker leaves its loop whatever it was doing. *)
DisposeReturns == stop = "cancel" ~> stop = "stopped"
=============================================================================
