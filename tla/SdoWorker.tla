------------------------------ MODULE SdoWorker ------------------------------
(***************************************************************************)
(* SDOSubWorker: one thread owns every SDO transfer on the EtherCAT bus.   *)
(* Other threads hand it jobs through a bounded BlockingCollection; reads  *)
(* of one object that are waiting already are coalesced in `pending`,      *)
(* writes never are.  The results go to the SDOStore (`point`) and to the  *)
(* callers that wait on a TaskCompletionSource.                            *)
(*                                                                         *)
(* One instance of the worker is modelled, from its constructor to the end *)
(* of Dispose.  A call of a client is split where another thread can run:  *)
(* after the checks, between the lock on `pending` and UpdatePending, and  *)
(* before BlockingCollection.Add, which blocks while the queue is full.    *)
(***************************************************************************)
EXTENDS Naturals, Sequences, FiniteSets

CONSTANTS
  Clients,      \* threads that use the worker
  Stopper,      \* the client that starts and disposes it (the UI thread)
  Calls,        \* Calls[c]: the Enqueue methods client c uses
  Keys,         \* SDO objects (SDOKey)
  Unheld,       \* those whose slave the Datamap may not hold when it is asked
  Values,       \* payloads
  Lens,         \* read lengths (maxLen), positive
  Capacity,     \* boundedCapacity of the queue
  MayCrash,     \* can the native call or the store throw out of the loop?
  Null          \* C#'s null, for LastRaw and for "no job in hand"

Methods == {"EnqueueRead", "EnqueueReadAsync", "EnqueueWrite", "EnqueueWriteAsync"}
ReadMethods == {"EnqueueRead", "EnqueueReadAsync"}
AsyncMethods == {"EnqueueReadAsync", "EnqueueWriteAsync"}

ASSUME ClientsAssumption == Stopper \in Clients /\ Calls \in [Clients -> SUBSET Methods]
ASSUME DataAssumption == Values # {} /\ Null \notin Values /\ Lens \subseteq Nat \ {0}
                      /\ Unheld \subseteq Keys
ASSUME CapacityAssumption == Capacity \in Nat \ {0}
ASSUME CrashAssumption == MayCrash \in BOOLEAN

VARIABLES
  running,    \* _running
  cancelled,  \* _cts is cancelled
  completed,  \* _queue.CompleteAdding has returned
  stop,       \* where the Stopper is in Start/Dispose
  queue,      \* _queue
  pending,    \* _pending: the WorkItem of each key
  drain,      \* FailAllPending's `items`: taken from pending, not yet failed
  thread,     \* the worker thread
  wpc, hand, ok,  \* where it is, the job it holds, the transfer's result
  pc, req,    \* where each client is in its call, and the call's arguments
  answer,     \* the result set on the task each client waits for
  point,      \* SDOStore: the SDOPoint of each key
  device      \* the object's value in the slave

vars == <<running, cancelled, completed, stop, queue, pending, drain, thread,
          wpc, hand, ok, pc, req, answer, point, device>>
lifeVars == <<running, cancelled, completed, stop>>
workVars == <<thread, wpc, hand, ok>>
callVars == <<pc, req, answer>>

-----------------------------------------------------------------------------
Job == [op : {"Read", "Write"}, key : Keys, len : Nat, val : Values \cup {Null},
        waiters : SUBSET Clients]
Item == [on : BOOLEAN, len : Nat, waiters : SUBSET Clients]
Request == [method : Methods, key : Keys, len : Nat, val : Values \cup {Null}]
Status == {"None", "Pending", "Ok", "Error"}
Point == [raw : Values \cup {Null}, rd : Status, wr : Status]

NoItem == [on |-> FALSE, len |-> 0, waiters |-> {}]

MaxLen(a, b) == IF a > b THEN a ELSE b
Self(c, r) == IF r.method \in AsyncMethods THEN {c} ELSE {}

Init ==
  /\ running = FALSE /\ cancelled = FALSE /\ completed = FALSE /\ stop = "new"
  /\ queue = <<>>
  /\ pending = [k \in Keys |-> NoItem]
  /\ drain = [k \in Keys |-> NoItem]
  /\ thread = "unborn" /\ wpc = "idle" /\ hand = Null /\ ok = FALSE
  /\ pc = [c \in Clients |-> "idle"]
  /\ req = [c \in Clients |-> Null]
  /\ answer = [c \in Clients |-> "none"]
  /\ point = [k \in Keys |-> [raw |-> Null, rd |-> "None", wr |-> "None"]]
  /\ device \in [Keys -> Values]

-----------------------------------------------------------------------------
(* SDOStore: each update runs under the store's lock.  GetSlave may find no *)
(* slave, and then there is no store to update and nothing to transfer.     *)

NoSlave(k) == k \in Unheld /\ UNCHANGED point

UpdateOk(k, v, isRead) ==
  point' = [point EXCEPT ![k] = IF isRead THEN [@ EXCEPT !.raw = v, !.rd = "Ok"]
                                          ELSE [@ EXCEPT !.raw = v, !.wr = "Ok"]]
(* Mutant: a failed transfer leaves LastRaw alone. *)
UpdateErrorKeepsRaw(k, isRead) ==
  point' = [point EXCEPT ![k] = IF isRead THEN [@ EXCEPT !.rd = "Error"]
                                          ELSE [@ EXCEPT !.wr = "Error"]]
UpdateError(k, isRead) ==
  point' = [point EXCEPT ![k] = IF isRead THEN [@ EXCEPT !.raw = Null, !.rd = "Error"]
                                          ELSE [@ EXCEPT !.raw = Null, !.wr = "Error"]]
UpdatePending(k) == point' = [point EXCEPT ![k].rd = "Pending"]

(* TrySetResult on the waiters W: the first result stands, and a waiter     *)
(* whose call has thrown is garbage.                                        *)
Resolve(W, result) ==
  answer' = [c \in Clients |-> IF c \in W /\ pc[c] # "idle" /\ answer[c] = "none"
                               THEN result ELSE answer[c]]

-----------------------------------------------------------------------------
(* The Enqueue methods, called by a thread that is not inside another call. *)

Free(c) == pc[c] = "idle" /\ (c = Stopper => stop \in {"new", "up", "stopped"})

(* ThrowIfDisposed and the _running check let the call through; a call they *)
(* turn away with an exception changes nothing.                             *)
Call(c, m, k, l, v) ==
  /\ Free(c) /\ m \in Calls[c] /\ running
  /\ pc' = [pc EXCEPT ![c] = IF m \in ReadMethods THEN "register" ELSE "add"]
  /\ req' = [req EXCEPT ![c] = [method |-> m, key |-> k,
                                len |-> IF m \in ReadMethods THEN l ELSE 0,
                                val |-> IF m \in ReadMethods THEN Null ELSE v]]
  /\ UNCHANGED <<lifeVars, queue, pending, drain, workVars, answer, point, device>>

(* Mutant: the arguments are released as soon as the caller waits. *)
GotoForgets(c, next) ==
  /\ pc' = [pc EXCEPT ![c] = next]
  /\ req' = IF next \in {"idle", "wait"} THEN [req EXCEPT ![c] = Null] ELSE req

(* The call of c goes on at `next`; its arguments are gone once it is over. *)
Goto(c, next) ==
  /\ pc' = [pc EXCEPT ![c] = next]
  /\ req' = IF next = "idle" THEN [req EXCEPT ![c] = Null] ELSE req

(* The body of lock (_pendingLock): join the waiting WorkItem or open one. *)
Merge(c) ==
  LET k == req[c].key IN
  pending' = [pending EXCEPT ![k] =
                [on |-> TRUE,
                 len |-> MaxLen(@.len, req[c].len),
                 waiters |-> @.waiters \cup Self(c, req[c])]]

(* Mutant: needEnqueue is set for a key that is pending already. *)
RegisterAlways(c) ==
  /\ pc[c] = "register"
  /\ Merge(c)
  /\ Goto(c, "mark")
  /\ UNCHANGED <<lifeVars, queue, drain, workVars, answer, point, device>>

Register(c) ==
  /\ pc[c] = "register"
  /\ Merge(c)
  /\ Goto(c, IF ~pending[req[c].key].on THEN "mark"
             ELSE IF req[c].method \in AsyncMethods THEN "wait" ELSE "idle")
  /\ UNCHANGED <<lifeVars, queue, drain, workVars, answer, point, device>>

(* SafeUpdatePending, outside the lock. *)
Mark(c) ==
  /\ pc[c] = "mark"
  /\ UpdatePending(req[c].key) \/ NoSlave(req[c].key)
  /\ Goto(c, "add")
  /\ UNCHANGED <<lifeVars, queue, pending, drain, workVars, answer, device>>

(* Mutant: EnqueueWriteAsync forgets to hand its waiter to the job. *)
NewJobNoWaiter(c) ==
  LET r == req[c] IN
  [op |-> IF r.method \in ReadMethods THEN "Read" ELSE "Write",
   key |-> r.key, len |-> r.len, val |-> r.val, waiters |-> {}]

NewJob(c) ==
  LET r == req[c] IN
  [op |-> IF r.method \in ReadMethods THEN "Read" ELSE "Write",
   key |-> r.key, len |-> r.len, val |-> r.val,
   waiters |-> IF r.method = "EnqueueWriteAsync" THEN {c} ELSE {}]

(* _queue.Add: blocks while the queue is full ... *)
Add(c) ==
  /\ pc[c] = "add" /\ ~completed /\ Len(queue) < Capacity
  /\ queue' = Append(queue, NewJob(c))
  /\ Goto(c, IF req[c].method \in AsyncMethods THEN "wait" ELSE "idle")
  /\ UNCHANGED <<lifeVars, pending, drain, workVars, answer, point, device>>

(* ... and throws InvalidOperationException once adding is completed. *)
AddThrows(c) ==
  /\ pc[c] = "add" /\ completed
  /\ Goto(c, "idle")
  /\ answer' = [answer EXCEPT ![c] = "none"]
  /\ UNCHANGED <<lifeVars, queue, pending, drain, workVars, point, device>>

(* GetAwaiter().GetResult() returns once the task has its result. *)
Awake(c) ==
  /\ pc[c] = "wait" /\ answer[c] # "none"
  /\ Goto(c, "idle")
  /\ answer' = [answer EXCEPT ![c] = "none"]
  /\ UNCHANGED <<lifeVars, queue, pending, drain, workVars, point, device>>

-----------------------------------------------------------------------------
(* ThreadMain *)

Take ==
  /\ thread = "alive" /\ wpc = "idle" /\ ~cancelled /\ queue # <<>>
  /\ hand' = Head(queue) /\ queue' = Tail(queue)
  /\ wpc' = IF Head(queue).op = "Read" THEN "took" ELSE "writing"
  /\ UNCHANGED <<lifeVars, pending, drain, thread, ok, callVars, point, device>>

(* Mutant: the cancellation is caught inside the loop, which goes on. *)
ExitSwallowed ==
  /\ thread = "alive" /\ wpc = "idle" /\ completed /\ queue = <<>> /\ ~cancelled
  /\ thread' = "dead"
  /\ UNCHANGED <<lifeVars, queue, pending, drain, wpc, hand, ok, callVars, point, device>>

(* OperationCanceledException out of GetConsumingEnumerable: normal exit.  *)
(* (Stop cancels before it completes adding, so the loop never ends by an  *)
(* empty completed queue.)                                                 *)
Exit ==
  /\ thread = "alive" /\ wpc = "idle" /\ cancelled
  /\ thread' = "dead"
  /\ UNCHANGED <<lifeVars, queue, pending, drain, wpc, hand, ok, callVars, point, device>>

(* Mutant: the WorkItem stays in pending while its transfer runs. *)
ClaimKeeps ==
  /\ wpc = "took"
  /\ LET k == hand.key IN
     IF pending[k].on
     THEN /\ hand' = [hand EXCEPT !.len = pending[k].len, !.waiters = pending[k].waiters]
          /\ wpc' = "reading"
     ELSE hand' = Null /\ wpc' = "idle"
  /\ UNCHANGED <<lifeVars, queue, pending, drain, thread, ok, callVars, point, device>>

(* HandleReadJob, first half: take the WorkItem out of pending, under its   *)
(* lock, BEFORE the transfer; its length and its waiters replace the job's. *)
Claim ==
  /\ wpc = "took"
  /\ LET k == hand.key IN
     IF pending[k].on
     THEN /\ hand' = [hand EXCEPT !.len = pending[k].len, !.waiters = pending[k].waiters]
          /\ pending' = [pending EXCEPT ![k] = NoItem]
          /\ wpc' = "reading"
     ELSE hand' = Null /\ wpc' = "idle" /\ UNCHANGED pending
  /\ UNCHANGED <<lifeVars, queue, drain, thread, ok, callVars, point, device>>

(* ExecuteReadMap: the CoE upload answers with the object's value or fails, *)
(* or there is no slave.                                                    *)
ExecuteReadMap ==
  /\ wpc = "reading"
  /\ \/ ok' = TRUE /\ UpdateOk(hand.key, device[hand.key], TRUE)
     \/ ok' = FALSE /\ (UpdateError(hand.key, TRUE) \/ NoSlave(hand.key))
  /\ wpc' = "answer"
  /\ UNCHANGED <<lifeVars, queue, pending, drain, thread, hand, callVars, device>>

(* ExecuteWriteMap.  rc = 0: the slave took the value.  rc # 0 covers an    *)
(* abort and a lost reply: the slave may or may not have taken it.  Without *)
(* a slave the job ends with no transfer and no status.                     *)
ExecuteWriteMap ==
  /\ wpc = "writing"
  /\ \/ /\ ok' = TRUE
        /\ device' = [device EXCEPT ![hand.key] = hand.val]
        /\ UpdateOk(hand.key, hand.val, FALSE)
     \/ /\ ok' = FALSE
        /\ device' \in {device, [device EXCEPT ![hand.key] = hand.val]}
        /\ UpdateError(hand.key, FALSE)
     \/ ok' = FALSE /\ UNCHANGED device /\ NoSlave(hand.key)
  /\ wpc' = "answer"
  /\ UNCHANGED <<lifeVars, queue, pending, drain, thread, hand, callVars>>

(* The loop over the waiters, then the next iteration. *)
Answer ==
  /\ wpc = "answer"
  /\ Resolve(hand.waiters, IF ok THEN "true" ELSE "false")
  /\ hand' = Null /\ ok' = FALSE /\ wpc' = "idle"
  /\ UNCHANGED <<lifeVars, queue, pending, drain, thread, pc, req, point, device>>

(* An exception that leaves the loop: FailAllPending takes the pending      *)
(* items over, the job in hand and its waiters are dropped.  HandleWriteJob *)
(* has no try of its own, so it may be thrown by the native call before     *)
(* anything is written, or by what UpdateOk and UpdateError do for the UI   *)
(* after the transfer, the store updated already.  HandleReadJob catches    *)
(* what its transfer throws, but not what its SafeUpdateError throws then.  *)
Thrown == \/ wpc = "writing"
          \/ wpc = "answer" /\ (hand.op = "Write" \/ ~ok)

Crash ==
  /\ MayCrash /\ Thrown
  /\ wpc' = "failing" /\ hand' = Null /\ ok' = FALSE
  /\ drain' = pending /\ pending' = [k \in Keys |-> NoItem]
  /\ UNCHANGED <<lifeVars, queue, thread, callVars, point, device>>

(* FailAllPending's loop, for the item of key k. *)
Fail(k) ==
  /\ wpc = "failing" \/ stop = "drain"
  /\ drain[k].on
  /\ \/ point' = [point EXCEPT ![k] = [raw |-> Null, rd |-> "Error", wr |-> "Error"]]
     \/ NoSlave(k)
  /\ Resolve(drain[k].waiters, "false")
  /\ drain' = [drain EXCEPT ![k] = NoItem]
  /\ UNCHANGED <<lifeVars, queue, pending, workVars, pc, req, device>>

Drained == \A k \in Keys : ~drain[k].on

CrashExit ==
  /\ wpc = "failing" /\ Drained
  /\ wpc' = "idle" /\ thread' = "dead"
  /\ UNCHANGED <<lifeVars, queue, pending, drain, hand, ok, callVars, point, device>>

-----------------------------------------------------------------------------
(* Start and Dispose (which runs Stop), by the Stopper. *)

Start ==
  /\ stop = "new" /\ pc[Stopper] = "idle"
  /\ running' = TRUE /\ thread' = "alive" /\ stop' = "up"
  /\ UNCHANGED <<cancelled, completed, queue, pending, drain, wpc, hand, ok, callVars, point, device>>

(* _disposed = true and _running = false: from here the Enqueue checks fail. *)
Dispose ==
  /\ stop = "up" /\ pc[Stopper] = "idle"
  /\ running' = FALSE /\ stop' = "cancel"
  /\ UNCHANGED <<cancelled, completed, queue, pending, drain, workVars, callVars, point, device>>

Cancel ==
  /\ stop = "cancel"
  /\ cancelled' = TRUE /\ stop' = "complete"
  /\ UNCHANGED <<running, completed, queue, pending, drain, workVars, callVars, point, device>>

CompleteAdding ==
  /\ stop = "complete"
  /\ completed' = TRUE /\ stop' = "join"
  /\ UNCHANGED <<running, cancelled, queue, pending, drain, workVars, callVars, point, device>>

(* Mutant: Stop does not fail what is still pending. *)
JoinNoDrain ==
  /\ stop = "join" /\ thread = "dead"
  /\ stop' = "drain"
  /\ UNCHANGED <<running, cancelled, completed, queue, pending, drain, workVars, callVars, point, device>>

(* Join, and DrainPendingOnStop's snapshot of pending under its lock. *)
Join ==
  /\ stop = "join" /\ thread = "dead"
  /\ drain' = pending /\ pending' = [k \in Keys |-> NoItem]
  /\ stop' = "drain"
  /\ UNCHANGED <<running, cancelled, completed, queue, workVars, callVars, point, device>>

StopReturns ==
  /\ stop = "drain" /\ Drained
  /\ stop' = "stopped"
  /\ UNCHANGED <<running, cancelled, completed, queue, pending, drain, workVars, callVars, point, device>>

-----------------------------------------------------------------------------
Client(c) == Register(c) \/ Mark(c) \/ Add(c) \/ AddThrows(c) \/ Awake(c)
Worker == Take \/ Exit \/ Claim \/ ExecuteReadMap \/ ExecuteWriteMap \/ Answer \/ Crash \/ CrashExit
Lifecycle == Cancel \/ CompleteAdding \/ Join \/ StopReturns

Next ==
  \/ \E c \in Clients, m \in Methods, k \in Keys, l \in Lens, v \in Values : Call(c, m, k, l, v)
  \/ \E c \in Clients : Client(c)
  \/ Worker
  \/ \E k \in Keys : Fail(k)
  \/ Start \/ Dispose \/ Lifecycle

Spec == Init /\ [][Next]_vars

(***************************************************************************)
(* The threads run, a transfer ends (SOEM bounds it with EC_TIMEOUTRXM),   *)
(* and Dispose, once begun, goes on.  Nobody has to call.                  *)
(***************************************************************************)
Fairness ==
  /\ \A c \in Clients : WF_vars(Client(c))
  /\ WF_vars(Worker)
  /\ \A k \in Keys : WF_vars(Fail(k))
  /\ WF_vars(Lifecycle)

FairSpec == Spec /\ Fairness
=============================================================================
