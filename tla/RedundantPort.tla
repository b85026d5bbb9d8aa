--------------------------- MODULE RedundantPort ---------------------------
(***************************************************************************)
(* The port in redundant mode (ecx_outframe_red, ecx_waitinframe_red): two *)
(* NICs at the two ends of the line of slaves.  The request goes out of    *)
(* the primary NIC and an empty frame out of the secondary one; where they *)
(* come back tells where the line is broken, and when it is, the half-done *)
(* request is sent once more from the other end.                           *)
(*                                                                         *)
(* A slave executes a frame only on its way from the primary side to the   *)
(* secondary one.  A frame is its source and the slaves that executed it;  *)
(* its working counter is their number.                                    *)
(***************************************************************************)
EXTENDS Integers, Sequences

CONSTANTS N,        \* slaves on the line
          MaxRetry  \* transmissions that fit in the limit of srconfirm

ASSUME LineAssumption == N \in Nat \ {0}

NoFrame == -1   \* EC_NOFRAME
NoRx == [src |-> "none", seen |-> <<>>]

(* ec_setupheader: every transmit buffer has the address of the primary    *)
(* NIC as its source; ecx_init_redundant gives the empty frame (txbuf2)    *)
(* that of the secondary one.                                              *)
SetupHeader == [src |-> "primary", seen |-> <<>>]
Dummy == [SetupHeader EXCEPT !.src = "secondary"]

VARIABLES
  brk,     \* the cut link: k is between slaves k and k+1, N+1 is none
  step,    \* "send", "wait", "rewait", "finished"
  tx,      \* the request in txbuf
  prim,    \* what the primary socket received for this index
  sec,     \* what the secondary socket received
  retry,   \* transmissions so far
  wkc,     \* what ecx_srconfirm returns: NoFrame or a working counter
  dropped  \* TRUE once the line has lost a frame other than by the cut

redVars == <<brk, step, tx, prim, sec, retry, wkc, dropped>>

RedInit ==
  /\ brk \in 0 .. N + 1 /\ step = "send" /\ tx = SetupHeader
  /\ prim = NoRx /\ sec = NoRx /\ retry = 0 /\ wkc = NoFrame
  /\ dropped = FALSE

Slaves(a, b) == [k \in 1 .. (IF b < a THEN 0 ELSE b - a + 1) |-> a + k - 1]

(* Where a frame put in at either end comes out, and what happened to it.  *)
Executed(f, slaves) == [f EXCEPT !.seen = @ \o slaves]

FromPrimary(f) ==
  CASE brk = 0     -> [at |-> "lost", frame |-> f]
    [] brk = N + 1 -> [at |-> "secondary", frame |-> Executed(f, Slaves(1, N))]
    [] OTHER       -> [at |-> "primary", frame |-> Executed(f, Slaves(1, brk))]
FromSecondary(f) ==
  CASE brk = N     -> [at |-> "lost", frame |-> f]
    [] brk = N + 1 -> [at |-> "primary", frame |-> f]
    [] OTHER       -> [at |-> "secondary", frame |-> Executed(f, Slaves(brk + 1, N))]

(* ecx_outframe_red and the waiting loop: either frame may be lost.        *)
Lost == [at |-> "lost", frame |-> NoRx]
Arrived(socket, p, s) ==
  IF p.at = socket THEN p.frame ELSE IF s.at = socket THEN s.frame ELSE NoRx

SendBoth ==
  /\ step = "send"
  /\ \E p \in {FromPrimary(tx), Lost}, s \in {FromSecondary(Dummy), Lost} :
       /\ prim' = Arrived("primary", p, s) /\ sec' = Arrived("secondary", p, s)
       /\ dropped' = (dropped \/ p # FromPrimary(tx) \/ s # FromSecondary(Dummy))
  /\ retry' = retry + 1 /\ step' = "wait"
  /\ UNCHANGED <<brk, tx, wkc>>

Result(rx) == IF rx.src = "none" THEN NoFrame ELSE Len(rx.seen)

(* What waitinframe_red returns ends srconfirm, or makes it send again.    *)
Leave(w) ==
  /\ wkc' = w
  /\ step' = IF w = NoFrame /\ retry < MaxRetry THEN "send" ELSE "finished"

(* The frames crossed: the line is whole and the answer is the secondary's. *)
Crossed ==
  /\ step = "wait" /\ prim.src = "secondary" /\ sec.src = "primary"
  /\ prim' = sec /\ Leave(Result(sec))
  /\ UNCHANGED <<brk, tx, sec, retry, dropped>>

(* The secondary frame came back on its own side: what the primary side    *)
(* left undone is sent again from the secondary NIC.                       *)
SendAgainFromStart ==   \* a mutant: the half-done frame is not copied
  /\ step = "wait" /\ sec.src = "secondary" /\ prim.src \in {"none", "primary"}
  /\ \E s \in {FromSecondary(tx), Lost} :
       /\ sec' = Arrived("secondary", s, Lost)
       /\ dropped' = (dropped \/ s # FromSecondary(tx))
  /\ step' = "rewait"
  /\ UNCHANGED <<brk, tx, prim, retry, wkc>>

SendAgain ==
  /\ step = "wait" /\ sec.src = "secondary" /\ prim.src \in {"none", "primary"}
  /\ tx' = IF prim.src = "primary" THEN [tx EXCEPT !.seen = prim.seen] ELSE tx
  /\ \E s \in {FromSecondary(tx'), Lost} :
       /\ sec' = Arrived("secondary", s, Lost)
       /\ dropped' = (dropped \/ s # FromSecondary(tx'))
  /\ step' = "rewait"
  /\ UNCHANGED <<brk, prim, retry, wkc>>

Rejoined ==
  /\ step = "rewait"
  /\ prim' = IF sec.src = "none" THEN prim ELSE sec
  /\ Leave(Result(prim'))
  /\ UNCHANGED <<brk, tx, sec, retry, dropped>>

(* Every other outcome is taken from the primary socket as it is.          *)
TakePrimary ==
  /\ step = "wait"
  /\ ~(prim.src = "secondary" /\ sec.src = "primary")
  /\ ~(sec.src = "secondary" /\ prim.src \in {"none", "primary"})
  /\ Leave(Result(prim))
  /\ UNCHANGED <<brk, tx, prim, sec, retry, dropped>>

(***************************************************************************)
(* Properties.                                                             *)
(***************************************************************************)
Ended == step = "finished" /\ wkc # NoFrame

(* Wherever the line is cut, and while no frame is lost, the answer is the *)
(* one the unbroken line would give: every slave executed the frame, once, *)
(* in the order of the line.  Whatever is lost, the working counter that   *)
(* is returned counts slaves that executed the frame in the receive        *)
(* buffer, each once: the copy of a half-done frame back into the transmit *)
(* buffer never sends it through the same slaves again                     *)
(* (waitinframe_red's choice between its two receive buffers, and its      *)
(* second transmission).                                                   *)
CutIsTransparent ==
  /\ step = "finished" /\ ~dropped => wkc = N /\ prim.seen = Slaves(1, N)
  /\ Ended => /\ wkc = Len(prim.seen)
              /\ \A j, k \in DOMAIN prim.seen : j < k => prim.seen[j] < prim.seen[k]

RedNext == SendBoth \/ Crossed \/ SendAgain \/ Rejoined \/ TakePrimary
RedSpec == RedInit /\ [][RedNext]_redVars
=============================================================================
