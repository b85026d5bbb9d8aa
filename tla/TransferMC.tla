----------------------------- MODULE TransferMC -----------------------------
EXTENDS TransferProperties
Call(op, size, room, l) ==
  [op |-> op, size |-> size, room |-> room, l |-> l, rl |-> l, early |-> Null, moody |-> FALSE]
Moody(j) == {j, [j EXCEPT !.moody = TRUE]}
Early(j) == {[j EXCEPT !.early = r] : r \in {Upload(1), Upload(2), UploadOther}}
LateWrite(j) == [j EXCEPT !.early = DownloadOther]
MCJobs ==
  UNION {Moody(Call("SDOread", n, 56, 24)) : n \in {3, 8, 9, 24, 56}}
  \cup {Call("SDOread", 3, 2, 24), Call("SDOread", 24, 23, 24)}
  \cup {LateWrite(Call("SDOread", n, 24, 24)) : n \in {3, 24}}
  \cup Early(Call("SDOread", 3, 4, 24)) \cup Early(Call("SDOread", 24, 24, 24))
  \cup UNION {Moody(Call("SDOwrite", n, 0, 24)) : n \in {3, 8, 9, 23, 40}}
  \cup Early(Call("SDOwrite", 3, 0, 24)) \cup Early(Call("SDOwrite", 24, 0, 24))
  \cup {Call("RxPDO", n, 0, 24) : n \in {16, 17}}
  \cup {Call("TxPDO", 16, n, 24) : n \in {15, 16}} \cup Moody(Call("TxPDO", 8, 8, 24))
  \cup Moody(Call("readOD", 12, 8, 24)) \cup Moody(Call("readOE", 8, 8, 24))
  \cup {Call("readODlist", n, 24, 24) : n \in {12, 13, 30}} \cup Moody(Call("readODlist", 8, 8, 24))
  \cup UNION {Moody(Call("FOEread", n, m, 24)) : n \in {0, 11, 12, 30}, m \in {11, 40}}
  \cup {[Call("FOEread", 30, 40, 24) EXCEPT !.rl = 28]}
  \cup UNION {Moody(Call("FOEwrite", n, 0, 24)) : n \in {0, 11, 12, 30}}
  \cup {Call("SoEread", n, m, 24) : n \in {13, 14, 15, 40}, m \in {14, 40}} \cup Moody(Call("SoEread", 4, 4, 24))
  \cup UNION {Moody(Call("SoEwrite", n, 0, 24)) : n \in {13, 14, 28, 40}}
  \cup {Call("EOEsend", n, 0, 42) : n \in {20, 32, 33, 70}} \cup {Call("EOEsend", 20, 0, 24)}
  \cup {Call("EOErecv", n, m, 42) : n \in {20, 33, 70}, m \in {32, 96}}
  \cup {Call("EOEreadfragment", n, m, 42) : n \in {20, 33, 70}, m \in {32, 96}}
  \cup Moody(Call("EOEsetIp", 0, 0, 42)) \cup Moody(Call("EOEgetIp", 20, 20, 42))
  \cup {Call("EOEgetIp", 10, 20, 42)}
=============================================================================
