--------------------------- MODULE ProcessDataMC ---------------------------
EXTENDS ProcessDataProperties

Sms(addr, lens) ==
  [k \in DOMAIN lens |-> [addr |-> addr + lens[k].gap + ByteCount([j \in DOMAIN lens |-> [len |-> lens[j].len]], k - 1),
                          len |-> lens[k].len]]
One(n) == <<[gap |-> 0, len |-> n]>>
Two(m, n) == <<[gap |-> 0, len |-> m], [gap |-> 0, len |-> n]>>       \* connected
Apart(m, n) == <<[gap |-> 0, len |-> m], [gap |-> 2, len |-> n]>>     \* two FMMUs

Map(obits, out, ibits, in) ==
  [obits |-> obits, ibits |-> ibits, out |-> Sms(10, out), in |-> Sms(20, in)]
Slave(id, coe, sii, mbx, block) == [id |-> id, coe |-> coe, soe |-> NoMapping, sii |-> sii, mbx |-> mbx, block |-> block]

Drive == Slave("drive", Map(16, One(2), 24, Two(1, 2)), NoMapping, TRUE, FALSE)
Axis2 == [Slave("axis", NoMapping, NoMapping, TRUE, FALSE)
            EXCEPT !.soe = Map(24, Apart(1, 2), 16, Apart(1, 1))]
DigIn == Slave("digin", NoMapping, Map(0, <<>>, 4, One(1)), FALSE, FALSE)
DigOut == Slave("digout", NoMapping, Map(6, One(1), 0, <<>>), FALSE, FALSE)
OddBits == Slave("odd", Map(12, One(2), 9, One(2)), NoMapping, FALSE, TRUE)
Large == Slave("large", Map(48, One(6), 8, One(1)), NoMapping, FALSE, FALSE)
Coupler == Slave("coupler", NoMapping, NoMapping, FALSE, FALSE)
Gate == Slave("gate", Map(2, One(1), 3, One(1)), NoMapping, TRUE, FALSE)

Meter == Slave("meter", Map(0, <<>>, 16, One(2)), NoMapping, TRUE, FALSE)

Types == {Drive, Axis2, DigIn, DigOut, OddBits, Large, Coupler, Gate, Meter}
ShortChains == UNION {[1 .. n -> Types] : n \in 1 .. 2}
LongChains == {<<a, b, c>> : a \in {Drive, DigIn}, b \in {Axis2, OddBits, Gate}, c \in {Drive, DigOut, Large}}
MCChains == ShortChains \cup LongChains
=============================================================================
