----------------------------- MODULE EepromMC -----------------------------
EXTENDS Eeprom

R(op, s, a) == [op |-> op, s |-> s, a |-> a]
Identity == <<R("first", 1, 2), R("first", 2, 2), R("second", 1, 2), R("second", 2, 2)>>
Walk == <<R("enter", 1, 0), R("byte", 1, 0), R("byte", 1, 5), R("byte", 1, 2), R("leave", 1, 0),
          R("byte", 2, 0), R("byte", 1, 0)>>
Change == <<R("write", 1, 2), R("byte", 1, 2)>>
Dump(s) == <<R("dump", s, 0)>>
InPlace == <<R("writeAP", 1, 2), R("readAP", 2, 6)>>
MCErased == {2, 3}
MCJobs == {Identity, Walk, Change, Dump(1), Dump(2), InPlace}
=============================================================================
