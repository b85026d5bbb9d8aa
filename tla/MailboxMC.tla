----------------------------- MODULE MailboxMC -----------------------------
EXTENDS MailboxProperties
MCTarget == ("c1" :> "s1") @@ ("c2" :> "s2")
MCLookup == <<"s1", "s2">>
All == {"s1", "s2"}
Scene(mode, coe, work, cnt, who, hurry, ask, losses, unasked) ==
  [mode |-> mode, coe |-> coe, limit |-> work, cnt |-> cnt, callers |-> who, hurried |-> hurry,
   ask |-> ask, lost |-> losses, alarms |-> unasked]
MCScenes == {
  Scene("direct", All, 2, 6, {"c1"}, {"c1"}, 2, 3, 2),
  Scene("cyclic", All, 2, 0, {"c1"}, {}, 1, 1, 1),
  Scene("cyclic", All, 2, 7, {"c1"}, {"c1"}, 1, 2, 0),
  Scene("cyclic", All, 0, 7, {"c1"}, {"c1"}, 4, 0, 0),   \* the queue of three becomes full
  Scene("cyclic", All, 2, 0, {"c1", "c2"}, {"c1"}, 1, 0, 0),
  Scene("cyclic", {"s1"}, 2, 0, {"c1", "c2"}, {"c1"}, 1, 0, 0)}
=============================================================================
