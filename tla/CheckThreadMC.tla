---------------------------- MODULE CheckThreadMC ----------------------------
EXTENDS CheckThread
MCSlaves == 1 .. 2
MCSpares == {11, 12}
Known(alias, id, rev) == "alias" :> alias @@ "id" :> id @@ "man" :> 1 @@ "rev" :> rev
MCIdentity ==   \* 11 may replace slave 1, 12 is another revision of slave 2
  1 :> Known(5, 7, 1) @@ 2 :> Known(0, 8, 0) @@ 11 :> Known(5, 7, 1) @@ 12 :> Known(0, 8, 3)
MCData == 1 :> "inputs" @@ 2 :> "outputs"
MCPlans == {<<>>, <<SAFEOP, OP>>}
=============================================================================
