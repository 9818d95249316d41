--------------------------- MODULE MCEntryLimits ---------------------------
(***************************************************************************)
(* Three pairs on the dollar and one epic of unknown currencies.  The      *)
(* matrices: nothing correlated, the three pairs on one bet (USDCHF the    *)
(* other way), and a chain in which the first and the last epic are tied   *)
(* only through the second.  Two of the epics or all four are warm.        *)
(***************************************************************************)
EXTENDS EntryLimits

MCDays == {1}
MCEpics == 1..4
MCCurrencyMap == [e \in 1..3 |-> CASE e = 1 -> <<"EUR", "USD">>
                                   [] e = 2 -> <<"GBP", "USD">>
                                   [] e = 3 -> <<"USD", "CHF">>]
MCWarmSets == {{1, 2}, MCEpics}
MCBalances == {80, 100}

Matrix(c12, c13, c23, c24) ==
  [a \in MCEpics |-> [b \in MCEpics |->
     CASE a = b -> 100
       [] {a, b} = {1, 2} -> c12
       [] {a, b} = {1, 3} -> c13
       [] {a, b} = {2, 3} -> c23
       [] {a, b} = {2, 4} -> c24
       [] OTHER -> 0]]
Tied == {Matrix(0, 0, 0, 0), Matrix(75, -80, -70, 0)}
Chain == {Matrix(70, 0, -70, 0)}
=============================================================================
