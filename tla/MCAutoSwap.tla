------------------------------ MODULE MCAutoSwap ------------------------------
(* An instance of AutoSwap for TLC: at any time one account is usable and the *)
(* others are exhausted.                                                      *)
EXTENDS AutoSwap

Ready(status) ==
    [state |-> "Ready",
     quotas |-> {[window |-> "Long", status |-> status, metered |-> TRUE,
                  above |-> status = "Exhausted", reset |-> 1, used |-> 0]}]

MCAccounts == 1 .. 3
MCPriority == [a \in MCAccounts |-> 100]

MCObservations ==
    {[a \in MCAccounts |-> Ready(IF a = usable THEN "Ok" ELSE "Exhausted")] : usable \in MCAccounts}
=============================================================================
