--------------------------- MODULE MCDefaultEntry ---------------------------
(* An instance of DefaultEntry for TLC: three accounts with stacked limits,  *)
(* and the readings that the policy tells apart.                             *)
EXTENDS DefaultEntry

Window(w, status, above, reset) ==
    [window |-> w, status |-> status, metered |-> TRUE, above |-> above,
     reset |-> reset, used |-> 0]

Ready(quotas) == [state |-> "Ready", quotas |-> quotas]

MCReadings == {
    [state |-> "Loading", quotas |-> {}],
    [state |-> "Failed", quotas |-> {}],
    \* usable, and resetting sooner or later
    Ready({Window("FiveHour", "Ok", FALSE, 1)}),
    Ready({Window("FiveHour", "Warn", FALSE, 2)}),
    \* over the threshold, still serving
    Ready({Window("FiveHour", "Warn", TRUE, 1)}),
    \* dead until the long window resets, whatever the short one does
    Ready({Window("FiveHour", "Ok", FALSE, 1), Window("Long", "Exhausted", TRUE, 2)}),
    Ready({Window("Long", "Exhausted", TRUE, 3)}),
    Ready({Window("Long", "Exhausted", TRUE, Unknown)})}

MCAccounts == 1 .. 3
MCPriority == [a \in MCAccounts |-> 100]
=============================================================================
