------------------------------- MODULE MCWarm --------------------------------
EXTENDS Warm

MCEndpointOf == [r \in Route |-> IF r = "sender" THEN {"ping"} ELSE {"tips"}]
MCFallbackOf == [r \in Route |-> {}]
MCPresets == {<<"none">>, <<"sender", "jito", "sender">>}
MCForms == {<<"none">>, <<"jito", "jito">>}
==============================================================================
