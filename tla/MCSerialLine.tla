--------------------------- MODULE MCSerialLine ---------------------------
EXTENDS SerialLine
Escape  == <<"+", "+", "+">>
Dial    == <<"AT", "D", "1", CR>>
HangUp  == <<"AT", "H", CR>>
MCSends == {Dial, Escape \o HangUp, <<"+", "x", MSR>>}
MCKnown == {<<"1">>}
===========================================================================
