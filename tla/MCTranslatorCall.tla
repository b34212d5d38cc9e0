-------------------------- MODULE MCTranslatorCall --------------------------
(* Code of three instructions and the point behind it.                       *)
EXTENDS TranslatorCall
CONSTANTS f1, f2, Bad, Wide

I(k, t) == [kind |-> k, target |-> t]
Three(a, b, c) == [pc \in 0..3 |-> CASE pc = 0 -> a [] pc = 1 -> b
                                     [] pc = 2 -> c [] pc = 3 -> I("seq", 0)]
First == {I("seq", 0), I("cond", 1), I("jump", 2)}
Second == {I("literal", 0), I("cond", 0), I("jump", 1), I("unknown", 0)}
Third == {I("jump", 0), I("cond", 1), I("soft", 0)}
MCPrograms == {Three(a, b, c) : a \in First, b \in Second, c \in Third}

MCRangeLists == {<< <<0, Wide>> >>, << <<2, 3>>, <<0, 1>>, <<3, 0>>, <<1, 2>> >>,
                 << <<0, 3>>, Bad >>}
MCOptionLists == {<<"ok">>, <<"ok", "no string">>, <<"key not ASCII">>,
                  <<"ok", "value not ASCII">>, Absent}
=============================================================================
