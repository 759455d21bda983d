--------------------------- MODULE MCDiagPrograms ---------------------------
(* Frames of every service: as short as it takes, shorter, and longer.     *)
EXTENDS DiagPrograms

MCTesters == {WireAddress, CliAddress}

Vin == [i \in 1 .. 17 |-> 65]

MCArguments == {<<7>>, Vin}

MCFrames ==
    {<<>>, <<16>>, <<16, 1>>, <<16, 130>>, <<16, 3, 9>>, <<16, 127>>,
     <<62, 0>>, <<39, 1>>, <<39, 2, 7>>, <<39, 129>>, <<39, 5>>,
     <<34, 241>>, <<34, 241, 144>>, <<34, 241, 145, 9>>, <<34, 0, 0>>,
     <<49, 1, 255>>, <<49, 1, 255, 0>>, <<49, 1, 255, 0, 7>>,
     <<49, 1, 255, 0>> \o Vin, <<49, 3, 255, 1>>, <<49, 1, 255, 2>>,
     <<49, 1, 255, 3, 7>>, <<49, 1, 0, 0>>, <<17>>, <<191, 1, 7>>}

=============================================================================
