--------------------------- MODULE MCStreamRelay ---------------------------
(***************************************************************************)
(* One call of StreamProxy: a stream relayed with the usage frames         *)
(* stripped, translated with and without keep-alive, and a JSON body       *)
(* relayed or translated.                                                  *)
(***************************************************************************)
EXTENDS StreamRelay

Mode(strip, translate, alive, stream) ==
    [strip |-> strip, translate |-> translate, ka |-> alive, stream |-> stream]

AllModes == {Mode(TRUE, FALSE, TRUE, TRUE),
             Mode(TRUE, TRUE, FALSE, TRUE), Mode(FALSE, TRUE, TRUE, TRUE),
             Mode(FALSE, FALSE, TRUE, FALSE), Mode(FALSE, TRUE, TRUE, FALSE)}

=============================================================================
