---------------------------- MODULE MCDiagService ----------------------------
(* Requests over the wire, and callers that leave a DiagRequest's          *)
(* source_address as it is, which is the wire's address, too.              *)
EXTENDS DiagService

MCTesters == {WireAddress}

=============================================================================
