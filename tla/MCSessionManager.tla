-------------------------- MODULE MCSessionManager --------------------------
(* Three testers, the address 0 among them: it is the address of the       *)
(* session nobody owns and of every request from the wire.                 *)
EXTENDS SessionManager

MCTesters == {0, 1, 2}

=============================================================================
