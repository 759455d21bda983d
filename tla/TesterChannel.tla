---------------------------- MODULE TesterChannel ----------------------------
(***************************************************************************)
(* What DiagService may rely on of a transport (include/                   *)
(* transport_adapter.h), without sockets and frames: testers are attended  *)
(* to one after another, in the order in which they came; of the one that  *)
(* is attended to, requests are delivered once each and in their order,    *)
(* and each is answered to it, or not at all, before the next one is       *)
(* delivered.  A tester that has sent something improper is promised less: *)
(* anything may be delivered from it, and the answer may name another      *)
(* tester, but it still goes out on its own connection.                    *)
(***************************************************************************)
EXTENDS Naturals, Sequences

CONSTANTS Testers,   \* the testers that may connect
          Requests,  \* what is delivered
          Nowhere    \* an address that is no tester's

VARIABLES lines,     \* the testers' connections, oldest first
          attended,  \* the connection that is attended to, or 0
          pending,   \* the request being served, or Nothing
          answer     \* the last answer

vars == <<lines, attended, pending, answer>>

Nothing == [fd |-> 0]

Line(t) == [peer |-> t, waiting |-> TRUE, proper |-> TRUE,
            asked |-> <<>>, heard |-> <<>>]

Waiting == {c \in DOMAIN lines : lines[c].waiting}

Init == /\ lines = <<>>
        /\ attended = 0
        /\ pending = Nothing
        /\ answer = [fd |-> 0, to |-> Nowhere, frame |-> 0]

(* A tester comes, asks, or sends something improper, at any time.         *)
Come(t) == /\ lines' = Append(lines, Line(t))
           /\ UNCHANGED <<attended, pending, answer>>

Ask(c) == LET more == lines'[c].asked IN
          /\ lines' = [lines EXCEPT ![c].asked = more]
          /\ more \in Seq(Requests) /\ more # <<>>
          /\ more = Append(lines[c].asked, more[Len(more)])
          /\ UNCHANGED <<attended, pending, answer>>

Misbehave(c) == /\ lines' = [lines EXCEPT ![c].proper = FALSE]
                /\ UNCHANGED <<attended, pending, answer>>

(* The one that waits longest has its turn, once nobody else has.          *)
Attend(c) == /\ attended = 0 /\ pending = Nothing
             /\ c \in Waiting /\ \A d \in Waiting : c <= d
             /\ lines' = [lines EXCEPT ![c].waiting = FALSE]
             /\ attended' = c
             /\ UNCHANGED <<pending, answer>>

(* Its turn is over, never between a request and its answer.               *)
Leave == /\ attended # 0 /\ pending = Nothing
         /\ attended' = 0
         /\ UNCHANGED <<lines, pending, answer>>

Deliver ==
    /\ attended # 0 /\ pending = Nothing
    /\ pending' \in [fd : {attended}, frame : Requests]
    /\ LET s == lines[attended] IN
       /\ s.proper => /\ Len(s.heard) < Len(s.asked)
                      /\ pending'.frame = s.asked[Len(s.heard) + 1]
       /\ \/ lines' = [lines EXCEPT ![attended].heard =
                                       Append(s.heard, pending'.frame)]
          \/ ~s.proper /\ lines' = lines
    /\ UNCHANGED <<attended, answer>>

Answer(t) ==
    /\ pending # Nothing
    /\ lines[pending.fd].proper => t = lines[pending.fd].peer
    /\ answer' = [fd |-> pending.fd, to |-> t, frame |-> pending.frame]
    /\ pending' = Nothing
    /\ UNCHANGED <<lines, attended>>

(* A request that cannot be decoded is not answered.                       *)
Drop == /\ pending # Nothing
        /\ pending' = Nothing
        /\ UNCHANGED <<lines, attended, answer>>

Next == \/ \E t \in Testers : Come(t)
        \/ \E c \in DOMAIN lines : Ask(c) \/ Misbehave(c) \/ Attend(c)
        \/ \E t \in Testers \cup {Nowhere} : Answer(t)
        \/ Deliver \/ Drop \/ Leave

Spec == Init /\ [][Next]_vars

=============================================================================
