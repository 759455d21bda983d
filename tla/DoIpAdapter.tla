----------------------------- MODULE DoIpAdapter -----------------------------
(***************************************************************************)
(* src/doip_adapter.cpp: the connection of the one tester that is          *)
(* served, as the service's thread drives it: connect, receive, send and   *)
(* disconnect, one after the other.  Testers dial, send frames and hang up *)
(* at any time; what they send waits in the socket.                        *)
(*                                                                         *)
(* A frame is a header, which tells its payload type and length, and its   *)
(* payload, which may come later; the bytes of both are left out.  recv    *)
(* waits for all it was asked for (MSG_WAITALL, no timeout), which makes   *)
(* each recv a step of its own, enabled once the bytes have come or the    *)
(* tester has hung up.  Acknowledgements and activation responses tell the *)
(* service nothing and are left out with the bytes.                        *)
(***************************************************************************)
EXTENDS Naturals, Sequences

LOCAL INSTANCE FiniteSetsExt

CONSTANTS Peers,         \* logical addresses of testers
          NoAddress,     \* remote_address_ before the first request
          Kinds,         \* kinds of frame testers send
          MaxDials,      \* bound on connections
          MaxFrames      \* bound on frames, over all connections

(* 0x0005; 0x8001 with something after its four bytes of addresses; 0x8001 *)
(* with nothing after them; a type the adapter does not know, or a length  *)
(* beyond 4096.                                                            *)
AllKinds == {"activation", "request", "short", "other"}

(* Well-formed frames of the types the adapter takes.                      *)
ProperKinds == {"activation", "request"}

ASSUME DoIpAssumption == /\ Kinds \subseteq AllKinds
                         /\ NoAddress \notin Peers
                         /\ MaxDials \in Nat /\ MaxFrames \in Nat

VARIABLES sockets,          \* connections ever made, oldest first
          client_fd,        \* the index in sockets, or 0 for -1
          connected,        \* connected_
          remote_address,   \* remote_address_
          doing,            \* where the service's thread is
          answer            \* the last response sent, and to whom

vars == <<sockets, client_fd, connected, remote_address, doing, answer>>

Idle == [at |-> "idle"]

NoAnswer == [fd |-> 0, to |-> NoAddress, frame |-> 0]

(* ours is our end of the connection, up whether the tester's end is open, *)
(* due the payload of a frame whose header has been sent; asked and heard  *)
(* are the history of requests sent and delivered, proper says that only   *)
(* ProperKinds were sent.                                                  *)
Dialled(p) == [peer |-> p, ours |-> "queued", up |-> TRUE, inbox |-> <<>>,
               sent |-> 0, due |-> "none", activated |-> FALSE,
               asked |-> <<>>, heard |-> <<>>, proper |-> TRUE]

Init == /\ sockets = <<>>
        /\ client_fd = 0
        /\ connected = FALSE
        /\ remote_address = NoAddress
        /\ doing = Idle
        /\ answer = NoAnswer

serviceVars == <<client_fd, connected, remote_address, doing, answer>>

-----------------------------------------------------------------------------
(* The testers.                                                            *)

Dial(p) ==
    /\ Len(sockets) < MaxDials
    /\ sockets' = Append(sockets, Dialled(p))
    /\ UNCHANGED serviceVars

FramesSent == MapThenSumSet(LAMBDA c : sockets[c].sent, DOMAIN sockets)

SendHeader(c, kind) ==
    LET s == sockets[c] IN
    /\ s.up /\ s.due = "none" /\ FramesSent < MaxFrames
    /\ sockets' = [sockets EXCEPT
          ![c].inbox = Append(s.inbox, [part |-> "header", kind |-> kind,
                                        frame |-> s.sent + 1]),
          ![c].sent = s.sent + 1,
          ![c].due = kind,
          ![c].proper = s.proper /\ kind \in ProperKinds]
    /\ UNCHANGED serviceVars

SendPayload(c) ==
    LET s == sockets[c] IN
    /\ s.up /\ s.due # "none"
    /\ sockets' = [sockets EXCEPT
          ![c].inbox = Append(s.inbox, [part |-> "payload", kind |-> s.due,
                                        frame |-> s.sent]),
          ![c].due = "none",
          ![c].asked = IF s.due = "request" THEN Append(s.asked, s.sent)
                       ELSE s.asked]
    /\ UNCHANGED serviceVars

HangUp(c) ==
    /\ sockets[c].up
    /\ sockets' = [sockets EXCEPT ![c].up = FALSE, ![c].due = "none"]
    /\ UNCHANGED serviceVars

-----------------------------------------------------------------------------
(* The adapter.                                                            *)

Client == sockets[client_fd]

Queued == {c \in DOMAIN sockets : sockets[c].ours = "queued"}

(* accept takes the oldest connection; client_fd_ is overwritten.          *)
accept ==
    /\ doing = Idle
    /\ ~connected
    /\ \E c \in Queued :
          /\ \A d \in Queued : c <= d
          /\ sockets' = [sockets EXCEPT ![c].ours = "open"]
          /\ client_fd' = c
    /\ connected' = TRUE
    /\ doing' = [at |-> "handshake"]
    /\ UNCHANGED <<remote_address, answer>>

CloseKeepsConnected ==
    /\ sockets' = IF client_fd = 0 THEN sockets
                  ELSE [sockets EXCEPT ![client_fd].ours = "closed"]
    /\ client_fd' = 0
    /\ connected' = connected

close_client_locked ==
    /\ sockets' = IF client_fd = 0 THEN sockets
                  ELSE [sockets EXCEPT ![client_fd].ours = "closed"]
    /\ client_fd' = 0
    /\ connected' = FALSE

(* Nothing came within 3 s, or the tester hung up before a whole header.   *)
handshake_no_header ==
    /\ doing.at = "handshake"
    /\ Client.inbox = <<>>
    /\ close_client_locked
    /\ doing' = Idle
    /\ UNCHANGED <<remote_address, answer>>

handshake_header ==
    /\ doing.at = "handshake"
    /\ Client.inbox # <<>>
    /\ sockets' = [sockets EXCEPT ![client_fd].inbox = Tail(Client.inbox)]
    /\ doing' = [at |-> "handshake payload", kind |-> Head(Client.inbox).kind]
    /\ UNCHANGED <<client_fd, connected, remote_address, answer>>

(* The length that recv returns is not looked at: a routing activation is  *)
(* granted when its payload has come, and when it never will.              *)
HandshakePayloadIsAwaited == Client.inbox # <<>> \/ ~Client.up

handshake_activation ==
    /\ doing.at = "handshake payload" /\ doing.kind = "activation"
    /\ HandshakePayloadIsAwaited
    /\ sockets' = [sockets EXCEPT
          ![client_fd].inbox = IF Client.inbox = <<>> THEN <<>>
                               ELSE Tail(Client.inbox),
          ![client_fd].activated = TRUE]
    /\ doing' = Idle
    /\ UNCHANGED <<client_fd, connected, remote_address, answer>>

HandshakeRefusedKeepsClient ==
    /\ doing.at = "handshake payload" /\ doing.kind # "activation"
    /\ HandshakePayloadIsAwaited
    /\ doing' = Idle
    /\ UNCHANGED <<sockets, client_fd, connected, remote_address, answer>>

handshake_refused ==
    /\ doing.at = "handshake payload" /\ doing.kind # "activation"
    /\ HandshakePayloadIsAwaited
    /\ close_client_locked
    /\ doing' = Idle
    /\ UNCHANGED <<remote_address, answer>>

(* The tester has hung up: recv returns less than a header.  The adapter   *)
(* is not connected any more; client_fd_ stays as it is.                   *)
ReceiveHangUpUnnoticed ==
    /\ doing = Idle /\ connected /\ client_fd # 0
    /\ Client.inbox = <<>> /\ ~Client.up
    /\ UNCHANGED vars

receive_hang_up ==
    /\ doing = Idle /\ connected /\ client_fd # 0
    /\ Client.inbox = <<>> /\ ~Client.up
    /\ connected' = FALSE
    /\ UNCHANGED <<sockets, client_fd, remote_address, doing, answer>>

(* The payload of a frame the adapter does not take stays in the socket.   *)
receive_header ==
    /\ doing = Idle /\ connected /\ client_fd # 0
    /\ Client.inbox # <<>>
    /\ LET head == Head(Client.inbox) IN
       /\ head.part = "header"
       /\ sockets' = [sockets EXCEPT ![client_fd].inbox = Tail(Client.inbox)]
       /\ doing' = IF head.kind = "other" THEN Idle
                   ELSE [at |-> "payload", kind |-> head.kind]
    /\ UNCHANGED <<client_fd, connected, remote_address, answer>>

(* What is left in the socket is read as if it were frames: nothing comes  *)
(* of it, or a request that nobody sent.                                   *)
receive_remains ==
    /\ doing = Idle /\ connected /\ client_fd # 0
    /\ Client.inbox # <<>>
    /\ Head(Client.inbox).part = "payload"
    /\ doing' \in {Idle, [at |-> "answering", frame |-> 0]}
    /\ sockets' = [sockets EXCEPT ![client_fd].inbox = Tail(Client.inbox)]
    /\ UNCHANGED <<client_fd, connected, remote_address, answer>>

ReceivePartialPayload ==
    /\ doing.at = "payload"
    /\ Client.inbox = <<>> /\ ~Client.up
    /\ sockets' = [sockets EXCEPT ![client_fd].heard = Append(Client.heard, Client.sent)]
    /\ doing' = [at |-> "answering", frame |-> Client.sent]
    /\ UNCHANGED <<client_fd, connected, remote_address, answer>>

(* The tester has hung up: recv returns less than the payload.             *)
receive_no_payload ==
    /\ doing.at = "payload"
    /\ Client.inbox = <<>> /\ ~Client.up
    /\ doing' = Idle
    /\ UNCHANGED <<sockets, client_fd, connected, remote_address, answer>>

PayloadCame ==
    /\ doing.at = "payload"
    /\ Client.inbox # <<>>

(* Activation again: it is answered, and nothing changes.                  *)
receive_activation ==
    /\ PayloadCame /\ doing.kind = "activation"
    /\ sockets' = [sockets EXCEPT ![client_fd].inbox = Tail(Client.inbox)]
    /\ doing' = Idle
    /\ UNCHANGED <<client_fd, connected, remote_address, answer>>

ReceiveRequestKeepsAddress ==
    /\ PayloadCame /\ doing.kind = "request"
    /\ LET frame == Head(Client.inbox).frame IN
       /\ sockets' = [sockets EXCEPT
             ![client_fd].inbox = Tail(Client.inbox),
             ![client_fd].heard = Append(Client.heard, frame)]
       /\ doing' = [at |-> "answering", frame |-> frame]
    /\ UNCHANGED <<client_fd, connected, remote_address, answer>>

receive_request ==
    /\ PayloadCame /\ doing.kind = "request"
    /\ LET frame == Head(Client.inbox).frame IN
       /\ sockets' = [sockets EXCEPT
             ![client_fd].inbox = Tail(Client.inbox),
             ![client_fd].heard = Append(Client.heard, frame)]
       /\ doing' = [at |-> "answering", frame |-> frame]
    /\ remote_address' = Client.peer
    /\ UNCHANGED <<client_fd, connected, answer>>

(* A message of at most the four bytes of the addresses is handed on as it *)
(* is, or as nothing if it is empty; the tester's address is not kept.     *)
receive_short ==
    /\ PayloadCame /\ doing.kind = "short"
    /\ sockets' = [sockets EXCEPT ![client_fd].inbox = Tail(Client.inbox)]
    /\ doing' \in {Idle, [at |-> "answering", frame |-> 0]}
    /\ UNCHANGED <<client_fd, connected, remote_address, answer>>

(* The service answers what it could decode.                               *)
send ==
    /\ doing.at = "answering"
    /\ answer' \in {answer, [fd |-> client_fd, to |-> remote_address,
                             frame |-> doing.frame]}
    /\ doing' = Idle
    /\ UNCHANGED <<sockets, client_fd, connected, remote_address>>

(* The service shuts down.                                                 *)
disconnect ==
    /\ doing = Idle
    /\ close_client_locked
    /\ UNCHANGED <<remote_address, doing, answer>>

Connect == \/ accept \/ handshake_no_header \/ handshake_header
           \/ handshake_activation \/ handshake_refused

Receive == \/ receive_hang_up \/ receive_header \/ receive_remains
           \/ receive_no_payload \/ receive_activation \/ receive_request
           \/ receive_short

Next == \/ \E p \in Peers : Dial(p)
        \/ \E c \in DOMAIN sockets :
              \/ \E kind \in Kinds : SendHeader(c, kind)
              \/ SendPayload(c)
              \/ HangUp(c)
        \/ Connect \/ Receive \/ send \/ disconnect

Spec == Init /\ [][Next]_vars

(* The service's loop goes on; a tester hangs up in the end.               *)
FairSpec == /\ Spec
            /\ WF_vars(Connect) /\ WF_vars(Receive) /\ WF_vars(send)
            /\ \A c \in 1 .. MaxDials :
                  WF_vars(c \in DOMAIN sockets /\ HangUp(c))

-----------------------------------------------------------------------------
(* Whatever a tester sends and whenever it hangs up, the thread is never   *)
(* in the middle of a read or an answer on a socket it has closed.         *)
NoUseAfterClose ==
    connected \/ doing # Idle => client_fd # 0 /\ Client.ours = "open"

(* A request is served on a connection whose routing was activated.        *)
ServedAfterActivation ==
    doing.at \in {"payload", "answering"} => Client.activated

(* The requests delivered from a connection that sent nothing improper are *)
(* those that were sent on it, each once and in their order, also when the *)
(* tester activates its route again between them, and whatever other       *)
(* connections sent.                                                       *)
RequestsInOrder ==
    \A c \in DOMAIN sockets :
        LET s == sockets[c] IN
        s.proper => /\ Len(s.heard) <= Len(s.asked)
                    /\ \A i \in DOMAIN s.heard : s.heard[i] = s.asked[i]

(* A request is answered on the connection it came by, to the tester that  *)
(* sent it, although another one may have been served before it: of every  *)
(* connection that sent nothing improper.                                  *)
AnswerGoesToAsker ==
    [][answer' # answer /\ sockets[answer'.fd].proper =>
          /\ answer'.to = sockets[answer'.fd].peer
          /\ sockets[answer'.fd].heard # <<>>
          /\ answer'.frame = sockets[answer'.fd].heard[Len(sockets[answer'.fd].heard)]]_vars

(* What a tester knows of its connection, and the service of the request   *)
(* it is handed.                                                           *)
LineOf(s) == [peer |-> s.peer, waiting |-> s.ours = "queued",
              proper |-> s.proper, asked |-> s.asked, heard |-> s.heard]

Lines == [c \in DOMAIN sockets |-> LineOf(sockets[c])]

Attended == IF connected THEN client_fd ELSE 0

Pending == IF doing.at = "answering"
           THEN [fd |-> client_fd, frame |-> doing.frame] ELSE [fd |-> 0]

Channel == INSTANCE TesterChannel
    WITH Testers  <- Peers,
         Requests <- Nat,
         Nowhere  <- NoAddress,
         lines    <- Lines,
         attended <- Attended,
         pending  <- Pending

(* Without sockets and frames, the adapter is a channel that attends to    *)
(* one tester after another, for as long as connected_ says so: every step *)
(* of it and of the testers is a step of the channel, or changes nothing   *)
(* that the channel knows.                                                 *)
ImplementsChannel == Channel!Spec

(* A tester that waits is accepted, once those before it have hung up.     *)
WaitingTesterAccepted ==
    \A c \in 1 .. MaxDials :
        (c \in DOMAIN sockets /\ sockets[c].ours = "queued")
            ~> (c \in DOMAIN sockets /\ sockets[c].ours # "queued")

(* include/doip_adapter.h:35: close_client_locked closes the current       *)
(* client's connection.  No other connection is left open.                 *)
NoSocketLeftOpen ==
    \A c \in DOMAIN sockets : sockets[c].ours = "open" => c = client_fd

=============================================================================
