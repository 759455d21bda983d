-------------------------- MODULE DoIpAdapterProofs --------------------------
(***************************************************************************)
(* For any testers, connections and frames: the adapter works on an open   *)
(* and activated connection, and its answers go where the requests came    *)
(* from.  What has to be known for the last is that headers and payloads   *)
(* alternate in the socket of a tester that sends nothing improper.  With  *)
(* it, every step is one of TesterChannel's: requests are delivered once,  *)
(* in their order, and each is answered before the next.                   *)
(***************************************************************************)
EXTENDS DoIpAdapter, TLAPS

Parts == [part : {"header", "payload"}, kind : AllKinds, frame : Nat]

Sockets == [peer : Peers, ours : {"queued", "open", "closed"}, up : BOOLEAN,
            inbox : Seq(Parts), sent : Nat, due : AllKinds \cup {"none"},
            activated : BOOLEAN, asked : Seq(Nat), heard : Seq(Nat),
            proper : BOOLEAN]

Doings == {Idle} \cup [at : {"handshake"}]
          \cup [at : {"handshake payload", "payload"}, kind : AllKinds]
          \cup [at : {"answering"}, frame : Nat]

Typed == /\ sockets \in Seq(Sockets)
         /\ client_fd \in Nat /\ (client_fd # 0 => client_fd \in DOMAIN sockets)
         /\ connected \in BOOLEAN
         /\ doing \in Doings

(* A connection that is not in its handshake any more was activated.       *)
ActivatedWhenConnected ==
    /\ connected \/ doing # Idle
    /\ doing.at \notin {"handshake", "handshake payload"}
    => Client.activated

(* The adapter has read the header of a frame of connection c, and not its *)
(* payload.                                                                *)
HeaderRead(c) == c = client_fd /\ doing.at \in {"handshake payload", "payload"}

(* What a proper tester has sent and the adapter not read: frame after     *)
(* frame, each header followed by its payload; the first one's header may  *)
(* have been read, the last one's payload may be due.                      *)
Alternating(inbox, up, due, read) ==
    LET n == Len(inbox) IN
    /\ \A i \in 1 .. n : inbox[i].kind \in ProperKinds
    /\ \A i \in 1 .. n : i + 1 <= n => inbox[i].part # inbox[i + 1].part
    /\ n > 0 => inbox[1].part = IF read THEN "payload" ELSE "header"
    /\ due \in ProperKinds \cup {"none"}
    /\ up => (due # "none" <=> IF n > 0 THEN inbox[n].part = "header" ELSE read)

Alternates(c) ==
    /\ Alternating(sockets[c].inbox, sockets[c].up, sockets[c].due, HeaderRead(c))
    /\ HeaderRead(c) => doing.kind \in ProperKinds

ProperAlternate ==
    \A c \in DOMAIN sockets :
        sockets[c].proper /\ sockets[c].ours # "closed" => Alternates(c)

(* The answer that is being made is to the last request, and its tester's. *)
AnsweringTheLast ==
    doing.at = "answering" /\ Client.proper =>
        /\ remote_address = Client.peer
        /\ Client.heard # <<>>
        /\ doing.frame = Client.heard[Len(Client.heard)]

(* A payload is of the kind its header told: of two neighbours in the      *)
(* socket, of the header that has been read and the first payload, and of  *)
(* the last header and the payload that is due.                            *)
Agreeing(inbox, up, due, read, kind) ==
    LET n == Len(inbox) IN
    /\ \A i \in 1 .. n : i + 1 <= n /\ inbox[i].part = "header" =>
          inbox[i + 1].kind = inbox[i].kind
    /\ read /\ n > 0 => inbox[1].kind = kind
    /\ up /\ due # "none" => due = IF n > 0 THEN inbox[n].kind ELSE kind

IsRequest(part) == part.part = "payload" /\ part.kind = "request"

(* The requests asked and not yet heard are those in the socket: pos[i] is *)
(* how many of them come before its part i, those that were heard included. *)
Matching(inbox, asked, heard) ==
    \E pos \in [1 .. Len(inbox) + 1 -> Nat] :
        /\ pos[1] = Len(heard) /\ pos[Len(inbox) + 1] = Len(asked)
        /\ \A i \in 1 .. Len(inbox) + 1 : pos[i] <= Len(asked)
        /\ \A i \in 1 .. Len(inbox) :
              IF IsRequest(inbox[i])
              THEN pos[i + 1] = pos[i] + 1 /\ asked[pos[i] + 1] = inbox[i].frame
              ELSE pos[i + 1] = pos[i]

Begins(heard, asked) == /\ Len(heard) <= Len(asked)
                        /\ \A i \in DOMAIN heard : heard[i] = asked[i]

Ordered(c) ==
    LET s == sockets[c] IN
    /\ Begins(s.heard, s.asked)
    /\ s.ours # "closed" =>
          /\ Agreeing(s.inbox, s.up, s.due, HeaderRead(c), doing.kind)
          /\ Matching(s.inbox, s.asked, s.heard)

ProperOrdered == \A c \in DOMAIN sockets : sockets[c].proper => Ordered(c)

IInv == /\ Typed /\ NoUseAfterClose /\ ActivatedWhenConnected
        /\ ProperAlternate /\ AnsweringTheLast /\ ProperOrdered

-----------------------------------------------------------------------------
(* What sending does to the tester's connection.                           *)

(* What a tester's header changes of its connection.                       *)
LEMMA HeaderChanges ==
    ASSUME NEW c \in DOMAIN sockets, NEW kind, SendHeader(c, kind),
           sockets[c] \in Sockets, NEW S, sockets \in [DOMAIN sockets -> S]
    PROVE  LET s == sockets[c] IN
           /\ s.up /\ s.due = "none"
           /\ sockets'[c].up = s.up /\ sockets'[c].due = kind
           /\ sockets'[c].ours = s.ours
           /\ sockets'[c].asked = s.asked /\ sockets'[c].heard = s.heard
           /\ sockets'[c].inbox = Append(s.inbox,
                 [part |-> "header", kind |-> kind, frame |-> s.sent + 1])
           /\ sockets'[c].proper = (s.proper /\ kind \in ProperKinds)
<1> DEFINE s == sockets[c]
           after == [s EXCEPT !.inbox = Append(s.inbox, [part |-> "header",
                                           kind |-> kind, frame |-> s.sent + 1]),
                              !.sent = s.sent + 1, !.due = kind,
                              !.proper = (s.proper /\ kind \in ProperKinds)]
<1>1. s.up /\ s.due = "none"
  BY DEF SendHeader
<1>2. sockets'[c] = after
  BY DEF SendHeader
<1>3. /\ after.up = s.up /\ after.due = kind /\ after.ours = s.ours
      /\ after.asked = s.asked /\ after.heard = s.heard
      /\ after.inbox = Append(s.inbox,
            [part |-> "header", kind |-> kind, frame |-> s.sent + 1])
      /\ after.proper = (s.proper /\ kind \in ProperKinds)
  BY DEF Sockets
<1> QED  BY <1>1, <1>2, <1>3

(* What a tester's payload changes of its connection.                      *)
LEMMA PayloadChanges ==
    ASSUME NEW c \in DOMAIN sockets, SendPayload(c),
           sockets[c] \in Sockets, NEW S, sockets \in [DOMAIN sockets -> S]
    PROVE  LET s == sockets[c] IN
           /\ s.up /\ s.due # "none"
           /\ sockets'[c].up = s.up /\ sockets'[c].due = "none"
           /\ sockets'[c].ours = s.ours /\ sockets'[c].heard = s.heard
           /\ sockets'[c].proper = s.proper
           /\ sockets'[c].asked = IF s.due = "request" THEN Append(s.asked, s.sent)
                                  ELSE s.asked
           /\ sockets'[c].inbox = Append(s.inbox,
                 [part |-> "payload", kind |-> s.due, frame |-> s.sent])
<1> DEFINE s == sockets[c]
           asked == IF s.due = "request" THEN Append(s.asked, s.sent) ELSE s.asked
           after == [s EXCEPT !.inbox = Append(s.inbox, [part |-> "payload",
                                           kind |-> s.due, frame |-> s.sent]),
                              !.due = "none", !.asked = asked]
<1>1. s.up /\ s.due # "none"
  BY DEF SendPayload
<1>2. sockets'[c] = after
  BY DEF SendPayload
<1>3. /\ after.up = s.up /\ after.due = "none" /\ after.ours = s.ours
      /\ after.heard = s.heard /\ after.proper = s.proper
      /\ after.asked = asked
      /\ after.inbox = Append(s.inbox,
            [part |-> "payload", kind |-> s.due, frame |-> s.sent])
  BY DEF Sockets
<1> QED  BY <1>1, <1>2, <1>3

-----------------------------------------------------------------------------
(* What sending and reading do to an alternating socket.                   *)

(* A header that follows a payload keeps the parts alternating.            *)
LEMMA HeaderSent ==
    ASSUME NEW inbox \in Seq(Parts), NEW read \in BOOLEAN,
           NEW kind \in ProperKinds, NEW frame \in Nat,
           Alternating(inbox, TRUE, "none", read)
    PROVE  Alternating(Append(inbox, [part |-> "header", kind |-> kind,
                                      frame |-> frame]), TRUE, kind, read)
<1> DEFINE part == [part |-> "header", kind |-> kind, frame |-> frame]
           next == Append(inbox, part)
<1>1. /\ Len(next) = Len(inbox) + 1 /\ next[Len(inbox) + 1] = part
      /\ \A i \in 1 .. Len(inbox) : next[i] = inbox[i]
      /\ Len(inbox) \in Nat /\ part.part = "header" /\ part.kind = kind
      /\ kind # "none"
  BY DEF ProperKinds
<1> HIDE DEF next, part
<1> QED
  BY <1>1 DEF Alternating, Parts, next, part

(* A payload that follows its header keeps the parts alternating.          *)
LEMMA PayloadSent ==
    ASSUME NEW inbox \in Seq(Parts), NEW read \in BOOLEAN,
           NEW due \in ProperKinds, NEW frame \in Nat,
           Alternating(inbox, TRUE, due, read)
    PROVE  Alternating(Append(inbox, [part |-> "payload", kind |-> due,
                                      frame |-> frame]), TRUE, "none", read)
<1> DEFINE part == [part |-> "payload", kind |-> due, frame |-> frame]
           next == Append(inbox, part)
<1>1. /\ Len(next) = Len(inbox) + 1 /\ next[Len(inbox) + 1] = part
      /\ \A i \in 1 .. Len(inbox) : next[i] = inbox[i]
      /\ Len(inbox) \in Nat /\ part.part = "payload" /\ part.kind = due
      /\ due # "none"
  BY DEF ProperKinds
<1> HIDE DEF next, part
<1> QED
  BY <1>1 DEF Alternating, Parts, next, part

(* The next part is of the expected sort, and what remains alternates.     *)
LEMMA PartTaken ==
    ASSUME NEW inbox \in Seq(Parts), NEW up \in BOOLEAN, NEW due,
           NEW read \in BOOLEAN, inbox # <<>>,
           Alternating(inbox, up, due, read)
    PROVE  /\ Head(inbox).kind \in ProperKinds
           /\ Head(inbox).part = IF read THEN "payload" ELSE "header"
           /\ Alternating(Tail(inbox), up, due, ~read)
<1> DEFINE next == Tail(inbox)
<1>a. Len(inbox) \in Nat /\ Len(inbox) > 0 /\ Head(inbox) = inbox[1]
  OBVIOUS
<1>b. Len(next) = Len(inbox) - 1 /\ \A i \in 1 .. Len(next) : next[i] = inbox[i + 1]
  BY <1>a
<1>c. \A i \in 1 .. Len(inbox) : inbox[i] \in Parts
  OBVIOUS
<1>1. \A i \in 1 .. Len(inbox) : inbox[i].part \in {"header", "payload"}
  BY <1>c DEF Parts
<1> HIDE DEF next
<1>2. /\ Head(inbox).kind \in ProperKinds
      /\ Head(inbox).part = IF read THEN "payload" ELSE "header"
  BY <1>a, <1>b, <1>1 DEF Alternating
<1>3. Alternating(next, up, due, ~read)
  <2>1. \A i \in 1 .. Len(next) : next[i].kind \in ProperKinds
    BY <1>a, <1>b DEF Alternating
  <2>2. \A i \in 1 .. Len(next) : i + 1 <= Len(next) => next[i].part # next[i + 1].part
    BY <1>a, <1>b DEF Alternating
  <2>3. Len(next) > 0 => next[1].part = IF ~read THEN "payload" ELSE "header"
    BY <1>a, <1>b, <1>1 DEF Alternating
  <2>4. due \in ProperKinds \cup {"none"}
    BY DEF Alternating
  <2>5. up => (due # "none" <=> IF Len(next) > 0 THEN next[Len(next)].part = "header"
                                 ELSE ~read)
    BY <1>a, <1>b, <1>1 DEF Alternating
  <2> QED  BY <2>1, <2>2, <2>3, <2>4, <2>5 DEF Alternating
<1> QED  BY <1>2, <1>3 DEF next

(* An empty socket alternates, whichever part was to come.                 *)
LEMMA NothingLeft ==
    ASSUME NEW due, NEW read, Alternating(<<>>, FALSE, due, read)
    PROVE  Alternating(<<>>, FALSE, due, FALSE)
BY DEF Alternating

-----------------------------------------------------------------------------
(* What sending and reading do to the order of the requests.               *)

(* A header that is sent has no payload yet to agree with.                 *)
LEMMA HeaderAgrees ==
    ASSUME NEW inbox \in Seq(Parts), NEW read \in BOOLEAN, NEW next,
           NEW kind \in ProperKinds, NEW frame \in Nat,
           Alternating(inbox, TRUE, "none", read),
           Agreeing(inbox, TRUE, "none", read, next)
    PROVE  Agreeing(Append(inbox, [part |-> "header", kind |-> kind,
                                   frame |-> frame]), TRUE, kind, read, next)
<1> DEFINE part == [part |-> "header", kind |-> kind, frame |-> frame]
           more == Append(inbox, part)
<1>1. /\ Len(more) = Len(inbox) + 1 /\ more[Len(inbox) + 1] = part
      /\ \A i \in 1 .. Len(inbox) : more[i] = inbox[i]
      /\ Len(inbox) \in Nat /\ part.part = "header" /\ part.kind = kind
  OBVIOUS
<1> HIDE DEF more, part
<1>2. \A i \in 1 .. Len(inbox) : inbox[i].part = "header" => i # Len(inbox)
  BY <1>1 DEF Alternating
<1>3. read => Len(inbox) > 0
  BY <1>1 DEF Alternating
<1> QED  BY <1>1, <1>2, <1>3 DEF Agreeing, more, part

(* A payload is of its own header's kind.                                  *)
LEMMA PayloadAgrees ==
    ASSUME NEW inbox \in Seq(Parts), NEW read \in BOOLEAN, NEW next,
           NEW due \in ProperKinds, NEW frame \in Nat,
           Agreeing(inbox, TRUE, due, read, next)
    PROVE  Agreeing(Append(inbox, [part |-> "payload", kind |-> due,
                                   frame |-> frame]), TRUE, "none", read, next)
<1> DEFINE part == [part |-> "payload", kind |-> due, frame |-> frame]
           more == Append(inbox, part)
<1>1. /\ Len(more) = Len(inbox) + 1 /\ more[Len(inbox) + 1] = part
      /\ \A i \in 1 .. Len(inbox) : more[i] = inbox[i]
      /\ Len(inbox) \in Nat /\ part.part = "payload" /\ part.kind = due
      /\ due # "none"
  BY DEF ProperKinds
<1> HIDE DEF more, part
<1> QED  BY <1>1 DEF Agreeing, more, part

(* The adapter, having read a header, expects a payload of its kind.       *)
LEMMA HeaderTakenAgrees ==
    ASSUME NEW inbox \in Seq(Parts), NEW up \in BOOLEAN, NEW due, NEW next,
           inbox # <<>>, Agreeing(inbox, up, due, FALSE, next),
           Head(inbox).part = "header"
    PROVE  Agreeing(Tail(inbox), up, due, TRUE, Head(inbox).kind)
<1> DEFINE rest == Tail(inbox)
<1>1. /\ Len(inbox) \in Nat /\ Len(inbox) > 0 /\ Head(inbox) = inbox[1]
      /\ Len(rest) = Len(inbox) - 1
      /\ \A i \in 1 .. Len(rest) : rest[i] = inbox[i + 1]
  OBVIOUS
<1> HIDE DEF rest
<1>2. Agreeing(rest, up, due, TRUE, Head(inbox).kind)
  BY <1>1 DEF Agreeing
<1> QED  BY <1>2 DEF rest

(* And it gets one.                                                        *)
LEMMA PayloadTakenAgrees ==
    ASSUME NEW inbox \in Seq(Parts), NEW up \in BOOLEAN, NEW due, NEW next,
           NEW other, inbox # <<>>, Alternating(inbox, up, due, TRUE),
           Agreeing(inbox, up, due, TRUE, next)
    PROVE  /\ Head(inbox).kind = next
           /\ Agreeing(Tail(inbox), up, due, FALSE, other)
<1> DEFINE rest == Tail(inbox)
<1>1. /\ Len(inbox) \in Nat /\ Len(inbox) > 0 /\ Head(inbox) = inbox[1]
      /\ Len(rest) = Len(inbox) - 1
      /\ \A i \in 1 .. Len(rest) : rest[i] = inbox[i + 1]
  OBVIOUS
<1> HIDE DEF rest
<1>2. up /\ Len(inbox) = 1 => due = "none"
  BY <1>1 DEF Alternating
<1>3. Head(inbox).kind = next /\ Agreeing(rest, up, due, FALSE, other)
  BY <1>1, <1>2 DEF Agreeing
<1> QED  BY <1>3 DEF rest

(* A part that is no request leaves what is on its way as it is.           *)
LEMMA NoRequestSent ==
    ASSUME NEW inbox \in Seq(Parts), NEW asked \in Seq(Nat),
           NEW heard \in Seq(Nat), NEW part \in Parts, ~IsRequest(part),
           Matching(inbox, asked, heard)
    PROVE  Matching(Append(inbox, part), asked, heard)
<1> DEFINE n == Len(inbox)
           more == Append(inbox, part)
<1>1. /\ Len(more) = n + 1 /\ more[n + 1] = part /\ n \in Nat
      /\ \A i \in 1 .. n : more[i] = inbox[i]
      /\ Len(asked) \in Nat
  OBVIOUS
<1>2. PICK pos \in [1 .. n + 1 -> Nat] :
        /\ pos[1] = Len(heard) /\ pos[n + 1] = Len(asked)
        /\ \A i \in 1 .. n + 1 : pos[i] <= Len(asked)
        /\ \A i \in 1 .. n :
              IF IsRequest(inbox[i])
              THEN pos[i + 1] = pos[i] + 1 /\ asked[pos[i] + 1] = inbox[i].frame
              ELSE pos[i + 1] = pos[i]
  BY DEF Matching
<1> HIDE DEF more, n
<1> DEFINE later == [i \in 1 .. n + 2 |-> IF i = n + 2 THEN Len(asked) ELSE pos[i]]
<1>3. /\ later \in [1 .. Len(more) + 1 -> Nat]
      /\ later[n + 2] = Len(asked) /\ \A i \in 1 .. n + 1 : later[i] = pos[i]
  BY <1>1, <1>2
<1> HIDE DEF later
<1>4. /\ later[1] = Len(heard) /\ later[Len(more) + 1] = Len(asked)
      /\ \A i \in 1 .. Len(more) + 1 : later[i] <= Len(asked)
  BY <1>1, <1>2, <1>3
<1>5. ASSUME NEW i \in 1 .. Len(more)
      PROVE  IF IsRequest(more[i])
             THEN later[i + 1] = later[i] + 1 /\ asked[later[i] + 1] = more[i].frame
             ELSE later[i + 1] = later[i]
  <2>1. CASE i = n + 1
    BY <1>1, <1>2, <1>3, <2>1
  <2>2. CASE i \in 1 .. n
    <3>1. /\ i \in 1 .. n + 1 /\ i + 1 \in 1 .. n + 1
          /\ more[i] = inbox[i] /\ later[i] = pos[i] /\ later[i + 1] = pos[i + 1]
      BY <1>1, <1>3, <2>2
    <3> QED  BY <1>2, <2>2, <3>1
  <2> QED  BY <1>1, <2>1, <2>2
<1>6. Matching(more, asked, heard)
  BY <1>3, <1>4, <1>5 DEF Matching
<1> QED  BY <1>6 DEF more

(* A request is one more asked for and one more on its way.                *)
LEMMA RequestSent ==
    ASSUME NEW inbox \in Seq(Parts), NEW asked \in Seq(Nat),
           NEW heard \in Seq(Nat), NEW part \in Parts, IsRequest(part),
           Matching(inbox, asked, heard)
    PROVE  Matching(Append(inbox, part), Append(asked, part.frame), heard)
<1> DEFINE n == Len(inbox)
           more == Append(inbox, part)
           all == Append(asked, part.frame)
<1>1. /\ Len(more) = n + 1 /\ more[n + 1] = part /\ n \in Nat
      /\ \A i \in 1 .. n : more[i] = inbox[i]
      /\ Len(asked) \in Nat /\ Len(all) = Len(asked) + 1
      /\ all[Len(asked) + 1] = part.frame
      /\ \A i \in 1 .. Len(asked) : all[i] = asked[i]
  OBVIOUS
<1>2. PICK pos \in [1 .. n + 1 -> Nat] :
        /\ pos[1] = Len(heard) /\ pos[n + 1] = Len(asked)
        /\ \A i \in 1 .. n + 1 : pos[i] <= Len(asked)
        /\ \A i \in 1 .. n :
              IF IsRequest(inbox[i])
              THEN pos[i + 1] = pos[i] + 1 /\ asked[pos[i] + 1] = inbox[i].frame
              ELSE pos[i + 1] = pos[i]
  BY DEF Matching
<1> HIDE DEF more, n, all
<1> DEFINE later == [i \in 1 .. n + 2 |-> IF i = n + 2 THEN Len(all) ELSE pos[i]]
<1>3. /\ later \in [1 .. Len(more) + 1 -> Nat]
      /\ later[n + 2] = Len(all) /\ \A i \in 1 .. n + 1 : later[i] = pos[i]
  BY <1>1, <1>2
<1> HIDE DEF later
<1>4. /\ later[1] = Len(heard) /\ later[Len(more) + 1] = Len(all)
      /\ \A i \in 1 .. Len(more) + 1 : later[i] <= Len(all)
  BY <1>1, <1>2, <1>3
<1>5. ASSUME NEW i \in 1 .. Len(more)
      PROVE  IF IsRequest(more[i])
             THEN later[i + 1] = later[i] + 1 /\ all[later[i] + 1] = more[i].frame
             ELSE later[i + 1] = later[i]
  <2>1. CASE i = n + 1
    BY <1>1, <1>2, <1>3, <2>1
  <2>2. CASE i \in 1 .. n
    <3>1. /\ i \in 1 .. n + 1 /\ i + 1 \in 1 .. n + 1
          /\ pos[i] \in Nat /\ pos[i + 1] <= Len(asked)
      BY <1>1, <1>2, <2>2
    <3>2. IsRequest(inbox[i]) => pos[i] + 1 \in 1 .. Len(asked)
      BY <1>1, <1>2, <2>2, <3>1
    <3> QED  BY <1>1, <1>2, <1>3, <2>2, <3>1, <3>2
  <2> QED  BY <1>1, <2>1, <2>2
<1>6. Matching(more, all, heard)
  BY <1>3, <1>4, <1>5 DEF Matching
<1> QED  BY <1>6 DEF more, all

(* Reading what is no request delivers nothing.                            *)
LEMMA OtherTaken ==
    ASSUME NEW inbox \in Seq(Parts), NEW asked \in Seq(Nat),
           NEW heard \in Seq(Nat), inbox # <<>>, ~IsRequest(Head(inbox)),
           Matching(inbox, asked, heard)
    PROVE  Matching(Tail(inbox), asked, heard)
<1> DEFINE n == Len(inbox)
           rest == Tail(inbox)
<1>1. /\ n \in Nat /\ n > 0 /\ Head(inbox) = inbox[1] /\ Len(rest) = n - 1
      /\ \A i \in 1 .. Len(rest) : rest[i] = inbox[i + 1]
  OBVIOUS
<1>2. PICK pos \in [1 .. n + 1 -> Nat] :
        /\ pos[1] = Len(heard) /\ pos[n + 1] = Len(asked)
        /\ \A i \in 1 .. n + 1 : pos[i] <= Len(asked)
        /\ \A i \in 1 .. n :
              IF IsRequest(inbox[i])
              THEN pos[i + 1] = pos[i] + 1 /\ asked[pos[i] + 1] = inbox[i].frame
              ELSE pos[i + 1] = pos[i]
  BY DEF Matching
<1> HIDE DEF rest, n
<1> DEFINE later == [i \in 1 .. Len(rest) + 1 |-> pos[i + 1]]
<1>3. /\ later \in [1 .. Len(rest) + 1 -> Nat]
      /\ \A i \in 1 .. Len(rest) + 1 : later[i] = pos[i + 1]
  BY <1>1, <1>2
<1> HIDE DEF later
<1>4. /\ later[1] = Len(heard) /\ later[Len(rest) + 1] = Len(asked)
      /\ \A i \in 1 .. Len(rest) + 1 : later[i] <= Len(asked)
  BY <1>1, <1>2, <1>3
<1>5. ASSUME NEW i \in 1 .. Len(rest)
      PROVE  IF IsRequest(rest[i])
             THEN later[i + 1] = later[i] + 1 /\ asked[later[i] + 1] = rest[i].frame
             ELSE later[i + 1] = later[i]
  <2>a. /\ i + 1 \in 1 .. n /\ i \in 1 .. Len(rest)
        /\ i \in 1 .. Len(rest) + 1 /\ i + 1 \in 1 .. Len(rest) + 1
    BY <1>1
  <2>1. /\ i + 1 \in 1 .. n /\ rest[i] = inbox[i + 1]
        /\ later[i] = pos[i + 1] /\ later[i + 1] = pos[(i + 1) + 1]
    <3>1. rest[i] = inbox[i + 1]
      BY <1>1
    <3> QED  BY <1>3, <2>a, <3>1
  <2>2. IF IsRequest(inbox[i + 1])
        THEN /\ pos[(i + 1) + 1] = pos[i + 1] + 1
             /\ asked[pos[i + 1] + 1] = inbox[i + 1].frame
        ELSE pos[(i + 1) + 1] = pos[i + 1]
    BY <1>2, <2>1
  <2> QED  BY <2>1, <2>2
<1>6. Matching(rest, asked, heard)
  BY <1>3, <1>4, <1>5 DEF Matching
<1> QED  BY <1>6 DEF rest

(* Reading a request delivers the next one that was asked.                 *)
LEMMA RequestTaken ==
    ASSUME NEW inbox \in Seq(Parts), NEW asked \in Seq(Nat),
           NEW heard \in Seq(Nat), inbox # <<>>, IsRequest(Head(inbox)),
           Matching(inbox, asked, heard), Begins(heard, asked)
    PROVE  /\ Matching(Tail(inbox), asked, Append(heard, Head(inbox).frame))
           /\ Begins(Append(heard, Head(inbox).frame), asked)
<1> DEFINE n == Len(inbox)
           rest == Tail(inbox)
           frame == Head(inbox).frame
           all == Append(heard, frame)
<1>1. /\ n \in Nat /\ n > 0 /\ Head(inbox) = inbox[1] /\ Len(rest) = n - 1
      /\ \A i \in 1 .. Len(rest) : rest[i] = inbox[i + 1]
      /\ Len(heard) \in Nat /\ Len(asked) \in Nat
      /\ Len(all) = Len(heard) + 1 /\ all[Len(heard) + 1] = frame
      /\ DOMAIN all = 1 .. Len(heard) + 1 /\ DOMAIN heard = 1 .. Len(heard)
      /\ \A i \in 1 .. Len(heard) : all[i] = heard[i]
  OBVIOUS
<1>2. PICK pos \in [1 .. n + 1 -> Nat] :
        /\ pos[1] = Len(heard) /\ pos[n + 1] = Len(asked)
        /\ \A i \in 1 .. n + 1 : pos[i] <= Len(asked)
        /\ \A i \in 1 .. n :
              IF IsRequest(inbox[i])
              THEN pos[i + 1] = pos[i] + 1 /\ asked[pos[i] + 1] = inbox[i].frame
              ELSE pos[i + 1] = pos[i]
  BY DEF Matching
<1>a. inbox[1].frame = frame
  BY <1>1
<1> HIDE DEF rest, n, all, frame
<1> DEFINE later == [i \in 1 .. Len(rest) + 1 |-> pos[i + 1]]
<1>3. /\ later \in [1 .. Len(rest) + 1 -> Nat]
      /\ \A i \in 1 .. Len(rest) + 1 : later[i] = pos[i + 1]
  BY <1>1, <1>2
<1> HIDE DEF later
<1>b. pos[2] = Len(heard) + 1 /\ asked[Len(heard) + 1] = frame /\ pos[2] <= Len(asked)
  <2>1. 1 \in 1 .. n /\ 2 \in 1 .. n + 1 /\ 1 + 1 = 2 /\ IsRequest(inbox[1])
    BY <1>1
  <2>2. pos[1 + 1] = pos[1] + 1 /\ asked[pos[1] + 1] = inbox[1].frame
    BY <1>2, <2>1
  <2> QED  BY <1>2, <1>a, <2>1, <2>2
<1>4. /\ later[1] = Len(all) /\ later[Len(rest) + 1] = Len(asked)
      /\ \A i \in 1 .. Len(rest) + 1 : later[i] <= Len(asked)
  <2>1. later[1] = Len(all)
    BY <1>1, <1>3, <1>b
  <2>2. later[Len(rest) + 1] = Len(asked)
    BY <1>1, <1>2, <1>3
  <2>3. ASSUME NEW i \in 1 .. Len(rest) + 1 PROVE later[i] <= Len(asked)
    BY <1>1, <1>2, <1>3
  <2> QED  BY <2>1, <2>2, <2>3
<1>5. ASSUME NEW i \in 1 .. Len(rest)
      PROVE  IF IsRequest(rest[i])
             THEN later[i + 1] = later[i] + 1 /\ asked[later[i] + 1] = rest[i].frame
             ELSE later[i + 1] = later[i]
  <2>a. /\ i + 1 \in 1 .. n /\ i \in 1 .. Len(rest)
        /\ i \in 1 .. Len(rest) + 1 /\ i + 1 \in 1 .. Len(rest) + 1
    BY <1>1
  <2>1. /\ i + 1 \in 1 .. n /\ rest[i] = inbox[i + 1]
        /\ later[i] = pos[i + 1] /\ later[i + 1] = pos[(i + 1) + 1]
    <3>1. rest[i] = inbox[i + 1]
      BY <1>1
    <3> QED  BY <1>3, <2>a, <3>1
  <2>2. IF IsRequest(inbox[i + 1])
        THEN /\ pos[(i + 1) + 1] = pos[i + 1] + 1
             /\ asked[pos[i + 1] + 1] = inbox[i + 1].frame
        ELSE pos[(i + 1) + 1] = pos[i + 1]
    BY <1>2, <2>1
  <2> QED  BY <2>1, <2>2
<1>6. Matching(rest, asked, all)
  BY <1>3, <1>4, <1>5 DEF Matching
<1>7. Begins(all, asked)
  <2>1. ASSUME NEW i \in DOMAIN all PROVE all[i] = asked[i]
    <3>1. CASE i = Len(heard) + 1
      BY <1>1, <1>b, <3>1
    <3>2. CASE i \in DOMAIN heard
      BY <1>1, <3>2 DEF Begins
    <3> QED  BY <1>1, <3>1, <3>2
  <2>2. Len(all) <= Len(asked)
    BY <1>1, <1>2, <1>b
  <2> QED  BY <2>1, <2>2 DEF Begins
<1> QED  BY <1>6, <1>7 DEF rest, all, frame

(* What was heard stays a beginning of what is asked.                      *)
LEMMA StillBegins ==
    ASSUME NEW asked \in Seq(Nat), NEW heard \in Seq(Nat), NEW frame \in Nat,
           Begins(heard, asked)
    PROVE  Begins(heard, Append(asked, frame))
<1> DEFINE all == Append(asked, frame)
<1>1. /\ Len(heard) \in Nat /\ Len(asked) \in Nat
      /\ Len(all) = Len(asked) + 1 /\ DOMAIN heard = 1 .. Len(heard)
      /\ \A i \in 1 .. Len(asked) : all[i] = asked[i]
  OBVIOUS
<1> HIDE DEF all
<1>2. Begins(heard, all)
  BY <1>1 DEF Begins
<1> QED  BY <1>2 DEF all

-----------------------------------------------------------------------------
(* Where the thread is, its connection is one that was made, and open.     *)

(* While the adapter is connected or in a call, it has an open socket.     *)
LEMMA AtWork ==
    ASSUME Typed, NoUseAfterClose, connected \/ doing # Idle
    PROVE  /\ client_fd \in DOMAIN sockets /\ client_fd # 0
           /\ Client \in Sockets /\ Client.ours = "open"
BY DEF Typed, NoUseAfterClose, Client

(* What the adapter is doing, by the place it is at.                       *)
LEMMA Doing ==
    ASSUME Typed
    PROVE  /\ doing.at # "idle" => doing # Idle
           /\ doing.at \in {"handshake payload", "payload"} =>
                 doing.kind \in AllKinds
           /\ doing.at = "answering" => doing.frame \in Nat
<1>1. doing.at # "idle" => doing # Idle
  BY DEF Idle
<1>2. doing = Idle => doing.at = "idle"
  BY DEF Idle
<1>3. doing \in [at : {"handshake"}] => doing.at = "handshake"
  OBVIOUS
<1>4. doing \in [at : {"handshake payload", "payload"}, kind : AllKinds] =>
         doing.at \in {"handshake payload", "payload"} /\ doing.kind \in AllKinds
  OBVIOUS
<1>5. doing \in [at : {"answering"}, frame : Nat] =>
         doing.at = "answering" /\ doing.frame \in Nat
  OBVIOUS
<1> QED  BY <1>1, <1>2, <1>3, <1>4, <1>5 DEF Typed, Doings

(* Every connection is a typed one, and the adapter's one of them.         *)
LEMMA ConnectionsTyped ==
    ASSUME Typed
    PROVE  /\ \A d \in DOMAIN sockets : sockets[d] \in Sockets /\ d # 0
           /\ \E S : sockets \in [DOMAIN sockets -> S]
           /\ client_fd # 0 => client_fd \in DOMAIN sockets
<1>1. /\ DOMAIN sockets = 1 .. Len(sockets) /\ Len(sockets) \in Nat
      /\ sockets \in [1 .. Len(sockets) -> Sockets]
  BY DEF Typed
<1>2. sockets \in [DOMAIN sockets -> Sockets]
  BY <1>1
<1>3. \A d \in DOMAIN sockets : sockets[d] \in Sockets /\ d # 0
  BY <1>1
<1> QED  BY <1>2, <1>3 DEF Typed

(* The types of a connection's fields.                                     *)
LEMMA SocketFields ==
    ASSUME NEW s \in Sockets
    PROVE  /\ s.inbox \in Seq(Parts) /\ s.sent \in Nat
           /\ s.up \in BOOLEAN /\ s.proper \in BOOLEAN
           /\ s.due \in AllKinds \cup {"none"}
           /\ s.asked \in Seq(Nat) /\ s.heard \in Seq(Nat)
BY DEF Sockets

(* The types of the part that comes next, and of the rest.                 *)
LEMMA InboxPart ==
    ASSUME NEW s \in Sockets, s.inbox # <<>>
    PROVE  /\ Head(s.inbox) \in Parts /\ Tail(s.inbox) \in Seq(Parts)
           /\ Head(s.inbox).kind \in AllKinds /\ Head(s.inbox).frame \in Nat
<1>1. Head(s.inbox) \in Parts /\ Tail(s.inbox) \in Seq(Parts)
  BY SocketFields
<1> QED  BY <1>1 DEF Parts

(* Every step keeps the types.                                             *)
LEMMA TypedStep == Typed /\ NoUseAfterClose /\ [Next]_vars => Typed'
<1> SUFFICES ASSUME Typed, NoUseAfterClose, [Next]_vars PROVE Typed'
  OBVIOUS
<1>a. connected \/ doing.at # "idle" =>
         /\ client_fd \in DOMAIN sockets /\ client_fd # 0
         /\ Client \in Sockets
  BY Doing, AtWork
<1>b. /\ doing.at \in {"handshake payload", "payload"} => doing.kind \in AllKinds
      /\ doing.at = "answering" => doing.frame \in Nat
  BY Doing
<1>0. ASSUME NEW fd \in DOMAIN sockets, NEW s \in Sockets,
             sockets' = [sockets EXCEPT ![fd] = s]
      PROVE  sockets' \in Seq(Sockets) /\ DOMAIN sockets' = DOMAIN sockets
  <2>1. sockets \in Seq(Sockets)
    BY DEF Typed
  <2> QED  BY <1>0, <2>1
<1>1. ASSUME NEW p \in Peers, Dial(p) PROVE Typed'
  <2>1. Dialled(p) \in Sockets
    BY DEF Dialled, Sockets
  <2> QED  BY <1>1, <2>1 DEF Dial, Typed, serviceVars
<1>2. ASSUME NEW c \in DOMAIN sockets, NEW kind \in Kinds, SendHeader(c, kind)
      PROVE  Typed'
  <2> DEFINE s == sockets[c]
             part == [part |-> "header", kind |-> kind, frame |-> s.sent + 1]
             t == [s EXCEPT !.inbox = Append(s.inbox, part), !.sent = s.sent + 1,
                            !.due = kind,
                            !.proper = s.proper /\ kind \in ProperKinds]
  <2>1. s \in Sockets /\ kind \in AllKinds
    BY DoIpAssumption DEF Typed
  <2>2. part \in Parts
    BY <2>1, SocketFields DEF Parts
  <2>a. /\ Append(s.inbox, part) \in Seq(Parts) /\ s.sent + 1 \in Nat
        /\ (s.proper /\ kind \in ProperKinds) \in BOOLEAN
    BY <2>1, <2>2, SocketFields
  <2> HIDE DEF part
  <2>3. t \in Sockets
    BY <2>1, <2>a DEF Sockets
  <2>4. sockets' = [sockets EXCEPT ![c] = t]
    BY <1>2 DEF SendHeader, part
  <2> HIDE DEF t
  <2> QED  BY <1>0, <2>3, <2>4, <1>2 DEF Typed, SendHeader, serviceVars
<1>3. ASSUME NEW c \in DOMAIN sockets, SendPayload(c) PROVE Typed'
  <2> DEFINE s == sockets[c]
             part == [part |-> "payload", kind |-> s.due, frame |-> s.sent]
             t == [s EXCEPT !.inbox = Append(s.inbox, part), !.due = "none",
                            !.asked = IF s.due = "request" THEN Append(s.asked, s.sent)
                                      ELSE s.asked]
  <2>1. s \in Sockets
    BY DEF Typed
  <2>b. s.due \in AllKinds
    BY <1>3, <2>1, SocketFields DEF SendPayload
  <2>2. part \in Parts
    BY <2>1, <2>b, SocketFields DEF Parts
  <2>a. /\ Append(s.inbox, part) \in Seq(Parts)
        /\ (IF s.due = "request" THEN Append(s.asked, s.sent) ELSE s.asked) \in Seq(Nat)
    BY <2>1, <2>2, SocketFields
  <2> HIDE DEF part
  <2>3. t \in Sockets
    BY <2>1, <2>a DEF Sockets
  <2>4. sockets' = [sockets EXCEPT ![c] = t]
    BY <1>3 DEF SendPayload, part
  <2> HIDE DEF t
  <2> QED  BY <1>0, <2>3, <2>4, <1>3 DEF Typed, SendPayload, serviceVars
<1>4. ASSUME NEW c \in DOMAIN sockets, HangUp(c) PROVE Typed'
  <2> DEFINE t == [sockets[c] EXCEPT !.up = FALSE, !.due = "none"]
  <2>1. t \in Sockets
    <3>1. sockets[c] \in Sockets
      BY DEF Typed
    <3> QED  BY <3>1 DEF Sockets
  <2>2. sockets' = [sockets EXCEPT ![c] = t]
    BY <1>4 DEF HangUp
  <2> HIDE DEF t
  <2> QED  BY <1>0, <2>1, <2>2, <1>4 DEF Typed, HangUp, serviceVars
<1>5. ASSUME close_client_locked, doing' \in Doings PROVE Typed'
  <2>1. CASE client_fd = 0
    BY <1>5, <2>1 DEF close_client_locked, Typed
  <2>2. CASE client_fd # 0
    <3> DEFINE t == [sockets[client_fd] EXCEPT !.ours = "closed"]
    <3>1. sockets[client_fd] \in Sockets /\ client_fd \in DOMAIN sockets
      BY <2>2 DEF Typed
    <3>2. t \in Sockets
      BY <3>1 DEF Sockets
    <3>3. sockets' = [sockets EXCEPT ![client_fd] = t]
      BY <1>5, <2>2 DEF close_client_locked
    <3> HIDE DEF t
    <3> QED  BY <1>0, <1>5, <3>1, <3>2, <3>3 DEF close_client_locked, Typed
  <2> QED  BY <2>1, <2>2
<1>6. CASE accept
  <2>1. PICK c \in DOMAIN sockets :
           /\ sockets' = [sockets EXCEPT ![c].ours = "open"]
           /\ client_fd' = c
    BY <1>6 DEF accept, Queued
  <2> DEFINE t == [sockets[c] EXCEPT !.ours = "open"]
  <2>2. t \in Sockets
    <3>1. sockets[c] \in Sockets
      BY DEF Typed
    <3> QED  BY <3>1 DEF Sockets
  <2>3. sockets' = [sockets EXCEPT ![c] = t]
    BY <2>1
  <2>4. c \in Nat
    BY DEF Typed
  <2>5. doing' \in Doings /\ connected' \in BOOLEAN
    BY <1>6 DEF accept, Doings
  <2> HIDE DEF t
  <2> QED  BY <1>0, <2>1, <2>2, <2>3, <2>4, <2>5 DEF Typed
<1>7. CASE handshake_no_header
  BY <1>5, <1>7 DEF handshake_no_header, Doings
<1>8. ASSUME client_fd \in DOMAIN sockets, Client.inbox # <<>>,
             sockets' = [sockets EXCEPT ![client_fd].inbox = Tail(Client.inbox)],
             client_fd' = client_fd, connected' = connected,
             doing' \in Doings
      PROVE  Typed'
  <2> DEFINE t == [Client EXCEPT !.inbox = Tail(Client.inbox)]
  <2>1. Client \in Sockets /\ Tail(Client.inbox) \in Seq(Parts)
    BY <1>8, InboxPart DEF Typed, Client
  <2>2. t \in Sockets
    BY <2>1 DEF Sockets
  <2>3. sockets' = [sockets EXCEPT ![client_fd] = t]
    BY <1>8 DEF Client
  <2> HIDE DEF t
  <2> QED  BY <1>0, <1>8, <2>2, <2>3 DEF Typed
<1>9. Client.inbox # <<>> /\ client_fd \in DOMAIN sockets =>
         Head(Client.inbox).kind \in AllKinds /\ Head(Client.inbox).frame \in Nat
  BY InboxPart DEF Typed, Client
<1>10. CASE handshake_header
  <2>1. doing' \in Doings
    BY <1>9, <1>a, <1>b, <1>10 DEF handshake_header, Doings
  <2> QED  BY <1>8, <1>a, <1>10, <2>1 DEF handshake_header
<1>11. CASE handshake_activation
  <2> DEFINE t == [Client EXCEPT !.inbox = IF Client.inbox = <<>> THEN <<>>
                                           ELSE Tail(Client.inbox),
                                 !.activated = TRUE]
  <2>1. Client \in Sockets /\ client_fd \in DOMAIN sockets
    BY <1>a, <1>b, <1>11 DEF handshake_activation
  <2>a. (IF Client.inbox = <<>> THEN <<>> ELSE Tail(Client.inbox)) \in Seq(Parts)
    BY <2>1, InboxPart
  <2>2. t \in Sockets
    BY <2>1, <2>a DEF Sockets
  <2>3. sockets' = [sockets EXCEPT ![client_fd] = t]
    BY <1>11 DEF Client, handshake_activation
  <2> HIDE DEF t
  <2> QED  BY <1>0, <1>a, <1>b, <1>11, <2>1, <2>2, <2>3 DEF Typed, handshake_activation, Doings
<1>12. CASE handshake_refused
  BY <1>5, <1>a, <1>b, <1>12 DEF handshake_refused, Doings
<1>13. CASE receive_hang_up
  BY <1>a, <1>b, <1>13 DEF receive_hang_up, Typed
<1>14. CASE receive_header
  <2>1. doing' \in Doings
    BY <1>9, <1>a, <1>b, <1>14 DEF receive_header, Doings
  <2> QED  BY <1>8, <1>a, <1>14, <2>1 DEF receive_header
<1>15. CASE receive_remains
  <2>1. doing' \in Doings
    <3>1. {Idle, [at |-> "answering", frame |-> 0]} \subseteq Doings
      BY DEF Doings
    <3> QED  BY <3>1, <1>15 DEF receive_remains
  <2> QED  BY <1>8, <1>a, <1>15, <2>1 DEF receive_remains
<1>16. CASE receive_no_payload
  BY <1>a, <1>b, <1>16 DEF receive_no_payload, Typed, Doings
<1>17. CASE receive_activation
  BY <1>8, <1>a, <1>b, <1>17 DEF receive_activation, PayloadCame, Doings
<1>18. CASE receive_request
  <2> DEFINE frame == Head(Client.inbox).frame
             t == [Client EXCEPT !.inbox = Tail(Client.inbox),
                                 !.heard = Append(Client.heard, frame)]
  <2>1. /\ Client \in Sockets /\ client_fd \in DOMAIN sockets
        /\ Client.inbox # <<>> /\ frame \in Nat
    BY <1>9, <1>a, <1>b, <1>18 DEF receive_request, PayloadCame
  <2>a. Tail(Client.inbox) \in Seq(Parts) /\ Append(Client.heard, frame) \in Seq(Nat)
    BY <2>1, InboxPart, SocketFields
  <2> HIDE DEF frame
  <2>2. t \in Sockets
    BY <2>1, <2>a DEF Sockets
  <2>3. sockets' = [sockets EXCEPT ![client_fd] = t]
    BY <1>18 DEF Client, receive_request, frame
  <2>4. doing' \in Doings
    BY <1>18, <2>1 DEF receive_request, Doings, frame
  <2> HIDE DEF t
  <2> QED  BY <1>0, <1>a, <1>b, <1>18, <2>1, <2>2, <2>3, <2>4 DEF Typed, receive_request
<1>19. CASE receive_short
  <2>1. doing' \in Doings
    <3>1. {Idle, [at |-> "answering", frame |-> 0]} \subseteq Doings
      BY DEF Doings
    <3> QED  BY <3>1, <1>19 DEF receive_short
  <2> QED  BY <1>8, <1>a, <1>19, <2>1 DEF receive_short, PayloadCame
<1>20. CASE send
  BY <1>20 DEF send, Typed, Doings
<1>21. CASE disconnect
  BY <1>5, <1>21 DEF disconnect, Typed
<1>22. CASE UNCHANGED vars
  BY <1>22 DEF vars, Typed
<1> QED
  BY <1>1, <1>2, <1>3, <1>4, <1>6, <1>7, <1>10, <1>11, <1>12, <1>13, <1>14,
     <1>15, <1>16, <1>17, <1>18, <1>19, <1>20, <1>21, <1>22
  DEF Next, Connect, Receive

-----------------------------------------------------------------------------
(* The connection the thread works on stays open and activated.            *)

(* doip_adapter.cpp: connect, receive and send work on an open, activated  *)
(* connection.                                                             *)
LEMMA WorkStep ==
    Typed /\ NoUseAfterClose /\ ActivatedWhenConnected /\ [Next]_vars
    => NoUseAfterClose' /\ ActivatedWhenConnected'
<1> SUFFICES ASSUME Typed, NoUseAfterClose, ActivatedWhenConnected, [Next]_vars
             PROVE  NoUseAfterClose' /\ ActivatedWhenConnected'
  OBVIOUS
<1>a. connected \/ doing.at # "idle" =>
         client_fd \in DOMAIN sockets /\ client_fd # 0 /\ Client.ours = "open"
  BY Doing, AtWork
<1>e. /\ \A d \in DOMAIN sockets : sockets[d] \in Sockets /\ d # 0
      /\ \E S : sockets \in [DOMAIN sockets -> S]
  BY ConnectionsTyped
<1>b. Idle.at = "idle"
  BY DEF Idle
<1>c. connected /\ doing = Idle => Client.activated
  BY DEF ActivatedWhenConnected, Idle
<1>d. doing.at \in {"payload", "answering"} => Client.activated
  BY Doing DEF ActivatedWhenConnected
<1> DEFINE Kept == \A d \in DOMAIN sockets :
                      /\ d \in DOMAIN sockets'
                      /\ sockets'[d].ours = sockets[d].ours
                      /\ sockets[d].activated => sockets'[d].activated
<1>1. ASSUME Kept, UNCHANGED serviceVars
      PROVE  NoUseAfterClose' /\ ActivatedWhenConnected'
  BY <1>1, AtWork DEF NoUseAfterClose, ActivatedWhenConnected, Client, serviceVars
<1>2. ASSUME NEW p \in Peers, Dial(p)
      PROVE  NoUseAfterClose' /\ ActivatedWhenConnected'
  <2>1. Kept
    BY <1>2 DEF Dial, Typed
  <2> QED  BY <1>1, <1>2, <2>1 DEF Dial
<1>3. ASSUME NEW c \in DOMAIN sockets, NEW kind \in Kinds, SendHeader(c, kind)
      PROVE  NoUseAfterClose' /\ ActivatedWhenConnected'
  <2>1. Kept
    BY <1>e, <1>3 DEF SendHeader, Sockets
  <2> QED  BY <1>1, <1>3, <2>1 DEF SendHeader
<1>4. ASSUME NEW c \in DOMAIN sockets, SendPayload(c)
      PROVE  NoUseAfterClose' /\ ActivatedWhenConnected'
  <2>1. Kept
    BY <1>e, <1>4 DEF SendPayload, Sockets
  <2> QED  BY <1>1, <1>4, <2>1 DEF SendPayload
<1>5. ASSUME NEW c \in DOMAIN sockets, HangUp(c)
      PROVE  NoUseAfterClose' /\ ActivatedWhenConnected'
  <2>1. Kept
    BY <1>e, <1>5 DEF HangUp, Sockets
  <2> QED  BY <1>1, <1>5, <2>1 DEF HangUp
<1>6. ASSUME close_client_locked, doing' = Idle
      PROVE  NoUseAfterClose' /\ ActivatedWhenConnected'
  BY <1>6 DEF close_client_locked, NoUseAfterClose, ActivatedWhenConnected
<1>7. CASE accept
  <2>1. PICK c \in DOMAIN sockets :
           /\ sockets' = [sockets EXCEPT ![c].ours = "open"]
           /\ client_fd' = c
    BY <1>7 DEF accept, Queued
  <2>2. sockets'[c].ours = "open" /\ c # 0
    BY <1>e, <2>1 DEF Sockets
  <2>3. doing'.at = "handshake"
    BY <1>7 DEF accept
  <2> QED  BY <2>1, <2>2, <2>3 DEF NoUseAfterClose, ActivatedWhenConnected, Client
<1>8. CASE handshake_no_header \/ handshake_refused \/ disconnect
  BY <1>6, <1>8 DEF handshake_no_header, handshake_refused, disconnect
<1>9. ASSUME connected \/ doing.at # "idle", Kept,
             client_fd' = client_fd,
             doing'.at # "handshake payload" => Client'.activated
      PROVE  NoUseAfterClose' /\ ActivatedWhenConnected'
  BY <1>9, <1>a DEF NoUseAfterClose, ActivatedWhenConnected, Client
<1>10. CASE handshake_header
  <2>1. Kept
    BY <1>e, <1>10 DEF handshake_header, Client, Sockets
  <2> QED  BY <1>9, <1>10, <2>1 DEF handshake_header
<1>11. CASE handshake_activation
  <2>1. Kept /\ Client'.activated
    BY <1>e, <1>11, <1>a DEF handshake_activation, Client, Sockets
  <2> QED  BY <1>9, <1>11, <2>1 DEF handshake_activation
<1>12. CASE receive_hang_up
  BY <1>12 DEF receive_hang_up, NoUseAfterClose, ActivatedWhenConnected
<1>13. CASE receive_header \/ receive_remains
  <2>a. /\ sockets' = [sockets EXCEPT ![client_fd].inbox = Tail(Client.inbox)]
        /\ client_fd' = client_fd /\ connected
    BY <1>13 DEF receive_header, receive_remains
  <2>1. Kept /\ client_fd' = client_fd /\ connected
    BY <1>e, <2>a DEF Sockets
  <2>2. Client'.activated
    BY <1>13, <1>a, <1>c, <2>1 DEF receive_header, receive_remains, Client
  <2> QED  BY <1>9, <2>1, <2>2
<1>14. CASE receive_no_payload
  <2>1. Kept /\ client_fd' = client_fd /\ doing.at = "payload"
    BY <1>14 DEF receive_no_payload
  <2>2. Client'.activated
    BY <1>14, <1>d DEF receive_no_payload, Client
  <2> QED  BY <1>9, <2>1, <2>2
<1>15. CASE receive_activation \/ receive_request \/ receive_short
  <2>a. client_fd' = client_fd /\ doing.at = "payload"
    BY <1>15 DEF receive_activation, receive_request, receive_short, PayloadCame
  <2>b. ASSUME receive_activation PROVE Kept
    BY <1>e, <2>b DEF receive_activation, Client, Sockets
  <2>d. ASSUME receive_short PROVE Kept
    BY <1>e, <2>d DEF receive_short, Client, Sockets
  <2>c. ASSUME receive_request PROVE Kept
    BY <1>e, <2>c DEF receive_request, Client, Sockets
  <2>1. Kept /\ client_fd' = client_fd /\ doing.at = "payload"
    BY <1>15, <2>a, <2>b, <2>c, <2>d
  <2>2. Client'.activated
    BY <1>a, <1>d, <2>1 DEF Client
  <2> QED  BY <1>9, <2>1, <2>2
<1>16. CASE send
  <2>1. Kept /\ client_fd' = client_fd /\ doing.at = "answering"
    BY <1>16 DEF send
  <2>2. Client'.activated
    BY <1>16, <1>d DEF send, Client
  <2> QED  BY <1>9, <2>1, <2>2
<1>17. CASE UNCHANGED vars
  BY <1>1, <1>17 DEF vars, serviceVars
<1> QED
  BY <1>2, <1>3, <1>4, <1>5, <1>7, <1>8, <1>10, <1>11, <1>12, <1>13, <1>14,
     <1>15, <1>16, <1>17
  DEF Next, Connect, Receive

-----------------------------------------------------------------------------
(* The sockets of proper testers go on alternating.                        *)

(* A proper tester's headers and payloads alternate, whoever reads them.   *)
LEMMA AlternateStep ==
    Typed /\ NoUseAfterClose /\ ProperAlternate /\ [Next]_vars => ProperAlternate'
<1> SUFFICES ASSUME Typed, NoUseAfterClose, ProperAlternate, [Next]_vars,
                    NEW c \in DOMAIN sockets',
                    sockets'[c].proper, sockets'[c].ours # "closed"
             PROVE  Alternates(c)'
  BY DEF ProperAlternate
<1>a. connected \/ doing.at # "idle" =>
         client_fd \in DOMAIN sockets /\ client_fd # 0 /\ Client.ours = "open"
  BY Doing, AtWork
<1>b. Idle.at = "idle"
  BY DEF Idle
<1>e. /\ \A d \in DOMAIN sockets : sockets[d] \in Sockets /\ d # 0
      /\ \E S : sockets \in [DOMAIN sockets -> S]
      /\ client_fd # 0 => client_fd \in DOMAIN sockets
  BY ConnectionsTyped
<1>f. \A d \in DOMAIN sockets : /\ sockets[d].inbox \in Seq(Parts)
                                /\ sockets[d].up \in BOOLEAN
                                /\ HeaderRead(d) \in BOOLEAN
  BY <1>e, SocketFields DEF HeaderRead
<1>h. HeaderRead(c) \in BOOLEAN /\ HeaderRead(c)' \in BOOLEAN
  BY DEF HeaderRead
<1>g. \A d \in DOMAIN sockets :
         sockets[d].proper /\ sockets[d].ours # "closed" => Alternates(d)
  BY DEF ProperAlternate
<1>1. ASSUME c \in DOMAIN sockets, sockets'[c] = sockets[c],
             HeaderRead(c)' = HeaderRead(c), HeaderRead(c)' => doing' = doing
      PROVE  Alternates(c)'
  BY <1>1, <1>g DEF Alternates
<1>2. ASSUME NEW p \in Peers, Dial(p) PROVE Alternates(c)'
  <2>1. CASE c \in DOMAIN sockets
    <3>1. sockets'[c] = sockets[c]
      BY <1>2, <2>1 DEF Dial, Typed
    <3> QED  BY <1>1, <1>2, <2>1, <3>1 DEF Dial, serviceVars, HeaderRead
  <2>2. CASE c \notin DOMAIN sockets
    <3>1. sockets'[c] = Dialled(p)
      BY <1>2, <2>2 DEF Dial, Typed
    <3>2. c # client_fd /\ client_fd' = client_fd
      BY <1>2, <2>2, <1>e DEF Dial, Typed, serviceVars
    <3>3. ~HeaderRead(c)'
      BY <3>2 DEF HeaderRead
    <3>4. Alternating(<<>>, TRUE, "none", FALSE)
      BY DEF Alternating
    <3>5. /\ sockets'[c].inbox = <<>> /\ sockets'[c].up = TRUE
          /\ sockets'[c].due = "none" /\ HeaderRead(c)' = FALSE
      BY <1>h, <3>1, <3>3 DEF Dialled
    <3> QED  BY <3>4, <3>5 DEF Alternates
  <2> QED  BY <2>1, <2>2
<1>3. ASSUME NEW d \in DOMAIN sockets, NEW kind \in Kinds, SendHeader(d, kind)
      PROVE  Alternates(c)'
  <2>1. HeaderRead(c)' = HeaderRead(c) /\ doing' = doing
    BY <1>3 DEF SendHeader, serviceVars, HeaderRead
  <2>2. CASE c # d
    BY <1>1, <1>3, <1>e, <2>1, <2>2 DEF SendHeader
  <2>3. CASE c = d
    <3> DEFINE s == sockets[c]
    <3>1. /\ s.up /\ s.due = "none" /\ s.proper /\ s.ours # "closed"
          /\ kind \in ProperKinds
          /\ sockets'[c].up = s.up /\ sockets'[c].due = kind
          /\ sockets'[c].inbox =
                Append(s.inbox, [part |-> "header", kind |-> kind, frame |-> s.sent + 1])
      BY <1>3, <1>e, <2>3, HeaderChanges
    <3>2. Alternates(c) /\ s.sent + 1 \in Nat
      BY <1>e, <1>g, <2>3, <3>1, SocketFields
    <3>3. Alternating(sockets'[c].inbox, TRUE, kind, HeaderRead(c))
      <4>1. Alternating(s.inbox, TRUE, "none", HeaderRead(c))
        BY <1>f, <2>3, <3>1, <3>2 DEF Alternates
      <4>2. s.inbox \in Seq(Parts)
        BY <1>f, <2>3
      <4> QED  BY <1>h, <3>1, <3>2, <4>1, <4>2, HeaderSent
    <3>4. sockets'[c].up = TRUE
      BY <1>f, <2>3, <3>1
    <3> QED  BY <2>1, <3>1, <3>2, <3>3, <3>4 DEF Alternates
  <2> QED  BY <2>2, <2>3
<1>4. ASSUME NEW d \in DOMAIN sockets, SendPayload(d) PROVE Alternates(c)'
  <2>1. HeaderRead(c)' = HeaderRead(c) /\ doing' = doing
    BY <1>4 DEF SendPayload, serviceVars, HeaderRead
  <2>2. CASE c # d
    BY <1>1, <1>4, <1>e, <2>1, <2>2 DEF SendPayload
  <2>3. CASE c = d
    <3> DEFINE s == sockets[c]
    <3>1. /\ s.up /\ s.due # "none" /\ s.proper /\ s.ours # "closed"
          /\ sockets'[c].up = s.up /\ sockets'[c].due = "none"
          /\ sockets'[c].inbox =
                Append(s.inbox, [part |-> "payload", kind |-> s.due, frame |-> s.sent])
      BY <1>4, <1>e, <2>3, PayloadChanges
    <3>2. Alternates(c) /\ s.sent \in Nat
      BY <1>e, <1>g, <2>3, <3>1, SocketFields
    <3>3. Alternating(sockets'[c].inbox, TRUE, "none", HeaderRead(c))
      <4>1. Alternating(s.inbox, TRUE, s.due, HeaderRead(c))
        BY <1>f, <2>3, <3>1, <3>2 DEF Alternates
      <4>2. s.due \in ProperKinds
        BY <3>1, <4>1 DEF Alternating
      <4>3. s.inbox \in Seq(Parts)
        BY <1>f, <2>3
      <4> QED  BY <1>h, <3>1, <3>2, <4>1, <4>2, <4>3, PayloadSent
    <3>4. sockets'[c].up = TRUE
      BY <1>f, <2>3, <3>1
    <3> QED  BY <2>1, <3>1, <3>2, <3>3, <3>4 DEF Alternates
  <2> QED  BY <2>2, <2>3
<1>5. ASSUME NEW d \in DOMAIN sockets, HangUp(d) PROVE Alternates(c)'
  <2>1. HeaderRead(c)' = HeaderRead(c) /\ doing' = doing
    BY <1>5 DEF HangUp, serviceVars, HeaderRead
  <2>2. CASE c # d
    BY <1>1, <1>5, <1>e, <2>1, <2>2 DEF HangUp
  <2>3. CASE c = d
    <3> DEFINE s == sockets[c]
    <3>1. /\ s.proper /\ s.ours # "closed"
          /\ sockets'[c].up = FALSE /\ sockets'[c].due = "none"
          /\ sockets'[c].inbox = s.inbox
      BY <1>5, <1>e, <2>3 DEF HangUp, Sockets
    <3>2. Alternates(c)
      BY <1>g, <2>3, <3>1
    <3>3. Alternating(s.inbox, FALSE, "none", HeaderRead(c))
      BY <3>2 DEF Alternates, Alternating
    <3> QED  BY <2>1, <3>1, <3>2, <3>3 DEF Alternates
  <2> QED  BY <2>2, <2>3
<1>6. ASSUME close_client_locked, doing' = Idle PROVE Alternates(c)'
  <2>1. c \in DOMAIN sockets /\ c # client_fd /\ sockets'[c] = sockets[c]
    BY <1>6, <1>e DEF close_client_locked, Sockets
  <2>2. ~HeaderRead(c) /\ ~HeaderRead(c)'
    BY <1>6, <1>b, <2>1 DEF HeaderRead
  <2> QED  BY <1>h, <1>1, <2>1, <2>2
<1>7. CASE accept
  <2>1. PICK d \in DOMAIN sockets :
           /\ sockets[d].ours = "queued"
           /\ sockets' = [sockets EXCEPT ![d].ours = "open"]
    BY <1>7 DEF accept, Queued
  <2>2. /\ c \in DOMAIN sockets /\ sockets[c].proper /\ sockets[c].ours # "closed"
        /\ sockets'[c].inbox = sockets[c].inbox
        /\ sockets'[c].up = sockets[c].up /\ sockets'[c].due = sockets[c].due
    BY <1>e, <2>1 DEF Sockets
  <2>3. ~HeaderRead(c) /\ ~HeaderRead(c)'
    BY <1>7, <1>b DEF accept, HeaderRead
  <2> QED  BY <1>h, <1>g, <2>2, <2>3 DEF Alternates
<1>8. CASE handshake_no_header \/ handshake_refused \/ disconnect
  <2>1. close_client_locked /\ doing' = Idle
    BY <1>8 DEF handshake_no_header, handshake_refused, disconnect
  <2> QED  BY <1>6, <2>1
<1>9. ASSUME connected \/ doing.at # "idle", Client.inbox # <<>>,
             DOMAIN sockets' = DOMAIN sockets,
             \A d \in DOMAIN sockets : d # client_fd => sockets'[d] = sockets[d],
             Client'.inbox = Tail(Client.inbox),
             Client'.up = Client.up, Client'.due = Client.due,
             Client'.proper = Client.proper, client_fd' = client_fd,
             c = client_fd /\ Alternates(c) =>
                /\ HeaderRead(c)' = ~HeaderRead(c)
                /\ HeaderRead(c)' => doing'.kind \in ProperKinds
      PROVE  Alternates(c)'
  <2>1. client_fd \in DOMAIN sockets /\ Client.ours = "open"
    BY <1>9, <1>a
  <2>2. CASE c # client_fd
    <3>1. ~HeaderRead(c) /\ ~HeaderRead(c)'
      BY <1>9, <2>2 DEF HeaderRead
    <3> QED  BY <1>h, <1>1, <1>9, <2>2, <3>1
  <2>3. CASE c = client_fd
    <3>1. Client = sockets[c] /\ Client' = sockets'[c]
      BY <1>9, <2>3 DEF Client
    <3>2. Alternates(c)
      BY <1>9, <1>g, <2>1, <2>3, <3>1
    <3>3. Alternating(Tail(Client.inbox), Client.up, Client.due, ~HeaderRead(c))
      <4>1. Alternating(Client.inbox, Client.up, Client.due, HeaderRead(c))
        BY <3>1, <3>2 DEF Alternates
      <4> QED  BY <1>9, <1>f, <2>1, <2>3, <3>1, <4>1, PartTaken
    <3> QED  BY <1>9, <2>3, <3>1, <3>2, <3>3 DEF Alternates
  <2> QED  BY <2>2, <2>3
<1>10. ASSUME c = client_fd, Alternates(c), Client.inbox # <<>>,
              c \in DOMAIN sockets
       PROVE  /\ Head(Client.inbox).kind \in ProperKinds
              /\ Head(Client.inbox).part = IF HeaderRead(c) THEN "payload" ELSE "header"
  <2>1. Alternating(Client.inbox, Client.up, Client.due, HeaderRead(c))
    BY <1>10 DEF Alternates, Client
  <2> QED  BY <1>10, <1>f, <2>1, PartTaken DEF Client
<1>11. ASSUME doing.at \in {"handshake payload", "payload"}, Client.inbox = <<>>,
              ~Client.up, DOMAIN sockets' = DOMAIN sockets,
              \A d \in DOMAIN sockets : d # client_fd => sockets'[d] = sockets[d],
              Client'.inbox = <<>>, Client'.up = Client.up, Client'.due = Client.due,
              Client'.proper = Client.proper, client_fd' = client_fd, doing' = Idle
       PROVE  Alternates(c)'
  <2>1. client_fd \in DOMAIN sockets /\ Client.ours = "open"
    BY <1>11, <1>a
  <2>2. ~HeaderRead(c)'
    BY <1>11, <1>b DEF HeaderRead
  <2>3. CASE c # client_fd
    BY <1>1, <1>11, <2>2, <2>3 DEF HeaderRead
  <2>4. CASE c = client_fd
    <3>1. Client = sockets[c] /\ Client' = sockets'[c]
      BY <1>11, <2>4 DEF Client
    <3>2. Alternates(c)
      BY <1>11, <1>g, <2>1, <2>4, <3>1
    <3>3. Alternating(<<>>, FALSE, Client.due, HeaderRead(c))
      BY <1>11, <1>f, <2>1, <2>4, <3>1, <3>2 DEF Alternates
    <3>4. Alternating(<<>>, FALSE, Client.due, FALSE)
      BY <3>3, NothingLeft
    <3>5. Client'.up = FALSE
      BY <1>11, <1>f, <2>1, <2>4, <3>1
    <3> QED  BY <1>h, <1>11, <2>2, <3>1, <3>4, <3>5 DEF Alternates
  <2> QED  BY <2>3, <2>4
<1>12. CASE handshake_header
  <2>1. /\ DOMAIN sockets' = DOMAIN sockets /\ client_fd' = client_fd
        /\ \A d \in DOMAIN sockets : d # client_fd => sockets'[d] = sockets[d]
        /\ Client'.inbox = Tail(Client.inbox) /\ Client'.up = Client.up
        /\ Client'.due = Client.due /\ Client'.proper = Client.proper
    BY <1>12, <1>a, <1>e DEF handshake_header, Client, Sockets
  <2>2. doing.at = "handshake" /\ Client.inbox # <<>>
    BY <1>12 DEF handshake_header
  <2>3. doing'.at = "handshake payload" /\ doing'.kind = Head(Client.inbox).kind
    BY <1>12 DEF handshake_header
  <2>4. ASSUME c = client_fd, Alternates(c)
        PROVE  /\ HeaderRead(c)' = ~HeaderRead(c)
               /\ HeaderRead(c)' => doing'.kind \in ProperKinds
    BY <1>10, <1>a, <2>1, <2>2, <2>3, <2>4 DEF HeaderRead
  <2> QED  BY <1>9, <2>1, <2>2, <2>4
<1>13. CASE handshake_activation
  <2>1. /\ DOMAIN sockets' = DOMAIN sockets /\ client_fd' = client_fd
        /\ \A d \in DOMAIN sockets : d # client_fd => sockets'[d] = sockets[d]
        /\ Client'.up = Client.up
        /\ Client'.due = Client.due /\ Client'.proper = Client.proper
        /\ Client'.inbox = IF Client.inbox = <<>> THEN <<>> ELSE Tail(Client.inbox)
    BY <1>13, <1>a, <1>e DEF handshake_activation, Client, Sockets
  <2>2. doing.at = "handshake payload" /\ doing' = Idle
    BY <1>13 DEF handshake_activation
  <2>3. CASE Client.inbox = <<>>
    BY <1>11, <1>13, <2>1, <2>2, <2>3
    DEF handshake_activation, HandshakePayloadIsAwaited
  <2>4. CASE Client.inbox # <<>>
    <3>1. c = client_fd => HeaderRead(c) /\ ~HeaderRead(c)'
      BY <1>b, <2>2 DEF HeaderRead
    <3> QED  BY <1>h, <1>9, <2>1, <2>2, <2>4, <3>1
  <2> QED  BY <2>3, <2>4
<1>14. CASE receive_hang_up
  <2>1. UNCHANGED <<sockets, client_fd, doing>>
    BY <1>14 DEF receive_hang_up
  <2> QED  BY <1>1, <2>1 DEF HeaderRead
<1>15. CASE receive_header
  <2>1. /\ DOMAIN sockets' = DOMAIN sockets /\ client_fd' = client_fd
        /\ \A d \in DOMAIN sockets : d # client_fd => sockets'[d] = sockets[d]
        /\ Client'.inbox = Tail(Client.inbox) /\ Client'.up = Client.up
        /\ Client'.due = Client.due /\ Client'.proper = Client.proper
    BY <1>15, <1>a, <1>e DEF receive_header, Client, Sockets
  <2>2. connected /\ doing.at = "idle" /\ Client.inbox # <<>>
    BY <1>15, <1>b DEF receive_header
  <2>3. Head(Client.inbox).kind # "other" =>
           doing'.at = "payload" /\ doing'.kind = Head(Client.inbox).kind
    BY <1>15 DEF receive_header
  <2>4. ASSUME c = client_fd, Alternates(c)
        PROVE  /\ HeaderRead(c)' = ~HeaderRead(c)
               /\ HeaderRead(c)' => doing'.kind \in ProperKinds
    <3>1. Head(Client.inbox).kind \in ProperKinds
      BY <1>10, <1>a, <2>2, <2>4
    <3> QED  BY <2>1, <2>2, <2>3, <2>4, <3>1 DEF HeaderRead, ProperKinds
  <2> QED  BY <1>9, <2>1, <2>2, <2>4
<1>16. CASE receive_remains
  <2>1. /\ DOMAIN sockets' = DOMAIN sockets /\ client_fd' = client_fd
        /\ \A d \in DOMAIN sockets : d # client_fd => sockets'[d] = sockets[d]
        /\ Client'.inbox = Tail(Client.inbox) /\ Client'.up = Client.up
        /\ Client'.due = Client.due /\ Client'.proper = Client.proper
    BY <1>16, <1>a, <1>e DEF receive_remains, Client, Sockets
  <2>2. /\ connected /\ doing.at = "idle" /\ Client.inbox # <<>>
        /\ Head(Client.inbox).part = "payload"
    BY <1>16, <1>b DEF receive_remains
  <2>3. ~(c = client_fd /\ Alternates(c))
    BY <1>10, <1>a, <2>2 DEF HeaderRead
  <2> QED  BY <1>9, <2>1, <2>2, <2>3
<1>17. CASE receive_no_payload
  <2>1. doing.at = "payload" /\ Client.inbox = <<>> /\ ~Client.up
    BY <1>17 DEF receive_no_payload
  <2>2. UNCHANGED <<sockets, client_fd, Client>> /\ doing' = Idle
    BY <1>17 DEF receive_no_payload, Client
  <2> QED  BY <1>11, <2>1, <2>2
<1>18. ASSUME PayloadCame, DOMAIN sockets' = DOMAIN sockets, client_fd' = client_fd,
              \A d \in DOMAIN sockets : d # client_fd => sockets'[d] = sockets[d],
              Client'.inbox = Tail(Client.inbox), Client'.up = Client.up,
              Client'.due = Client.due, Client'.proper = Client.proper,
              doing'.at \in {"idle", "answering"}
       PROVE  Alternates(c)'
  <2>1. doing.at = "payload" /\ Client.inbox # <<>>
    BY <1>18 DEF PayloadCame
  <2>2. c = client_fd => HeaderRead(c) /\ ~HeaderRead(c)'
    BY <1>18, <2>1 DEF HeaderRead
  <2> QED  BY <1>h, <1>9, <1>18, <2>1, <2>2
<1>19. CASE receive_activation
  BY <1>18, <1>19, <1>a, <1>b, <1>e DEF receive_activation, PayloadCame, Client, Sockets
<1>20. CASE receive_request
  BY <1>18, <1>20, <1>a, <1>e DEF receive_request, PayloadCame, Client, Sockets
<1>21. CASE receive_short
  BY <1>18, <1>21, <1>a, <1>b, <1>e DEF receive_short, PayloadCame, Client, Sockets
<1>22. CASE send
  <2>1. UNCHANGED <<sockets, client_fd>> /\ doing.at = "answering" /\ doing'.at = "idle"
    BY <1>22, <1>b DEF send
  <2> QED  BY <1>1, <2>1 DEF HeaderRead
<1>23. CASE UNCHANGED vars
  <2>1. UNCHANGED <<sockets, client_fd, doing>>
    BY <1>23 DEF vars
  <2> QED  BY <1>1, <2>1 DEF HeaderRead
<1> QED
  BY <1>2, <1>3, <1>4, <1>5, <1>7, <1>8, <1>12, <1>13, <1>14, <1>15, <1>16,
     <1>17, <1>19, <1>20, <1>21, <1>22, <1>23
  DEF Next, Connect, Receive

-----------------------------------------------------------------------------
(* A proper request is remembered, and its sender's address, before it is  *)
(* answered.                                                               *)

(* The request that is answered is the last one of its connection.         *)
LEMMA AnsweringStep == IInv /\ [Next]_vars => AnsweringTheLast'
<1> SUFFICES ASSUME IInv, [Next]_vars, doing'.at = "answering", Client'.proper
             PROVE  /\ remote_address' = Client'.peer
                    /\ Client'.heard # <<>>
                    /\ doing'.frame = Client'.heard[Len(Client'.heard)]
  BY DEF AnsweringTheLast
<1>a. connected \/ doing.at # "idle" =>
         client_fd \in DOMAIN sockets /\ client_fd # 0 /\ Client.ours = "open"
  BY Doing, AtWork DEF IInv
<1>b. Idle.at = "idle"
  BY DEF Idle
<1>e. /\ \A d \in DOMAIN sockets : sockets[d] \in Sockets
      /\ \E S : sockets \in [DOMAIN sockets -> S]
  BY ConnectionsTyped DEF IInv
<1>g. client_fd \in DOMAIN sockets /\ Client.proper /\ Client.ours # "closed" =>
         Alternates(client_fd)
  BY DEF IInv, ProperAlternate, Client
<1>1. ASSUME doing.at = "answering", UNCHANGED serviceVars,
             Client'.proper => Client.proper,
             Client'.peer = Client.peer, Client'.heard = Client.heard
      PROVE  /\ remote_address' = Client'.peer
             /\ Client'.heard # <<>>
             /\ doing'.frame = Client'.heard[Len(Client'.heard)]
  BY <1>1 DEF IInv, AnsweringTheLast, serviceVars
<1>2. ASSUME UNCHANGED serviceVars PROVE doing.at = "answering"
  BY <1>2 DEF serviceVars
<1>3. ASSUME NEW p \in Peers, Dial(p)
      PROVE  doing.at = "answering" /\ Client'.proper /\ UNCHANGED <<serviceVars, Client>>
  <2>1. UNCHANGED serviceVars /\ sockets \in Seq(Sockets) /\ doing.at = "answering"
    BY <1>2, <1>3 DEF Dial, IInv, Typed
  <2> QED  BY <1>3, <1>a, <2>1 DEF Dial, Client, serviceVars
<1>4. ASSUME NEW d \in DOMAIN sockets, NEW kind \in Kinds, SendHeader(d, kind)
      PROVE  /\ UNCHANGED serviceVars
             /\ Client'.proper => Client.proper
             /\ Client'.peer = Client.peer /\ Client'.heard = Client.heard
  <2>1. UNCHANGED serviceVars /\ client_fd \in DOMAIN sockets
    BY <1>a, <1>2, <1>4 DEF SendHeader
  <2>2. Client' = sockets'[client_fd]
    BY <2>1 DEF Client, serviceVars
  <2>3. CASE client_fd = d
    BY <1>4, <1>e, <2>1, <2>2, <2>3 DEF SendHeader, Client, Sockets
  <2>4. CASE client_fd # d
    BY <1>4, <1>e, <2>1, <2>2, <2>4 DEF SendHeader, Client
  <2> QED  BY <2>3, <2>4
<1>5. ASSUME NEW d \in DOMAIN sockets, SendPayload(d)
      PROVE  /\ UNCHANGED serviceVars
             /\ Client'.proper => Client.proper
             /\ Client'.peer = Client.peer /\ Client'.heard = Client.heard
  <2>1. UNCHANGED serviceVars /\ client_fd \in DOMAIN sockets
    BY <1>a, <1>2, <1>5 DEF SendPayload
  <2>2. Client' = sockets'[client_fd]
    BY <2>1 DEF Client, serviceVars
  <2>3. CASE client_fd = d
    BY <1>5, <1>e, <2>1, <2>2, <2>3 DEF SendPayload, Client, Sockets
  <2>4. CASE client_fd # d
    BY <1>5, <1>e, <2>1, <2>2, <2>4 DEF SendPayload, Client
  <2> QED  BY <2>3, <2>4
<1>6. ASSUME NEW d \in DOMAIN sockets, HangUp(d)
      PROVE  /\ UNCHANGED serviceVars
             /\ Client'.proper => Client.proper
             /\ Client'.peer = Client.peer /\ Client'.heard = Client.heard
  <2>1. UNCHANGED serviceVars /\ client_fd \in DOMAIN sockets
    BY <1>a, <1>2, <1>6 DEF HangUp
  <2>2. Client' = sockets'[client_fd]
    BY <2>1 DEF Client, serviceVars
  <2>3. CASE client_fd = d
    <3>1. /\ sockets'[d].proper = sockets[d].proper
          /\ sockets'[d].peer = sockets[d].peer /\ sockets'[d].heard = sockets[d].heard
      BY <1>6, <1>e DEF HangUp, Sockets
    <3> QED  BY <2>1, <2>2, <2>3, <3>1 DEF Client
  <2>4. CASE client_fd # d
    BY <1>6, <1>e, <2>1, <2>2, <2>4 DEF HangUp, Client
  <2> QED  BY <2>3, <2>4
<1>7. CASE Connect
  <2>1. doing'.at \in {"handshake", "handshake payload", "idle"}
    <3>1. CASE accept
      BY <3>1 DEF accept
    <3>2. CASE handshake_header
      BY <3>2 DEF handshake_header
    <3>3. CASE handshake_no_header \/ handshake_activation \/ handshake_refused
      BY <1>b, <3>3 DEF handshake_no_header, handshake_activation, handshake_refused
    <3> QED  BY <1>7, <3>1, <3>2, <3>3 DEF Connect
  <2> QED  BY <2>1
<1>8. CASE receive_hang_up \/ receive_header \/ receive_no_payload \/ receive_activation
  BY <1>8, <1>b DEF receive_hang_up, receive_header, receive_no_payload,
                    receive_activation
<1>9. CASE receive_remains
  <2>1. /\ connected /\ doing.at = "idle" /\ Client.inbox # <<>>
        /\ Head(Client.inbox).part = "payload" /\ client_fd' = client_fd
        /\ sockets' = [sockets EXCEPT ![client_fd].inbox = Tail(Client.inbox)]
    BY <1>9, <1>b DEF receive_remains
  <2>2. Client.proper
    BY <1>a, <1>e, <2>1 DEF Client, Sockets
  <2>3. HeaderRead(client_fd) = FALSE
    BY <2>1 DEF HeaderRead
  <2>4. Alternating(Client.inbox, Client.up, Client.due, FALSE)
    BY <1>a, <1>g, <2>1, <2>2, <2>3 DEF Alternates, Client
  <2>5. Client.inbox \in Seq(Parts) /\ Client.up \in BOOLEAN
    BY <1>a, <1>e, <2>1, SocketFields DEF Client
  <2>6. Head(Client.inbox).part = "header"
    BY <2>1, <2>4, <2>5, PartTaken
  <2> QED  BY <2>1, <2>6
<1>10. CASE receive_short
  <2>1. /\ doing.at = "payload" /\ doing.kind = "short" /\ client_fd' = client_fd
        /\ sockets' = [sockets EXCEPT ![client_fd].inbox = Tail(Client.inbox)]
    BY <1>10 DEF receive_short, PayloadCame
  <2>2. Client.proper
    BY <1>a, <1>e, <2>1 DEF Client, Sockets
  <2>3. doing.kind \in ProperKinds
    BY <1>a, <1>g, <2>1, <2>2 DEF Alternates, HeaderRead
  <2> QED  BY <2>1, <2>3 DEF ProperKinds
<1>11. CASE receive_request
  <2> DEFINE frame == Head(Client.inbox).frame
  <2>1. /\ doing.at = "payload" /\ client_fd' = client_fd
        /\ remote_address' = Client.peer /\ doing'.frame = frame
        /\ sockets' = [sockets EXCEPT ![client_fd].inbox = Tail(Client.inbox),
                                       ![client_fd].heard = Append(Client.heard, frame)]
    BY <1>11 DEF receive_request, PayloadCame
  <2>2. Client \in Sockets /\ client_fd \in DOMAIN sockets
    BY <1>a, <1>e, <2>1 DEF Client
  <2>3. Client'.peer = Client.peer /\ Client'.heard = Append(Client.heard, frame)
    BY <1>e, <2>1, <2>2 DEF Client, Sockets
  <2>4. Client.heard \in Seq(Nat)
    BY <2>2, SocketFields
  <2> HIDE DEF frame
  <2>5. /\ Append(Client.heard, frame) # <<>>
        /\ Append(Client.heard, frame)[Len(Append(Client.heard, frame))] = frame
    BY <2>4
  <2> QED  BY <2>1, <2>3, <2>5
<1>12. CASE send \/ disconnect
  BY <1>12, <1>b DEF send, disconnect
<1>13. CASE UNCHANGED vars
  <2>1. UNCHANGED <<serviceVars, Client>>
    BY <1>13 DEF vars, serviceVars, Client
  <2> QED  BY <1>1, <1>2, <2>1
<1>14. UNCHANGED <<serviceVars, Client>> /\ doing.at = "answering" =>
          /\ remote_address' = Client'.peer
          /\ Client'.heard # <<>>
          /\ doing'.frame = Client'.heard[Len(Client'.heard)]
  BY <1>1
<1>15. ASSUME \E p \in Peers : Dial(p)
       PROVE  UNCHANGED <<serviceVars, Client>> /\ doing.at = "answering"
  BY <1>3, <1>15
<1>16. ASSUME \E d \in DOMAIN sockets :
                 \/ \E kind \in Kinds : SendHeader(d, kind)
                 \/ SendPayload(d) \/ HangUp(d)
       PROVE  /\ UNCHANGED serviceVars
              /\ Client'.proper => Client.proper
              /\ Client'.peer = Client.peer /\ Client'.heard = Client.heard
  BY <1>4, <1>5, <1>6, <1>16
<1> QED
  <2>1. CASE \E p \in Peers : Dial(p)
    BY <1>14, <1>15, <2>1
  <2>2. CASE \E d \in DOMAIN sockets :
                \/ \E kind \in Kinds : SendHeader(d, kind)
                \/ SendPayload(d) \/ HangUp(d)
    <3>1. /\ UNCHANGED serviceVars
          /\ Client'.proper => Client.proper
          /\ Client'.peer = Client.peer /\ Client'.heard = Client.heard
      BY <1>16, <2>2
    <3>2. doing.at = "answering"
      BY <1>2, <3>1
    <3> QED  BY <1>1, <3>1, <3>2
  <2> QED
    BY <1>7, <1>8, <1>9, <1>10, <1>11, <1>12, <1>13, <2>1, <2>2 DEF Next, Receive

-----------------------------------------------------------------------------
(* The requests of proper testers are heard in the order they were asked.  *)

(* What kind the thread has read is of no matter to a socket it does not   *)
(* read from.                                                              *)
LEMMA KindUnread ==
    ASSUME NEW inbox \in Seq(Parts), NEW up \in BOOLEAN, NEW due, NEW kind, NEW other,
           Alternating(inbox, up, due, FALSE),
           Agreeing(inbox, up, due, FALSE, kind)
    PROVE  Agreeing(inbox, up, due, FALSE, other)
<1>1. Len(inbox) \in Nat
  OBVIOUS
<1>2. up /\ due # "none" => Len(inbox) > 0
  BY <1>1 DEF Alternating
<1> QED  BY <1>1, <1>2 DEF Agreeing

(* Headers agree with payloads, and requests arrive in their order.        *)
LEMMA OrderStep == IInv /\ [Next]_vars => ProperOrdered'
<1> SUFFICES ASSUME IInv, [Next]_vars, NEW c \in DOMAIN sockets',
                    sockets'[c].proper
             PROVE  Ordered(c)'
  BY DEF ProperOrdered
<1>a. connected \/ doing.at # "idle" =>
         client_fd \in DOMAIN sockets /\ client_fd # 0 /\ Client.ours = "open"
  BY Doing, AtWork DEF IInv
<1>b. Idle.at = "idle"
  BY DEF Idle
<1>e. /\ \A d \in DOMAIN sockets : sockets[d] \in Sockets /\ d # 0
      /\ \E S : sockets \in [DOMAIN sockets -> S]
      /\ client_fd # 0 => client_fd \in DOMAIN sockets
  BY ConnectionsTyped DEF IInv
<1>f. \A d \in DOMAIN sockets : /\ sockets[d].inbox \in Seq(Parts)
                                /\ sockets[d].asked \in Seq(Nat)
                                /\ sockets[d].heard \in Seq(Nat)
                                /\ sockets[d].up \in BOOLEAN
                                /\ sockets[d].sent \in Nat
  BY <1>e, SocketFields
<1>h. HeaderRead(c) \in BOOLEAN /\ HeaderRead(c)' \in BOOLEAN
  BY DEF HeaderRead
<1>g. \A d \in DOMAIN sockets :
         sockets[d].proper => /\ Ordered(d)
                              /\ sockets[d].ours # "closed" => Alternates(d)
  BY DEF IInv, ProperAlternate, ProperOrdered
<1>1. ASSUME c \in DOMAIN sockets, sockets[c].proper,
             sockets'[c].heard = sockets[c].heard,
             sockets'[c].asked = sockets[c].asked,
             sockets'[c].ours # "closed" =>
                /\ sockets[c].ours # "closed"
                /\ sockets'[c].inbox = sockets[c].inbox
                /\ sockets'[c].up = sockets[c].up
                /\ sockets'[c].due = sockets[c].due
                /\ HeaderRead(c)' = HeaderRead(c)
                /\ HeaderRead(c) => doing'.kind = doing.kind
      PROVE  Ordered(c)'
  <2> DEFINE s == sockets[c]
  <2>1. Ordered(c)
    BY <1>1, <1>g
  <2>2. CASE sockets'[c].ours = "closed"
    BY <1>1, <2>1, <2>2 DEF Ordered
  <2>3. CASE sockets'[c].ours # "closed"
    <3>1. Alternates(c) /\ s.ours # "closed"
      BY <1>1, <1>g, <2>3
    <3>2. Agreeing(s.inbox, s.up, s.due, HeaderRead(c), doing'.kind)
      <4>1. CASE HeaderRead(c)
        BY <1>1, <2>1, <2>3, <3>1, <4>1 DEF Ordered
      <4>2. CASE HeaderRead(c) = FALSE
        <5> DEFINE read == HeaderRead(c)
        <5>1. /\ Alternating(s.inbox, s.up, s.due, read)
              /\ Agreeing(s.inbox, s.up, s.due, read, doing.kind)
          BY <2>1, <3>1 DEF Ordered, Alternates
        <5>2. read = FALSE
          BY <4>2
        <5>3. s.inbox \in Seq(Parts) /\ s.up \in BOOLEAN
          BY <1>1, <1>f
        <5> HIDE DEF read
        <5>4. /\ Alternating(s.inbox, s.up, s.due, FALSE)
              /\ Agreeing(s.inbox, s.up, s.due, FALSE, doing.kind)
          BY <5>1, <5>2
        <5>5. Agreeing(s.inbox, s.up, s.due, FALSE, doing'.kind)
          <6> HIDE DEF s
          <6> QED  BY <5>3, <5>4, KindUnread
        <5>6. Agreeing(s.inbox, s.up, s.due, read, doing'.kind)
          BY <5>2, <5>5
        <5> QED  BY <5>6 DEF read
      <4> QED  BY <1>h, <4>1, <4>2
    <3> QED  BY <1>1, <2>1, <2>3, <3>1, <3>2 DEF Ordered
  <2> QED  BY <2>2, <2>3
<1>2. ASSUME NEW p \in Peers, Dial(p) PROVE Ordered(c)'
  <2>1. CASE c \in DOMAIN sockets
    <3>1. sockets'[c] = sockets[c] /\ UNCHANGED serviceVars
      BY <1>2, <2>1 DEF Dial, IInv, Typed
    <3> QED  BY <1>1, <2>1, <3>1 DEF serviceVars, HeaderRead
  <2>2. CASE c \notin DOMAIN sockets
    <3>1. sockets'[c] = Dialled(p)
      BY <1>2, <2>2 DEF Dial, IInv, Typed
    <3>2. c # client_fd /\ client_fd' = client_fd
      BY <1>2, <2>2, <1>e DEF Dial, IInv, Typed, serviceVars
    <3>3. HeaderRead(c)' = FALSE
      BY <3>2 DEF HeaderRead
    <3>4. Begins(<<>>, <<>>) /\ Agreeing(<<>>, TRUE, "none", FALSE, doing'.kind)
      BY DEF Begins, Agreeing
    <3>5. Matching(<<>>, <<>>, <<>>)
      <4> DEFINE pos == [i \in 1 .. 1 |-> 0]
      <4>1. /\ pos \in [1 .. Len(<<>>) + 1 -> Nat]
            /\ pos[1] = Len(<<>>) /\ pos[Len(<<>>) + 1] = Len(<<>>)
            /\ \A i \in 1 .. Len(<<>>) + 1 : pos[i] <= Len(<<>>)
        OBVIOUS
      <4>2. 1 .. Len(<<>>) = {}
        OBVIOUS
      <4> HIDE DEF pos
      <4> QED  BY <4>1, <4>2 DEF Matching
    <3>6. /\ sockets'[c].inbox = <<>> /\ sockets'[c].up = TRUE
          /\ sockets'[c].due = "none"
          /\ sockets'[c].asked = <<>> /\ sockets'[c].heard = <<>>
      BY <3>1 DEF Dialled
    <3> QED  BY <3>3, <3>4, <3>5, <3>6 DEF Ordered
  <2> QED  BY <2>1, <2>2
<1>3. ASSUME NEW d \in DOMAIN sockets, NEW kind \in Kinds, SendHeader(d, kind)
      PROVE  Ordered(c)'
  <2>1. /\ HeaderRead(c)' = HeaderRead(c) /\ doing' = doing
        /\ c \in DOMAIN sockets
    BY <1>3 DEF SendHeader, serviceVars, HeaderRead
  <2>2. CASE c # d
    <3>1. sockets'[c] = sockets[c]
      BY <1>3, <1>e, <2>1, <2>2 DEF SendHeader
    <3> QED  BY <1>1, <2>1, <3>1
  <2>3. CASE c = d
    <3> DEFINE s == sockets[c]
               part == [part |-> "header", kind |-> kind, frame |-> s.sent + 1]
    <3>1. /\ s.up /\ s.due = "none" /\ s.proper /\ kind \in ProperKinds
          /\ sockets'[c].up = s.up /\ sockets'[c].due = kind
          /\ sockets'[c].ours = s.ours
          /\ sockets'[c].asked = s.asked /\ sockets'[c].heard = s.heard
          /\ sockets'[c].inbox = Append(s.inbox, part)
      BY <1>3, <1>e, <2>3, HeaderChanges
    <3>2. Ordered(c) /\ s.up = TRUE /\ s.sent + 1 \in Nat
      BY <1>f, <1>g, <2>3, <3>1
    <3>3. CASE s.ours # "closed"
      <4>1. /\ Alternating(s.inbox, TRUE, "none", HeaderRead(c))
            /\ Agreeing(s.inbox, TRUE, "none", HeaderRead(c), doing.kind)
        BY <1>g, <2>1, <3>1, <3>2, <3>3 DEF Alternates, Ordered
      <4>2. Agreeing(Append(s.inbox, part), TRUE, kind, HeaderRead(c), doing.kind)
        BY <1>f, <1>h, <2>1, <3>1, <3>2, <4>1, HeaderAgrees
      <4>3. part \in Parts /\ ~IsRequest(part)
        BY <3>1, <3>2 DEF Parts, IsRequest, AllKinds, ProperKinds
      <4>4. s.inbox \in Seq(Parts) /\ s.asked \in Seq(Nat) /\ s.heard \in Seq(Nat)
        BY <1>f, <2>1
      <4> HIDE DEF part
      <4>5. Matching(Append(s.inbox, part), s.asked, s.heard)
        BY <3>2, <3>3, <4>3, <4>4, NoRequestSent DEF Ordered
      <4> QED  BY <2>1, <3>1, <3>2, <4>2, <4>5 DEF Ordered
    <3>4. CASE s.ours = "closed"
      BY <3>1, <3>2, <3>4 DEF Ordered
    <3> QED  BY <3>3, <3>4
  <2> QED  BY <2>2, <2>3
<1>4. ASSUME NEW d \in DOMAIN sockets, SendPayload(d) PROVE Ordered(c)'
  <2>1. /\ HeaderRead(c)' = HeaderRead(c) /\ doing' = doing
        /\ c \in DOMAIN sockets
    BY <1>4 DEF SendPayload, serviceVars, HeaderRead
  <2>2. CASE c # d
    <3>1. sockets'[c] = sockets[c]
      BY <1>4, <1>e, <2>1, <2>2 DEF SendPayload
    <3> QED  BY <1>1, <2>1, <3>1
  <2>3. CASE c = d
    <3> DEFINE s == sockets[c]
               part == [part |-> "payload", kind |-> s.due, frame |-> s.sent]
    <3>1. /\ s.up /\ s.due # "none" /\ s.proper
          /\ sockets'[c].up = s.up /\ sockets'[c].due = "none"
          /\ sockets'[c].ours = s.ours /\ sockets'[c].heard = s.heard
          /\ sockets'[c].asked = IF s.due = "request" THEN Append(s.asked, s.sent)
                                 ELSE s.asked
          /\ sockets'[c].inbox = Append(s.inbox, part)
      BY <1>4, <1>e, <2>3, PayloadChanges
    <3>2. /\ Ordered(c) /\ s.up = TRUE /\ s.sent \in Nat
          /\ s.inbox \in Seq(Parts) /\ s.asked \in Seq(Nat) /\ s.heard \in Seq(Nat)
      BY <1>f, <1>g, <2>1, <3>1
    <3>3. Begins(s.heard, sockets'[c].asked)
      BY <3>1, <3>2, StillBegins DEF Ordered
    <3>4. CASE s.ours # "closed"
      <4>1. /\ Alternating(s.inbox, TRUE, s.due, HeaderRead(c))
            /\ Agreeing(s.inbox, TRUE, s.due, HeaderRead(c), doing.kind)
        BY <1>g, <2>1, <3>1, <3>2, <3>4 DEF Alternates, Ordered
      <4>2. s.due \in ProperKinds
        BY <3>1, <4>1 DEF Alternating
      <4>3. Agreeing(Append(s.inbox, part), TRUE, "none", HeaderRead(c), doing.kind)
        BY <1>h, <3>1, <3>2, <4>1, <4>2, PayloadAgrees
      <4>4. part \in Parts /\ part.frame = s.sent /\ (IsRequest(part) <=> s.due = "request")
        BY <3>2, <4>2 DEF Parts, IsRequest, AllKinds, ProperKinds
      <4> HIDE DEF part
      <4>5. Matching(Append(s.inbox, part), sockets'[c].asked, s.heard)
        <5>1. Matching(s.inbox, s.asked, s.heard)
          BY <3>2, <3>4 DEF Ordered
        <5>2. CASE IsRequest(part)
          BY <3>1, <3>2, <4>4, <5>1, <5>2, RequestSent
        <5>3. CASE ~IsRequest(part)
          BY <3>1, <3>2, <4>4, <5>1, <5>3, NoRequestSent
        <5> QED  BY <5>2, <5>3
      <4> QED  BY <2>1, <3>1, <3>2, <3>3, <4>3, <4>5 DEF Ordered
    <3>5. CASE s.ours = "closed"
      BY <3>1, <3>3, <3>5 DEF Ordered
    <3> QED  BY <3>4, <3>5
  <2> QED  BY <2>2, <2>3
<1>5. ASSUME NEW d \in DOMAIN sockets, HangUp(d) PROVE Ordered(c)'
  <2>1. /\ HeaderRead(c)' = HeaderRead(c) /\ doing' = doing
        /\ c \in DOMAIN sockets
    BY <1>5 DEF HangUp, serviceVars, HeaderRead
  <2>2. CASE c # d
    <3>1. sockets'[c] = sockets[c]
      BY <1>5, <1>e, <2>1, <2>2 DEF HangUp
    <3> QED  BY <1>1, <2>1, <3>1
  <2>3. CASE c = d
    <3> DEFINE s == sockets[c]
    <3>1. /\ s.proper /\ sockets'[c].ours = s.ours /\ sockets'[c].inbox = s.inbox
          /\ sockets'[c].asked = s.asked /\ sockets'[c].heard = s.heard
          /\ sockets'[c].up = FALSE /\ sockets'[c].due = "none"
      BY <1>5, <1>e, <2>3 DEF HangUp, Sockets
    <3>2. Ordered(c)
      BY <1>g, <2>1, <3>1
    <3>3. Agreeing(s.inbox, s.up, s.due, HeaderRead(c), doing.kind) =>
             Agreeing(s.inbox, FALSE, "none", HeaderRead(c), doing.kind)
      BY DEF Agreeing
    <3> QED  BY <2>1, <3>1, <3>2, <3>3 DEF Ordered
  <2> QED  BY <2>2, <2>3
<1>6. ASSUME close_client_locked PROVE Ordered(c)'
  <2>1. /\ c \in DOMAIN sockets /\ sockets[c].proper
        /\ sockets'[c].heard = sockets[c].heard /\ sockets'[c].asked = sockets[c].asked
        /\ c = client_fd => sockets'[c].ours = "closed"
        /\ c # client_fd => sockets'[c] = sockets[c]
    BY <1>6, <1>e DEF close_client_locked, Sockets
  <2>2. client_fd' = 0 /\ c # 0
    BY <1>6, <1>e, <2>1 DEF close_client_locked
  <2>3. c # client_fd => HeaderRead(c) = FALSE /\ HeaderRead(c)' = FALSE
    BY <2>2 DEF HeaderRead
  <2> QED  BY <1>1, <2>1, <2>3
<1>7. CASE accept
  <2>1. PICK d \in DOMAIN sockets :
           /\ sockets[d].ours = "queued"
           /\ sockets' = [sockets EXCEPT ![d].ours = "open"]
    BY <1>7 DEF accept, Queued
  <2>2. /\ c \in DOMAIN sockets /\ sockets[c].proper
        /\ sockets'[c].ours # "closed" => sockets[c].ours # "closed"
        /\ sockets'[c].inbox = sockets[c].inbox
        /\ sockets'[c].up = sockets[c].up /\ sockets'[c].due = sockets[c].due
        /\ sockets'[c].heard = sockets[c].heard /\ sockets'[c].asked = sockets[c].asked
    BY <1>e, <2>1 DEF Sockets
  <2>3. HeaderRead(c) = FALSE /\ HeaderRead(c)' = FALSE
    BY <1>7, <1>b DEF accept, HeaderRead
  <2> QED  BY <1>1, <2>2, <2>3
<1>8. CASE handshake_no_header \/ handshake_refused \/ disconnect
  BY <1>6, <1>8 DEF handshake_no_header, handshake_refused, disconnect
(* The part that is read is a header, or the payload of the kind that the  *)
(* thread knows.                                                           *)
<1>9. ASSUME c = client_fd, c \in DOMAIN sockets, sockets[c].proper,
             Client.ours # "closed", Client.inbox # <<>>
      PROVE  /\ Head(Client.inbox).kind \in ProperKinds
             /\ Head(Client.inbox).part = IF HeaderRead(c) THEN "payload" ELSE "header"
             /\ HeaderRead(c) => Head(Client.inbox).kind = doing.kind
  <2>1. /\ Alternating(Client.inbox, Client.up, Client.due, HeaderRead(c))
        /\ Agreeing(Client.inbox, Client.up, Client.due, HeaderRead(c), doing.kind)
        /\ Client.inbox \in Seq(Parts) /\ Client.up \in BOOLEAN
    BY <1>9, <1>f, <1>g DEF Alternates, Ordered, Client
  <2>2. HeaderRead(c) => Head(Client.inbox).kind = doing.kind
    BY <1>9, <2>1, PayloadTakenAgrees
  <2> QED  BY <1>9, <1>h, <2>1, <2>2, PartTaken
<1>10. ASSUME connected \/ doing.at # "idle", Client.inbox # <<>>,
              DOMAIN sockets' = DOMAIN sockets,
              \A d \in DOMAIN sockets : d # client_fd => sockets'[d] = sockets[d],
              Client'.inbox = Tail(Client.inbox),
              Client'.up = Client.up, Client'.due = Client.due,
              Client'.proper = Client.proper, Client'.ours = Client.ours,
              Client'.asked = Client.asked, client_fd' = client_fd,
              c = client_fd /\ sockets[c].proper =>
                 /\ HeaderRead(c)' = ~HeaderRead(c)
                 /\ HeaderRead(c)' => doing'.kind = Head(Client.inbox).kind
                 /\ Client'.heard = IF IsRequest(Head(Client.inbox))
                                    THEN Append(Client.heard, Head(Client.inbox).frame)
                                    ELSE Client.heard
       PROVE  Ordered(c)'
  <2>1. client_fd \in DOMAIN sockets /\ Client.ours = "open"
    BY <1>10, <1>a
  <2>2. CASE c # client_fd
    <3>1. ~HeaderRead(c) /\ ~HeaderRead(c)'
      BY <1>10, <2>2 DEF HeaderRead
    <3> QED  BY <1>h, <1>1, <1>10, <2>2, <3>1
  <2>3. CASE c = client_fd
    <3>1. Client = sockets[c] /\ Client' = sockets'[c] /\ Client.proper
      BY <1>10, <2>3 DEF Client
    <3>2. /\ Alternating(Client.inbox, Client.up, Client.due, HeaderRead(c))
          /\ Agreeing(Client.inbox, Client.up, Client.due, HeaderRead(c), doing.kind)
          /\ Matching(Client.inbox, Client.asked, Client.heard)
          /\ Begins(Client.heard, Client.asked)
      BY <1>g, <2>1, <2>3, <3>1 DEF Alternates, Ordered
    <3>3. /\ Client.inbox \in Seq(Parts) /\ Client.asked \in Seq(Nat)
          /\ Client.heard \in Seq(Nat) /\ Client.up \in BOOLEAN
      BY <1>f, <2>1, <2>3, <3>1
    <3>4. Agreeing(Tail(Client.inbox), Client.up, Client.due, HeaderRead(c)', doing'.kind)
      <4>1. CASE HeaderRead(c) = TRUE
        <5>1. HeaderRead(c)' = FALSE
          BY <1>10, <2>3, <3>1, <4>1
        <5>2. /\ Client.inbox # <<>>
              /\ Alternating(Client.inbox, Client.up, Client.due, TRUE)
              /\ Agreeing(Client.inbox, Client.up, Client.due, TRUE, doing.kind)
          BY <1>10, <3>2, <4>1
        <5>3. Agreeing(Tail(Client.inbox), Client.up, Client.due, FALSE, doing'.kind)
          BY <3>3, <5>2, PayloadTakenAgrees
        <5> QED  BY <5>1, <5>3
      <4>2. CASE HeaderRead(c) = FALSE
        <5>1. /\ HeaderRead(c)' = TRUE /\ doing'.kind = Head(Client.inbox).kind
              /\ Head(Client.inbox).part = "header"
          BY <1>9, <1>10, <2>1, <2>3, <3>1, <4>2
        <5> QED  BY <1>10, <3>2, <3>3, <4>2, <5>1, HeaderTakenAgrees
      <4> QED  BY <1>h, <4>1, <4>2
    <3>5. /\ Matching(Tail(Client.inbox), Client.asked, Client'.heard)
          /\ Begins(Client'.heard, Client.asked)
      <4>1. CASE IsRequest(Head(Client.inbox))
        <5>1. Client'.heard = Append(Client.heard, Head(Client.inbox).frame)
          BY <1>10, <2>3, <3>1, <4>1
        <5> QED  BY <1>10, <3>2, <3>3, <4>1, <5>1, RequestTaken
      <4>2. CASE ~IsRequest(Head(Client.inbox))
        <5>1. Client'.heard = Client.heard
          BY <1>10, <2>3, <3>1, <4>2
        <5> QED  BY <1>10, <3>2, <3>3, <4>2, <5>1, OtherTaken
      <4> QED  BY <4>1, <4>2
    <3> QED  BY <1>10, <2>1, <2>3, <3>1, <3>4, <3>5 DEF Ordered
  <2> QED  BY <2>2, <2>3
(* A part that is read and is no request.                                  *)
<1>11. ASSUME connected \/ doing.at # "idle", Client.inbox # <<>>,
              sockets' = [sockets EXCEPT ![client_fd].inbox = Tail(Client.inbox)]
       PROVE  /\ DOMAIN sockets' = DOMAIN sockets
              /\ \A d \in DOMAIN sockets : d # client_fd => sockets'[d] = sockets[d]
              /\ client_fd' = client_fd =>
                    /\ Client'.inbox = Tail(Client.inbox)
                    /\ Client'.up = Client.up /\ Client'.due = Client.due
                    /\ Client'.proper = Client.proper /\ Client'.ours = Client.ours
                    /\ Client'.asked = Client.asked /\ Client'.heard = Client.heard
  BY <1>11, <1>a, <1>e DEF Client, Sockets
<1>12. c = client_fd /\ (connected \/ doing.at # "idle") =>
          c \in DOMAIN sockets /\ Client.ours # "closed" /\ Client = sockets[c]
  BY <1>a DEF Client
<1>13. CASE handshake_header
  <2>1. /\ doing.at = "handshake" /\ Client.inbox # <<>> /\ client_fd' = client_fd
        /\ sockets' = [sockets EXCEPT ![client_fd].inbox = Tail(Client.inbox)]
        /\ doing'.at = "handshake payload" /\ doing'.kind = Head(Client.inbox).kind
    BY <1>13 DEF handshake_header
  <2>2. c = client_fd => ~HeaderRead(c) /\ HeaderRead(c)'
    BY <2>1 DEF HeaderRead
  <2>3. c = client_fd /\ sockets[c].proper => ~IsRequest(Head(Client.inbox))
    BY <1>9, <1>12, <2>1, <2>2 DEF IsRequest
  <2> QED  BY <1>h, <1>10, <1>11, <2>1, <2>2, <2>3
<1>14. CASE handshake_activation
  <2>1. /\ doing.at = "handshake payload" /\ doing.kind = "activation"
        /\ doing' = Idle /\ client_fd' = client_fd
    BY <1>14 DEF handshake_activation
  <2>2. /\ DOMAIN sockets' = DOMAIN sockets
        /\ \A d \in DOMAIN sockets : d # client_fd => sockets'[d] = sockets[d]
        /\ Client'.up = Client.up /\ Client'.due = Client.due
        /\ Client'.proper = Client.proper /\ Client'.ours = Client.ours
        /\ Client'.asked = Client.asked /\ Client'.heard = Client.heard
        /\ Client'.inbox = IF Client.inbox = <<>> THEN <<>> ELSE Tail(Client.inbox)
    BY <1>14, <1>a, <1>e, <2>1 DEF handshake_activation, Client, Sockets
  <2>3. c = client_fd => HeaderRead(c) /\ ~HeaderRead(c)'
    BY <1>b, <2>1 DEF HeaderRead
  <2>4. CASE Client.inbox # <<>>
    <3>1. c = client_fd /\ sockets[c].proper => ~IsRequest(Head(Client.inbox))
      BY <1>9, <1>12, <2>1, <2>3, <2>4 DEF IsRequest
    <3> QED  BY <1>h, <1>10, <2>1, <2>2, <2>3, <2>4, <3>1
  <2>5. CASE Client.inbox = <<>>
    <3>1. ~Client.up
      BY <1>14, <2>5 DEF handshake_activation, HandshakePayloadIsAwaited
    <3>2. CASE c = client_fd
      <4>1. /\ sockets'[c] = Client' /\ c \in DOMAIN sockets /\ Client = sockets[c]
            /\ Client.proper /\ Client.ours # "closed"
        BY <1>12, <2>1, <2>2, <3>2 DEF Client
      <4>2. Ordered(c)
        BY <1>g, <4>1
      <4>3. Agreeing(<<>>, Client.up, Client.due, HeaderRead(c)', doing'.kind)
        BY <3>1 DEF Agreeing
      <4> QED  BY <2>2, <2>5, <4>1, <4>2, <4>3 DEF Ordered
    <3>3. CASE c # client_fd
      <4>1. ~HeaderRead(c) /\ ~HeaderRead(c)'
        BY <2>1, <3>3 DEF HeaderRead
      <4> QED  BY <1>h, <1>1, <2>2, <3>3, <4>1
    <3> QED  BY <3>2, <3>3
  <2> QED  BY <2>4, <2>5
<1>15. CASE receive_hang_up \/ send
  <2>1. /\ UNCHANGED <<sockets, client_fd>>
        /\ HeaderRead(c)' = HeaderRead(c) /\ (HeaderRead(c) => doing' = doing)
    BY <1>15, <1>b DEF receive_hang_up, send, HeaderRead
  <2> QED  BY <1>1, <2>1
<1>16. CASE receive_header
  <2>1. /\ connected /\ doing.at = "idle" /\ Client.inbox # <<>>
        /\ Head(Client.inbox).part = "header" /\ client_fd' = client_fd
        /\ sockets' = [sockets EXCEPT ![client_fd].inbox = Tail(Client.inbox)]
    BY <1>16, <1>b DEF receive_header
  <2>2. Head(Client.inbox).kind # "other" =>
           doing'.at = "payload" /\ doing'.kind = Head(Client.inbox).kind
    BY <1>16 DEF receive_header
  <2>3. c = client_fd /\ sockets[c].proper => Head(Client.inbox).kind # "other"
    BY <1>9, <1>12, <2>1 DEF ProperKinds
  <2>4. c = client_fd /\ sockets[c].proper =>
           /\ ~HeaderRead(c) /\ HeaderRead(c)' /\ doing'.kind = Head(Client.inbox).kind
    BY <2>1, <2>2, <2>3 DEF HeaderRead
  <2>5. ~IsRequest(Head(Client.inbox))
    BY <2>1 DEF IsRequest
  <2> QED  BY <1>h, <1>10, <1>11, <2>1, <2>4, <2>5
<1>17. CASE receive_remains
  <2>1. /\ connected /\ doing.at = "idle" /\ Client.inbox # <<>>
        /\ Head(Client.inbox).part = "payload" /\ client_fd' = client_fd
        /\ sockets' = [sockets EXCEPT ![client_fd].inbox = Tail(Client.inbox)]
    BY <1>17, <1>b DEF receive_remains
  <2>2. ~(c = client_fd /\ sockets[c].proper)
    <3>1. ~HeaderRead(c)
      BY <2>1 DEF HeaderRead
    <3> QED  BY <1>9, <1>12, <2>1, <3>1
  <2> QED  BY <1>10, <1>11, <2>1, <2>2
<1>18. CASE receive_no_payload
  <2>1. /\ doing.at = "payload" /\ Client.inbox = <<>> /\ ~Client.up
        /\ UNCHANGED <<sockets, client_fd>> /\ doing' = Idle
    BY <1>18 DEF receive_no_payload
  <2>2. CASE c = client_fd
    <3>1. c \in DOMAIN sockets /\ Client = sockets[c] /\ Ordered(c)
          /\ Client.ours # "closed"
      BY <1>12, <1>g, <2>1, <2>2
    <3>2. Agreeing(<<>>, Client.up, Client.due, HeaderRead(c)', doing'.kind)
      BY <2>1 DEF Agreeing
    <3> QED  BY <2>1, <3>1, <3>2 DEF Ordered
  <2>3. CASE c # client_fd
    <3>1. ~HeaderRead(c) /\ ~HeaderRead(c)'
      BY <2>1, <2>3 DEF HeaderRead
    <3> QED  BY <1>h, <1>1, <2>1, <3>1
  <2> QED  BY <2>2, <2>3
<1>19. CASE receive_activation \/ receive_short
  <2>1. /\ doing.at = "payload" /\ doing.kind # "request"
        /\ Client.inbox # <<>> /\ client_fd' = client_fd
        /\ sockets' = [sockets EXCEPT ![client_fd].inbox = Tail(Client.inbox)]
        /\ doing'.at \in {"idle", "answering"}
    BY <1>19, <1>b DEF receive_activation, receive_short, PayloadCame
  <2>2. c = client_fd => HeaderRead(c) /\ ~HeaderRead(c)'
    BY <2>1 DEF HeaderRead
  <2>3. c = client_fd /\ sockets[c].proper => ~IsRequest(Head(Client.inbox))
    BY <1>9, <1>12, <2>1, <2>2 DEF IsRequest
  <2> QED  BY <1>h, <1>10, <1>11, <2>1, <2>2, <2>3
<1>20. CASE receive_request
  <2>1. /\ doing.at = "payload" /\ doing.kind = "request"
        /\ Client.inbox # <<>> /\ client_fd' = client_fd
        /\ doing'.at = "answering"
    BY <1>20 DEF receive_request, PayloadCame
  <2>2. /\ DOMAIN sockets' = DOMAIN sockets
        /\ \A d \in DOMAIN sockets : d # client_fd => sockets'[d] = sockets[d]
        /\ Client'.up = Client.up /\ Client'.due = Client.due
        /\ Client'.proper = Client.proper /\ Client'.ours = Client.ours
        /\ Client'.asked = Client.asked /\ Client'.inbox = Tail(Client.inbox)
        /\ Client'.heard = Append(Client.heard, Head(Client.inbox).frame)
    BY <1>20, <1>a, <1>e, <2>1 DEF receive_request, Client, Sockets
  <2>3. c = client_fd => HeaderRead(c) /\ ~HeaderRead(c)'
    BY <2>1 DEF HeaderRead
  <2>4. c = client_fd /\ sockets[c].proper => IsRequest(Head(Client.inbox))
    BY <1>9, <1>12, <2>1, <2>3 DEF IsRequest
  <2> QED  BY <1>h, <1>10, <2>1, <2>2, <2>3, <2>4
<1>21. CASE UNCHANGED vars
  <2>1. UNCHANGED <<sockets, client_fd, doing>>
    BY <1>21 DEF vars
  <2> QED  BY <1>1, <2>1 DEF HeaderRead
<1> QED
  BY <1>2, <1>3, <1>4, <1>5, <1>7, <1>8, <1>13, <1>14, <1>15, <1>16, <1>17,
     <1>18, <1>19, <1>20, <1>21
  DEF Next, Connect, Receive

-----------------------------------------------------------------------------
(* The conjunction of all of these, in every state.                        *)
LEMMA Invariant == Spec => []IInv
<1>1. Init => IInv
  <2> SUFFICES ASSUME Init PROVE IInv
    OBVIOUS
  <2>1. Idle.at = "idle"
    BY DEF Idle
  <2>2. Typed
    <3>1. <<>> \in Seq(Sockets)
      OBVIOUS
    <3> QED  BY <3>1 DEF Init, Typed, Doings
  <2>3. NoUseAfterClose /\ ActivatedWhenConnected
    BY DEF Init, NoUseAfterClose, ActivatedWhenConnected
  <2>4. ProperAlternate
    BY DEF Init, ProperAlternate
  <2>5. AnsweringTheLast
    BY <2>1 DEF Init, AnsweringTheLast
  <2>6. ProperOrdered
    BY DEF Init, ProperOrdered
  <2> QED  BY <2>2, <2>3, <2>4, <2>5, <2>6 DEF IInv
<1>2. IInv /\ [Next]_vars => IInv'
  BY TypedStep, WorkStep, AlternateStep, AnsweringStep, OrderStep DEF IInv
<1> QED  BY <1>1, <1>2, PTL DEF Spec

(* doip_adapter.cpp's receive, handshake and send never work on a socket   *)
(* that close_client_locked has closed.                                    *)
THEOREM AdapterNoUseAfterClose == Spec => []NoUseAfterClose
<1>1. IInv => NoUseAfterClose
  BY DEF IInv
<1> QED  BY <1>1, Invariant, PTL

(* The service is handed requests of activated connections only.           *)
THEOREM AdapterServedAfterActivation == Spec => []ServedAfterActivation
<1>1. IInv => ServedAfterActivation
  BY Doing DEF IInv, ActivatedWhenConnected, ServedAfterActivation
<1> QED  BY <1>1, Invariant, PTL

(* receive hands on the requests of a connection that sent nothing         *)
(* improper once each and in their order: each recv takes exactly the      *)
(* header or the payload whose turn it is.                                 *)
THEOREM AdapterRequestsInOrder == Spec => []RequestsInOrder
<1>1. IInv => RequestsInOrder
  BY DEF IInv, ProperOrdered, Ordered, Begins, RequestsInOrder
<1> QED  BY <1>1, Invariant, PTL

(* Every answer on a connection that sent nothing improper is to the last  *)
(* request that came by it, and addressed to the tester at its other end:  *)
(* receive has put that tester's address where send takes it from.         *)
THEOREM AdapterAnswersAsker == Spec => AnswerGoesToAsker
<1> DEFINE A == answer' # answer /\ sockets[answer'.fd].proper =>
                   /\ answer'.to = sockets[answer'.fd].peer
                   /\ sockets[answer'.fd].heard # <<>>
                   /\ answer'.frame =
                         sockets[answer'.fd].heard[Len(sockets[answer'.fd].heard)]
<1>1. IInv /\ [Next]_vars => A
  <2> SUFFICES ASSUME IInv, [Next]_vars, answer' # answer PROVE A
    OBVIOUS
  <2>1. send
    BY DEF Next, vars, Dial, SendHeader, SendPayload, HangUp, serviceVars,
           Connect, accept, handshake_no_header, handshake_header,
           handshake_activation, handshake_refused, Receive, receive_hang_up,
           receive_header, receive_remains, receive_no_payload,
           receive_activation, receive_request, receive_short, disconnect
  <2>2. /\ doing.at = "answering" /\ answer'.fd = client_fd
        /\ answer'.to = remote_address /\ answer'.frame = doing.frame
    BY <2>1 DEF send
  <2> QED  BY <2>2 DEF IInv, AnsweringTheLast, Client
<1>2. IInv /\ [Next]_vars => [A]_vars
  BY <1>1
<1> QED  BY <1>2, Invariant, PTL DEF Spec, AnswerGoesToAsker

-----------------------------------------------------------------------------
(* The adapter as a channel: ImplementsChannel.                            *)

(* Whatever the thread is doing, it does for a tester that is connected.   *)
BusyConnected == doing # Idle => connected

(* doip_adapter.cpp: connected_ is true from accept on, until the thread   *)
(* is idle again.                                                          *)
LEMMA BusyStep == BusyConnected /\ [Next]_vars => BusyConnected'
<1> SUFFICES ASSUME BusyConnected, [Next]_vars PROVE BusyConnected'
  OBVIOUS
<1>1. ASSUME UNCHANGED <<doing, connected>> PROVE BusyConnected'
  BY <1>1 DEF BusyConnected
<1>2. ASSUME doing' = Idle PROVE BusyConnected'
  BY <1>2 DEF BusyConnected
<1>3. ASSUME connected, connected' = connected PROVE BusyConnected'
  BY <1>3 DEF BusyConnected
<1>4. doing.at # "idle" => connected
  BY DEF BusyConnected, Idle
<1>5. CASE \/ \E p \in Peers : Dial(p)
           \/ \E c \in DOMAIN sockets :
                 \/ \E kind \in Kinds : SendHeader(c, kind)
                 \/ SendPayload(c) \/ HangUp(c)
           \/ UNCHANGED vars
  BY <1>1, <1>5
  DEF Dial, SendHeader, SendPayload, HangUp, serviceVars, vars
<1>6. CASE accept
  BY <1>6 DEF accept, BusyConnected
<1>7. CASE handshake_header
  BY <1>3, <1>4, <1>7 DEF handshake_header
<1>8. CASE handshake_no_header \/ handshake_activation \/ handshake_refused
           \/ receive_no_payload \/ receive_activation \/ send
  BY <1>2, <1>8
  DEF handshake_no_header, handshake_activation, handshake_refused,
      receive_no_payload, receive_activation, send
<1>9. CASE receive_hang_up \/ disconnect
  BY <1>2, <1>9 DEF receive_hang_up, disconnect
<1>10. CASE receive_header \/ receive_remains
  BY <1>3, <1>10 DEF receive_header, receive_remains
<1>11. CASE receive_request \/ receive_short
  BY <1>3, <1>4, <1>11 DEF receive_request, receive_short, PayloadCame
<1> QED
  BY <1>5, <1>6, <1>7, <1>8, <1>9, <1>10, <1>11 DEF Next, Connect, Receive

(* accept takes a connection from the queue for good: client_fd_ is never  *)
(* one that waits.                                                         *)
ClientAccepted == client_fd # 0 => Client.ours # "queued"

(* accept sets client_fd_ to a connection it has just opened.              *)
LEMMA AcceptedStep ==
    Typed /\ NoUseAfterClose /\ ClientAccepted /\ [Next]_vars => ClientAccepted'
<1> SUFFICES ASSUME Typed, NoUseAfterClose, ClientAccepted, [Next]_vars,
                    client_fd' # 0
             PROVE  sockets'[client_fd'].ours # "queued"
  BY DEF ClientAccepted, Client
<1>e. /\ \A d \in DOMAIN sockets : sockets[d] \in Sockets /\ d # 0
      /\ \E S : sockets \in [DOMAIN sockets -> S]
      /\ client_fd # 0 => client_fd \in DOMAIN sockets
  BY ConnectionsTyped
<1>1. ASSUME client_fd' = client_fd, client_fd \in DOMAIN sockets,
             sockets'[client_fd].ours = sockets[client_fd].ours
      PROVE  sockets'[client_fd'].ours # "queued"
  BY <1>1, <1>e DEF ClientAccepted, Client
<1>2. ASSUME NEW p \in Peers, Dial(p)
      PROVE  sockets'[client_fd'].ours # "queued"
  <2>1. client_fd' = client_fd /\ client_fd \in DOMAIN sockets
    BY <1>2, <1>e DEF Dial, serviceVars
  <2>2. sockets'[client_fd] = sockets[client_fd]
    BY <1>2, <2>1 DEF Dial, Typed
  <2> QED  BY <1>1, <2>1, <2>2
<1>3. ASSUME NEW c \in DOMAIN sockets,
             (\E kind \in Kinds : SendHeader(c, kind)) \/ SendPayload(c) \/ HangUp(c)
      PROVE  sockets'[client_fd'].ours # "queued"
  <2>1. client_fd' = client_fd /\ client_fd \in DOMAIN sockets
    BY <1>3, <1>e DEF SendHeader, SendPayload, HangUp, serviceVars
  <2>2. CASE c # client_fd
    <3>1. sockets'[client_fd] = sockets[client_fd]
      BY <1>3, <1>e, <2>1, <2>2 DEF SendHeader, SendPayload, HangUp
    <3> QED  BY <1>1, <2>1, <3>1
  <2>3. CASE c = client_fd
    <3>1. sockets'[c].ours = sockets[c].ours
      <4>1. ASSUME NEW kind \in Kinds, SendHeader(c, kind)
            PROVE  sockets'[c].ours = sockets[c].ours
        BY <1>e, <4>1, HeaderChanges
      <4>2. CASE SendPayload(c)
        BY <1>e, <4>2, PayloadChanges
      <4>3. CASE HangUp(c)
        BY <1>e, <4>3 DEF HangUp, Sockets
      <4> QED  BY <1>3, <4>1, <4>2, <4>3
    <3> QED  BY <1>1, <2>1, <2>3, <3>1
  <2> QED  BY <2>2, <2>3
<1>4. CASE accept
  <2>1. PICK c \in Queued : sockets' = [sockets EXCEPT ![c].ours = "open"]
                            /\ client_fd' = c
    BY <1>4 DEF accept
  <2>2. c \in DOMAIN sockets
    BY <2>1 DEF Queued
  <2>3. sockets'[c].ours = "open"
    BY <1>e, <2>1, <2>2 DEF Sockets
  <2> QED  BY <2>1, <2>3
<1>5. CASE handshake_no_header \/ handshake_refused \/ disconnect
  BY <1>5 DEF handshake_no_header, handshake_refused, disconnect,
              close_client_locked
<1>6. CASE \/ handshake_header \/ handshake_activation \/ receive_header
           \/ receive_remains \/ receive_activation \/ receive_request
           \/ receive_short
  <2>1. client_fd' = client_fd /\ client_fd \in DOMAIN sockets
    BY <1>6, <1>e DEF handshake_header, handshake_activation, receive_header,
       receive_remains, receive_activation, receive_request, receive_short
  <2>2. sockets[client_fd] \in Sockets
    BY <1>e, <2>1
  <2>3. sockets'[client_fd].ours = sockets[client_fd].ours
    <3>1. CASE handshake_header
      BY <1>e, <2>1, <2>2, <3>1 DEF handshake_header, Sockets
    <3>2. CASE handshake_activation
      BY <1>e, <2>1, <2>2, <3>2 DEF handshake_activation, Sockets
    <3>3. CASE receive_header
      BY <1>e, <2>1, <2>2, <3>3 DEF receive_header, Sockets
    <3>4. CASE receive_remains
      BY <1>e, <2>1, <2>2, <3>4 DEF receive_remains, Sockets
    <3>5. CASE receive_activation
      BY <1>e, <2>1, <2>2, <3>5 DEF receive_activation, Sockets
    <3>6. CASE receive_request
      BY <1>e, <2>1, <2>2, <3>6 DEF receive_request, Sockets
    <3>7. CASE receive_short
      BY <1>e, <2>1, <2>2, <3>7 DEF receive_short, Sockets
    <3> QED  BY <1>6, <3>1, <3>2, <3>3, <3>4, <3>5, <3>6, <3>7
  <2> QED  BY <1>1, <2>1, <2>3
<1>7. CASE receive_hang_up \/ receive_no_payload \/ send \/ UNCHANGED vars
  BY <1>1, <1>7, <1>e DEF receive_hang_up, receive_no_payload, send, vars
<1> QED
  BY <1>2, <1>3, <1>4, <1>5, <1>6, <1>7 DEF Next, Connect, Receive

(* A step that touches one connection touches one line.                    *)
LEMMA LineChanges ==
    ASSUME NEW c \in DOMAIN sockets, DOMAIN sockets' = DOMAIN sockets,
           \A d \in DOMAIN sockets : d # c => sockets'[d] = sockets[d]
    PROVE  Lines' = [Lines EXCEPT ![c] = LineOf(sockets'[c])]
<1>1. Lines' = [d \in DOMAIN sockets |-> LineOf(sockets'[d])]
  BY DEF Lines
<1> DEFINE after == [Lines EXCEPT ![c] = LineOf(sockets'[c])]
<1>2. after = [d \in DOMAIN sockets |-> IF d = c THEN LineOf(sockets'[c])
                                        ELSE LineOf(sockets[d])]
  BY DEF Lines
<1>3. \A d \in DOMAIN sockets :
         LineOf(sockets'[d]) = IF d = c THEN LineOf(sockets'[c])
                               ELSE LineOf(sockets[d])
  OBVIOUS
<1> QED  BY <1>1, <1>2, <1>3

(* And none, if nothing in it is what the channel knows.                   *)
LEMMA LineStays ==
    ASSUME NEW c \in DOMAIN sockets, DOMAIN sockets' = DOMAIN sockets,
           \A d \in DOMAIN sockets : d # c => sockets'[d] = sockets[d],
           LineOf(sockets'[c]) = LineOf(sockets[c])
    PROVE  Lines' = Lines
<1>1. Lines' = [Lines EXCEPT ![c] = LineOf(sockets[c])]
  BY LineChanges
<1>2. Lines[c] = LineOf(sockets[c])
  BY DEF Lines
<1>3. Lines = [d \in DOMAIN Lines |-> Lines[d]]
  BY DEF Lines
<1> QED  BY <1>1, <1>2, <1>3

-----------------------------------------------------------------------------
(* Every step of the testers and of the adapter, as the channel sees it.   *)

ChannelInv == IInv /\ BusyConnected /\ ClientAccepted

(* What the steps of one thread leave alone, the channel does, too.        *)
LEMMA ChannelStays ==
    ASSUME Lines' = Lines, Attended' = Attended, Pending' = Pending,
           answer' = answer
    PROVE  UNCHANGED Channel!vars
  BY DEF Channel!vars

(* The thread at work on its connection, and the channel meanwhile.        *)
LEMMA Attending ==
    ASSUME ChannelInv, connected \/ doing.at # "idle"
    PROVE  /\ connected /\ client_fd \in DOMAIN sockets /\ client_fd # 0
           /\ Client \in Sockets /\ Client.ours = "open"
           /\ Attended = client_fd
<1>1. /\ client_fd \in DOMAIN sockets /\ client_fd # 0
      /\ Client \in Sockets /\ Client.ours = "open"
  BY Doing, AtWork DEF ChannelInv, IInv
<1>2. connected
  BY DEF ChannelInv, BusyConnected, Idle
<1> QED  BY <1>1, <1>2 DEF Attended

(* A change of one field of one line, and a line more.                     *)
LEMMA FieldChanges ==
    ASSUME NEW f, NEW c, NEW v
    PROVE  /\ [f EXCEPT ![c].proper = v] = [f EXCEPT ![c] = [f[c] EXCEPT !.proper = v]]
           /\ [f EXCEPT ![c].asked = v] = [f EXCEPT ![c] = [f[c] EXCEPT !.asked = v]]
           /\ [f EXCEPT ![c].heard = v] = [f EXCEPT ![c] = [f[c] EXCEPT !.heard = v]]
           /\ [f EXCEPT ![c].waiting = v] = [f EXCEPT ![c] = [f[c] EXCEPT !.waiting = v]]
  OBVIOUS

(* A sequence with one element more, as a function.                        *)
LEMMA OneMore ==
    ASSUME NEW S, NEW s \in Seq(S), NEW e \in S, NEW n, n = Len(s)
    PROVE  Append(s, e) = [i \in 1 .. n + 1 |-> IF i = n + 1 THEN e ELSE s[i]]
<1> DEFINE more == Append(s, e)
<1>1. more \in Seq(S) /\ Len(more) = n + 1 /\ n \in Nat
  OBVIOUS
<1>2. \A i \in 1 .. n + 1 : more[i] = IF i = n + 1 THEN e ELSE s[i]
  OBVIOUS
<1> HIDE DEF more
<1>3. more = [i \in 1 .. n + 1 |-> more[i]]
  BY <1>1
<1>4. more = [i \in 1 .. n + 1 |-> IF i = n + 1 THEN e ELSE s[i]]
  BY <1>2, <1>3
<1> QED  BY <1>4 DEF more

(* A connection of which one field has changed.                            *)
LEMMA LineWith ==
    ASSUME NEW s, NEW t, t.peer = s.peer, t.ours = s.ours
    PROVE  /\ t.asked = s.asked /\ t.heard = s.heard =>
                 LineOf(t) = [LineOf(s) EXCEPT !.proper = t.proper]
           /\ t.proper = s.proper /\ t.heard = s.heard =>
                 LineOf(t) = [LineOf(s) EXCEPT !.asked = t.asked]
           /\ t.proper = s.proper /\ t.asked = s.asked =>
                 LineOf(t) = [LineOf(s) EXCEPT !.heard = t.heard]
  BY DEF LineOf

(* A tester dials: a line more.                                            *)
LEMMA DialComes ==
    ASSUME ChannelInv, NEW p \in Peers, Dial(p)
    PROVE  Channel!Come(p)
<1>1. sockets \in Seq(Sockets) /\ sockets' = Append(sockets, Dialled(p))
  BY DEF ChannelInv, IInv, Typed, Dial
<1> DEFINE n == Len(sockets)
<1>2. /\ n \in Nat /\ DOMAIN sockets = 1 .. n /\ DOMAIN sockets' = 1 .. n + 1
      /\ \A c \in 1 .. n + 1 :
            sockets'[c] = IF c = n + 1 THEN Dialled(p) ELSE sockets[c]
  BY <1>1
<1>3. LineOf(Dialled(p)) = Channel!Line(p)
  BY DEF LineOf, Dialled, Channel!Line
<1>4. Lines' = [c \in 1 .. n + 1 |-> LineOf(sockets'[c])]
  BY <1>2 DEF Lines
<1>5. Lines = [c \in 1 .. n |-> LineOf(sockets[c])]
  BY <1>2 DEF Lines
<1> DEFINE S == {LineOf(s) : s \in Sockets}
<1>6. Lines \in Seq(S) /\ Len(Lines) = n
  <2>1. \A c \in 1 .. n : sockets[c] \in Sockets
    BY <1>1
  <2> HIDE DEF n
  <2>2. \A c \in 1 .. n : LineOf(sockets[c]) \in S
    BY <2>1
  <2> QED  BY <1>2, <1>5, <2>2
<1>11. Channel!Line(p) \in S
  <2>1. Dialled(p) \in Sockets
    BY DEF Dialled, Sockets
  <2> QED  BY <1>3, <2>1
<1> HIDE DEF n, S
<1>7. Append(Lines, Channel!Line(p)) =
         [c \in 1 .. n + 1 |-> IF c = n + 1 THEN Channel!Line(p) ELSE Lines[c]]
  BY <1>6, <1>11, OneMore
<1>8. \A c \in 1 .. n + 1 :
         LineOf(sockets'[c]) = IF c = n + 1 THEN Channel!Line(p) ELSE Lines[c]
  BY <1>2, <1>3, <1>5
<1>9. Lines' = Append(Lines, Channel!Line(p))
  BY <1>4, <1>7, <1>8
<1>10. Attended' = Attended /\ Pending' = Pending /\ answer' = answer
  BY DEF Dial, serviceVars, Attended, Pending
<1> QED  BY <1>9, <1>10 DEF Channel!Come

(* What only a tester does changes neither attendance nor answers.         *)
LEMMA ServiceRests ==
    ASSUME UNCHANGED serviceVars
    PROVE  Attended' = Attended /\ Pending' = Pending /\ answer' = answer
  BY DEF serviceVars, Attended, Pending

(* A header tells the channel something only if it is the first improper   *)
(* one.                                                                    *)
LEMMA HeaderMisbehaves ==
    ASSUME ChannelInv, NEW c \in DOMAIN sockets, NEW kind \in Kinds,
           SendHeader(c, kind)
    PROVE  Channel!Misbehave(c) \/ UNCHANGED Channel!vars
<1>1. /\ \A d \in DOMAIN sockets : sockets[d] \in Sockets
      /\ \E S : sockets \in [DOMAIN sockets -> S]
  BY ConnectionsTyped DEF ChannelInv, IInv
<1>2. /\ DOMAIN sockets' = DOMAIN sockets /\ UNCHANGED serviceVars
      /\ \A d \in DOMAIN sockets : d # c => sockets'[d] = sockets[d]
  BY <1>1 DEF SendHeader
<1> DEFINE s == sockets[c]
<1>3. /\ sockets'[c].peer = s.peer /\ sockets'[c].ours = s.ours
      /\ sockets'[c].asked = s.asked /\ sockets'[c].heard = s.heard
      /\ sockets'[c].proper = (s.proper /\ kind \in ProperKinds)
  <2>1. sockets'[c].peer = s.peer
    BY <1>1 DEF SendHeader, Sockets
  <2> QED  BY <1>1, <2>1, HeaderChanges
<1>4. s.proper \in BOOLEAN
  BY <1>1, SocketFields
<1>5. CASE sockets'[c].proper = s.proper
  <2>1. LineOf(sockets'[c]) = LineOf(sockets[c])
    BY <1>3, <1>5 DEF LineOf
  <2> QED  BY <1>2, <2>1, LineStays, ServiceRests, ChannelStays
<1>6. CASE sockets'[c].proper # s.proper
  <2>1. sockets'[c].proper = FALSE
    BY <1>3, <1>4, <1>6
  <2>2. LineOf(sockets'[c]) = [LineOf(s) EXCEPT !.proper = FALSE]
    <3>1. LineOf(sockets'[c]) = [LineOf(s) EXCEPT !.proper = sockets'[c].proper]
      BY <1>3, LineWith
    <3> QED  BY <2>1, <3>1, Zenon
  <2>3. Lines' = [Lines EXCEPT ![c] = LineOf(sockets'[c])]
    BY <1>2, LineChanges
  <2>4. Lines[c] = LineOf(s)
    BY DEF Lines
  <2>5. Lines' = [Lines EXCEPT ![c].proper = FALSE]
    <3>1. [Lines EXCEPT ![c].proper = FALSE] =
             [Lines EXCEPT ![c] = [Lines[c] EXCEPT !.proper = FALSE]]
      BY FieldChanges, Zenon
    <3> QED  BY <2>2, <2>3, <2>4, <3>1, Zenon
  <2> QED  BY <1>2, <2>5, ServiceRests DEF Channel!Misbehave
<1> QED  BY <1>5, <1>6

(* A payload tells it of a request, or nothing.                            *)
LEMMA PayloadAsks ==
    ASSUME ChannelInv, NEW c \in DOMAIN sockets, SendPayload(c)
    PROVE  Channel!Ask(c) \/ UNCHANGED Channel!vars
<1>1. /\ \A d \in DOMAIN sockets : sockets[d] \in Sockets
      /\ \E S : sockets \in [DOMAIN sockets -> S]
  BY ConnectionsTyped DEF ChannelInv, IInv
<1>2. /\ DOMAIN sockets' = DOMAIN sockets /\ UNCHANGED serviceVars
      /\ \A d \in DOMAIN sockets : d # c => sockets'[d] = sockets[d]
  BY <1>1 DEF SendPayload
<1> DEFINE s == sockets[c]
<1>3. /\ sockets'[c].peer = s.peer /\ sockets'[c].ours = s.ours
      /\ sockets'[c].proper = s.proper /\ sockets'[c].heard = s.heard
      /\ sockets'[c].asked = IF s.due = "request" THEN Append(s.asked, s.sent)
                             ELSE s.asked
  <2>1. sockets'[c].peer = s.peer
    BY <1>1 DEF SendPayload, Sockets
  <2> QED  BY <1>1, <2>1, PayloadChanges
<1>4. s.asked \in Seq(Nat) /\ s.sent \in Nat
  BY <1>1, SocketFields
<1>5. CASE s.due # "request"
  <2>1. LineOf(sockets'[c]) = LineOf(sockets[c])
    BY <1>3, <1>5 DEF LineOf
  <2> QED  BY <1>2, <2>1, LineStays, ServiceRests, ChannelStays
<1>6. CASE s.due = "request"
  <2> DEFINE more == Append(s.asked, s.sent)
  <2>1. /\ more \in Seq(Nat) /\ more # <<>>
        /\ more[Len(more)] = s.sent
    BY <1>4
  <2>2. LineOf(sockets'[c]) = [LineOf(s) EXCEPT !.asked = more]
    BY <1>3, <1>6, LineWith
  <2>3. Lines' = [Lines EXCEPT ![c] = LineOf(sockets'[c])]
    BY <1>2, LineChanges
  <2>4. Lines[c] = LineOf(s) /\ Lines[c].asked = s.asked /\ c \in DOMAIN Lines
    BY DEF Lines, LineOf
  <2> HIDE DEF more
  <2>5. Lines' = [Lines EXCEPT ![c].asked = more]
    <3>1. [Lines EXCEPT ![c].asked = more] =
             [Lines EXCEPT ![c] = [Lines[c] EXCEPT !.asked = more]]
      BY FieldChanges, Zenon
    <3> QED  BY <2>2, <2>3, <2>4, <3>1, Zenon
  <2>6. Lines'[c].asked = more
    <3>1. Lines'[c] = LineOf(sockets'[c])
      BY <1>2 DEF Lines
    <3> QED  BY <1>3, <1>6, <3>1 DEF LineOf, more
  <2>7. more = Append(Lines[c].asked, more[Len(more)])
    BY <2>1, <2>4 DEF more
  <2> QED  BY <1>2, <2>1, <2>5, <2>6, <2>7, ServiceRests DEF Channel!Ask
<1> QED  BY <1>5, <1>6

(* Hanging up is nothing the channel knows of.                             *)
LEMMA HangUpUnseen ==
    ASSUME ChannelInv, NEW c \in DOMAIN sockets, HangUp(c)
    PROVE  UNCHANGED Channel!vars
<1>1. /\ \A d \in DOMAIN sockets : sockets[d] \in Sockets
      /\ \E S : sockets \in [DOMAIN sockets -> S]
  BY ConnectionsTyped DEF ChannelInv, IInv
<1>2. /\ DOMAIN sockets' = DOMAIN sockets /\ UNCHANGED serviceVars
      /\ \A d \in DOMAIN sockets : d # c => sockets'[d] = sockets[d]
  BY <1>1 DEF HangUp
<1>3. LineOf(sockets'[c]) = LineOf(sockets[c])
  BY <1>1 DEF HangUp, LineOf, Sockets
<1> QED  BY <1>2, <1>3, LineStays, ServiceRests, ChannelStays


-----------------------------------------------------------------------------
(* The thread's steps at its own connection.                               *)

(* What it takes from the socket, the channel has no line for.             *)
LEMMA ReadingUnseen ==
    ASSUME Typed, client_fd \in DOMAIN sockets, NEW rest,
           \/ sockets' = [sockets EXCEPT ![client_fd].inbox = rest]
           \/ sockets' = [sockets EXCEPT ![client_fd].inbox = rest,
                                         ![client_fd].activated = TRUE]
    PROVE  Lines' = Lines
<1>1. /\ \A d \in DOMAIN sockets : sockets[d] \in Sockets
      /\ \E S : sockets \in [DOMAIN sockets -> S]
  BY ConnectionsTyped
<1>2. /\ DOMAIN sockets' = DOMAIN sockets
      /\ \A d \in DOMAIN sockets : d # client_fd => sockets'[d] = sockets[d]
  BY <1>1
<1> DEFINE s == sockets[client_fd]
<1>3. \/ sockets'[client_fd] = [s EXCEPT !.inbox = rest]
      \/ sockets'[client_fd] = [s EXCEPT !.inbox = rest, !.activated = TRUE]
  BY <1>1
<1>4. s \in Sockets
  BY <1>1
<1> HIDE DEF s
<1>5. /\ sockets'[client_fd].peer = s.peer /\ sockets'[client_fd].ours = s.ours
      /\ sockets'[client_fd].proper = s.proper
      /\ sockets'[client_fd].asked = s.asked /\ sockets'[client_fd].heard = s.heard
  BY <1>3, <1>4 DEF Sockets
<1>6. LineOf(sockets'[client_fd]) = LineOf(s)
  BY <1>5 DEF LineOf
<1> QED  BY <1>2, <1>6, LineStays DEF s

(* Closing ends the attendance, and no line has waited for it.             *)
LEMMA ClosingUnseen ==
    ASSUME ChannelInv, close_client_locked
    PROVE  Lines' = Lines /\ Attended' = 0
<1>1. /\ \A d \in DOMAIN sockets : sockets[d] \in Sockets
      /\ \E S : sockets \in [DOMAIN sockets -> S]
      /\ client_fd # 0 => client_fd \in DOMAIN sockets
  BY ConnectionsTyped DEF ChannelInv, IInv
<1>2. Attended' = 0
  BY DEF close_client_locked, Attended
<1>3. CASE client_fd = 0
  BY <1>2, <1>3 DEF close_client_locked, Lines
<1>4. CASE client_fd # 0
  <2>1. sockets' = [sockets EXCEPT ![client_fd].ours = "closed"]
    BY <1>4 DEF close_client_locked
  <2>2. /\ DOMAIN sockets' = DOMAIN sockets
        /\ \A d \in DOMAIN sockets : d # client_fd => sockets'[d] = sockets[d]
    BY <1>1, <2>1
  <2>3. Client.ours # "queued"
    BY <1>4 DEF ChannelInv, ClientAccepted
  <2>4. LineOf(sockets'[client_fd]) = LineOf(sockets[client_fd])
    BY <1>1, <1>4, <2>1, <2>3 DEF LineOf, Sockets, Client
  <2> QED  BY <1>1, <1>2, <1>4, <2>2, <2>4, LineStays
<1> QED  BY <1>3, <1>4

(* No request is pending unless the thread is answering it.                *)
LEMMA NothingPending ==
    /\ doing.at # "answering" => Pending = Channel!Nothing
    /\ doing'.at # "answering" => Pending' = Channel!Nothing
    /\ Idle.at = "idle"
  BY DEF Pending, Channel!Nothing, Idle

(* A line whose connection has been accepted.                              *)
LEMMA LineAttended ==
    ASSUME NEW s, NEW t, t.peer = s.peer, t.proper = s.proper,
           t.asked = s.asked, t.heard = s.heard
    PROVE  LineOf(t) = [LineOf(s) EXCEPT !.waiting = (t.ours = "queued")]
  BY DEF LineOf

(* accept attends to the oldest of the lines that wait.                    *)
LEMMA AcceptAttends ==
    ASSUME ChannelInv, accept
    PROVE  \E c \in DOMAIN Lines : Channel!Attend(c)
<1>1. /\ \A d \in DOMAIN sockets : sockets[d] \in Sockets
      /\ \E S : sockets \in [DOMAIN sockets -> S]
  BY ConnectionsTyped DEF ChannelInv, IInv
<1>2. PICK c \in Queued : /\ \A d \in Queued : c <= d
                          /\ sockets' = [sockets EXCEPT ![c].ours = "open"]
                          /\ client_fd' = c
  BY DEF accept
<1>3. c \in DOMAIN sockets /\ sockets[c].ours = "queued"
  BY <1>2 DEF Queued
<1>4. /\ Attended = 0 /\ Attended' = c /\ answer' = answer
      /\ Pending = Channel!Nothing /\ Pending' = Channel!Nothing
  BY <1>2, NothingPending DEF accept, Attended
<1>5. Channel!Waiting = Queued /\ DOMAIN Lines = DOMAIN sockets
  BY DEF Channel!Waiting, Queued, Lines, LineOf
<1>6. Lines' = [Lines EXCEPT ![c].waiting = FALSE]
  <2>1. /\ DOMAIN sockets' = DOMAIN sockets
        /\ \A d \in DOMAIN sockets : d # c => sockets'[d] = sockets[d]
    BY <1>1, <1>2, <1>3
  <2>2. LineOf(sockets'[c]) = [LineOf(sockets[c]) EXCEPT !.waiting = FALSE]
    <3> DEFINE s == sockets[c]
    <3>1. sockets'[c] = [s EXCEPT !.ours = "open"] /\ s \in Sockets
      BY <1>1, <1>2, <1>3
    <3> HIDE DEF s
    <3>2. /\ sockets'[c].peer = s.peer /\ sockets'[c].ours = "open"
          /\ sockets'[c].proper = s.proper
          /\ sockets'[c].asked = s.asked /\ sockets'[c].heard = s.heard
      BY <3>1 DEF Sockets
    <3> DEFINE v == sockets'[c].ours = "queued"
    <3>3. LineOf(sockets'[c]) = [LineOf(s) EXCEPT !.waiting = v]
      BY <3>2, LineAttended
    <3>4. v = FALSE
      BY <3>2
    <3> HIDE DEF v
    <3>5. LineOf(sockets'[c]) = [LineOf(s) EXCEPT !.waiting = FALSE]
      BY <3>3, <3>4, Zenon
    <3> QED  BY <3>5 DEF s
  <2>3. Lines' = [Lines EXCEPT ![c] = LineOf(sockets'[c])]
    BY <1>3, <2>1, LineChanges
  <2>4. Lines[c] = LineOf(sockets[c])
    BY <1>3 DEF Lines
  <2>5. [Lines EXCEPT ![c].waiting = FALSE] =
           [Lines EXCEPT ![c] = [Lines[c] EXCEPT !.waiting = FALSE]]
    BY FieldChanges, Zenon
  <2> QED  BY <2>2, <2>3, <2>4, <2>5, Zenon
<1>7. Channel!Attend(c)
  BY <1>2, <1>4, <1>5, <1>6 DEF Channel!Attend
<1> QED  BY <1>3, <1>5, <1>7

(* A handshake that fails, a tester that has hung up, and a shutdown end   *)
(* the attendance; so does the last of them where there was none.          *)
LEMMA EndingLeaves ==
    ASSUME ChannelInv,
           handshake_no_header \/ handshake_refused \/ receive_hang_up \/ disconnect
    PROVE  Channel!Leave \/ UNCHANGED Channel!vars
<1>1. /\ Lines' = Lines /\ Attended' = 0 /\ answer' = answer
  <2>1. CASE receive_hang_up
    BY <2>1 DEF receive_hang_up, Lines, Attended
  <2>2. CASE handshake_no_header \/ handshake_refused \/ disconnect
    <3>1. close_client_locked /\ answer' = answer
      BY <2>2 DEF handshake_no_header, handshake_refused, disconnect
    <3> QED  BY <3>1, ClosingUnseen
  <2> QED  BY <2>1, <2>2
<1>2. Pending = Channel!Nothing /\ Pending' = Channel!Nothing
  <2>1. doing.at # "answering" /\ doing'.at # "answering"
    BY NothingPending
    DEF handshake_no_header, handshake_refused, receive_hang_up, disconnect
  <2> QED  BY <2>1, NothingPending
<1>3. CASE Attended = 0
  BY <1>1, <1>2, <1>3, ChannelStays
<1>4. CASE Attended # 0
  BY <1>1, <1>2, <1>4 DEF Channel!Leave
<1> QED  BY <1>3, <1>4

(* Reading a frame that is no request tells the channel nothing.           *)
LEMMA ReadingRests ==
    ASSUME ChannelInv,
           \/ handshake_header \/ handshake_activation \/ receive_header
           \/ receive_no_payload \/ receive_activation
    PROVE  UNCHANGED Channel!vars
<1>1. connected \/ doing.at # "idle"
  BY DEF handshake_header, handshake_activation, receive_header,
         receive_no_payload, receive_activation, PayloadCame
<1>2. client_fd \in DOMAIN sockets /\ Typed
  BY <1>1, Attending DEF ChannelInv, IInv
<1>3. Lines' = Lines
  <2>1. CASE handshake_header \/ receive_header \/ receive_activation
    <3>1. sockets' = [sockets EXCEPT ![client_fd].inbox = Tail(Client.inbox)]
      BY <2>1 DEF handshake_header, receive_header, receive_activation
    <3> QED  BY <1>2, <3>1, ReadingUnseen
  <2>2. CASE handshake_activation
    <3>1. \E rest : sockets' = [sockets EXCEPT ![client_fd].inbox = rest,
                                               ![client_fd].activated = TRUE]
      BY <2>2 DEF handshake_activation
    <3> QED  BY <1>2, <3>1, ReadingUnseen
  <2>3. CASE receive_no_payload
    BY <2>3 DEF receive_no_payload, Lines
  <2> QED  BY <2>1, <2>2, <2>3
<1>4. /\ Attended' = Attended /\ answer' = answer
      /\ doing.at # "answering" /\ doing'.at # "answering"
  <2>1. CASE handshake_header
    BY <2>1 DEF handshake_header, Attended
  <2>2. CASE handshake_activation
    BY <2>2, NothingPending DEF handshake_activation, Attended
  <2>3. CASE receive_header
    BY <2>3, NothingPending DEF receive_header, Attended
  <2>4. CASE receive_no_payload
    BY <2>4, NothingPending DEF receive_no_payload, Attended
  <2>5. CASE receive_activation
    BY <2>5, NothingPending DEF receive_activation, PayloadCame, Attended
  <2> QED  BY <2>1, <2>2, <2>3, <2>4, <2>5
<1> QED  BY <1>3, <1>4, NothingPending, ChannelStays

-----------------------------------------------------------------------------
(* Requests, and their answers.                                            *)

(* remote_address_ is a tester's, or what the constructor set.             *)
AddressKnown == remote_address \in Peers \cup {NoAddress}

(* receive takes the address from the connection it reads.                 *)
LEMMA AddressStep == IInv /\ AddressKnown /\ [Next]_vars => AddressKnown'
<1> SUFFICES ASSUME IInv, AddressKnown, [Next]_vars PROVE AddressKnown'
  OBVIOUS
<1>1. CASE receive_request
  <2>1. doing.at = "payload" /\ remote_address' = Client.peer
    BY <1>1 DEF receive_request, PayloadCame
  <2>2. Client \in Sockets
    BY <2>1, Doing, AtWork DEF IInv
  <2> QED  BY <2>1, <2>2 DEF AddressKnown, Sockets
<1>2. CASE ~receive_request
  <2>1. remote_address' = remote_address
    BY <1>2
    DEF Next, vars, Dial, SendHeader, SendPayload, HangUp, serviceVars,
        Connect, accept, handshake_no_header, handshake_header,
        handshake_activation, handshake_refused, Receive, receive_hang_up,
        receive_header, receive_remains, receive_no_payload,
        receive_activation, receive_short, send, disconnect
  <2> QED  BY <2>1 DEF AddressKnown
<1> QED  BY <1>1, <1>2

(* A payload where a header is expected has not come from a tester that    *)
(* sends nothing improper.                                                 *)
LEMMA RemainsImproper ==
    ASSUME ChannelInv, receive_remains PROVE ~Client.proper
<1> SUFFICES ASSUME Client.proper PROVE FALSE
  OBVIOUS
<1>1. /\ connected /\ doing.at = "idle" /\ Client.inbox # <<>>
      /\ Head(Client.inbox).part = "payload"
  BY NothingPending DEF receive_remains
<1>2. /\ client_fd \in DOMAIN sockets /\ Client \in Sockets
      /\ Client.ours = "open"
  BY <1>1, Attending
<1>3. Alternates(client_fd)
  BY <1>2 DEF ChannelInv, IInv, ProperAlternate, Client
<1>4. HeaderRead(client_fd) = FALSE
  BY <1>1 DEF HeaderRead
<1>5. Alternating(Client.inbox, Client.up, Client.due, FALSE)
  BY <1>3, <1>4 DEF Alternates, Client
<1>6. Client.inbox \in Seq(Parts) /\ Client.up \in BOOLEAN
  BY <1>2, SocketFields
<1>7. Head(Client.inbox).part = "header"
  BY <1>1, <1>5, <1>6, PartTaken
<1> QED  BY <1>1, <1>7

(* Nor has a message of no more than the addresses.                        *)
LEMMA ShortImproper ==
    ASSUME ChannelInv, receive_short PROVE ~Client.proper
<1> SUFFICES ASSUME Client.proper PROVE FALSE
  OBVIOUS
<1>1. doing.at = "payload" /\ doing.kind = "short"
  BY DEF receive_short, PayloadCame
<1>2. client_fd \in DOMAIN sockets /\ Client.ours = "open"
  BY <1>1, Attending
<1>3. Alternates(client_fd) /\ HeaderRead(client_fd)
  BY <1>1, <1>2 DEF ChannelInv, IInv, ProperAlternate, HeaderRead, Client
<1>4. doing.kind \in ProperKinds
  BY <1>3 DEF Alternates
<1> QED  BY <1>1, <1>4 DEF ProperKinds

(* What comes of an improper message is delivered from an improper tester, *)
(* or nothing is.                                                          *)
LEMMA ImproperDelivers ==
    ASSUME ChannelInv, receive_remains \/ receive_short
    PROVE  Channel!Deliver \/ UNCHANGED Channel!vars
<1>1. /\ connected \/ doing.at # "idle"
      /\ doing.at # "answering"
      /\ UNCHANGED <<client_fd, connected, answer>>
      /\ sockets' = [sockets EXCEPT ![client_fd].inbox = Tail(Client.inbox)]
      /\ doing' \in {Idle, [at |-> "answering", frame |-> 0]}
  BY NothingPending DEF receive_remains, receive_short, PayloadCame
<1>2. /\ client_fd \in DOMAIN sockets /\ client_fd # 0
      /\ Attended = client_fd /\ Typed
  BY <1>1, Attending DEF ChannelInv, IInv
<1>3. Lines' = Lines
  BY <1>1, <1>2, ReadingUnseen
<1>4. Attended' = Attended /\ answer' = answer
  BY <1>1 DEF Attended
<1>5. Pending = Channel!Nothing
  BY <1>1, NothingPending
<1>6. CASE doing' = Idle
  <2>1. Pending' = Channel!Nothing
    BY <1>6, NothingPending
  <2> QED  BY <1>3, <1>4, <1>5, <2>1, ChannelStays
<1>7. CASE doing' = [at |-> "answering", frame |-> 0]
  <2>1. Pending' = [fd |-> client_fd, frame |-> 0]
    BY <1>1, <1>7 DEF Pending
  <2>2. Pending' \in [fd : {Attended}, frame : Nat]
    BY <1>2, <2>1
  <2>3. ~Lines[Attended].proper
    BY <1>2, RemainsImproper, ShortImproper DEF Lines, LineOf, Client
  <2> QED
    BY <1>2, <1>3, <1>4, <1>5, <2>2, <2>3 DEF Channel!Deliver
<1> QED  BY <1>1, <1>6, <1>7

(* The last of those that were heard is the one that was asked next.       *)
LEMMA BegunSoFar ==
    ASSUME NEW heard \in Seq(Nat), NEW asked \in Seq(Nat), NEW frame \in Nat,
           Begins(Append(heard, frame), asked)
    PROVE  Len(heard) < Len(asked) /\ frame = asked[Len(heard) + 1]
<1> DEFINE all == Append(heard, frame)
<1>1. /\ Len(heard) \in Nat /\ Len(asked) \in Nat
      /\ Len(all) = Len(heard) + 1 /\ DOMAIN all = 1 .. Len(heard) + 1
      /\ all[Len(heard) + 1] = frame
  OBVIOUS
<1> HIDE DEF all
<1>2. Len(all) <= Len(asked) /\ \A i \in DOMAIN all : all[i] = asked[i]
  BY DEF Begins, all
<1>3. Len(heard) + 1 \in DOMAIN all
  BY <1>1
<1>4. all[Len(heard) + 1] = asked[Len(heard) + 1]
  BY <1>2, <1>3
<1> QED  BY <1>1, <1>2, <1>4

(* A request is delivered as the channel promises.                         *)
LEMMA RequestDelivers ==
    ASSUME ChannelInv, IInv', receive_request
    PROVE  Channel!Deliver
<1> DEFINE frame == Head(Client.inbox).frame
           s     == sockets[client_fd]
           t     == sockets'[client_fd]
<1>1. /\ doing.at = "payload" /\ Client.inbox # <<>>
      /\ UNCHANGED <<client_fd, connected, answer>>
      /\ doing' = [at |-> "answering", frame |-> frame]
      /\ sockets' = [sockets EXCEPT ![client_fd].inbox = Tail(Client.inbox),
                                    ![client_fd].heard = Append(Client.heard, frame)]
  BY DEF receive_request, PayloadCame
<1>2. /\ client_fd \in DOMAIN sockets /\ client_fd # 0
      /\ s \in Sockets /\ Attended = client_fd
  BY <1>1, Attending DEF Client
<1>3. /\ \A d \in DOMAIN sockets : sockets[d] \in Sockets
      /\ \E S : sockets \in [DOMAIN sockets -> S]
  BY ConnectionsTyped DEF ChannelInv, IInv
<1>4. frame \in Nat
  BY <1>1, <1>2, InboxPart DEF Client
<1>5. /\ DOMAIN sockets' = DOMAIN sockets
      /\ \A d \in DOMAIN sockets : d # client_fd => sockets'[d] = sockets[d]
      /\ t = [s EXCEPT !.inbox = Tail(s.inbox), !.heard = Append(s.heard, frame)]
  BY <1>1, <1>2, <1>3 DEF Client
<1>6. s.heard \in Seq(Nat) /\ s.asked \in Seq(Nat)
  BY <1>2, SocketFields
<1> HIDE DEF frame
<1>7. /\ t.peer = s.peer /\ t.ours = s.ours /\ t.proper = s.proper
      /\ t.asked = s.asked /\ t.heard = Append(s.heard, frame)
  <2> DEFINE rest == Tail(s.inbox)
             more == Append(s.heard, frame)
  <2> HIDE DEF rest, more
  <2>1. t = [s EXCEPT !.inbox = rest, !.heard = more]
    BY <1>5 DEF rest, more
  <2> HIDE DEF s, t
  <2>2. /\ t.peer = s.peer /\ t.ours = s.ours /\ t.proper = s.proper
        /\ t.asked = s.asked /\ t.heard = more
    BY <1>2, <2>1 DEF Sockets
  <2> QED  BY <2>2 DEF more
<1>8. /\ Attended' = Attended /\ answer' = answer
      /\ Pending = Channel!Nothing
      /\ Pending' = [fd |-> client_fd, frame |-> frame]
  BY <1>1, NothingPending DEF Attended, Pending
<1>9. Lines' = [Lines EXCEPT ![client_fd].heard = t.heard]
  <2>1. LineOf(t) = [LineOf(s) EXCEPT !.heard = t.heard]
    BY <1>7, LineWith
  <2>2. Lines' = [Lines EXCEPT ![client_fd] = LineOf(t)]
    BY <1>2, <1>5, LineChanges
  <2>3. Lines[client_fd] = LineOf(s)
    BY <1>2 DEF Lines
  <2> HIDE DEF s, t
  <2>4. [Lines EXCEPT ![client_fd].heard = t.heard] =
           [Lines EXCEPT ![client_fd] = [Lines[client_fd] EXCEPT !.heard = t.heard]]
    BY FieldChanges, Zenon
  <2> QED  BY <2>1, <2>2, <2>3, <2>4, Zenon
<1>10. ASSUME s.proper
       PROVE  Len(s.heard) < Len(s.asked) /\ frame = s.asked[Len(s.heard) + 1]
  <2>1. Begins(t.heard, t.asked)
    BY <1>2, <1>5, <1>7, <1>10 DEF IInv, ProperOrdered, Ordered
  <2>2. Begins(Append(s.heard, frame), s.asked)
    BY <1>7, <2>1
  <2> QED  BY <1>4, <1>6, <2>2, BegunSoFar
<1>11. /\ Lines[Attended].proper = s.proper /\ Lines[Attended].heard = s.heard
       /\ Lines[Attended].asked = s.asked
  BY <1>2 DEF Lines, LineOf
<1>12. Pending' \in [fd : {Attended}, frame : Nat] /\ Pending'.frame = frame
  BY <1>2, <1>4, <1>8
<1>13. Lines' = [Lines EXCEPT ![Attended].heard =
                    Append(Lines[Attended].heard, Pending'.frame)]
  BY <1>2, <1>7, <1>9, <1>11, <1>12, Zenon
<1> HIDE DEF s, t
<1>14. Lines[Attended].proper =>
          /\ Len(Lines[Attended].heard) < Len(Lines[Attended].asked)
          /\ Pending'.frame = Lines[Attended].asked[Len(Lines[Attended].heard) + 1]
  BY <1>10, <1>11, <1>12
<1> QED
  BY <1>2, <1>8, <1>12, <1>13, <1>14 DEF Channel!Deliver

(* send answers the request that is being served, to its tester, or does   *)
(* not answer it.                                                          *)
LEMMA SendAnswers ==
    ASSUME ChannelInv, AddressKnown, send
    PROVE  Channel!Drop \/ \E t \in Peers \cup {NoAddress} : Channel!Answer(t)
<1>1. /\ doing.at = "answering" /\ doing' = Idle
      /\ UNCHANGED <<sockets, client_fd, connected>>
      /\ answer' \in {answer, [fd |-> client_fd, to |-> remote_address,
                               frame |-> doing.frame]}
  BY DEF send
<1>2. client_fd \in DOMAIN sockets /\ client_fd # 0
  BY <1>1, Attending
<1>3. /\ Pending = [fd |-> client_fd, frame |-> doing.frame]
      /\ Pending' = Channel!Nothing
  BY <1>1, NothingPending DEF Pending
<1>4. Pending # Channel!Nothing /\ Pending.fd = client_fd
      /\ Pending.frame = doing.frame
  BY <1>2, <1>3 DEF Channel!Nothing
<1>5. Lines' = Lines /\ Attended' = Attended
  BY <1>1 DEF Lines, Attended
<1>6. CASE answer' = answer
  BY <1>3, <1>4, <1>5, <1>6 DEF Channel!Drop
<1>7. CASE answer' = [fd |-> client_fd, to |-> remote_address,
                      frame |-> doing.frame]
  <2>1. Lines[client_fd].proper => remote_address = Lines[client_fd].peer
    BY <1>1, <1>2
    DEF Lines, LineOf, ChannelInv, IInv, AnsweringTheLast, Client
  <2>2. Channel!Answer(remote_address)
    BY <1>3, <1>4, <1>5, <1>7, <2>1 DEF Channel!Answer
  <2> QED  BY <2>2 DEF AddressKnown
<1> QED  BY <1>1, <1>6, <1>7

-----------------------------------------------------------------------------
(* So every step is one of the channel's.                                  *)

(* Whoever takes it, with the invariants that its parts rest on.           *)
LEMMA ChannelStep ==
    ASSUME ChannelInv, AddressKnown, IInv', [Next]_vars
    PROVE  [Channel!Next]_(Channel!vars)
<1>1. DOMAIN Lines = DOMAIN sockets
  BY DEF Lines
<1>2. CASE \E p \in Peers : Dial(p)
  BY <1>2, DialComes DEF Channel!Next
<1>3. ASSUME NEW c \in DOMAIN sockets,
             (\E kind \in Kinds : SendHeader(c, kind)) \/ SendPayload(c) \/ HangUp(c)
      PROVE  [Channel!Next]_(Channel!vars)
  BY <1>1, <1>3, HeaderMisbehaves, PayloadAsks, HangUpUnseen DEF Channel!Next
<1>4. CASE accept
  BY <1>4, AcceptAttends DEF Channel!Next
<1>5. CASE handshake_no_header \/ handshake_refused \/ receive_hang_up \/ disconnect
  BY <1>5, EndingLeaves DEF Channel!Next
<1>6. CASE \/ handshake_header \/ handshake_activation \/ receive_header
           \/ receive_no_payload \/ receive_activation
  BY <1>6, ReadingRests
<1>7. CASE receive_remains \/ receive_short
  BY <1>7, ImproperDelivers DEF Channel!Next
<1>8. CASE receive_request
  BY <1>8, RequestDelivers DEF Channel!Next
<1>9. CASE send
  BY <1>9, SendAnswers DEF Channel!Next
<1>10. CASE UNCHANGED vars
  BY <1>10 DEF vars, Channel!vars, Lines, Attended, Pending
<1> QED
  BY <1>2, <1>3, <1>4, <1>5, <1>6, <1>7, <1>8, <1>9, <1>10
  DEF Next, Connect, Receive

(* doip_adapter.cpp, for a tester that knows nothing of sockets: it is     *)
(* attended to in its turn; while it sends nothing improper its requests   *)
(* are delivered once each and in their order, whoever else sends what,    *)
(* and the answer to each goes to it and on its own connection before the  *)
(* next one is read.                                                       *)
THEOREM AdapterImplementsChannel == Spec => ImplementsChannel
<1>1. Init => BusyConnected /\ ClientAccepted /\ AddressKnown /\ Channel!Init
  <2> SUFFICES ASSUME Init
               PROVE  BusyConnected /\ ClientAccepted /\ AddressKnown /\ Channel!Init
    OBVIOUS
  <2>1. BusyConnected /\ ClientAccepted /\ AddressKnown
    BY DEF Init, BusyConnected, ClientAccepted, AddressKnown
  <2>2. Lines = <<>>
    BY DEF Init, Lines
  <2>3. Attended = 0 /\ Pending = Channel!Nothing
    BY NothingPending DEF Init, Attended
  <2> QED  BY <2>1, <2>2, <2>3 DEF Init, NoAnswer, Channel!Init
<1>2. /\ IInv /\ BusyConnected /\ ClientAccepted /\ AddressKnown /\ [Next]_vars
      => BusyConnected' /\ ClientAccepted' /\ AddressKnown'
  BY BusyStep, AcceptedStep, AddressStep DEF IInv
<1>3. /\ IInv /\ BusyConnected /\ ClientAccepted /\ AddressKnown /\ IInv'
      /\ [Next]_vars
      => [Channel!Next]_(Channel!vars)
  BY ChannelStep DEF ChannelInv
<1> QED
  BY <1>1, <1>2, <1>3, Invariant, PTL DEF Spec, ImplementsChannel, Channel!Spec
=============================================================================
