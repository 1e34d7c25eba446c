---------------------------- MODULE SessionProofs ----------------------------
(***************************************************************************)
(* Proofs about the request protocol: a proposal gets at most one grant,   *)
(* and what a call returns is true of that call.                           *)
(*                                                                         *)
(* The argument: a call's number identifies its request, so no answer to   *)
(* an earlier call can be taken for the answer to the call that waits; the *)
(* worker dispatches a request only if its sequence is above the last one  *)
(* it dispatched, so a call that has been answered, or that created a      *)
(* grant, is never dispatched again; and the worker refuses a repeated     *)
(* request only behind what it sent for its first copy, which the client   *)
(* reads first, be it the answer or a frame that makes its decoder fail.   *)
(***************************************************************************)
EXTENDS Session, TLAPS

Frames(s) == {s[k] : k \in 1 .. Len(s)}

Statuses == {"Ok", "Duplicate", "Refused"}
Inconclusive == {"Unavailable", "LimitExceeded", "Conflicting", "Corrupt"}
RequestFrame == [type : {"Request"}, seq : Nat, id : Ids]
ReplyFrame   == [type : {"Reply"}, seq : Nat, id : Ids, 
                 status : Statuses \cup {"LimitExceeded"}]
ToServer == RequestFrame \cup {Hello, Torn}
ToClient == ReplyFrame \cup {HelloAck, ErrorReply, Oversized}

TypeOK ==
    /\ client \in {"Closed", "Connecting", "Connected"}
    /\ conn \in 0 .. MaxConnections
    /\ sequence \in Nat
    /\ calls \in 0 .. MaxCalls
    /\ outstanding \in {0, calls}
    /\ DOMAIN proposal = Ids
    /\ outcome \in [Ids -> Statuses \cup Inconclusive \cup {"None"}]
    /\ to_server \in [Conns -> Seq(ToServer)]
    /\ to_client \in [Conns -> Seq(ToClient)]
    /\ worker \in [Conns -> {"None", "Hello", "Session", "Closed"}]
    /\ last_session_sequence \in [Conns -> Nat]
    /\ granted \subseteq 1 .. calls

\* The requests on their way to the server on connection c.
Requests(c) == Frames(to_server[c]) \cap RequestFrame

\* Frame k of what the client has yet to read on its connection answers the call
\* that waits.
IsAnswer(k) == to_client[conn][k] \in ReplyFrame /\ to_client[conn][k].id = outstanding

\* The client reads no further than frame k for the call that waits.
Ends(k) == IsAnswer(k) \/ to_client[conn][k] = Oversized

\* The positions of what the client has yet to read.
Unread(c) == 1 .. Len(to_client[c])

\* A connection that was not made yet carries nothing; a handshake is answered
\* once, before anything else, and its answer is read before the first call.
HandshakeFirst ==
    /\ outstanding # 0 => client = "Connected"
    /\ client # "Closed" => conn # 0
    /\ \A c \in Conns :
          /\ c > conn => /\ worker[c] = "None" /\ to_server[c] = <<>>
                         /\ last_session_sequence[c] = 0
          /\ worker[c] \in {"None", "Hello"} => to_client[c] = <<>>
          /\ \A k \in Unread(c) : to_client[c][k] = HelloAck => k = 1
    /\ client = "Connected" =>
          /\ worker[conn] \notin {"None", "Hello"}
          /\ \A k \in Unread(conn) : to_client[conn][k] # HelloAck

\* Calls are numbered in order, the sequence of a connection is never behind what
\* was sent on it, and a request of the call that waits is on the client's
\* connection and carries its sequence.
Numbered ==
    /\ \A c \in Conns : \A r \in Requests(c) : r.id <= calls
    /\ \A c \in Conns : \A k \in Unread(c) :
          to_client[c][k] \in ReplyFrame => to_client[c][k].id <= calls
    /\ conn # 0 =>
          /\ last_session_sequence[conn] <= sequence
          /\ \A r \in Requests(conn) : r.seq <= sequence
    /\ \A i \in Ids : i > calls => outcome[i] = "None"
    /\ outstanding # 0 =>
          /\ outcome[outstanding] = "None"
          /\ \A c \in Conns : \A r \in Requests(c) :
                r.id = outstanding <=> c = conn /\ r.seq = sequence

\* No worker will dispatch call i any more.
Settled(i) ==
    \A c \in Conns : \A r \in Requests(c) : r.id = i => r.seq <= last_session_sequence[c]

\* What a status says about the call it answers.
True(status, i) ==
    /\ status = "Ok" => i \in granted
    /\ status = "Duplicate" => i \notin granted /\ Proposed(i)
    /\ status = "Refused" => i \notin granted

\* A call that returned the daemon's answer is settled.
ReturnedSettled == \A i \in Ids : outcome[i] \in Statuses => Settled(i)

\* The call that waits was dispatched if it created a grant or has an answer; once
\* it was dispatched there is an answer, or a frame that the client cannot read, as
\* long as its worker lives; and the first answer, if the client gets to it, is true.
FirstAnswerTrue ==
    outstanding # 0 =>
        /\ outstanding \in granted => sequence <= last_session_sequence[conn]
        /\ \A k \in Unread(conn) : IsAnswer(k) => sequence <= last_session_sequence[conn]
        /\ worker[conn] = "Session" /\ sequence <= last_session_sequence[conn]
              => \E k \in Unread(conn) : Ends(k)
        /\ \A k \in Unread(conn) :
              IsAnswer(k) => \/ \E j \in Unread(conn) : j < k /\ Ends(j)
                             \/ True(to_client[conn][k].status, outstanding)

IInv ==
    /\ TypeOK
    /\ HandshakeFirst
    /\ Numbered
    /\ ReturnedSettled
    /\ FirstAnswerTrue
    /\ OneGrantPerProposal
    /\ OutcomesTrue

------------------------------------------------------------------------------
(* Frames and queues *)

\* A request or a reply is none of the other frames.
LEMMA FrameKinds ==
    /\ Hello \notin RequestFrame /\ Torn \notin RequestFrame
    /\ HelloAck \notin ReplyFrame /\ ErrorReply \notin ReplyFrame
    /\ HelloAck # ErrorReply /\ HelloAck # Oversized /\ Oversized \notin ReplyFrame
    /\ \A f \in ToServer : f.type = "Request" => f \in RequestFrame
<1>1. Hello.type = "Hello" /\ Torn.type = "Torn" /\ HelloAck.type = "HelloAck"
      /\ ErrorReply.type = "Error" /\ Oversized.type = "Oversized"
    BY DEF Hello, Torn, HelloAck, ErrorReply, Oversized
<1>2. (\A f \in RequestFrame : f.type = "Request") /\ (\A f \in ReplyFrame : f.type = "Reply")
    BY DEF RequestFrame, ReplyFrame
<1> QED
    BY <1>1, <1>2 DEF ToServer

\* What a request and a reply are made of.
LEMMA FrameFields ==
    /\ \A q \in Nat, i \in Ids : /\ Request(q, i) \in RequestFrame
                                /\ Request(q, i).seq = q /\ Request(q, i).id = i
    /\ \A q \in Nat, i \in Ids, s \in Statuses :
          /\ Reply(q, i, s) \in ReplyFrame
          /\ Reply(q, i, s).seq = q /\ Reply(q, i, s).id = i /\ Reply(q, i, s).status = s
    /\ \A r \in RequestFrame : r.seq \in Nat /\ r.id \in Ids /\ r.type = "Request"
    /\ \A r \in ReplyFrame : r.seq \in Nat /\ r.id \in Ids
    /\ \A r \in ReplyFrame : r.status \in Statuses \cup {"LimitExceeded"}
    /\ ErrorReply.id = 0
BY DEF Request, Reply, RequestFrame, ReplyFrame, ErrorReply

\* What is sent for a reply: the reply, an error in its place, or what the client
\* cannot read.
LEMMA SentFrames ==
    ASSUME NEW q \in Nat, NEW i \in Ids, NEW s \in Statuses,
           NEW f \in Sent(Reply(q, i, s)) \cup SentInstead(Reply(q, i, s))
    PROVE  \/ f = Oversized
           \/ f \in ReplyFrame /\ f.id = i /\ f.status \in {s, "LimitExceeded"}
<1>1. /\ [Reply(q, i, s) EXCEPT !.status = "LimitExceeded"] \in ReplyFrame
      /\ [Reply(q, i, s) EXCEPT !.status = "LimitExceeded"].id = i
      /\ [Reply(q, i, s) EXCEPT !.status = "LimitExceeded"].status = "LimitExceeded"
    BY DEF Reply, ReplyFrame
<1>2. f \in {Reply(q, i, s), Oversized, [Reply(q, i, s) EXCEPT !.status = "LimitExceeded"]}
    BY DEF Sent, SentInstead
<1>3. Reply(q, i, s) \in ReplyFrame /\ Reply(q, i, s).id = i /\ Reply(q, i, s).status = s
    BY FrameFields
<1> QED
    BY <1>1, <1>2, <1>3

\* A queue with one more frame at its end.
LEMMA Appended ==
    ASSUME NEW S, NEW s \in Seq(S), NEW e \in S
    PROVE  /\ Append(s, e) \in Seq(S)
           /\ Len(s) \in Nat /\ Len(Append(s, e)) = Len(s) + 1
           /\ \A k \in 1 .. Len(s) : Append(s, e)[k] = s[k]
           /\ Append(s, e)[Len(s) + 1] = e
           /\ Frames(Append(s, e)) \subseteq Frames(s) \cup {e}
<1>1. /\ Append(s, e) \in Seq(S)
      /\ Len(s) \in Nat /\ Len(Append(s, e)) = Len(s) + 1
      /\ \A k \in 1 .. Len(s) : Append(s, e)[k] = s[k]
      /\ Append(s, e)[Len(s) + 1] = e
    OBVIOUS
<1>2. ASSUME NEW k \in 1 .. Len(Append(s, e))
      PROVE  k \in 1 .. Len(s) \/ k = Len(s) + 1
    BY <1>1
<1> QED
    BY <1>1, <1>2 DEF Frames

\* A queue without its first frame.
LEMMA Taken ==
    ASSUME NEW S, NEW s \in Seq(S), s # <<>>
    PROVE  /\ Tail(s) \in Seq(S)
           /\ Len(s) \in Nat /\ Len(s) >= 1 /\ Len(Tail(s)) = Len(s) - 1
           /\ \A k \in 1 .. Len(Tail(s)) : k + 1 \in 1 .. Len(s) /\ Tail(s)[k] = s[k + 1]
           /\ Head(s) = s[1] /\ Head(s) \in S /\ Head(s) \in Frames(s)
           /\ Frames(Tail(s)) \subseteq Frames(s)
<1>1. /\ Tail(s) \in Seq(S)
      /\ Len(s) \in Nat /\ Len(s) >= 1 /\ Len(Tail(s)) = Len(s) - 1
      /\ \A k \in 1 .. Len(Tail(s)) : Tail(s)[k] = s[k + 1]
      /\ Head(s) = s[1] /\ Head(s) \in S
    OBVIOUS
<1>2. \A k \in 1 .. Len(Tail(s)) : k + 1 \in 1 .. Len(s)
    BY <1>1
<1> QED
    BY <1>1, <1>2 DEF Frames

\* What sending a frame does to the requests on their way.
LEMMA Queued ==
    ASSUME TypeOK, NEW c \in Conns, NEW f \in ToServer, Send(c, f)
    PROVE  /\ to_server' \in [Conns -> Seq(ToServer)]
           /\ Requests(c)' \subseteq Requests(c) \cup ({f} \cap RequestFrame)
           /\ \A d \in Conns : d # c => to_server'[d] = to_server[d] /\ Requests(d)' = Requests(d)
<1>1. to_server[c] \in Seq(ToServer)
    BY DEF TypeOK
<1>2. to_server'[c] = Append(to_server[c], f)
    BY DEF TypeOK, Send
<1>3. Frames(to_server'[c]) \subseteq Frames(to_server[c]) \cup {f}
      /\ Append(to_server[c], f) \in Seq(ToServer)
    BY <1>1, <1>2, Appended
<1>4. \A d \in Conns : d # c => to_server'[d] = to_server[d]
    BY DEF TypeOK, Send
<1>5. to_server' \in [Conns -> Seq(ToServer)]
    BY <1>3 DEF TypeOK, Send
<1> QED
    BY <1>3, <1>4, <1>5 DEF Requests

\* What receiving a frame does to the requests on their way.
LEMMA Received ==
    ASSUME TypeOK, NEW c \in Conns, to_server[c] # <<>>, Receive(c)
    PROVE  /\ to_server' \in [Conns -> Seq(ToServer)]
           /\ Next_frame(c) \in ToServer
           /\ Next_frame(c) \in RequestFrame => Next_frame(c) \in Requests(c)
           /\ \A d \in Conns : Requests(d)' \subseteq Requests(d)
           /\ \A d \in Conns : d # c => to_server'[d] = to_server[d]
<1>1. to_server[c] \in Seq(ToServer)
    BY DEF TypeOK
<1>2. to_server'[c] = Tail(to_server[c])
    BY DEF TypeOK, Receive
<1>3. /\ Frames(to_server'[c]) \subseteq Frames(to_server[c])
      /\ Tail(to_server[c]) \in Seq(ToServer)
      /\ Next_frame(c) \in ToServer /\ Next_frame(c) \in Frames(to_server[c])
    BY <1>1, <1>2, Taken DEF Next_frame
<1>4. \A d \in Conns : d # c => to_server'[d] = to_server[d]
    BY DEF TypeOK, Receive
<1>5. to_server' \in [Conns -> Seq(ToServer)]
    BY <1>3 DEF TypeOK, Receive
<1> QED
    BY <1>3, <1>4, <1>5 DEF Requests

\* What answering does to the frames the client has yet to read.
LEMMA Answered ==
    ASSUME TypeOK, NEW c \in Conns, NEW f \in ToClient, Answer(c, f)
    PROVE  /\ to_client' \in [Conns -> Seq(ToClient)]
           /\ \A d \in Conns : d # c => to_client'[d] = to_client[d]
           /\ Len(to_client[c]) \in Nat /\ Len(to_client'[c]) = Len(to_client[c]) + 1
           /\ \A k \in Unread(c) : to_client'[c][k] = to_client[c][k]
           /\ to_client'[c][Len(to_client[c]) + 1] = f
<1>1. to_client[c] \in Seq(ToClient)
    BY DEF TypeOK
<1>2. to_client'[c] = Append(to_client[c], f)
    BY DEF TypeOK, Answer
<1>3. Append(to_client[c], f) \in Seq(ToClient)
    BY <1>1, Appended
<1>4. to_client' \in [Conns -> Seq(ToClient)]
    BY <1>3 DEF TypeOK, Answer
<1>5. \A d \in Conns : d # c => to_client'[d] = to_client[d]
    BY DEF TypeOK, Answer
<1> QED
    BY <1>1, <1>2, <1>4, <1>5, Appended DEF Unread

\* What reading a frame does to the frames the client has yet to read.
LEMMA Read ==
    ASSUME TypeOK, NEW c \in Conns, to_client[c] # <<>>,
           to_client' = [to_client EXCEPT ![c] = Tail(@)]
    PROVE  /\ to_client' \in [Conns -> Seq(ToClient)]
           /\ Len(to_client[c]) \in Nat /\ 1 \in Unread(c)
           /\ Head(to_client[c]) = to_client[c][1] /\ Head(to_client[c]) \in ToClient
           /\ \A d \in Conns : d # c => to_client'[d] = to_client[d]
           /\ \A k \in Unread(c)' :
                 k \in Nat /\ k + 1 \in Unread(c) /\ to_client'[c][k] = to_client[c][k + 1]
<1>1. to_client[c] \in Seq(ToClient)
    BY DEF TypeOK
<1>2. to_client'[c] = Tail(to_client[c])
    BY DEF TypeOK
<1>3. Tail(to_client[c]) \in Seq(ToClient) /\ Len(to_client[c]) \in Nat /\ Len(to_client[c]) >= 1
      /\ Len(Tail(to_client[c])) \in Nat
      /\ Head(to_client[c]) = to_client[c][1] /\ Head(to_client[c]) \in ToClient
    BY <1>1, Taken
<1>4. to_client' \in [Conns -> Seq(ToClient)]
    BY <1>3 DEF TypeOK
<1>5. \A d \in Conns : d # c => to_client'[d] = to_client[d]
    BY DEF TypeOK
<1>6. \A k \in Unread(c)' : k \in Nat /\ k + 1 \in Unread(c) /\ to_client'[c][k] = to_client[c][k + 1]
    <2>1. \A k \in 1 .. Len(Tail(to_client[c])) :
             k + 1 \in 1 .. Len(to_client[c]) /\ Tail(to_client[c])[k] = to_client[c][k + 1]
        BY <1>1, Taken
    <2>2. Unread(c)' = 1 .. Len(Tail(to_client[c]))
        BY <1>2 DEF Unread
    <2>3. \A k \in 1 .. Len(Tail(to_client[c])) : k \in Nat
        BY <1>3
    <2> QED
        BY <1>2, <2>1, <2>2, <2>3 DEF Unread
<1>7. 1 \in Unread(c)
    BY <1>3 DEF Unread
<1> QED
    BY <1>3, <1>4, <1>5, <1>6, <1>7

------------------------------------------------------------------------------
(* The steps of the client *)

\* connect keeps the invariant: the new connection carries the greeting alone.
LEMMA ConnectStep == ASSUME IInv, connect PROVE IInv'
<1> USE DEF IInv
<1>1. conn' \in Conns /\ conn' = conn + 1 /\ conn \in Nat /\ Hello \in ToServer
      /\ ErrorReply \in ToClient
    BY SessionAssumption DEF TypeOK, connect, Conns, ToServer, ToClient
<1>2. /\ to_server' \in [Conns -> Seq(ToServer)]
      /\ \A d \in Conns : Requests(d)' \subseteq Requests(d)
      /\ \A d \in Conns : d # conn' => to_server'[d] = to_server[d]
    BY <1>1, Queued, FrameKinds DEF connect
<1>3. outstanding = 0
    BY DEF connect, HandshakeFirst
<1>4. to_client[conn'] = <<>> /\ last_session_sequence[conn'] = 0 /\ Requests(conn') = {}
    BY <1>1 DEF HandshakeFirst, Requests, Frames
<1>5. /\ to_client' \in [Conns -> Seq(ToClient)]
      /\ \A d \in Conns : d # conn' => to_client'[d] = to_client[d] /\ worker'[d] = worker[d]
      /\ \/ worker'[conn'] = "Hello" /\ to_client'[conn'] = <<>>
         \/ worker'[conn'] = "Closed" /\ to_client'[conn'] = <<ErrorReply>>
    <2>1. \/ worker' = [worker EXCEPT ![conn'] = "Hello"] /\ to_client' = to_client
          \/ /\ worker' = [worker EXCEPT ![conn'] = "Closed"]
             /\ to_client' = [to_client EXCEPT ![conn'] = <<ErrorReply>>]
        BY DEF connect
    <2>2. <<ErrorReply>> \in Seq(ToClient)
        BY <1>1
    <2> QED
        BY <1>1, <1>4, <2>1, <2>2 DEF TypeOK
<1>6. TypeOK'
    BY <1>1, <1>2, <1>5 DEF TypeOK, connect, Conns
<1>7. HandshakeFirst'
    BY <1>1, <1>2, <1>3, <1>5, FrameKinds DEF TypeOK, HandshakeFirst, connect, Unread
<1>8. Numbered'
    <2>1. \A d \in Conns : \A k \in Unread(d)' :
             to_client'[d][k] \in ReplyFrame => to_client'[d][k].id <= calls
        <3>1. \A k \in 1 .. Len(to_client'[conn']) : to_client'[conn'][k] \notin ReplyFrame
            BY <1>5, FrameKinds
        <3>2. \A d \in Conns : d # conn' => \A k \in Unread(d)' :
                 to_client'[d][k] \in ReplyFrame => to_client'[d][k].id <= calls
            BY <1>5 DEF Numbered, Unread
        <3> QED
            BY <3>1, <3>2 DEF Unread
    <2>2. Requests(conn)' = {} /\ last_session_sequence'[conn'] = 0
        BY <1>1, <1>2, <1>4 DEF connect, Requests
    <2> QED
        BY <1>2, <1>3, <2>1, <2>2 DEF Numbered, connect
<1>9. ReturnedSettled'
    BY <1>2 DEF ReturnedSettled, Settled, connect
<1> QED
    BY <1>3, <1>6, <1>7, <1>8, <1>9
    DEF connect, FirstAnswerTrue, OneGrantPerProposal, OutcomesTrue, Proposed

\* connected keeps the invariant: the answer to the greeting is the first frame,
\* and no other frame is one.
LEMMA ConnectedStep == ASSUME IInv, connected PROVE IInv'
<1> USE DEF IInv
<1>1. conn \in Conns /\ conn # 0
    BY SessionAssumption DEF TypeOK, connected, Conns, HandshakeFirst
<1>2. /\ to_client' \in [Conns -> Seq(ToClient)]
      /\ Len(to_client[conn]) \in Nat /\ 1 \in Unread(conn)
      /\ Head(to_client[conn]) = to_client[conn][1]
      /\ \A d \in Conns : d # conn => to_client'[d] = to_client[d]
      /\ \A k \in Unread(conn)' : /\ k \in Nat /\ k + 1 \in Unread(conn) 
                                  /\ to_client'[conn][k] = to_client[conn][k + 1]
    BY <1>1, Read DEF connected
<1>3. outstanding = 0 /\ conn' = conn /\ to_server' = to_server
      /\ (\A d \in Conns : Requests(d)' = Requests(d))
    BY DEF connected, HandshakeFirst, Requests
<1>4. worker[conn] \notin {"None", "Hello"}
    BY <1>1 DEF HandshakeFirst, connected
<1>5. \A k \in Unread(conn)' : k >= 1
    BY DEF Unread
<1>6. \A k \in Unread(conn)' : to_client'[conn][k] # HelloAck
    BY <1>1, <1>2, <1>5 DEF HandshakeFirst
<1>7. TypeOK'
    BY <1>2 DEF TypeOK, connected, serverVars
<1>8. HandshakeFirst'
    BY <1>1, <1>2, <1>3, <1>4, <1>6 DEF HandshakeFirst, connected, serverVars, Unread
<1>9. Numbered'
    BY <1>1, <1>2, <1>3 DEF Numbered, connected, serverVars, Unread
<1>10. ReturnedSettled'
    BY <1>3 DEF ReturnedSettled, Settled, connected, serverVars
<1> QED
    BY <1>3, <1>7, <1>8, <1>9, <1>10
    DEF connected, serverVars, FirstAnswerTrue, OneGrantPerProposal, OutcomesTrue, Proposed

\* close keeps the invariant: it changes no queue and no call waits.
LEMMA CloseStep == ASSUME IInv, close PROVE IInv'
<1> USE DEF IInv, close, serverVars
<1>1. TypeOK' /\ HandshakeFirst'
    BY DEF TypeOK, HandshakeFirst, Unread
<1>2. \A d \in Conns : Requests(d)' = Requests(d) /\ Unread(d)' = Unread(d)
    BY DEF Requests, Unread
<1>3. Numbered' /\ ReturnedSettled'
    <2>1. conn' = conn /\ Requests(conn)' = Requests(conn)
        BY DEF Requests
    <2> QED
        BY <1>2, <2>1 DEF Numbered, ReturnedSettled, Settled
<1> QED
    BY <1>1, <1>3 DEF FirstAnswerTrue, OneGrantPerProposal, OutcomesTrue, Proposed

\* The first half of round_trip keeps the invariant: its call is new, so nothing
\* on its way is about it.
LEMMA SendRequestStep == ASSUME IInv, NEW p \in Proposals, send_request(p) PROVE IInv'
<1> USE DEF IInv
<1>1. /\ conn \in Conns /\ conn # 0 /\ calls' = calls + 1 /\ calls \in Nat /\ calls' \in Ids
      /\ sequence \in Nat /\ sequence' = sequence + 1
      /\ calls' \notin granted /\ outstanding = 0 /\ conn' = conn
    BY SessionAssumption DEF TypeOK, send_request, Conns, Ids, HandshakeFirst
<1>2. /\ Request(sequence', calls') \in RequestFrame
      /\ Request(sequence', calls').id = calls' /\ Request(sequence', calls').seq = sequence'
    BY <1>1, FrameFields
<1>3. /\ to_server' \in [Conns -> Seq(ToServer)]
      /\ \A d \in Conns : d # conn => to_server'[d] = to_server[d] /\ Requests(d)' = Requests(d)
      /\ outstanding' = 0 => Requests(conn)' \subseteq Requests(conn)
      /\ Requests(conn)' \subseteq Requests(conn) \cup {Request(sequence', calls')}
    <2>1. CASE Send(conn, Request(sequence', calls')) /\ outstanding' = calls'
        BY <1>1, <1>2, <2>1, Queued DEF ToServer
    <2>2. CASE Send(conn, Torn)
        <3>1. Torn \in ToServer
            BY DEF ToServer
        <3> QED
            BY <1>1, <2>2, <3>1, Queued, FrameKinds
    <2>3. CASE UNCHANGED to_server
        BY <1>1, <2>3 DEF TypeOK, Requests
    <2> QED
        BY <1>1, <2>1, <2>2, <2>3 DEF send_request
<1>4. /\ outstanding' \in {0, calls'}
      /\ \A i \in Ids : i # calls' => outcome'[i] = outcome[i] /\ proposal'[i] = proposal[i]
      /\ outcome' \in [Ids -> Statuses \cup Inconclusive \cup {"None"}]
      /\ DOMAIN proposal' = Ids
      /\ outcome'[calls'] \in {"None", "Unavailable", "LimitExceeded"}
      /\ outstanding' = calls' => outcome' = outcome
    <2>1. outcome[calls'] = "None"
        BY <1>1 DEF Numbered
    <2>2. \E result \in {"None", "Unavailable", "LimitExceeded"} :
             outcome' = [outcome EXCEPT ![calls'] = result]
        BY <1>1, <2>1 DEF TypeOK, send_request
    <2>3. /\ outcome' \in [Ids -> Statuses \cup Inconclusive \cup {"None"}]
          /\ outcome'[calls'] \in {"None", "Unavailable", "LimitExceeded"}
          /\ \A i \in Ids : i # calls' => outcome'[i] = outcome[i]
        BY <1>1, <2>2 DEF TypeOK, Inconclusive
    <2>4. /\ outstanding' \in {0, calls'}
          /\ outstanding' = calls' => outcome' = outcome
        BY <1>1 DEF send_request
    <2>5. DOMAIN proposal' = Ids /\ (\A i \in Ids : i # calls' => proposal'[i] = proposal[i])
        BY DEF TypeOK, send_request
    <2> QED
        BY <2>3, <2>4, <2>5
<1>5. TypeOK'
    BY <1>1, <1>3, <1>4, SessionAssumption DEF TypeOK, send_request, serverVars
<1>6. HandshakeFirst'
    BY <1>1, <1>3 DEF HandshakeFirst, send_request, serverVars, Unread
<1>7. \A d \in Conns : \A r \in Requests(d)' :
         \/ r \in Requests(d) /\ r.id <= calls /\ r.id \in Nat
         \/ d = conn /\ r = Request(sequence', calls') /\ outstanding' = calls'
    <2>1. \A d \in Conns : \A r \in Requests(d) : r.id <= calls /\ r.id \in Nat
        BY FrameFields DEF Numbered, Requests, Ids
    <2> QED
        BY <1>1, <1>3, <1>4, <2>1
<1>8. \A r \in Requests(conn) : r.seq \in Nat /\ r.seq <= sequence
    BY <1>1, FrameFields DEF Numbered, Requests
<1>9. last_session_sequence[conn] \in Nat /\ last_session_sequence[conn] <= sequence
    BY <1>1 DEF TypeOK, Numbered
<1>10. \A d \in Conns : \A k \in Unread(d)' :
         to_client'[d][k] \in ReplyFrame => to_client'[d][k].id <= calls /\ to_client'[d][k].id \in Nat
    BY FrameFields DEF Numbered, send_request, Unread, Ids
<1>11. Numbered'
    <2>1. \A c \in Conns : \A r \in Requests(c)' : r.id <= calls'
        BY <1>1, <1>2, <1>7
    <2>2. \A c \in Conns : \A k \in Unread(c)' :
             to_client'[c][k] \in ReplyFrame => to_client'[c][k].id <= calls'
        BY <1>1, <1>10
    <2>3. last_session_sequence'[conn] <= sequence' /\ (\A r \in Requests(conn)' : r.seq <= sequence')
        BY <1>1, <1>2, <1>7, <1>8, <1>9 DEF send_request, serverVars
    <2>4. \A i \in Ids : i > calls' => outcome'[i] = "None"
        BY <1>1, <1>4 DEF Numbered, Ids
    <2>5. outstanding' # 0 => outcome'[outstanding'] = "None"
        BY <1>1, <1>4 DEF Numbered
    <2>6. outstanding' # 0 =>
             \A c \in Conns : \A r \in Requests(c)' :
                r.id = outstanding' <=> c = conn /\ r.seq = sequence'
        BY <1>1, <1>2, <1>4, <1>7, <1>8
    <2> QED
        BY <1>1, <2>1, <2>2, <2>3, <2>4, <2>5, <2>6 DEF Numbered, send_request
<1>12. ReturnedSettled'
    <2>1. SUFFICES ASSUME NEW i \in Ids, outcome'[i] \in Statuses,
                          NEW d \in Conns, NEW r \in Requests(d)', r.id = i
                   PROVE  r.seq <= last_session_sequence'[d]
        BY DEF ReturnedSettled, Settled
    <2>2. CASE i = calls'
        BY <1>4, <2>1, <2>2 DEF Statuses
    <2>3. CASE i # calls'
        BY <1>2, <1>4, <1>7, <2>1, <2>3 DEF ReturnedSettled, Settled, send_request, serverVars
    <2> QED
        BY <2>2, <2>3
<1>13. FirstAnswerTrue'
    <2>1. \A k \in Unread(conn)' : outstanding' # 0 => ~ IsAnswer(k)'
        BY <1>1, <1>4, <1>10 DEF IsAnswer, send_request
    <2>2. ~ (sequence' <= last_session_sequence'[conn])
        BY <1>1, <1>9 DEF send_request, serverVars
    <2>3. granted' = granted /\ conn' = conn
        BY DEF send_request, serverVars
    <2> QED
        BY <1>1, <1>4, <2>1, <2>2, <2>3 DEF FirstAnswerTrue
<1>14. granted' = granted /\ granted \subseteq Ids /\ (\A i \in granted : i # calls')
    BY <1>1, SessionAssumption DEF send_request, serverVars, TypeOK, Ids
<1>15. OneGrantPerProposal'
    BY <1>4, <1>14 DEF OneGrantPerProposal
<1>16. OutcomesTrue'
    BY <1>1, <1>4, <1>14 DEF OutcomesTrue, Proposed
<1> QED
    BY <1>5, <1>6, <1>11, <1>12, <1>13, <1>15, <1>16

\* What is in place whenever a call waits.
LEMMA Waiting ==
    ASSUME IInv, outstanding # 0
    PROVE  /\ conn \in Conns /\ conn # 0 /\ client = "Connected"
           /\ outstanding = calls /\ outstanding \in Ids /\ sequence \in Nat
           /\ last_session_sequence[conn] \in Nat
<1>1. client = "Connected" /\ conn # 0 /\ outstanding = calls
    BY DEF IInv, TypeOK, HandshakeFirst
<1>2. conn \in Conns /\ outstanding \in Ids
    BY <1>1, SessionAssumption DEF IInv, TypeOK, Conns, Ids
<1> QED
    BY <1>1, <1>2 DEF IInv, TypeOK

\* A call that returns keeps the invariant if what it returns is true, and is an
\* answer only if the call is settled.
LEMMA ReturnStep ==
    ASSUME IInv, outstanding # 0, NEW result,
           result \in Statuses \cup Inconclusive,
           Return(result), TypeOK', HandshakeFirst',
           \A c \in Conns : \A k \in Unread(c)' :
              to_client'[c][k] \in ReplyFrame => to_client'[c][k].id <= calls,
           result \in Statuses => True(result, outstanding) /\ Settled(outstanding)
    PROVE  IInv'
<1> USE DEF IInv
<1>1. /\ outstanding' = 0 /\ conn' = conn /\ calls' = calls /\ sequence' = sequence
      /\ granted' = granted /\ proposal' = proposal
      /\ last_session_sequence' = last_session_sequence
      /\ \A i \in Ids : outcome'[i] = IF i = outstanding THEN result ELSE outcome[i]
    BY Waiting DEF Return, serverVars, TypeOK
<1>2. /\ \A c \in Conns : Requests(c)' = Requests(c)
      /\ Requests(conn)' = Requests(conn)
    BY DEF Return, Requests
<1>3. \A i \in Ids : i > calls => outcome'[i] = "None"
    <2>1. \A i \in Ids : i > calls => i # outstanding
        BY Waiting DEF Ids
    <2> QED
        BY <1>1, <2>1 DEF Numbered
<1>4. Numbered'
    BY <1>1, <1>2, <1>3 DEF Numbered
<1>5. ReturnedSettled'
    BY <1>1, <1>2 DEF ReturnedSettled, Settled, Statuses
<1>6. OneGrantPerProposal'
    BY <1>1 DEF OneGrantPerProposal
<1>7. OutcomesTrue'
    BY <1>1 DEF OutcomesTrue, True, Proposed, Statuses
<1> QED
    BY <1>1, <1>4, <1>5, <1>6, <1>7 DEF FirstAnswerTrue

\* The second half of round_trip keeps the invariant: a reply with the number and
\* the sequence of the call that waits is its first answer.
LEMMA ReceiveReplyStep == ASSUME IInv, receive_reply PROVE IInv'
<1> USE DEF IInv
<1> DEFINE r == Head(to_client[conn])
           result == IF r.id = outstanding /\ r.seq = sequence THEN r.status ELSE "Conflicting"
<1>1. outstanding # 0 /\ Return(result) /\ to_client[conn] # <<>>
      /\ to_client' = [to_client EXCEPT ![conn] = Tail(@)] /\ r # Oversized
    BY DEF receive_reply
<1>2. conn \in Conns /\ client = "Connected" /\ outstanding \in Ids /\ sequence \in Nat
      /\ outstanding = calls
    BY <1>1, Waiting
<1>3. /\ to_client' \in [Conns -> Seq(ToClient)]
      /\ Len(to_client[conn]) \in Nat /\ 1 \in Unread(conn)
      /\ r = to_client[conn][1] /\ r \in ToClient
      /\ \A d \in Conns : d # conn => to_client'[d] = to_client[d]
      /\ \A k \in 1 .. Len(to_client'[conn]) : /\ k \in Nat /\ k + 1 \in Unread(conn)
                                  /\ to_client'[conn][k] = to_client[conn][k + 1]
    BY <1>1, <1>2, Read DEF Unread
<1>4. r \in ReplyFrame \/ r = ErrorReply
    BY <1>1, <1>2, <1>3 DEF HandshakeFirst, ToClient
<1>5. ASSUME r.id = outstanding, r.seq = sequence
      PROVE  /\ r.status \in Statuses \cup {"LimitExceeded"}
             /\ True(r.status, outstanding) /\ Settled(outstanding)
    <2>1. r \in ReplyFrame /\ r.status \in Statuses \cup {"LimitExceeded"}
        BY <1>1, <1>4, <1>5, FrameFields
    <2>2. IsAnswer(1)
        BY <1>3, <1>5, <2>1 DEF IsAnswer
    <2>3. sequence <= last_session_sequence[conn]
        BY <1>1, <1>3, <2>2 DEF FirstAnswerTrue
    <2>4. \A j \in Unread(conn) : ~ (j < 1)
        BY <1>3 DEF Unread
    <2>5. True(r.status, outstanding)
        BY <1>1, <1>3, <2>2, <2>4 DEF FirstAnswerTrue
    <2>6. Settled(outstanding)
        BY <1>1, <2>3 DEF Numbered, Settled
    <2> QED
        BY <2>1, <2>5, <2>6
<1>6. result \in Statuses \cup Inconclusive
      /\ (result \in Statuses => True(result, outstanding) /\ Settled(outstanding))
    BY <1>5 DEF Statuses, Inconclusive
<1>7. TypeOK'
    BY <1>1, <1>2, <1>3, <1>6 DEF TypeOK, Return, serverVars
<1>8. HandshakeFirst'
    <2>1. conn' = conn /\ client' = client /\ worker' = worker /\ to_server' = to_server
          /\ last_session_sequence' = last_session_sequence /\ outstanding' = 0
        BY <1>1 DEF Return, serverVars
    <2>2. \A k \in 1 .. Len(to_client'[conn]) : to_client'[conn][k] # HelloAck
        BY <1>2, <1>3 DEF HandshakeFirst
    <2>3. worker[conn] \notin {"None", "Hello"}
        BY <1>2 DEF HandshakeFirst
    <2>4. \A c \in Conns :
             /\ worker[c] \in {"None", "Hello"} => to_client'[c] = <<>>
             /\ \A k \in 1 .. Len(to_client'[c]) : to_client'[c][k] = HelloAck => k = 1
        BY <1>3, <2>2, <2>3 DEF HandshakeFirst, Unread
    <2> QED
        BY <2>1, <2>2, <2>3, <2>4 DEF HandshakeFirst, Unread
<1>9. \A c \in Conns : \A k \in Unread(c)' :
         to_client'[c][k] \in ReplyFrame => to_client'[c][k].id <= calls
    <2>1. \A k \in 1 .. Len(to_client'[conn]) :
             to_client'[conn][k] \in ReplyFrame => to_client'[conn][k].id <= calls
        BY <1>2, <1>3 DEF Numbered
    <2>2. \A c \in Conns : c # conn => \A k \in 1 .. Len(to_client'[c]) :
             to_client'[c][k] \in ReplyFrame => to_client'[c][k].id <= calls
        BY <1>3 DEF Numbered, Unread
    <2> QED
        BY <2>1, <2>2 DEF Unread
<1> QED
    BY <1>1, <1>6, <1>7, <1>8, <1>9, ReturnStep

\* A receive that fails keeps the invariant: it claims nothing about the call.
LEMMA FailedReceiveStep == ASSUME IInv, give_up \/ reject_reply PROVE IInv'
<1> USE DEF IInv
<1>1. PICK result \in Inconclusive :
         outstanding # 0 /\ Return(result) /\ to_client' = to_client
    BY DEF give_up, reject_reply, Inconclusive
<1>2. TypeOK'
    BY <1>1, Waiting DEF TypeOK, Return, serverVars
<1>3. HandshakeFirst'
    BY <1>1 DEF HandshakeFirst, Return, serverVars, Unread
<1>4. \A c \in Conns : \A k \in Unread(c)' :
         to_client'[c][k] \in ReplyFrame => to_client'[c][k].id <= calls
    BY <1>1 DEF Numbered, Unread
<1> QED
    BY <1>1, <1>2, <1>3, <1>4, ReturnStep DEF Statuses, Inconclusive

\* A repeated frame keeps the invariant: it carries the number and the sequence of
\* the call that waits.
LEMMA ResendStep == ASSUME IInv, resend PROVE IInv'
<1> USE DEF IInv
<1> DEFINE f == Request(sequence, outstanding)
<1>1. /\ conn \in Conns /\ conn # 0 /\ outstanding = calls /\ outstanding \in Ids
      /\ sequence \in Nat /\ outstanding # 0
    BY Waiting DEF resend
<1>2. f \in RequestFrame /\ f \in ToServer /\ f.id = outstanding /\ f.seq = sequence
    BY <1>1, FrameFields DEF ToServer
<1>3. /\ to_server' \in [Conns -> Seq(ToServer)]
      /\ Requests(conn)' \subseteq Requests(conn) \cup {f}
      /\ \A d \in Conns : d # conn => to_server'[d] = to_server[d] /\ Requests(d)' = Requests(d)
    <2>1. conn' = conn
        BY DEF resend, clientVars
    <2> QED
        BY <1>1, <1>2, <2>1, Queued DEF resend
<1>4. UNCHANGED <<client, conn, sequence, calls, outstanding, proposal, outcome, to_client,
                  worker, last_session_sequence, granted>>
    BY DEF resend, clientVars, serverVars
<1>5. TypeOK'
    BY <1>3, <1>4 DEF TypeOK
<1>6. HandshakeFirst'
    BY <1>1, <1>3, <1>4 DEF HandshakeFirst, Unread, TypeOK
<1>7. Numbered'
    <2>1. \A c \in Conns : \A r \in Requests(c)' : r \in Requests(c) \/ (c = conn /\ r = f)
        BY <1>3, <1>4
    <2>2. \A c \in Conns : \A r \in Requests(c)' : r.id <= calls
        BY <1>1, <1>2, <2>1 DEF Numbered, Ids
    <2>3. \A r \in Requests(conn)' : r.seq <= sequence
        BY <1>1, <1>2, <1>3 DEF Numbered
    <2>4. \A c \in Conns : \A r \in Requests(c)' :
             r.id = outstanding <=> c = conn /\ r.seq = sequence
        BY <1>1, <1>2, <2>1 DEF Numbered
    <2> QED
        BY <1>4, <2>2, <2>3, <2>4 DEF Numbered, Unread
<1>8. ReturnedSettled'
    <2>1. outcome[outstanding] = "None"
        BY <1>1 DEF Numbered
    <2>2. \A c \in Conns : \A r \in Requests(c)' : r \in Requests(c) \/ r.id = outstanding
        BY <1>2, <1>3, <1>4
    <2> QED
        BY <1>4, <2>1, <2>2 DEF ReturnedSettled, Settled, Statuses
<1>9. FirstAnswerTrue' /\ OneGrantPerProposal' /\ OutcomesTrue'
    BY <1>4 DEF FirstAnswerTrue, IsAnswer, Ends, True, Unread, OneGrantPerProposal, OutcomesTrue, Proposed
<1> QED
    BY <1>5, <1>6, <1>7, <1>8, <1>9

------------------------------------------------------------------------------
(* The steps of a worker *)

\* A worker's step that dispatches nothing keeps the invariant if it keeps the
\* order of what the client reads.
LEMMA WorkerStep ==
    ASSUME IInv, UNCHANGED <<clientVars, last_session_sequence, granted>>,
           TypeOK', HandshakeFirst', FirstAnswerTrue',
           \A d \in Conns : Requests(d)' \subseteq Requests(d),
           \A d \in Conns : \A k \in Unread(d)' :
              to_client'[d][k] \in ReplyFrame => to_client'[d][k].id <= calls
    PROVE  IInv'
<1> USE DEF IInv
<1>1. /\ UNCHANGED <<client, conn, sequence, calls, outstanding, proposal, outcome>>
      /\ last_session_sequence' = last_session_sequence /\ granted' = granted
    BY DEF clientVars
<1>2. conn # 0 => Requests(conn)' \subseteq Requests(conn)
    <2>1. conn # 0 => conn \in Conns
        BY SessionAssumption DEF TypeOK, Conns
    <2> QED
        BY <1>1, <2>1
<1>3. Numbered'
    BY <1>1, <1>2 DEF Numbered
<1>4. ReturnedSettled'
    BY <1>1 DEF ReturnedSettled, Settled
<1> QED
    BY <1>1, <1>3, <1>4 DEF OneGrantPerProposal, OutcomesTrue, Proposed

\* A connection with a worker was made.
LEMMA Made ==
    ASSUME IInv, NEW c \in Conns, worker[c] # "None"
    PROVE  ~ (c > conn)
BY DEF IInv, HandshakeFirst

\* The handshake keeps the invariant: its answer is the first frame, and no call
\* waits on that connection.
LEMMA HandshakeStep == ASSUME IInv, NEW c \in Conns, handshake(c) PROVE IInv'
<1> USE DEF IInv
<1>1. PICK f \in {HelloAck, ErrorReply} :
         /\ Answer(c, f)
         /\ worker' = [worker EXCEPT ![c] = IF f = HelloAck THEN "Session" ELSE "Closed"]
    BY FrameKinds DEF handshake
<1>2. /\ UNCHANGED <<clientVars, last_session_sequence, granted>>
      /\ UNCHANGED <<client, conn, sequence, calls, outstanding, proposal, outcome>>
      /\ worker[c] = "Hello" /\ to_client[c] = <<>> /\ ~ (c > conn)
      /\ client = "Connected" => c # conn
      /\ outstanding # 0 => conn \in Conns /\ c # conn
      /\ last_session_sequence' = last_session_sequence
    BY Made, Waiting DEF handshake, clientVars, HandshakeFirst
<1>3. /\ to_server' \in [Conns -> Seq(ToServer)]
      /\ \A d \in Conns : Requests(d)' \subseteq Requests(d)
      /\ \A d \in Conns : d # c => to_server'[d] = to_server[d]
    BY Received DEF handshake
<1>4. f \in ToClient /\ f \notin ReplyFrame
    BY <1>1, FrameKinds DEF ToClient
<1>5. /\ to_client' \in [Conns -> Seq(ToClient)]
      /\ \A d \in Conns : d # c => to_client'[d] = to_client[d]
      /\ Len(to_client'[c]) = 1 /\ to_client'[c][1] = f
    <2>1. Len(to_client[c]) = 0 /\ Len(to_client[c]) + 1 = 1
        BY <1>2
    <2>2. /\ to_client' \in [Conns -> Seq(ToClient)]
          /\ \A d \in Conns : d # c => to_client'[d] = to_client[d]
          /\ Len(to_client'[c]) = Len(to_client[c]) + 1
          /\ to_client'[c][Len(to_client[c]) + 1] = f
        BY <1>1, <1>4, Answered
    <2> QED
        BY <2>1, <2>2
<1>6. /\ worker' \in [Conns -> {"None", "Hello", "Session", "Closed"}]
      /\ worker'[c] \in {"Session", "Closed"}
      /\ \A d \in Conns : d # c => worker'[d] = worker[d]
    BY <1>1 DEF TypeOK
<1>7. TypeOK'
    BY <1>2, <1>3, <1>5, <1>6 DEF TypeOK
<1>8. HandshakeFirst'
    <2>1. ASSUME NEW d \in Conns
          PROVE  /\ d > conn => /\ worker'[d] = "None" /\ to_server'[d] = <<>>
                                /\ last_session_sequence'[d] = 0
                 /\ worker'[d] \in {"None", "Hello"} => to_client'[d] = <<>>
                 /\ \A k \in Unread(d)' : to_client'[d][k] = HelloAck => k = 1
        <3>1. CASE d = c
            <4>1. \A k \in Unread(c)' : k = 1
                BY <1>5 DEF Unread
            <4> QED
                BY <1>2, <1>6, <3>1, <4>1
        <3>2. CASE d # c
            <4>1. /\ worker'[d] = worker[d] /\ to_server'[d] = to_server[d]
                  /\ to_client'[d] = to_client[d] /\ Unread(d)' = Unread(d)
                BY <1>3, <1>5, <1>6, <3>2 DEF Unread
            <4> QED
                BY <1>2, <4>1 DEF HandshakeFirst
        <3> QED
            BY <3>1, <3>2
    <2>2. client = "Connected" => worker'[conn] = worker[conn] /\ to_client'[conn] = to_client[conn]
        <3>1. client = "Connected" => conn \in Conns
            BY SessionAssumption DEF TypeOK, HandshakeFirst, Conns
        <3> QED
            BY <1>2, <1>5, <1>6, <3>1
    <2> QED
        BY <1>2, <2>1, <2>2 DEF HandshakeFirst, Unread
<1>9. \A d \in Conns : \A k \in Unread(d)' :
         to_client'[d][k] \in ReplyFrame => to_client'[d][k].id <= calls
    <2>1. \A k \in Unread(c)' : k = 1
        BY <1>5 DEF Unread
    <2> QED
        BY <1>4, <1>5, <2>1 DEF Numbered, Unread
<1>10. FirstAnswerTrue'
    <2>1. outstanding # 0 => worker'[conn] = worker[conn] /\ to_client'[conn] = to_client[conn]
        BY <1>2, <1>5, <1>6
    <2> QED
        BY <1>2, <2>1 DEF FirstAnswerTrue, IsAnswer, Ends, True, Unread, Proposed
<1> QED
    BY <1>2, <1>3, <1>7, <1>8, <1>9, <1>10, WorkerStep

\* A worker that ends, whether it says so or not, keeps the invariant: what the
\* client reads is what was there, followed by no answer to a call.
LEMMA EndStep ==
    ASSUME IInv, NEW c \in Conns, UNCHANGED <<clientVars, last_session_sequence, granted>>,
           worker[c] # "None", worker' = [worker EXCEPT ![c] = "Closed"],
           to_server' \in [Conns -> Seq(ToServer)], to_client' \in [Conns -> Seq(ToClient)],
           \A d \in Conns : Requests(d)' \subseteq Requests(d),
           \A d \in Conns : d # c => to_server'[d] = to_server[d] /\ to_client'[d] = to_client[d],
           \/ Unread(c)' = {}
           \/ /\ \A k \in Unread(c) : k \in Unread(c)' /\ to_client'[c][k] = to_client[c][k]
              /\ \A k \in Unread(c)' :
                    k \notin Unread(c) => to_client'[c][k] \notin ReplyFrame \cup {HelloAck}
    PROVE  IInv'
<1> USE DEF IInv
<1>1. /\ UNCHANGED <<client, conn, sequence, calls, outstanding, proposal, outcome>>
      /\ last_session_sequence' = last_session_sequence
    BY DEF clientVars
<1>2. /\ worker' \in [Conns -> {"None", "Hello", "Session", "Closed"}]
      /\ worker'[c] = "Closed" /\ \A d \in Conns : d # c => worker'[d] = worker[d]
    BY DEF TypeOK
<1>3. \A k \in Unread(c)' :
         \/ k \in Unread(c) /\ to_client'[c][k] = to_client[c][k]
         \/ to_client'[c][k] # HelloAck /\ to_client'[c][k] \notin ReplyFrame
    OBVIOUS
<1>4. TypeOK'
    BY <1>1, <1>2 DEF TypeOK
<1>5. HandshakeFirst'
    <2>1. ASSUME NEW d \in Conns
          PROVE  /\ d > conn => /\ worker'[d] = "None" /\ to_server'[d] = <<>>
                                /\ last_session_sequence'[d] = 0
                 /\ worker'[d] \in {"None", "Hello"} => to_client'[d] = <<>>
                 /\ \A k \in Unread(d)' : to_client'[d][k] = HelloAck => k = 1
        <3>1. CASE d = c
            BY <1>2, <1>3, <3>1, Made DEF HandshakeFirst
        <3>2. CASE d # c
            <4>1. /\ worker'[d] = worker[d] /\ to_server'[d] = to_server[d]
                  /\ to_client'[d] = to_client[d] /\ Unread(d)' = Unread(d)
                BY <1>2, <3>2 DEF Unread
            <4> QED
                BY <1>1, <4>1 DEF HandshakeFirst
        <3> QED
            BY <3>1, <3>2
    <2>2. client = "Connected" => conn \in Conns
        BY SessionAssumption DEF TypeOK, HandshakeFirst, Conns
    <2>3. client = "Connected" => /\ worker'[conn] \notin {"None", "Hello"}
                                  /\ \A k \in Unread(conn)' : to_client'[conn][k] # HelloAck
        <3>1. CASE conn = c
            BY <1>1, <1>2, <1>3, <3>1 DEF HandshakeFirst
        <3>2. CASE conn # c
            BY <1>1, <1>2, <2>2, <3>2 DEF HandshakeFirst, Unread
        <3> QED
            BY <3>1, <3>2
    <2> QED
        BY <1>1, <2>1, <2>3 DEF HandshakeFirst
<1>6. \A d \in Conns : \A k \in Unread(d)' :
         to_client'[d][k] \in ReplyFrame => to_client'[d][k].id <= calls
    BY <1>3 DEF Numbered, Unread
<1>7. FirstAnswerTrue'
    <2>1. CASE outstanding # 0 /\ c = conn
        <3>1. Unread(conn)' = Unread(c)' /\ to_client'[conn'] = to_client'[c] /\ worker'[conn'] = "Closed"
            BY <1>1, <1>2, <2>1
        <3>2. \A k \in Unread(c)' : IsAnswer(k)' => /\ k \in Unread(c) /\ IsAnswer(k)
                                                 /\ to_client'[c][k] = to_client[c][k]
            BY <1>1, <1>3, <2>1 DEF IsAnswer
        <3>3. \A k \in Unread(c)', j \in Unread(c) :
                 Ends(j) => j \in Unread(c)' /\ Ends(j)'
            BY <1>1, <2>1 DEF IsAnswer, Ends
        <3>4. \A k \in Unread(conn)' :
                 IsAnswer(k)' => \/ \E j \in Unread(conn)' : j < k /\ Ends(j)'
                                 \/ True(to_client'[conn'][k].status, outstanding)
            BY <1>1, <2>1, <3>1, <3>2, <3>3 DEF FirstAnswerTrue
        <3>5. \A k \in Unread(conn)' :
                 True(to_client'[conn'][k].status, outstanding)
                    => True(to_client[conn][k].status, outstanding)'
            BY <1>1 DEF True, Proposed
        <3> QED
            BY <1>1, <2>1, <3>1, <3>2, <3>4, <3>5 DEF FirstAnswerTrue
    <2>2. CASE outstanding # 0 /\ c # conn
        <3>1. worker'[conn] = worker[conn] /\ to_client'[conn] = to_client[conn]
            BY <1>2, <2>2, Waiting
        <3> QED
            BY <1>1, <3>1 DEF FirstAnswerTrue, IsAnswer, Ends, True, Unread, Proposed
    <2> QED
        BY <1>1, <2>1, <2>2 DEF FirstAnswerTrue
<1> QED
    BY <1>1, <1>4, <1>5, <1>6, <1>7, WorkerStep

\* A worker that meets a torn frame keeps the invariant.
LEMMA RejectStep == ASSUME IInv, NEW c \in Conns, reject(c) PROVE IInv'
<1>1. TypeOK
    BY DEF IInv
<1>2. /\ UNCHANGED <<clientVars, last_session_sequence, granted>> /\ worker[c] # "None"
      /\ worker' = [worker EXCEPT ![c] = "Closed"] /\ Answer(c, ErrorReply)
    BY DEF reject
<1>3. /\ to_server' \in [Conns -> Seq(ToServer)]
      /\ \A d \in Conns : Requests(d)' \subseteq Requests(d)
      /\ \A d \in Conns : d # c => to_server'[d] = to_server[d]
    BY <1>1, Received DEF reject
<1>4. ErrorReply \in ToClient /\ ErrorReply \notin ReplyFrame \cup {HelloAck}
    BY FrameKinds DEF ToClient
<1>5. /\ to_client' \in [Conns -> Seq(ToClient)]
      /\ \A d \in Conns : d # c => to_client'[d] = to_client[d]
      /\ Len(to_client[c]) \in Nat /\ Len(to_client'[c]) = Len(to_client[c]) + 1
      /\ \A k \in Unread(c) : to_client'[c][k] = to_client[c][k]
      /\ to_client'[c][Len(to_client[c]) + 1] = ErrorReply
    BY <1>1, <1>2, <1>4, Answered
<1>6. /\ \A k \in Unread(c) : k \in Unread(c)'
      /\ \A k \in Unread(c)' : k \notin Unread(c) => k = Len(to_client[c]) + 1
    BY <1>5 DEF Unread
<1> QED
    BY <1>2, <1>3, <1>4, <1>5, <1>6, EndStep

\* A worker that ends keeps the invariant, whether or not the client still reads
\* what was sent.
LEMMA WorkerEndsStep == ASSUME IInv, NEW c \in Conns, worker_ends(c) PROVE IInv'
<1>1. TypeOK
    BY DEF IInv
<1>2. /\ UNCHANGED <<clientVars, last_session_sequence, granted>> /\ worker[c] # "None"
      /\ worker' = [worker EXCEPT ![c] = "Closed"] /\ to_server' = to_server
    BY DEF worker_ends
<1>3. to_server' \in [Conns -> Seq(ToServer)] /\ (\A d \in Conns : Requests(d)' \subseteq Requests(d))
    BY <1>1, <1>2 DEF TypeOK, Requests
<1>4. CASE to_client' = to_client
    <2>1. to_client' \in [Conns -> Seq(ToClient)] /\ Unread(c)' = Unread(c)
        BY <1>1, <1>4 DEF TypeOK, Unread
    <2> QED
        BY <1>2, <1>3, <1>4, <2>1, EndStep
<1>5. CASE to_client' = [to_client EXCEPT ![c] = <<>>]
    <2>1. to_client' \in [Conns -> Seq(ToClient)] /\ to_client'[c] = <<>>
          /\ (\A d \in Conns : d # c => to_client'[d] = to_client[d])
        BY <1>1, <1>5 DEF TypeOK
    <2>2. Unread(c)' = {}
        BY <2>1 DEF Unread
    <2> QED
        BY <1>2, <1>3, <2>1, <2>2, EndStep
<1> QED
    BY <1>4, <1>5 DEF worker_ends

\* What a reply at the end of a connection leaves of the order of the handshake,
\* and which answers the client then has.
LEMMA ReplyAppended ==
    ASSUME IInv, NEW c \in Conns, worker[c] = "Session", UNCHANGED clientVars,
           worker' \in {worker, [worker EXCEPT ![c] = "Closed"]},
           \A d \in Conns : d # c => /\ to_server'[d] = to_server[d]
                                     /\ last_session_sequence'[d] = last_session_sequence[d],
           NEW r \in ReplyFrame \cup {Oversized}, r \in ReplyFrame => r.id <= calls, Answer(c, r)
    PROVE  /\ to_client' \in [Conns -> Seq(ToClient)]
           /\ worker' \in [Conns -> {"None", "Hello", "Session", "Closed"}]
           /\ conn # c /\ conn \in Conns => worker'[conn] = worker[conn]
           /\ HandshakeFirst'
           /\ \A d \in Conns : \A k \in Unread(d)' :
                 to_client'[d][k] \in ReplyFrame => to_client'[d][k].id <= calls
           /\ conn = c => \E n \in Nat :
                 /\ n \notin Unread(conn) /\ Unread(conn)' = Unread(conn) \cup {n}
                 /\ \A k \in Unread(conn) : k < n /\ to_client'[conn][k] = to_client[conn][k]
                 /\ to_client'[conn][n] = r
           /\ conn # c /\ conn \in Conns => to_client'[conn] = to_client[conn]
<1> USE DEF IInv
<1>1. /\ UNCHANGED <<client, conn, sequence, calls, outstanding, proposal, outcome>>
      /\ worker' \in [Conns -> {"None", "Hello", "Session", "Closed"}]
      /\ worker'[c] \in {"Session", "Closed"}
      /\ \A d \in Conns : d # c => worker'[d] = worker[d]
    BY DEF clientVars, TypeOK
<1>2. r \in ToClient /\ r # HelloAck
    BY FrameKinds DEF ToClient
<1>3. /\ to_client' \in [Conns -> Seq(ToClient)]
      /\ \A d \in Conns : d # c => to_client'[d] = to_client[d]
      /\ Len(to_client[c]) \in Nat /\ Len(to_client'[c]) = Len(to_client[c]) + 1
      /\ \A k \in Unread(c) : to_client'[c][k] = to_client[c][k]
      /\ to_client'[c][Len(to_client[c]) + 1] = r
    BY <1>2, Answered
<1>4. /\ Unread(c)' = Unread(c) \cup {Len(to_client[c]) + 1}
      /\ Len(to_client[c]) + 1 \in Nat
      /\ \A k \in Unread(c) : k < Len(to_client[c]) + 1
      /\ Len(to_client[c]) + 1 \notin Unread(c)
    BY <1>3 DEF Unread
<1>5. \A d \in Conns : \A k \in Unread(d)' : 
         \/ k \in Unread(d) /\ to_client'[d][k] = to_client[d][k]
         \/ to_client'[d][k] = r
    BY <1>3, <1>4 DEF Unread
<1>6. \A d \in Conns : \A k \in Unread(d)' :
         to_client'[d][k] \in ReplyFrame => to_client'[d][k].id <= calls
    BY <1>5 DEF Numbered
<1>7. HandshakeFirst'
    <2>1. \A d \in Conns : d > conn => /\ worker'[d] = "None" /\ to_server'[d] = <<>>
                                      /\ last_session_sequence'[d] = 0
        BY <1>1, Made DEF HandshakeFirst
    <2>2. \A d \in Conns : worker'[d] \in {"None", "Hello"} => to_client'[d] = <<>>
        BY <1>1, <1>3 DEF HandshakeFirst
    <2>3. \A d \in Conns : \A k \in Unread(d)' : to_client'[d][k] = HelloAck => k = 1
        BY <1>2, <1>5 DEF HandshakeFirst
    <2>4. client = "Connected" => conn \in Conns
        BY SessionAssumption DEF TypeOK, HandshakeFirst, Conns
    <2>5. client = "Connected" => worker'[conn] \notin {"None", "Hello"}
        BY <1>1, <2>4 DEF HandshakeFirst
    <2>6. client = "Connected" => \A k \in Unread(conn)' : to_client'[conn][k] # HelloAck
        BY <1>1, <1>2, <1>5, <2>4 DEF HandshakeFirst
    <2> QED
        BY <1>1, <2>1, <2>2, <2>3, <2>5, <2>6 DEF HandshakeFirst
<1>8. conn = c => Unread(conn)' = Unread(c)'
    BY <1>1
<1> QED
    BY <1>1, <1>3, <1>4, <1>6, <1>7, <1>8

\* Refusing a repeated sequence keeps the invariant: the call that waits already
\* has an answer, or a frame that it cannot read, before the refusal.
LEMMA RefuseDuplicateStep == ASSUME IInv, NEW c \in Conns, refuse_duplicate(c) PROVE IInv'
<1> USE DEF IInv
<1> DEFINE frame == Next_frame(c)
<1>1. /\ to_server' \in [Conns -> Seq(ToServer)] /\ frame \in Requests(c)
      /\ frame.seq \in Nat /\ frame.id \in Ids
      /\ \A d \in Conns : Requests(d)' \subseteq Requests(d)
      /\ \A d \in Conns : d # c => to_server'[d] = to_server[d]
    BY Received, FrameKinds, FrameFields DEF refuse_duplicate
<1>2. PICK r \in ReplyFrame \cup {Oversized} :
         Answer(c, r) /\ (r \in ReplyFrame => r.id = frame.id /\ r.id <= calls)
    <2>1. LET reply == Reply(frame.seq, frame.id, "Duplicate") IN
          \E f \in Sent(reply) \cup SentInstead(reply) : Answer(c, f)
        BY DEF refuse_duplicate
    <2> QED
        <3>1. PICK f \in Sent(Reply(frame.seq, frame.id, "Duplicate"))
                          \cup SentInstead(Reply(frame.seq, frame.id, "Duplicate")) : Answer(c, f)
            BY <2>1
        <3>2. f = Oversized \/ (f \in ReplyFrame /\ f.id = frame.id)
            BY <1>1, SentFrames DEF Statuses
        <3>3. frame.id <= calls
            BY <1>1 DEF Numbered
        <3> QED
            BY <3>1, <3>2, <3>3, FrameKinds
<1>3. /\ worker[c] = "Session" /\ UNCHANGED <<clientVars, worker>>
      /\ UNCHANGED <<clientVars, last_session_sequence, granted>>
      /\ UNCHANGED <<client, conn, sequence, calls, outstanding, proposal, outcome>>
      /\ last_session_sequence' = last_session_sequence /\ granted' = granted /\ worker' = worker
      /\ frame.seq <= last_session_sequence[c]
    BY DEF refuse_duplicate, serverVars, clientVars, SeenBefore
<1>4. /\ to_client' \in [Conns -> Seq(ToClient)]
      /\ HandshakeFirst'
      /\ \A d \in Conns : \A k \in Unread(d)' :
            to_client'[d][k] \in ReplyFrame => to_client'[d][k].id <= calls
      /\ conn = c => \E n \in Nat :
            /\ n \notin Unread(conn) /\ Unread(conn)' = Unread(conn) \cup {n}
            /\ \A k \in Unread(conn) : k < n /\ to_client'[conn][k] = to_client[conn][k]
            /\ to_client'[conn][n] = r
      /\ conn # c /\ conn \in Conns => to_client'[conn] = to_client[conn]
    BY <1>1, <1>2, <1>3, ReplyAppended
<1>5. TypeOK'
    BY <1>1, <1>3, <1>4 DEF TypeOK
<1>6. FirstAnswerTrue'
    <2>1. CASE outstanding # 0 /\ conn = c
        <3>1. PICK n \in Nat :
                 /\ n \notin Unread(conn) /\ Unread(conn)' = Unread(conn) \cup {n}
                 /\ \A k \in Unread(conn) : k < n /\ to_client'[conn][k] = to_client[conn][k]
                 /\ to_client'[conn][n] = r
            BY <1>4, <2>1
        <3>2. \A k \in Unread(conn) : (IsAnswer(k)' <=> IsAnswer(k)) /\ (Ends(k) => Ends(k)')
            BY <1>3, <3>1 DEF IsAnswer, Ends
        <3>3. IsAnswer(n)' => sequence <= last_session_sequence[conn]
                              /\ \E k \in Unread(conn) : Ends(k)
            <4>1. IsAnswer(n)' => frame.id = outstanding
                BY <1>2, <1>3, <3>1 DEF IsAnswer
            <4>2. frame.id = outstanding => frame.seq = sequence
                BY <1>1, <2>1 DEF Numbered
            <4> QED
                BY <1>3, <2>1, <4>1, <4>2 DEF FirstAnswerTrue
        <3>4. \A k \in Unread(conn) :
                 True(to_client[conn][k].status, outstanding)
                    => True(to_client[conn][k].status, outstanding)'
            BY <1>3, <3>1 DEF True, Proposed
        <3>5. \A k \in Unread(conn)' :
                 IsAnswer(k)' => \/ \E j \in Unread(conn)' : j < k /\ Ends(j)'
                                 \/ True(to_client[conn][k].status, outstanding)'
            BY <2>1, <3>1, <3>2, <3>3, <3>4 DEF FirstAnswerTrue
        <3> QED
            BY <1>3, <2>1, <3>1, <3>2, <3>3, <3>5 DEF FirstAnswerTrue
    <2>2. CASE outstanding # 0 /\ conn # c
        <3>1. to_client'[conn] = to_client[conn]
            BY <1>4, <2>2, Waiting
        <3> QED
            BY <1>3, <3>1 DEF FirstAnswerTrue, IsAnswer, Ends, True, Unread, Proposed
    <2> QED
        BY <1>3, <2>1, <2>2 DEF FirstAnswerTrue
<1> QED
    BY <1>1, <1>3, <1>4, <1>5, <1>6, WorkerStep

\* Dispatching keeps the invariant: the request's call has no answer yet and made
\* no grant, and this is the last time it is dispatched.
LEMMA DispatchStep == ASSUME IInv, NEW c \in Conns, dispatch(c) PROVE IInv'
<1> USE DEF IInv
<1> DEFINE frame == Next_frame(c)
<1>1. /\ to_server' \in [Conns -> Seq(ToServer)] /\ frame \in Requests(c)
      /\ frame.seq \in Nat /\ frame.id \in Ids
      /\ \A d \in Conns : Requests(d)' \subseteq Requests(d)
      /\ \A d \in Conns : d # c => to_server'[d] = to_server[d]
    BY Received, FrameKinds, FrameFields DEF dispatch
<1>2. PICK status \in IF Proposed(frame.id) THEN {"Duplicate"} ELSE {"Ok", "Refused"} :
         /\ granted' = IF status = "Ok" THEN granted \cup {frame.id} ELSE granted
         /\ LET reply == Reply(frame.seq, frame.id, status) IN
            \/ UNCHANGED worker /\ \E f \in Sent(reply) : Answer(c, f)
            \/ /\ worker' = [worker EXCEPT ![c] = "Closed"]
               /\ UNCHANGED to_client \/ \E f \in SentInstead(reply) : Answer(c, f)
    BY DEF dispatch
<1>3. /\ UNCHANGED <<client, conn, sequence, calls, outstanding, proposal, outcome>>
      /\ UNCHANGED clientVars
      /\ worker[c] = "Session" /\ last_session_sequence[c] \in Nat
      /\ ~ (frame.seq <= last_session_sequence[c])
      /\ last_session_sequence' \in [Conns -> Nat]
      /\ last_session_sequence'[c] = frame.seq
      /\ \A d \in Conns : d # c => last_session_sequence'[d] = last_session_sequence[d]
    BY <1>1 DEF dispatch, clientVars, SeenBefore, TypeOK
<1>4. status \in Statuses /\ frame.id <= calls /\ frame.id \in 1 .. calls
    BY <1>1, <1>2, FrameFields DEF Statuses, Numbered, Ids, TypeOK
<1> DEFINE Replied(f) == \/ f = Oversized
                         \/ f \in ReplyFrame /\ f.id = frame.id /\ f.status \in {status, "LimitExceeded"}
<1>5. /\ granted' \subseteq 1 .. calls
      /\ granted \subseteq granted' /\ granted' \subseteq granted \cup {frame.id}
      /\ granted' # granted => status = "Ok" /\ ~ Proposed(frame.id)
    BY <1>2, <1>4 DEF TypeOK
<1>6. /\ to_client' \in [Conns -> Seq(ToClient)] /\ HandshakeFirst'
      /\ worker' \in [Conns -> {"None", "Hello", "Session", "Closed"}]
      /\ \A d \in Conns : \A k \in Unread(d)' :
            to_client'[d][k] \in ReplyFrame => to_client'[d][k].id <= calls
      /\ conn = c => \/ worker'[conn] # "Session" /\ to_client'[conn] = to_client[conn]
                     \/ \E n \in Nat :
                          /\ n \notin Unread(conn) /\ Unread(conn)' = Unread(conn) \cup {n}
                          /\ \A k \in Unread(conn) : k < n /\ to_client'[conn][k] = to_client[conn][k]
                          /\ Replied(to_client'[conn][n])
      /\ conn # c /\ conn \in Conns =>
            to_client'[conn] = to_client[conn] /\ worker'[conn] = worker[conn]
    <2>1. ASSUME NEW f, Replied(f), Answer(c, f),
                 worker' \in {worker, [worker EXCEPT ![c] = "Closed"]}
          PROVE  <1>6!:
        <3>1. f \in ReplyFrame \cup {Oversized} /\ (f \in ReplyFrame => f.id <= calls)
            BY <1>4, <2>1, FrameKinds
        <3>2. /\ to_client' \in [Conns -> Seq(ToClient)] /\ HandshakeFirst'
              /\ worker' \in [Conns -> {"None", "Hello", "Session", "Closed"}]
              /\ \A d \in Conns : \A k \in Unread(d)' :
                    to_client'[d][k] \in ReplyFrame => to_client'[d][k].id <= calls
              /\ conn = c => \E n \in Nat :
                    /\ n \notin Unread(conn) /\ Unread(conn)' = Unread(conn) \cup {n}
                    /\ \A k \in Unread(conn) : k < n /\ to_client'[conn][k] = to_client[conn][k]
                    /\ to_client'[conn][n] = f
              /\ conn # c /\ conn \in Conns =>
                    to_client'[conn] = to_client[conn] /\ worker'[conn] = worker[conn]
            BY <1>1, <1>3, <2>1, <3>1, ReplyAppended
        <3> QED
            BY <2>1, <3>2
    <2>2. CASE worker' = [worker EXCEPT ![c] = "Closed"] /\ UNCHANGED to_client
        <3>1. /\ worker' \in [Conns -> {"None", "Hello", "Session", "Closed"}]
              /\ worker'[c] = "Closed" /\ \A d \in Conns : d # c => worker'[d] = worker[d]
            BY <2>2 DEF TypeOK
        <3>2. \A d \in Conns : /\ to_client'[d] = to_client[d] /\ Unread(d)' = Unread(d)
            BY <2>2 DEF Unread
        <3>3. \A d \in Conns : d > conn => /\ worker'[d] = "None" /\ to_server'[d] = <<>>
                                          /\ last_session_sequence'[d] = 0
            BY <1>1, <1>3, <3>1, Made DEF HandshakeFirst
        <3>4. client = "Connected" => conn \in Conns
            BY SessionAssumption DEF TypeOK, HandshakeFirst, Conns
        <3>5. client = "Connected" => /\ worker'[conn] \notin {"None", "Hello"}
                                      /\ Unread(conn)' = Unread(conn)
            BY <1>3, <3>1, <3>2, <3>4 DEF HandshakeFirst
        <3>6. HandshakeFirst'
            BY <1>3, <2>2, <3>1, <3>2, <3>3, <3>5 DEF HandshakeFirst
        <3> QED
            BY <2>2, <3>1, <3>2, <3>6 DEF TypeOK, Numbered
    <2>3. \A f \in Sent(Reply(frame.seq, frame.id, status))
                   \cup SentInstead(Reply(frame.seq, frame.id, status)) : Replied(f)
        BY <1>1, <1>4, SentFrames
    <2> QED
        BY <1>2, <2>1, <2>2, <2>3
<1>7. TypeOK'
    BY <1>1, <1>3, <1>5, <1>6 DEF TypeOK
<1>8. conn # 0 => conn \in Conns
    BY SessionAssumption DEF TypeOK, Conns
<1>9. Numbered'
    <2>1. conn # 0 => Requests(conn)' \subseteq Requests(conn)
        BY <1>1, <1>3, <1>8
    <2>2. conn # 0 => last_session_sequence'[conn] <= sequence
        BY <1>1, <1>3, <1>8 DEF Numbered
    <2> QED
        BY <1>1, <1>3, <1>6, <2>1, <2>2 DEF Numbered
<1>10. ReturnedSettled'
    <2>1. \A d \in Conns : /\ last_session_sequence[d] \in Nat /\ last_session_sequence'[d] \in Nat
                           /\ last_session_sequence[d] <= last_session_sequence'[d]
        <3>1. last_session_sequence \in [Conns -> Nat]
            BY DEF TypeOK
        <3>2. last_session_sequence[c] <= last_session_sequence'[c]
            BY <1>1, <1>3
        <3> QED
            BY <1>3, <3>1, <3>2
    <2>2. \A d \in Conns : \A q \in Requests(d) : q.seq \in Nat
        BY FrameFields DEF Requests
    <2>3. \A d \in Conns : \A q \in Requests(d) :
             q.seq <= last_session_sequence[d] => q.seq <= last_session_sequence'[d]
        BY <2>1, <2>2
    <2> QED
        BY <1>1, <1>3, <2>3 DEF ReturnedSettled, Settled
<1>11. ~ Settled(frame.id)
    BY <1>1, <1>3 DEF Settled
<1>12. OneGrantPerProposal'
    BY <1>3, <1>5 DEF OneGrantPerProposal, Proposed
<1>13. OutcomesTrue'
    <2>1. outcome[frame.id] \notin {"Ok", "Duplicate", "Refused"}
        BY <1>1, <1>11 DEF ReturnedSettled, Statuses
    <2> QED
        BY <1>3, <1>5, <2>1 DEF OutcomesTrue, Proposed
<1>14. FirstAnswerTrue'
    <2>1. CASE outstanding # 0 /\ conn = c
        <3>1. conn \in Conns /\ conn # 0 /\ sequence \in Nat /\ outstanding \in Ids
            BY <2>1, Waiting
        <3>2. ~ (sequence <= last_session_sequence[conn])
            BY <1>1, <1>3, <2>1, <3>1 DEF Numbered
        <3>3. outstanding \notin granted /\ (\A k \in Unread(conn) : ~ IsAnswer(k))
            BY <2>1, <3>2 DEF FirstAnswerTrue
        <3>4. frame.id = outstanding <=> frame.seq = sequence
            BY <1>1, <2>1 DEF Numbered
        <3>5. frame.seq <= sequence
            BY <1>1, <2>1, <3>1 DEF Numbered
        <3>6. outstanding \in granted' => sequence <= last_session_sequence'[conn]
            BY <1>1, <1>3, <1>5, <2>1, <3>1, <3>3, <3>4
        <3>7. sequence <= last_session_sequence'[conn] => frame.id = outstanding
            BY <1>1, <1>3, <2>1, <3>1, <3>4, <3>5
        <3>8. frame.id = outstanding => sequence <= last_session_sequence'[conn]
            BY <1>1, <1>3, <2>1, <3>1, <3>4
        <3>9. frame.id = outstanding => True(status, outstanding)'
            BY <1>2, <1>3, <3>3 DEF True, Proposed
        <3>10. CASE worker'[conn] # "Session" /\ to_client'[conn] = to_client[conn]
            <4>1. \A k \in Unread(conn)' : ~ IsAnswer(k)'
                BY <1>3, <3>3, <3>10 DEF IsAnswer, Unread
            <4> QED
                BY <1>3, <3>6, <3>10, <4>1 DEF FirstAnswerTrue
        <3>11. ASSUME NEW n \in Nat,
                      n \notin Unread(conn), Unread(conn)' = Unread(conn) \cup {n},
                      \A k \in Unread(conn) : k < n /\ to_client'[conn][k] = to_client[conn][k],
                      Replied(to_client'[conn][n])
               PROVE  FirstAnswerTrue'
            <4>1. \A k \in Unread(conn)' : IsAnswer(k)' => k = n /\ frame.id = outstanding
                BY <1>3, <3>3, <3>11, FrameKinds DEF IsAnswer
            <4>2. frame.id = outstanding => Ends(n)' /\ n \in Unread(conn)'
                BY <1>3, <3>11 DEF IsAnswer, Ends
            <4>3. IsAnswer(n)' => True(to_client[conn][n].status, outstanding)'
                <5>1. IsAnswer(n)' => to_client'[conn][n].status \in {status, "LimitExceeded"}
                    BY <1>3, <3>11, FrameKinds DEF IsAnswer
                <5>2. True("LimitExceeded", outstanding)'
                    BY DEF True
                <5>3. IsAnswer(n)' => frame.id = outstanding
                    BY <3>11, <4>1
                <5> QED
                    BY <1>3, <3>9, <5>1, <5>2, <5>3
            <4> QED
                BY <1>3, <3>6, <3>7, <3>8, <4>1, <4>2, <4>3 DEF FirstAnswerTrue
        <3> QED
            BY <1>6, <2>1, <3>10, <3>11
    <2>2. CASE outstanding # 0 /\ conn # c
        <3>1. /\ conn \in Conns /\ to_client'[conn] = to_client[conn] /\ worker'[conn] = worker[conn]
              /\ last_session_sequence'[conn] = last_session_sequence[conn]
            BY <1>3, <1>6, <2>2, Waiting
        <3>2. frame.id # outstanding
            BY <1>1, <2>2 DEF Numbered
        <3>3. outstanding \in granted' <=> outstanding \in granted
            BY <1>5, <3>2
        <3>4. /\ Unread(conn)' = Unread(conn)
              /\ \A k \in Unread(conn) : (IsAnswer(k)' <=> IsAnswer(k)) /\ (Ends(k)' <=> Ends(k))
            BY <1>3, <3>1 DEF Unread, IsAnswer, Ends
        <3>5. \A k \in Unread(conn) :
                 True(to_client[conn][k].status, outstanding)
                    => True(to_client[conn][k].status, outstanding)'
            BY <1>3, <1>5, <3>1, <3>3 DEF True, Proposed
        <3> QED
            BY <1>3, <2>2, <3>1, <3>3, <3>4, <3>5 DEF FirstAnswerTrue
    <2> QED
        BY <1>3, <2>1, <2>2 DEF FirstAnswerTrue
<1> QED
    BY <1>6, <1>7, <1>9, <1>10, <1>12, <1>13, <1>14

------------------------------------------------------------------------------
(* The invariant *)

\* Before the first connection nothing is on its way and nothing was called.
LEMMA InitInv == Init => IInv
<1> SUFFICES ASSUME Init PROVE IInv
    OBVIOUS
<1>1. /\ \A c \in Conns : to_client[c] = <<>> /\ Requests(c) = {} /\ Unread(c) = {}
      /\ conn = 0 /\ outstanding = 0 /\ granted = {}
    BY DEF Init, Requests, Frames, Unread
<1>2. TypeOK
    BY SessionAssumption DEF Init, TypeOK
<1>3. HandshakeFirst
    BY <1>1 DEF Init, HandshakeFirst
<1>4. Numbered
    BY <1>1 DEF Init, Numbered
<1> QED
    BY <1>1, <1>2, <1>3, <1>4
    DEF Init, IInv, ReturnedSettled, Settled, FirstAnswerTrue, OneGrantPerProposal, OutcomesTrue,
        Statuses

\* Every step of the client and of its workers keeps the invariant.
LEMMA NextInv == IInv /\ [Next]_vars => IInv'
<1> SUFFICES ASSUME IInv, [Next]_vars PROVE IInv'
    OBVIOUS
<1>1. ASSUME NEW c \in Conns, serve(c) PROVE IInv'
    BY <1>1, HandshakeStep, RejectStep, RefuseDuplicateStep, DispatchStep, WorkerEndsStep DEF serve
<1>2. CASE UNCHANGED vars
    BY <1>2 DEF vars, IInv, TypeOK, HandshakeFirst, Numbered, ReturnedSettled, Settled, FirstAnswerTrue,
                OneGrantPerProposal, OutcomesTrue, Proposed, Requests, Unread, IsAnswer, Ends, True
<1> QED
    BY <1>1, <1>2, ConnectStep, ConnectedStep, CloseStep, SendRequestStep, ReceiveReplyStep,
       FailedReceiveStep, ResendStep DEF Next

\* A proposal gets at most one grant, however often and on however many connections
\* it is sent: the check of the daemon and the order in which a worker dispatches
\* leave room for no second one.
THEOREM ProposalGrantedOnce == Spec => []OneGrantPerProposal
<1>1. IInv => OneGrantPerProposal
    BY DEF IInv
<1> QED
    BY <1>1, InitInv, NextInv, PTL DEF Spec

\* What a call returns is true of that call, for any number of calls, connections
\* and repeated frames, also behind replies that were too large and that the client
\* got an error for or could not read.
THEOREM ReturnsTrue == Spec => []OutcomesTrue
<1>1. IInv => OutcomesTrue
    BY DEF IInv
<1> QED
    BY <1>1, InitInv, NextInv, PTL DEF Spec
==============================================================================
