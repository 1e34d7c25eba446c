------------------------------- MODULE Session -------------------------------
(***************************************************************************)
(* The request protocol between a client (client.cpp) and the workers that *)
(* serve its connections (serve in server.cpp), for the request whose      *)
(* repetition matters most: a grant proposal.  The caller may give up      *)
(* waiting, call again on the same connection or on a new one, and propose *)
(* again what it does not know to have succeeded; a worker of an           *)
(* abandoned connection may still be at work on what it was sent.          *)
(*                                                                         *)
(* A connection is two queues of frames.  Frame formats and versions are   *)
(* left out, and of the frame bounds there is what exceeding them leads    *)
(* to: a request is not sent, a reply is replaced by an error, and a reply *)
(* that the server sends all the same makes the client's decoder fail.     *)
(* Definitions named X_... are faulty variants of X.                       *)
(***************************************************************************)
EXTENDS Naturals, Sequences, FiniteSets

CONSTANTS Proposals,
          MaxConnections, MaxCalls, MaxResends   \* bounds of the model

ASSUME SessionAssumption == {MaxConnections, MaxCalls, MaxResends} \subseteq Nat

VARIABLES
    client,                  \* "Closed", "Connecting" or "Connected"
    conn,                    \* its connection, the last one made
    sequence,                \* sequence_
    calls,                   \* calls made; the identity of a request is its number
    outstanding,             \* the request round_trip waits for, 0 if none
    decoder_failed,          \* failed_ of the client's decoder
    proposal, outcome,       \* of each call: what it proposed, what it returned
    to_server, to_client,    \* the frames on their way, by connection
    worker,                  \* by connection: "None", "Hello", "Session" or "Closed"
    last_session_sequence,   \* by connection
    granted,                 \* the requests that created a grant
    resends

vars == <<client, conn, sequence, calls, outstanding, decoder_failed, proposal, outcome,
          to_server, to_client, worker, last_session_sequence, granted, resends>>

clientVars == <<client, conn, sequence, calls, outstanding, decoder_failed, proposal, outcome>>
serverVars == <<worker, last_session_sequence, granted>>

Conns == 1 .. MaxConnections
Ids   == 1 .. MaxCalls

Hello    == [type |-> "Hello"]
HelloAck == [type |-> "HelloAck"]
Torn     == [type |-> "Torn"]    \* part of a frame
ErrorReply == [type |-> "Error", seq |-> 0, id |-> 0, status |-> "Error"]
Oversized  == [type |-> "Oversized", seq |-> 0, id |-> 0, status |-> "Error"]  \* for the client
Request(seq, id)       == [type |-> "Request", seq |-> seq, id |-> id]
Reply(seq, id, status) == [type |-> "Reply", seq |-> seq, id |-> id, status |-> status]

Init ==
    /\ client = "Closed" /\ conn = 0 /\ sequence = 0 /\ calls = 0 /\ outstanding = 0
    /\ decoder_failed = FALSE
    /\ proposal = [i \in Ids |-> "None"]
    /\ outcome = [i \in Ids |-> "None"]
    /\ to_server = [c \in Conns |-> <<>>] /\ to_client = [c \in Conns |-> <<>>]
    /\ worker = [c \in Conns |-> "None"]
    /\ last_session_sequence = [c \in Conns |-> 0]
    /\ granted = {} /\ resends = 0

------------------------------------------------------------------------------
(* The client *)

Send(c, frame) == to_server' = [to_server EXCEPT ![c] = Append(@, frame)]

\* The server accepts the connection, or turns it away because it has too many.
connect ==
    /\ client = "Closed"
    /\ conn < MaxConnections
    /\ conn' = conn + 1
    /\ client' = "Connecting"
    /\ sequence' = 0 /\ decoder_failed' = FALSE
    /\ Send(conn', Hello)
    /\ \/ worker' = [worker EXCEPT ![conn'] = "Hello"] /\ UNCHANGED to_client
       \/ /\ worker' = [worker EXCEPT ![conn'] = "Closed"]
          /\ to_client' = [to_client EXCEPT ![conn'] = <<ErrorReply>>]
    /\ UNCHANGED <<calls, outstanding, proposal, outcome, last_session_sequence,
                   granted, resends>>

connected ==
    /\ client = "Connecting"
    /\ to_client[conn] # <<>>
    /\ to_client' = [to_client EXCEPT ![conn] = Tail(@)]
    /\ client' = IF Head(to_client[conn]) = HelloAck THEN "Connected" ELSE "Closed"
    /\ UNCHANGED <<conn, sequence, calls, outstanding, decoder_failed, proposal, outcome,
                   to_server, serverVars, resends>>

\* The handshake fails, or the caller closes the connection.
close ==
    /\ client # "Closed" /\ outstanding = 0
    /\ client' = "Closed"
    /\ UNCHANGED <<conn, sequence, calls, outstanding, decoder_failed, proposal, outcome,
                   to_server, to_client, serverVars, resends>>

\* The first half of round_trip.  The sequence moves on even if nothing is sent.
\* A send that fails leaves part of the frame or nothing, and the socket open.
send_request(p) ==
    /\ client = "Connected" /\ outstanding = 0
    /\ calls < MaxCalls
    /\ calls' = calls + 1
    /\ sequence' = sequence + 1
    /\ proposal' = [proposal EXCEPT ![calls'] = p]
    /\ \/ /\ Send(conn, Request(sequence', calls'))
          /\ outstanding' = calls'
          /\ UNCHANGED outcome
       \/ /\ outcome' = [outcome EXCEPT ![calls'] = "Unavailable"]
          /\ Send(conn, Torn) \/ UNCHANGED to_server
          /\ UNCHANGED outstanding
       \/ /\ outcome' = [outcome EXCEPT ![calls'] = "LimitExceeded"]
          /\ UNCHANGED <<to_server, outstanding>>
    /\ UNCHANGED <<client, conn, decoder_failed, to_client, serverVars, resends>>

Return(result) ==
    /\ outcome' = [outcome EXCEPT ![outstanding] = result]
    /\ outstanding' = 0
    /\ UNCHANGED <<client, conn, sequence, calls, proposal, to_server, serverVars, resends>>

\* Any reply is taken for the answer.
receive_reply_AnyReply ==
    /\ outstanding # 0 /\ ~decoder_failed /\ to_client[conn] # <<>>
    /\ Head(to_client[conn]) # Oversized
    /\ to_client' = [to_client EXCEPT ![conn] = Tail(@)]
    /\ Return(Head(to_client[conn]).status)
    /\ UNCHANGED decoder_failed

\* The second half of round_trip.
receive_reply ==
    /\ outstanding # 0 /\ ~decoder_failed /\ to_client[conn] # <<>>
    /\ Head(to_client[conn]) # Oversized
    /\ to_client' = [to_client EXCEPT ![conn] = Tail(@)]
    /\ LET r == Head(to_client[conn]) IN
       Return(IF r.id = outstanding /\ r.seq = sequence THEN r.status ELSE "Conflicting")
    /\ UNCHANGED decoder_failed

\* The decoder refuses a frame above its bound, or more unread bytes than it buffers,
\* and everything after that.
reject_reply ==
    /\ outstanding # 0
    /\ \/ decoder_failed /\ Return("Corrupt")
       \/ /\ ~decoder_failed /\ to_client[conn] # <<>>
          /\ \/ Head(to_client[conn]) = Oversized /\ Return("LimitExceeded")
             \/ Return("Unavailable")
    /\ decoder_failed' = TRUE
    /\ UNCHANGED to_client

\* The receive times out, or finds the connection at its end.  The socket stays
\* open, and the answer may still come.
give_up ==
    /\ outstanding # 0 /\ ~decoder_failed
    /\ Return("Unavailable")
    /\ UNCHANGED <<to_client, decoder_failed>>

\* A peer other than this client may send its last frame again.
resend ==
    /\ resends < MaxResends /\ outstanding # 0
    /\ resends' = resends + 1
    /\ Send(conn, Request(sequence, outstanding))
    /\ UNCHANGED <<clientVars, to_client, serverVars>>

------------------------------------------------------------------------------
(* The worker of a connection *)

Answer(c, reply) == to_client' = [to_client EXCEPT ![c] = Append(@, reply)]
Receive(c)       == to_server' = [to_server EXCEPT ![c] = Tail(@)]
Next_frame(c)    == Head(to_server[c])

\* The hello is refused, too, or its answer is above the server's bound.
handshake(c) ==
    /\ worker[c] = "Hello" /\ to_server[c] # <<>>
    /\ Receive(c)
    /\ \/ /\ Next_frame(c) = Hello
          /\ Answer(c, HelloAck) /\ worker' = [worker EXCEPT ![c] = "Session"]
       \/ Answer(c, ErrorReply) /\ worker' = [worker EXCEPT ![c] = "Closed"]
    /\ UNCHANGED <<clientVars, last_session_sequence, granted, resends>>

\* The rest of a torn frame never comes, or a later frame comes in its place.
reject(c) ==
    /\ worker[c] = "Session" /\ to_server[c] # <<>>
    /\ Next_frame(c) = Torn
    /\ Receive(c)
    /\ Answer(c, ErrorReply)
    /\ worker' = [worker EXCEPT ![c] = "Closed"]
    /\ UNCHANGED <<clientVars, last_session_sequence, granted, resends>>

\* send_response: what arrives of a reply, which the client's bound may not allow, and
\* of the error sent in place of one above the server's own bound.
Sent(reply)        == {reply, Oversized}
SentInstead(reply) == {[reply EXCEPT !.status = "LimitExceeded"], Oversized}

SeenBefore(c, frame) == frame.seq <= last_session_sequence[c]

refuse_duplicate(c) ==
    /\ worker[c] = "Session" /\ to_server[c] # <<>>
    /\ LET frame == Next_frame(c) IN
       /\ frame.type = "Request" /\ SeenBefore(c, frame)
       /\ Receive(c)
       /\ LET reply == Reply(frame.seq, frame.id, "Duplicate") IN
          \E sent \in Sent(reply) \cup SentInstead(reply) : Answer(c, sent)
    /\ UNCHANGED <<clientVars, serverVars, resends>>

\* The request index is not consulted.
Proposed_Unchecked(id) == FALSE

\* A grant exists for the proposal's request identity.
Proposed(id) == \E i \in granted : proposal[i] = proposal[id]

\* The daemon takes the proposal or refuses it; then the reply is sent.  The worker
\* ends when the send fails, and when an error is sent in place of the reply.
dispatch(c) ==
    /\ worker[c] = "Session" /\ to_server[c] # <<>>
    /\ LET frame == Next_frame(c) IN
       /\ frame.type = "Request" /\ ~SeenBefore(c, frame)
       /\ Receive(c)
       /\ last_session_sequence' = [last_session_sequence EXCEPT ![c] = frame.seq]
       /\ \E status \in IF Proposed(frame.id) THEN {"Duplicate"} ELSE {"Ok", "Refused"} :
             /\ granted' = IF status = "Ok" THEN granted \cup {frame.id} ELSE granted
             /\ LET reply == Reply(frame.seq, frame.id, status) IN
                \/ UNCHANGED worker /\ \E sent \in Sent(reply) : Answer(c, sent)
                \/ /\ worker' = [worker EXCEPT ![c] = "Closed"]
                   /\ UNCHANGED to_client \/ \E sent \in SentInstead(reply) : Answer(c, sent)
    /\ UNCHANGED <<clientVars, resends>>

\* The worker ends: its peer is idle or gone, or the server stops.  What the
\* client has not read may be lost.
worker_ends(c) ==
    /\ worker[c] \in {"Hello", "Session"}
    /\ worker' = [worker EXCEPT ![c] = "Closed"]
    /\ UNCHANGED to_client \/ to_client' = [to_client EXCEPT ![c] = <<>>]
    /\ UNCHANGED <<clientVars, to_server, last_session_sequence, granted, resends>>

serve(c) ==
    \/ handshake(c)
    \/ reject(c)
    \/ refuse_duplicate(c)
    \/ dispatch(c)
    \/ worker_ends(c)

Next ==
    \/ connect
    \/ connected
    \/ close
    \/ \E p \in Proposals : send_request(p)
    \/ receive_reply
    \/ reject_reply
    \/ give_up
    \/ resend
    \/ \E c \in Conns : serve(c)

Spec == Init /\ [][Next]_vars

------------------------------------------------------------------------------
(* Properties *)

\* PROTOCOL.md: "a replayed proposal cannot create a second grant even on a fresh
\* connection", also when the worker of an abandoned connection gets to the first
\* attempt after the second one.
OneGrantPerProposal == \A i, j \in granted : proposal[i] = proposal[j] => i = j

\* PROTOCOL.md: a reply that does not match is "reported as CONFLICTING rather than
\* accepted", and a repeated sequence is "not dispatched".  What a call returns is
\* true of that call, however late the answers to earlier calls come and whatever
\* frame arrives twice: on success it created the grant, on a duplicate another
\* attempt did, and what was refused created none.  All else that a call returns,
\* LimitExceeded included, says nothing about it: that is also what the caller gets
\* when the request was granted and the reply was too large.
OutcomesTrue ==
    \A i \in Ids :
        /\ outcome[i] = "Ok" => i \in granted
        /\ outcome[i] = "Duplicate" => i \notin granted /\ Proposed(i)
        /\ outcome[i] = "Refused" => i \notin granted
==============================================================================
