-------------------------------- MODULE Server --------------------------------
(***************************************************************************)
(* The threads of the daemon process (server.cpp, isfd/main.cpp and the    *)
(* ticker of daemon.cpp): one accept thread, one worker per connection,    *)
(* the ticker, and the main thread that stops them in order.               *)
(*                                                                         *)
(* A step ends where another thread can observe the difference.  What a    *)
(* connection carries is left out: a worker that has received a frame may  *)
(* hand a request to the daemon, of which only the commit mutex is         *)
(* represented.  Module Session has the frames.  A socket that stop shuts  *)
(* down may or may not wake its reader, which the code does not rely on.   *)
(* Definitions named X_... are faulty variants of X.                       *)
(***************************************************************************)
EXTENDS Naturals, FiniteSets

CONSTANTS Connections,        \* connection objects
          Nil,
          max_connections,
          kMaxAcceptErrors,   \* failures in a row that end the accept loop; 64
          MaxBacklog          \* bound of the model: peers waiting to be accepted

ASSUME ServerAssumption ==
    /\ Nil \notin Connections
    /\ "ticker" \notin Connections \cup {Nil}   \* who may hold the commit mutex
    /\ max_connections \in Nat \ {0}
    /\ kMaxAcceptErrors \in Nat /\ MaxBacklog \in Nat

VARIABLES
    accept,               \* where the accept thread is
    consecutive_errors,
    backlog,              \* peers the listener has not accepted yet
    starting,             \* the connection whose worker runs but is not registered yet
    connections,          \* connections_
    connections_active,
    worker,               \* where each connection's worker is
    commit_mutex,         \* who holds the daemon's commit_mutex_
    ticker,               \* where the ticker is
    main,                 \* where the main thread is
    stop_requested,       \* g_stop_requested
    stopping,             \* FabricServer::stopping_
    daemon_stopping       \* Daemon::stopping_

vars == <<accept, consecutive_errors, backlog, starting, connections, connections_active,
          worker, commit_mutex, ticker, main, stop_requested, stopping, daemon_stopping>>

Ticker == "ticker"

Running(c) == worker[c] \notin {"None", "Done"}

Init ==
    /\ accept = "LoopHead" /\ consecutive_errors = 0 /\ backlog = 0
    /\ starting = Nil /\ connections = {} /\ connections_active = 0
    /\ worker = [c \in Connections |-> "None"]
    /\ commit_mutex = Nil
    /\ ticker = "LoopHead" /\ main = "Running"
    /\ stop_requested = FALSE /\ stopping = FALSE /\ daemon_stopping = FALSE

------------------------------------------------------------------------------
(* The accept thread *)

accept_unchanged == UNCHANGED <<commit_mutex, ticker, main, stop_requested, stopping,
                                daemon_stopping>>

accept_loop_head ==
    /\ accept = "LoopHead"
    /\ accept' = IF stopping THEN "Ended" ELSE "Polling"
    /\ UNCHANGED <<consecutive_errors, backlog, starting, connections, connections_active,
                   worker>>
    /\ accept_unchanged

\* accept_for waits for a bounded time.
accept_timed_out ==
    /\ accept = "Polling" /\ backlog = 0
    /\ accept' = "LoopHead"
    /\ UNCHANGED <<consecutive_errors, backlog, starting, connections, connections_active,
                   worker>>
    /\ accept_unchanged

\* accept fails; after too many failures in a row the loop gives up.
accept_error ==
    /\ accept = "Polling"
    /\ IF stopping
       THEN accept' = "Ended" /\ UNCHANGED consecutive_errors
       ELSE /\ consecutive_errors' = consecutive_errors + 1
            /\ accept' = IF consecutive_errors' > kMaxAcceptErrors THEN "Ended" ELSE "LoopHead"
    /\ UNCHANGED <<backlog, starting, connections, connections_active, worker>>
    /\ accept_unchanged

accept_connection ==
    /\ accept = "Polling" /\ backlog > 0
    /\ backlog' = backlog - 1
    /\ consecutive_errors' = 0
    /\ accept' = "Accepted"
    /\ UNCHANGED <<starting, connections, connections_active, worker>>
    /\ accept_unchanged

\* Nothing is ever reaped.
Finished_None == {}

\* The registered connections whose workers are done, which reap_finished joins.
Finished == {c \in connections : worker[c] = "Done"}

\* reap_finished and the test of the bound; a connection that finishes between
\* the two is one that finishes after both.
Reap ==
    /\ connections' = connections \ Finished
    /\ connections_active' = connections_active - Cardinality(Finished)

\* The refusal is sent without a time limit to a peer that does not read.
reject_Blocks ==
    /\ accept = "Accepted"
    /\ connections_active - Cardinality(Finished) >= max_connections
    /\ UNCHANGED vars

reject ==
    /\ accept = "Accepted"
    /\ Reap
    /\ connections_active' >= max_connections
    /\ worker' = [c \in Connections |-> IF c \in Finished THEN "None" ELSE worker[c]]
    /\ accept' = "LoopHead"
    /\ UNCHANGED <<consecutive_errors, backlog, starting>>
    /\ accept_unchanged

start_worker ==
    /\ accept = "Accepted"
    /\ Reap
    /\ connections_active' < max_connections
    /\ \E c \in Connections :
          /\ worker[c] = "None" \/ c \in Finished
          /\ starting' = c
          /\ worker' = [d \in Connections |-> IF d = c THEN "LoopHead"
                                              ELSE IF d \in Finished THEN "None" ELSE worker[d]]
    /\ accept' = "Registering"
    /\ UNCHANGED <<consecutive_errors, backlog>>
    /\ accept_unchanged

\* The connection is in the registry but not in the count.
register_connection_Uncounted ==
    /\ accept = "Registering"
    /\ connections' = connections \cup {starting}
    /\ starting' = Nil
    /\ accept' = "LoopHead"
    /\ UNCHANGED <<consecutive_errors, backlog, connections_active, worker>>
    /\ accept_unchanged

register_connection ==
    /\ accept = "Registering"
    /\ connections' = connections \cup {starting}
    /\ connections_active' = connections_active + 1
    /\ starting' = Nil
    /\ accept' = "LoopHead"
    /\ UNCHANGED <<consecutive_errors, backlog, worker>>
    /\ accept_unchanged

accept_loop ==
    \/ accept_loop_head
    \/ accept_timed_out
    \/ accept_error
    \/ accept_connection
    \/ reject
    \/ start_worker
    \/ register_connection

------------------------------------------------------------------------------
(* The worker of a connection *)

worker_unchanged == UNCHANGED <<accept, consecutive_errors, backlog, starting, connections,
                                connections_active, ticker, main, stopping, daemon_stopping>>

\* A worker reads on as long as its peer sends.
serve_loop_head_Deaf(c) ==
    /\ worker[c] = "LoopHead"
    /\ worker' = [worker EXCEPT ![c] = "Receiving"]
    /\ UNCHANGED <<commit_mutex, stop_requested>>
    /\ worker_unchanged

serve_loop_head(c) ==
    /\ worker[c] = "LoopHead"
    /\ worker' = [worker EXCEPT ![c] = IF stopping THEN "Closing" ELSE "Receiving"]
    /\ UNCHANGED <<commit_mutex, stop_requested>>
    /\ worker_unchanged

\* A frame with a request arrives; or nothing to dispatch does, and the loop goes
\* round; or the peer closed, was idle for too long or sent a bad frame.
receive(c) ==
    /\ worker[c] = "Receiving"
    /\ worker' \in {[worker EXCEPT ![c] = next] : next \in {"Handling", "LoopHead", "Closing"}}
    /\ UNCHANGED <<commit_mutex, stop_requested>>
    /\ worker_unchanged

\* A mutation takes the commit mutex; a read does not.
handle(c) ==
    /\ worker[c] = "Handling"
    /\ \/ /\ commit_mutex = Nil
          /\ commit_mutex' = c
          /\ worker' = [worker EXCEPT ![c] = "Committing"]
       \/ /\ worker' = [worker EXCEPT ![c] = "Replying"]
          /\ UNCHANGED commit_mutex
    /\ UNCHANGED stop_requested
    /\ worker_unchanged

handled(c) ==
    /\ worker[c] = "Committing"
    /\ commit_mutex' = Nil
    /\ worker' = [worker EXCEPT ![c] = "Replying"]
    /\ UNCHANGED stop_requested
    /\ worker_unchanged

\* The reply is sent within the send timeout; a shutdown request is passed on
\* to the main thread once it has been answered.
reply(c) ==
    /\ worker[c] = "Replying"
    /\ \/ worker' = [worker EXCEPT ![c] = "LoopHead"] /\ UNCHANGED stop_requested
       \/ worker' = [worker EXCEPT ![c] = "Closing"] /\ UNCHANGED stop_requested
       \/ worker' = [worker EXCEPT ![c] = "Closing"] /\ stop_requested' = TRUE
    /\ UNCHANGED commit_mutex
    /\ worker_unchanged

close(c) ==
    /\ worker[c] = "Closing"
    /\ worker' = [worker EXCEPT ![c] = "Done"]
    /\ UNCHANGED <<commit_mutex, stop_requested>>
    /\ worker_unchanged

serve(c) ==
    \/ serve_loop_head(c)
    \/ receive(c)
    \/ handle(c)
    \/ handled(c)
    \/ reply(c)
    \/ close(c)

------------------------------------------------------------------------------
(* The ticker *)

ticker_unchanged == UNCHANGED <<accept, consecutive_errors, backlog, starting, connections,
                                connections_active, worker, main, stop_requested, stopping,
                                daemon_stopping>>

\* It sleeps, and ends if it finds that the daemon stops.
ticker_loop_head ==
    /\ ticker = "LoopHead"
    /\ ticker' = IF daemon_stopping THEN "Ended" ELSE "Ticking"
    /\ UNCHANGED commit_mutex
    /\ ticker_unchanged

tick_begins ==
    /\ ticker = "Ticking"
    /\ commit_mutex = Nil
    /\ commit_mutex' = Ticker
    /\ ticker' = "Committing"
    /\ ticker_unchanged

tick_ends ==
    /\ ticker = "Committing"
    /\ commit_mutex' = Nil
    /\ ticker' = "LoopHead"
    /\ ticker_unchanged

ticker_loop == ticker_loop_head \/ tick_begins \/ tick_ends

------------------------------------------------------------------------------
(* The main thread, signals and peers *)

main_unchanged == UNCHANGED <<accept, consecutive_errors, starting, connections_active,
                              worker, commit_mutex, ticker, stop_requested>>

stop_server ==
    /\ main = "Running" /\ stop_requested
    /\ stopping' = TRUE
    /\ main' = "JoiningAccept"
    /\ UNCHANGED <<backlog, connections, daemon_stopping>>
    /\ main_unchanged

\* The registry is looked at while the accept thread may still add to it.
join_accept_Skipped ==
    /\ main = "JoiningAccept"
    /\ backlog' = 0
    /\ main' = "JoiningWorkers"
    /\ UNCHANGED <<connections, stopping, daemon_stopping>>
    /\ main_unchanged

\* The listener is closed and the sockets are shut down.
join_accept ==
    /\ main = "JoiningAccept"
    /\ accept = "Ended"
    /\ backlog' = 0
    /\ main' = "JoiningWorkers"
    /\ UNCHANGED <<connections, stopping, daemon_stopping>>
    /\ main_unchanged

join_workers ==
    /\ main = "JoiningWorkers"
    /\ \A c \in connections : worker[c] = "Done"
    /\ connections' = {}
    /\ main' = "ServerStopped"
    /\ UNCHANGED <<backlog, stopping, daemon_stopping>>
    /\ main_unchanged

stop_daemon ==
    /\ main = "ServerStopped"
    /\ daemon_stopping' = TRUE
    /\ main' = "JoiningTicker"
    /\ UNCHANGED <<backlog, connections, stopping>>
    /\ main_unchanged

\* The clean-shutdown marker is written and the store closed.
join_ticker ==
    /\ main = "JoiningTicker"
    /\ ticker = "Ended"
    /\ main' = "Stopped"
    /\ UNCHANGED <<backlog, connections, stopping, daemon_stopping>>
    /\ main_unchanged

main_thread == stop_server \/ join_accept \/ join_workers \/ stop_daemon \/ join_ticker

\* A signal arrives, or the time given to the process is over.
signal ==
    /\ main = "Running" /\ ~stop_requested
    /\ stop_requested' = TRUE
    /\ UNCHANGED <<accept, consecutive_errors, backlog, starting, connections,
                   connections_active, worker, commit_mutex, ticker, main, stopping,
                   daemon_stopping>>

connect ==
    /\ main \in {"Running", "JoiningAccept"}
    /\ backlog < MaxBacklog
    /\ backlog' = backlog + 1
    /\ UNCHANGED <<accept, consecutive_errors, starting, connections, connections_active,
                   worker, commit_mutex, ticker, main, stop_requested, stopping,
                   daemon_stopping>>

Next ==
    \/ accept_loop
    \/ \E c \in Connections : serve(c)
    \/ ticker_loop
    \/ main_thread
    \/ signal
    \/ connect

\* Every thread runs on: polls, sends and commits end after a bounded time.
\* Nothing is assumed of signals and peers.
Fairness ==
    /\ WF_vars(accept_loop)
    /\ \A c \in Connections : WF_vars(serve(c))
    /\ WF_vars(ticker_loop)
    /\ WF_vars(main_thread)

Spec == Init /\ [][Next]_vars /\ Fairness

------------------------------------------------------------------------------
(* Properties *)

\* At most max_connections workers run at a time, though the count is kept apart
\* from the threads it counts.
WorkersBounded == Cardinality({c \in Connections : Running(c)}) <= max_connections

\* ARCHITECTURE.md, "Server ownership and shutdown": when the server has stopped,
\* no worker is left that would use a connection or the daemon, and when the store
\* is closed nobody is inside a commit or can begin one.
NothingRunsAfterStop ==
    /\ main \in {"ServerStopped", "JoiningTicker", "Stopped"} =>
          accept = "Ended" /\ \A c \in Connections : ~Running(c)
    /\ main = "Stopped" => ticker = "Ended" /\ commit_mutex = Nil

\* A peer is turned away only while max_connections workers are at work;
\* connections that have ended are never held against it.
RejectedOnlyWhenFull ==
    [][reject => Cardinality({c \in connections : Running(c)}) >= max_connections]_vars

\* Once a stop is requested, the process stops, whatever its peers do.
ShutdownCompletes == stop_requested ~> main = "Stopped"

\* A full backlog is worked off, by accepting a peer or turning it away, unless
\* the accept loop gave up.
BacklogDrains == backlog = MaxBacklog ~> backlog < MaxBacklog \/ accept = "Ended"
==============================================================================
