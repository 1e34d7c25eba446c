---------------------------- MODULE ServerProofs ----------------------------
(***************************************************************************)
(* Proofs about the threads of the daemon process, for any number of       *)
(* connections and any bound on them: the count of the connections bounds  *)
(* the workers that run, a peer is turned away only if they are all at     *)
(* work, and nothing runs once its owner has stopped it.                   *)
(*                                                                         *)
(* The argument: connections_active counts the registry exactly as long as *)
(* the accept thread lives, a worker that runs is in the registry or is    *)
(* the one about to enter it, for which there is room, and the main thread *)
(* empties the registry only when the accept thread has ended, so that     *)
(* nobody can enter it afterwards.                                         *)
(***************************************************************************)
EXTENDS Server, FiniteSetTheorems, TLAPS

WorkerState == {"None", "LoopHead", "Receiving", "Handling", "Committing", "Replying",
                "Closing", "Done"}
AcceptState == {"LoopHead", "Polling", "Accepted", "Registering", "Ended"}
TickerState == {"LoopHead", "Ticking", "Committing", "Ended"}
MainState   == {"Running", "JoiningAccept", "JoiningWorkers", "ServerStopped",
                "JoiningTicker", "Stopped"}

TypeOK ==
    /\ accept \in AcceptState
    /\ starting \in Connections \cup {Nil}
    /\ connections \subseteq Connections /\ IsFiniteSet(connections)
    /\ connections_active \in Nat
    /\ worker \in [Connections -> WorkerState]
    /\ commit_mutex \in Connections \cup {Nil, Ticker}
    /\ ticker \in TickerState
    /\ main \in MainState

\* A worker that runs is registered or about to be, and a registered connection
\* has a worker that reap_finished has not joined.
Owned ==
    /\ \A c \in Connections : Running(c) => c \in connections \cup {starting}
    /\ \A c \in connections : worker[c] # "None"
    /\ starting # Nil <=> accept = "Registering"
    /\ starting # Nil => starting \notin connections /\ worker[starting] # "None"

\* connections_active counts the registry, which has room for the connection that
\* is about to enter it.
Counted ==
    /\ accept # "Ended" => connections_active = Cardinality(connections)
    /\ Cardinality(connections) <= max_connections
    /\ accept = "Registering" => Cardinality(connections) < max_connections

\* The main thread joins the accept thread, then the workers, then the ticker.
StoppedInOrder ==
    /\ main \in {"JoiningWorkers", "ServerStopped", "JoiningTicker", "Stopped"} => accept = "Ended"
    /\ main \in {"ServerStopped", "JoiningTicker", "Stopped"} => connections = {}
    /\ main = "Stopped" => ticker = "Ended"

\* Whoever holds the commit mutex is inside a commit.
MutexHeld ==
    /\ commit_mutex \in Connections => worker[commit_mutex] = "Committing"
    /\ commit_mutex = Ticker => ticker = "Committing"

IInv ==
    /\ TypeOK
    /\ Owned
    /\ Counted
    /\ StoppedInOrder
    /\ MutexHeld

------------------------------------------------------------------------------
(* The accept thread *)

\* Reaping leaves the registered connections that are still at work, counted.
LEMMA Reaped ==
    ASSUME IInv, accept = "Accepted", Reap
    PROVE  /\ Finished \subseteq connections
           /\ connections' = {c \in connections : Running(c)}
           /\ IsFiniteSet(connections') /\ connections' \subseteq connections
           /\ connections_active' = Cardinality(connections')
           /\ Cardinality(connections') \in Nat
           /\ Cardinality(connections') <= Cardinality(connections)
<1>1. IsFiniteSet(connections) /\ connections \subseteq Connections
      /\ connections_active = Cardinality(connections)
    BY DEF IInv, TypeOK, Counted
<1>2. Finished \subseteq connections /\ IsFiniteSet(Finished)
    BY <1>1, FS_Subset DEF Finished
<1>3. connections' = connections \ Finished
    BY DEF Reap
<1>4. \A c \in connections : Running(c) <=> c \notin Finished
    BY DEF Running, Finished, IInv, Owned
<1>5. connections' = {c \in connections : Running(c)}
    BY <1>3, <1>4
<1>6. IsFiniteSet(connections') /\ connections' \subseteq connections
    BY <1>1, <1>3, FS_Subset
<1>7. Cardinality(connections \ Finished) = Cardinality(connections) - Cardinality(Finished)
    <2>1. connections \cap Finished = Finished
        BY <1>2
    <2> QED
        BY <1>1, <2>1, FS_Difference
<1>8. connections_active' = Cardinality(connections')
    BY <1>1, <1>3, <1>7 DEF Reap
<1>9. Cardinality(connections') \in Nat /\ Cardinality(connections') <= Cardinality(connections)
    BY <1>1, <1>6, FS_CardinalityType, FS_Subset
<1> QED
    BY <1>2, <1>5, <1>6, <1>8, <1>9

\* A step of the accept thread that touches neither the registry nor a worker keeps
\* the invariant.
LEMMA AcceptMoves ==
    ASSUME IInv, accept_unchanged, accept \notin {"Registering", "Ended"},
           accept' \in {"LoopHead", "Polling", "Accepted", "Ended"},
           UNCHANGED <<starting, connections, connections_active, worker>>
    PROVE  IInv'
BY DEF IInv, TypeOK, AcceptState, Owned, Running, Counted, StoppedInOrder, MutexHeld, accept_unchanged

\* Turning a peer away keeps the invariant.
LEMMA RejectStep == ASSUME IInv, reject PROVE IInv'
<1> USE DEF IInv
<1>1. /\ Finished \subseteq connections
      /\ connections' = {c \in connections : Running(c)}
      /\ IsFiniteSet(connections') /\ connections' \subseteq connections
      /\ connections_active' = Cardinality(connections')
      /\ Cardinality(connections') \in Nat
      /\ Cardinality(connections') <= Cardinality(connections)
    BY Reaped DEF reject
<1>2. /\ accept = "Accepted" /\ accept' = "LoopHead" /\ starting' = starting /\ starting = Nil
      /\ UNCHANGED <<commit_mutex, ticker, main>>
      /\ \A c \in Connections : worker'[c] = IF c \in Finished THEN "None" ELSE worker[c]
      /\ worker' \in [Connections -> WorkerState]
    BY DEF reject, accept_unchanged, Owned, TypeOK, WorkerState
<1>3. TypeOK'
    BY <1>1, <1>2 DEF TypeOK, AcceptState
<1>4. \A c \in Connections : Running(c)' => Running(c) /\ c \notin Finished
    BY <1>2 DEF Running
<1>5. Owned'
    BY <1>1, <1>2, <1>4 DEF TypeOK, Owned, Running, Finished
<1>6. Counted'
    BY <1>1, <1>2, FS_CardinalityType, ServerAssumption DEF Counted, TypeOK
<1>7. StoppedInOrder'
    BY <1>2 DEF StoppedInOrder
<1>8. MutexHeld'
    BY <1>2 DEF MutexHeld, Finished
<1> QED
    BY <1>3, <1>5, <1>6, <1>7, <1>8

\* Starting a worker keeps the invariant: its connection object is free.
LEMMA StartWorkerStep == ASSUME IInv, start_worker PROVE IInv'
<1> USE DEF IInv
<1>1. /\ Finished \subseteq connections
      /\ connections' = {c \in connections : Running(c)}
      /\ IsFiniteSet(connections') /\ connections' \subseteq connections
      /\ connections_active' = Cardinality(connections')
      /\ Cardinality(connections') \in Nat
      /\ Cardinality(connections') <= Cardinality(connections)
    BY Reaped DEF start_worker
<1>2. PICK c \in Connections :
         /\ worker[c] = "None" \/ c \in Finished
         /\ starting' = c
         /\ worker' = [d \in Connections |-> IF d = c THEN "LoopHead"
                                             ELSE IF d \in Finished THEN "None" ELSE worker[d]]
    BY DEF start_worker
<1>3. /\ accept = "Accepted" /\ accept' = "Registering" /\ starting = Nil /\ c # Nil
      /\ UNCHANGED <<commit_mutex, ticker, main>>
      /\ connections_active' < max_connections
      /\ \A d \in Connections : worker'[d] = IF d = c THEN "LoopHead"
                                             ELSE IF d \in Finished THEN "None" ELSE worker[d]
      /\ worker' \in [Connections -> WorkerState]
    BY <1>2, ServerAssumption DEF start_worker, accept_unchanged, Owned, TypeOK, WorkerState
<1>4. c \notin connections'
    BY <1>1, <1>2 DEF Running, Finished
<1>5. TypeOK'
    BY <1>1, <1>2, <1>3 DEF TypeOK, AcceptState
<1>6. \A d \in Connections : Running(d)' => d = c \/ (Running(d) /\ d \notin Finished)
    BY <1>3 DEF Running
<1>7. Owned'
    <2>1. \A d \in Connections : Running(d)' => d \in connections' \cup {c}
        BY <1>1, <1>3, <1>6, ServerAssumption DEF Owned
    <2>2. \A d \in connections' : worker'[d] # "None"
        BY <1>1, <1>3 DEF TypeOK, Owned, Running, Finished
    <2>3. worker'[c] # "None"
        BY <1>3
    <2> QED
        BY <1>2, <1>3, <1>4, <2>1, <2>2, <2>3 DEF Owned
<1>8. Counted'
    BY <1>1, <1>3, FS_CardinalityType, ServerAssumption DEF Counted, TypeOK
<1>9. StoppedInOrder'
    BY <1>1, <1>3 DEF StoppedInOrder
<1>10. MutexHeld'
    BY <1>2, <1>3 DEF MutexHeld, Finished
<1> QED
    BY <1>5, <1>7, <1>8, <1>9, <1>10

\* Registering a connection keeps the invariant: there was room for it, and it is
\* counted once.
LEMMA RegisterStep == ASSUME IInv, register_connection PROVE IInv'
<1> USE DEF IInv
<1>1. /\ accept = "Registering" /\ accept' = "LoopHead" /\ starting' = Nil /\ starting \in Connections
      /\ starting \notin connections /\ worker[starting] # "None"
      /\ connections' = connections \cup {starting} /\ connections_active' = connections_active + 1
      /\ UNCHANGED <<worker, commit_mutex, ticker, main>>
    BY DEF register_connection, accept_unchanged, Owned, TypeOK
<1>2. IsFiniteSet(connections') /\ Cardinality(connections') = Cardinality(connections) + 1
    BY <1>1, FS_AddElement DEF TypeOK
<1>3. TypeOK'
    BY <1>1, <1>2 DEF TypeOK, AcceptState
<1>4. Owned'
    BY <1>1 DEF Owned, Running
<1>5. Counted'
    BY <1>1, <1>2, FS_CardinalityType, ServerAssumption DEF Counted, TypeOK
<1>6. StoppedInOrder' /\ MutexHeld'
    BY <1>1 DEF StoppedInOrder, MutexHeld
<1> QED
    BY <1>3, <1>4, <1>5, <1>6

\* Every step of the accept thread keeps the invariant.
LEMMA AcceptStep == ASSUME IInv, accept_loop PROVE IInv'
<1>1. CASE accept_loop_head \/ accept_timed_out \/ accept_error \/ accept_connection
    BY <1>1, AcceptMoves DEF accept_loop_head, accept_timed_out, accept_error, accept_connection
<1> QED
    BY <1>1, RejectStep, StartWorkerStep, RegisterStep DEF accept_loop

------------------------------------------------------------------------------
(* The workers, the ticker and the main thread *)

\* A worker's step keeps the invariant: a worker that runs goes on running until it
\* is done, and leaves its commit when it leaves the mutex.
LEMMA ServeStep == ASSUME IInv, NEW c \in Connections, serve(c) PROVE IInv'
<1> USE DEF IInv
<1>1. PICK s \in WorkerState \ {"None"} :
         /\ worker' = [worker EXCEPT ![c] = s]
         /\ Running(c)
         /\ UNCHANGED <<accept, starting, connections, connections_active, ticker, main>>
         /\ \/ s = "Committing" /\ commit_mutex' = c
            \/ commit_mutex' = Nil
            \/ commit_mutex' = commit_mutex /\ worker[c] # "Committing"
    BY DEF serve, serve_loop_head, receive, handle, handled, reply, close, worker_unchanged,
           WorkerState, Running
<1>2. /\ worker' \in [Connections -> WorkerState]
      /\ \A d \in Connections : worker'[d] = IF d = c THEN s ELSE worker[d]
    BY <1>1 DEF TypeOK
<1>3. TypeOK'
    BY <1>1, <1>2 DEF TypeOK
<1>4. \A d \in Connections : Running(d)' => Running(d)
    BY <1>1, <1>2 DEF Running
<1>5. Owned'
    BY <1>1, <1>2, <1>4 DEF Owned, TypeOK
<1>6. Counted' /\ StoppedInOrder'
    BY <1>1 DEF Counted, StoppedInOrder
<1>7. MutexHeld'
    BY <1>1, <1>2, ServerAssumption DEF MutexHeld, Ticker
<1> QED
    BY <1>3, <1>5, <1>6, <1>7

\* The ticker's steps keep the invariant.
LEMMA TickerStep == ASSUME IInv, ticker_loop PROVE IInv'
<1> USE DEF IInv
<1>1. /\ UNCHANGED <<accept, starting, connections, connections_active, worker, main>>
      /\ ticker # "Ended" /\ ticker' \in TickerState
      /\ \/ ticker' = "Committing" /\ commit_mutex' = Ticker
         \/ commit_mutex' = Nil
         \/ commit_mutex' = commit_mutex /\ ticker # "Committing"
    BY DEF ticker_loop, ticker_loop_head, tick_begins, tick_ends, ticker_unchanged, TickerState
<1>2. TypeOK' /\ Owned' /\ Counted' /\ StoppedInOrder'
    BY <1>1 DEF TypeOK, Owned, Running, Counted, StoppedInOrder
<1>3. MutexHeld'
    BY <1>1, ServerAssumption DEF MutexHeld, Ticker
<1> QED
    BY <1>2, <1>3

\* The main thread's steps keep the invariant: it moves on only when what it joins
\* has ended.
LEMMA MainStep == ASSUME IInv, main_thread PROVE IInv'
<1> USE DEF IInv
<1>1. UNCHANGED <<accept, starting, connections_active, worker, commit_mutex, ticker>>
    BY DEF main_thread, stop_server, join_accept, join_workers, stop_daemon, join_ticker,
           main_unchanged
<1>2. CASE join_workers
    <2>1. main' = "ServerStopped" /\ connections' = {} /\ accept = "Ended" /\ starting = Nil
        BY <1>2 DEF join_workers, StoppedInOrder, Owned
    <2>2. \A c \in Connections : ~ Running(c)
        BY <1>2, <2>1, ServerAssumption DEF join_workers, Owned, Running
    <2>3. TypeOK'
        BY <1>1, <2>1, FS_EmptySet DEF TypeOK, MainState
    <2>4. Owned'
        BY <1>1, <2>1, <2>2 DEF Owned, Running
    <2>5. Counted'
        BY <1>1, <2>1, FS_EmptySet, ServerAssumption DEF Counted
    <2> QED
        BY <1>1, <2>1, <2>3, <2>4, <2>5 DEF StoppedInOrder, MutexHeld
<1>3. CASE ~ join_workers
    <2>1. /\ connections' = connections /\ main' \in MainState
          /\ main' \in {"JoiningWorkers", "ServerStopped", "JoiningTicker", "Stopped"} => accept = "Ended"
          /\ main' \in {"ServerStopped", "JoiningTicker", "Stopped"} => connections = {}
          /\ main' = "Stopped" => ticker = "Ended"
        BY <1>3 DEF main_thread, stop_server, join_accept, stop_daemon, join_ticker, MainState,
                    StoppedInOrder
    <2>2. TypeOK' /\ Owned' /\ Counted' /\ MutexHeld'
        BY <1>1, <2>1 DEF TypeOK, Owned, Running, Counted, MutexHeld
    <2> QED
        BY <1>1, <2>1, <2>2 DEF StoppedInOrder
<1> QED
    BY <1>2, <1>3

------------------------------------------------------------------------------
(* The theorems *)

\* No thread but the accept thread and the ticker has begun, and they hold nothing.
LEMMA InitInv == Init => IInv
<1> SUFFICES ASSUME Init PROVE IInv
    OBVIOUS
<1>1. IsFiniteSet({}) /\ Cardinality({}) = 0
    BY FS_EmptySet
<1>2. TypeOK
    BY <1>1 DEF Init, TypeOK, AcceptState, WorkerState, TickerState, MainState
<1> QED
    BY <1>1, <1>2, ServerAssumption
    DEF Init, IInv, Owned, Running, Counted, StoppedInOrder, MutexHeld, Ticker

\* Every step of every thread keeps the invariant.
LEMMA NextInv == IInv /\ [Next]_vars => IInv'
<1> SUFFICES ASSUME IInv, [Next]_vars PROVE IInv'
    OBVIOUS
<1>1. CASE signal \/ connect \/ UNCHANGED vars
    BY <1>1 DEF signal, connect, vars, IInv, TypeOK, Owned, Running, Counted, StoppedInOrder, MutexHeld
<1> QED
    BY <1>1, AcceptStep, ServeStep, TickerStep, MainStep DEF Next

\* The workers that run are in the registry or about to enter it.
LEMMA RunningBounded == IInv => WorkersBounded
<1> SUFFICES ASSUME IInv PROVE WorkersBounded
    OBVIOUS
<1> DEFINE R == {c \in Connections : Running(c)}
<1>1. IsFiniteSet(connections) /\ Cardinality(connections) \in Nat
      /\ Cardinality(connections) <= max_connections
    BY FS_CardinalityType DEF IInv, TypeOK, Counted
<1>2. CASE starting = Nil
    <2>1. R \subseteq connections
        BY <1>2, ServerAssumption DEF IInv, Owned
    <2>2. Cardinality(R) \in Nat /\ Cardinality(R) <= Cardinality(connections)
        BY <1>1, <2>1, FS_Subset, FS_CardinalityType
    <2> QED
        BY <1>1, <2>2, ServerAssumption DEF WorkersBounded
<1>3. CASE starting # Nil
    <2>1. R \subseteq connections \cup {starting}
        BY DEF IInv, Owned
    <2>2. Cardinality(connections) < max_connections /\ starting \notin connections
        BY <1>3 DEF IInv, Owned, Counted
    <2>3. /\ IsFiniteSet(connections \cup {starting})
          /\ Cardinality(connections \cup {starting}) = Cardinality(connections) + 1
        BY <1>1, <2>2, FS_AddElement
    <2>4. Cardinality(R) \in Nat /\ Cardinality(R) <= Cardinality(connections \cup {starting})
        BY <2>1, <2>3, FS_Subset, FS_CardinalityType
    <2> QED
        BY <1>1, <2>2, <2>3, <2>4, ServerAssumption DEF WorkersBounded
<1> QED
    BY <1>2, <1>3

\* At most max_connections workers run at a time, though reaping, the test of the
\* count, the start of a thread and its registration are separate steps.
THEOREM WorkersNeverExceedBound == Spec => []WorkersBounded
BY InitInv, NextInv, RunningBounded, PTL DEF Spec

\* Once the server has stopped no worker runs, and once the store is closed nobody
\* is inside a commit.
THEOREM StopIsFinal == Spec => []NothingRunsAfterStop
<1>1. IInv => NothingRunsAfterStop
    <2> SUFFICES ASSUME IInv PROVE NothingRunsAfterStop
        OBVIOUS
    <2>1. main \in {"ServerStopped", "JoiningTicker", "Stopped"} =>
             accept = "Ended" /\ \A c \in Connections : ~Running(c)
        BY ServerAssumption DEF IInv, StoppedInOrder, Owned
    <2>2. main = "Stopped" => ticker = "Ended" /\ commit_mutex = Nil
        BY <2>1 DEF IInv, StoppedInOrder, MutexHeld, TypeOK, Running
    <2> QED
        BY <2>1, <2>2 DEF NothingRunsAfterStop
<1> QED
    BY <1>1, InitInv, NextInv, PTL DEF Spec

\* A peer is turned away only while max_connections registered workers run: reaping
\* first gives back the places of those that are done.
THEOREM TurnedAwayOnlyWhenFull == Spec => RejectedOnlyWhenFull
<1>1. IInv /\ [Next]_vars
         => [reject => Cardinality({c \in connections : Running(c)}) >= max_connections]_vars
    <2> SUFFICES ASSUME IInv, reject
                 PROVE  Cardinality({c \in connections : Running(c)}) >= max_connections
        OBVIOUS
    <2> QED
        BY Reaped DEF reject
<1> QED
    BY <1>1, InitInv, NextInv, PTL DEF Spec, RejectedOnlyWhenFull
=============================================================================
