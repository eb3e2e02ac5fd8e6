----------------------------- MODULE Lifecycle -----------------------------
(***************************************************************************)
(* main, Broker::start and Broker::stop, the signal handler and the pool   *)
(* threads.  SIGINT and SIGTERM are handled on the main thread, between    *)
(* any two of its steps, a stop() that is under way included, so that the  *)
(* calls of stop() form a stack and main goes on when it is empty.  A      *)
(* behaviour begins where the handlers are installed and g_broker is set,  *)
(* and ends with the destruction of the Broker.                            *)
(***************************************************************************)
EXTENDS Naturals, Sequences

CONSTANTS
    PoolSize,     \* thread_pool_size_
    MaxSignals    \* bound: signals that arrive

ASSUME LifecycleAssumption == PoolSize \in Nat \ {0} /\ MaxSignals \in Nat

VARIABLES
    main,       \* where main is, in start() and around it
    calls,      \* the calls of stop() under way, the innermost first
    running,    \* running_
    open,       \* acceptor_ is open
    stopped,    \* io_context_ is stopped
    accept,     \* an async_accept is outstanding, or its handler is ready
    timer,      \* an async_wait of activity_timer_ is outstanding, or its
                \* handler is ready
    reads,      \* connections have a read outstanding
    joinable,   \* threads_: the threads that are not joined yet
    thread,     \* what each thread does; "none" before it is started
    signals,    \* number of signals that have arrived
    early       \* history: a signal has stopped the broker during start()

ioVars == <<running, open, stopped, accept, timer, reads>>
vars == <<main, calls, ioVars, joinable, thread, signals, early>>

Threads == 1..PoolSize

InStart == {"database", "accept", "spawn", "report"}
Ended == {"exited", "failed", "aborted"}
Handler == {"session", "accepted", "expired", "reaccept", "rewait"}

Init ==
    /\ main = "start"
    /\ calls = <<>>
    /\ running = FALSE
    /\ open = TRUE
    /\ stopped = FALSE
    /\ accept = FALSE
    /\ timer = FALSE
    /\ reads = FALSE
    /\ joinable = {}
    /\ thread = [t \in Threads |-> "none"]
    /\ signals = 0
    /\ early = FALSE

-----------------------------------------------------------------------------
(* main                                                                    *)

\* main takes a step of its own only when no call of stop() is under way.
MainAt(step) == main = step /\ calls = <<>>

StartRunning ==
    /\ MainAt("start")
    /\ main' = "database"
    /\ running' = TRUE
    /\ UNCHANGED <<calls, open, stopped, accept, timer, reads, joinable, thread, signals, early>>

\* initialize(), when a database is configured, and then the first wait of
\* start_client_activity_check, unless the broker is not running any more.
StartDatabase ==
    /\ MainAt("database")
    /\ main' = "accept"
    /\ timer' \in {FALSE, running}
    /\ UNCHANGED <<calls, running, open, stopped, accept, reads, joinable, thread, signals, early>>

\* accept_connections; on an acceptor that is closed the handler is ready at
\* once, with an error.
StartAccept ==
    /\ MainAt("accept")
    /\ main' = "spawn"
    /\ accept' = TRUE
    /\ UNCHANGED <<calls, running, open, stopped, timer, reads, joinable, thread, signals, early>>

Unstarted == {t \in Threads : thread[t] = "none"}

Spawn(t) ==
    /\ MainAt("spawn")
    /\ thread[t] = "none"
    /\ \A u \in Unstarted : t <= u
    /\ thread' = [thread EXCEPT ![t] = "waiting"]
    /\ joinable' = joinable \cup {t}
    /\ main' = IF Unstarted = {t} THEN "report" ELSE "spawn"
    /\ UNCHANGED <<calls, ioVars, signals, early>>

\* The system refuses a thread, and the exception leaves start().
SpawnThrows ==
    /\ MainAt("spawn")
    /\ main' = "unwind"
    /\ UNCHANGED <<calls, ioVars, joinable, thread, signals, early>>

\* The last line of start() asks for local_endpoint(), which throws on an
\* acceptor that is closed.
Report ==
    /\ MainAt("report")
    /\ main' = IF open THEN "read" ELSE "unwind"
    /\ UNCHANGED <<calls, ioVars, joinable, thread, signals, early>>

\* std::cin.get() returns, and main calls stop().
Enter ==
    /\ MainAt("read")
    /\ main' = "stop"
    /\ calls' = <<"check">>
    /\ UNCHANGED <<ioVars, joinable, thread, signals, early>>

\* stop() has returned; g_broker = nullptr.
Detach ==
    /\ MainAt("stop")
    /\ main' = "leave"
    /\ UNCHANGED <<calls, ioVars, joinable, thread, signals, early>>

\* Mutant: the destructor does not stop the broker.
DestructorOnly ==
    /\ calls = <<>>
    /\ \/ main = "leave" /\ main' = "destroy"
       \/ main = "unwind" /\ main' = "unwound"
    /\ UNCHANGED <<calls, ioVars, joinable, thread, signals, early>>

\* ~Broker calls stop(), whether main returns or an exception is on its way.
Destructor ==
    /\ calls = <<>>
    /\ \/ main = "leave" /\ main' = "destroy"
       \/ main = "unwind" /\ main' = "unwound"
    /\ calls' = <<"check">>
    /\ UNCHANGED <<ioVars, joinable, thread, signals, early>>

\* The members are destroyed; std::terminate for a thread that is joinable.
Destroy ==
    /\ calls = <<>>
    /\ main \in {"destroy", "unwound"}
    /\ main' = CASE joinable # {} -> "aborted"
                 [] joinable = {} /\ main = "destroy" -> "exited"
                 [] joinable = {} /\ main = "unwound" -> "failed"
    /\ UNCHANGED <<calls, ioVars, joinable, thread, signals, early>>

-----------------------------------------------------------------------------
(* Broker::stop                                                            *)

\* signal_handler calls stop() while g_broker is set.
Signal ==
    /\ signals < MaxSignals
    /\ main \notin {"leave", "destroy"} \cup Ended
    /\ signals' = signals + 1
    /\ calls' = <<"check">> \o calls
    /\ UNCHANGED <<main, ioVars, joinable, thread, early>>

StopAt(step) == calls # <<>> /\ Head(calls) = step
StopGoes(step) == calls' = <<step>> \o Tail(calls)
StopReturns == calls' = Tail(calls)

StopCheck ==
    /\ StopAt("check")
    /\ IF running THEN StopGoes("flag") ELSE StopReturns
    /\ UNCHANGED <<main, ioVars, joinable, thread, signals, early>>

StopFlag ==
    /\ StopAt("flag")
    /\ running' = FALSE
    /\ early' = (early \/ main \in InStart)
    /\ StopGoes("close")
    /\ UNCHANGED <<main, open, stopped, accept, timer, reads, joinable, thread, signals>>

\* acceptor_.close() and activity_timer_->cancel(): outstanding operations end,
\* which makes their handlers ready.
StopClose ==
    /\ StopAt("close")
    /\ open' = FALSE
    /\ StopGoes("halt")
    /\ UNCHANGED <<main, running, stopped, accept, timer, reads, joinable, thread, signals, early>>

\* Mutant: the io_context is not stopped.
StopHaltNot ==
    /\ StopAt("halt")
    /\ StopGoes("join")
    /\ UNCHANGED <<main, ioVars, joinable, thread, signals, early>>

\* io_context_.stop().
StopHalt ==
    /\ StopAt("halt")
    /\ stopped' = TRUE
    /\ StopGoes("join")
    /\ UNCHANGED <<main, running, open, accept, timer, reads, joinable, thread, signals, early>>

First(t) == t \in joinable /\ \A u \in joinable : t <= u

\* Mutant: the thread is detached.
StopJoinNot(t) ==
    /\ StopAt("join")
    /\ First(t)
    /\ joinable' = joinable \ {t}
    /\ UNCHANGED <<main, calls, ioVars, thread, signals, early>>

\* The loop over threads_ joins one after the other.
StopJoin(t) ==
    /\ StopAt("join")
    /\ First(t)
    /\ thread[t] = "exited"
    /\ joinable' = joinable \ {t}
    /\ UNCHANGED <<main, calls, ioVars, thread, signals, early>>

\* Mutant: clear() comes first.
StopJoinedNot ==
    /\ StopAt("join")
    /\ StopGoes("clear")
    /\ UNCHANGED <<main, ioVars, joinable, thread, signals, early>>

StopJoined ==
    /\ StopAt("join")
    /\ joinable = {}
    /\ StopGoes("clear")
    /\ UNCHANGED <<main, ioVars, joinable, thread, signals, early>>

\* sessions_, topic_subscribers_ and threads_ are cleared.
StopClear ==
    /\ StopAt("clear")
    /\ joinable' = {}
    /\ StopReturns
    /\ UNCHANGED <<main, ioVars, thread, signals, early>>

-----------------------------------------------------------------------------
(* The pool threads in io_context_.run()                                   *)

\* A handler is taken up; the operation is not outstanding any more.
Take(t) ==
    /\ main \notin Ended
    /\ thread[t] = "waiting"
    /\ ~stopped
    /\ \/ accept /\ accept' = FALSE /\ thread' = [thread EXCEPT ![t] = "accepted"] /\ UNCHANGED timer
       \/ timer /\ timer' = FALSE /\ thread' = [thread EXCEPT ![t] = "expired"] /\ UNCHANGED accept
       \/ reads /\ thread' = [thread EXCEPT ![t] = "session"] /\ UNCHANGED <<accept, timer>>
    /\ UNCHANGED <<main, calls, running, open, stopped, reads, joinable, signals, early>>

\* The accept handler starts a session, and then asks whether the broker runs;
\* so do the timer's handler and start_client_activity_check.
AskRunning(t) ==
    /\ main \notin Ended
    /\ \/ /\ thread[t] = "accepted"
          /\ reads' \in {reads, reads \/ open}
          /\ thread' = [thread EXCEPT ![t] = IF running THEN "reaccept" ELSE "waiting"]
       \/ /\ thread[t] = "expired"
          /\ thread' = [thread EXCEPT ![t] = IF running THEN "rewait" ELSE "waiting"]
          /\ UNCHANGED reads
    /\ UNCHANGED <<main, calls, running, open, stopped, accept, timer, joinable, signals, early>>

\* The operation is started again, which the broker may have stopped meanwhile.
Rearm(t) ==
    /\ main \notin Ended
    /\ \/ thread[t] = "reaccept" /\ accept' = TRUE /\ UNCHANGED timer
       \/ thread[t] = "rewait" /\ timer' = TRUE /\ UNCHANGED accept
    /\ thread' = [thread EXCEPT ![t] = "waiting"]
    /\ UNCHANGED <<main, calls, running, open, stopped, reads, joinable, signals, early>>

\* A session's handler returns, its connection may be the last to close, or an
\* exception ends the thread.
SessionEnds(t) ==
    /\ main \notin Ended
    /\ thread[t] = "session"
    /\ \E next \in {"waiting", "exited"} : thread' = [thread EXCEPT ![t] = next]
    /\ reads' \in {reads, FALSE}
    /\ UNCHANGED <<main, calls, running, open, stopped, accept, timer, joinable, signals, early>>

\* run() returns: the io_context is stopped or out of work.
Exit(t) ==
    /\ main \notin Ended
    /\ thread[t] = "waiting"
    /\ \/ stopped
       \/ ~accept /\ ~timer /\ ~reads /\ \A u \in Threads : thread[u] \notin Handler
    /\ thread' = [thread EXCEPT ![t] = "exited"]
    /\ UNCHANGED <<main, calls, ioVars, joinable, signals, early>>

-----------------------------------------------------------------------------
MainStep ==
    \/ StartRunning \/ StartDatabase \/ StartAccept \/ SpawnThrows \/ Report
    \/ Detach \/ Destructor \/ Destroy
    \/ \E t \in Threads : Spawn(t)

StopStep ==
    \/ StopCheck \/ StopFlag \/ StopClose \/ StopHalt \/ StopJoined \/ StopClear
    \/ \E t \in Threads : StopJoin(t)

PoolStep(t) == Take(t) \/ AskRunning(t) \/ Rearm(t) \/ SessionEnds(t) \/ Exit(t)

Next == MainStep \/ Enter \/ Signal \/ StopStep \/ \E t \in Threads : PoolStep(t)

\* The main thread and the pool threads run, and handlers come to an end; nobody
\* has to press Enter, and no signal has to come.
Fairness ==
    /\ WF_vars(MainStep)
    /\ WF_vars(StopStep)
    /\ \A t \in Threads : WF_vars(AskRunning(t) \/ Rearm(t) \/ SessionEnds(t)) /\ WF_vars(Exit(t))

Spec == Init /\ [][Next]_vars
FairSpec == Spec /\ Fairness

-----------------------------------------------------------------------------
(* Properties                                                              *)

\* Every variable keeps to its type, and threads_ holds every thread that has
\* not come to its end.
TypeOK ==
    /\ main \in {"start", "read", "stop", "leave", "destroy", "unwind", "unwound"} \cup InStart \cup Ended
    /\ calls \in Seq({"check", "flag", "close", "halt", "join", "clear"})
    /\ {running, open, stopped, accept, timer, reads, early} \subseteq BOOLEAN
    /\ joinable \subseteq Threads
    /\ thread \in [Threads -> {"none", "waiting", "exited"} \cup Handler]
    /\ \A t \in Threads : thread[t] \notin {"none", "exited"} => t \in joinable
    /\ signals \in Nat

Gone == \A t \in Threads : thread[t] \in {"none", "exited"}

\* When stop() clears the sessions and the subscribers no handler runs, nor does
\* one when the broker is destroyed, wherever signals interrupt main and
\* whatever handlers were about to start again.
NobodyLeft == StopAt("clear") \/ main \in {"exited", "failed"} => Gone

\* The process is aborted for a thread that is not joined only if a signal stops
\* the broker during start(), even when start() fails for another reason.
AbortedOnlyEarly == main = "aborted" => early

\* Every call of stop() returns, in a signal handler too.
StopCompletes == calls # <<>> ~> calls = <<>>

\* Enter ends the process in good order.
EnterEnds == main = "stop" ~> main = "exited"
=============================================================================
