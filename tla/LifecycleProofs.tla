-------------------------- MODULE LifecycleProofs --------------------------
(* Theorems about module Lifecycle, for a pool of any size and any number  *)
(* of signals, wherever they interrupt main.                               *)
EXTENDS Lifecycle, TLAPS

USE LifecycleAssumption

Step == {"check", "flag", "close", "halt", "join", "clear"}

\* The steps at which calls of stop() are.
Under == {calls[i] : i \in 1..Len(calls)}

-----------------------------------------------------------------------------
(* The stack of calls                                                      *)

LEMMA Pushed ==
    ASSUME calls \in Seq(Step), calls' = <<"check">> \o calls
    PROVE  calls' \in Seq(Step) /\ Under' = Under \cup {"check"}
<1>1. Len(calls') = Len(calls) + 1 /\ calls'[1] = "check"
      /\ \A i \in 1..Len(calls) : calls'[i + 1] = calls[i]
  OBVIOUS
<1>2. \A i \in 1..Len(calls') : i = 1 \/ (i - 1 \in 1..Len(calls) /\ calls'[i] = calls[i - 1])
  OBVIOUS
<1>3. calls' \in Seq(Step)
  BY DEF Step
<1> QED
  BY <1>1, <1>2, <1>3 DEF Under

LEMMA Advanced ==
    ASSUME calls \in Seq(Step), calls # <<>>, NEW step \in Step, StopGoes(step)
    PROVE  /\ calls' \in Seq(Step) /\ calls' # <<>>
           /\ Under' \subseteq Under \cup {step}
           /\ step \in Under'
           /\ \A s \in Under : s = Head(calls) \/ s \in Under'
<1>1. Len(calls') = Len(calls) /\ calls'[1] = step
      /\ \A i \in 2..Len(calls) : calls'[i] = calls[i]
  BY DEF StopGoes
<1>2. calls' \in Seq(Step)
  BY DEF StopGoes
<1>3. Head(calls) = calls[1] /\ Len(calls) \in Nat \ {0}
  OBVIOUS
<1> QED
  BY <1>1, <1>2, <1>3 DEF Under

LEMMA Returned ==
    ASSUME calls \in Seq(Step), calls # <<>>, StopReturns
    PROVE  /\ calls' \in Seq(Step)
           /\ Under' \subseteq Under
           /\ \A s \in Under : s = Head(calls) \/ s \in Under'
<1>1. Len(calls') = Len(calls) - 1 /\ \A i \in 1..Len(calls') : calls'[i] = calls[i + 1]
  BY DEF StopReturns
<1>2. calls' \in Seq(Step)
  BY DEF StopReturns
<1>3. Head(calls) = calls[1] /\ Len(calls) \in Nat \ {0}
  OBVIOUS
<1>4. \A i \in 2..Len(calls) : i - 1 \in 1..Len(calls') /\ calls'[i - 1] = calls[i]
  BY <1>1, <1>3
<1>5. Under' \subseteq Under
  BY <1>1, <1>3 DEF Under
<1>6. ASSUME NEW s \in Under, s # Head(calls) PROVE s \in Under'
  <2>1. PICK i \in 1..Len(calls) : s = calls[i]
    BY DEF Under
  <2>2. i \in 2..Len(calls)
    BY <1>3, <1>6, <2>1
  <2> QED
    BY <1>4, <2>1, <2>2 DEF Under
<1> QED
  BY <1>2, <1>5, <1>6

-----------------------------------------------------------------------------
(* Types, and what stop() has done                                         *)

\* threads_ is empty when it is cleared, and while the broker is destroyed in
\* good order.
Cleared ==
    /\ "clear" \in Under => joinable = {}
    /\ main \in {"exited", "failed"} => joinable = {}

\* start() goes on with a broker that runs, unless a signal has stopped it.
Started == main \in InStart => running \/ early

\* A thread that is not joined has a broker that runs, or one whose stop() is on
\* its way to join it.
Stopping == joinable # {} => running \/ early \/ Under \cap {"close", "halt", "join"} # {}

\* The destructor's call of stop() has seen whether the broker runs.
Destroyed == main \in {"destroy", "unwound"} /\ running => Under \cap {"check", "flag"} # {}

IInv == TypeOK /\ Cleared /\ Started /\ Stopping /\ Destroyed /\ AbortedOnlyEarly

LEMMA LifecycleInit == Init => IInv
<1> SUFFICES ASSUME Init PROVE IInv
  OBVIOUS
<1>1. TypeOK
  <2>1. calls \in Seq(Step)
    BY DEF Init
  <2>2. thread \in [Threads -> {"none", "waiting", "exited"} \cup Handler]
    BY DEF Init
  <2> QED
    BY <2>1, <2>2 DEF Init, TypeOK, Step
<1>2. Under = {}
  BY DEF Init, Under
<1> QED
  BY <1>1, <1>2 DEF Init, IInv, Cleared, Started, Stopping, Destroyed, AbortedOnlyEarly, InStart

LEMMA MainKeeps ==
    ASSUME IInv, MainStep \/ Enter
    PROVE  IInv'
<1>1. CASE StartRunning
  <2>1. Under' = Under
    BY <1>1 DEF StartRunning, Under
  <2>2. TypeOK'
    BY <1>1 DEF IInv, StartRunning, MainAt, TypeOK, InStart, Ended
  <2> QED
    BY <1>1, <2>1, <2>2 DEF IInv, StartRunning, MainAt, Cleared, Started, Stopping, Destroyed,
       AbortedOnlyEarly, InStart
<1>2. CASE StartDatabase \/ StartAccept \/ SpawnThrows \/ Report \/ Detach
  <2>1. Under' = Under
    BY <1>2 DEF StartDatabase, StartAccept, SpawnThrows, Report, Detach, Under
  <2>2. TypeOK'
    BY <1>2 DEF IInv, StartDatabase, StartAccept, SpawnThrows, Report, Detach, MainAt, ioVars,
       TypeOK, InStart, Ended
  <2> QED
    BY <1>2, <2>1, <2>2 DEF IInv, StartDatabase, StartAccept, SpawnThrows, Report, Detach, MainAt,
       ioVars, Cleared, Started, Stopping, Destroyed, AbortedOnlyEarly, InStart
<1>3. ASSUME NEW t \in Threads, Spawn(t)
      PROVE  IInv'
  <2>1. Under' = Under /\ Under = {}
    BY <1>3 DEF Spawn, MainAt, Under
  <2>2. TypeOK'
    BY <1>3 DEF IInv, Spawn, MainAt, ioVars, TypeOK, InStart, Ended, Handler
  <2> QED
    BY <1>3, <2>1, <2>2 DEF IInv, Spawn, MainAt, ioVars, Cleared, Started, Stopping, Destroyed,
       AbortedOnlyEarly, InStart
<1>4. CASE Enter \/ Destructor
  <2>1. Under = {} /\ Under' = {"check"} /\ calls' \in Seq(Step)
    <3>1. calls = <<>> /\ calls' = <<"check">>
      BY <1>4 DEF Enter, Destructor, MainAt
    <3>2. Len(calls) = 0 /\ Len(calls') = 1 /\ calls'[1] = "check"
      BY <3>1
    <3>3. calls' \in Seq(Step)
      BY <3>1 DEF Step
    <3> QED
      BY <3>2, <3>3 DEF Under
  <2>2. TypeOK'
    BY <1>4, <2>1 DEF IInv, Enter, Destructor, MainAt, ioVars, TypeOK, InStart, Ended, Step
  <2> QED
    BY <1>4, <2>1, <2>2 DEF IInv, Enter, Destructor, MainAt, ioVars, Cleared, Started, Stopping,
       Destroyed, AbortedOnlyEarly, InStart
<1>5. CASE Destroy
  <2>1. Under = {} /\ Under' = {}
    BY <1>5 DEF Destroy, Under
  <2>2. main' \in Ended /\ (main' = "aborted" <=> joinable # {})
    BY <1>5 DEF Destroy, Ended
  <2>3. TypeOK'
    BY <1>5, <2>2 DEF IInv, Destroy, ioVars, TypeOK
  <2> QED
    BY <1>5, <2>1, <2>2, <2>3 DEF IInv, Destroy, ioVars, Cleared, Started, Stopping, Destroyed,
       AbortedOnlyEarly, InStart, Ended
<1> QED
  BY <1>1, <1>2, <1>3, <1>4, <1>5 DEF MainStep

LEMMA StopKeeps ==
    ASSUME IInv, StopStep
    PROVE  IInv'
<1> USE DEF StopAt
<1>1. calls \in Seq(Step) /\ calls # <<>> /\ Head(calls) \in Under
  <2>1. calls \in Seq(Step) /\ calls # <<>>
    BY DEF IInv, TypeOK, Step, StopStep, StopCheck, StopFlag, StopClose, StopHalt, StopJoin,
       StopJoined, StopClear
  <2> QED
    BY <2>1 DEF Under
<1>2. ASSUME NEW step \in Step, StopGoes(step)
      PROVE  /\ calls' \in Seq(Step) /\ Under' \subseteq Under \cup {step} /\ step \in Under'
             /\ \A s \in Under : s = Head(calls) \/ s \in Under'
  BY <1>1, <1>2, Advanced
<1>3. CASE StopCheck
  <2>1. /\ calls' \in Seq(Step)
        /\ Under' \subseteq Under \cup {"flag"}
        /\ running => "flag" \in Under'
        /\ \A s \in Under : s = "check" \/ s \in Under'
    BY <1>1, <1>2, <1>3, Returned DEF StopCheck, Step
  <2>2. TypeOK'
    BY <1>3, <2>1 DEF IInv, StopCheck, ioVars, TypeOK, Step
  <2> QED
    BY <1>3, <2>1, <2>2 DEF IInv, StopCheck, ioVars, Cleared, Started, Stopping, Destroyed, AbortedOnlyEarly
<1>4. CASE StopFlag
  <2>1. calls' \in Seq(Step) /\ Under' \subseteq Under \cup {"close"} /\ "close" \in Under'
    BY <1>2, <1>4 DEF StopFlag, Step
  <2>2. TypeOK'
    BY <1>4, <2>1 DEF IInv, StopFlag, TypeOK, Step
  <2> QED
    BY <1>4, <2>1, <2>2 DEF IInv, StopFlag, Cleared, Started, Stopping, Destroyed, AbortedOnlyEarly
<1>5. CASE StopClose \/ StopHalt
  <2>1. /\ calls' \in Seq(Step)
        /\ Under' \subseteq Under \cup {"halt", "join"}
        /\ Under' \cap {"halt", "join"} # {}
        /\ \A s \in Under : s \in {"close", "halt"} \/ s \in Under'
    BY <1>2, <1>5 DEF StopClose, StopHalt, Step
  <2>2. TypeOK'
    BY <1>5, <2>1 DEF IInv, StopClose, StopHalt, TypeOK, Step
  <2> QED
    BY <1>5, <2>1, <2>2 DEF IInv, StopClose, StopHalt, Cleared, Started, Stopping, Destroyed, AbortedOnlyEarly
<1>6. ASSUME NEW t \in Threads, StopJoin(t)
      PROVE  IInv'
  <2>1. Under' = Under
    BY <1>6 DEF StopJoin, Under
  <2>2. TypeOK'
    BY <1>6 DEF IInv, StopJoin, ioVars, TypeOK
  <2> QED
    BY <1>6, <2>1, <2>2 DEF IInv, StopJoin, ioVars, Cleared, Started, Stopping, Destroyed, AbortedOnlyEarly
<1>7. CASE StopJoined
  <2>1. calls' \in Seq(Step) /\ \A s \in Under : s = "join" \/ s \in Under'
    BY <1>2, <1>7 DEF StopJoined, Step
  <2>2. TypeOK'
    BY <1>7, <2>1 DEF IInv, StopJoined, ioVars, TypeOK, Step
  <2> QED
    BY <1>7, <2>1, <2>2 DEF IInv, StopJoined, ioVars, Cleared, Started, Stopping, Destroyed, AbortedOnlyEarly
<1>8. CASE StopClear
  <2>1. calls' \in Seq(Step) /\ Under' \subseteq Under /\ \A s \in Under : s = "clear" \/ s \in Under'
    BY <1>1, <1>8, Returned DEF StopClear
  <2>2. joinable = {}
    BY <1>1, <1>8 DEF IInv, Cleared, StopClear
  <2>3. TypeOK'
    BY <1>8, <2>1, <2>2 DEF IInv, StopClear, ioVars, TypeOK, Step
  <2> QED
    BY <1>8, <2>1, <2>2, <2>3 DEF IInv, StopClear, ioVars, Cleared, Started, Stopping, Destroyed, AbortedOnlyEarly
<1> QED
  BY <1>3, <1>4, <1>5, <1>6, <1>7, <1>8 DEF StopStep

LEMMA SignalKeeps ==
    ASSUME IInv, Signal
    PROVE  IInv'
<1>1. calls' \in Seq(Step) /\ Under' = Under \cup {"check"}
  BY Pushed DEF IInv, TypeOK, Signal, Step
<1>2. TypeOK'
  BY <1>1 DEF IInv, Signal, ioVars, TypeOK, Step
<1> QED
  BY <1>1, <1>2 DEF IInv, Signal, ioVars, Cleared, Started, Stopping, Destroyed, AbortedOnlyEarly

LEMMA PoolKeeps ==
    ASSUME IInv, NEW t \in Threads, PoolStep(t)
    PROVE  IInv'
<1>1. UNCHANGED <<main, calls, running, joinable, early, signals, open, stopped>>
  BY DEF PoolStep, Take, AskRunning, Rearm, SessionEnds, Exit, ioVars
<1>2. Under' = Under
  BY <1>1 DEF Under
<1>3. \E next \in {"waiting", "exited"} \cup Handler : thread' = [thread EXCEPT ![t] = next]
  BY DEF PoolStep, Take, AskRunning, Rearm, SessionEnds, Exit, Handler
<1>4. thread[t] \in {"waiting"} \cup Handler
  BY DEF PoolStep, Take, AskRunning, Rearm, SessionEnds, Exit, Handler
<1>5. {accept', timer', reads'} \subseteq BOOLEAN
  BY DEF PoolStep, Take, AskRunning, Rearm, SessionEnds, Exit, ioVars, IInv, TypeOK
<1>6. t \in joinable
  BY <1>4 DEF IInv, TypeOK, Handler
<1>7. TypeOK'
  BY <1>1, <1>3, <1>5, <1>6 DEF IInv, TypeOK
<1> QED
  BY <1>1, <1>2, <1>7 DEF IInv, Cleared, Started, Stopping, Destroyed, AbortedOnlyEarly

LEMMA LifecycleStep == IInv /\ [Next]_vars => IInv'
<1> SUFFICES ASSUME IInv, [Next]_vars PROVE IInv'
  OBVIOUS
<1>1. CASE UNCHANGED vars
  BY <1>1 DEF vars, ioVars, IInv, TypeOK, Cleared, Started, Stopping, Destroyed, AbortedOnlyEarly, Under
<1> QED
  BY <1>1, MainKeeps, StopKeeps, SignalKeeps, PoolKeeps DEF Next

\* Every variable keeps to its type, and threads_ holds every thread that has
\* not come to its end.
THEOREM LifecycleTypes == Spec => []TypeOK
<1>1. IInv => TypeOK
  BY DEF IInv
<1> QED
  BY <1>1, LifecycleInit, LifecycleStep, PTL DEF Spec

\* No handler runs when stop() clears the sessions and the subscribers, or when
\* the broker is destroyed.
THEOREM NobodyIsLeft == Spec => []NobodyLeft
<1>1. IInv => NobodyLeft
  <2> SUFFICES ASSUME IInv, StopAt("clear") \/ main \in {"exited", "failed"} PROVE Gone
    BY DEF NobodyLeft
  <2>1. StopAt("clear") => "clear" \in Under
    BY DEF StopAt, Under, IInv, TypeOK
  <2>2. joinable = {}
    BY <2>1 DEF IInv, Cleared
  <2> QED
    BY <2>2 DEF IInv, TypeOK, Gone
<1> QED
  BY <1>1, LifecycleInit, LifecycleStep, PTL DEF Spec

\* The process is aborted only if a signal stops the broker during start().
THEOREM NoOtherAbort == Spec => []AbortedOnlyEarly
<1>1. IInv => AbortedOnlyEarly
  BY DEF IInv
<1> QED
  BY <1>1, LifecycleInit, LifecycleStep, PTL DEF Spec
=============================================================================
