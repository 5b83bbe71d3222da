------------------------ MODULE LocalExecutorProofs ------------------------
(***************************************************************************)
(* Proofs about LocalExecutor for any pipe capacity and any command,       *)
(* detaching, endlessly writing and forking ones included.                 *)
(***************************************************************************)
EXTENDS LocalExecutor, TLAPS

----------------------------------------------------------------------------
(* The inductive invariant, in named parts.                                *)

Typed ==
    /\ pc \in Points
    /\ rd \in [Streams -> BOOLEAN]
    /\ holders \in [Streams -> SUBSET Processes]
    /\ pipe \in [Streams -> [Writers -> Nat]]
    /\ child \in {"none", "running", "zombie", "reaped"}
    /\ exit \in Endings \cup {"none", "killed"}
    /\ want \in Streams \cup {"none"}
    /\ status \in Endings \cup {"killed"}
    /\ todo \subseteq Streams
    /\ final \in BOOLEAN
    /\ late \in BOOLEAN
    /\ timedOut \in BOOLEAN
    /\ result \in Endings \cup {"none", "failed", "timeout"}

(* Where the thread is says whether there is a child and a result.  *)
Phases ==
    /\ child = "none" <=> pc \in {"pipeOut", "pipeErr", "fork"} \/ (pc = "done" /\ result = "failed")
    /\ result = "none" <=> pc # "done"

(* A child holds pipes and waits for them only while it runs.  *)
ChildEnds ==
    /\ \A s \in Streams : "child" \in holders[s] => child = "running" /\ rd[s]
    /\ want # "none" => "child" \in holders[want]

(* What the child wrote is in a pipe that is still open.  *)
ChildData == \A s \in Streams : pipe[s]["child"] # 0 => rd[s] /\ child # "none"

(* The last drain follows the child's end, and the loop the pipes' end.  *)
LoopEnd ==
    /\ pc = "drain" /\ final => child = "reaped"
    /\ pc = "reap" => Open = {}
    /\ pc = "done" /\ result # "failed" => Open = {}

(* The parent's own descriptors before the loop.  *)
ParentEnds ==
    /\ \A s \in Streams : "self" \in holders[s] =>
        rd[s] /\ (pc \in {"pipeErr", "fork", "close"} \/ (pc = "done" /\ result = "failed"))
    /\ pc = "pipeOut" => ~rd["out"] /\ ~rd["err"]
    /\ pc = "pipeErr" => rd["out"] /\ ~rd["err"]
    /\ pc = "fork"    => rd["out"] /\ rd["err"]
    /\ pc = "done"    => ~rd["err"]

(* The local status is the child's end once it was reaped; SIGKILL only    *)
(* ever comes with timedOut, and timedOut only after the deadline.         *)
Verdict ==
    /\ child \in {"zombie", "reaped"} => exit \in Endings \cup {"killed"}
    /\ child = "zombie" => exit # "killed"
    /\ child = "reaped" => status = exit
    /\ exit = "killed" => timedOut
    /\ timedOut => late /\ child = "reaped"
    /\ pc = "done" /\ result # "failed" => child = "reaped"

IInv == Typed /\ Phases /\ ChildEnds /\ ChildData /\ LoopEnd /\ ParentEnds /\ Verdict

LEMMA InvInit == Init => IInv
<1> SUFFICES ASSUME Init
             PROVE  IInv
    OBVIOUS
<1> USE DEF Init
<1>1. pipe \in [Streams -> [Writers -> Nat]] /\ holders \in [Streams -> SUBSET Processes]
      OBVIOUS
<1>2. \A s \in Streams : holders[s] = {} /\ ~rd[s]
      OBVIOUS
<1>3. \A s \in Streams : pipe[s]["child"] = 0
      BY DEF Writers
<1>4. Typed
      BY <1>1 DEF Typed, Points, Endings, ExitCodes
<1>5. Phases /\ ChildEnds /\ ChildData /\ LoopEnd /\ Verdict
      BY <1>2, <1>3 DEF Phases, ChildEnds, ChildData, LoopEnd, Verdict
<1>6. ParentEnds
      BY <1>2 DEF ParentEnds, Streams
<1> QED
    BY <1>4, <1>5, <1>6 DEF IInv

LEMMA WithoutFacts ==
    ASSUME holders \in [Streams -> SUBSET Processes], NEW p
    PROVE  /\ Without(p) \in [Streams -> SUBSET Processes]
           /\ \A s \in Streams : \A q : q \in Without(p)[s] <=> q \in holders[s] /\ q # p
BY DEF Without

(* Before the loop there is no output, and only the caller's ends are open. *)
LEMMA PipeStep ==
    ASSUME IInv,
           \/ CreatePipe("out", "pipeOut", "pipeErr")
           \/ CreatePipe("err", "pipeErr", "fork")
    PROVE  IInv'
<1> USE DEF procVars, pipeVars, loopVars
<1>1. /\ UNCHANGED <<pipe, child, exit, want, status, todo, final, late, timedOut>>
      /\ child = "none" /\ result = "none"
      /\ pc \in {"pipeOut", "pipeErr"} /\ pc' \in {"pipeErr", "fork", "done"}
      /\ pc' = "done" => result' = "failed" /\ rd' = rd /\ holders' = holders
      /\ pc' # "done" => result' = "none"
      BY DEF CreatePipe, IInv, Phases
<1>2. rd' \in [Streams -> BOOLEAN]
      BY DEF CreatePipe, IInv, Typed
<1>3. holders' \in [Streams -> SUBSET Processes]
  <2>1. {"self"} \in SUBSET Processes /\ holders \in [Streams -> SUBSET Processes]
        BY DEF Processes, IInv, Typed
  <2> QED
      BY <2>1 DEF CreatePipe
<1>4. \A s \in Streams : "child" \notin holders'[s] /\ pipe[s]["child"] = 0
      BY <1>1 DEF CreatePipe, IInv, Typed, ChildEnds, ChildData
<1>5. want = "none" /\ ~timedOut /\ exit # "killed"
      BY <1>1 DEF IInv, Typed, ChildEnds, Verdict
<1>6. \/ /\ pc = "pipeOut" /\ pc' = "pipeErr"
         /\ rd'["out"] /\ ~rd'["err"]
      \/ /\ pc = "pipeErr" /\ pc' = "fork"
         /\ rd'["out"] /\ rd'["err"]
      \/ pc' = "done" /\ ~rd'["err"]
      BY DEF CreatePipe, IInv, Typed, ParentEnds, Streams
<1>7. \A s \in Streams : "self" \in holders'[s] => rd'[s]
      BY DEF CreatePipe, IInv, Typed, ParentEnds
<1>8. Typed'
      BY <1>1, <1>2, <1>3 DEF IInv, Typed, Points
<1>9. Phases' /\ ChildEnds' /\ ChildData' /\ LoopEnd' /\ Verdict'
      BY <1>1, <1>4, <1>5 DEF IInv, Phases, ChildEnds, ChildData, LoopEnd, Verdict
<1>10. ParentEnds'
      BY <1>1, <1>6, <1>7 DEF IInv, ParentEnds
<1> QED
    BY <1>8, <1>9, <1>10 DEF IInv

LEMMA ForkStep ==
    ASSUME IInv, Fork
    PROVE  IInv'
<1> USE DEF procVars, pipeVars, loopVars
<1>1. /\ UNCHANGED <<pipe, exit, want, status, todo, final, late, timedOut>>
      /\ child = "none" /\ result = "none" /\ pc = "fork" /\ want = "none" /\ ~timedOut
      /\ exit # "killed"
      BY DEF Fork, IInv, Typed, Phases, ChildEnds, Verdict
<1>2. \A s \in Streams : pipe[s]["child"] = 0 /\ "child" \notin holders[s] /\ rd[s]
      BY <1>1 DEF IInv, ChildData, ChildEnds, ParentEnds, Streams
<1>3. holders \in [Streams -> SUBSET Processes] /\ rd \in [Streams -> BOOLEAN]
      BY DEF IInv, Typed
<1>4. CASE pc' = "close"
  <2>1. /\ child' = "running" /\ UNCHANGED <<rd, result>>
        /\ holders' = [s \in Streams |-> holders[s] \cup {"child"}]
        BY <1>1, <1>4 DEF Fork
  <2>2. holders' \in [Streams -> SUBSET Processes]
        BY <1>3, <2>1 DEF Processes
  <2>3. Typed'
        BY <1>1, <1>4, <2>1, <2>2 DEF IInv, Typed, Points
  <2>4. Phases' /\ ChildEnds' /\ ChildData' /\ LoopEnd' /\ Verdict' /\ ParentEnds'
        BY <1>1, <1>2, <1>4, <2>1
        DEF IInv, Phases, ChildEnds, ChildData, LoopEnd, Verdict, ParentEnds
  <2> QED
      BY <2>3, <2>4 DEF IInv
<1>5. CASE pc' = "done"
  <2>1. /\ result' = "failed" /\ child' = child
        /\ rd' = [s \in Streams |-> FALSE] /\ holders' = Without("self")
        BY <1>1, <1>5 DEF Fork
  <2>2. /\ holders' \in [Streams -> SUBSET Processes]
        /\ \A s \in Streams : "self" \notin holders'[s] /\ "child" \notin holders'[s]
        BY <1>2, <1>3, <2>1, WithoutFacts
  <2>3. Typed'
        BY <1>1, <1>5, <2>1, <2>2 DEF IInv, Typed, Points
  <2>4. Phases' /\ ChildEnds' /\ ChildData' /\ LoopEnd' /\ Verdict'
        BY <1>1, <1>2, <1>5, <2>1, <2>2 DEF IInv, Phases, ChildEnds, ChildData, LoopEnd, Verdict
  <2>5. ParentEnds'
        BY <1>5, <2>1, <2>2 DEF ParentEnds, Streams
  <2> QED
      BY <2>3, <2>4, <2>5 DEF IInv
<1> QED
    BY <1>4, <1>5 DEF Fork

LEMMA ThreadStep ==
    ASSUME IInv, Thread
    PROVE  IInv'
<1> USE DEF IInv, Typed, Phases, ChildEnds, ChildData, LoopEnd, ParentEnds, Verdict, Streams, Writers,
            Points, Endings, ExitCodes, Processes, Open, procVars, pipeVars, loopVars
<1>1. CASE \/ CreatePipe("out", "pipeOut", "pipeErr")
           \/ CreatePipe("err", "pipeErr", "fork")
      BY <1>1, PipeStep
<1>3. CASE Fork
      BY <1>3, ForkStep
<1>4. CASE CloseWriteEnds
      BY <1>4 DEF CloseWriteEnds, Without
<1>5. CASE Probe
      BY <1>5 DEF Probe, Reap
<1>6. CASE CheckDeadline
  <2>1. UNCHANGED <<rd, pipe, late, todo, final, result>> /\ pc = "deadline" /\ pc' = "poll"
        BY <1>6 DEF CheckDeadline
  <2>2. CASE late /\ child # "reaped"
        BY <1>6, <2>1, <2>2, WithoutFacts DEF CheckDeadline, KillAndReap
  <2>3. CASE ~(late /\ child # "reaped")
        BY <1>6, <2>1, <2>3 DEF CheckDeadline
  <2> QED
      BY <2>2, <2>3
<1>7. CASE PollReady \/ PollIdle \/ PollInterrupted
  <2>1. /\ UNCHANGED <<rd, holders, pipe, child, exit, want, late, status, timedOut, result>>
        /\ pc = "poll"
        BY <1>7 DEF PollReady, PollIdle, PollInterrupted, GiveUpIfDone
  <2>2. /\ pc' \in {"drain", "probe"}
        /\ todo' \subseteq Streams /\ final' \in BOOLEAN
        /\ pc' = "drain" /\ final' => child = "reaped"
        BY <1>7 DEF PollReady, PollIdle, PollInterrupted, GiveUpIfDone, Ready
  <2> QED
      BY <2>1, <2>2
<1>8. ASSUME NEW s \in Streams, DrainRead(s)
      PROVE  IInv'
      BY <1>8 DEF DrainRead, Draining
<1>9. ASSUME NEW s \in Streams, DrainEnds(s)
      PROVE  IInv'
      BY <1>9 DEF DrainEnds, Draining, Eof, Load
<1>10. CASE AwaitChild
      BY <1>10 DEF AwaitChild, Reap
<1>11. CASE Return
      BY <1>11 DEF Return
<1> QED
    BY <1>1, <1>3, <1>4, <1>5, <1>6, <1>7, <1>8, <1>9, <1>10, <1>11 DEF Thread

LEMMA EnvironmentStep ==
    ASSUME IInv, Environment
    PROVE  IInv'
<1> USE DEF IInv, Typed, Phases, ChildEnds, ChildData, LoopEnd, ParentEnds, Verdict, Streams, Writers,
            Points, Endings, ExitCodes, Processes, Open, procVars, pipeVars, loopVars
<1>1. ASSUME NEW s \in Streams, ChildCalls(s)
      PROVE  IInv'
      BY <1>1 DEF ChildCalls
<1>2. ASSUME NEW s \in Streams, ChildCloses(s)
      PROVE  IInv'
      BY <1>2 DEF ChildCloses
<1>3. ASSUME NEW s \in Streams, GrandWrites(s)
      PROVE  IInv'
      BY <1>3 DEF GrandWrites, Put
<1>4. ASSUME NEW e \in Endings, ChildExits(e)
      PROVE  IInv'
      BY <1>4 DEF ChildExits, Without
<1>5. CASE ChildWrites
      BY <1>5 DEF ChildWrites, Put
<1>6. CASE ChildForks
      BY <1>6 DEF ChildForks
<1>7. CASE GrandExits
      BY <1>7, WithoutFacts DEF GrandExits
<1>10. CASE OtherExits
      BY <1>10, WithoutFacts DEF OtherExits
<1>8. CASE OtherForks
      BY <1>8 DEF OtherForks
<1>9. CASE DeadlinePasses
      BY <1>9 DEF DeadlinePasses
<1> QED
    BY <1>1, <1>2, <1>3, <1>4, <1>5, <1>6, <1>7, <1>8, <1>9, <1>10 DEF Environment

LEMMA InvNext == IInv /\ [Next]_vars => IInv'
<1>1. ASSUME IInv, UNCHANGED vars
      PROVE  IInv'
      BY <1>1
      DEF vars, IInv, Typed, Phases, ChildEnds, ChildData, LoopEnd, ParentEnds, Verdict, Open,
          procVars, pipeVars, loopVars
<1> QED
    BY <1>1, ThreadStep, EnvironmentStep DEF Next, Finished

LEMMA Invariant == Spec => []IInv
BY InvInit, InvNext, PTL DEF Spec

(* What is bounded: the pipes by their capacity, and the interrupts.       *)
Bounded ==
    /\ grand \in BOOLEAN /\ other \in BOOLEAN
    /\ interrupts \in 0..MaxInterrupts
    /\ \A s \in Streams : Load(s) <= Capacity

LEMMA BoundedNext == IInv /\ Bounded /\ [Next]_vars => Bounded'
<1> SUFFICES ASSUME IInv, Bounded, [Next]_vars
             PROVE  Bounded'
    OBVIOUS
<1> USE DEF Bounded, procVars, pipeVars, loopVars
<1>1. pipe \in [Streams -> [Writers -> Nat]] /\ Capacity \in Nat /\ MaxInterrupts \in Nat
      BY LocalExecutorAssumption DEF IInv, Typed
<1>2. CASE UNCHANGED vars
      BY <1>2 DEF vars, Load
<1>3. ASSUME Thread
      PROVE  Bounded'
  <2>1. UNCHANGED <<grand, other>>
        BY <1>3 DEF Thread, CreatePipe, Fork, CloseWriteEnds, Probe, CheckDeadline, KillAndReap,
                    PollReady, PollIdle, PollInterrupted, DrainRead, DrainEnds, AwaitChild, Return
  <2>2. interrupts' \in 0..MaxInterrupts
        BY <1>1, <1>3
        DEF Thread, CreatePipe, Fork, CloseWriteEnds, Probe, CheckDeadline, KillAndReap,
            PollReady, PollIdle, PollInterrupted, DrainRead, DrainEnds, AwaitChild, Return
  <2>3. \A s \in Streams : Load(s)' <= Capacity
    <3>1. CASE pipe' = pipe
          BY <3>1 DEF Load
    <3>2. ASSUME NEW s \in Streams, DrainRead(s)
          PROVE  \A t \in Streams : Load(t)' <= Capacity
          BY <1>1, <3>2 DEF DrainRead, Load, Writers
    <3> QED
        BY <1>3, <3>1, <3>2
        DEF Thread, CreatePipe, Fork, CloseWriteEnds, Probe, CheckDeadline, PollReady, PollIdle,
            PollInterrupted, DrainEnds, AwaitChild, Return
  <2> QED
      BY <2>1, <2>2, <2>3
<1>4. ASSUME NEW s \in Streams, ChildCalls(s) \/ ChildCloses(s)
      PROVE  Bounded'
      BY <1>4 DEF ChildCalls, ChildCloses, Load
<1>5. ASSUME NEW s \in Streams, NEW w \in Writers, Put(s, w)
      PROVE  \A t \in Streams : Load(t)' <= Capacity
      BY <1>1, <1>5 DEF Put, Load, Writers
<1>7. ASSUME NEW s \in Streams, GrandWrites(s)
      PROVE  Bounded'
  <2>1. "grand" \in Writers /\ Put(s, "grand")
        BY <1>7 DEF GrandWrites, Writers
  <2> QED
      BY <1>5, <1>7, <2>1 DEF GrandWrites
<1>8. ASSUME ChildWrites
      PROVE  Bounded'
  <2>1. want \in Streams /\ "child" \in Writers /\ Put(want, "child")
        BY <1>8 DEF ChildWrites, IInv, Typed, Writers
  <2> QED
      BY <1>5, <1>8, <2>1 DEF ChildWrites
<1>9. CASE (\E e \in Endings : ChildExits(e)) \/ ChildForks \/ GrandExits \/ OtherForks \/ OtherExits
           \/ DeadlinePasses
      BY <1>9 DEF ChildExits, ChildForks, GrandExits, OtherForks, OtherExits, DeadlinePasses, Load
<1> QED
    BY <1>2, <1>3, <1>4, <1>7, <1>8, <1>9 DEF Next, Environment, Finished

(* Type correctness for any pipe capacity and unbounded output; no         *)
(* pipe holds more than its capacity.                                      *)
THEOREM TypeCorrect == Spec => []TypeOK
<1>1. ASSUME Init
      PROVE  Bounded
  <2>1. \A s \in Streams : Load(s) <= Capacity
        BY <1>1, LocalExecutorAssumption DEF Init, Load, Writers
  <2>2. interrupts \in 0..MaxInterrupts
        BY <1>1, LocalExecutorAssumption DEF Init
  <2>3. grand \in BOOLEAN /\ other \in BOOLEAN
        BY <1>1 DEF Init
  <2> QED
      BY <2>1, <2>2, <2>3 DEF Bounded
<1>2. IInv /\ Bounded => TypeOK
      BY DEF IInv, Typed, Bounded, TypeOK
<1> QED
    BY <1>1, <1>2, BoundedNext, Invariant, PTL DEF Spec

(* No output of the command itself is lost, whatever it leaves running and *)
(* whichever way it ends.                                                  *)
THEOREM OutputIsComplete == Spec => []OutputComplete
<1>1. IInv => OutputComplete
      BY DEF IInv, Typed, Phases, ChildData, ChildEnds, LoopEnd, ParentEnds, OutputComplete, Open,
             Streams, Writers
<1> QED
    BY <1>1, Invariant, PTL

(* No call leaves a zombie, a running command or, but for the first pipe   *)
(* when the second one fails, a descriptor behind.                         *)
THEOREM NothingIsLeft == Spec => []NothingLeft
<1>1. IInv => NothingLeft
      BY DEF IInv, Typed, Phases, LoopEnd, ParentEnds, Verdict, NothingLeft, Open, Streams
<1> QED
    BY <1>1, Invariant, PTL

----------------------------------------------------------------------------
(* Refinement: every step of the call is a step of Executor or a stutter.  *)

LEMMA PromiseInit == Init => Promise!Init
BY DEF Init, Promise!Init

LEMMA PromiseStep == IInv /\ [Next]_vars => [Promise!Next]_(Promise!vars)
<1> SUFFICES ASSUME IInv, [Next]_vars
             PROVE  [Promise!Next]_(Promise!vars)
    OBVIOUS
<1> USE DEF Promise!vars, procVars, pipeVars, loopVars
<1>0. /\ child \in {"none", "running", "zombie", "reaped"}
      /\ exit \in Endings \cup {"none", "killed"}
      BY DEF IInv, Typed
<1>1. CASE Fork
      BY <1>1 DEF Fork, IInv, Phases, Promise!Next, Promise!Start, Promise!Return
<1>2. ASSUME NEW s \in Streams, NEW from, NEW to, CreatePipe(s, from, to),
             from \in {"pipeOut", "pipeErr"}
      PROVE  [Promise!Next]_(Promise!vars)
      BY <1>2 DEF CreatePipe, IInv, Phases, Promise!Next, Promise!Return
<1>3. CASE CheckDeadline
  <2>1. CASE late /\ child # "reaped"
    <3>1. /\ child' = "reaped" /\ UNCHANGED <<late, result>>
          /\ exit' = IF child = "running" THEN "killed" ELSE exit
          BY <1>3, <2>1 DEF CheckDeadline, KillAndReap
    <3>2. child # "none"
          BY <1>3 DEF CheckDeadline, IInv, Phases
    <3> QED
        BY <1>0, <2>1, <3>1, <3>2 DEF Promise!Next, Promise!Kill
  <2>2. CASE ~(late /\ child # "reaped")
        BY <1>3, <2>2 DEF CheckDeadline
  <2> QED
      BY <2>1, <2>2
<1>4. CASE Probe \/ AwaitChild
  <2>1. /\ UNCHANGED <<exit, late, result>>
        /\ child' = child \/ (child = "zombie" /\ child' = "reaped")
        BY <1>4 DEF Probe, AwaitChild, Reap
  <2> QED
      BY <2>1
<1>5. CASE Return
  <2>1. /\ UNCHANGED <<child, exit, late>>
        /\ result = "none" /\ pc # "done"
        /\ result' = IF timedOut THEN "timeout" ELSE status
        /\ child = "reaped"
        BY <1>5 DEF Return, IInv, Phases, Verdict
  <2>2. /\ exit \in Endings \cup {"killed"} /\ status = exit
        /\ exit = "killed" => timedOut
        /\ timedOut => late
        BY <2>1 DEF IInv, Verdict
  <2> QED
      BY <2>1, <2>2 DEF Promise!Next, Promise!Return, Endings, ExitCodes
<1>6. ASSUME NEW e \in Endings, ChildExits(e)
      PROVE  [Promise!Next]_(Promise!vars)
      BY <1>6 DEF ChildExits, Promise!Next, Promise!End
<1>7. CASE DeadlinePasses
      BY <1>7 DEF DeadlinePasses, Promise!Next, Promise!DeadlinePasses
<1>8. CASE UNCHANGED <<child, exit, late, result>>
      BY <1>8
<1>9. CASE \/ CloseWriteEnds \/ PollReady \/ PollIdle \/ PollInterrupted
           \/ \E s \in Streams : DrainRead(s) \/ DrainEnds(s)
           \/ \E s \in Streams : ChildCalls(s) \/ ChildCloses(s) \/ GrandWrites(s)
           \/ ChildWrites \/ ChildForks \/ GrandExits \/ OtherForks \/ OtherExits
      BY <1>8, <1>9
      DEF CloseWriteEnds, PollReady, PollIdle, PollInterrupted, GiveUpIfDone, DrainRead, DrainEnds,
          ChildCalls, ChildCloses, GrandWrites, ChildWrites, ChildForks, GrandExits, OtherForks,
          OtherExits
<1> QED
    BY <1>1, <1>2, <1>3, <1>4, <1>5, <1>6, <1>7, <1>8, <1>9
    DEF Next, Thread, Environment, Finished, vars, Streams

(* runShell keeps the promise of Executor for every command: its exit code *)
(* is the command's own, a command is only killed after the deadline, and  *)
(* no call returns while its command runs.                                 *)
THEOREM RunShellImplementsExecutor == Spec => ImplementsExecutor
BY PromiseInit, PromiseStep, Invariant, PTL DEF Spec, ImplementsExecutor, Promise!Spec
=============================================================================
