---------------------------- MODULE LocalExecutor ----------------------------
(***************************************************************************)
(* service/local_executor.cpp: one call of LocalExecutor::runShell.        *)
(*                                                                         *)
(* The calling thread makes two pipes, forks a child that runs             *)
(* "sh -c shellCmd" with its stdout and stderr on them, drains both pipes  *)
(* in a poll loop that probes the child and enforces the deadline, and     *)
(* finally reaps the child and decodes its status.  Around it run the      *)
(* child, a background process the command may leave behind (grand), and   *)
(* the child of a concurrent runShell call (other), which inherits any     *)
(* write end that is open when it is forked: no descriptor is O_CLOEXEC.   *)
(*                                                                         *)
(* Output is counted in chunks per writer, and a pipe holds Capacity of    *)
(* them; how much the command and what it leaves behind write, and how     *)
(* often it forks, is not bounded.  An exit code is "zero" or "nonzero";   *)
(* "signal" is a death by a signal runShell did not send.                  *)
(***************************************************************************)
EXTENDS Naturals

CONSTANTS
    Capacity,      \* chunks a pipe holds before its writer blocks
    MaxInterrupts  \* bound: poll calls a signal handler interrupts

ASSUME LocalExecutorAssumption ==
    /\ Capacity \in Nat \ {0}
    /\ MaxInterrupts \in Nat

VARIABLES
    pc,          \* where the calling thread is
    rd,          \* rd[s]: outOpen/errOpen, the read end of stream s is open
    holders,     \* holders[s]: the processes that hold s's write end
    pipe,        \* pipe[s][w]: chunks of writer w in the pipe of stream s
    child,       \* "none", "running", "zombie", "reaped" (childDone)
    exit,        \* how the child ended
    want,        \* the stream the child is blocked writing to, or "none"
    grand,       \* is the background process running?
    other,       \* is the concurrent call's child running?
    late,        \* steady_clock::now() > deadline
    status,      \* the local status, which starts as 0: "exited with 0"
    todo,        \* the pipes still to drain in this round of the loop
    final,       \* close them even without EOF: the child is done
    timedOut,    \* ExecResult::timedOut
    result,      \* ExecResult::exitCode and error, once decoded
    interrupts   \* what MaxInterrupts leaves

procVars == <<child, exit, want, grand, other>>
pipeVars == <<rd, holders, pipe>>
loopVars == <<status, todo, final, timedOut>>
vars == <<pc, pipeVars, procVars, late, loopVars, result, interrupts>>

Streams   == {"out", "err"}
Writers   == {"child", "grand"}
Processes == {"self", "child", "grand", "other"}
Points    == {"pipeOut", "pipeErr", "fork", "close", "probe", "deadline", "poll", "drain",
              "reap", "done"}
ExitCodes == {"zero", "nonzero"}
Endings   == ExitCodes \cup {"signal"}

Init ==
    /\ pc = "pipeOut"
    /\ rd = [s \in Streams |-> FALSE]
    /\ holders = [s \in Streams |-> {}]
    /\ pipe = [s \in Streams |-> [w \in Writers |-> 0]]
    /\ child = "none" /\ exit = "none" /\ want = "none"
    /\ grand = FALSE /\ other = FALSE
    /\ late = FALSE
    /\ status = "zero"
    /\ todo = {} /\ final = FALSE
    /\ timedOut = FALSE
    /\ result = "none"
    /\ interrupts = MaxInterrupts

Open    == {s \in Streams : rd[s]}
Load(s) == pipe[s]["child"] + pipe[s]["grand"]
Eof(s)  == Load(s) = 0 /\ holders[s] = {}

(* A process that dies or is killed closes its write ends.  *)
Without(p) == [s \in Streams |-> holders[s] \ {p}]

----------------------------------------------------------------------------
(* The calling thread, up to the loop.  *)

CreatePipe(s, from, to) ==
    /\ pc = from
    /\ \/ /\ pc' = to
          /\ rd' = [rd EXCEPT ![s] = TRUE]
          /\ holders' = [holders EXCEPT ![s] = {"self"}]
          /\ UNCHANGED result
       \/ /\ pc' = "done"
          /\ result' = "failed"
          /\ UNCHANGED <<rd, holders>>
    /\ UNCHANGED <<pipe, procVars, late, loopVars, interrupts>>

(* Fault: a failed fork leaves the pipes open.  *)
ForkLeaks ==
    /\ pc = "fork"
    /\ \/ /\ pc' = "close"
          /\ child' = "running"
          /\ holders' = [s \in Streams |-> holders[s] \cup {"child"}]
          /\ UNCHANGED <<rd, result>>
       \/ /\ pc' = "done"
          /\ result' = "failed"
          /\ UNCHANGED <<child, rd, holders>>
    /\ UNCHANGED <<pipe, exit, want, grand, other, late, loopVars, interrupts>>

Fork ==
    /\ pc = "fork"
    /\ \/ /\ pc' = "close"
          /\ child' = "running"
          /\ holders' = [s \in Streams |-> holders[s] \cup {"child"}]
          /\ UNCHANGED <<rd, result>>
       \/ /\ pc' = "done"
          /\ result' = "failed"
          /\ rd' = [s \in Streams |-> FALSE]
          /\ holders' = Without("self")
          /\ UNCHANGED child
    /\ UNCHANGED <<pipe, exit, want, grand, other, late, loopVars, interrupts>>

CloseWriteEnds ==
    /\ pc = "close"
    /\ pc' = "probe"
    /\ holders' = Without("self")
    /\ UNCHANGED <<rd, pipe, procVars, late, loopVars, result, interrupts>>

----------------------------------------------------------------------------
(* The loop.  waitpid fills status and frees the zombie.  *)

Reap ==
    /\ child' = "reaped"
    /\ status' = exit

(* waitpid(WNOHANG), or the loop's end.  *)
Probe ==
    /\ pc = "probe"
    /\ IF Open = {}
       THEN pc' = "reap" /\ UNCHANGED <<child, status>>
       ELSE /\ pc' = "deadline"
            /\ IF child = "zombie" THEN Reap ELSE UNCHANGED <<child, status>>
    /\ UNCHANGED <<pipeVars, exit, want, grand, other, late, todo, final, timedOut, result,
                   interrupts>>

(* SIGKILL and a blocking waitpid.  A child that ended by itself after the *)
(* probe keeps its own status, and is reported as timed out all the same.  *)
KillAndReap ==
    /\ child' = "reaped"
    /\ exit' = IF child = "running" THEN "killed" ELSE exit
    /\ status' = exit'
    /\ holders' = Without("child")
    /\ want' = "none"

(* Fault: the timeout is noted but the command is not killed.  *)
CheckDeadlineOnlyNotes ==
    /\ pc = "deadline"
    /\ pc' = "poll"
    /\ timedOut' = (timedOut \/ (late /\ child # "reaped"))
    /\ UNCHANGED <<pipeVars, procVars, late, status, todo, final, result, interrupts>>

CheckDeadline ==
    /\ pc = "deadline"
    /\ pc' = "poll"
    /\ IF late /\ child # "reaped"
       THEN KillAndReap /\ timedOut' = TRUE
       ELSE UNCHANGED <<child, exit, status, holders, want, timedOut>>
    /\ UNCHANGED <<rd, pipe, grand, other, late, todo, final, result, interrupts>>

(* Fault: stderr is not polled while stdout is open.  *)
ReadyOneByOne ==
    {s \in (IF "out" \in Open THEN {"out"} ELSE Open) : Load(s) > 0 \/ holders[s] = {}}

(* POLLIN or POLLHUP.  *)
Ready == {s \in Open : Load(s) > 0 \/ holders[s] = {}}

PollReady ==
    /\ pc = "poll"
    /\ Ready # {}
    /\ todo' = Ready /\ final' = FALSE
    /\ pc' = "drain"
    /\ UNCHANGED <<pipeVars, procVars, late, status, timedOut, result, interrupts>>

(* Fault: only EOF ends the loop, whoever holds the write ends.  *)
GiveUpNever == pc' = "probe" /\ UNCHANGED <<todo, final>>

(* rv <= 0: once the child is done the pipes are drained a last time and   *)
(* closed, whoever else still holds their write ends.                      *)
GiveUpIfDone ==
    IF child = "reaped"
    THEN pc' = "drain" /\ todo' = Open /\ final' = TRUE
    ELSE pc' = "probe" /\ UNCHANGED <<todo, final>>

PollIdle ==
    /\ pc = "poll"
    /\ Ready = {}
    /\ GiveUpIfDone
    /\ UNCHANGED <<pipeVars, procVars, late, status, timedOut, result, interrupts>>

(* EINTR: the handlers main.cpp installs do not restart poll.  *)
PollInterrupted ==
    /\ pc = "poll"
    /\ interrupts > 0
    /\ interrupts' = interrupts - 1
    /\ GiveUpIfDone
    /\ UNCHANGED <<pipeVars, procVars, late, status, timedOut, result>>

(* drainFd reads until the pipe is empty, however long its writers keep it *)
(* from being so: it looks at neither the deadline nor the other pipe.     *)
Draining(s) == pc = "drain" /\ s \in todo /\ (s = "err" => "out" \notin todo)

DrainRead(s) ==
    /\ Draining(s)
    /\ \E w \in Writers :
        /\ pipe[s][w] > 0
        /\ pipe' = [pipe EXCEPT ![s][w] = @ - 1]
    /\ UNCHANGED <<pc, rd, holders, procVars, late, loopVars, result, interrupts>>

(* Fault: the drain may stop before the pipe is empty.  *)
DrainEndsEarly(s) ==
    /\ Draining(s)
    /\ todo' = todo \ {s}
    /\ rd' = [rd EXCEPT ![s] = ~final /\ ~Eof(s)]
    /\ pc' = IF todo' = {} THEN "probe" ELSE "drain"
    /\ UNCHANGED <<holders, pipe, procVars, late, status, final, timedOut, result, interrupts>>

(* EAGAIN keeps the pipe open unless this is its last drain, EOF closes it. *)
DrainEnds(s) ==
    /\ Draining(s)
    /\ Load(s) = 0
    /\ todo' = todo \ {s}
    /\ rd' = [rd EXCEPT ![s] = ~final /\ ~Eof(s)]
    /\ pc' = IF todo' = {} THEN "probe" ELSE "drain"
    /\ UNCHANGED <<holders, pipe, procVars, late, status, final, timedOut, result, interrupts>>

----------------------------------------------------------------------------
(* After the loop.  *)

(* The blocking waitpid, which has no deadline.  *)
AwaitChild ==
    /\ pc = "reap"
    /\ ~timedOut
    /\ child = "zombie"
    /\ Reap
    /\ UNCHANGED <<pc, pipeVars, exit, want, grand, other, late, todo, final, timedOut,
                   result, interrupts>>

(* Fault: the result is decoded whether or not the child was reaped.  *)
ReturnUnreaped ==
    /\ pc = "reap"
    /\ pc' = "done"
    /\ result' = IF timedOut THEN "timeout" ELSE status
    /\ UNCHANGED <<pipeVars, procVars, late, loopVars, interrupts>>

Return ==
    /\ pc = "reap"
    /\ timedOut \/ child = "reaped"
    /\ pc' = "done"
    /\ result' = IF timedOut THEN "timeout" ELSE status
    /\ UNCHANGED <<pipeVars, procVars, late, loopVars, interrupts>>

----------------------------------------------------------------------------
(* The processes around the call, and time.  *)

Put(s, w) == Load(s) < Capacity /\ pipe' = [pipe EXCEPT ![s][w] = @ + 1]

(* The command is sequential: while it is blocked in write it does nothing *)
(* else, and in particular does not exit.                                  *)
ChildCalls(s) ==
    /\ child = "running" /\ want = "none"
    /\ "child" \in holders[s]
    /\ want' = s
    /\ UNCHANGED <<pc, pipeVars, child, exit, grand, other, late, loopVars, result, interrupts>>

ChildWrites ==
    /\ want # "none"
    /\ Put(want, "child")
    /\ want' = "none"
    /\ UNCHANGED <<pc, rd, holders, child, exit, grand, other, late, loopVars, result, interrupts>>

ChildCloses(s) ==
    /\ child = "running" /\ want = "none"
    /\ "child" \in holders[s]
    /\ holders' = [holders EXCEPT ![s] = @ \ {"child"}]
    /\ UNCHANGED <<pc, rd, pipe, procVars, late, loopVars, result, interrupts>>

ChildForks ==
    /\ child = "running" /\ want = "none"
    /\ ~grand
    /\ grand' = TRUE
    /\ holders' = [s \in Streams |-> IF "child" \in holders[s] THEN holders[s] \cup {"grand"}
                                     ELSE holders[s]]
    /\ UNCHANGED <<pc, rd, pipe, child, exit, want, other, late, loopVars, result, interrupts>>

ChildExits(e) ==
    /\ child = "running" /\ want = "none"
    /\ child' = "zombie" /\ exit' = e
    /\ holders' = Without("child")
    /\ UNCHANGED <<pc, rd, pipe, want, grand, other, late, loopVars, result, interrupts>>

GrandWrites(s) ==
    /\ grand /\ "grand" \in holders[s] /\ rd[s]
    /\ Put(s, "grand")
    /\ UNCHANGED <<pc, rd, holders, child, exit, want, grand, other, late, loopVars, result,
                   interrupts>>

GrandExits ==
    /\ grand
    /\ grand' = FALSE
    /\ holders' = Without("grand")
    /\ UNCHANGED <<pc, rd, pipe, child, exit, want, other, late, loopVars, result, interrupts>>

(* A concurrent runShell call forks between our pipe and our close.  *)
OtherForks ==
    /\ ~other
    /\ \E s \in Streams : "self" \in holders[s]
    /\ other' = TRUE
    /\ holders' = [s \in Streams |-> IF "self" \in holders[s] THEN holders[s] \cup {"other"}
                                     ELSE holders[s]]
    /\ UNCHANGED <<pc, rd, pipe, child, exit, want, grand, late, loopVars, result, interrupts>>

OtherExits ==
    /\ other
    /\ other' = FALSE
    /\ holders' = Without("other")
    /\ UNCHANGED <<pc, rd, pipe, child, exit, want, grand, late, loopVars, result, interrupts>>

DeadlinePasses ==
    /\ pc \in {"probe", "deadline", "poll", "drain", "reap"}
    /\ ~late
    /\ late' = TRUE
    /\ UNCHANGED <<pc, pipeVars, procVars, loopVars, result, interrupts>>

----------------------------------------------------------------------------
Thread ==
    \/ CreatePipe("out", "pipeOut", "pipeErr") \/ CreatePipe("err", "pipeErr", "fork")
    \/ Fork \/ CloseWriteEnds
    \/ Probe \/ CheckDeadline \/ PollReady \/ PollIdle \/ PollInterrupted
    \/ \E s \in Streams : DrainRead(s) \/ DrainEnds(s)
    \/ AwaitChild \/ Return

Environment ==
    \/ \E s \in Streams : ChildCalls(s) \/ ChildCloses(s) \/ GrandWrites(s)
    \/ \E e \in Endings : ChildExits(e)
    \/ ChildWrites \/ ChildForks \/ GrandExits \/ OtherForks \/ OtherExits \/ DeadlinePasses

Finished == pc = "done" /\ UNCHANGED vars

Next == Thread \/ Environment \/ Finished

Spec == Init /\ [][Next]_vars

(* The calling thread runs, and a write to a pipe with room completes.     *)
(* Nothing is assumed of what the command, or time, does.                  *)
FairSpec == Spec /\ WF_vars(Thread) /\ WF_vars(ChildWrites)

----------------------------------------------------------------------------
(* Every variable has its type, and no pipe holds more than its capacity.  *)
TypeOK ==
    /\ pc \in Points
    /\ rd \in [Streams -> BOOLEAN]
    /\ holders \in [Streams -> SUBSET Processes]
    /\ pipe \in [Streams -> [Writers -> Nat]] /\ \A s \in Streams : Load(s) <= Capacity
    /\ child \in {"none", "running", "zombie", "reaped"}
    /\ exit \in Endings \cup {"none", "killed"}
    /\ want \in Streams \cup {"none"}
    /\ grand \in BOOLEAN /\ other \in BOOLEAN
    /\ late \in BOOLEAN
    /\ status \in Endings \cup {"killed"}
    /\ todo \subseteq Streams /\ final \in BOOLEAN
    /\ timedOut \in BOOLEAN
    /\ result \in Endings \cup {"none", "failed", "timeout"}
    /\ interrupts \in 0..MaxInterrupts

(* The output is complete: when the loop is over nothing the command itself *)
(* wrote is left in a pipe, even if it was killed, even if a background    *)
(* process still holds the pipes and the last poll was interrupted.        *)
OutputComplete ==
    pc \in {"reap", "done"} => \A s \in Streams : pipe[s]["child"] = 0

(* A call leaves neither a zombie nor a live command nor a descriptor      *)
(* behind.  The one exception the code makes is the first pipe when the    *)
(* second cannot be created.                                               *)
NothingLeft ==
    pc = "done" =>
        /\ child \in {"none", "reaped"}
        /\ \A s \in Streams : rd[s] \/ "self" \in holders[s] => s = "out" /\ result = "failed"
        /\ child = "reaped" => result # "failed"

(* runShell is an Executor: the exit code it returns is the command's own  *)
(* (the status is never decoded before it was filled), a command is only   *)
(* killed after the deadline, and no call returns while its command runs.  *)
Promise == INSTANCE Executor WITH
    command <- IF child = "none" THEN "unstarted"
               ELSE IF child = "running" THEN "running" ELSE exit,
    outcome <- IF result = "none" THEN "pending" ELSE result

ImplementsExecutor == Promise!Spec

(* What the code cannot bound: a background process that never falls       *)
(* silent, for which poll finds a pipe ready again and again, also after   *)
(* the child was reaped and the deadline is no longer looked at; and one   *)
(* drainFd whose pipe never runs dry.                                      *)
NeverSilent  == []<><<\E s \in Streams : GrandWrites(s)>>_vars
EndlessDrain == <>[](pc = "drain")

(* Both pipes are served: a command blocked on a full pipe gets on, also   *)
(* when it fills one pipe while the caller is waiting for the other,       *)
(* unless a background process takes the room for ever.                    *)
NoPipeDeadlock == (want # "none" ~> want = "none") \/ NeverSilent

(* A command that ended makes runShell return, also when a background      *)
(* process keeps its pipes, unless that process keeps writing to them.     *)
ReturnsWhenOver == (child = "zombie" ~> pc = "done") \/ NeverSilent

(* The deadline bounds the call (local_executor.cpp:91): once it has passed *)
(* runShell returns.                                                       *)
ReturnsOnTime == late ~> pc = "done"

Detached == child = "running" /\ \A s \in Streams : "child" \notin holders[s]

(* It does with three exceptions: the command closed both its outputs and  *)
(* goes on, a background process never falls silent, or a pipe never runs  *)
(* dry.  A holder of the pipes that falls silent, a full pipe, an          *)
(* interrupted poll and a command that blocks in write do not delay it.    *)
ReturnsUnlessDetached ==
    (late ~> pc = "done" \/ Detached) \/ NeverSilent \/ EndlessDrain
=============================================================================
