------------------------------ MODULE Executor ------------------------------
(***************************************************************************)
(* What one call of Executor::runShell(shellCmd, timeoutMs) promises its   *)
(* caller (service/executor.hpp), with no processes, pipes or polling in   *)
(* it.  A command is started at most once and ends once, by itself or      *)
(* because the executor kills it after the deadline.  The call returns     *)
(* only when its command is over or was never started; an exit code is the *)
(* command's own, and a timeout is reported only after the deadline.       *)
(***************************************************************************)

CONSTANTS Endings  \* how a command can end by itself: exit codes, a signal

VARIABLES command,  \* "unstarted", "running", "killed", or how it ended
          late,     \* has timeoutMs passed?
          outcome   \* "pending", or what runShell returned

vars == <<command, late, outcome>>

Init ==
    /\ command = "unstarted"
    /\ late = FALSE
    /\ outcome = "pending"

Start ==
    /\ command = "unstarted"
    /\ outcome = "pending"
    /\ command' = "running"
    /\ UNCHANGED <<late, outcome>>

End ==
    /\ command = "running"
    /\ command' \in Endings
    /\ UNCHANGED <<late, outcome>>

Kill ==
    /\ command = "running"
    /\ late
    /\ command' = "killed"
    /\ UNCHANGED <<late, outcome>>

DeadlinePasses ==
    /\ late' = TRUE
    /\ UNCHANGED <<command, outcome>>

Return ==
    /\ outcome = "pending"
    /\ \/ command = "unstarted" /\ outcome' = "failed"
       \/ command \in Endings   /\ outcome' = command
       \/ command \in Endings \cup {"killed"} /\ late /\ outcome' = "timeout"
    /\ UNCHANGED <<command, late>>

Next == Start \/ End \/ Kill \/ DeadlinePasses \/ Return

Spec == Init /\ [][Next]_vars
=============================================================================
