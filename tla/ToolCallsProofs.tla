--------------------------- MODULE ToolCallsProofs ---------------------------
(***************************************************************************)
(* Proofs about ToolCalls for any number of calls, of any tools.           *)
(***************************************************************************)
EXTENDS ToolCalls, TLAPS

USE DEF Goto, providerVars, callVars, deviceVars

----------------------------------------------------------------------------
(* The invariant.  *)

CommandsOf(t) ==
    IF t \in OneShot THEN {"act"}
    ELSE IF t = "launch_app" THEN {"launch"}
    ELSE IF t = "adb_shell" THEN {"shell"}
    ELSE IF t = "autoinstall_app" THEN {"install"}
    ELSE IF t = "text_input" THEN {"ascii", "ime", "clear", "broadcast", "direct"}
    ELSE IF t = "take_screenshot" THEN {"shot", "png", "size"}
    ELSE {}

InstallSteps == {"download", "rmPartial", "pm", "rmInstalled", "rmSilent", "rmRefused"}

(* Where the script of a command can be.  *)
ScriptOf(cmd) ==
    IF cmd = "install" THEN InstallSteps \cup Ends
    ELSE IF cmd = "shot" THEN {"screencap", "wmSize", "rmShot", "exit0", "exit1"}
    ELSE IF cmd = "launch" THEN {"monkey", "amStart", "monkeyAgain", "exit0", "exit1"}
    ELSE IF cmd = "broadcast" THEN {"send", "exit0", "exit1"}
    ELSE IF cmd \in {"act", "shell", "ascii", "direct"} THEN {"effect", "exit0", "exit1"}
    ELSE IF cmd \in {"ime", "clear", "size"} THEN {"nothing", "exit0", "exit1"}
    ELSE IF cmd = "png" THEN {"print"} \cup Ends
    ELSE {}

Busy == {"look", "make", "call", "run", "decide"}

(* A call's command is one of its tool, its script one of its command, and *)
(* only the commands whose output is looked at can end silently.           *)
CallShape(c) ==
    /\ pc[c] = "idle" => tool[c] = None /\ ~lost[c] /\ effects[c] = 0 /\ result[c] = "none"
    /\ pc[c] # "done" <=> reply[c] = "none"
    /\ pc[c] \in Busy => command[c] \in CommandsOf(tool[c])
    /\ pc[c] = "run" => script[c] \in ScriptOf(command[c])
    /\ pc[c] = "decide" /\ result[c] = "silent" => command[c] \in {"install", "png"}

(* Only calls whose outcome is lost leave something behind.  *)
DetachedShape ==
    \A d \in detached :
        lost[d.call] /\ (d.step \in InstallSteps => tool[d.call] = "autoinstall_app")

Shape == TypeOK /\ (\A c \in Calls : CallShape(c)) /\ DetachedShape

----------------------------------------------------------------------------
(* What a step of the device can change.  *)
LEMMA DeviceTypes ==
    ASSUME TypeOK, NEW c \in Calls, NEW step \in Steps \cup Ends \cup {None},
           NEW next \in Steps \cup Ends, DeviceStep(c, step, next)
    PROVE  /\ step \in Steps
           /\ apk' \in Calls \cup {None, "partial"}
           /\ shot' \in Calls \cup {None}
           /\ installed' \in [Calls -> Calls \cup {None}]
           /\ effects' \in [Calls -> Nat]
<1> USE ToolCallsAssumption
<1>1. CASE SimpleStep(c, step, next)
      BY <1>1 DEF TypeOK, SimpleStep, Affect, Steps, Ends
<1>2. CASE LaunchStep(c, step, next)
      BY <1>2 DEF TypeOK, LaunchStep, Affect, Steps, Ends
<1>3. CASE InstallStep(c, step, next)
      BY <1>3 DEF TypeOK, InstallStep, Steps, Ends
<1>4. CASE ShotStep(c, step, next)
      BY <1>4 DEF TypeOK, ShotStep, Steps, Ends
<1> QED
    BY <1>1, <1>2, <1>3, <1>4 DEF DeviceStep

LEMMA ShapeInit == Init => Shape
BY DEF Init, Shape, TypeOK, CallShape, DetachedShape, Points, Results, Backends, Busy

(* A step on behalf of call a leaves the other calls alone.  *)
Others(a) ==
    \A c \in Calls \ {a} :
        UNCHANGED <<tool[c], backend[c], pc[c], command[c], script[c], result[c], reply[c], lost[c],
                    installed[c], effects[c]>>

LEMMA ShapeKept ==
    ASSUME Shape, TypeOK', NEW a \in Calls, Others(a), CallShape(a)', DetachedShape'
    PROVE  Shape'
<1>1. ASSUME NEW c \in Calls \ {a}
      PROVE  CallShape(c)'
      BY <1>1 DEF Shape, CallShape, Others
<1> QED
    BY <1>1 DEF Shape

(* The steps of a thread between two commands.  *)
LEMMA ThreadShape ==
    ASSUME Shape, NEW c \in Calls,
           \/ Reject(c) \/ Terminate(c) \/ Enter(c) \/ Look(c) \/ Make(c) \/ CannotRun(c) \/ Run(c)
           \/ Continue(c) \/ Reply(c)
    PROVE  Shape' /\ Others(c) /\ UNCHANGED <<detached, deviceVars>>
<1> USE DEF Shape, TypeOK, CallShape, Points, Results, Backends, Busy
<1>1. CASE Reject(c) \/ Terminate(c)
    <2>1. TypeOK' /\ Others(c)
          BY <1>1, CalledAssumption DEF Reject, Terminate, Answer, Tools, Required, Others
    <2>2. CallShape(c)' /\ DetachedShape'
          BY <1>1 DEF Reject, Terminate, Answer, DetachedShape, Scripts
    <2> QED
        BY <1>1, <2>1, <2>2, ShapeKept DEF Reject, Terminate
<1>2. CASE Enter(c)
    <2> PICK t \in Called \ {"terminate"}, b \in Backends :
             /\ tool' = [tool EXCEPT ![c] = t]
             /\ backend' = [backend EXCEPT ![c] = b]
             /\ \E cmd \in FirstCommands(t, b) : command' = [command EXCEPT ![c] = cmd]
        BY <1>2 DEF Enter
    <2> PICK cmd \in FirstCommands(t, b) : command' = [command EXCEPT ![c] = cmd]
        OBVIOUS
    <2>1. t \in Tools /\ cmd \in Commands /\ cmd \in CommandsOf(t)
          BY CalledAssumption DEF FirstCommands, Commands, CommandsOf, OneShot, Tools, Required
    <2>2. TypeOK' /\ Others(c)
          BY <1>2, <2>1 DEF Enter, Others
    <2>3. CallShape(c)' /\ DetachedShape'
          BY <1>2, <2>1 DEF Enter, DetachedShape, Scripts
    <2> QED
        BY <1>2, <2>2, <2>3, ShapeKept DEF Enter
<1>3. CASE Look(c) \/ Make(c)
    <2>1. TypeOK' /\ Others(c)
          BY <1>3 DEF Look, Make, Others
    <2>2. CallShape(c)' /\ DetachedShape'
          BY <1>3 DEF Look, Make, DetachedShape
    <2> QED
        BY <1>3, <2>1, <2>2, ShapeKept DEF Look, Make
<1>4. CASE CannotRun(c)
    <2>1. TypeOK' /\ Others(c)
          BY <1>4 DEF CannotRun, Returns, Others
    <2>2. CallShape(c)' /\ DetachedShape'
          BY <1>4 DEF CannotRun, Returns, DetachedShape
    <2> QED
        BY <1>4, <2>1, <2>2, ShapeKept DEF CannotRun
<1>5. CASE Run(c)
    <2>1. /\ FirstStep(command[c]) \in Steps
          /\ FirstStep(command[c]) \in ScriptOf(command[c])
          BY <1>5 DEF Run, FirstStep, CommandsOf, ScriptOf, InstallSteps, Steps
    <2>2. TypeOK' /\ Others(c)
          BY <1>5, <2>1 DEF Run, Others
    <2>3. CallShape(c)' /\ DetachedShape'
          BY <1>5, <2>1 DEF Run, DetachedShape
    <2> QED
        BY <1>5, <2>2, <2>3, ShapeKept DEF Run
<1>6. CASE Continue(c)
    <2>1. /\ NextCommand(c) \in Commands
          /\ NextCommand(c) \in CommandsOf(tool[c])
          BY <1>6, ToolCallsAssumption DEF Continue, NextCommand, Commands, CommandsOf, OneShot
    <2>2. TypeOK' /\ Others(c)
          BY <1>6, <2>1 DEF Continue, Others
    <2>3. CallShape(c)' /\ DetachedShape'
          BY <1>6, <2>1 DEF Continue, DetachedShape
    <2> QED
        BY <1>6, <2>2, <2>3, ShapeKept DEF Continue
<1>7. CASE Reply(c)
    <2>1. TypeOK' /\ Others(c)
          BY <1>7 DEF Reply, Answer, Others
    <2>2. CallShape(c)' /\ DetachedShape'
          BY <1>7 DEF Reply, Answer, DetachedShape
    <2> QED
        BY <1>7, <2>1, <2>2, ShapeKept DEF Reply
<1> QED
    BY <1>1, <1>2, <1>3, <1>4, <1>5, <1>6, <1>7

(* A script stays within its command, and touches what belongs to its call. *)
LEMMA StepStays ==
    ASSUME NEW c \in Calls, NEW cmd, NEW step \in ScriptOf(cmd), NEW next, DeviceStep(c, step, next)
    PROVE  next \in ScriptOf(cmd)
<1> USE DEF ScriptOf, InstallSteps, Ends
<1>1. CASE SimpleStep(c, step, next)
      BY <1>1 DEF SimpleStep
<1>2. CASE LaunchStep(c, step, next)
      BY <1>2 DEF LaunchStep
<1>3. CASE InstallStep(c, step, next)
      BY <1>3 DEF InstallStep
<1>4. CASE ShotStep(c, step, next)
      BY <1>4 DEF ShotStep
<1> QED
    BY <1>1, <1>2, <1>3, <1>4 DEF DeviceStep

LEMMA DeviceFrame ==
    ASSUME TypeOK, NEW c \in Calls, NEW step, NEW next, DeviceStep(c, step, next)
    PROVE  /\ \A d \in Calls \ {c} : UNCHANGED <<installed[d], effects[d]>>
           /\ effects'[c] \in {effects[c], effects[c] + 1}
           /\ step \notin InstallSteps => UNCHANGED <<apk, installed>>
<1> USE DEF TypeOK, Affect, InstallSteps
<1>1. CASE SimpleStep(c, step, next)
      BY <1>1 DEF SimpleStep
<1>2. CASE LaunchStep(c, step, next)
      BY <1>2 DEF LaunchStep
<1>3. CASE InstallStep(c, step, next)
      BY <1>3 DEF InstallStep
<1>4. CASE ShotStep(c, step, next)
      BY <1>4 DEF ShotStep
<1> QED
    BY <1>1, <1>2, <1>3, <1>4 DEF DeviceStep

(* The end of a command, seen or not.  *)
LEMMA ResultShape ==
    ASSUME Shape, NEW c \in Calls, Finish(c) \/ GiveUp(c)
    PROVE  Shape' /\ Others(c) /\ UNCHANGED deviceVars
<1> USE DEF Shape, TypeOK, CallShape, Points, Results, Backends, Busy
<1>1. CASE Finish(c)
    <2>1. /\ Outcome(c) \in Results
          /\ backend[c] = "cloud" => Outcome(c) \notin {"nonzero", "timeout"}
          /\ Outcome(c) = "silent" => script[c] = "silent"
          BY <1>1 DEF Finish, Outcome, Ends
    <2>2. script[c] = "silent" => command[c] \in {"install", "png"}
          BY <1>1 DEF Finish, ScriptOf
    <2>3. TypeOK' /\ Others(c)
          BY <1>1, <2>1 DEF Finish, Returns, Others
    <2>4. CallShape(c)' /\ DetachedShape'
          BY <1>1, <2>1, <2>2 DEF Finish, Returns, DetachedShape
    <2> QED
        BY <1>1, <2>3, <2>4, ShapeKept DEF Finish
<1>2. CASE GiveUp(c)
    <2> DEFINE new == [call |-> c, step |-> script[c], goesOn |-> backend[c] = "cloud"]
    <2>1. script[c] \in Steps => new \in Scripts
        <3>1. (backend[c] = "cloud") \in BOOLEAN
              OBVIOUS
        <3> QED
            BY <3>1, Zenon DEF Scripts
    <2>2. detached' \subseteq Scripts
          BY <1>2, <2>1 DEF GiveUp
    <2>3. TypeOK' /\ Others(c)
          BY <1>2, <2>2 DEF GiveUp, Returns, Others
    <2>4. CallShape(c)'
          BY <1>2 DEF GiveUp, Returns
    <2>5. script[c] \in InstallSteps => tool[c] = "autoinstall_app"
          BY <1>2, ToolCallsAssumption DEF GiveUp, ScriptOf, InstallSteps, CommandsOf, OneShot, Ends
    <2>6. \A d \in detached' : d \in detached \/ d = new
          BY <1>2 DEF GiveUp
    <2>7. new.call = c /\ new.step = script[c]
          OBVIOUS
    <2> HIDE DEF new
    <2>8. lost'[c] /\ \A d \in Calls : lost[d] => lost'[d]
          BY <1>2 DEF GiveUp
    <2>9. DetachedShape'
          BY <1>2, <2>5, <2>6, <2>7, <2>8 DEF GiveUp, DetachedShape, Scripts
    <2> QED
        BY <1>2, <2>3, <2>4, <2>9, ShapeKept DEF GiveUp
<1> QED
    BY <1>1, <1>2

LEMMA ExecuteShape ==
    ASSUME Shape, NEW c \in Calls, Execute(c)
    PROVE  Shape' /\ Others(c)
<1> PICK next \in Steps \cup Ends :
         DeviceStep(c, script[c], next) /\ script' = [script EXCEPT ![c] = next]
    BY DEF Execute
<1>1. script[c] \in Steps \cup Ends \cup {None}
      BY DEF Shape, TypeOK
<1>2. /\ apk' \in Calls \cup {None, "partial"} /\ shot' \in Calls \cup {None}
      /\ installed' \in [Calls -> Calls \cup {None}] /\ effects' \in [Calls -> Nat]
      BY <1>1, DeviceTypes DEF Shape
<1>3. TypeOK'
      BY <1>2 DEF Execute, Shape, TypeOK
<1>4. \A d \in Calls \ {c} : UNCHANGED <<installed[d], effects[d]>>
      BY DeviceFrame DEF Shape
<1>5. Others(c)
      BY <1>4 DEF Others, Execute, Shape, TypeOK
<1>6. next \in ScriptOf(command[c])
      BY StepStays DEF Execute, Shape, CallShape
<1>7. CallShape(c)' /\ DetachedShape'
      BY <1>6 DEF Execute, Shape, TypeOK, CallShape, DetachedShape
<1> QED
    BY <1>3, <1>5, <1>7, ShapeKept

(* A step of what is left of a call whose outcome was lost.  *)
LEMMA DetachedStepShape ==
    ASSUME Shape, ExecuteDetached
    PROVE  /\ Shape'
           /\ UNCHANGED <<callVars, script>>
           /\ \E c \in Calls :
                 /\ lost[c]
                 /\ Others(c)
                 /\ effects'[c] \in {effects[c], effects[c] + 1}
                 /\ tool[c] # "autoinstall_app" => UNCHANGED <<apk, installed>>
<1> PICK d \in detached, next \in Steps \cup Ends :
         /\ DeviceStep(d.call, d.step, next)
         /\ detached' = IF d.goesOn /\ next \in Steps
                        THEN (detached \ {d}) \cup {[d EXCEPT !.step = next]}
                        ELSE detached \ {d}
    BY DEF ExecuteDetached
<1>0. UNCHANGED <<callVars, script, providerVars>>
      BY DEF ExecuteDetached
<1>1. d.call \in Calls /\ d.step \in Steps /\ detached' \subseteq Scripts
      BY DEF Scripts, Shape, TypeOK
<1>2. /\ apk' \in Calls \cup {None, "partial"} /\ shot' \in Calls \cup {None}
      /\ installed' \in [Calls -> Calls \cup {None}] /\ effects' \in [Calls -> Nat]
      BY <1>1, DeviceTypes DEF Shape
<1>3. TypeOK'
      BY <1>0, <1>1, <1>2 DEF Shape, TypeOK
<1>4. /\ \A e \in Calls \ {d.call} : UNCHANGED <<installed[e], effects[e]>>
      /\ effects'[d.call] \in {effects[d.call], effects[d.call] + 1}
      /\ d.step \notin InstallSteps => UNCHANGED <<apk, installed>>
      BY <1>1, DeviceFrame DEF Shape
<1>5. Others(d.call)
      BY <1>0, <1>4 DEF Others
<1>6. lost[d.call] /\ (d.step \in InstallSteps => tool[d.call] = "autoinstall_app")
      BY DEF Shape, DetachedShape
<1>7. CallShape(d.call)'
    <2>1. CallShape(d.call)
          BY <1>1 DEF Shape
    <2> QED
        BY <2>1, <1>0, <1>6 DEF CallShape
<1>8. next \in InstallSteps => d.step \in InstallSteps
      BY DEF DeviceStep, SimpleStep, LaunchStep, InstallStep, ShotStep, InstallSteps
<1>9. \A e \in detached' : e \in detached \/ (e.call = d.call /\ e.step = next)
      BY <1>1 DEF Scripts, Shape, TypeOK
<1>10. DetachedShape'
       BY <1>0, <1>6, <1>8, <1>9 DEF DetachedShape, Shape
<1>11. Shape'
       BY <1>1, <1>3, <1>5, <1>7, <1>10, ShapeKept
<1>12. tool[d.call] # "autoinstall_app" => UNCHANGED <<apk, installed>>
       BY <1>4, <1>6
<1> QED
    BY <1>0, <1>1, <1>4, <1>5, <1>6, <1>11, <1>12

LEMMA ShapeNext == Shape /\ [Next]_vars => Shape'
<1> SUFFICES ASSUME Shape, [Next]_vars
             PROVE  Shape'
    OBVIOUS
<1>1. CASE \E c \in Calls : Reject(c) \/ Terminate(c) \/ Enter(c) \/ CallStep(c) \/ Execute(c)
      BY <1>1, ThreadShape, ResultShape, ExecuteShape DEF CallStep, ProviderStep
<1>2. CASE ExecuteDetached
      BY <1>2, DetachedStepShape
<1>3. CASE DetachedDies
      BY <1>3 DEF DetachedDies, Shape, TypeOK, CallShape, DetachedShape
<1>4. CASE UNCHANGED vars
      BY <1>4 DEF vars, Shape, TypeOK, CallShape, DetachedShape
<1> QED
    BY <1>1, <1>2, <1>3, <1>4 DEF Next, Finished

(* Every variable keeps its type, and a cloud call never yields a timeout  *)
(* or a nonzero exit code (CloudExecutor::runShell).                       *)
THEOREM TypeCorrect == Spec => []TypeOK
<1>1. Shape => TypeOK
      BY DEF Shape
<1> QED
    BY <1>1, ShapeInit, ShapeNext, PTL DEF Spec

----------------------------------------------------------------------------
(* What took place for a call.  *)

(* The call's last command took effect, as far as the call can tell.  *)
Took(c) ==
    \/ pc[c] = "run" /\ script[c] = "exit0"
    \/ pc[c] = "decide" /\ result[c] = "ok"
    \/ reply[c] = "success"

Counted(c) ==
    /\ tool[c] \in OneShot \cup {"text_input"} /\ ~lost[c] =>
        /\ effects[c] = 0 \/ (effects[c] = 1 /\ Took(c))
        /\ tool[c] \in OneShot /\ Took(c) => effects[c] = 1
        /\ command[c] \in {"ime", "clear"} => effects[c] = 0
    /\ tool[c] = "launch_app" /\ Took(c) => effects[c] > 0

AllCounted == \A c \in Calls : Counted(c)

LEMMA CountedKept ==
    ASSUME AllCounted, NEW a \in Calls, Others(a), Counted(a)'
    PROVE  AllCounted'
BY DEF AllCounted, Counted, Took, Others

LEMMA ProgramEffect ==
    ASSUME TypeOK, NEW c \in Calls, NEW step \in {"effect", "send", "nothing", "exit0", "exit1"},
           NEW next, DeviceStep(c, step, next)
    PROVE  /\ step \in {"effect", "send", "nothing"}
           /\ next \in {"exit0", "exit1"}
           /\ \/ next = "exit0" /\ step \in {"effect", "send"} /\ effects'[c] = effects[c] + 1
              \/ next = "exit0" /\ step \in {"send", "nothing"} /\ effects'[c] = effects[c]
              \/ next = "exit1" /\ effects'[c] = effects[c]
BY DEF TypeOK, DeviceStep, SimpleStep, LaunchStep, InstallStep, ShotStep, Affect

LEMMA LaunchEffect ==
    ASSUME TypeOK, NEW c \in Calls, NEW step \in ScriptOf("launch"), DeviceStep(c, step, "exit0")
    PROVE  effects'[c] > 0
BY DEF TypeOK, ScriptOf, DeviceStep, SimpleStep, LaunchStep, InstallStep, ShotStep, Affect

LEMMA ThreadCounted ==
    ASSUME Shape, AllCounted, NEW c \in Calls,
           \/ Reject(c) \/ Terminate(c) \/ Enter(c) \/ Look(c) \/ Make(c) \/ CannotRun(c) \/ Run(c)
           \/ Continue(c) \/ Reply(c)
    PROVE  AllCounted'
<1> USE ToolCallsAssumption DEF Counted, Took
<1>1. Shape' /\ Others(c) /\ CallShape(c) /\ Counted(c) /\ CallShape(c)' /\ TypeOK
      BY ThreadShape DEF Shape, AllCounted
<1>2. CASE Reject(c) \/ Terminate(c)
    <2>1. Counted(c)'
          BY <1>1, <1>2 DEF Reject, Terminate, Answer, CallShape, OneShot, TypeOK
    <2> QED
        BY <1>1, <2>1, CountedKept
<1>3. CASE Enter(c)
    <2>1. Counted(c)'
          BY <1>1, <1>3 DEF Enter, CallShape, TypeOK
    <2> QED
        BY <1>1, <2>1, CountedKept
<1>4. CASE Look(c) \/ Make(c)
    <2>1. Counted(c)'
          BY <1>1, <1>4 DEF Look, Make, CallShape, TypeOK
    <2> QED
        BY <1>1, <2>1, CountedKept
<1>5. CASE CannotRun(c)
    <2>1. Counted(c)'
          BY <1>1, <1>5 DEF CannotRun, Returns, CallShape, TypeOK
    <2> QED
        BY <1>1, <2>1, CountedKept
<1>6. CASE Run(c)
    <2>1. FirstStep(command[c]) # "exit0"
          BY <1>1, <1>6 DEF Run, FirstStep, CallShape, CommandsOf, Busy
    <2>2. Counted(c)'
          BY <1>1, <1>6, <2>1 DEF Run, CallShape, TypeOK
    <2> QED
        BY <1>1, <2>2, CountedKept
<1>7. CASE Continue(c)
    <2>1. /\ tool[c] \notin OneShot
          /\ tool[c] = "text_input" => command[c] \in {"ime", "clear"} \/ result[c] # "ok"
          BY <1>1, <1>7 DEF Continue, NextCommand, Ok, CallShape, CommandsOf, Busy, OneShot
    <2>2. Counted(c)'
          BY <1>1, <1>7, <2>1 DEF Continue, CallShape, TypeOK
    <2> QED
        BY <1>1, <2>2, CountedKept
<1>8. CASE Reply(c)
    <2>1. tool[c] \in OneShot \cup {"text_input", "launch_app"} => (Succeeds(c) <=> result[c] = "ok")
        <3> SUFFICES ASSUME tool[c] \in OneShot \cup {"text_input", "launch_app"}
                     PROVE  Succeeds(c) <=> result[c] = "ok"
            OBVIOUS
        <3>1. command[c] \in {"act", "launch", "ascii", "direct", "broadcast", "ime", "clear"}
              BY <1>1, <1>8 DEF Reply, CallShape, CommandsOf, Busy, OneShot
        <3>2. command[c] \notin {"ime", "clear"}
            <4>1. command[c] = "ime" => NextCommand(c) = "clear"
                  BY DEF NextCommand
            <4>2. command[c] = "clear" => NextCommand(c) = "broadcast"
                  BY DEF NextCommand
            <4>3. NextCommand(c) = None
                  BY <1>8 DEF Reply
            <4> QED
                BY <4>1, <4>2, <4>3, NoneAssumption DEF Commands
        <3>3. Succeeds(c) <=> Ok(result[c])
              BY <3>1, <3>2 DEF Succeeds
        <3>4. result[c] # "silent"
              BY <1>1, <1>8, <3>1 DEF Reply, CallShape
        <3> QED
            BY <3>3, <3>4 DEF Ok
    <2>2. reply' = [reply EXCEPT ![c] = IF Succeeds(c) THEN "success" ELSE "error"]
          BY <1>8 DEF Reply, Answer
    <2>3. /\ pc'[c] = "done" /\ tool'[c] = tool[c] /\ lost'[c] = lost[c] /\ effects'[c] = effects[c]
          /\ command'[c] = None
          BY <1>1, <1>8 DEF Reply, Answer, TypeOK
    <2>4. tool[c] \in OneShot \cup {"text_input", "launch_app"} => (Took(c)' <=> result[c] = "ok")
          BY <1>1, <2>1, <2>2, <2>3 DEF TypeOK
    <2>5. pc[c] = "decide" /\ reply[c] = "none"
          BY <1>1, <1>8 DEF Reply, CallShape
    <2>6. Took(c) <=> result[c] = "ok"
          BY <2>5
    <2>7. None \notin {"ime", "clear"}
          BY NoneAssumption DEF Commands
    <2> HIDE DEF Took
    <2>8. Counted(c)'
          BY <1>1, <2>3, <2>4, <2>6, <2>7
    <2> QED
        BY <1>1, <2>8, CountedKept
<1> QED
    BY <1>2, <1>3, <1>4, <1>5, <1>6, <1>7, <1>8

LEMMA ResultCounted ==
    ASSUME Shape, AllCounted, NEW c \in Calls, Finish(c) \/ GiveUp(c)
    PROVE  AllCounted'
<1>1. Shape' /\ Others(c) /\ CallShape(c) /\ Counted(c) /\ CallShape(c)' /\ TypeOK /\ TypeOK'
      BY ResultShape DEF Shape, AllCounted
<1>2. /\ pc[c] = "run" /\ reply[c] = "none" /\ reply'[c] = "none" /\ pc'[c] = "decide"
      /\ tool'[c] = tool[c] /\ command'[c] = command[c] /\ effects'[c] = effects[c]
      BY <1>1, ResultShape DEF Finish, GiveUp, Returns, CallShape, TypeOK
<1>3. CASE Finish(c)
    <2>1. result'[c] = "ok" <=> script[c] = "exit0"
          BY <1>1, <1>3 DEF Finish, Returns, Outcome, TypeOK, Ends
    <2>2. Took(c)' <=> Took(c)
          BY <1>2, <2>1 DEF Took
    <2>3. Counted(c)'
          BY <1>1, <1>2, <1>3, <2>2 DEF Counted, Finish
    <2> QED
        BY <1>1, <2>3, CountedKept
<1>4. CASE GiveUp(c)
    <2>1. lost'[c] /\ result'[c] # "ok"
          BY <1>1, <1>4 DEF GiveUp, Returns, TypeOK
    <2>2. Counted(c)'
          BY <1>2, <2>1 DEF Counted, Took
    <2> QED
        BY <1>1, <2>2, CountedKept
<1> QED
    BY <1>3, <1>4

LEMMA ExecuteCounted ==
    ASSUME Shape, AllCounted, NEW c \in Calls, Execute(c)
    PROVE  AllCounted'
<1>1. Shape' /\ Others(c) /\ CallShape(c) /\ Counted(c) /\ TypeOK
      BY ExecuteShape DEF Shape, AllCounted
<1> PICK next \in Steps \cup Ends :
         DeviceStep(c, script[c], next) /\ script' = [script EXCEPT ![c] = next]
    BY DEF Execute
<1>2. /\ pc[c] = "run" /\ reply[c] = "none"
      /\ script[c] \in ScriptOf(command[c]) /\ command[c] \in CommandsOf(tool[c])
      BY <1>1 DEF Execute, CallShape, Busy
<1>3. /\ script'[c] = next
      /\ UNCHANGED <<pc[c], reply[c], tool[c], command[c], lost[c], result[c]>>
      BY <1>1 DEF Execute, TypeOK
<1>4. Took(c) <=> script[c] = "exit0"
      BY <1>2 DEF Took
<1>5. Took(c)' <=> next = "exit0"
      BY <1>2, <1>3 DEF Took
<1>6. effects[c] \in Nat
      BY <1>1 DEF TypeOK
<1>7. CASE tool[c] \in OneShot \cup {"text_input"}
    <2>1. command[c] \in {"act", "ascii", "ime", "clear", "broadcast", "direct"}
          BY <1>2, <1>7 DEF CommandsOf, OneShot
    <2>2. script[c] \in {"effect", "send", "nothing", "exit0", "exit1"}
          BY <1>2, <2>1 DEF ScriptOf
    <2>3. /\ tool[c] \in OneShot => command[c] = "act"
          /\ command[c] = "act" => script[c] \in {"effect", "exit0", "exit1"}
          /\ command[c] \in {"ime", "clear"} => script[c] \in {"nothing", "exit0", "exit1"}
          BY <1>2 DEF CommandsOf, ScriptOf
    <2>4. /\ script[c] \in {"effect", "send", "nothing"}
          /\ next \in {"exit0", "exit1"}
          /\ \/ next = "exit0" /\ script[c] \in {"effect", "send"} /\ effects'[c] = effects[c] + 1
             \/ next = "exit0" /\ script[c] \in {"send", "nothing"} /\ effects'[c] = effects[c]
             \/ next = "exit1" /\ effects'[c] = effects[c]
          BY <1>1, <2>2, ProgramEffect
    <2>5. ~lost[c] => effects[c] = 0
          BY <1>1, <1>4, <1>7, <2>4 DEF Counted
    <2>6. tool[c] # "launch_app"
          BY <1>7 DEF OneShot
    <2>7. Counted(c)'
          BY <1>3, <1>5, <2>3, <2>4, <2>5, <2>6 DEF Counted
    <2> QED
        BY <1>1, <2>7, CountedKept
<1>8. CASE tool[c] = "launch_app"
    <2>1. script[c] \in ScriptOf("launch")
          BY <1>2, <1>8 DEF CommandsOf, OneShot
    <2>2. next = "exit0" => effects'[c] > 0
          BY <1>1, <2>1, LaunchEffect
    <2>3. Counted(c)'
          BY <1>3, <1>5, <1>8, <2>2 DEF Counted, OneShot
    <2> QED
        BY <1>1, <2>3, CountedKept
<1>9. CASE tool[c] \notin OneShot \cup {"text_input", "launch_app"}
    <2>1. Counted(c)'
          BY <1>3, <1>9 DEF Counted
    <2> QED
        BY <1>1, <2>1, CountedKept
<1> QED
    BY <1>7, <1>8, <1>9

LEMMA CountedInv == Shape /\ AllCounted /\ [Next]_vars => AllCounted'
<1> SUFFICES ASSUME Shape, AllCounted, [Next]_vars
             PROVE  AllCounted'
    OBVIOUS
<1>1. CASE \E c \in Calls : Reject(c) \/ Terminate(c) \/ Enter(c) \/ CallStep(c) \/ Execute(c)
      BY <1>1, ThreadCounted, ResultCounted, ExecuteCounted DEF CallStep, ProviderStep
<1>2. CASE ExecuteDetached
    <2>1. UNCHANGED <<callVars, script>>
          BY <1>2, DetachedStepShape
    <2> PICK c \in Calls : lost[c] /\ Others(c) /\ effects'[c] \in {effects[c], effects[c] + 1}
        BY <1>2, DetachedStepShape
    <2>2. effects[c] \in Nat
          BY DEF Shape, TypeOK
    <2>3. Counted(c)'
          BY <2>1, <2>2 DEF AllCounted, Counted, Took
    <2> QED
        BY <2>3, CountedKept
<1>3. CASE DetachedDies \/ UNCHANGED vars
      BY <1>3 DEF DetachedDies, vars, AllCounted, Counted, Took
<1> QED
    BY <1>1, <1>2, <1>3 DEF Next, Finished

(* The provider's methods report what happened: an action answered with    *)
(* success took place, once, one answered with isError did not, and text   *)
(* is not entered twice by a fallback, unless an outcome was lost.         *)
THEOREM AnswersAreTrue == Spec => []AnswerIsTrue
<1>1. Init => AllCounted
      BY DEF Init, AllCounted, Counted, Took
<1>2. Shape /\ AllCounted => AnswerIsTrue
    <2> SUFFICES ASSUME TypeOK, NEW c \in Calls, CallShape(c), Counted(c), reply[c] # "none"
                 PROVE  /\ tool[c] \in OneShot /\ ~lost[c] =>
                              effects[c] = IF reply[c] = "success" THEN 1 ELSE 0
                        /\ tool[c] = "text_input" /\ ~lost[c] =>
                              effects[c] <= IF reply[c] = "success" THEN 1 ELSE 0
                        /\ tool[c] = "launch_app" /\ reply[c] = "success" => effects[c] > 0
        BY DEF AnswerIsTrue, Shape, AllCounted
    <2>1. pc[c] = "done"
          BY DEF CallShape
    <2>2. Took(c) <=> reply[c] = "success"
          BY <2>1 DEF Took
    <2> QED
        BY <2>2 DEF Counted
<1> QED
    BY <1>1, <1>2, ShapeInit, ShapeNext, CountedInv, PTL DEF Spec

----------------------------------------------------------------------------
(* What was installed.  *)

(* The temporary file, and what was installed from it, are of install calls. *)
FromInstalls ==
    /\ apk \in Calls => tool[apk] = "autoinstall_app"
    /\ \A c \in Calls : installed[c] \in Calls => tool[installed[c]] = "autoinstall_app"

(* pm install said Success, as far as the call can tell.  *)
SaidSuccess(c) ==
    \/ pc[c] = "run" /\ script[c] \in {"rmInstalled", "exit0"}
    \/ pc[c] = "decide" /\ result[c] = "ok"
    \/ reply[c] = "success"

InstallDone(c) == tool[c] = "autoinstall_app" /\ SaidSuccess(c) => installed[c] # None

Installs == FromInstalls /\ \A c \in Calls : InstallDone(c)

LEMMA InstallEffect ==
    ASSUME TypeOK, NEW c \in Calls, NEW step, NEW next, DeviceStep(c, step, next)
    PROVE  /\ apk' = apk \/ apk' \notin Calls \/ (apk' = c /\ step \in InstallSteps)
           /\ \A e \in Calls : \/ installed'[e] = installed[e]
                               \/ apk \in Calls /\ installed'[e] = apk
           /\ step \in InstallSteps /\ next = "rmInstalled" => installed'[c] \in Calls
           /\ step \in InstallSteps /\ next = "exit0" => step = "rmInstalled"
           /\ step # "exit0"
<1> USE ToolCallsAssumption DEF TypeOK, InstallSteps
<1>1. CASE SimpleStep(c, step, next)
      BY <1>1 DEF SimpleStep
<1>2. CASE LaunchStep(c, step, next)
      BY <1>2 DEF LaunchStep
<1>3. CASE InstallStep(c, step, next)
      BY <1>3 DEF InstallStep
<1>4. CASE ShotStep(c, step, next)
      BY <1>4 DEF ShotStep
<1> QED
    BY <1>1, <1>2, <1>3, <1>4 DEF DeviceStep

(* A step that leaves the device alone and forgets no tool.  *)
LEMMA FromInstallsKept ==
    ASSUME FromInstalls, TypeOK,
           UNCHANGED <<apk, installed>>,
           \A c \in Calls : tool[c] # None => tool'[c] = tool[c]
    PROVE  FromInstalls'
BY ToolCallsAssumption DEF FromInstalls, Tools, Required

LEMMA InstallsKept ==
    ASSUME Installs, NEW a \in Calls, Others(a), FromInstalls', InstallDone(a)'
    PROVE  Installs'
BY DEF Installs, InstallDone, SaidSuccess, Others

(* A step of the device on behalf of an install, or of another call.  *)
LEMMA FromInstallsStep ==
    ASSUME FromInstalls, TypeOK, NEW c \in Calls, NEW step, NEW next, DeviceStep(c, step, next),
           step \in InstallSteps => tool[c] = "autoinstall_app",
           UNCHANGED tool
    PROVE  FromInstalls'
<1>1. /\ apk' = apk \/ apk' \notin Calls \/ (apk' = c /\ step \in InstallSteps)
      /\ \A e \in Calls : \/ installed'[e] = installed[e]
                          \/ apk \in Calls /\ installed'[e] = apk
      BY InstallEffect
<1> QED
    BY <1>1 DEF FromInstalls

LEMMA ThreadInstalls ==
    ASSUME Shape, Installs, NEW c \in Calls,
           \/ Reject(c) \/ Terminate(c) \/ Enter(c) \/ Look(c) \/ Make(c) \/ CannotRun(c) \/ Run(c)
           \/ Continue(c) \/ Reply(c)
    PROVE  Installs'
<1>1. /\ Others(c) /\ CallShape(c) /\ CallShape(c)' /\ InstallDone(c) /\ TypeOK /\ FromInstalls
      /\ UNCHANGED deviceVars
      BY ThreadShape DEF Shape, Installs
<1>2. tool[c] # None => tool'[c] = tool[c]
      BY <1>1 DEF CallShape, Reject, Terminate, Enter, Look, Make, CannotRun, Run, Continue, Reply
<1>3. FromInstalls'
      BY <1>1, <1>2, FromInstallsKept DEF Others
<1>4. CASE Reject(c) \/ Terminate(c)
    <2>1. InstallDone(c)'
          BY <1>1, <1>4 DEF Reject, Terminate, Answer, TypeOK, InstallDone, SaidSuccess
    <2> QED
        BY <1>1, <1>3, <2>1, InstallsKept
<1>5. CASE Enter(c) \/ Look(c) \/ Make(c) \/ CannotRun(c) \/ Continue(c)
    <2>1. ~SaidSuccess(c)'
          BY <1>1, <1>5 DEF Enter, Look, Make, CannotRun, Continue, Returns, CallShape, TypeOK,
                            SaidSuccess
    <2>2. InstallDone(c)'
          BY <2>1 DEF InstallDone
    <2> QED
        BY <1>1, <1>3, <2>2, InstallsKept
<1>6. CASE Run(c)
    <2>1. FirstStep(command[c]) \notin {"rmInstalled", "exit0"}
          BY <1>1, <1>6 DEF Run, FirstStep, CallShape, CommandsOf, Busy
    <2>2. ~SaidSuccess(c)'
          BY <1>1, <1>6, <2>1 DEF Run, CallShape, TypeOK, SaidSuccess
    <2>3. InstallDone(c)'
          BY <2>2 DEF InstallDone
    <2> QED
        BY <1>1, <1>3, <2>3, InstallsKept
<1>7. CASE Reply(c)
    <2> SUFFICES ASSUME tool[c] = "autoinstall_app"
                 PROVE  InstallDone(c)'
        BY <1>1, <1>3, <1>7, InstallsKept DEF InstallDone, Reply
    <2>1. command[c] = "install" /\ pc[c] = "decide"
          BY <1>1, <1>7 DEF Reply, CallShape, CommandsOf, Busy, OneShot
    <2>2. Succeeds(c) => result[c] = "ok"
          BY <2>1 DEF Succeeds
    <2>3. SaidSuccess(c)' => SaidSuccess(c)
          BY <1>1, <1>7, <2>1, <2>2 DEF Reply, Answer, TypeOK, SaidSuccess
    <2> QED
        BY <1>1, <1>7, <2>3 DEF InstallDone, Reply
<1> QED
    BY <1>4, <1>5, <1>6, <1>7

LEMMA ResultInstalls ==
    ASSUME Shape, Installs, NEW c \in Calls, Finish(c) \/ GiveUp(c)
    PROVE  Installs'
<1>1. /\ Others(c) /\ CallShape(c) /\ CallShape(c)' /\ InstallDone(c) /\ TypeOK /\ FromInstalls
      /\ UNCHANGED deviceVars
      BY ResultShape DEF Shape, Installs
<1>2. UNCHANGED <<tool, reply>> /\ pc[c] = "run" /\ pc'[c] = "decide"
      BY <1>1 DEF Finish, GiveUp, Returns, TypeOK
<1>3. FromInstalls'
      BY <1>1, <1>2, FromInstallsKept
<1>4. result'[c] = "ok" => script[c] = "exit0"
      BY <1>1 DEF Finish, GiveUp, Returns, Outcome, TypeOK, Ends
<1>5. SaidSuccess(c)' => SaidSuccess(c)
      BY <1>2, <1>4 DEF SaidSuccess
<1>6. InstallDone(c)'
      BY <1>1, <1>2, <1>5 DEF InstallDone
<1> QED
    BY <1>1, <1>3, <1>6, InstallsKept

LEMMA ExecuteInstalls ==
    ASSUME Shape, Installs, NEW c \in Calls, Execute(c)
    PROVE  Installs'
<1>1. Others(c) /\ CallShape(c) /\ InstallDone(c) /\ TypeOK /\ FromInstalls
      BY ExecuteShape DEF Shape, Installs
<1> PICK next \in Steps \cup Ends :
         DeviceStep(c, script[c], next) /\ script' = [script EXCEPT ![c] = next]
    BY DEF Execute
<1>2. /\ pc[c] = "run" /\ reply[c] = "none" /\ UNCHANGED <<tool, pc, reply>>
      /\ script'[c] = next
      /\ script[c] \in ScriptOf(command[c]) /\ command[c] \in CommandsOf(tool[c])
      BY <1>1 DEF Execute, CallShape, Busy, TypeOK
<1>3. script[c] \in InstallSteps => tool[c] = "autoinstall_app"
      BY <1>2 DEF ScriptOf, InstallSteps, CommandsOf, OneShot, Ends
<1>4. FromInstalls'
      BY <1>1, <1>2, <1>3, FromInstallsStep
<1>5. /\ \A e \in Calls : \/ installed'[e] = installed[e]
                          \/ apk \in Calls /\ installed'[e] = apk
      /\ script[c] \in InstallSteps /\ next = "rmInstalled" => installed'[c] \in Calls
      /\ script[c] \in InstallSteps /\ next = "exit0" => script[c] = "rmInstalled"
      BY <1>1, InstallEffect
<1>6. InstallDone(c)'
    <2> SUFFICES ASSUME tool[c] = "autoinstall_app", next \in {"rmInstalled", "exit0"}
                 PROVE  installed'[c] # None
        BY <1>2 DEF InstallDone, SaidSuccess
    <2>1. script[c] \in InstallSteps \cup Ends
          BY <1>2 DEF CommandsOf, OneShot, ScriptOf
    <2>2. script[c] \notin Ends
          BY DEF DeviceStep, SimpleStep, LaunchStep, InstallStep, ShotStep, Ends
    <2>3. CASE next = "rmInstalled"
          BY <1>5, <2>1, <2>2, <2>3, ToolCallsAssumption
    <2>4. CASE next = "exit0"
        <3>1. script[c] = "rmInstalled"
              BY <1>5, <2>1, <2>2, <2>4
        <3>2. installed[c] # None
              BY <1>1, <1>2, <3>1 DEF InstallDone, SaidSuccess
        <3> QED
            BY <1>5, <3>2, ToolCallsAssumption
    <2> QED
        BY <2>3, <2>4
<1> QED
    BY <1>1, <1>4, <1>6, InstallsKept

LEMMA DetachedInstalls ==
    ASSUME Shape, Installs, ExecuteDetached
    PROVE  Installs'
<1> PICK d \in detached, next \in Steps \cup Ends : DeviceStep(d.call, d.step, next)
    BY DEF ExecuteDetached
<1>1. /\ d.call \in Calls /\ TypeOK
      /\ d.step \in InstallSteps => tool[d.call] = "autoinstall_app"
      BY DEF Scripts, Shape, TypeOK, DetachedShape
<1>2. UNCHANGED <<tool, pc, script, result, reply>>
      BY DEF ExecuteDetached
<1>3. FromInstalls'
      BY <1>1, <1>2, FromInstallsStep DEF Installs
<1>4. \A e \in Calls : installed'[e] = installed[e] \/ (apk \in Calls /\ installed'[e] = apk)
      BY <1>1, InstallEffect
<1>5. \A e \in Calls : InstallDone(e)'
      BY <1>2, <1>4, ToolCallsAssumption DEF Installs, InstallDone, SaidSuccess
<1> QED
    BY <1>3, <1>5 DEF Installs

LEMMA InstallsNext == Shape /\ Installs /\ [Next]_vars => Installs'
<1> SUFFICES ASSUME Shape, Installs, [Next]_vars
             PROVE  Installs'
    OBVIOUS
<1>1. CASE \E c \in Calls : Reject(c) \/ Terminate(c) \/ Enter(c) \/ CallStep(c) \/ Execute(c)
      BY <1>1, ThreadInstalls, ResultInstalls, ExecuteInstalls DEF CallStep, ProviderStep
<1>2. CASE ExecuteDetached
      BY <1>2, DetachedInstalls
<1>3. CASE DetachedDies \/ UNCHANGED vars
      BY <1>3 DEF DetachedDies, vars, Installs, FromInstalls, InstallDone, SaidSuccess
<1> QED
    BY <1>1, <1>2, <1>3 DEF Next, Finished

(* An install that is reported as done did install a package, and the one  *)
(* asked for unless another install shared the temporary file              *)
(* (Provider::installApp and the script of command_builder's installApp).  *)
THEOREM InstallsAreTruthful == Spec => []InstallTruthful
<1>1. Init => Installs
      BY ToolCallsAssumption DEF Init, Installs, FromInstalls, InstallDone, SaidSuccess
<1>2. Shape /\ Installs => InstallTruthful
    <2> SUFFICES ASSUME TypeOK, Installs, NEW c \in Calls,
                        tool[c] = "autoinstall_app", reply[c] = "success"
                 PROVE  installed[c] # None /\ (Alone(c) => installed[c] = c)
        BY DEF InstallTruthful, Shape
    <2>1. installed[c] # None
          BY DEF Installs, InstallDone, SaidSuccess
    <2>2. installed[c] \in Calls
          BY <2>1 DEF TypeOK
    <2>3. tool[installed[c]] = tool[c]
          BY <2>2 DEF Installs, FromInstalls
    <2> QED
        BY <2>1, <2>2, <2>3 DEF Alone
<1> QED
    BY <1>1, <1>2, ShapeInit, ShapeNext, InstallsNext, PTL DEF Spec

----------------------------------------------------------------------------
(* What an install leaves behind.  *)

Cleaning == {"rmPartial", "pm", "rmInstalled", "rmSilent", "rmRefused"}

(* The file is there only while its install still has it to remove.  *)
CleansUp(c) ==
    tool[c] = "autoinstall_app" /\ ~lost[c] /\ Alone(c) /\ apk # None =>
        pc[c] = "run" /\ script[c] \in Cleaning

Clean ==
    /\ apk # None => \E c \in Calls : tool[c] = "autoinstall_app"
    /\ \A c \in Calls : CleansUp(c)

(* A step that does not touch the file is as good as any for the others.   *)
LEMMA CleanKept ==
    ASSUME Clean, TypeOK, NEW a \in Calls, Others(a), CleansUp(a)', UNCHANGED apk,
           tool[a] # None => tool'[a] = tool[a]
    PROVE  Clean'
<1>1. \A c \in Calls : tool[c] = "autoinstall_app" => tool'[c] = "autoinstall_app"
      BY ToolCallsAssumption DEF Others, Tools, Required
<1>2. ASSUME NEW c \in Calls \ {a}, tool'[c] = "autoinstall_app", Alone(c)'
      PROVE  Alone(c)
    <2>1. \A d \in Calls \ {c} : tool'[d] # tool'[c]
          BY <1>2 DEF Alone
    <2>2. tool[c] = "autoinstall_app"
          BY <1>2 DEF Others
    <2> QED
        BY <1>1, <1>2, <2>1, <2>2 DEF Alone
<1>3. \A c \in Calls \ {a} : CleansUp(c)'
      BY <1>2 DEF Clean, CleansUp, Others
<1> QED
    BY <1>1, <1>3 DEF Clean

(* The same for a step of the device.  *)
LEMMA CleanStep ==
    ASSUME Clean, NEW a \in Calls, Others(a), CleansUp(a)', UNCHANGED tool,
           tool[a] # "autoinstall_app" => UNCHANGED apk
    PROVE  Clean'
<1>1. ASSUME NEW c \in Calls \ {a}
      PROVE  CleansUp(c)'
    <2>1. tool[c] = "autoinstall_app" /\ Alone(c) => UNCHANGED apk
          BY <1>1 DEF Alone
    <2>2. Alone(c)' <=> Alone(c)
          BY DEF Alone
    <2> QED
        BY <1>1, <2>1, <2>2 DEF Clean, CleansUp, Others
<1>2. apk' # None => \E c \in Calls : tool'[c] = "autoinstall_app"
      BY DEF Clean
<1> QED
    BY <1>1, <1>2 DEF Clean

LEMMA ThreadClean ==
    ASSUME Shape, Clean, NEW c \in Calls,
           \/ Reject(c) \/ Terminate(c) \/ Enter(c) \/ Look(c) \/ Make(c) \/ CannotRun(c) \/ Run(c)
           \/ Continue(c) \/ Reply(c)
    PROVE  Clean'
<1>1. Others(c) /\ CallShape(c) /\ TypeOK /\ CleansUp(c) /\ UNCHANGED <<apk, lost>>
      BY ThreadShape DEF Shape, Clean, Reject, Terminate, Enter, Look, Make, CannotRun, Run, Continue, Reply
<1>2. tool[c] # None => tool'[c] = tool[c]
      BY <1>1 DEF CallShape, Reject, Terminate, Enter, Look, Make, CannotRun, Run, Continue, Reply
<1>3. CASE Reject(c) \/ Terminate(c) \/ Enter(c)
    <2>1. tool[c] = None
          BY <1>1, <1>3 DEF CallShape, Reject, Terminate, Enter
    <2>2. tool'[c] = "autoinstall_app" /\ Alone(c)' => apk = None
          BY <1>1, <2>1, ToolCallsAssumption DEF Alone, Clean, Others, Tools, Required
    <2>3. CleansUp(c)'
          BY <1>1, <2>2 DEF CleansUp
    <2> QED
        BY <1>1, <1>2, <2>3, CleanKept
<1>4. CASE Look(c) \/ Make(c) \/ CannotRun(c) \/ Run(c) \/ Continue(c) \/ Reply(c)
    <2>1. UNCHANGED tool /\ pc[c] # "run"
          BY <1>4 DEF Look, Make, CannotRun, Run, Continue, Reply
    <2>2. CleansUp(c)'
          BY <1>1, <2>1 DEF CleansUp, Alone
    <2> QED
        BY <1>1, <1>2, <2>2, CleanKept
<1> QED
    BY <1>3, <1>4

LEMMA ResultClean ==
    ASSUME Shape, Clean, NEW c \in Calls, Finish(c) \/ GiveUp(c)
    PROVE  Clean'
<1>1. Others(c) /\ TypeOK /\ CleansUp(c) /\ UNCHANGED <<apk, tool>>
      BY ResultShape DEF Shape, Clean, Finish, GiveUp
<1>2. CASE Finish(c)
    <2>1. script[c] \notin Cleaning /\ UNCHANGED lost
          BY <1>2 DEF Finish, Ends, Cleaning
    <2>2. CleansUp(c)'
          BY <1>1, <2>1 DEF CleansUp, Alone
    <2> QED
        BY <1>1, <2>2, CleanKept
<1>3. CASE GiveUp(c)
    <2>1. lost'[c]
          BY <1>1, <1>3 DEF GiveUp, TypeOK
    <2> QED
        BY <1>1, <2>1, CleanKept DEF CleansUp
<1> QED
    BY <1>2, <1>3

LEMMA ExecuteClean ==
    ASSUME Shape, Clean, NEW c \in Calls, Execute(c)
    PROVE  Clean'
<1>1. Others(c) /\ CallShape(c) /\ TypeOK /\ CleansUp(c)
      BY ExecuteShape DEF Shape, Clean
<1> PICK next \in Steps \cup Ends :
         DeviceStep(c, script[c], next) /\ script' = [script EXCEPT ![c] = next]
    BY DEF Execute
<1>2. /\ pc[c] = "run" /\ UNCHANGED <<tool, pc, lost>> /\ script'[c] = next
      /\ script[c] \in ScriptOf(command[c]) /\ command[c] \in CommandsOf(tool[c])
      BY <1>1 DEF Execute, CallShape, Busy, TypeOK
<1>3. tool[c] # "autoinstall_app" => UNCHANGED apk
    <2>1. tool[c] # "autoinstall_app" => script[c] \notin InstallSteps
          BY <1>2 DEF ScriptOf, InstallSteps, CommandsOf, OneShot, Ends
    <2> QED
        BY <1>1, <2>1, DeviceFrame
<1>4. CASE tool[c] = "autoinstall_app"
    <2>1. script[c] \in InstallSteps \cup Ends
          BY <1>2, <1>4 DEF CommandsOf, OneShot, ScriptOf
    <2>2. InstallStep(c, script[c], next)
          BY <2>1 DEF DeviceStep, SimpleStep, LaunchStep, ShotStep, InstallSteps, Ends
    <2>3. apk' = None \/ next \in Cleaning
          BY <2>2 DEF InstallStep, Cleaning
    <2>4. CleansUp(c)'
          BY <1>2, <2>3 DEF CleansUp
    <2> QED
        BY <1>1, <1>2, <1>3, <2>4, CleanStep
<1>5. CASE tool[c] # "autoinstall_app"
    <2>1. CleansUp(c)'
          BY <1>2, <1>5 DEF CleansUp
    <2> QED
        BY <1>1, <1>2, <1>3, <2>1, CleanStep
<1> QED
    BY <1>4, <1>5

LEMMA CleanNext == Shape /\ Clean /\ [Next]_vars => Clean'
<1> SUFFICES ASSUME Shape, Clean, [Next]_vars
             PROVE  Clean'
    OBVIOUS
<1>1. CASE \E c \in Calls : Reject(c) \/ Terminate(c) \/ Enter(c) \/ CallStep(c) \/ Execute(c)
      BY <1>1, ThreadClean, ResultClean, ExecuteClean DEF CallStep, ProviderStep
<1>2. CASE ExecuteDetached
    <2> PICK c \in Calls :
            lost[c] /\ Others(c) /\ (tool[c] # "autoinstall_app" => UNCHANGED <<apk, installed>>)
        BY <1>2, DetachedStepShape
    <2>1. UNCHANGED <<tool, lost>>
          BY <1>2 DEF ExecuteDetached
    <2>2. CleansUp(c)'
          BY <2>1 DEF CleansUp
    <2> QED
        BY <2>1, <2>2, CleanStep
<1>3. CASE DetachedDies \/ UNCHANGED vars
      BY <1>3 DEF DetachedDies, vars, Clean, CleansUp, Alone
<1> QED
    BY <1>1, <1>2, <1>3 DEF Next, Finished

(* An install whose outcome is known removes its temporary file, after a   *)
(* failed download too (command_builder.cpp's installApp).                 *)
THEOREM InstallsCleanUp == Spec => []NoLeftover
<1>1. Init => Clean
      BY DEF Init, Clean, CleansUp
<1>2. Shape /\ Clean => NoLeftover
      BY DEF Shape, CallShape, Clean, CleansUp, NoLeftover
<1> QED
    BY <1>1, <1>2, ShapeInit, ShapeNext, CleanNext, PTL DEF Spec

----------------------------------------------------------------------------
(* A cloud configured before the first call: its executor stays, and no    *)
(* call gets to the place where another would be made.                     *)
Configured ==
    valid => cloud = "initial" /\ freed = {} /\ \A c \in Calls : pc[c] # "make"

LEMMA ConfiguredInit == Init => Configured
BY DEF Init, Configured

(* A thread that is not making an executor leaves the provider alone, and  *)
(* only one that finds none begins to make one.                            *)
LEMMA ConfiguredKept ==
    ASSUME Shape, Configured, NEW c \in Calls, UNCHANGED providerVars, NEW label, pc' = [pc EXCEPT ![c] = label],
           label = "make" => cloud = None
    PROVE  Configured'
<1>1. pc \in [Calls -> Points] /\ None # "initial"
      BY ToolCallsAssumption DEF Shape, TypeOK
<1>2. \A d \in Calls : pc'[d] = (IF d = c THEN label ELSE pc[d])
      BY <1>1
<1> QED
    BY <1>1, <1>2 DEF Configured, providerVars

LEMMA ConfiguredNext == Shape /\ Configured /\ [Next]_vars => Configured'
<1> SUFFICES ASSUME Shape, Configured, [Next]_vars
             PROVE  Configured'
    OBVIOUS
<1>1. ASSUME NEW c \in Calls, Reject(c) \/ Terminate(c) \/ Enter(c)
      PROVE  Configured'
      BY <1>1, ConfiguredKept DEF Reject, Terminate, Enter, Answer, Goto
<1>2. ASSUME NEW c \in Calls, Look(c)
      PROVE  Configured'
      BY <1>2, ConfiguredKept DEF Look, Goto
<1>3. ASSUME NEW c \in Calls, Make(c)
      PROVE  Configured'
      BY <1>3 DEF Make, Configured
<1>4. ASSUME NEW c \in Calls, CannotRun(c) \/ Run(c) \/ Finish(c) \/ GiveUp(c)
      PROVE  Configured'
      BY <1>4, ConfiguredKept DEF CannotRun, Run, Finish, GiveUp, Returns, Goto
<1>5. ASSUME NEW c \in Calls, Continue(c) \/ Reply(c)
      PROVE  Configured'
      BY <1>5, ConfiguredKept DEF Continue, Reply, Answer, Goto
<1>6. ASSUME NEW c \in Calls, Execute(c)
      PROVE  Configured'
      BY <1>6 DEF Execute, Configured, providerVars, callVars
<1>7. CASE ExecuteDetached \/ DetachedDies \/ UNCHANGED vars
      BY <1>7 DEF ExecuteDetached, DetachedDies, vars, Configured, providerVars, callVars
<1> QED
    BY <1>1, <1>2, <1>3, <1>4, <1>5, <1>6, <1>7 DEF Next, CallStep, ProviderStep, Finished

(* The executor is destroyed under a call only if the cloud was not        *)
(* configured when the provider was made (provider.cpp's setCloudConfig    *)
(* and executor), however many calls there are.                            *)
THEOREM ConfiguredCloudIsSafe == Spec => [](valid => NoUseAfterFree)
<1>1. Configured => (valid => NoUseAfterFree)
      BY DEF Configured, NoUseAfterFree
<1> QED
    BY <1>1, ConfiguredInit, ConfiguredNext, ShapeInit, ShapeNext, PTL DEF Spec
=============================================================================
