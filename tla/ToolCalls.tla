------------------------------ MODULE ToolCalls ------------------------------
(***************************************************************************)
(* tool/*.cpp, service/provider.cpp, command_builder.cpp and               *)
(* cloud_executor.cpp: tools/call requests served at the same time by one  *)
(* MobileUseProvider on one device.                                        *)
(*                                                                         *)
(* A call checks its arguments, picks a backend, and runs one or more      *)
(* shell commands, asking executor(backend) for an executor each time.     *)
(* runShell is Executor's: it returns what the command did, gives up on    *)
(* it, or never returns.  A command is a little script of steps.  Giving up *)
(* does not stop everything: SIGKILL reaches the shell only, so the step   *)
(* it was in may still happen, and a script sent to the cloud runs on.     *)
(*                                                                         *)
(* What one call puts on the device (an APK, a screenshot) is named by the *)
(* call.                                                                   *)
(***************************************************************************)
EXTENDS Naturals, FiniteSets

CONSTANTS
    Calls,   \* concurrent tools/call requests
    Called,  \* the tools they may name
    None     \* no file, no executor, no step

VARIABLES
    valid,      \* CloudConfig::valid(), fixed when the provider is made
    cloud,      \* m_cloud: None, "initial" (setCloudConfig's), or the call that made it
    freed,      \* cloud executors that were destroyed
    tool,       \* tool[c]: the tool called, None before the call arrives
    backend,    \* backend[c]: "adb" or "cloud"
    pc,         \* where the call's thread is
    command,    \* the provider's command the thread is at
    ptr,        \* the executor it got from executor(b)
    script,     \* the step of its command the device is at, or how it ended
    result,     \* the class of the last ExecResult
    reply,      \* "none", "success" or "error" (isError)
    lost,       \* was an outcome of the call never learnt? (history)
    detached,   \* scripts and steps runShell gave up on
    apk,        \* content of mcp_mobile_use_install.apk
    shot,       \* content of .mcp_mobile_use_shot.png
    installed,  \* installed[c]: the APK c's pm install installed
    effects     \* effects[c]: taps, keys, texts ... that took place for c

providerVars == <<valid, cloud, freed>>
callVars == <<tool, backend, pc, command, ptr, result, reply, lost>>
deviceVars == <<apk, shot, installed, effects>>
vars == <<providerVars, callVars, script, detached, deviceVars>>

----------------------------------------------------------------------------
(* The tools: the arguments each requires.  The optional ones only change  *)
(* the text of the command.                                                *)
TapTool        == {"x", "y"}
SwipeTool      == {"from_x", "from_y", "to_x", "to_y"}
AdbShellTool   == {"command"}
ScreenshotTool == {}
TextInputTool  == {"text"}
KeyEventTool   == {}
LaunchAppTool  == {"package_name"}
CloseAppTool   == {"package_name"}
ListAppTool    == {}
InstallAppTool == {"download_url"}
TerminateTool  == {}

(* allTools.  *)
Required ==
    [tap |-> TapTool, swipe |-> SwipeTool, adb_shell |-> AdbShellTool,
     take_screenshot |-> ScreenshotTool, text_input |-> TextInputTool,
     back |-> KeyEventTool, home |-> KeyEventTool, menu |-> KeyEventTool,
     launch_app |-> LaunchAppTool, close_app |-> CloseAppTool, list_apps |-> ListAppTool,
     autoinstall_app |-> InstallAppTool, terminate |-> TerminateTool]

Tools    == DOMAIN Required
Backends == {"adb", "cloud"}

(* Tools with one command, which either takes effect once or fails.  *)
OneShot == {"tap", "swipe", "back", "home", "menu", "close_app", "list_apps"}

ASSUME CalledAssumption == Called \subseteq Tools

(* Calls, and the lack of something, are not one of the names used here.  *)
ASSUME ToolCallsAssumption ==
    /\ None \notin Calls \cup Tools \cup {"initial", "local", "partial"}
    /\ Calls \cap {"initial", "local", "partial"} = {}

(* The first command of the provider's method.  Text that is ASCII is      *)
(* typed directly, other text needs the input method.                      *)
FirstCommands(t, b) ==
    CASE t \in OneShot           -> {"act"}
      [] t = "launch_app"        -> {"launch"}
      [] t = "adb_shell"         -> {"shell"}
      [] t = "autoinstall_app"   -> {"install"}
      [] t = "text_input"        -> {"ascii", "ime"}
      [] t = "take_screenshot"   -> IF b = "cloud" THEN {"shot"} ELSE {"png"}

Commands == {"act", "launch", "shell", "install", "ascii", "ime", "clear", "broadcast", "direct",
             "shot", "png", "size"}

(* The scripts of command_builder, by their first step.  *)
FirstStep(cmd) ==
    CASE cmd = "install"   -> "download"
      [] cmd = "shot"      -> "screencap"
      [] cmd = "launch"    -> "monkey"
      [] cmd = "broadcast" -> "send"
      [] cmd \in {"act", "shell", "ascii", "direct"} -> "effect"
      [] cmd \in {"ime", "clear", "size"} -> "nothing"
      [] cmd = "png"       -> "print"

Ends  == {"exit0", "silent", "exit1"}
Steps == {"download", "rmPartial", "pm", "rmInstalled", "rmSilent", "rmRefused", "screencap",
          "wmSize", "rmShot", "monkey", "amStart", "monkeyAgain", "effect", "send", "nothing",
          "print"}

ASSUME NoneAssumption == None \notin Commands \cup Steps \cup Ends

Points  == {"idle", "look", "make", "call", "run", "decide", "done"}
Results == {"none", "ok", "silent", "nonzero", "timeout", "error"}

Init ==
    /\ valid \in BOOLEAN
    /\ cloud = IF valid THEN "initial" ELSE None
    /\ freed = {}
    /\ tool = [c \in Calls |-> None]
    /\ backend = [c \in Calls |-> "adb"]
    /\ pc = [c \in Calls |-> "idle"]
    /\ command = [c \in Calls |-> None]
    /\ ptr = [c \in Calls |-> None]
    /\ script = [c \in Calls |-> None]
    /\ result = [c \in Calls |-> "none"]
    /\ reply = [c \in Calls |-> "none"]
    /\ lost = [c \in Calls |-> FALSE]
    /\ detached = {}
    /\ apk = None /\ shot = None
    /\ installed = [c \in Calls |-> None]
    /\ effects = [c \in Calls |-> 0]

Goto(c, label) == pc' = [pc EXCEPT ![c] = label]

(* The answer; the call's locals are gone.  *)
Answer(c, r) ==
    /\ Goto(c, "done")
    /\ reply' = [reply EXCEPT ![c] = r]
    /\ command' = [command EXCEPT ![c] = None]
    /\ ptr' = [ptr EXCEPT ![c] = None]
    /\ result' = [result EXCEPT ![c] = "none"]

----------------------------------------------------------------------------
(* The tool's handler up to the provider.  *)

(* getInt, getRequiredString, the check of the url's scheme, or a name     *)
(* onToolsCall does not find.                                              *)
Reject(c) ==
    /\ pc[c] = "idle"
    /\ \E t \in Called \cup {None} :
        /\ t # None => Required[t] # {}  \* one of them is missing or has another type
        /\ tool' = [tool EXCEPT ![c] = t]
    /\ Answer(c, "error")
    /\ UNCHANGED <<providerVars, backend, lost, script, detached, deviceVars>>

(* terminate answers without a provider.  *)
Terminate(c) ==
    /\ pc[c] = "idle"
    /\ "terminate" \in Called
    /\ tool' = [tool EXCEPT ![c] = "terminate"]
    /\ Answer(c, "success")
    /\ UNCHANGED <<providerVars, backend, lost, script, detached, deviceVars>>

(* pickBackend, and the provider's method for the tool.  *)
Enter(c) ==
    /\ pc[c] = "idle"
    /\ \E t \in Called \ {"terminate"}, b \in Backends :
        /\ tool' = [tool EXCEPT ![c] = t]
        /\ backend' = [backend EXCEPT ![c] = b]
        /\ \E cmd \in FirstCommands(t, b) : command' = [command EXCEPT ![c] = cmd]
    /\ Goto(c, "look")
    /\ UNCHANGED <<providerVars, ptr, result, reply, lost, script, detached, deviceVars>>

----------------------------------------------------------------------------
(* executor(b): m_cloud is made when it is first needed, with no lock.  *)

Look(c) ==
    /\ pc[c] = "look"
    /\ \/ /\ backend[c] = "adb"
          /\ ptr' = [ptr EXCEPT ![c] = "local"]
          /\ Goto(c, "call")
       \/ /\ backend[c] = "cloud" /\ cloud # None
          /\ ptr' = [ptr EXCEPT ![c] = cloud]
          /\ Goto(c, "call")
       \/ /\ backend[c] = "cloud" /\ cloud = None
          /\ Goto(c, "make")
          /\ UNCHANGED ptr
    /\ UNCHANGED <<providerVars, tool, backend, command, result, reply, lost, script, detached,
                   deviceVars>>

(* Assigning the unique_ptr destroys what another thread put there in the  *)
(* meantime.                                                               *)
Make(c) ==
    /\ pc[c] = "make"
    /\ cloud' = c
    /\ freed' = freed \cup ({cloud} \ {None})
    /\ ptr' = [ptr EXCEPT ![c] = c]
    /\ Goto(c, "call")
    /\ UNCHANGED <<valid, tool, backend, command, result, reply, lost, script, detached, deviceVars>>

----------------------------------------------------------------------------
(* executor->runShell.  *)

Returns(c, r) == Goto(c, "decide") /\ result' = [result EXCEPT ![c] = r]

(* The executor cannot run the command at all: no pipe, no fork, or a      *)
(* cloud that is not configured or cannot be reached.                      *)
CannotRun(c) ==
    /\ pc[c] = "call"
    /\ Returns(c, "error")
    /\ UNCHANGED <<providerVars, tool, backend, command, ptr, reply, lost, script, detached,
                   deviceVars>>

Run(c) ==
    /\ pc[c] = "call"
    /\ backend[c] = "cloud" => valid
    /\ script' = [script EXCEPT ![c] = FirstStep(command[c])]
    /\ Goto(c, "run")
    /\ UNCHANGED <<providerVars, tool, backend, command, ptr, result, reply, lost, detached, deviceVars>>

(* The class of the ExecResult of a command that ended: in the cloud,      *)
(* status 2 or an error, and never a timeout or another exit code.         *)
Outcome(c) ==
    CASE script[c] = "exit0"  -> "ok"
      [] script[c] = "silent" -> "silent"
      [] script[c] = "exit1"  -> IF backend[c] = "cloud" THEN "error" ELSE "nonzero"

Finish(c) ==
    /\ pc[c] = "run"
    /\ script[c] \in Ends
    /\ Returns(c, Outcome(c))
    /\ script' = [script EXCEPT ![c] = None]
    /\ UNCHANGED <<providerVars, tool, backend, command, ptr, reply, lost, detached, deviceVars>>

(* The deadline, or a signal: locally the shell is gone and the step it    *)
(* was in goes on alone.  In the cloud, whatever keeps the answer from     *)
(* being understood (transport, HTTP status, JSON, no jobs) is an error,   *)
(* and the script goes on.                                                 *)
GiveUp(c) ==
    /\ pc[c] = "run"
    /\ \E r \in IF backend[c] = "cloud" THEN {"error"} ELSE {"timeout", "error"} : Returns(c, r)
    /\ lost' = [lost EXCEPT ![c] = TRUE]
    /\ detached' = IF script[c] \in Steps
                   THEN detached \cup {[call |-> c, step |-> script[c],
                                        goesOn |-> backend[c] = "cloud"]}
                   ELSE detached
    /\ script' = [script EXCEPT ![c] = None]
    /\ UNCHANGED <<providerVars, tool, backend, command, ptr, reply, deviceVars>>

----------------------------------------------------------------------------
(* What the provider's method makes of the result.  *)

Ok(r) == r \in {"ok", "silent"}  \* ExecResult::ok()

(* Fault: the fallback is tried whatever the broadcast did.  *)
NextCommandAlways(c) ==
    CASE command[c] = "png" /\ result[c] = "ok" -> "size"
      [] command[c] = "ime"   -> "clear"
      [] command[c] = "clear" -> "broadcast"
      [] command[c] = "broadcast" -> "direct"
      [] OTHER -> None

(* Fault: a fallback that fails starts over.  *)
NextCommandRetries(c) ==
    CASE command[c] = "png" /\ result[c] = "ok" -> "size"
      [] command[c] = "ime"   -> "clear"
      [] command[c] = "clear" -> "broadcast"
      [] command[c] = "broadcast" /\ ~Ok(result[c]) -> "direct"
      [] command[c] = "direct"    /\ ~Ok(result[c]) -> "broadcast"
      [] OTHER -> None

(* The command that follows, or None.  *)
NextCommand(c) ==
    CASE command[c] = "png" /\ result[c] = "ok" -> "size"
      [] command[c] = "ime"   -> "clear"
      [] command[c] = "clear" -> "broadcast"
      [] command[c] = "broadcast" /\ ~Ok(result[c]) -> "direct"
      [] OTHER -> None

(* Fault: the output of pm install is not looked at.  *)
SucceedsByExitCode(c) ==
    CASE command[c] \in {"act", "launch", "ascii", "broadcast", "direct", "shot", "install"} -> Ok(result[c])
      [] command[c] = "shell" -> result[c] # "error"
      [] command[c] = "png" -> result[c] = "ok"
      [] command[c] = "size" -> TRUE

(* "silent" is an exit code of 0 without the output the method looks for:  *)
(* "Success" of pm install, the PNG magic of screencap.  adb_shell reports *)
(* exit codes and timeouts as data; the size of a screenshot may be        *)
(* missing.                                                                *)
Succeeds(c) ==
    CASE command[c] \in {"act", "launch", "ascii", "broadcast", "direct", "shot"} -> Ok(result[c])
      [] command[c] = "shell" -> result[c] # "error"
      [] command[c] \in {"install", "png"} -> result[c] = "ok"
      [] command[c] = "size" -> TRUE

Continue(c) ==
    /\ pc[c] = "decide"
    /\ NextCommand(c) # None
    /\ command' = [command EXCEPT ![c] = NextCommand(c)]
    /\ result' = [result EXCEPT ![c] = "none"]
    /\ Goto(c, "look")
    /\ UNCHANGED <<providerVars, tool, backend, ptr, reply, lost, script, detached, deviceVars>>

Reply(c) ==
    /\ pc[c] = "decide"
    /\ NextCommand(c) = None
    /\ Answer(c, IF Succeeds(c) THEN "success" ELSE "error")
    /\ UNCHANGED <<providerVars, tool, backend, lost, script, detached, deviceVars>>

----------------------------------------------------------------------------
(* One step of a script on the device, on behalf of call c.  *)

Affect(c) == effects' = [effects EXCEPT ![c] = @ + 1]

(* One program.  What input, am force-stop, pm list and settings report is *)
(* what they did; am broadcast exits with 0 although nobody may listen.    *)
SimpleStep(c, step, next) ==
    /\ \/ step \in {"effect", "send"} /\ next = "exit0" /\ Affect(c)
       \/ step \in {"nothing", "print", "send"} /\ next = "exit0" /\ UNCHANGED effects
       \/ step = "print" /\ next = "silent" /\ UNCHANGED effects
       \/ step \in {"effect", "send", "nothing", "print"} /\ next = "exit1" /\ UNCHANGED effects
    /\ UNCHANGED <<apk, shot, installed>>

(* launchApp: monkey, whatever it does; then am start or else monkey.  *)
LaunchStep(c, step, next) ==
    /\ \/ step = "monkey"      /\ next = "amStart"     /\ (Affect(c) \/ UNCHANGED effects)
       \/ step = "amStart"     /\ next = "exit0"       /\ Affect(c)
       \/ step = "amStart"     /\ next = "monkeyAgain" /\ UNCHANGED effects
       \/ step = "monkeyAgain" /\ next = "exit0"       /\ Affect(c)
       \/ step = "monkeyAgain" /\ next = "exit1"       /\ UNCHANGED effects
    /\ UNCHANGED <<apk, shot, installed>>

(* Fault: a failed download exits before it cleans up.  *)
InstallStepForgets(c, step, next) ==
    /\ \/ step = "download" /\ next = "pm"          /\ apk' = c         /\ UNCHANGED installed
       \/ step = "download" /\ next = "exit1"       /\ apk' = "partial" /\ UNCHANGED installed
       \/ step = "pm"       /\ next \in {"rmSilent", "rmRefused"}       /\ UNCHANGED <<apk, installed>>
       \/ step = "pm"       /\ next = "rmInstalled" /\ apk \in Calls
                            /\ installed' = [installed EXCEPT ![c] = apk] /\ UNCHANGED apk
       \/ step = "rmInstalled" /\ next = "exit0"  /\ apk' = None /\ UNCHANGED installed
       \/ step = "rmSilent"    /\ next = "silent" /\ apk' = None /\ UNCHANGED installed
       \/ step = "rmRefused"   /\ next = "exit1"  /\ apk' = None /\ UNCHANGED installed
    /\ UNCHANGED <<shot, effects>>

(* installApk: download with curl or else wget, remove what a failed       *)
(* download left, install, remove, exit with the code of pm install.       *)
InstallStep(c, step, next) ==
    /\ \/ step = "download" /\ next = "pm"          /\ apk' = c         /\ UNCHANGED installed
       \/ step = "download" /\ next = "rmPartial"   /\ apk' = "partial" /\ UNCHANGED installed
       \/ step = "pm"       /\ next \in {"rmSilent", "rmRefused"}       /\ UNCHANGED <<apk, installed>>
       \/ step = "pm"       /\ next = "rmInstalled" /\ apk \in Calls
                            /\ installed' = [installed EXCEPT ![c] = apk] /\ UNCHANGED apk
       \/ step = "rmInstalled" /\ next = "exit0"  /\ apk' = None /\ UNCHANGED installed
       \/ step = "rmSilent"    /\ next = "silent" /\ apk' = None /\ UNCHANGED installed
       \/ step \in {"rmRefused", "rmPartial"} /\ next = "exit1" /\ apk' = None /\ UNCHANGED installed
    /\ UNCHANGED <<shot, effects>>

(* screencap -p file && wm size && rm -f file.  *)
ShotStep(c, step, next) ==
    /\ \/ step = "screencap" /\ next = "wmSize" /\ shot' = c
       \/ step = "wmSize"    /\ next = "rmShot" /\ UNCHANGED shot
       \/ step \in {"screencap", "wmSize"} /\ next = "exit1" /\ UNCHANGED shot
       \/ step = "rmShot"    /\ next = "exit0"  /\ shot' = None
    /\ UNCHANGED <<apk, installed, effects>>

DeviceStep(c, step, next) ==
    \/ SimpleStep(c, step, next)
    \/ LaunchStep(c, step, next)
    \/ InstallStep(c, step, next)
    \/ ShotStep(c, step, next)

Execute(c) ==
    /\ pc[c] = "run"
    /\ \E next \in Steps \cup Ends :
        /\ DeviceStep(c, script[c], next)
        /\ script' = [script EXCEPT ![c] = next]
    /\ UNCHANGED <<providerVars, callVars, detached>>

(* A script or step nobody waits for any more.  *)
ExecuteDetached ==
    /\ \E d \in detached, next \in Steps \cup Ends :
        /\ DeviceStep(d.call, d.step, next)
        /\ detached' = IF d.goesOn /\ next \in Steps
                       THEN (detached \ {d}) \cup {[d EXCEPT !.step = next]}
                       ELSE detached \ {d}
    /\ UNCHANGED <<providerVars, callVars, script>>

(* It may also die, or never have started.  *)
DetachedDies ==
    /\ \E d \in detached : detached' = detached \ {d}
    /\ UNCHANGED <<providerVars, callVars, script, deviceVars>>

----------------------------------------------------------------------------
(* The thread outside runShell.  *)
ProviderStep(c) ==
    Look(c) \/ Make(c) \/ CannotRun(c) \/ Run(c) \/ Continue(c) \/ Reply(c)

CallStep(c) == ProviderStep(c) \/ Finish(c) \/ GiveUp(c)

Finished == (\A c \in Calls : pc[c] = "done") /\ UNCHANGED vars

Next ==
    \/ \E c \in Calls : Reject(c) \/ Terminate(c) \/ Enter(c) \/ CallStep(c) \/ Execute(c)
    \/ ExecuteDetached \/ DetachedDies
    \/ Finished

Spec == Init /\ [][Next]_vars

(* The thread of a call runs.  Nothing is assumed of the device, and of    *)
(* runShell not that it returns: neither the local deadline (LocalExecutor *)
(* has the commands that defeat it) nor the cloud's timeout (HttpsClient)  *)
(* holds in every case.                                                    *)
FairSpec == Spec /\ \A c \in Calls : WF_vars(ProviderStep(c))

----------------------------------------------------------------------------
Scripts == [call : Calls, step : Steps, goesOn : BOOLEAN]

(* Every variable has its type, and what each backend can return is what   *)
(* its callers handle: a cloud call knows no timeout and no exit code.     *)
TypeOK ==
    /\ valid \in BOOLEAN
    /\ cloud \in Calls \cup {None, "initial"}
    /\ freed \subseteq Calls \cup {"initial"}
    /\ tool \in [Calls -> Tools \cup {None}]
    /\ backend \in [Calls -> Backends]
    /\ pc \in [Calls -> Points]
    /\ command \in [Calls -> Commands \cup {None}]
    /\ ptr \in [Calls -> Calls \cup {None, "initial", "local"}]
    /\ script \in [Calls -> Steps \cup Ends \cup {None}]
    /\ result \in [Calls -> Results]
    /\ reply \in [Calls -> {"none", "success", "error"}]
    /\ lost \in [Calls -> BOOLEAN]
    /\ detached \subseteq Scripts
    /\ apk \in Calls \cup {None, "partial"}
    /\ shot \in Calls \cup {None}
    /\ installed \in [Calls -> Calls \cup {None}]
    /\ effects \in [Calls -> Nat]
    /\ \A c \in Calls : backend[c] = "cloud" => result[c] \notin {"nonzero", "timeout"}

Alone(c) == \A d \in Calls \ {c} : tool[d] # tool[c]

(* An install that reports success did install a package, and it is the    *)
(* one that was asked for if no other install shared the temporary file.   *)
InstallTruthful ==
    \A c \in Calls : tool[c] = "autoinstall_app" /\ reply[c] = "success" =>
        installed[c] # None /\ (Alone(c) => installed[c] = c)

(* An answer is the truth about the device, however many commands were    *)
(* tried for it: an action reported as done took place exactly once, one   *)
(* reported as failed not at all, and text is never entered twice.  Unless *)
(* an outcome was lost (timeout, no answer from the cloud).  An app may be *)
(* launched twice, but not less than once.                                 *)
AnswerIsTrue ==
    \A c \in Calls : reply[c] # "none" =>
        /\ tool[c] \in OneShot /\ ~lost[c] => effects[c] = IF reply[c] = "success" THEN 1 ELSE 0
        /\ tool[c] = "text_input" /\ ~lost[c] => effects[c] <= IF reply[c] = "success" THEN 1 ELSE 0
        /\ tool[c] = "launch_app" /\ reply[c] = "success" => effects[c] > 0

(* A failed download is cleaned up and the APK removed after the install,  *)
(* as command_builder.cpp:13-14 says: no install whose outcome is known    *)
(* leaves its file behind.                                                 *)
NoLeftover ==
    \A c \in Calls :
        tool[c] = "autoinstall_app" /\ reply[c] # "none" /\ ~lost[c] /\ Alone(c) => apk = None

(* Every call is answered, whatever its commands did and however their     *)
(* fallbacks fail: no sequence of commands is endless.  Only a call whose  *)
(* runShell never returns, on either backend, may wait for ever.           *)
CallsAreAnswered ==
    \A c \in Calls :
        \/ <>[](pc[c] = "run")
        \/ tool[c] # None ~> reply[c] # "none"

(* No call uses a cloud executor that was destroyed: the provider manages  *)
(* its life (cloud_executor.cpp:42).                                       *)
NoUseAfterFree == \A c \in Calls : pc[c] = "call" => ptr[c] \notin freed
=============================================================================
