------------------------------ MODULE Protocol ------------------------------
(***************************************************************************)
(* mcp/protocol.cpp: a JSON-RPC message and the answer to it.              *)
(*                                                                         *)
(* A message is [text, method, id, tool]: text "blank" or "junk" if it     *)
(* does not parse, "value" if it is no object; a field is "" if it is      *)
(* missing or not a string, id "absent" or "null" likewise.  An answer is  *)
(* [id, code] and code 0 is a result, [id, code, tool, isError] for a tool.*)
(***************************************************************************)
EXTENDS Integers, Sequences

CONSTANT Tools    \* the names in the registry

Texts    == {"blank", "junk", "value", "object"}
Outcomes == {"result", "throws"}    \* of a tool's handler

ParseError     == -32700
InvalidRequest == -32600
MethodNotFound == -32601

MakeResult(id)      == [id |-> id, code |-> 0, tool |-> "", isError |-> FALSE]
MakeError(id, code) == [id |-> id, code |-> code, tool |-> "", isError |-> FALSE]

(* onToolsCall: every failure is a result that says isError.  *)
OnToolsCall(m, outcome) ==
    [MakeResult(m.id) EXCEPT
        !.tool    = IF m.tool \in Tools THEN m.tool ELSE "",
        !.isError = m.tool \notin Tools \/ outcome = "throws"]

Dispatch(m, outcome) ==
    CASE m.method \in {"initialize", "ping", "tools/list"} -> MakeResult(m.id)
      [] m.method = "tools/call" -> OnToolsCall(m, outcome)
      [] OTHER -> MakeError(m.id, MethodNotFound)

(* Fault: a null id is an id.  *)
IsNotificationWithoutId(m) == m.id = "absent"

(* The test for a method under notifications/ compares 13 characters with  *)
(* the prefix's 14 and never holds: with an id such a message is a request *)
(* like any other.                                                         *)
IsNotification(m) == m.id \in {"absent", "null"}

(* A missing id is echoed as null.  *)
Echo(id) == IF id = "absent" THEN "null" ELSE id

(* handleMessage: the answers, one or none.  An exception but a tool's     *)
(* (-32603) is one that only a failed allocation could be.                 *)
HandleMessage(m, outcome) ==
    IF m.text \in {"blank", "junk"} THEN <<MakeError("null", ParseError)>>
    ELSE IF m.text = "value" THEN <<MakeError("null", InvalidRequest)>>
    ELSE IF m.method = "" THEN <<MakeError(Echo(m.id), InvalidRequest)>>
    ELSE IF IsNotification(m) THEN <<>>
    ELSE <<Dispatch(m, outcome)>>
=============================================================================
