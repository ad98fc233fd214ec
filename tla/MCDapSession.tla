---------------------------- MODULE MCDapSession ----------------------------
(***************************************************************************)
(* The properties of a debug session, and what TLC checks them on.         *)
(***************************************************************************)
EXTENDS DapSession

Stepping == Steps \cup {"continue", "setBreakpoints"}
Leaving  == Leaves \cup {"continue", "pause"}
Pausing  == {"stepIn", "stepOut", "pause"}
AllClients == {Stepping, Leaving, Pausing}
Disconnecting == {{"disconnect"}}

-----------------------------------------------------------------------------
\* The client's picture is right whenever nothing is under way: it believes
\* the VM stopped exactly when the VM waits for it (on_thread_stopped emits
\* or resumes, never neither).
ClientKnows ==
  dap = "read" /\ request = "none" /\ Reaches /\ view \in {"running", "stopped"}
    => (view = "stopped" <=> vm = "wait" /\ is_paused)

\* A step stop answers the step command given last: control has not been
\* transferred by a continuation since, something was executed, and the
\* frame is one the command may end in (check_stop, notify_continuation_jump,
\* resume).
StepIsFresh ==
  vm = "pausing" /\ event = "Step" =>
    /\ past.command \in Steps
    /\ past.epoch = epoch
    /\ past.executed
    /\ past.command \in {"next", "nextInstruction"} => depth <= past.depth
    /\ past.command = "stepOut" => depth < past.depth

\* Control never passes from one source line to another that had a breakpoint
\* on arrival without stopping there (check_stop's last_bp filter), unless a
\* step leaves the line of a pause: the pause came before the breakpoint check
\* there, and step_over and the like keep the last hit, which resume forgets.
BreakpointHonoured ==
  vm = "exec" /\ line \in breakpoints /\ past.steady /\ past.from \in Line \ {line}
    => past.here

\* A pause the client asks for while it believes the VM runs is answered by a
\* stop or by the end (request_pause, resume, on_thread_stopped's resume).
PauseAnswered == (request = "pause" /\ view = "running" /\ Reaches) ~> view # "running"

-----------------------------------------------------------------------------
\* dap_server.cpp, handle_disconnect: "Wake up the VM if it's paused so the
\* vm_thread can exit."
LeavingWakes == (dap = "joining" /\ vm = "wait") ~> vm # "wait"
=============================================================================
