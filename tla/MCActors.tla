------------------------------ MODULE MCActors ------------------------------
(***************************************************************************)
(* The properties of mailboxes and of the actors behind them, and what TLC *)
(* checks them on.                                                         *)
(***************************************************************************)
EXTENDS ProcessManager, TLC

CONSTANTS proc, thread
Mail    == proc :> {"spawn", "recv", "poll", "monitor", "beat"} @@ thread :> {}
Manager == proc :> {"spawn", "reap", "list"} @@
           thread :> {"spawn", "join", "close", "terminate"}
Talk    == proc :> {} @@ thread :> {"spawn", "recv", "send", "monitor", "close", "terminate"}
Uses    == {Mail, Manager, Talk}
OnlyMail == {Mail}
OnlyTalk == {Talk}
-----------------------------------------------------------------------------
Channel == INSTANCE ChannelSpec
\* What recv! returns is what the actor sent, in order, whatever nng-poll
\* saved, heartbeats were skipped and a lost connection cut off.
KeepsChannel == Channel!Spec

\* The VM thread is for ever inside a call that has no time limit, or the
\* program is over.
Stuck == [](\/ vm.op \in {"send", "reap", "join", "destroy", "gone"}
            \/ vm.op = "recv" /\ vm.mode = "wait")

\* The death of a monitored actor that had dialed is told to a program that
\* keeps receiving, whatever interleaving of the pipe callback, nng-poll,
\* demonitor and close.  A program caught for ever in a call without a time
\* limit, recv! with 'wait among them, is not told: MonitoredRecvReturns.
DeathIsReported ==
  \A s \in Sock : (monitored[s] /\ pipe[s] = "up" /\ actor[s] = "ended")
     ~> ("down" \in told[s] \/ ~monitored[s] \/ closed[s] \/ Stuck)

\* nng_primitives.h, monitor: "When the remote peer closes the connection,
\* recv! on sock will return '(down endpoint "disconnected")": a recv! that
\* waits on a monitored socket returns when the actor dies.
MonitoredRecvReturns ==
  \A s \in Sock : (vm.op = "recv" /\ vm.sock = s /\ monitored[s] /\ pipe[s] = "up" /\ actor[s] = "ended")
     ~> (vm.op # "recv")

\* The heartbeat of a dead actor runs out, and the program is told unless it is
\* caught for ever in a call without a time limit (enable-heartbeat, recv!).
HangIsReported ==
  \A s \in Sock : (beat[s] # "off" /\ actor[s] = "ended")
     ~> ("timeout" \in told[s] \/ closed[s] \/ Stuck)

\* A request of the debugger is answered, unless the program waits in
\* spawn-wait for a process that does not exit.
DebuggerAnswers ==
  dap # NoRequest ~> (dap = NoRequest \/ [](vm.op = "reap" /\ vm.mode = "wait"))

=============================================================================
