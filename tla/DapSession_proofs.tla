------------------------- MODULE DapSession_proofs -------------------------
(***************************************************************************)
(* What a client of the debug adapter may rely on, for any program, any    *)
(* depth of calls and number of jumps, and any client.                     *)
(***************************************************************************)
EXTENDS MCDapSession, TLAPS

Arriving == {"checkPause", "checkBp"}
Held     == {"callback", "emit", "wait"}
Stopping == {"pausing"} \cup Held
Vms      == Arriving \cup {"checkStep", "exec", "ended", "finished"} \cup Stopping
ByInstruction == {"OverInstruction", "InInstruction"}
Modes    == {"None", "Over", "In", "Out"} \cup ByInstruction
Events   == {"None", "Pause", "Breakpoint", "Step", "Exception", "FinalizerError"}
Commands == Steps \cup {"continue"}

TypeOK ==
  /\ vm \in Vms /\ line \in Span /\ depth \in Nat
  /\ breakpoints \in SUBSET Line
  /\ should_pause \in BOOLEAN /\ is_paused \in BOOLEAN /\ stopped \in Span
  /\ step \in [mode : Modes, depth : Nat, line : Span, epoch : Nat, skip : BOOLEAN]
  /\ epoch \in Nat /\ last_bp \in Span /\ event \in Events
  /\ client \in SUBSET AllRequests
  /\ dap \in {"read", "joining", "restarting", "exited"}
  /\ request \in AllRequests \cup {"none"}
  /\ view \in {"running", "stopped", "leaving", "terminated"}
  /\ generation \in Nat /\ registered \in Nat
  /\ past \in [command : Steps \cup {"none"}, depth : Nat, epoch : Nat, executed : BOOLEAN,
               from : Span, steady : BOOLEAN, here : BOOLEAN]

\* While the registry knows the VM: a command is on its way only to a VM that
\* waits for it, and one that waits was either announced or commanded.
ClientOK ==
  /\ registered <= generation
  /\ dap # "read" => request = "none"
  /\ request \in Leaves => view \in {"leaving", "terminated"}
  /\ Reaches =>
       /\ request \in Commands => vm = "wait" /\ is_paused /\ view = "running"
       /\ view = "stopped" => vm = "wait" /\ is_paused
       /\ view = "running" /\ vm = "wait" /\ is_paused => request \in Commands
       /\ view = "running" /\ vm \in {"callback", "emit"} => is_paused

\* An armed step is that of the last command.
ArmedOK ==
  step.mode # "None" =>
    /\ Reaches
    /\ past.command \in Steps /\ past.epoch = step.epoch /\ past.depth = step.depth
    /\ past.command \in {"next", "nextInstruction"} => step.mode \in {"Over", "OverInstruction"}
    /\ past.command = "stepOut" => step.mode = "Out"

\* A step is not due before anything was executed: a line step goes straight
\* to the instruction, the others wait for their frame or skip a check.
NotYetDue ==
  \/ step.mode = "Out" /\ step.depth = depth
  \/ step.mode \in ByInstruction /\ step.skip
FreshOK ==
  /\ vm \in Arriving \cup {"checkStep"} /\ step.mode # "None" /\ ~past.executed => NotYetDue
  /\ vm \in Held /\ ~is_paused /\ step.mode # "None" =>
       NotYetDue \/ (step.mode \in {"In", "Over"} /\ event # "FinalizerError")
  /\ event = "Step" => Reaches

\* What a stop is about.
StopOK ==
  /\ vm \in Stopping => event # "None"
  /\ vm \in Held =>
       /\ stopped = IF event = "FinalizerError" THEN NoLine ELSE line
       /\ past.here <=> event # "FinalizerError"

\* The last hit is of this line once breakpoints were looked at, of the line
\* before until then, and nothing once a stop is over, unless a step left a
\* pause.
StepsFromPause == event = "Pause" /\ past.command # "none" /\ Reaches
LastHitOK ==
  /\ vm = "checkStep" \/ (vm \in Stopping /\ event \in {"Breakpoint", "Step"}) =>
       (line \in Line => last_bp \in {line, NoLine})
  /\ vm = "exec" /\ line \in Line => last_bp \in {line, NoLine} \/ (past.here /\ StepsFromPause)
  /\ vm \in Held /\ ~is_paused => last_bp = NoLine \/ (past.command # "none" /\ Reaches)
  /\ vm \in Arriving \/ (vm \in Stopping /\ event \in {"Pause", "FinalizerError"}) =>
       (past.from \in Line => last_bp \in {past.from, NoLine})

Unannounced == line \in breakpoints /\ past.steady /\ past.from \in Line \ {line}
HonourOK == vm \in {"checkStep", "exec"} /\ Unannounced => past.here

SessionInv ==
  TypeOK /\ ClientOK /\ ArmedOK /\ FreshOK /\ StopOK /\ LastHitOK /\ HonourOK /\ StepIsFresh

LEMMA SendKeeps ==
  ASSUME SessionInv, NEW r \in client, Send(r), UNCHANGED client PROVE SessionInv'
<1>1. /\ UNCHANGED debugVars /\ UNCHANGED <<generation, registered, past, dap>>
      /\ request = "none" /\ request' = r /\ r \in AllRequests /\ dap = "read"
      /\ r \in Commands => view = "stopped" /\ view' = "running"
      /\ r = "pause" => view = "running"
      /\ r \in Leaves /\ view # "terminated" => view' = "leaving"
      /\ r \notin Commands \cup Leaves \/ (r \notin Commands /\ view = "terminated") => view' = view
  BY DEF Send, Commands, SessionInv, TypeOK, AllRequests, Steps, Leaves
<1>2. UNCHANGED <<vm, line, depth, breakpoints, should_pause, is_paused, stopped, step, epoch, last_bp, event>>
  BY <1>1 DEF debugVars, programVars, stepVars
<1>3. TypeOK'
  BY <1>1, <1>2 DEF SessionInv, TypeOK, Commands, Leaves
<1>4. ClientOK'
  BY <1>1, <1>2 DEF SessionInv, TypeOK, ClientOK, Reaches, Commands, Leaves, Steps
<1>5. ArmedOK' /\ FreshOK' /\ StopOK' /\ LastHitOK' /\ HonourOK' /\ StepIsFresh'
  BY <1>1, <1>2 DEF SessionInv, ArmedOK, FreshOK, NotYetDue, StopOK, LastHitOK, StepsFromPause, HonourOK, Unannounced, StepIsFresh, Reaches
<1> QED BY <1>3, <1>4, <1>5 DEF SessionInv

\* The breakpoints change under the VM's feet.
LEMMA HandleSetBreakpointsKeeps ==
  ASSUME SessionInv, HandleSetBreakpoints, UNCHANGED client PROVE SessionInv'
<1>1. /\ UNCHANGED <<vm, line, depth, should_pause, is_paused, stopped, step, epoch, last_bp, event>>
      /\ UNCHANGED <<dap, view, generation, registered>>
      /\ breakpoints' \in SUBSET Line /\ request' = "none"
      /\ past' = [past EXCEPT !.steady = FALSE]
  BY DEF HandleSetBreakpoints, SetBreakpoints, Read, programVars, stepVars
<1>2. TypeOK' /\ ~past'.steady
  BY <1>1 DEF SessionInv, TypeOK
<1>3. /\ past'.command = past.command /\ past'.depth = past.depth /\ past'.epoch = past.epoch
      /\ past'.executed = past.executed /\ past'.from = past.from /\ past'.here = past.here
  BY <1>1 DEF SessionInv, TypeOK
<1>4. ClientOK'
  BY <1>1 DEF SessionInv, HandleSetBreakpoints, Read, ClientOK, Reaches, Commands, Leaves, Steps
<1>5. ArmedOK' /\ FreshOK' /\ StopOK' /\ LastHitOK' /\ StepIsFresh'
  BY <1>1, <1>3 DEF SessionInv, ArmedOK, FreshOK, NotYetDue, StopOK, LastHitOK, StepsFromPause,
                    StepIsFresh, Reaches
<1>6. HonourOK'
  BY <1>2 DEF HonourOK, Unannounced
<1> QED BY <1>2, <1>4, <1>5, <1>6 DEF SessionInv

\* A continue reaches a VM that waits for it, or none.
LEMMA HandleContinueKeeps ==
  ASSUME SessionInv, HandleContinue, UNCHANGED client PROVE SessionInv'
<1>1. /\ UNCHANGED <<vm, line, depth, breakpoints, should_pause, stopped, epoch, event>>
      /\ UNCHANGED <<dap, view, generation, registered>>
      /\ request = "continue" /\ request' = "none" /\ past' = Forgotten
      /\ Reaches => is_paused' = FALSE /\ step' = NoStep /\ last_bp' = NoLine
      /\ ~Reaches => UNCHANGED <<is_paused, step, last_bp>>
  BY DEF HandleContinue, Resume, Release, Read, debugVars, programVars, stepVars
<1>2. Reaches' = Reaches
  BY <1>1 DEF Reaches
<1>3. /\ past'.command = "none" /\ past'.executed = FALSE /\ past'.from = past.from
      /\ past'.steady = past.steady /\ past'.here = past.here
  BY <1>1 DEF SessionInv, TypeOK, Forgotten
<1>4. NoStep \in [mode : Modes, depth : Nat, line : Span, epoch : Nat, skip : BOOLEAN] /\ NoStep.mode = "None"
  BY DEF NoStep, Modes, Span
<1>5. TypeOK'
  <2>1. past' \in [command : Steps \cup {"none"}, depth : Nat, epoch : Nat, executed : BOOLEAN,
                   from : Span, steady : BOOLEAN, here : BOOLEAN]
    BY <1>1 DEF SessionInv, TypeOK, Forgotten
  <2> QED BY <1>1, <1>4, <2>1 DEF SessionInv, TypeOK, Span
<1>6. Reaches => vm = "wait" /\ is_paused /\ view = "running"
  BY <1>1 DEF SessionInv, ClientOK, Commands
<1>7. ClientOK'
  BY <1>1, <1>2, <1>6 DEF SessionInv, ClientOK, Commands, Leaves, Steps
<1>8. step'.mode = "None"
  BY <1>1, <1>4 DEF SessionInv, ArmedOK
<1>9. ArmedOK' /\ FreshOK'
  BY <1>1, <1>2, <1>8 DEF SessionInv, ArmedOK, FreshOK
<1>10. StopOK'
  BY <1>1, <1>3 DEF SessionInv, StopOK
<1>11. LastHitOK'
  BY <1>1, <1>2, <1>3, <1>6 DEF SessionInv, LastHitOK, StepsFromPause, Held, Stopping, Arriving
<1>12. HonourOK' /\ StepIsFresh'
  BY <1>1, <1>3, <1>6 DEF SessionInv, HonourOK, Unannounced, StepIsFresh, FreshOK
<1> QED BY <1>5, <1>7, <1>9, <1>10, <1>11, <1>12 DEF SessionInv

\* A step arms what fits the command, at the stop the command was given at.
LEMMA HandleStepKeeps ==
  ASSUME SessionInv, HandleStep, UNCHANGED client PROVE SessionInv'
<1> DEFINE mode == StepModeFor(request)
           origin == IF mode \in {"Over", "In"} THEN stopped ELSE NoLine
           skips == mode \in {"OverInstruction", "InInstruction"}
           armed == [mode |-> mode, depth |-> depth, line |-> origin, epoch |-> epoch, skip |-> skips]
<1>1. /\ UNCHANGED <<vm, line, depth, breakpoints, should_pause, stopped, epoch, last_bp, event>>
      /\ UNCHANGED <<dap, view, generation, registered>>
      /\ request \in Steps /\ request' = "none"
      /\ past' = [past EXCEPT !.command = request, !.depth = depth, !.epoch = epoch, !.executed = FALSE]
      /\ Reaches => is_paused' = FALSE /\ step' = armed
      /\ ~Reaches => UNCHANGED <<is_paused, step>>
  BY DEF HandleStep, StepAs, Read, debugVars, programVars, stepVars
<1>2. Reaches' = Reaches
  BY <1>1 DEF Reaches
<1>3. /\ past'.command = request /\ past'.depth = depth /\ past'.epoch = epoch /\ past'.executed = FALSE
      /\ past'.from = past.from /\ past'.steady = past.steady /\ past'.here = past.here
  BY <1>1 DEF SessionInv, TypeOK
<1>4. /\ mode \in {"Over", "In", "Out"} \cup ByInstruction
      /\ mode \in {"Over", "In"} => stopped # NoLine
      /\ request \in {"next", "nextInstruction"} => mode \in {"Over", "OverInstruction"}
      /\ request = "stepOut" => mode = "Out"
  BY <1>1, Zenon DEF StepModeFor, Steps, ByInstruction
<1>14. origin \in Span /\ skips \in BOOLEAN /\ (mode \in ByInstruction => skips)
  BY DEF SessionInv, TypeOK, Span, ByInstruction
<1> HIDE DEF mode, origin, skips
<1>5. /\ armed.mode = mode /\ armed.depth = depth /\ armed.epoch = epoch
      /\ mode \in ByInstruction => armed.skip
      /\ armed \in [mode : Modes, depth : Nat, line : Span, epoch : Nat, skip : BOOLEAN]
  BY <1>4, <1>14 DEF SessionInv, TypeOK, Modes
<1> HIDE DEF armed
<1>6. Reaches => vm = "wait" /\ is_paused /\ view = "running"
  BY <1>1 DEF SessionInv, ClientOK, Commands
<1>7. TypeOK'
  <2>1. past' \in [command : Steps \cup {"none"}, depth : Nat, epoch : Nat, executed : BOOLEAN,
                   from : Span, steady : BOOLEAN, here : BOOLEAN]
    BY <1>1 DEF SessionInv, TypeOK
  <2> QED BY <1>1, <1>5, <2>1 DEF SessionInv, TypeOK
<1>8. ClientOK'
  BY <1>1, <1>2, <1>6 DEF SessionInv, ClientOK, Commands, Leaves, Steps
<1>9. ArmedOK'
  BY <1>1, <1>2, <1>3, <1>4, <1>5 DEF SessionInv, ArmedOK
<1>10. FreshOK'
  <2>1. Reaches => (mode \in {"Over", "In"} => event # "FinalizerError")
    BY <1>4, <1>6 DEF SessionInv, StopOK, Held
  <2>2. Reaches => NotYetDue' \/ (step'.mode \in {"In", "Over"} /\ event' # "FinalizerError")
    BY <1>1, <1>4, <1>5, <2>1 DEF NotYetDue
  <2> QED BY <1>1, <1>2, <1>6, <2>2 DEF SessionInv, FreshOK, ArmedOK, Held, Arriving
<1>11. StopOK'
  BY <1>1, <1>3 DEF SessionInv, StopOK
<1>12. LastHitOK'
  BY <1>1, <1>2, <1>3, <1>6 DEF SessionInv, LastHitOK, StepsFromPause, Held, Stopping, Arriving, Steps
<1>13. HonourOK' /\ StepIsFresh'
  BY <1>1, <1>3, <1>6 DEF SessionInv, HonourOK, Unannounced, StepIsFresh, FreshOK
<1> QED BY <1>7, <1>8, <1>9, <1>10, <1>11, <1>12, <1>13 DEF SessionInv

\* A pause, and the end of the input, disturb no part.
LEMMA OtherRequestsKeep ==
  ASSUME SessionInv, HandlePause \/ EndOfInput, UNCHANGED client PROVE SessionInv'
<1>1. /\ UNCHANGED <<vm, line, depth, breakpoints, is_paused, stopped, step, epoch, last_bp, event>>
      /\ UNCHANGED <<view, generation, registered, past>>
      /\ request \in {"pause", "eof"} /\ request' = "none" /\ dap' \in {dap, "joining"}
      /\ should_pause' \in {should_pause, TRUE}
  BY DEF HandlePause, RequestPause, EndOfInput, Read, debugVars, programVars, stepVars
<1>5. TypeOK
  BY DEF SessionInv
<1>6. /\ dap' \in {"read", "joining", "restarting", "exited"} /\ request' \in AllRequests \cup {"none"}
      /\ should_pause' \in BOOLEAN
  <2>1. dap \in {"read", "joining", "restarting", "exited"} /\ should_pause \in BOOLEAN
    BY Zenon, <1>5 DEF TypeOK
  <2> QED BY <1>1, <2>1
<1>7. /\ step' \in [mode : Modes, depth : Nat, line : Span, epoch : Nat, skip : BOOLEAN]
      /\ past' \in [command : Steps \cup {"none"}, depth : Nat, epoch : Nat, executed : BOOLEAN,
                   from : Span, steady : BOOLEAN, here : BOOLEAN]
  BY Zenon, <1>1, <1>5 DEF TypeOK
<1>2. TypeOK'
  BY <1>1, <1>5, <1>6, <1>7 DEF TypeOK
<1>3. ClientOK'
  BY <1>1 DEF SessionInv, ClientOK, Reaches, Commands, Leaves, Steps
<1>4. ArmedOK' /\ FreshOK' /\ StopOK' /\ LastHitOK' /\ HonourOK' /\ StepIsFresh'
  BY <1>1 DEF SessionInv, ArmedOK, FreshOK, NotYetDue, StopOK, LastHitOK, StepsFromPause, HonourOK,
              Unannounced, StepIsFresh, Reaches
<1> QED BY <1>2, <1>3, <1>4 DEF SessionInv

\* What resume() leaves: no step and no last hit.
LEMMA HandleLeaveKeeps ==
  ASSUME SessionInv, HandleLeave, UNCHANGED client PROVE SessionInv'
<1>1. /\ UNCHANGED <<vm, line, depth, breakpoints, should_pause, stopped, epoch, event>>
      /\ UNCHANGED <<view, generation, registered, past>>
      /\ request \in Leaves /\ request' = "none"
      /\ is_paused' = FALSE /\ step' = NoStep /\ last_bp' = NoLine
  BY DEF HandleLeave, Resume, Release, Read, programVars, stepVars, Leaves
<1>2. dap' \in {"read", "joining", "restarting"}
  BY Zenon DEF HandleLeave, Read
<1>3. NoStep \in [mode : Modes, depth : Nat, line : Span, epoch : Nat, skip : BOOLEAN] /\ NoStep.mode = "None"
  BY DEF NoStep, Modes, Span
<1>4. TypeOK'
  <2>1. step' \in [mode : Modes, depth : Nat, line : Span, epoch : Nat, skip : BOOLEAN]
    BY <1>1, <1>3
  <2>2. last_bp' \in Span /\ is_paused' \in BOOLEAN
    BY <1>1 DEF Span
  <2> QED BY <1>1, <1>2, <2>1, <2>2 DEF SessionInv, TypeOK
<1>5. ClientOK'
  BY <1>1 DEF SessionInv, ClientOK, Reaches, Commands, Leaves, Steps
<1>6. ArmedOK' /\ FreshOK' /\ StopOK' /\ HonourOK' /\ StepIsFresh'
  BY <1>1, <1>3 DEF SessionInv, ArmedOK, FreshOK, StopOK, HonourOK, Unannounced, StepIsFresh, Reaches
<1>7. LastHitOK'
  BY <1>1 DEF LastHitOK
<1> QED BY <1>4, <1>5, <1>6, <1>7 DEF SessionInv

LEMMA JoinKeeps ==
  ASSUME SessionInv, Join, UNCHANGED client PROVE SessionInv'
<1>1. /\ UNCHANGED <<vm, line, depth, breakpoints, should_pause, is_paused, stopped, step, epoch, last_bp, event>>
      /\ UNCHANGED <<request, view, generation, registered, past>> /\ dap' = "exited" /\ dap = "joining"
  BY DEF Join, debugVars, programVars, stepVars
<1>2. TypeOK' /\ ClientOK'
  BY <1>1 DEF SessionInv, TypeOK, ClientOK, Reaches
<1>3. ArmedOK' /\ FreshOK' /\ StopOK' /\ LastHitOK' /\ HonourOK' /\ StepIsFresh'
  BY <1>1 DEF SessionInv, ArmedOK, FreshOK, NotYetDue, StopOK, LastHitOK, StepsFromPause, HonourOK,
              Unannounced, StepIsFresh, Reaches
<1> QED BY <1>2, <1>3 DEF SessionInv

\* A fresh VM, which the registry does not know.
LEMMA RestartKeeps ==
  ASSUME SessionInv, Restart, UNCHANGED client PROVE SessionInv'
<1>1. /\ vm' = "checkPause" /\ line' \in Span /\ depth' = 1 /\ is_paused' = FALSE /\ stopped' = NoLine
      /\ should_pause' \in BOOLEAN /\ step' = NoStep /\ epoch' = 0 /\ last_bp' = NoLine /\ event' = "None"
      /\ dap' = "read" /\ view' = "running" /\ generation' = generation + 1 /\ past' = NoPast
      /\ UNCHANGED <<breakpoints, request, registered>>
  BY SessionAssumption DEF Restart
<1>2. NoStep \in [mode : Modes, depth : Nat, line : Span, epoch : Nat, skip : BOOLEAN] /\ NoStep.mode = "None"
  BY DEF NoStep, Modes, Span
<1>3. /\ NoPast \in [command : Steps \cup {"none"}, depth : Nat, epoch : Nat, executed : BOOLEAN,
                     from : Span, steady : BOOLEAN, here : BOOLEAN]
      /\ NoPast.from = NoLine
  BY DEF NoPast, Span
<1>4. TypeOK'
  <2>1. step' \in [mode : Modes, depth : Nat, line : Span, epoch : Nat, skip : BOOLEAN]
    BY <1>1, <1>2
  <2>2. past' \in [command : Steps \cup {"none"}, depth : Nat, epoch : Nat, executed : BOOLEAN,
                   from : Span, steady : BOOLEAN, here : BOOLEAN]
    BY <1>1, <1>3
  <2>3. vm' \in Vms /\ last_bp' \in Span /\ stopped' \in Span /\ is_paused' \in BOOLEAN /\ event' \in Events
    BY <1>1 DEF Vms, Arriving, Span, Events
  <2> QED BY <1>1, <2>1, <2>2, <2>3 DEF SessionInv, TypeOK
<1>5. ~Reaches' /\ registered' <= generation'
  BY <1>1 DEF SessionInv, TypeOK, ClientOK, Reaches
<1>6. request = "none"
  BY DEF SessionInv, ClientOK, Restart
<1>7. ClientOK'
  BY <1>1, <1>5, <1>6 DEF ClientOK, Leaves
<1>8. ArmedOK' /\ FreshOK' /\ StopOK'
  BY <1>1, <1>2 DEF ArmedOK, FreshOK, StopOK, Stopping, Held
<1>9. LastHitOK' /\ HonourOK' /\ StepIsFresh'
  BY <1>1 DEF LastHitOK, HonourOK, StepIsFresh, Stopping, Held
<1> QED BY <1>4, <1>7, <1>8, <1>9 DEF SessionInv

-----------------------------------------------------------------------------
(* The VM thread. *)

\* The stop begins: from now on it is known where and why.
LEMMA VmStopsKeeps ==
  ASSUME SessionInv, VmStops, UNCHANGED client PROVE SessionInv'
<1>1. /\ vm = "pausing" /\ vm' = "callback" /\ is_paused' = TRUE
      /\ stopped' = IF event = "FinalizerError" THEN NoLine ELSE line
      /\ UNCHANGED <<line, depth, breakpoints, should_pause, step, epoch, last_bp, event>>
      /\ UNCHANGED <<dap, request, view, generation, registered>>
  BY DEF VmStops, BeginStop, Goto, programVars, stepVars, sessionVars
<1> DEFINE h == event # "FinalizerError"
<1>2. past' = [past EXCEPT !.here = h] /\ h \in BOOLEAN /\ (h <=> event # "FinalizerError")
  BY DEF VmStops
<1> HIDE DEF h
<1>3. /\ past'.command = past.command /\ past'.depth = past.depth /\ past'.epoch = past.epoch
      /\ past'.executed = past.executed /\ past'.from = past.from /\ past'.steady = past.steady
      /\ past'.here = h
  BY <1>2 DEF SessionInv, TypeOK
<1>4. TypeOK'
  <2>1. past' \in [command : Steps \cup {"none"}, depth : Nat, epoch : Nat, executed : BOOLEAN,
                   from : Span, steady : BOOLEAN, here : BOOLEAN]
    BY <1>2 DEF SessionInv, TypeOK
  <2>2. vm' \in Vms /\ stopped' \in Span /\ is_paused' \in BOOLEAN
    BY <1>1 DEF SessionInv, TypeOK, Vms, Stopping, Held, Span
  <2> QED BY <1>1, <2>1, <2>2 DEF SessionInv, TypeOK
<1>5. ClientOK'
  BY <1>1 DEF SessionInv, ClientOK, Reaches
<1>6. ArmedOK' /\ FreshOK' /\ StopOK'
  BY <1>1, <1>2, <1>3 DEF SessionInv, ArmedOK, FreshOK, StopOK, Reaches, Arriving, Stopping, Held
<1>7. LastHitOK'
  BY <1>1, <1>3 DEF SessionInv, LastHitOK, Reaches, Arriving, Stopping, Held
<1>8. HonourOK' /\ StepIsFresh'
  BY <1>1 DEF HonourOK, StepIsFresh
<1> QED BY <1>4, <1>5, <1>6, <1>7, <1>8 DEF SessionInv

\* The callback tells the client, or resumes the VM itself.
LEMMA OnThreadStoppedKeeps ==
  ASSUME SessionInv, OnThreadStopped, UNCHANGED client PROVE SessionInv'
<1>1. /\ vm = "callback" /\ UNCHANGED <<line, depth, breakpoints, should_pause, stopped, epoch, event>>
      /\ UNCHANGED <<dap, request, view, generation, registered>>
  BY DEF OnThreadStopped, Release, Goto, programVars, stepVars, sessionVars
<1>2. CASE vm' = "emit" /\ UNCHANGED <<is_paused, step, last_bp, past>>
  <2>1. TypeOK' /\ ClientOK'
    BY <1>1, <1>2 DEF SessionInv, TypeOK, ClientOK, Reaches, Vms, Stopping, Held
  <2>2. ArmedOK' /\ FreshOK' /\ StopOK'
    BY <1>1, <1>2 DEF SessionInv, ArmedOK, FreshOK, StopOK, NotYetDue, Reaches, Arriving, Stopping, Held
  <2>3. LastHitOK'
    BY <1>1, <1>2 DEF SessionInv, LastHitOK, StepsFromPause, Reaches, Arriving, Stopping, Held
  <2>4. HonourOK' /\ StepIsFresh'
    BY <1>2 DEF HonourOK, StepIsFresh
  <2> QED BY <2>1, <2>2, <2>3, <2>4 DEF SessionInv
<1>3. CASE /\ vm' = "wait" /\ event = "Breakpoint" /\ is_paused' = FALSE /\ step' = NoStep
           /\ last_bp' = NoLine /\ past' = Forgotten
  <2>1. NoStep \in [mode : Modes, depth : Nat, line : Span, epoch : Nat, skip : BOOLEAN] /\ NoStep.mode = "None"
    BY DEF NoStep, Modes, Span
  <2>2. /\ past'.command = "none" /\ past'.from = past.from /\ past'.here = past.here
        /\ past' \in [command : Steps \cup {"none"}, depth : Nat, epoch : Nat, executed : BOOLEAN,
                      from : Span, steady : BOOLEAN, here : BOOLEAN]
    BY <1>3 DEF SessionInv, TypeOK, Forgotten
  <2>3. TypeOK'
    <3>1. vm' \in Vms /\ last_bp' \in Span /\ is_paused' \in BOOLEAN
      BY <1>3 DEF Vms, Stopping, Held, Span
    <3>2. step' \in [mode : Modes, depth : Nat, line : Span, epoch : Nat, skip : BOOLEAN]
      BY <1>3, <2>1
    <3> QED BY <1>1, <2>2, <3>1, <3>2 DEF SessionInv, TypeOK
  <2>4. ClientOK'
    BY <1>1, <1>3 DEF SessionInv, ClientOK, Reaches
  <2>5. ArmedOK' /\ FreshOK' /\ StopOK'
    BY <1>1, <1>3, <2>1, <2>2 DEF SessionInv, ArmedOK, FreshOK, StopOK, Reaches, Arriving, Stopping, Held
  <2>6. LastHitOK'
    BY <1>1, <1>3 DEF SessionInv, LastHitOK, Arriving, Stopping, Held
  <2>7. HonourOK' /\ StepIsFresh'
    BY <1>3 DEF HonourOK, StepIsFresh
  <2> QED BY <2>3, <2>4, <2>5, <2>6, <2>7 DEF SessionInv
<1> QED BY <1>2, <1>3 DEF OnThreadStopped, Release, Goto, stepVars

LEMMA SendStoppedKeeps ==
  ASSUME SessionInv, SendStopped, UNCHANGED client PROVE SessionInv'
<1>1. /\ vm = "emit" /\ vm' = "wait" /\ view' = IF view = "running" THEN "stopped" ELSE view
      /\ UNCHANGED <<line, depth, breakpoints, should_pause, is_paused, stopped, step, epoch, last_bp, event>>
      /\ UNCHANGED <<dap, request, generation, registered, past>>
  BY DEF SendStopped, Goto, programVars, stepVars
<1>2. TypeOK'
  BY <1>1 DEF SessionInv, TypeOK, Vms, Stopping, Held
<1>3. ClientOK'
  BY <1>1 DEF SessionInv, ClientOK, Reaches
<1>4. ArmedOK' /\ FreshOK' /\ StopOK'
  BY <1>1 DEF SessionInv, ArmedOK, FreshOK, StopOK, NotYetDue, Reaches, Arriving, Stopping, Held
<1>5. LastHitOK'
  BY <1>1 DEF SessionInv, LastHitOK, StepsFromPause, Reaches, Arriving, Stopping, Held
<1>6. HonourOK' /\ StepIsFresh'
  BY <1>1 DEF HonourOK, StepIsFresh
<1> QED BY <1>2, <1>3, <1>4, <1>5, <1>6 DEF SessionInv

\* The instruction: where control came from is where breakpoints were looked at.
LEMMA VmExecutesKeeps ==
  ASSUME SessionInv, VmExecutes, UNCHANGED client PROVE SessionInv'
<1> DEFINE e == past.command # "none"
           f == IF past.here /\ event = "Pause" /\ past.command # "none" THEN NoLine ELSE line
<1>1. /\ vm = "exec" /\ vm' = "checkPause" /\ line' \in Span /\ depth' \in 1..MaxDepth
      /\ epoch' = epoch \/ epoch' = epoch + 1
      /\ UNCHANGED <<breakpoints, should_pause, is_paused, stopped, step, last_bp, event>>
      /\ UNCHANGED <<dap, request, view, generation, registered>>
  BY DEF VmExecutes, Execute, Goto, sessionVars
<1>2. past' = [past EXCEPT !.executed = e, !.steady = TRUE, !.here = FALSE, !.from = f]
  BY DEF VmExecutes
<1>3. /\ e \in BOOLEAN /\ (past.command # "none" => e)
      /\ f \in Span /\ f \in {NoLine, line}
      /\ past.here /\ event = "Pause" /\ past.command # "none" => f = NoLine
  BY DEF SessionInv, TypeOK, Span
<1> HIDE DEF e, f
<1>4. /\ past'.command = past.command /\ past'.depth = past.depth /\ past'.epoch = past.epoch
      /\ past'.executed = e /\ past'.from = f
      /\ past' \in [command : Steps \cup {"none"}, depth : Nat, epoch : Nat, executed : BOOLEAN,
                    from : Span, steady : BOOLEAN, here : BOOLEAN]
  BY <1>2, <1>3 DEF SessionInv, TypeOK
<1>5. TypeOK'
  <2>1. vm' \in Vms /\ depth' \in Nat /\ epoch' \in Nat
    BY <1>1, DebugAssumption DEF SessionInv, TypeOK, Vms, Arriving
  <2> QED BY <1>1, <1>4, <2>1 DEF SessionInv, TypeOK
<1>6. ClientOK'
  BY <1>1 DEF SessionInv, ClientOK, Reaches
<1>7. ArmedOK' /\ FreshOK' /\ StopOK'
  BY <1>1, <1>3, <1>4 DEF SessionInv, ArmedOK, FreshOK, StopOK, Reaches, Arriving, Stopping, Held, Steps
<1>8. LastHitOK'
  <2>1. f \in Line => last_bp \in {f, NoLine}
    BY <1>1, <1>3, DebugAssumption DEF SessionInv, LastHitOK, StepsFromPause
  <2> QED BY <1>1, <1>4, <2>1 DEF LastHitOK, Stopping, Held
<1>9. HonourOK' /\ StepIsFresh'
  BY <1>1 DEF HonourOK, StepIsFresh
<1> QED BY <1>5, <1>6, <1>7, <1>8, <1>9 DEF SessionInv

\* Steps of the run loop that concern no client.
Internal == UNCHANGED <<past, sessionVars, client>>

LEMMA CheckPauseKeeps ==
  ASSUME SessionInv, CheckPause, Internal PROVE SessionInv'
<1>1. /\ vm = "checkPause"
      /\ \/ vm' = "pausing" /\ event' = "Pause"
         \/ vm' = "checkBp" /\ event' = event
      /\ should_pause' \in BOOLEAN
      /\ UNCHANGED <<line, depth, breakpoints, is_paused, stopped, step, epoch, last_bp>>
      /\ UNCHANGED <<past, dap, request, view, generation, registered, client>>
  BY DEF CheckPause, Goto, Internal, programVars, stepVars, sessionVars, SessionInv, TypeOK
<1>2. TypeOK'
  BY <1>1 DEF SessionInv, TypeOK, Vms, Stopping, Arriving, Events
<1>3. ClientOK'
  BY <1>1 DEF SessionInv, ClientOK, Reaches
<1>4. ArmedOK' /\ FreshOK' /\ StopOK'
  BY <1>1 DEF SessionInv, ArmedOK, FreshOK, StopOK, NotYetDue, Reaches, Arriving, Stopping, Held
<1>5. LastHitOK'
  BY <1>1 DEF SessionInv, LastHitOK, StepsFromPause, Reaches, Arriving, Stopping, Held
<1>6. HonourOK' /\ StepIsFresh'
  BY <1>1 DEF HonourOK, StepIsFresh
<1> QED BY <1>2, <1>3, <1>4, <1>5, <1>6 DEF SessionInv

\* The last hit is forgotten on a line without a breakpoint, replaced by a hit,
\* and otherwise this very line.
LEMMA CheckBreakpointKeeps ==
  ASSUME SessionInv, CheckBreakpoint, Internal PROVE SessionInv'
<1> DEFINE hit == [NoStep EXCEPT !.skip = step.skip]
<1>1. /\ vm = "checkBp"
      /\ \/ /\ vm' = "checkStep" /\ UNCHANGED <<step, event>>
            /\ \/ line = NoLine /\ last_bp' = last_bp
               \/ line \in breakpoints /\ line = last_bp /\ last_bp' = last_bp
               \/ line \in Line \ breakpoints /\ last_bp' = NoLine
         \/ /\ vm' = "pausing" /\ event' = "Breakpoint"
            /\ line \in breakpoints /\ last_bp' = line /\ step' = hit
      /\ UNCHANGED <<line, depth, breakpoints, should_pause, is_paused, stopped, epoch>>
      /\ UNCHANGED <<past, dap, request, view, generation, registered, client>>
  BY DEF CheckBreakpoint, Goto, Internal, programVars, sessionVars
<1>2. hit \in [mode : Modes, depth : Nat, line : Span, epoch : Nat, skip : BOOLEAN] /\ hit.mode = "None"
  BY DEF NoStep, Modes, Span, SessionInv, TypeOK
<1> HIDE DEF hit
<1>3. TypeOK'
  <2>1. vm' \in Vms /\ event' \in Events /\ last_bp' \in Span
    BY <1>1 DEF SessionInv, TypeOK, Vms, Stopping, Events, Span
  <2> QED BY <1>1, <1>2, <2>1 DEF SessionInv, TypeOK
<1>4. ClientOK'
  BY <1>1 DEF SessionInv, ClientOK, Reaches
<1>5. ArmedOK' /\ FreshOK' /\ StopOK'
  BY <1>1, <1>2 DEF SessionInv, ArmedOK, FreshOK, StopOK, NotYetDue, Reaches, Arriving, Stopping, Held
<1>6. LastHitOK'
  BY <1>1, DebugAssumption DEF SessionInv, LastHitOK, Arriving, Stopping, Held
<1>7. HonourOK'
  BY <1>1, DebugAssumption DEF SessionInv, TypeOK, HonourOK, Unannounced, LastHitOK, Arriving
<1>8. StepIsFresh'
  BY <1>1 DEF StepIsFresh
<1> QED BY <1>3, <1>4, <1>5, <1>6, <1>7, <1>8 DEF SessionInv

\* A step that is due has executed something.
LEMMA CheckStepKeeps ==
  ASSUME SessionInv, CheckStep, Internal PROVE SessionInv'
<1> DEFINE hit == [NoStep EXCEPT !.skip = step.skip]
           k == step.mode = "None" /\ step.skip
           on == [step EXCEPT !.skip = k]
<1>1. /\ vm = "checkStep"
      /\ \/ vm' = "exec" /\ UNCHANGED event /\ step' = NoStep
         \/ vm' = "exec" /\ UNCHANGED event /\ step' = on
         \/ vm' = "pausing" /\ event' = "Step" /\ step' = hit /\ step.epoch = epoch /\ StepDue
      /\ UNCHANGED <<line, depth, breakpoints, should_pause, is_paused, stopped, epoch, last_bp>>
      /\ UNCHANGED <<past, dap, request, view, generation, registered, client>>
  BY DEF CheckStep, Goto, Internal, programVars, sessionVars
<1>2. /\ hit \in [mode : Modes, depth : Nat, line : Span, epoch : Nat, skip : BOOLEAN] /\ hit.mode = "None"
      /\ NoStep \in [mode : Modes, depth : Nat, line : Span, epoch : Nat, skip : BOOLEAN] /\ NoStep.mode = "None"
  BY DEF NoStep, Modes, Span, SessionInv, TypeOK
<1>3. k \in BOOLEAN
  OBVIOUS
<1> HIDE DEF hit, k
<1>4. /\ on \in [mode : Modes, depth : Nat, line : Span, epoch : Nat, skip : BOOLEAN]
      /\ on.mode = step.mode /\ on.depth = step.depth /\ on.epoch = step.epoch
  BY <1>3 DEF SessionInv, TypeOK
<1> HIDE DEF on
<1>5. StepDue => /\ step.mode # "None"
                 /\ step.mode \in {"Over", "OverInstruction"} => depth <= step.depth
                 /\ step.mode = "Out" => depth < step.depth
                 /\ step.mode \in ByInstruction => ~step.skip
  BY Zenon DEF StepDue, ByInstruction
<1>6. TypeOK'
  <2>1. vm' \in Vms /\ event' \in Events
    BY <1>1 DEF SessionInv, TypeOK, Vms, Stopping, Events
  <2> QED BY <1>1, <1>2, <1>4, <2>1 DEF SessionInv, TypeOK
<1>7. ClientOK'
  BY <1>1 DEF SessionInv, ClientOK, Reaches
<1>8. ArmedOK' /\ FreshOK' /\ StopOK'
  BY <1>1, <1>2, <1>4, <1>5 DEF SessionInv, ArmedOK, FreshOK, StopOK, Reaches, Arriving, Stopping, Held
<1>9. LastHitOK'
  BY <1>1 DEF SessionInv, LastHitOK, Arriving, Stopping, Held
<1>10. HonourOK'
  BY <1>1 DEF SessionInv, HonourOK, Unannounced
<1>11. StepIsFresh'
  <2> SUFFICES ASSUME step.epoch = epoch, StepDue
               PROVE  /\ past.command \in Steps /\ past.epoch = epoch /\ past.executed
                      /\ past.command \in {"next", "nextInstruction"} => depth <= past.depth
                      /\ past.command = "stepOut" => depth < past.depth
    BY <1>1 DEF StepIsFresh
  <2>1. /\ past.command \in Steps /\ past.epoch = epoch /\ past.depth = step.depth
        /\ past.command \in {"next", "nextInstruction"} => step.mode \in {"Over", "OverInstruction"}
        /\ past.command = "stepOut" => step.mode = "Out"
    BY <1>5 DEF SessionInv, ArmedOK
  <2>2. step.depth \in Nat /\ depth \in Nat
    BY DEF SessionInv, TypeOK
  <2>3. past.executed
    <3>1. ~NotYetDue
      BY <1>5, <2>2 DEF NotYetDue
    <3> QED BY <1>1, <1>5, <3>1 DEF SessionInv, FreshOK
  <2> QED BY <1>5, <2>1, <2>3
<1> QED BY <1>6, <1>7, <1>8, <1>9, <1>10, <1>11 DEF SessionInv

\* The wait is over only when somebody resumed the VM.
LEMMA EndStopKeeps ==
  ASSUME SessionInv, EndStop, Internal PROVE SessionInv'
<1>1. /\ vm = "wait" /\ ~is_paused
      /\ vm' = IF event = "Exception" THEN "ended"
               ELSE IF event = "FinalizerError" THEN "checkPause" ELSE "exec"
      /\ UNCHANGED <<line, depth, breakpoints, should_pause, is_paused, stopped, step, epoch, last_bp, event>>
      /\ UNCHANGED <<past, dap, request, view, generation, registered, client>>
  BY DEF EndStop, Goto, Internal, programVars, stepVars, sessionVars
<1>2. TypeOK'
  BY <1>1 DEF SessionInv, TypeOK, Vms, Arriving
<1>3. ClientOK'
  BY <1>1 DEF SessionInv, ClientOK, Reaches
<1>4. ArmedOK' /\ FreshOK' /\ StopOK'
  BY <1>1 DEF SessionInv, ArmedOK, FreshOK, StopOK, NotYetDue, Reaches, Arriving, Stopping, Held
<1>5. LastHitOK'
  BY <1>1 DEF SessionInv, TypeOK, LastHitOK, StepsFromPause, StopOK, Reaches, Arriving, Stopping, Held, Events
<1>6. HonourOK' /\ StepIsFresh'
  BY <1>1 DEF SessionInv, HonourOK, StopOK, StepIsFresh, Held
<1> QED BY <1>2, <1>3, <1>4, <1>5, <1>6 DEF SessionInv

\* Errors stop the VM, and the run ends.
LEMMA OthersKeep ==
  ASSUME SessionInv, Throw \/ FinalizerFails \/ Finish, Internal PROVE SessionInv'
<1>1. /\ \/ vm = "exec" /\ vm' = "pausing" /\ event' = "Exception"
         \/ vm = "checkPause" /\ vm' = "pausing" /\ event' = "FinalizerError"
         \/ vm = "exec" /\ vm' = "ended" /\ event' = event
      /\ UNCHANGED <<line, depth, breakpoints, should_pause, is_paused, stopped, step, epoch, last_bp>>
      /\ UNCHANGED <<past, dap, request, view, generation, registered, client>>
  BY DEF Throw, FinalizerFails, Finish, Goto, Internal, programVars, stepVars, sessionVars
<1>2. TypeOK'
  BY <1>1 DEF SessionInv, TypeOK, Vms, Stopping, Events
<1>3. ClientOK'
  BY <1>1 DEF SessionInv, ClientOK, Reaches
<1>4. ArmedOK' /\ FreshOK' /\ StopOK'
  BY <1>1 DEF SessionInv, ArmedOK, FreshOK, StopOK, Reaches, Arriving, Stopping, Held
<1>5. LastHitOK'
  BY <1>1 DEF SessionInv, LastHitOK, Arriving, Stopping, Held
<1>6. HonourOK' /\ StepIsFresh'
  BY <1>1 DEF HonourOK, StepIsFresh
<1> QED BY <1>2, <1>3, <1>4, <1>5, <1>6 DEF SessionInv

LEMMA SendTerminatedKeeps ==
  ASSUME SessionInv, SendTerminated, UNCHANGED client PROVE SessionInv'
<1>1. /\ vm = "ended" /\ vm' = "finished" /\ view' = "terminated"
      /\ UNCHANGED <<line, depth, breakpoints, should_pause, is_paused, stopped, step, epoch, last_bp, event>>
      /\ UNCHANGED <<dap, request, generation, registered, past, client>>
  BY DEF SendTerminated, Goto, programVars, stepVars
<1>2. TypeOK'
  BY <1>1 DEF SessionInv, TypeOK, Vms
<1>3. ClientOK'
  BY <1>1 DEF SessionInv, ClientOK, Reaches
<1>4. ArmedOK' /\ FreshOK' /\ StopOK'
  BY <1>1 DEF SessionInv, ArmedOK, FreshOK, StopOK, Reaches, Arriving, Stopping, Held
<1>5. LastHitOK' /\ HonourOK' /\ StepIsFresh'
  BY <1>1 DEF LastHitOK, HonourOK, StepIsFresh, Arriving, Stopping, Held
<1> QED BY <1>2, <1>3, <1>4, <1>5 DEF SessionInv

-----------------------------------------------------------------------------
LEMMA InitSession == Init => SessionInv
<1> SUFFICES ASSUME Init PROVE SessionInv
  OBVIOUS
<1>1. /\ vm = "checkPause" /\ line \in Span /\ depth = 1 /\ breakpoints \in SUBSET Line
      /\ should_pause \in BOOLEAN /\ is_paused = FALSE /\ stopped = NoLine
      /\ step = NoStep /\ epoch = 0 /\ last_bp = NoLine /\ event = "None"
      /\ dap = "read" /\ request = "none" /\ view = "running" /\ generation = 0 /\ registered = 0
      /\ past = NoPast /\ client \in SUBSET AllRequests
  BY SessionAssumption DEF Init, Started
<1>2. NoStep \in [mode : Modes, depth : Nat, line : Span, epoch : Nat, skip : BOOLEAN] /\ NoStep.mode = "None"
  BY DEF NoStep, Modes, Span
<1>3. NoPast \in [command : Steps \cup {"none"}, depth : Nat, epoch : Nat, executed : BOOLEAN,
                  from : Span, steady : BOOLEAN, here : BOOLEAN]
  BY DEF NoPast, Span
<1>4. TypeOK
  <2>1. vm \in Vms /\ stopped \in Span /\ last_bp \in Span /\ event \in Events /\ is_paused \in BOOLEAN
    BY <1>1 DEF Vms, Arriving, Span, Events
  <2> QED BY <1>1, <1>2, <1>3, <2>1 DEF TypeOK
<1>5. ClientOK
  BY <1>1 DEF ClientOK, Commands, Steps, Leaves
<1>6. ArmedOK /\ FreshOK /\ StopOK
  BY <1>1, <1>2 DEF ArmedOK, FreshOK, StopOK, Stopping, Held
<1>7. LastHitOK /\ HonourOK /\ StepIsFresh
  BY <1>1 DEF LastHitOK, HonourOK, StepIsFresh, Stopping, Held
<1> QED BY <1>4, <1>5, <1>6, <1>7 DEF SessionInv

LEMMA NextSession == SessionInv /\ [Next]_vars => SessionInv'
<1> SUFFICES ASSUME SessionInv, [Next]_vars PROVE SessionInv'
  OBVIOUS
<1>1. ASSUME Client PROVE SessionInv'
  BY <1>1, SendKeeps DEF Client
<1>2. ASSUME DapThread PROVE SessionInv'
  BY <1>2, HandleSetBreakpointsKeeps, HandleContinueKeeps, HandleStepKeeps, OtherRequestsKeep,
     HandleLeaveKeeps, JoinKeeps, RestartKeeps DEF DapThread
<1>3. ASSUME VmThread PROVE SessionInv'
  BY <1>3, VmStopsKeeps, OnThreadStoppedKeeps, SendStoppedKeeps, VmExecutesKeeps, CheckPauseKeeps,
     CheckBreakpointKeeps, CheckStepKeeps, EndStopKeeps, OthersKeep, SendTerminatedKeeps
  DEF VmThread, VmInternal, Internal
<1>4. ASSUME UNCHANGED vars PROVE SessionInv'
  BY <1>4 DEF vars, debugVars, programVars, stepVars, sessionVars, SessionInv, TypeOK, ClientOK, ArmedOK,
              FreshOK, NotYetDue, StopOK, LastHitOK, StepsFromPause, HonourOK, Unannounced, StepIsFresh,
              Reaches
<1> QED BY <1>1, <1>2, <1>3, <1>4 DEF Next

\* The inductive invariant of a debug session.
THEOREM SessionInvariant == Spec => []SessionInv
<1> QED BY InitSession, NextSession, PTL DEF Spec

\* Whenever nothing is under way the client believes the VM stopped exactly
\* when it waits for the client.
THEOREM ClientsKnow == Spec => []ClientKnows
<1>1. SessionInv => ClientKnows
  BY DEF SessionInv, ClientOK, ClientKnows, Commands, Steps
<1> QED BY <1>1, SessionInvariant, PTL

\* A step stop answers the last step command, in the frame it may end in and
\* not across a continuation jump.
THEOREM StepsAreFresh == Spec => []StepIsFresh
<1>1. SessionInv => StepIsFresh
  BY DEF SessionInv
<1> QED BY <1>1, SessionInvariant, PTL

\* Passing from one source line to another with a breakpoint, set on arrival, the
\* VM stops there; excepted is a step that leaves the line of a pause, which keeps
\* the last hit and may pass it again (check_stop, step_over and the like).
THEOREM BreakpointsHonoured == Spec => []BreakpointHonoured
<1>1. SessionInv => BreakpointHonoured
  BY DEF SessionInv, HonourOK, Unannounced, BreakpointHonoured
<1> QED BY <1>1, SessionInvariant, PTL
=============================================================================
