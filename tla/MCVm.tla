-------------------------------- MODULE MCVm --------------------------------
(* The control stacks and unification, each under programs of its own.     *)
EXTENDS VmControl, Trail

Raising  == {"call-with-values", "catch", "raise", "dynamic-wind"}
Jumping  == {"call", "call/cc", "dynamic-wind"}
Skipping == {"call/cc", "dynamic-wind", "tailcall", "continuation in tail position"}
Logic    == {"logic"}
AllPrograms == {Raising, Jumping, Skipping, Logic}
SkippingPrograms == {Skipping}

\* Both orders, a variable with a hook and one without, a chain, a clash.
SomeEquations == {<<"x", "y">>, <<"y", "x">>, <<"y", "1">>, <<"2", "x">>}
NoEquations == {}

VmInit == Init /\ InitUnifier
VmControlNext == program # Logic /\ Next /\ UNCHANGED unifier
VmUnifierNext == program = Logic /\ UnifierNext /\ UNCHANGED control
VmNext == VmControlNext \/ VmUnifierNext

vmVars == <<control, unifier>>
Progress == program # Logic /\ Instruction /\ UNCHANGED unifier
VmSpec == VmInit /\ [][VmNext]_vmVars /\ WF_vmVars(Progress)
=============================================================================
