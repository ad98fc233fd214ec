------------------------- MODULE Subprocess_proofs -------------------------
(***************************************************************************)
(* The handle, the output and the clean-up of a call, for any number of    *)
(* threads, any options and pipes of any size.                             *)
(***************************************************************************)
EXTENDS Subprocess, Sequences, TLAPS

Starting0 == {"idle", "piped", "flagged"}
Forking   == {"forked", "closed"}
InRun     == {"kill", "reap", "join"}
InSpawn   == {"owned", "write", "read"}
Running   == {"wait", "polled"} \cup InRun \cup InSpawn
Pcs       == Starting0 \cup Forking \cup Running \cup {"done"}
Answers   == {"none", "ok", "timeout", "spawn-failed", "not-started", "dropped"}
Statuses  == {"none", "not-started", "killed", "exited"}
Calls     == [pc : Pcs, late : BOOLEAN, left : Int, got : Nat, writer : BOOLEAN,
              reader : BOOLEAN, answer : Answers]
Handles   == [pid : BOOLEAN, waited : BOOLEAN, exit_code : Statuses]
PipeEnds  == Thread \X Streams \X {"read", "write", "cloexec"}

TypeOK ==
  /\ opt \in [Thread -> Option]
  /\ eta \in {"default", "ignored", "killed"}
  /\ call \in [Thread -> Calls]
  /\ handle \in [Thread -> Handles]
  /\ proc \in [Process -> {"none", "forked", "running", "zombie", "gone"}]
  /\ status \in [Thread -> Statuses]
  /\ holds \in [Holders -> SUBSET PipeEnds]
  /\ bytes \in [Thread \X Streams -> Nat]
  /\ produced \in [Thread -> Nat]

\* A child has ended in some way exactly when it is a zombie or gone; one that
\* did not become its program has left errno in the error pipe, and one that
\* still may has that pipe open.
ChildOK(t) ==
  /\ status[t] = "none" <=> proc[Child(t)] \in {"none", "forked", "running"}
  /\ status[t] = "not-started" => bytes[<<t, "err">>] > 0
  /\ proc[Child(t)] = "forked" => <<t, "err", "cloexec">> \in holds[Child(t)]

\* Where the call is says how far its child is; the handle follows.
CallOK(t) ==
  /\ call[t].pc \in Starting0 => proc[Child(t)] = "none"
  /\ call[t].pc = "flagged" => <<t, "err", "cloexec">> \in holds[Eta]
  /\ call[t].pc \in Forking => proc[Child(t)] \notin {"none", "gone"}
  /\ call[t].pc \in Starting0 \cup Forking => ~handle[t].pid /\ ~handle[t].waited
  /\ call[t].pc \in Running =>
       /\ proc[Child(t)] \in {"running", "zombie", "gone"}
       /\ status[t] # "not-started"
       /\ handle[t].pid <=> proc[Child(t)] # "gone"
  /\ call[t].pc \in InRun => opt[t].kind = "run"
  /\ call[t].pc \in InSpawn => opt[t].kind = "spawn"

\* HandleIsChild, of one thread.
HandleOK(t) ==
  /\ handle[t].pid => proc[Child(t)] \in {"running", "zombie"} /\ status[t] # "not-started"
  /\ handle[t].waited =>
       proc[Child(t)] = "gone" /\ handle[t].exit_code = status[t] /\ status[t] # "none"

\* A run that joins its threads has waited for its child.
CleanOK(t) ==
  opt[t].kind = "run" =>
    /\ call[t].pc = "join" => proc[Child(t)] = "gone"
    /\ call[t].pc = "done" =>
         proc[Child(t)] \in {"none", "gone"} /\ holds[Eta] \cap AllEnds(t) = {}

\* What was written to the stdout of a run is in the pipe or was read; when its
\* reader has ended nobody is left who could write.
Capturing(t) == opt[t].kind = "run" /\ opt[t].stdout = "capture"
Drained(t) == bytes[<<t, "stdout">>] = 0 /\ ~HasWriter(t, "stdout")
OutputOK(t) ==
  /\ Capturing(t) => produced[t] = call[t].got + bytes[<<t, "stdout">>]
  /\ Capturing(t) /\ call[t].pc \in Running => call[t].reader \/ Drained(t)
  /\ call[t].answer = "ok" => opt[t].kind = "run" /\ call[t].pc = "done"
  /\ Capturing(t) /\ call[t].answer = "ok" => Drained(t)

CallsInv ==
  /\ TypeOK
  /\ \A t \in Thread : /\ ChildOK(t) /\ CallOK(t) /\ HandleOK(t)
                       /\ CleanOK(t) /\ OutputOK(t)

-----------------------------------------------------------------------------
(* A step of one thread, its child or its I/O threads, seen by the others. *)

LEMMA Apart ==
  /\ \A p \in Process : p # Eta
  /\ \A t \in Thread : Child(t) \in Process /\ Heir(t) \in Process /\ Child(t) # Heir(t)
  /\ \A t, u \in Thread : t # u => /\ Child(t) # Child(u) /\ Child(t) # Heir(u)
                                   /\ AllEnds(t) \cap AllEnds(u) = {}
<1>1. \A p \in Process : p # Eta
  <2>1. ASSUME NEW p \in Process, p = Eta PROVE FALSE
    <3>1. Len(p) = 2 /\ Len(Eta) = 1
      BY DEF Process, Eta
    <3> QED BY <2>1, <3>1
  <2> QED BY <2>1
<1> QED BY <1>1 DEF Process, Child, Heir, AllEnds

\* What a step on behalf of thread t leaves alone.
OnlyOf(t) ==
  /\ opt' = opt
  /\ \A u \in Thread \ {t} :
       /\ call'[u] = call[u] /\ handle'[u] = handle[u] /\ status'[u] = status[u]
       /\ produced'[u] = produced[u] /\ proc'[Child(u)] = proc[Child(u)]
       /\ \A s \in Streams : bytes'[<<u, s>>] = bytes[<<u, s>>]
       /\ holds'[Child(u)] = holds[Child(u)]
       /\ holds'[Eta] \cap AllEnds(u) = holds[Eta] \cap AllEnds(u)
       /\ HasWriter(u, "stdout")' => HasWriter(u, "stdout")

Good(t) == ChildOK(t) /\ CallOK(t) /\ HandleOK(t) /\ CleanOK(t) /\ OutputOK(t)

LEMMA Frame ==
  ASSUME CallsInv, NEW t \in Thread, TypeOK', OnlyOf(t), Good(t)'
  PROVE  CallsInv'
<1> SUFFICES ASSUME NEW u \in Thread \ {t} PROVE Good(u)'
  BY DEF CallsInv, Good
<1>1. Good(u)
  BY DEF CallsInv, Good
<1> USE <1>1 DEF OnlyOf, Good, Streams
<1>2. ChildOK(u)' /\ CallOK(u)' /\ HandleOK(u)'
  <2>1. <<u, "err", "cloexec">> \in AllEnds(u)
    BY DEF AllEnds
  <2> QED BY <2>1 DEF ChildOK, CallOK, HandleOK
<1>3. CleanOK(u)'
  BY DEF CleanOK
<1>4. OutputOK(u)'
  BY DEF OutputOK, Capturing, Drained
<1> QED BY <1>2, <1>3, <1>4

\* Nobody gets to write to a pipe that nobody could write to.
LEMMA NoNewWriter ==
  ASSUME NEW u \in Thread,
         \A p \in Holders : \E q \in Holders : holds'[p] \cap AllEnds(u) \subseteq holds[q]
  PROVE  HasWriter(u, "stdout")' => HasWriter(u, "stdout")
<1>1. \A k \in {"write", "cloexec"} : <<u, "stdout", k>> \in AllEnds(u)
  BY DEF AllEnds, Streams
<1> QED BY <1>1 DEF HasWriter

\* Ends that a thread opens and closes are its own.
LEMMA OwnEnds ==
  ASSUME TypeOK, NEW t \in Thread, \A p \in Process : holds'[p] = holds[p],
         \A e \in PipeEnds \ AllEnds(t) : e \in holds'[Eta] <=> e \in holds[Eta],
         NEW u \in Thread \ {t}
  PROVE  /\ holds'[Child(u)] = holds[Child(u)]
         /\ holds'[Eta] \cap AllEnds(u) = holds[Eta] \cap AllEnds(u)
         /\ HasWriter(u, "stdout")' => HasWriter(u, "stdout")
<1>1. \A e \in AllEnds(u) : e \in PipeEnds /\ e \notin AllEnds(t)
  BY Apart DEF AllEnds, PipeEnds
<1>2. \A p \in Holders : holds'[p] \cap AllEnds(u) = holds[p] \cap AllEnds(u)
  BY <1>1 DEF Holders
<1>3. Eta \in Holders /\ Child(u) \in Process
  BY Apart DEF Holders
<1> QED BY <1>2, <1>3, NoNewWriter

-----------------------------------------------------------------------------
\* Definitions every step needs.
LEMMA Typed ==
  ASSUME TypeOK, NEW t \in Thread
  PROVE  /\ call[t] \in Calls /\ handle[t] \in Handles /\ opt[t] \in Option
         /\ proc[Child(t)] \in {"none", "forked", "running", "zombie", "gone"}
         /\ holds[Eta] \subseteq PipeEnds /\ holds[Child(t)] \subseteq PipeEnds
         /\ \A s \in Streams : bytes[<<t, s>>] \in Nat
         /\ Child(t) \in Process /\ Child(t) \in Holders /\ Eta \in Holders
         /\ AllEnds(t) \subseteq PipeEnds
BY Apart DEF TypeOK, Holders, AllEnds, PipeEnds

\* A step of a call whose child is still being started.
LEMMA Starts ==
  ASSUME NEW t \in Thread, Good(t), UNCHANGED <<opt, bytes, produced>>,
         call[t].pc \in Starting0 \cup Forking, call'[t].pc \in Starting0 \cup Forking,
         call'[t].answer = call[t].answer, call'[t].got = call[t].got
  PROVE  CleanOK(t)' /\ OutputOK(t)'
BY DEF Good, CleanOK, OutputOK, Capturing, Starting0, Forking, Running, InRun, InSpawn

LEMMA MakePipesKeeps ==
  ASSUME CallsInv, NEW t \in Thread, MakePipes(t) PROVE CallsInv'
<1> USE DEF CallsInv, MakePipes, Goto
<1> DEFINE E == Ends(t, "err") \cup (IF opt[t].stdin = "null" THEN {} ELSE Ends(t, "stdin"))
                  \cup (IF opt[t].stdout = "null" THEN {} ELSE Ends(t, "stdout"))
<1>1. E \subseteq AllEnds(t) /\ holds' = [holds EXCEPT ![Eta] = @ \cup E]
  <2>1. \A s \in Streams : Ends(t, s) \subseteq AllEnds(t)
    BY DEF Ends, AllEnds
  <2> QED BY <2>1 DEF Streams
<1> HIDE DEF E
<1>2. TypeOK'
  BY SMTT(30), <1>1, Typed DEF TypeOK, Calls, Pcs, Starting0
<1>3. OnlyOf(t)
  <2>1. (\A p \in Process : holds'[p] = holds[p]) /\ holds'[Eta] = holds[Eta] \cup E
    BY <1>1, Typed, Apart DEF TypeOK, Holders
  <2> QED BY <1>1, <2>1, OwnEnds, Apart DEF OnlyOf, TypeOK
<1>4. Good(t)'
  <2>1. call'[t].pc = "piped" /\ call[t].pc = "idle" /\ call'[t].answer = call[t].answer /\ call'[t].got = call[t].got
    BY Typed DEF Calls, TypeOK
  <2>2. holds'[Child(t)] = holds[Child(t)]
    BY Apart, <1>1, Typed DEF TypeOK
  <2> QED BY <2>1, <2>2, Starts DEF Good, ChildOK, CallOK, HandleOK, Starting0, Forking, Running, InRun, InSpawn
<1> QED BY <1>2, <1>3, <1>4, Frame

LEMMA SetCloexecKeeps ==
  ASSUME CallsInv, NEW t \in Thread, SetCloexec(t) PROVE CallsInv'
<1> USE DEF CallsInv, SetCloexec, Goto
<1>1. /\ holds'[Eta] = (holds[Eta] \ {<<t, "err", "write">>}) \cup {<<t, "err", "cloexec">>}
      /\ \A p \in Process : holds'[p] = holds[p]
  BY Typed, Apart DEF AllEnds, Streams, TypeOK, Holders
<1>2. TypeOK'
  <2>1. {<<t, "err", "cloexec">>} \in SUBSET PipeEnds
    BY Typed DEF PipeEnds, Streams
  <2>2. holds' \in [Holders -> SUBSET PipeEnds]
    BY <1>1, <2>1, Typed DEF TypeOK
  <2> QED BY SMTT(30), <2>2 DEF TypeOK, Calls, Pcs, Starting0
<1>3. OnlyOf(t)
  BY SMTT(30), <1>1, Typed, Apart, OwnEnds DEF OnlyOf, TypeOK, AllEnds, Streams
<1>4. Good(t)'
  <2>1. call'[t].pc = "flagged" /\ call[t].pc = "piped" /\ call'[t].answer = call[t].answer /\ call'[t].got = call[t].got
    BY Typed DEF Calls, TypeOK
  <2> QED BY <1>1, <2>1, Typed, Starts DEF Good, ChildOK, CallOK, HandleOK, Starting0, Forking, Running, InRun, InSpawn
<1> QED BY <1>2, <1>3, <1>4, Frame

LEMMA ForkKeeps ==
  ASSUME CallsInv, NEW t \in Thread, Fork(t) PROVE CallsInv'
<1> USE DEF CallsInv, Fork, Goto
<1>1. /\ holds'[Child(t)] = holds[Eta]
      /\ \A p \in Holders \ {Child(t)} : holds'[p] = holds[p]
  BY Typed, Apart DEF TypeOK
<1>2. TypeOK'
  BY SMTT(30), Typed, <1>1 DEF TypeOK, Calls, Pcs, Forking, Holders
<1>3. OnlyOf(t)
  <2>1. ASSUME NEW u \in Thread \ {t} PROVE HasWriter(u, "stdout")' => HasWriter(u, "stdout")
    BY <1>1, Typed, NoNewWriter
  <2> QED BY <1>1, <2>1, Typed, Apart DEF OnlyOf, TypeOK
<1>4. Good(t)'
  <2>1. call'[t].pc = "forked" /\ call[t].pc = "flagged" /\ call'[t].answer = call[t].answer /\ call'[t].got = call[t].got
    BY Typed DEF Calls, TypeOK
  <2>2. proc'[Child(t)] = "forked"
    BY Typed DEF TypeOK
  <2> QED BY <1>1, <2>1, <2>2, Typed, Starts DEF Good, ChildOK, CallOK, HandleOK, Starting0, Forking, Running, InRun, InSpawn
<1> QED BY <1>2, <1>3, <1>4, Frame

LEMMA CloseChildEndsKeeps ==
  ASSUME CallsInv, NEW t \in Thread, CloseChildEnds(t) PROVE CallsInv'
<1> USE DEF CallsInv, CloseChildEnds, Goto
<1>1. /\ holds'[Eta] = holds[Eta] \ ChildEnds(t)
      /\ \A p \in Process : holds'[p] = holds[p]
      /\ ChildEnds(t) \subseteq AllEnds(t)
  BY Typed, Apart DEF TypeOK, Holders, ChildEnds
<1>2. TypeOK'
  <2>1. holds' \in [Holders -> SUBSET PipeEnds]
    BY <1>1, Typed DEF TypeOK
  <2> QED BY SMTT(30), <2>1 DEF TypeOK, Calls, Pcs, Forking
<1>3. OnlyOf(t)
  BY <1>1, OwnEnds DEF OnlyOf, TypeOK
<1>4. Good(t)'
  <2>1. call'[t].pc = "closed" /\ call[t].pc = "forked" /\ call'[t].answer = call[t].answer /\ call'[t].got = call[t].got
    BY Typed DEF Calls, TypeOK
  <2> QED BY <1>1, <2>1, Typed, Starts DEF Good, ChildOK, CallOK, HandleOK, Starting0, Forking, Running, InRun, InSpawn
<1> QED BY <1>2, <1>3, <1>4, Frame

\* The primitive returns and closes what it has open.
LEMMA Returns ==
  ASSUME CallsInv, NEW t \in Thread, NEW from, NEW answer \in Answers, Finish(t, from, answer)
  PROVE  /\ call' \in [Thread -> Calls] /\ holds' \in [Holders -> SUBSET PipeEnds]
         /\ call[t].pc = from /\ call'[t].pc = "done" /\ call'[t].answer = answer
         /\ call'[t].got = call[t].got
         /\ \A u \in Thread \ {t} : call'[u] = call[u]
         /\ \A p \in Process : holds'[p] = holds[p]
         /\ holds'[Eta] = holds[Eta] \ AllEnds(t)
         /\ HasWriter(t, "stdout")' => HasWriter(t, "stdout")
<1>1. /\ \A p \in Process : holds'[p] = holds[p]
      /\ holds'[Eta] = holds[Eta] \ AllEnds(t)
      /\ holds' \in [Holders -> SUBSET PipeEnds]
  BY Typed, Apart DEF Finish, CallsInv, TypeOK, Holders
<1>2. HasWriter(t, "stdout")' => HasWriter(t, "stdout")
  BY <1>1, NoNewWriter DEF Holders
<1>3. call' = [call EXCEPT ![t] = [call[t] EXCEPT !.pc = "done", !.answer = answer]] /\ call[t].pc = from
  BY DEF Finish
<1>4. [call[t] EXCEPT !.pc = "done", !.answer = answer] \in Calls
  BY Typed DEF CallsInv, Calls, Pcs
<1> QED BY <1>1, <1>2, <1>3, <1>4, Typed DEF CallsInv, TypeOK, Calls

LEMMA ReturnsLocally ==
  ASSUME CallsInv, NEW t \in Thread, NEW from, NEW answer \in Answers, Finish(t, from, answer),
         UNCHANGED <<opt, handle, status, bytes, produced>>,
         proc' = proc \/ proc' = [proc EXCEPT ![Child(t)] = "gone"]
  PROVE  OnlyOf(t)
<1> USE DEF CallsInv
<1>1. \A u \in Thread \ {t} : proc'[Child(u)] = proc[Child(u)]
  BY Apart DEF TypeOK
<1> QED BY <1>1, Returns, OwnEnds DEF OnlyOf

LEMMA SpawnFailsKeeps ==
  ASSUME CallsInv, NEW t \in Thread, SpawnFails(t) PROVE CallsInv'
<1> USE DEF CallsInv, SpawnFails
<1>1. PICK from \in {"idle", "flagged"} : Finish(t, from, "spawn-failed")
  OBVIOUS
<1>2. TypeOK'
  BY <1>1, Returns DEF TypeOK, Answers
<1>3. OnlyOf(t)
  BY <1>1, ReturnsLocally DEF Answers
<1>4. Good(t)'
  BY SMTT(30), <1>1, Returns DEF Answers, Good, ChildOK, CallOK, HandleOK, CleanOK, OutputOK, Capturing, Starting0, Forking, Running, InRun, InSpawn
<1> QED BY <1>2, <1>3, <1>4, Frame

LEMMA SpawnErrorReadKeeps ==
  ASSUME CallsInv, NEW t \in Thread, SpawnErrorRead(t) PROVE CallsInv'
<1> USE DEF CallsInv, SpawnErrorRead
<1>1. Finish(t, "closed", "not-started")
  OBVIOUS
<1>2. TypeOK'
  BY <1>1, Returns, Typed DEF TypeOK, Answers
<1>3. OnlyOf(t)
  BY <1>1, ReturnsLocally DEF Answers
<1>4. Good(t)'
  <2>1. proc'[Child(t)] = "gone"
    BY Typed DEF TypeOK
  <2> QED BY <1>1, <2>1, Returns DEF Answers, Good, ChildOK, CallOK, HandleOK, CleanOK, OutputOK, Capturing, Starting0, Forking, Running, InRun, InSpawn
<1> QED BY <1>2, <1>3, <1>4, Frame

LEMMA JoinKeeps ==
  ASSUME CallsInv, NEW t \in Thread, Join(t) PROVE CallsInv'
<1> USE DEF CallsInv, Join
<1>1. PICK answer \in {"timeout", "ok"} : Finish(t, "join", answer)
  OBVIOUS
<1>2. TypeOK'
  BY <1>1, Returns, Typed DEF TypeOK, Answers
<1>3. OnlyOf(t)
  BY <1>1, ReturnsLocally DEF Answers
<1>4. Good(t)'
  <2>1. ChildOK(t)' /\ CallOK(t)' /\ HandleOK(t)' /\ CleanOK(t)'
    BY <1>1, Returns DEF Answers, Good, ChildOK, CallOK, HandleOK, CleanOK, Starting0, Forking, Running, InRun, InSpawn
  <2>2. OutputOK(t)'
    BY ZenonT(60), <1>1, Returns DEF Answers, Good, CallOK, OutputOK, Capturing, Drained, Running, InRun, InSpawn
  <2> QED BY <2>1, <2>2 DEF Good
<1> QED BY <1>2, <1>3, <1>4, Frame

LEMMA CollectedKeeps ==
  ASSUME CallsInv, NEW t \in Thread, Collected(t) PROVE CallsInv'
<1> USE DEF CallsInv, Collected
<1>2. TypeOK'
  BY Returns, Typed DEF TypeOK, Answers
<1>3. OnlyOf(t)
  BY ReturnsLocally DEF Answers
<1>4. Good(t)'
  <2>1. ChildOK(t)' /\ CallOK(t)' /\ HandleOK(t)' /\ CleanOK(t)'
    BY Returns DEF Answers, Good, ChildOK, CallOK, HandleOK, CleanOK, Starting0, Forking, Running, InRun, InSpawn
  <2>2. OutputOK(t)'
    BY Returns DEF Answers, Good, CallOK, OutputOK, Capturing, Drained, Running, InRun, InSpawn
  <2> QED BY <2>1, <2>2 DEF Good
<1> QED BY <1>2, <1>3, <1>4, Frame

-----------------------------------------------------------------------------
\* Steps that open and close nothing.
LEMMA SameEnds ==
  ASSUME UNCHANGED holds, NEW u \in Thread
  PROVE  /\ holds'[Child(u)] = holds[Child(u)]
         /\ holds'[Eta] \cap AllEnds(u) = holds[Eta] \cap AllEnds(u)
         /\ HasWriter(u, "stdout")' = HasWriter(u, "stdout")
BY DEF HasWriter

\* Steps of a running call that only move it on.
LEMMA MovesOn ==
  ASSUME CallsInv, NEW t \in Thread, UNCHANGED <<opt, handle, os>>,
         eta' \in {"default", "ignored", "killed"},
         NEW c \in Calls, call' = [call EXCEPT ![t] = c],
         call[t].pc \in Running, c.pc \in Running \ {"join"},
         c.pc \in InRun => opt[t].kind = "run",
         c.pc \in InSpawn => opt[t].kind = "spawn",
         c.answer # "ok", c.got = call[t].got, c.reader = call[t].reader
  PROVE  CallsInv'
<1> USE DEF CallsInv, os
<1>1. TypeOK' /\ call'[t] = c
  BY DEF TypeOK
<1>2. OnlyOf(t)
  BY SameEnds DEF OnlyOf, TypeOK
<1>3. ChildOK(t)' /\ CallOK(t)' /\ HandleOK(t)' /\ CleanOK(t)'
  BY <1>1 DEF ChildOK, CallOK, HandleOK, CleanOK, Starting0, Forking, Running, InRun, InSpawn
<1>4. OutputOK(t)'
  BY <1>1, SameEnds DEF OutputOK, Capturing, Drained, Running, InRun, InSpawn
<1> QED BY <1>1, <1>2, <1>3, <1>4, Frame DEF Good

LEMMA WaitStepsKeep ==
  ASSUME CallsInv, NEW t \in Thread,
         WaitPolls(t) \/ PollAgain(t) \/ DeadlinePasses(t) \/ TimedOut(t) \/ WaitBegin(t) \/ PortBegins(t)
  PROVE  CallsInv'
<1> USE DEF CallsInv
<1>1. call[t] \in Calls /\ opt[t].kind \in {"run", "spawn"} /\ eta \in {"default", "ignored", "killed"}
  BY Typed DEF Option, TypeOK
<1>2. call[t].pc \in Running => call[t].answer # "ok"
  BY DEF OutputOK, Running, InRun, InSpawn
<1>3. CASE WaitPolls(t)
  <2>1. call' = [call EXCEPT ![t] = [@ EXCEPT !.pc = "polled"]] /\ call[t].pc = "wait" /\ UNCHANGED <<opt, eta, handle, os>>
    BY <1>3 DEF WaitPolls, Goto
  <2>2. [call[t] EXCEPT !.pc = "polled"] \in Calls
    BY <1>1 DEF Calls, Pcs, Running
  <2> QED BY <1>1, <1>2, <2>1, <2>2, MovesOn DEF Calls, Running, InRun, InSpawn
<1>4. CASE PollAgain(t)
  <2>1. call' = [call EXCEPT ![t] = [@ EXCEPT !.pc = "wait"]] /\ call[t].pc = "polled" /\ UNCHANGED <<opt, eta, handle, os>>
    BY <1>4 DEF PollAgain, Goto
  <2>2. [call[t] EXCEPT !.pc = "wait"] \in Calls
    BY <1>1 DEF Calls, Pcs, Running
  <2> QED BY <1>1, <1>2, <2>1, <2>2, MovesOn DEF Calls, Running, InRun, InSpawn
<1>5. CASE DeadlinePasses(t)
  <2>1. call' = [call EXCEPT ![t] = [@ EXCEPT !.late = TRUE]] /\ call[t].pc \in {"wait", "polled"} /\ UNCHANGED <<opt, eta, handle, os>>
    BY <1>5 DEF DeadlinePasses
  <2>2. [call[t] EXCEPT !.late = TRUE] \in Calls
    BY <1>1 DEF Calls, Pcs, Running
  <2> QED BY <1>1, <1>2, <2>1, <2>2, MovesOn DEF Calls, Running, InRun, InSpawn
<1>6. CASE TimedOut(t)
  <2> DEFINE next == IF opt[t].kind = "run" THEN "kill" ELSE "owned"
  <2>1. call' = [call EXCEPT ![t] = [@ EXCEPT !.pc = next, !.answer = "timeout"]] /\ call[t].pc = "polled" /\ UNCHANGED <<opt, eta, handle, os>>
    BY <1>6 DEF TimedOut
  <2>2. [call[t] EXCEPT !.pc = next, !.answer = "timeout"] \in Calls
    BY <1>1 DEF Calls, Pcs, Running, InRun, InSpawn, Answers
  <2> QED BY <1>1, <1>2, <2>1, <2>2, MovesOn DEF Calls, Running, InRun, InSpawn
<1>7. CASE WaitBegin(t)
  <2>1. call' = [call EXCEPT ![t] = [@ EXCEPT !.pc = "wait", !.late = FALSE]] /\ call[t].pc = "owned" /\ UNCHANGED <<opt, eta, handle, os>>
    BY <1>7 DEF WaitBegin, Owned
  <2>2. [call[t] EXCEPT !.pc = "wait", !.late = FALSE] \in Calls
    BY <1>1 DEF Calls, Pcs, Running
  <2> QED BY <1>1, <1>2, <2>1, <2>2, MovesOn DEF Calls, Running, InRun, InSpawn
<1>8. CASE PortBegins(t)
  <2>1. PICK pc \in {"write", "read"} : call' = [call EXCEPT ![t] = [@ EXCEPT !.pc = pc]] /\ call[t].pc = "owned" /\ UNCHANGED <<opt, eta, handle, os>>
    BY <1>8 DEF PortBegins, Goto
  <2>2. [call[t] EXCEPT !.pc = pc] \in Calls
    BY <1>1 DEF Calls, Pcs, Running, InSpawn
  <2>3. opt[t].kind = "spawn"
    BY <2>1 DEF CallOK, InSpawn
  <2> QED BY <1>1, <1>2, <2>1, <2>2, <2>3, MovesOn DEF Calls, Running, InRun, InSpawn
<1> QED BY <1>3, <1>4, <1>5, <1>6, <1>7, <1>8

-----------------------------------------------------------------------------
\* The error pipe has ended without an errno: the child has become the program.
LEMMA ReadSpawnErrorKeeps ==
  ASSUME CallsInv, NEW t \in Thread, ReadSpawnError(t) PROVE CallsInv'
<1> USE DEF CallsInv
<1> DEFINE pc == IF opt[t].kind = "run" THEN "wait" ELSE "owned"
           w == opt[t].stdin = "data"
           r == opt[t].stdout = "capture"
           c == [call[t] EXCEPT !.pc = pc, !.left = opt[t].input, !.writer = w, !.reader = r]
<1>1. /\ call' = [call EXCEPT ![t] = c] /\ call[t].pc = "closed"
      /\ handle' = [handle EXCEPT ![t] = [@ EXCEPT !.pid = TRUE]]
      /\ holds' = [holds EXCEPT ![Eta] = @ \ {<<t, "err", "read">>}]
      /\ UNCHANGED <<opt, eta, proc, status, bytes, produced>>
      /\ bytes[<<t, "err">>] = 0 /\ ~HasWriter(t, "err")
  BY DEF ReadSpawnError, Started
<1>2. opt[t].input \in Int /\ pc \in Pcs /\ w \in BOOLEAN /\ r \in BOOLEAN /\ opt[t].kind \in {"run", "spawn"}
  BY Typed DEF Option, Pcs, Running, InSpawn
<1>3. pc = IF opt[t].kind = "run" THEN "wait" ELSE "owned"
  OBVIOUS
<1>4. r <=> opt[t].stdout = "capture"
  OBVIOUS
<1> HIDE DEF pc, w, r
<1>5. c \in Calls /\ c.pc = pc /\ c.answer = call[t].answer /\ c.got = call[t].got /\ c.reader = r
  BY <1>2, Typed DEF Calls
<1> HIDE DEF c
<1>6. /\ holds'[Eta] = holds[Eta] \ {<<t, "err", "read">>}
      /\ \A p \in Process : holds'[p] = holds[p]
      /\ <<t, "err", "read">> \in AllEnds(t)
      /\ holds' \in [Holders -> SUBSET PipeEnds]
  BY <1>1, Typed, Apart DEF TypeOK, Holders, AllEnds, Streams
<1>7. /\ handle' \in [Thread -> Handles]
      /\ handle'[t].pid /\ handle'[t].waited = handle[t].waited /\ handle'[t].exit_code = handle[t].exit_code
      /\ \A u \in Thread \ {t} : handle'[u] = handle[u]
  BY <1>1 DEF TypeOK, Handles
<1>8. call' \in [Thread -> Calls] /\ call'[t] = c /\ \A u \in Thread \ {t} : call'[u] = call[u]
  BY <1>1, <1>5 DEF TypeOK
<1>9. TypeOK'
  BY <1>1, <1>6, <1>7, <1>8 DEF TypeOK
<1>10. OnlyOf(t)
  BY ZenonT(60), <1>1, <1>6, <1>7, <1>8, OwnEnds DEF OnlyOf
<1>11. proc[Child(t)] \in {"running", "zombie"} /\ status[t] # "not-started"
  <2>1. ASSUME proc[Child(t)] = "forked" PROVE FALSE
    <3>1. <<t, "err", "cloexec">> \in holds[Child(t)] /\ Child(t) \in Holders
      BY <2>1, Typed DEF ChildOK
    <3> QED BY <1>1, <3>1 DEF HasWriter
  <2>2. proc[Child(t)] \in {"none", "forked", "running", "zombie", "gone"}
    BY Typed
  <2>3. proc[Child(t)] \notin {"none", "gone"}
    BY <1>1 DEF CallOK, Forking
  <2>4. status[t] # "not-started"
    <3>1. ~(bytes[<<t, "err">>] > 0)
      BY <1>1
    <3> QED BY <3>1 DEF ChildOK
  <2> QED BY <2>1, <2>2, <2>3, <2>4
<1>12. ChildOK(t)' /\ CallOK(t)' /\ HandleOK(t)' /\ CleanOK(t)'
  <2>1. ~handle[t].waited
    BY <1>1 DEF CallOK, Forking
  <2> QED BY SMTT(30), <1>1, <1>2, <1>3, <1>5, <1>6, <1>7, <1>8, <1>11, <2>1
          DEF ChildOK, CallOK, HandleOK, CleanOK, Starting0, Forking, Running, InRun, InSpawn
<1>13. OutputOK(t)'
  <2>1. call[t].answer # "ok"
    BY <1>1 DEF OutputOK
  <2> QED BY <1>1, <1>4, <1>5, <1>8, <2>1 DEF OutputOK, Capturing
<1> QED BY <1>9, <1>10, <1>12, <1>13, Frame DEF Good

\* The child becomes the program, or does not.
LEMMA StartingKeeps ==
  ASSUME CallsInv, NEW t \in Thread, Starting(t) PROVE CallsInv'
<1> USE DEF CallsInv
<1>1. proc[Child(t)] = "forked" /\ call[t].pc \notin Starting0 \cup Running /\ UNCHANGED <<opt, eta, call, handle, produced>>
  BY DEF Starting, ChildExecs, ChildFails, CallOK
<1>2. ~handle[t].pid /\ ~handle[t].waited
  BY <1>1 DEF HandleOK
<1>3. PICK E \in SUBSET holds[Child(t)] : holds' = [holds EXCEPT ![Child(t)] = E]
  BY DEF Starting, ChildExecs, ChildFails
<1>4. /\ holds' \in [Holders -> SUBSET PipeEnds]
      /\ \A p \in Holders \ {Child(t)} : holds'[p] = holds[p]
      /\ holds'[Child(t)] \subseteq holds[Child(t)]
  BY <1>3, Typed DEF TypeOK
<1>5. \A u \in Thread : HasWriter(u, "stdout")' => HasWriter(u, "stdout")
  BY <1>4, NoNewWriter
<1>6. CASE ChildExecs(t)
  <2>1. proc' = [proc EXCEPT ![Child(t)] = "running"] /\ UNCHANGED <<status, bytes>>
    BY <1>6 DEF ChildExecs
  <2>2. TypeOK' /\ proc'[Child(t)] = "running"
    BY <1>1, <1>4, <2>1, Typed DEF TypeOK
  <2>3. OnlyOf(t)
    BY <1>1, <1>4, <1>5, <2>1, Apart, Typed DEF OnlyOf, TypeOK
  <2>4. Good(t)'
    BY <1>1, <1>2, <1>4, <1>5, <2>1, <2>2, Apart, Typed DEF Good, ChildOK, CallOK, HandleOK, CleanOK, OutputOK, Capturing, Drained, Starting0, Forking, Running
  <2> QED BY <2>2, <2>3, <2>4, Frame
<1>7. CASE ChildFails(t)
  <2>1. /\ proc' = [proc EXCEPT ![Child(t)] = "zombie"]
        /\ status' = [status EXCEPT ![t] = "not-started"]
        /\ bytes' = [bytes EXCEPT ![<<t, "err">>] = 1]
    BY <1>7 DEF ChildFails
  <2>2. TypeOK' /\ proc'[Child(t)] = "zombie"
    BY <1>1, <1>4, <2>1, Typed DEF TypeOK, Statuses
  <2>3. OnlyOf(t)
    BY <1>1, <1>4, <1>5, <2>1, Apart, Typed DEF OnlyOf, TypeOK, Streams
  <2>4. bytes'[<<t, "err">>] = 1 /\ bytes'[<<t, "stdout">>] = bytes[<<t, "stdout">>] /\ status'[t] = "not-started"
    BY <2>1 DEF TypeOK, Streams
  <2>5. Good(t)'
    BY <1>1, <1>2, <1>4, <1>5, <2>2, <2>4, Apart, Typed DEF Good, ChildOK, CallOK, HandleOK, CleanOK, OutputOK, Capturing, Drained, Starting0, Forking, Running
  <2> QED BY <2>2, <2>3, <2>5, Frame
<1> QED BY <1>6, <1>7 DEF Starting

-----------------------------------------------------------------------------
(* The I/O threads of a run and the ports of a spawn. *)

\* A pipe other than the error pipe gains or loses a unit.
LEMMA OnePipe ==
  ASSUME CallsInv, NEW t \in Thread, NEW s \in {"stdin", "stdout"}, NEW n \in Nat,
         bytes' = [bytes EXCEPT ![<<t, s>>] = n]
  PROVE  /\ bytes' \in [Thread \X Streams -> Nat]
         /\ bytes'[<<t, s>>] = n
         /\ \A z \in Streams \ {s} : bytes'[<<t, z>>] = bytes[<<t, z>>]
         /\ \A u \in Thread \ {t}, z \in Streams : bytes'[<<u, z>>] = bytes[<<u, z>>]
BY DEF CallsInv, TypeOK, Streams

\* The process closes ends of one stream.
LEMMA ClosesEnds ==
  ASSUME CallsInv, NEW t \in Thread, NEW s \in Streams,
         holds' = [holds EXCEPT ![Eta] = @ \ Ends(t, s)]
  PROVE  /\ holds' \in [Holders -> SUBSET PipeEnds]
         /\ holds'[Eta] \subseteq holds[Eta]
         /\ <<t, "err", "cloexec">> \in holds[Eta] => <<t, "err", "cloexec">> \in holds'[Eta]
         /\ \A p \in Process : holds'[p] = holds[p]
         /\ HasWriter(t, "stdout")' => HasWriter(t, "stdout")
         /\ \A u \in Thread \ {t} :
              /\ holds'[Child(u)] = holds[Child(u)]
              /\ holds'[Eta] \cap AllEnds(u) = holds[Eta] \cap AllEnds(u)
              /\ HasWriter(u, "stdout")' => HasWriter(u, "stdout")
<1>1. /\ holds' \in [Holders -> SUBSET PipeEnds]
      /\ holds'[Eta] = holds[Eta] \ Ends(t, s)
      /\ \A p \in Process : holds'[p] = holds[p]
  BY Typed, Apart DEF CallsInv, TypeOK, Holders
<1>2. Ends(t, s) \subseteq AllEnds(t) /\ <<t, "err", "cloexec">> \notin Ends(t, s)
  BY DEF Ends, AllEnds
<1>3. HasWriter(t, "stdout")' => HasWriter(t, "stdout")
  BY <1>1, NoNewWriter DEF Holders
<1> QED BY <1>1, <1>2, <1>3, OwnEnds DEF CallsInv

LEMMA WriterWritesKeeps ==
  ASSUME CallsInv, NEW t \in Thread, WriterWrites(t) PROVE CallsInv'
<1> DEFINE c == [call[t] EXCEPT !.left = @ - 1]
           n == bytes[<<t, "stdin">>] + 1
<1>1. /\ call' = [call EXCEPT ![t] = c] /\ bytes' = [bytes EXCEPT ![<<t, "stdin">>] = n]
      /\ UNCHANGED <<opt, eta, handle, proc, status, holds, produced>>
  BY DEF WriterWrites
<1>2. /\ c \in Calls /\ c.pc = call[t].pc /\ c.got = call[t].got
      /\ c.reader = call[t].reader /\ c.answer = call[t].answer
  BY Typed DEF CallsInv, Calls
<1>7. n \in Nat
  <2>1. bytes[<<t, "stdin">>] \in Nat
    BY Typed DEF CallsInv, Streams
  <2> QED BY <2>1
<1> HIDE DEF c, n
<1> USE DEF CallsInv
<1>3. TypeOK' /\ call'[t] = c /\ \A u \in Thread \ {t} : call'[u] = call[u]
  BY <1>1, <1>2, <1>7, OnePipe DEF TypeOK
<1>4. OnlyOf(t)
  BY <1>1, <1>2, <1>7, <1>3, OnePipe, SameEnds DEF OnlyOf
<1>5. ChildOK(t)' /\ CallOK(t)' /\ HandleOK(t)' /\ CleanOK(t)'
  BY <1>1, <1>2, <1>7, <1>3, OnePipe DEF ChildOK, CallOK, HandleOK, CleanOK, Streams
<1>6. OutputOK(t)'
  BY <1>1, <1>2, <1>7, <1>3, OnePipe, SameEnds DEF OutputOK, Capturing, Drained, Streams
<1> QED BY <1>3, <1>4, <1>5, <1>6, Frame DEF Good

\* An I/O thread that ends and closes its pipe: the reader only at its end.
LEMMA IoEnds ==
  ASSUME CallsInv, NEW t \in Thread, NEW s \in {"stdin", "stdout"}, NEW c \in Calls,
         call' = [call EXCEPT ![t] = c],
         c.pc = call[t].pc, c.got = call[t].got, c.answer = call[t].answer,
         Capturing(t) => c.reader = call[t].reader \/ Drained(t),
         holds' = [holds EXCEPT ![Eta] = @ \ Ends(t, s)],
         eta' \in {"default", "ignored", "killed"},
         UNCHANGED <<opt, handle, proc, status, bytes, produced>>
  PROVE  CallsInv'
<1> USE DEF CallsInv
<1>0. s \in Streams
  BY DEF Streams
<1>1. TypeOK' /\ call'[t] = c /\ \A u \in Thread \ {t} : call'[u] = call[u]
  BY <1>0, ClosesEnds DEF TypeOK
<1>2. OnlyOf(t)
  BY <1>0, <1>1, ClosesEnds DEF OnlyOf
<1>5. /\ holds'[Eta] \subseteq holds[Eta] /\ holds'[Child(t)] = holds[Child(t)]
      /\ <<t, "err", "cloexec">> \in holds[Eta] => <<t, "err", "cloexec">> \in holds'[Eta]
      /\ HasWriter(t, "stdout")' => HasWriter(t, "stdout")
  BY <1>0, ClosesEnds, Apart
<1>3. ChildOK(t)' /\ CallOK(t)' /\ HandleOK(t)' /\ CleanOK(t)'
  BY <1>1, <1>5 DEF ChildOK, CallOK, HandleOK, CleanOK
<1>4. OutputOK(t)'
  BY <1>1, <1>5 DEF OutputOK, Capturing, Drained
<1> QED BY <1>1, <1>2, <1>3, <1>4, Frame DEF Good

LEMMA WriterEndsKeeps ==
  ASSUME CallsInv, NEW t \in Thread, WriterEnds(t) PROVE CallsInv'
<1> DEFINE c == [call[t] EXCEPT !.writer = FALSE]
<1>1. c \in Calls /\ c.pc = call[t].pc /\ c.got = call[t].got /\ c.answer = call[t].answer /\ c.reader = call[t].reader
  BY Typed DEF CallsInv, Calls
<1>2. call' = [call EXCEPT ![t] = c] /\ holds' = [holds EXCEPT ![Eta] = @ \ Ends(t, "stdin")]
  BY DEF WriterEnds
<1>3. eta' \in {"default", "ignored", "killed"} /\ UNCHANGED <<opt, handle, proc, status, bytes, produced>>
  BY DEF WriterEnds, BrokenPipe, CallsInv, TypeOK
<1> HIDE DEF c
<1> QED BY <1>1, <1>2, <1>3, IoEnds

LEMMA ReaderEndsKeeps ==
  ASSUME CallsInv, NEW t \in Thread, ReaderEnds(t) PROVE CallsInv'
<1> DEFINE c == [call[t] EXCEPT !.reader = FALSE]
<1>1. c \in Calls /\ c.pc = call[t].pc /\ c.got = call[t].got /\ c.answer = call[t].answer
  BY Typed DEF CallsInv, Calls
<1>2. /\ call' = [call EXCEPT ![t] = c] /\ holds' = [holds EXCEPT ![Eta] = @ \ Ends(t, "stdout")]
      /\ Drained(t) /\ UNCHANGED <<opt, eta, handle, proc, status, bytes, produced>>
  BY DEF ReaderEnds, Drained
<1>3. eta' \in {"default", "ignored", "killed"}
  BY <1>2 DEF CallsInv, TypeOK
<1> HIDE DEF c
<1> QED BY <1>1, <1>2, <1>3, IoEnds

\* What the reader takes from the pipe it has got.
LEMMA ReaderReadsKeeps ==
  ASSUME CallsInv, NEW t \in Thread, ReaderReads(t) PROVE CallsInv'
<1> DEFINE c == [call[t] EXCEPT !.got = @ + 1]
           n == bytes[<<t, "stdout">>] - 1
<1>1. /\ call' = [call EXCEPT ![t] = c] /\ bytes' = [bytes EXCEPT ![<<t, "stdout">>] = n]
      /\ bytes[<<t, "stdout">>] > 0 /\ call[t].reader
      /\ UNCHANGED <<opt, eta, handle, proc, status, holds, produced>>
  BY DEF ReaderReads
<1>2. /\ c \in Calls /\ c.pc = call[t].pc /\ c.got = call[t].got + 1 /\ c.reader = call[t].reader
      /\ c.answer = call[t].answer
  BY Typed DEF CallsInv, Calls
<1>3. n \in Nat /\ n = bytes[<<t, "stdout">>] - 1 /\ bytes[<<t, "stdout">>] \in Nat /\ call[t].got \in Nat
  <2>1. bytes[<<t, "stdout">>] \in Nat
    BY Typed DEF CallsInv, Streams
  <2>2. call[t].got \in Nat
    BY Typed DEF CallsInv, Calls
  <2> QED BY <1>1, <2>1, <2>2
<1> HIDE DEF c, n
<1> USE DEF CallsInv
<1>4. TypeOK' /\ call'[t] = c /\ \A u \in Thread \ {t} : call'[u] = call[u]
  BY <1>1, <1>2, <1>3, OnePipe DEF TypeOK
<1>5. OnlyOf(t)
  BY <1>1, <1>3, <1>4, OnePipe, SameEnds DEF OnlyOf
<1>6. ChildOK(t)' /\ CallOK(t)' /\ HandleOK(t)' /\ CleanOK(t)'
  BY SMTT(30), <1>1, <1>2, <1>3, <1>4, OnePipe DEF ChildOK, CallOK, HandleOK, CleanOK, Streams
<1>7. OutputOK(t)'
  <2>1. bytes'[<<t, "stdout">>] = n
    BY <1>1, <1>3, OnePipe
  <2>2. produced'[t] = produced[t] /\ produced[t] \in Nat
    BY <1>1 DEF TypeOK
  <2>3. ~Drained(t)
    BY <1>1, <1>3 DEF Drained
  <2>4. produced[t] = call[t].got + bytes[<<t, "stdout">>] => produced'[t] = call'[t].got + bytes'[<<t, "stdout">>]
    BY <1>2, <1>3, <1>4, <2>1, <2>2
  <2> QED BY <1>1, <1>2, <1>4, <2>3, <2>4 DEF OutputOK, Capturing
<1> QED BY <1>4, <1>5, <1>6, <1>7, Frame DEF Good

\* Nothing is said of the output of a spawn, and it has not answered "ok".
LEMMA OfSpawn ==
  ASSUME CallsInv, NEW t \in Thread, call[t].pc \in InSpawn, UNCHANGED opt,
         call'[t].answer = call[t].answer
  PROVE  opt[t].kind = "spawn" /\ OutputOK(t)'
BY DEF CallsInv, CallOK, OutputOK, Capturing, InSpawn

\* A port's write or read, and a close, only ever on the pipes of a spawn.
LEMMA PortWritesKeeps ==
  ASSUME CallsInv, NEW t \in Thread, PortWrites(t) PROVE CallsInv'
<1> USE DEF CallsInv
<1> DEFINE c == [call[t] EXCEPT !.pc = "owned", !.left = @ - 1]
<1>1. /\ call' = [call EXCEPT ![t] = c] /\ call[t].pc = "write"
      /\ UNCHANGED <<opt, handle, proc, status, holds, produced>>
  BY DEF PortWrites
<1>2. c \in Calls /\ c.pc = "owned" /\ c.answer = call[t].answer
  <2>1. call[t] \in Calls /\ "owned" \in Pcs
    BY Typed DEF Pcs, Running, InSpawn
  <2>2. \A n \in Int : [call[t] EXCEPT !.pc = "owned", !.left = n] \in Calls
    BY <2>1 DEF Calls
  <2>3. call[t].left - 1 \in Int
    BY <2>1 DEF Calls
  <2>4. c.pc = "owned" /\ c.answer = call[t].answer
    BY <2>1 DEF Calls
  <2> QED BY <2>2, <2>3, <2>4
<1>3. PICK n \in Nat : bytes' = [bytes EXCEPT ![<<t, "stdin">>] = n]
  <2>1. bytes[<<t, "stdin">>] \in Nat
    BY Typed DEF Streams
  <2>2. bytes = [bytes EXCEPT ![<<t, "stdin">>] = bytes[<<t, "stdin">>]]
    BY DEF TypeOK
  <2>3. bytes' = bytes \/ bytes' = [bytes EXCEPT ![<<t, "stdin">>] = bytes[<<t, "stdin">>] + 1]
    BY DEF PortWrites
  <2> QED BY <2>1, <2>2, <2>3
<1>4. eta' \in {"default", "ignored", "killed"}
  BY DEF PortWrites, BrokenPipe, TypeOK
<1> HIDE DEF c
<1>5. TypeOK' /\ call'[t] = c /\ \A u \in Thread \ {t} : call'[u] = call[u]
  BY <1>1, <1>2, <1>3, <1>4, OnePipe DEF TypeOK
<1>6. OnlyOf(t)
  BY <1>1, <1>3, <1>5, OnePipe, SameEnds DEF OnlyOf
<1>7. ChildOK(t)' /\ CallOK(t)' /\ HandleOK(t)' /\ CleanOK(t)'
  BY <1>1, <1>2, <1>3, <1>5, OnePipe DEF ChildOK, CallOK, HandleOK, CleanOK, Streams, Starting0, Forking, Running, InRun, InSpawn
<1>8. OutputOK(t)'
  BY <1>1, <1>2, <1>5, OfSpawn DEF InSpawn
<1> QED BY <1>5, <1>6, <1>7, <1>8, Frame DEF Good

LEMMA PortReadsKeeps ==
  ASSUME CallsInv, NEW t \in Thread, PortReads(t) PROVE CallsInv'
<1> USE DEF CallsInv
<1> DEFINE c == [call[t] EXCEPT !.pc = "owned"]
<1>1. /\ call' = [call EXCEPT ![t] = c] /\ call[t].pc = "read"
      /\ UNCHANGED <<opt, eta, handle, proc, status, holds, produced>>
  BY DEF PortReads, Goto
<1>2. /\ c \in Calls /\ c.pc = "owned" /\ c.answer = call[t].answer
  BY Typed DEF Calls, Pcs, Running, InSpawn
<1>3. PICK n \in Nat : bytes' = [bytes EXCEPT ![<<t, "stdout">>] = n]
  <2>1. bytes[<<t, "stdout">>] \in Nat
    BY Typed DEF Streams
  <2>2. bytes = [bytes EXCEPT ![<<t, "stdout">>] = bytes[<<t, "stdout">>]]
    BY DEF TypeOK
  <2>3. bytes' = bytes \/ (bytes[<<t, "stdout">>] > 0 /\ bytes' = [bytes EXCEPT ![<<t, "stdout">>] = bytes[<<t, "stdout">>] - 1])
    BY DEF PortReads
  <2> QED BY <2>1, <2>2, <2>3
<1> HIDE DEF c
<1>5. TypeOK' /\ call'[t] = c /\ \A u \in Thread \ {t} : call'[u] = call[u]
  BY <1>1, <1>2, <1>3, OnePipe DEF TypeOK
<1>6. OnlyOf(t)
  BY <1>1, <1>3, <1>5, OnePipe, SameEnds DEF OnlyOf
<1>7. ChildOK(t)' /\ CallOK(t)' /\ HandleOK(t)' /\ CleanOK(t)'
  BY <1>1, <1>2, <1>3, <1>5, OnePipe DEF ChildOK, CallOK, HandleOK, CleanOK, Streams, Starting0, Forking, Running, InRun, InSpawn
<1>8. OutputOK(t)'
  BY <1>1, <1>2, <1>5, OfSpawn DEF InSpawn
<1> QED BY <1>5, <1>6, <1>7, <1>8, Frame DEF Good

LEMMA ClosePortKeeps ==
  ASSUME CallsInv, NEW t \in Thread, ClosePort(t) PROVE CallsInv'
<1> USE DEF CallsInv
<1>1. PICK s \in {"stdin", "stdout"} : holds' = [holds EXCEPT ![Eta] = @ \ Ends(t, s)]
  BY DEF ClosePort
<1>2. call[t].pc = "owned" /\ UNCHANGED <<opt, eta, call, handle, proc, status, bytes, produced>> /\ s \in Streams
  BY DEF ClosePort, Owned, Streams
<1>3. TypeOK' /\ OnlyOf(t)
  BY <1>1, <1>2, ClosesEnds DEF TypeOK, OnlyOf
<1>4. ChildOK(t)' /\ CallOK(t)' /\ HandleOK(t)' /\ CleanOK(t)'
  <2>1. holds'[Eta] \subseteq holds[Eta] /\ holds'[Child(t)] = holds[Child(t)]
    BY <1>1, <1>2, ClosesEnds, Apart
  <2> QED BY <1>2, <2>1 DEF ChildOK, CallOK, HandleOK, CleanOK
<1>5. OutputOK(t)'
  BY <1>2, OfSpawn DEF InSpawn
<1> QED BY <1>3, <1>4, <1>5, Frame DEF Good

-----------------------------------------------------------------------------
(* waitpid and kill. *)

\* The child was waited for: its handle says how it ended, and its id is gone.
LEMMA Reaps ==
  ASSUME CallsInv, NEW t \in Thread, Reap(t), handle[t].pid,
         NEW c \in Calls, call' = [call EXCEPT ![t] = c],
         call[t].pc \in Running \ {"join"}, c.pc \in {"join", "owned"},
         c.pc = "join" => opt[t].kind = "run", c.pc = "owned" => opt[t].kind = "spawn",
         c.got = call[t].got, c.answer = call[t].answer, c.reader = call[t].reader,
         UNCHANGED <<opt, eta, status, holds, bytes, produced>>
  PROVE  CallsInv'
<1> USE DEF CallsInv
<1>1. call' \in [Thread -> Calls] /\ call'[t] = c /\ \A u \in Thread \ {t} : call'[u] = call[u]
  BY DEF TypeOK
<1>2. /\ handle' \in [Thread -> Handles]
      /\ ~handle'[t].pid /\ handle'[t].waited /\ handle'[t].exit_code = status[t]
      /\ \A u \in Thread \ {t} : handle'[u] = handle[u]
  BY DEF Reap, TypeOK, Handles
<1>3. /\ proc[Child(t)] = "zombie" /\ proc'[Child(t)] = "gone"
      /\ proc' \in [Process -> {"none", "forked", "running", "zombie", "gone"}]
      /\ \A u \in Thread \ {t} : proc'[Child(u)] = proc[Child(u)]
  BY Apart DEF Reap, TypeOK
<1>4. TypeOK'
  BY <1>1, <1>2, <1>3 DEF TypeOK
<1>5. OnlyOf(t)
  BY <1>1, <1>2, <1>3, SameEnds DEF OnlyOf
<1>6. ChildOK(t)' /\ HandleOK(t)' /\ CleanOK(t)'
  BY <1>1, <1>2, <1>3 DEF ChildOK, HandleOK, CleanOK, CallOK
<1>7. CallOK(t)'
  BY <1>1, <1>2, <1>3 DEF ChildOK, CallOK, Starting0, Forking, Running, InRun, InSpawn
<1>8. OutputOK(t)'
  BY <1>1, SameEnds DEF OutputOK, Capturing, Drained, Running, InRun, InSpawn
<1> QED BY <1>4, <1>5, <1>6, <1>7, <1>8, Frame DEF Good

LEMMA ReapsKeep ==
  ASSUME CallsInv, NEW t \in Thread, WaitReaps(t) \/ Probe(t) PROVE CallsInv'
<1> USE DEF CallsInv
<1>1. call[t] \in Calls /\ opt[t].kind \in {"run", "spawn"}
  BY Typed DEF Option
<1>2. CASE WaitReaps(t)
  <2> DEFINE c == [call[t] EXCEPT !.pc = AfterWait(t)]
  <2>1. /\ call' = [call EXCEPT ![t] = c] /\ call[t].pc \in {"wait", "reap"} /\ handle[t].pid /\ Reap(t)
        /\ UNCHANGED <<opt, eta, status, holds, bytes, produced>>
    BY <1>2 DEF WaitReaps, Goto
  <2>2. /\ c \in Calls /\ c.pc = AfterWait(t) /\ c.got = call[t].got
        /\ c.answer = call[t].answer /\ c.reader = call[t].reader
    BY <1>1 DEF Calls, AfterWait, Pcs, Running, InRun, InSpawn
  <2>3. /\ AfterWait(t) \in {"join", "owned"}
        /\ AfterWait(t) = "join" => opt[t].kind = "run"
        /\ AfterWait(t) = "owned" => opt[t].kind = "spawn"
    BY <1>1 DEF AfterWait
  <2> HIDE DEF c
  <2> QED BY <2>1, <2>2, <2>3, Reaps DEF Running, InRun
<1>3. CASE Probe(t)
  <2>1. /\ call[t].pc = "owned" /\ handle[t].pid /\ Reap(t)
        /\ UNCHANGED <<opt, eta, call, status, holds, bytes, produced>>
    BY <1>3 DEF Probe, Owned
  <2>2. call' = [call EXCEPT ![t] = call[t]]
    BY <2>1 DEF TypeOK
  <2>3. opt[t].kind = "spawn"
    BY <2>1 DEF CallOK, InSpawn
  <2> QED BY <1>1, <2>1, <2>2, <2>3, Reaps DEF Running, InSpawn
<1> QED BY <1>2, <1>3

\* A signal reaches the child of this call or nobody, and moves the call on.
LEMMA SignalKeeps ==
  ASSUME CallsInv, NEW t \in Thread, Signal(t),
         NEW c \in Calls, call' = [call EXCEPT ![t] = c],
         call[t].pc \in Running \ {"join"}, c.pc \in {"reap", "owned"},
         c.pc = "reap" => opt[t].kind = "run", c.pc = "owned" => opt[t].kind = "spawn",
         c.got = call[t].got, c.answer = call[t].answer, c.reader = call[t].reader,
         UNCHANGED <<opt, eta, handle, bytes, produced>>
  PROVE  CallsInv'
<1> USE DEF CallsInv
<1>1. call' \in [Thread -> Calls] /\ call'[t] = c /\ \A u \in Thread \ {t} : call'[u] = call[u]
  BY DEF TypeOK
<1>2. CASE UNCHANGED <<proc, status, holds>>
  <2>1. UNCHANGED os
    BY <1>2 DEF os
  <2>2. eta' \in {"default", "ignored", "killed"} /\ call[t].pc \in Running /\ c.pc \in Running \ {"join"}
    BY DEF TypeOK, Running, InRun, InSpawn
  <2>3. c.answer # "ok"
    BY DEF OutputOK, Running, InRun, InSpawn
  <2>4. (c.pc \in InRun => opt[t].kind = "run") /\ (c.pc \in InSpawn => opt[t].kind = "spawn")
    BY DEF InRun, InSpawn
  <2> QED BY <2>1, <2>2, <2>3, <2>4, MovesOn
<1>3. CASE proc[Child(t)] = "running" /\ Dies(t, "killed")
  <2>1. /\ \A p \in Holders \ {Child(t)} : holds'[p] = holds[p]
        /\ holds'[Child(t)] = {} /\ holds' \in [Holders -> SUBSET PipeEnds]
    BY <1>3, Typed DEF Dies, TypeOK
  <2>2. \A u \in Thread : HasWriter(u, "stdout")' => HasWriter(u, "stdout")
    BY <2>1, NoNewWriter
  <2>3. /\ proc' \in [Process -> {"none", "forked", "running", "zombie", "gone"}]
        /\ proc'[Child(t)] = "zombie" /\ \A u \in Thread \ {t} : proc'[Child(u)] = proc[Child(u)]
    BY <1>3, Apart DEF Dies, TypeOK
  <2>4. status' \in [Thread -> Statuses] /\ status'[t] = "killed" /\ \A u \in Thread \ {t} : status'[u] = status[u]
    BY <1>3 DEF Dies, TypeOK, Statuses
  <2>5. TypeOK'
    BY <1>1, <2>1, <2>3, <2>4 DEF TypeOK
  <2>6. OnlyOf(t)
    BY <1>1, <2>1, <2>2, <2>3, <2>4, Apart, Typed DEF OnlyOf
  <2>7. ChildOK(t)' /\ HandleOK(t)' /\ CleanOK(t)'
    BY <1>1, <1>3, <2>3, <2>4 DEF ChildOK, HandleOK, CleanOK, CallOK
  <2>8. CallOK(t)'
    BY <1>1, <1>3, <2>3, <2>4 DEF CallOK, Starting0, Forking, Running, InRun, InSpawn
  <2>9. OutputOK(t)'
    BY <1>1, <2>2 DEF OutputOK, Capturing, Drained, Running, InRun, InSpawn
  <2> QED BY <2>5, <2>6, <2>7, <2>8, <2>9, Frame DEF Good
<1> QED BY <1>2, <1>3 DEF Signal

LEMMA SignalsKeep ==
  ASSUME CallsInv, NEW t \in Thread, KillTimedOut(t) \/ KillBySignal(t) PROVE CallsInv'
<1> USE DEF CallsInv
<1>1. call[t] \in Calls
  BY Typed
<1>2. CASE KillTimedOut(t)
  <2> DEFINE c == [call[t] EXCEPT !.pc = "reap"]
  <2>1. /\ call' = [call EXCEPT ![t] = c] /\ call[t].pc = "kill" /\ Signal(t)
        /\ UNCHANGED <<opt, eta, handle, bytes, produced>>
    BY <1>2 DEF KillTimedOut, Goto
  <2>2. /\ c \in Calls /\ c.pc = "reap" /\ c.got = call[t].got
        /\ c.answer = call[t].answer /\ c.reader = call[t].reader
    BY <1>1 DEF Calls, Pcs, Running, InRun
  <2>3. opt[t].kind = "run"
    BY <2>1 DEF CallOK, InRun
  <2> HIDE DEF c
  <2> QED BY <2>1, <2>2, <2>3, SignalKeeps DEF Running, InRun
<1>3. CASE KillBySignal(t)
  <2>1. /\ call[t].pc = "owned" /\ Signal(t)
        /\ UNCHANGED <<opt, eta, call, handle, bytes, produced>>
    BY <1>3 DEF KillBySignal, Owned
  <2>2. call' = [call EXCEPT ![t] = call[t]]
    BY <2>1 DEF TypeOK
  <2>3. opt[t].kind = "spawn"
    BY <2>1 DEF CallOK, InSpawn
  <2> QED BY <1>1, <2>1, <2>2, <2>3, SignalKeeps DEF Running, InSpawn
<1> QED BY <1>2, <1>3

-----------------------------------------------------------------------------
(* The programs that were started. *)

\* A program reads, writes, closes, forks or ends; calls and handles stay.
LEMMA ProgramStepsKeep ==
  ASSUME CallsInv, NEW t \in Thread, NEW p \in {Child(t), Heir(t)}, ProgramSteps(p)
  PROVE  CallsInv'
<1> USE DEF CallsInv
<1>1. /\ p[1] = t /\ p \in Process /\ p \in Holders /\ p # Eta /\ proc[p] = "running"
      /\ UNCHANGED <<opt, eta, call, handle>>
  <2>1. p \in Process /\ p \in Holders /\ p # Eta
    BY Apart DEF Holders
  <2>2. p[1] = t
    BY DEF Child, Heir
  <2> QED BY <2>1, <2>2 DEF ProgramSteps
<1>2. CASE Takes(p)
  <2>1. PICK n \in Nat : bytes' = [bytes EXCEPT ![<<t, "stdin">>] = n]
    <3>1. bytes[<<t, "stdin">>] \in Nat
      BY Typed DEF Streams
    <3>2. bytes[<<t, "stdin">>] > 0 /\ bytes' = [bytes EXCEPT ![<<t, "stdin">>] = bytes[<<t, "stdin">>] - 1]
      BY <1>1, <1>2 DEF Takes
    <3>3. bytes[<<t, "stdin">>] - 1 \in Nat
      BY <3>1, <3>2
    <3> QED BY <3>2, <3>3
  <2>2. UNCHANGED <<proc, status, holds, produced>>
    BY <1>2 DEF Takes
  <2>3. TypeOK'
    BY <1>1, <2>1, <2>2, OnePipe DEF TypeOK
  <2>4. OnlyOf(t)
    BY <1>1, <2>1, <2>2, OnePipe, SameEnds DEF OnlyOf
  <2>5. ChildOK(t)' /\ CallOK(t)' /\ HandleOK(t)' /\ CleanOK(t)'
    BY <1>1, <2>1, <2>2, OnePipe DEF ChildOK, CallOK, HandleOK, CleanOK, Streams
  <2>6. OutputOK(t)'
    BY <1>1, <2>1, <2>2, OnePipe, SameEnds DEF OutputOK, Capturing, Drained, Streams
  <2> QED BY <2>3, <2>4, <2>5, <2>6, Frame DEF Good
<1>3. CASE Writes(p)
  <2>1. /\ bytes' = [bytes EXCEPT ![<<t, "stdout">>] = @ + 1]
        /\ produced' = [produced EXCEPT ![t] = @ + 1]
        /\ <<t, "stdout", "write">> \in holds[p]
        /\ UNCHANGED <<proc, status, holds>>
    BY <1>1, <1>3 DEF Writes
  <2>2. bytes[<<t, "stdout">>] \in Nat /\ produced[t] \in Nat /\ call[t].got \in Nat
    <3>1. bytes[<<t, "stdout">>] \in Nat
      BY Typed DEF Streams
    <3> QED BY <3>1, Typed DEF TypeOK, Calls
  <2>3. /\ bytes'[<<t, "stdout">>] = bytes[<<t, "stdout">>] + 1
        /\ bytes' \in [Thread \X Streams -> Nat]
        /\ \A u \in Thread, s \in Streams : <<u, s>> # <<t, "stdout">> => bytes'[<<u, s>>] = bytes[<<u, s>>]
    BY <2>1, <2>2 DEF TypeOK, Streams
  <2>4. /\ produced'[t] = produced[t] + 1 /\ produced' \in [Thread -> Nat]
        /\ \A u \in Thread \ {t} : produced'[u] = produced[u]
    BY <2>1, <2>2 DEF TypeOK
  <2>5. TypeOK'
    BY <1>1, <2>1, <2>3, <2>4 DEF TypeOK
  <2>6. OnlyOf(t)
    BY <1>1, <2>1, <2>3, <2>4, SameEnds DEF OnlyOf
  <2>7. ChildOK(t)' /\ CallOK(t)' /\ HandleOK(t)' /\ CleanOK(t)'
    <3>1. bytes'[<<t, "err">>] = bytes[<<t, "err">>]
      BY <2>3 DEF Streams
    <3> QED BY <1>1, <2>1, <3>1 DEF ChildOK, CallOK, HandleOK, CleanOK
  <2>8. OutputOK(t)'
    <3>1. HasWriter(t, "stdout")
      BY <1>1, <2>1 DEF HasWriter
    <3>2. produced[t] = call[t].got + bytes[<<t, "stdout">>] => produced'[t] = call'[t].got + bytes'[<<t, "stdout">>]
      BY <1>1, <2>2, <2>3, <2>4
    <3> QED BY <1>1, <3>1, <3>2 DEF OutputOK, Capturing, Drained
  <2> QED BY <2>5, <2>6, <2>7, <2>8, Frame DEF Good
<1>4. CASE ClosesStdin(p)
  <2>1. /\ holds'[p] \subseteq holds[p] /\ \A q \in Holders \ {p} : holds'[q] = holds[q]
        /\ holds' \in [Holders -> SUBSET PipeEnds]
        /\ <<t, "err", "cloexec">> \in holds[p] => <<t, "err", "cloexec">> \in holds'[p]
        /\ UNCHANGED <<proc, status, bytes, produced>>
    BY <1>1, <1>4 DEF ClosesStdin, TypeOK
  <2>2. \A u \in Thread : HasWriter(u, "stdout")' => HasWriter(u, "stdout")
    BY <2>1, NoNewWriter
  <2>3. TypeOK' /\ holds'[Eta] = holds[Eta]
    BY <1>1, <2>1 DEF TypeOK, Holders
  <2>4. OnlyOf(t)
    <3>1. \A u \in Thread \ {t} : Child(u) \in Holders \ {p}
      BY Apart DEF Holders
    <3> QED BY <1>1, <2>1, <2>2, <2>3, <3>1 DEF OnlyOf
  <2>5. ChildOK(t)' /\ CallOK(t)' /\ HandleOK(t)' /\ CleanOK(t)'
    BY <1>1, <2>1, <2>3, Typed DEF ChildOK, CallOK, HandleOK, CleanOK
  <2>6. OutputOK(t)'
    BY <1>1, <2>1, <2>2 DEF OutputOK, Capturing, Drained
  <2> QED BY <2>3, <2>4, <2>5, <2>6, Frame DEF Good
<1>5. CASE Forks(p)
  <2>1. /\ holds' = [holds EXCEPT ![Heir(t)] = holds[p]] /\ proc' = [proc EXCEPT ![Heir(t)] = "running"]
        /\ UNCHANGED <<status, bytes, produced>>
    BY <1>1, <1>5 DEF Forks
  <2>2. /\ holds' \in [Holders -> SUBSET PipeEnds] /\ holds'[Heir(t)] = holds[p]
        /\ \A q \in Holders \ {Heir(t)} : holds'[q] = holds[q]
        /\ \A u \in Thread : Child(u) \in Holders \ {Heir(t)}
        /\ Eta \in Holders \ {Heir(t)}
    BY <1>1, <2>1, Apart DEF TypeOK, Holders
  <2>3. \A u \in Thread : HasWriter(u, "stdout")' => HasWriter(u, "stdout")
    BY <1>1, <2>2, NoNewWriter
  <2>4. \A u \in Thread : proc'[Child(u)] = proc[Child(u)]
    BY <2>1, Apart DEF TypeOK
  <2>5. TypeOK'
    BY <1>1, <2>1, <2>2, Apart DEF TypeOK
  <2>6. OnlyOf(t)
    BY <1>1, <2>1, <2>2, <2>3, <2>4 DEF OnlyOf
  <2>7. ChildOK(t)' /\ CallOK(t)' /\ HandleOK(t)' /\ CleanOK(t)'
    BY <1>1, <2>1, <2>2, <2>4 DEF ChildOK, CallOK, HandleOK, CleanOK
  <2>8. OutputOK(t)'
    BY <1>1, <2>1, <2>3 DEF OutputOK, Capturing, Drained
  <2> QED BY <2>5, <2>6, <2>7, <2>8, Frame DEF Good
<1>6. CASE Exits(p)
  <2>1. /\ holds' = [holds EXCEPT ![p] = {}] /\ UNCHANGED <<bytes, produced>>
        /\ \/ /\ p = Child(t) /\ proc' = [proc EXCEPT ![p] = "zombie"]
              /\ status' = [status EXCEPT ![t] = "exited"]
           \/ /\ p = Heir(t) /\ proc' = [proc EXCEPT ![p] = "gone"]
              /\ UNCHANGED status
    BY <1>1, <1>6 DEF Exits, Dies
  <2>2. /\ holds' \in [Holders -> SUBSET PipeEnds] /\ holds'[p] = {}
        /\ \A q \in Holders \ {p} : holds'[q] = holds[q]
        /\ \A u \in Thread \ {t} : Child(u) \in Holders \ {p}
        /\ Eta \in Holders \ {p}
    BY <1>1, <2>1, Apart DEF TypeOK, Holders
  <2>3. \A u \in Thread : HasWriter(u, "stdout")' => HasWriter(u, "stdout")
    BY <2>2, NoNewWriter
  <2>4. /\ proc' \in [Process -> {"none", "forked", "running", "zombie", "gone"}]
        /\ \A u \in Thread \ {t} : proc'[Child(u)] = proc[Child(u)]
        /\ proc'[Child(t)] = IF p = Child(t) THEN "zombie" ELSE proc[Child(t)]
    BY SMTT(30), <1>1, <2>1, Apart DEF TypeOK
  <2>5. /\ status' \in [Thread -> Statuses] /\ \A u \in Thread \ {t} : status'[u] = status[u]
        /\ status'[t] = IF p = Child(t) THEN "exited" ELSE status[t]
    BY <2>1, Apart DEF TypeOK, Statuses
  <2>6. TypeOK'
    BY <1>1, <2>1, <2>2, <2>4, <2>5 DEF TypeOK
  <2>7. OnlyOf(t)
    BY <1>1, <2>1, <2>2, <2>3, <2>4, <2>5 DEF OnlyOf
  <2>8. ChildOK(t)'
    <3>1. CASE p = Child(t)
      BY <2>4, <2>5, <3>1 DEF ChildOK
    <3>2. CASE p # Child(t)
      <4>1. holds'[Child(t)] = holds[Child(t)]
        BY <2>2, <3>2, Typed
      <4> QED BY <2>1, <2>4, <2>5, <3>2, <4>1 DEF ChildOK
    <3> QED BY <3>1, <3>2
  <2>9. CallOK(t)' /\ HandleOK(t)' /\ CleanOK(t)'
    BY <1>1, <2>2, <2>4, <2>5 DEF CallOK, HandleOK, CleanOK
  <2>10. OutputOK(t)'
    BY <1>1, <2>1, <2>3 DEF OutputOK, Capturing, Drained
  <2> QED BY <2>6, <2>7, <2>8, <2>9, <2>10, Frame DEF Good
<1> QED BY <1>2, <1>3, <1>4, <1>5, <1>6 DEF ProgramSteps

-----------------------------------------------------------------------------
LEMMA InitKeeps == InitCalls => CallsInv
<1> SUFFICES ASSUME InitCalls PROVE CallsInv
  OBVIOUS
<1> USE DEF InitCalls
<1>1. NoCall \in Calls
  BY DEF NoCall, Calls, Pcs, Starting0, Answers
<1>2. TypeOK
  <2>1. opt \in [Thread -> Option]
    BY SubprocessAssumption
  <2>2. handle \in [Thread -> Handles]
    BY DEF Handles, Statuses
  <2> QED BY <1>1, <2>1, <2>2 DEF TypeOK, Statuses
<1>3. ASSUME NEW t \in Thread PROVE Good(t)
  <2>1. call[t].pc = "idle" /\ call[t].answer = "none" /\ call[t].got = 0
    BY DEF NoCall
  <2>2. proc[Child(t)] = "none" /\ status[t] = "none" /\ bytes[<<t, "stdout">>] = 0 /\ produced[t] = 0
    BY Apart DEF Streams
  <2>3. ~handle[t].pid /\ ~handle[t].waited
    OBVIOUS
  <2> QED BY <2>1, <2>2, <2>3 DEF Good, ChildOK, CallOK, HandleOK, CleanOK, OutputOK, Capturing,
                                  Starting0, Forking, Running, InRun, InSpawn
<1> QED BY <1>2, <1>3 DEF CallsInv, Good

LEMMA NextKeeps == CallsInv /\ [CallsNext]_callVars => CallsInv'
<1> SUFFICES ASSUME CallsInv, [CallsNext]_callVars PROVE CallsInv'
  OBVIOUS
<1>1. ASSUME NEW t \in Thread, VmThread(t) PROVE CallsInv'
  BY <1>1, SetCloexecKeeps, ForkKeeps, CloseChildEndsKeeps, ReadSpawnErrorKeeps,
     SpawnErrorReadKeeps, ReapsKeep, WaitStepsKeep, SignalsKeep, JoinKeeps, PortWritesKeeps,
     PortReadsKeeps DEF VmThread
<1>2. ASSUME NEW t \in Thread, Asks(t) PROVE CallsInv'
  BY <1>2, MakePipesKeeps, SpawnFailsKeeps, WaitStepsKeep, SignalsKeep, ReapsKeep, ClosePortKeeps,
     CollectedKeeps DEF Asks
<1>3. ASSUME NEW t \in Thread, Writer(t) \/ Reader(t) PROVE CallsInv'
  BY <1>3, WriterWritesKeeps, WriterEndsKeeps, ReaderReadsKeeps, ReaderEndsKeeps DEF Writer, Reader
<1>4. ASSUME NEW t \in Thread, Starting(t) \/ DeadlinePasses(t) PROVE CallsInv'
  BY <1>4, StartingKeeps, WaitStepsKeep
<1>5. ASSUME NEW p \in Process, ProgramSteps(p) PROVE CallsInv'
  <2>1. PICK t \in Thread : p \in {Child(t), Heir(t)}
    BY DEF Process, Child, Heir
  <2> QED BY <1>5, <2>1, ProgramStepsKeep
<1>6. ASSUME UNCHANGED callVars PROVE CallsInv'
  BY <1>6 DEF callVars, os, CallsInv, TypeOK, ChildOK, CallOK, HandleOK, CleanOK, OutputOK, Capturing,
              Drained, HasWriter
<1> QED BY <1>1, <1>2, <1>3, <1>4, <1>5, <1>6 DEF CallsNext

\* The inductive invariant of the subprocess primitives.
THEOREM CallsInvariant == CallsSpec => []CallsInv
<1> QED BY InitKeeps, NextKeeps, PTL DEF CallsSpec

\* A handle with an id is that of this call's own child, which became the
\* program and was not waited for; one without says how that child ended.
THEOREM HandlesTrue == CallsSpec => []HandleIsChild
<1>1. CallsInv => HandleIsChild
  BY DEF CallsInv, HandleOK, HandleIsChild
<1> QED BY <1>1, CallsInvariant, PTL

\* A run that succeeds has captured everything its child, and what the child
\* left behind, wrote to its stdout.
THEOREM OutputIsComplete == CallsSpec => []OutputComplete
<1>1. CallsInv => OutputComplete
  <2> SUFFICES ASSUME CallsInv, NEW t \in Thread, opt[t].stdout = "capture", call[t].answer = "ok"
               PROVE  call[t].got = produced[t] /\ bytes[<<t, "stdout">>] = 0
    BY DEF OutputComplete
  <2>1. bytes[<<t, "stdout">>] = 0 /\ produced[t] = call[t].got + bytes[<<t, "stdout">>]
    BY DEF CallsInv, OutputOK, Capturing, Drained
  <2>2. call[t].got \in Nat
    BY Typed DEF CallsInv, Calls
  <2> QED BY <2>1, <2>2
<1> QED BY <1>1, CallsInvariant, PTL

\* A run that has returned has waited for its child and closed its pipes.
THEOREM RunsCleanUp == CallsSpec => []RunCleansUp
<1>1. CallsInv => RunCleansUp
  BY DEF CallsInv, CleanOK, RunCleansUp
<1> QED BY <1>1, CallsInvariant, PTL
=============================================================================
