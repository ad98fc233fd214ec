--------------------------- MODULE Actors_proofs ----------------------------
(***************************************************************************)
(* Actors, for any number of processes and threads and any programs: the   *)
(* handle, the joins and the call the VM is in agree with the actor's      *)
(* life, and recv! returns what the actor sent, in order and without gaps: *)
(* the mailboxes implement ChannelSpec.                                    *)
(***************************************************************************)
EXTENDS MCActors, TLAPS

-----------------------------------------------------------------------------
(* The life of a child.                                                    *)
Modes   == RecvModes \cup {"none", "wait", "kill", "destroy"}
MailOps == {"idle", "recv", "send"}
Ops     == MailOps \cup {"reap", "join", "destroy", "gone"}
VmCalls == [op : Ops, sock : Sock \cup {NoSock}, mode : Modes, skip : Nat]

\* The state the life cycle turns on.
LifeTypeOK ==
  /\ actor \in [Sock -> Phases]
  /\ handle \in [Sock -> BOOLEAN] /\ reaped \in [Sock -> BOOLEAN]
  /\ joinable \in [Sock -> BOOLEAN]
  /\ registry \subseteq Threads
  /\ vm \in VmCalls

\* Only an ended process has been waited for, and only threads pass through
\* the listeners.
PhasesFit ==
  \A s \in Sock : /\ reaped[s] => actor[s] = "ended"
                  /\ actor[s] \in {"starting", "leaving"} => s \in Threads

\* JoinMeansDone, for every thread but the one that is being joined.
NotJoining ==
  \A t \in Threads \ ended :
     actor[t] # "none" /\ ~joinable[t] /\ vm.op # "gone" => actor[t] = "ended" \/ (vm.op = "join" /\ vm.sock = t)

LifeInv ==
  /\ LifeTypeOK /\ PhasesFit /\ HandleTracksChild /\ NotJoining
  /\ NothingLeft

-----------------------------------------------------------------------------
(* What the mailbox's own steps leave alone.                               *)

MailStep(s) == (MailCalls(s) \/ MailEnds(s) \/ Transport(s)) /\ UNCHANGED managed

\* No call on a mailbox and no step of its threads moves an actor on, and the
\* VM's call stays one on a mailbox.
LEMMA MailKeepsLife ==
  ASSUME NEW s \in Sock, MailStep(s), vm \in VmCalls
  PROVE  /\ actor' = actor /\ UNCHANGED managed
         /\ vm' = vm \/ (vm.op \in MailOps /\ vm'.op \in MailOps /\ vm' \in VmCalls)
<1> USE DEF managed
<1>1. Idle \in VmCalls /\ Idle.op \in MailOps
  BY DEF Idle, VmCalls, Ops, MailOps, Modes
<1>2. ASSUME NEW op \in {"recv", "send"}, NEW m \in RecvModes
      PROVE  Call(op, s, m) \in VmCalls /\ Call(op, s, m).op \in MailOps
  BY DEF Call, VmCalls, Ops, MailOps, Modes
<1>3. CASE MailCalls(s)
  <2>1. CASE Recv(s)
    BY <2>1, <1>1, <1>2 DEF MailStep, Recv, RecvNotification, RecvPending, RecvBegin, Usable, ends, Consume
  <2>2. CASE Poll(s) \/ Monitor(s) \/ Demonitor(s) \/ EnableHeartbeat(s) \/ Close(s)
    BY <2>2 DEF MailStep, Poll, Monitor, Demonitor, EnableHeartbeat, Close, Shut, ends
  <2>3. CASE \E m \in RecvModes : SendBegin(s, m)
    BY <2>3, <1>1, <1>2 DEF MailStep, SendBegin, Usable
  <2> QED BY <1>3, <2>1, <2>2, <2>3 DEF MailCalls
<1>4. CASE MailEnds(s)
  <2>1. CASE RecvMessage(s)
    <3>1. vm.op \in MailOps /\ actor' = actor
      BY <2>1 DEF RecvMessage, MailOps
    <3>2. vm' = Idle \/ vm' = [vm EXCEPT !.skip = @ + 1]
      BY <2>1 DEF RecvMessage
    <3>3. [vm EXCEPT !.skip = @ + 1] \in VmCalls /\ [vm EXCEPT !.skip = @ + 1].op = vm.op
      BY DEF VmCalls
    <3> QED BY <1>1, <3>1, <3>2, <3>3 DEF MailStep
  <2>2. CASE RecvNothing(s) \/ SendEnd(s)
    BY <2>2, <1>1 DEF MailStep, RecvNothing, SendEnd, ends, MailOps
  <2> QED BY <1>4, <2>1, <2>2 DEF MailEnds
<1>5. CASE Transport(s)
  BY <1>5 DEF MailStep, Transport, ActorSend, ActorPing, ActorRecv, PipeRemoved, CallbackTests,
     CallbackPushes, BeatPing, BeatStamp, BeatCheck, ends
<1> QED BY <1>3, <1>4, <1>5 DEF MailStep

\* Such a step keeps the invariant.
LEMMA MailPreserves ==
  ASSUME LifeInv, actor' = actor, UNCHANGED managed,
         vm' = vm \/ (vm.op \in MailOps /\ vm'.op \in MailOps /\ vm' \in VmCalls)
  PROVE  LifeInv'
<1>1. vm' \in VmCalls
  BY DEF LifeInv, LifeTypeOK
<1>2. vm'.op = "gone" => vm.op = "gone"
  BY DEF MailOps
<1>3. NotJoining'
  BY DEF LifeInv, NotJoining, managed, MailOps
<1> QED
  BY <1>1, <1>2, <1>3 DEF LifeInv, LifeTypeOK, PhasesFit, HandleTracksChild, NothingLeft, managed

-----------------------------------------------------------------------------
LEMMA InitLife == Init => LifeInv
<1> SUFFICES ASSUME Init PROVE LifeInv
  OBVIOUS
<1>1. LifeTypeOK
  BY DEF Init, MailboxInit, LifeTypeOK, Phases, Idle, VmCalls, Ops, MailOps, Modes
<1>2. PhasesFit /\ HandleTracksChild /\ NotJoining
  BY ActorAssumption DEF Init, MailboxInit, PhasesFit, HandleTracksChild, NotJoining, Processes
<1>3. NothingLeft
  BY DEF Init, MailboxInit, NothingLeft, Idle
<1> QED BY <1>1, <1>2, <1>3 DEF LifeInv

\* The records of the calls the manager is in.
LEMMA CallTypes ==
  /\ Idle \in VmCalls /\ Idle.op = "idle"
  /\ \A s \in Sock, why \in {"wait", "kill", "destroy"} :
        Call("reap", s, why) \in VmCalls /\ Call("reap", s, why).op = "reap"
  /\ \A s \in Sock : /\ Call("join", s, "none") \in VmCalls
                    /\ Call("join", s, "none").op = "join"
                    /\ Call("join", s, "none").sock = s
  /\ \A op \in {"destroy", "gone"} :
        Call(op, NoSock, "none") \in VmCalls /\ Call(op, NoSock, "none").op = op
BY DEF Idle, Call, VmCalls, Ops, MailOps, Modes

\* The program's calls of the manager.
LEMMA ManagerKeepsLife ==
  ASSUME LifeInv, NEW s \in Sock,
         ManagerCalls(s) \/ ReapEnd(s) \/ JoinEnd(s)
  PROVE  LifeInv'
<1> USE ActorAssumption, CallTypes DEF LifeInv
<1>1. CASE Spawn(s)
  <2>1. LifeTypeOK'
    BY <1>1 DEF Spawn, LifeTypeOK, NotActor, Phases
  <2>2. /\ vm' = vm /\ vm.op = "idle" /\ actor[s] = "none"
        /\ actor' = [actor EXCEPT ![s] = "new"]
        /\ UNCHANGED <<reaped, registry, ended>>
    BY <1>1 DEF Spawn, NotActor
  <2>3. PhasesFit'
    BY <2>2 DEF LifeTypeOK, PhasesFit
  <2>4. ~reaped[s]
    BY <2>2 DEF PhasesFit
  <2>5. ASSUME NEW p \in Processes
        PROVE  handle'[p] <=> actor'[p] # "none" /\ ~reaped'[p]
    <3>1. CASE p = s
      BY <1>1, <2>2, <2>4, <2>5, <3>1 DEF Spawn, LifeTypeOK
    <3>2. CASE p # s
      <4>1. handle'[p] = handle[p] /\ actor'[p] = actor[p]
        BY <1>1, <2>5, <3>2 DEF Spawn, LifeTypeOK, Processes
      <4> QED BY <2>2, <4>1 DEF HandleTracksChild
    <3> QED BY <3>1, <3>2
  <2>6. HandleTracksChild'
    BY <2>5 DEF HandleTracksChild
  <2>7. NotJoining'
    <3>1. joinable' = [joinable EXCEPT ![s] = s \in Threads] /\ joinable \in [Sock -> BOOLEAN]
      BY <1>1 DEF Spawn, LifeTypeOK
    <3>2. s \in Threads => joinable'[s]
      BY <3>1
    <3>3. \A t \in Sock \ {s} : joinable'[t] = joinable[t] /\ actor'[t] = actor[t]
      BY <2>2, <3>1 DEF LifeTypeOK
    <3> QED BY <2>2, <3>2, <3>3 DEF NotJoining
  <2>8. NothingLeft'
    BY <2>2 DEF NothingLeft
  <2> QED BY <2>1, <2>3, <2>6, <2>7, <2>8
<1>2. ASSUME NEW why \in {"wait", "kill"}, ReapBegin(s, why) PROVE LifeInv'
  BY <1>2 DEF ReapBegin, OnlyVm, ends, managed, LifeTypeOK, PhasesFit, HandleTracksChild,
     NotJoining, NothingLeft
<1>3. CASE JoinBegin(s)
  <2>1. LifeTypeOK' /\ PhasesFit' /\ HandleTracksChild'
    BY <1>3 DEF JoinBegin, OnlyVm, ends, LifeTypeOK, PhasesFit, HandleTracksChild
  <2>2. NotJoining'
    BY <1>3 DEF JoinBegin, OnlyVm, ends, LifeTypeOK, NotJoining
  <2>3. NothingLeft'
    BY <1>3 DEF JoinBegin, OnlyVm, ends, NothingLeft
  <2> QED BY <2>1, <2>2, <2>3
<1>4. CASE ReapEnd(s)
  <2>1. actor' = actor /\ vm' \in VmCalls /\ vm'.op \in {"idle", "destroy"} /\ vm.op = "reap"
    BY <1>4 DEF ReapEnd, OnlyVm, ends
  <2>2. LifeTypeOK'
    BY <1>4, <2>1 DEF ReapEnd, LifeTypeOK
  <2>3. PhasesFit' /\ HandleTracksChild'
    BY <1>4, <2>1 DEF ReapEnd, LifeTypeOK, PhasesFit, HandleTracksChild
  <2>4. NotJoining' /\ NothingLeft'
    BY <1>4, <2>1 DEF ReapEnd, NotJoining, NothingLeft
  <2> QED BY <2>2, <2>3, <2>4
<1>5. CASE JoinEnd(s)
  BY <1>5 DEF JoinEnd, OnlyVm, ends, managed, LifeTypeOK, PhasesFit, HandleTracksChild,
     NotJoining, NothingLeft
<1> QED BY <1>1, <1>2, <1>3, <1>4, <1>5 DEF ManagerCalls

\* The destructor.
LEMMA DestructorKeepsLife ==
  ASSUME LifeInv, Quit \/ DestroyNext
  PROVE  LifeInv'
<1> USE CallTypes DEF LifeInv
<1>1. CASE Quit
  BY <1>1 DEF Quit, OnlyVm, ends, managed, LifeTypeOK, PhasesFit, HandleTracksChild,
     NotJoining, NothingLeft
<1>2. CASE DestroyNext
  <2>1. actor' = actor /\ UNCHANGED <<program, handle, reaped, registry, dap, ended>>
    BY <1>2 DEF DestroyNext, OnlyVm, ends
  <2>2. CASE \E p \in Sock : handle[p]
    BY <1>2, <2>1, <2>2 DEF DestroyNext, LifeTypeOK, PhasesFit, HandleTracksChild,
       NotJoining, NothingLeft
  <2>3. CASE ~ \E p \in Sock : handle[p]
    <3>1. vm' = Call("gone", NoSock, "none") /\ joinable' = [t \in Sock |-> FALSE]
      BY <1>2, <2>3 DEF DestroyNext
    <3>2. LifeTypeOK' /\ PhasesFit' /\ HandleTracksChild' /\ NotJoining'
      BY <2>1, <3>1 DEF LifeTypeOK, PhasesFit, HandleTracksChild, NotJoining
    <3>3. NothingLeft'
      BY <2>1, <2>3 DEF HandleTracksChild, NothingLeft, Processes
    <3> QED BY <3>2, <3>3
  <2> QED BY <2>2, <2>3
<1> QED BY <1>1, <1>2

\* The actors' own steps.
LEMMA ActorKeepsLife ==
  ASSUME LifeInv, NEW s \in Sock, Actor(s)
  PROVE  LifeInv'
<1> USE ActorAssumption DEF LifeInv
<1>1. /\ vm' = vm /\ UNCHANGED <<handle, reaped, joinable, ended>>
      /\ actor[s] \notin {"none", "ended"} /\ actor'[s] # "none"
      /\ \E phase \in Phases : actor' = [actor EXCEPT ![s] = phase]
      /\ actor'[s] \in {"starting", "leaving"} => s \in Threads
      /\ registry' \subseteq Threads
  <2>1. CASE Dial(s) \/ Loaded(s) \/ Returns(s)
    BY <2>1 DEF Dial, Loaded, Returns, Enter, NotActor, managed, Phases, LifeTypeOK
  <2>2. CASE Fails(s)
    BY <2>2 DEF Fails, NotActor, managed, Phases, LifeTypeOK
  <2>3. CASE Started(s)
    BY <2>3 DEF Started, Enter, NotActor, Phases, LifeTypeOK, PhasesFit
  <2>4. CASE Exited(s)
    BY <2>4 DEF Exited, Enter, NotActor, Phases, LifeTypeOK
  <2> QED BY <2>1, <2>2, <2>3, <2>4 DEF Actor
<1>2. LifeTypeOK'
  BY <1>1 DEF LifeTypeOK
<1>3. PhasesFit' /\ HandleTracksChild'
  BY <1>1 DEF LifeTypeOK, PhasesFit, HandleTracksChild, Processes
<1>4. NotJoining'
  BY <1>1 DEF LifeTypeOK, NotJoining
<1>5. NothingLeft'
  BY <1>1 DEF LifeTypeOK, NothingLeft, Processes, PhasesFit
<1> QED BY <1>2, <1>3, <1>4, <1>5

\* The debugger's requests.
LEMMA DebuggerKeepsLife ==
  ASSUME LifeInv, Debugger
  PROVE  LifeInv'
<1> USE DEF LifeInv
<1>1. CASE Listed \/ \E s \in Sock, op \in {"list", "terminate"} : Request(op, s)
  BY <1>1 DEF Listed, Request, mbox, ends, LifeTypeOK, PhasesFit, HandleTracksChild, NotJoining,
     NothingLeft
<1>2. ASSUME NEW s \in Threads, Terminated(s) PROVE LifeInv'
  <2>1. /\ actor' = actor /\ vm' = vm /\ UNCHANGED <<handle, reaped, registry>>
        /\ joinable' = [joinable EXCEPT ![s] = FALSE] /\ ended' = ended \cup {s}
    BY <1>2 DEF Terminated, Shut, mbox, ends
  <2>2. NotJoining'
    BY <2>1 DEF LifeTypeOK, NotJoining
  <2> QED
    BY <2>1, <2>2 DEF LifeTypeOK, PhasesFit, HandleTracksChild, NothingLeft
<1> QED BY <1>1, <1>2, ActorAssumption DEF Debugger

LEMMA NextLife == LifeInv /\ [Next]_vars => LifeInv'
<1> SUFFICES ASSUME LifeInv, [Next]_vars PROVE LifeInv'
  OBVIOUS
<1>1. CASE UNCHANGED vars
  BY <1>1, MailPreserves DEF vars, mbox, ends
<1>2. ASSUME NEW s \in Sock, MailStep(s) PROVE LifeInv'
  BY <1>2, MailKeepsLife, MailPreserves DEF LifeInv, LifeTypeOK
<1>3. ASSUME NEW s \in Sock, ManagerCalls(s) \/ ReapEnd(s) \/ JoinEnd(s) PROVE LifeInv'
  BY <1>3, ManagerKeepsLife
<1>4. ASSUME NEW s \in Sock, Actor(s) PROVE LifeInv'
  BY <1>4, ActorKeepsLife
<1>5. CASE Quit \/ DestroyNext
  BY <1>5, DestructorKeepsLife
<1>6. CASE Debugger
  BY <1>6, DebuggerKeepsLife
<1> QED BY <1>1, <1>2, <1>3, <1>4, <1>5, <1>6 DEF Next, MailStep

-----------------------------------------------------------------------------
\* Handles, process ids, joins and the VM's call agree with the actors for ever.
THEOREM LifeInvariant == Spec => []LifeInv
BY InitLife, NextLife, PTL DEF Spec

\* kill and waitpid are given the id of a child that has not been waited for.
THEOREM HandlesTrack == Spec => []HandleTracksChild
<1>1. LifeInv => HandleTracksChild
  BY DEF LifeInv
<1> QED BY LifeInvariant, <1>1, PTL

\* A joined thread is over.
THEOREM JoinsEnd == Spec => []JoinMeansDone
<1>1. LifeInv => JoinMeansDone
  BY DEF LifeInv, NotJoining, JoinMeansDone
<1> QED BY LifeInvariant, <1>1, PTL

\* The destructor leaves no process behind.
THEOREM NoneLeft == Spec => []NothingLeft
<1>1. LifeInv => NothingLeft
  BY DEF LifeInv
<1> QED BY LifeInvariant, <1>1, PTL

-----------------------------------------------------------------------------
(* The mailboxes.                                                          *)
Messages == [kind : {"data", "ping", "pong"}, n : Nat]

\* What is on its way to recv!: first what nng-poll saved, then the wire.
Coming(s) == pending[s] \o wire[s]

\* The data in a queue have the numbers after k, in order, none left out, as
\* far as the queue goes.
Follows(q, k) ==
  \A i \in DOMAIN q : q[i].kind = "data" =>
     /\ k < q[i].n
     /\ \A j \in 1 .. i - 1 : q[j].kind = "data" => q[j].n < q[i].n
     /\ \A n \in k + 1 .. q[i].n : \E j \in 1 .. i : q[j].kind = "data" /\ q[j].n = n

\* All that was sent after k is in the queue.
Complete(q, k, last) ==
  \A n \in k + 1 .. last : \E i \in DOMAIN q : q[i].kind = "data" /\ q[i].n = n
Bounded(q, last) == \A i \in DOMAIN q : q[i].kind = "data" => q[i].n <= last

MailTypeOK ==
  /\ pipe \in [Sock -> {"none", "up", "gone"}]
  /\ wire \in [Sock -> Seq(Messages)] /\ pending \in [Sock -> Seq(Messages)]
  /\ sent \in [Sock -> Nat] /\ got \in [Sock -> Seq(Nat)]
  /\ closed \in [Sock -> BOOLEAN]

\* Nothing has passed before the actor has dialed.
NotDialed ==
  \A s \in Sock : /\ actor[s] \in {"none", "new"} => pipe[s] = "none"
                  /\ pipe[s] = "none" => Coming(s) = <<>> /\ got[s] = <<>> /\ sent[s] = 0

\* With k messages returned and last sent: only a lost connection leaves a
\* gap, and only at the end.
Orderly(q, k, last, connection) ==
  /\ Follows(q, k) /\ Bounded(q, last) /\ k <= last
  /\ connection = "up" => Complete(q, k, last)
QueuesInOrder == \A s \in Sock : Orderly(Coming(s), Len(got[s]), sent[s], pipe[s])

\* recv! goes to the wire only when nothing is saved, and nothing is saved
\* while it waits there.
NoneSaved == vm.op = "recv" => pending[vm.sock] = <<>>

MailInv == MailTypeOK /\ NotDialed /\ QueuesInOrder /\ NoneSaved

-----------------------------------------------------------------------------
(* Queues: what the mailbox does with them, one message at a time.         *)

\* r is q without its first message, with m behind it, or a part of it from
\* the front.
WithoutHead(r, q) == /\ r \in Seq(Messages) /\ Len(r) = Len(q) - 1
                     /\ \A i \in 1 .. Len(r) : r[i] = q[i + 1]
Extended(r, q, m) == /\ r \in Seq(Messages) /\ Len(r) = Len(q) + 1
                     /\ \A i \in 1 .. Len(q) : r[i] = q[i]
                     /\ r[Len(r)] = m
Front(r, q)       == /\ r \in Seq(Messages) /\ Len(r) <= Len(q)
                     /\ \A i \in 1 .. Len(r) : r[i] = q[i]

\* The first message, if it is data, is the one due.
LEMMA HeadIsNext ==
  ASSUME NEW q \in Seq(Messages), q # <<>>, NEW k \in Nat, Follows(q, k), q[1].kind = "data"
  PROVE  q[1].n = k + 1
<1>1. 1 \in DOMAIN q /\ q[1] \in Messages
  OBVIOUS
<1>2. q[1].n \in Nat /\ k < q[1].n
  BY <1>1 DEF Follows, Messages
<1>3. \E j \in 1 .. 1 : q[j].kind = "data" /\ q[j].n = k + 1
  BY <1>1, <1>2 DEF Follows
<1> QED BY <1>3

LEMMA TakeData ==
  ASSUME NEW q \in Seq(Messages), q # <<>>, NEW r, WithoutHead(r, q), NEW k \in Nat, NEW last \in Nat,
         Follows(q, k), Bounded(q, last), q[1].kind = "data"
  PROVE  /\ Follows(r, k + 1) /\ Bounded(r, last) /\ k + 1 <= last
         /\ Complete(q, k, last) => Complete(r, k + 1, last)
<1>1. q[1].n = k + 1 /\ 1 \in DOMAIN q
  BY HeadIsNext
<1>2. k + 1 <= last
  BY <1>1 DEF Bounded
<1>3. \A i \in DOMAIN r : r[i] = q[i + 1] /\ i + 1 \in DOMAIN q /\ r[i] \in Messages
  BY DEF WithoutHead
<1>4. Bounded(r, last)
  BY <1>3 DEF Bounded
<1>5. ASSUME NEW n \in Nat, n # k + 1, NEW j \in DOMAIN q, q[j].kind = "data", q[j].n = n
      PROVE  j - 1 \in DOMAIN r /\ r[j - 1] = q[j]
  BY <1>1, <1>5 DEF WithoutHead
<1>6. Follows(r, k + 1)
  <2> SUFFICES ASSUME NEW i \in DOMAIN r, r[i].kind = "data"
               PROVE  /\ k + 1 < r[i].n
                      /\ \A j \in 1 .. i - 1 : r[j].kind = "data" => r[j].n < r[i].n
                      /\ \A n \in k + 2 .. r[i].n : \E j \in 1 .. i : r[j].kind = "data" /\ r[j].n = n
    BY DEF Follows
  <2>1. i \in Nat \ {0} /\ i + 1 \in DOMAIN q /\ r[i] = q[i + 1] /\ q[i + 1].kind = "data" /\ r[i].n \in Nat
    BY SMTT(30), <1>3 DEF WithoutHead, Messages
  <2>2. 1 \in 1 .. (i + 1) - 1
    BY <2>1
  <2>3. k + 1 < r[i].n
    BY <1>1, <2>1, <2>2 DEF Follows
  <2>4. ASSUME NEW j \in 1 .. i - 1, r[j].kind = "data" PROVE r[j].n < r[i].n
    <3>1. j \in DOMAIN r /\ j + 1 \in 1 .. (i + 1) - 1 /\ r[j] = q[j + 1]
      BY SMTT(30), <1>3, <2>1 DEF WithoutHead
    <3>2. \A l \in 1 .. (i + 1) - 1 : q[l].kind = "data" => q[l].n < q[i + 1].n
      BY <2>1 DEF Follows
    <3> QED BY <2>1, <2>4, <3>1, <3>2
  <2>5. ASSUME NEW n \in k + 2 .. r[i].n
        PROVE  \E j \in 1 .. i : r[j].kind = "data" /\ r[j].n = n
    <3>1. n \in k + 1 .. q[i + 1].n
      BY <2>1
    <3>2. PICK j \in 1 .. i + 1 : q[j].kind = "data" /\ q[j].n = n
      BY <2>1, <3>1 DEF Follows
    <3>3. j # 1
      BY <1>1, <3>2
    <3>4. j - 1 \in 1 .. i /\ r[j - 1] = q[j]
      BY <1>3, <2>1, <3>2, <3>3 DEF WithoutHead
    <3> QED BY <3>2, <3>4
  <2> QED BY <2>3, <2>4, <2>5
<1>7. ASSUME Complete(q, k, last) PROVE Complete(r, k + 1, last)
  <2> SUFFICES ASSUME NEW n \in k + 2 .. last
               PROVE  \E i \in DOMAIN r : r[i].kind = "data" /\ r[i].n = n
    BY DEF Complete
  <2>1. PICK j \in DOMAIN q : q[j].kind = "data" /\ q[j].n = n
    BY <1>7 DEF Complete
  <2> QED BY <1>5, <2>1
<1> QED BY <1>2, <1>4, <1>6, <1>7

LEMMA TakeOther ==
  ASSUME NEW q \in Seq(Messages), q # <<>>, NEW r, WithoutHead(r, q), NEW k \in Nat, NEW last \in Nat,
         Follows(q, k), Bounded(q, last), q[1].kind # "data"
  PROVE  /\ Follows(r, k) /\ Bounded(r, last)
         /\ Complete(q, k, last) => Complete(r, k, last)
<1>1. \A i \in DOMAIN r : r[i] = q[i + 1] /\ i + 1 \in DOMAIN q /\ r[i] \in Messages
  BY DEF WithoutHead
<1>2. Bounded(r, last)
  BY <1>1 DEF Bounded
<1>3. ASSUME NEW j \in DOMAIN q, q[j].kind = "data"
      PROVE  j - 1 \in DOMAIN r /\ r[j - 1] = q[j]
  BY <1>3 DEF WithoutHead
<1>4. Follows(r, k)
  <2> SUFFICES ASSUME NEW i \in DOMAIN r, r[i].kind = "data"
               PROVE  /\ k < r[i].n
                      /\ \A j \in 1 .. i - 1 : r[j].kind = "data" => r[j].n < r[i].n
                      /\ \A n \in k + 1 .. r[i].n : \E j \in 1 .. i : r[j].kind = "data" /\ r[j].n = n
    BY DEF Follows
  <2>1. i \in Nat \ {0} /\ i + 1 \in DOMAIN q /\ r[i] = q[i + 1] /\ q[i + 1].kind = "data" /\ r[i].n \in Nat
    BY SMTT(30), <1>1 DEF WithoutHead, Messages
  <2>2. k < r[i].n
    BY <2>1 DEF Follows
  <2>3. ASSUME NEW j \in 1 .. i - 1, r[j].kind = "data" PROVE r[j].n < r[i].n
    <3>1. j \in DOMAIN r /\ j + 1 \in 1 .. (i + 1) - 1 /\ r[j] = q[j + 1]
      BY SMTT(30), <1>1, <2>1 DEF WithoutHead
    <3>2. \A l \in 1 .. (i + 1) - 1 : q[l].kind = "data" => q[l].n < q[i + 1].n
      BY <2>1 DEF Follows
    <3> QED BY <2>1, <2>3, <3>1, <3>2
  <2>4. ASSUME NEW n \in k + 1 .. r[i].n
        PROVE  \E j \in 1 .. i : r[j].kind = "data" /\ r[j].n = n
    <3>1. PICK j \in 1 .. i + 1 : q[j].kind = "data" /\ q[j].n = n
      BY <2>1 DEF Follows
    <3>2. j \in DOMAIN q
      BY <2>1
    <3>3. j - 1 \in 1 .. i /\ r[j - 1] = q[j]
      BY SMTT(30), <1>3, <2>1, <3>1, <3>2 DEF WithoutHead
    <3> QED BY <3>1, <3>3
  <2> QED BY <2>2, <2>3, <2>4
<1>5. ASSUME Complete(q, k, last) PROVE Complete(r, k, last)
  <2> SUFFICES ASSUME NEW n \in k + 1 .. last
               PROVE  \E i \in DOMAIN r : r[i].kind = "data" /\ r[i].n = n
    BY DEF Complete
  <2>1. PICK j \in DOMAIN q : q[j].kind = "data" /\ q[j].n = n
    BY <1>5 DEF Complete
  <2> QED BY <1>3, <2>1
<1> QED BY <1>2, <1>4, <1>5

LEMMA CutQueue ==
  ASSUME NEW q \in Seq(Messages), NEW r, Front(r, q), NEW k \in Nat, NEW last \in Nat,
         Follows(q, k), Bounded(q, last)
  PROVE  /\ Follows(r, k) /\ Bounded(r, last)
         /\ Len(r) = Len(q) /\ Complete(q, k, last) => Complete(r, k, last)
<1>1. \A i \in DOMAIN r : r[i] = q[i] /\ i \in DOMAIN q
  BY DEF Front
<1>2. Bounded(r, last)
  BY <1>1 DEF Bounded
<1>3. Follows(r, k)
  <2> SUFFICES ASSUME NEW i \in DOMAIN r, r[i].kind = "data"
               PROVE  /\ k < r[i].n
                      /\ \A j \in 1 .. i - 1 : r[j].kind = "data" => r[j].n < r[i].n
                      /\ \A n \in k + 1 .. r[i].n : \E j \in 1 .. i : r[j].kind = "data" /\ r[j].n = n
    BY DEF Follows
  <2>1. \A j \in 1 .. i : j \in DOMAIN r /\ r[j] = q[j]
    BY DEF Front
  <2>2. i \in 1 .. i /\ r[i] = q[i] /\ i \in DOMAIN q /\ q[i].kind = "data"
    BY <1>1 DEF Front
  <2> QED BY <2>1, <2>2 DEF Follows
<1>4. ASSUME Len(r) = Len(q), Complete(q, k, last) PROVE Complete(r, k, last)
  BY <1>4 DEF Complete, Front
<1> QED BY <1>2, <1>3, <1>4

LEMMA ExtendQueue ==
  ASSUME NEW q \in Seq(Messages), NEW m \in Messages, NEW r, Extended(r, q, m), NEW k \in Nat, NEW last \in Nat,
         Follows(q, k), Bounded(q, last), k <= last
  PROVE  /\ m.kind # "data" => /\ Follows(r, k) /\ Bounded(r, last)
                               /\ Complete(q, k, last) => Complete(r, k, last)
         /\ m = Data(last + 1) /\ Complete(q, k, last) =>
               Follows(r, k) /\ Bounded(r, last + 1) /\ Complete(r, k, last + 1)
<1>1. /\ Len(q) \in Nat /\ DOMAIN q = 1 .. Len(q) /\ DOMAIN r = 1 .. Len(q) + 1
      /\ \A i \in DOMAIN q : r[i] = q[i] /\ q[i] \in Messages
      /\ r[Len(q) + 1] = m
  BY DEF Extended
<1>2. ASSUME NEW i \in DOMAIN q, r[i].kind = "data"
      PROVE  /\ k < r[i].n /\ r[i].n <= last
             /\ \A j \in 1 .. i - 1 : r[j].kind = "data" => r[j].n < r[i].n
             /\ \A n \in k + 1 .. r[i].n : \E j \in 1 .. i : r[j].kind = "data" /\ r[j].n = n
  <2>1. \A j \in 1 .. i : j \in DOMAIN q /\ r[j] = q[j]
    BY <1>1
  <2>2. i \in 1 .. i /\ r[i] = q[i] /\ q[i].kind = "data"
    BY <1>1, <1>2
  <2> QED BY <2>1, <2>2 DEF Follows, Bounded
<1>3. ASSUME m.kind # "data"
      PROVE  Follows(r, k) /\ Bounded(r, last) /\ (Complete(q, k, last) => Complete(r, k, last))
  <2>1. \A i \in DOMAIN r : r[i].kind = "data" => i \in DOMAIN q
    BY <1>1, <1>3
  <2>2. Follows(r, k)
    BY <1>2, <2>1 DEF Follows
  <2>3. Bounded(r, last)
    BY <1>2, <2>1 DEF Bounded
  <2>4. Complete(q, k, last) => Complete(r, k, last)
    BY <1>1 DEF Complete
  <2> QED BY <2>2, <2>3, <2>4
<1>4. ASSUME m = Data(last + 1), Complete(q, k, last)
      PROVE  Follows(r, k) /\ Bounded(r, last + 1) /\ Complete(r, k, last + 1)
  <2>1. m.kind = "data" /\ m.n = last + 1
    BY <1>4 DEF Data
  <2>2. \A i \in DOMAIN q : r[i].kind = "data" => r[i].n <= last /\ r[i].n \in Nat
    BY <1>1, <1>2 DEF Messages
  <2>3. Bounded(r, last + 1)
    BY <1>1, <2>1, <2>2 DEF Bounded
  <2>4. Complete(r, k, last + 1)
    <3> SUFFICES ASSUME NEW n \in k + 1 .. last + 1
                 PROVE  \E i \in DOMAIN r : r[i].kind = "data" /\ r[i].n = n
      BY DEF Complete
    <3>1. CASE n = last + 1
      BY <1>1, <2>1, <3>1
    <3>2. CASE n # last + 1
      <4>1. n \in k + 1 .. last
        BY <3>2
      <4> QED BY <1>1, <1>4, <4>1 DEF Complete
    <3> QED BY <3>1, <3>2
  <2>5. ASSUME NEW i \in DOMAIN r, r[i].kind = "data"
        PROVE  /\ k < r[i].n
               /\ \A j \in 1 .. i - 1 : r[j].kind = "data" => r[j].n < r[i].n
               /\ \A n \in k + 1 .. r[i].n : \E j \in 1 .. i : r[j].kind = "data" /\ r[j].n = n
    <3>1. CASE i \in DOMAIN q
      BY <1>2, <2>5, <3>1
    <3>2. CASE i = Len(q) + 1
      <4>1. r[i].n = last + 1 /\ \A j \in 1 .. i - 1 : j \in DOMAIN q
        BY <1>1, <2>1, <3>2
      <4>2. \A n \in k + 1 .. r[i].n : \E j \in 1 .. i : r[j].kind = "data" /\ r[j].n = n
        BY <1>1, <2>4, <3>2, <4>1 DEF Complete
      <4> QED BY <2>2, <4>1, <4>2
    <3> QED BY <1>1, <3>1, <3>2
  <2> QED BY <2>3, <2>4, <2>5 DEF Follows
<1> QED BY <1>3, <1>4

\* The same for two queues one behind the other.
LEMMA TwoQueues ==
  ASSUME NEW p \in Seq(Messages), NEW w \in Seq(Messages)
  PROVE  /\ p \o w \in Seq(Messages)
         /\ p # <<>> => /\ WithoutHead(Tail(p) \o w, p \o w)
                        /\ p \o w # <<>> /\ (p \o w)[1] = Head(p)
         /\ p = <<>> /\ w # <<>> => /\ WithoutHead(p \o Tail(w), p \o w)
                                    /\ p \o w # <<>> /\ (p \o w)[1] = Head(w)
                                    /\ Front(<<Head(w)>> \o Tail(w), p \o w)
                                    /\ Len(<<Head(w)>> \o Tail(w)) = Len(p \o w)
         /\ \A m \in Messages : Extended(p \o Append(w, m), p \o w, m)
         /\ \A k \in 0 .. Len(w) : Front(p \o SubSeq(w, 1, k), p \o w)
<1>1. ASSUME p # <<>>
      PROVE  WithoutHead(Tail(p) \o w, p \o w) /\ p \o w # <<>> /\ (p \o w)[1] = Head(p)
  <2>1. Len(p) > 0 /\ Tail(p) \in Seq(Messages) /\ Len(Tail(p)) = Len(p) - 1
    BY <1>1
  <2>2. \A i \in 1 .. Len(Tail(p) \o w) : (Tail(p) \o w)[i] = (p \o w)[i + 1]
    BY <2>1
  <2> QED BY <2>1, <2>2 DEF WithoutHead
<1>2. ASSUME p = <<>>, w # <<>>
      PROVE  /\ WithoutHead(p \o Tail(w), p \o w) /\ p \o w # <<>> /\ (p \o w)[1] = Head(w)
             /\ Front(<<Head(w)>> \o Tail(w), p \o w)
             /\ Len(<<Head(w)>> \o Tail(w)) = Len(p \o w)
  <2>1. Len(p) = 0 /\ Len(w) > 0 /\ Tail(w) \in Seq(Messages) /\ Len(Tail(w)) = Len(w) - 1
        /\ <<Head(w)>> \in Seq(Messages)
    BY <1>2
  <2>2. \A i \in 1 .. Len(p \o Tail(w)) : (p \o Tail(w))[i] = (p \o w)[i + 1]
    BY <2>1
  <2>3. \A i \in 1 .. Len(w) : (<<Head(w)>> \o Tail(w))[i] = (p \o w)[i]
    BY <2>1
  <2> QED BY <2>1, <2>2, <2>3 DEF WithoutHead, Front
<1>3. ASSUME NEW m \in Messages PROVE Extended(p \o Append(w, m), p \o w, m)
  <2>1. Append(w, m) \in Seq(Messages) /\ Len(Append(w, m)) = Len(w) + 1
    OBVIOUS
  <2>2. \A i \in 1 .. Len(p \o w) : (p \o Append(w, m))[i] = (p \o w)[i]
    BY <2>1
  <2> QED BY <2>1, <2>2 DEF Extended
<1>4. ASSUME NEW k \in 0 .. Len(w) PROVE Front(p \o SubSeq(w, 1, k), p \o w)
  <2>1. SubSeq(w, 1, k) \in Seq(Messages) /\ Len(SubSeq(w, 1, k)) = k
    OBVIOUS
  <2>2. \A i \in 1 .. Len(p) + k : (p \o SubSeq(w, 1, k))[i] = (p \o w)[i]
    BY <2>1
  <2> QED BY <2>1, <2>2 DEF Front
<1> QED BY <1>1, <1>2, <1>3, <1>4

-----------------------------------------------------------------------------
(* What the steps do to the mailboxes.                                     *)

\* A step that moves no message, whether or not it makes or ends connections.
LEMMA QuietKeeps ==
  ASSUME MailInv, UNCHANGED <<wire, pending, sent, got>>,
         pipe' \in [Sock -> {"none", "up", "gone"}], closed' \in [Sock -> BOOLEAN],
         \A s \in Sock :
            /\ pipe'[s] = pipe[s] \/ <<pipe[s], pipe'[s]>> \in {<<"up", "gone">>, <<"none", "up">>}
            /\ actor'[s] \in {"none", "new"} => actor[s] \in {"none", "new"} /\ pipe'[s] = pipe[s],
         vm' = vm \/ vm'.op # "recv" \/ pending[vm'.sock] = <<>>
  PROVE  MailInv'
<1> USE DEF MailInv
<1>1. MailTypeOK' /\ \A s \in Sock : Coming(s)' = Coming(s)
  BY DEF MailTypeOK, Coming
<1>2. NotDialed'
  BY <1>1 DEF NotDialed, MailTypeOK
<1>3. NoneSaved'
  BY DEF NoneSaved
<1>4. QueuesInOrder'
  <2> SUFFICES ASSUME NEW s \in Sock PROVE Orderly(Coming(s), Len(got[s]), sent[s], pipe'[s])
    BY <1>1 DEF QueuesInOrder
  <2>1. Orderly(Coming(s), Len(got[s]), sent[s], pipe[s])
    BY DEF QueuesInOrder
  <2>2. CASE pipe'[s] = pipe[s] \/ pipe'[s] = "gone"
    BY <2>1, <2>2 DEF Orderly
  <2>3. CASE pipe'[s] = "up" /\ pipe[s] = "none"
    <3>1. Len(got[s]) = 0 /\ sent[s] = 0
      BY <2>3 DEF NotDialed
    <3>2. Complete(Coming(s), Len(got[s]), sent[s])
      BY <3>1 DEF Complete
    <3> QED BY <2>1, <3>2 DEF Orderly
  <2> QED BY <2>2, <2>3
<1> QED BY <1>1, <1>2, <1>3, <1>4

\* A step that moves messages of one mailbox, whose actor has dialed.
Moves(s, p, w, k, last, c) ==
  /\ p \in Seq(Messages) /\ w \in Seq(Messages) /\ k \in Seq(Nat) /\ last \in Nat
  /\ c \in {"up", "gone"} /\ pipe[s] # "none"
  /\ pending' = [pending EXCEPT ![s] = p] /\ wire' = [wire EXCEPT ![s] = w]
  /\ got' = [got EXCEPT ![s] = k] /\ sent' = [sent EXCEPT ![s] = last]
  /\ pipe' = [pipe EXCEPT ![s] = c] /\ actor' = actor /\ closed' = closed

LEMMA OneMailbox ==
  ASSUME MailInv, NEW s \in Sock, NEW p, NEW w, NEW k, NEW last, NEW c,
         Moves(s, p, w, k, last, c), Orderly(p \o w, Len(k), last, c), NoneSaved'
  PROVE  MailInv'
<1> USE DEF MailInv, Moves
<1>1. MailTypeOK'
  BY DEF MailTypeOK
<1>2. /\ Coming(s)' = p \o w /\ got'[s] = k /\ sent'[s] = last /\ pipe'[s] = c
      /\ \A t \in Sock \ {s} : /\ Coming(t)' = Coming(t) /\ got'[t] = got[t]
                               /\ sent'[t] = sent[t] /\ pipe'[t] = pipe[t]
  BY DEF MailTypeOK, Coming
<1>3. NotDialed'
  BY <1>2 DEF NotDialed
<1>4. QueuesInOrder'
  BY <1>2 DEF QueuesInOrder
<1> QED BY <1>1, <1>3, <1>4

\* recv! hands over the first message: data is the one due.
LEMMA TakenInOrder ==
  ASSUME MailInv, NEW s \in Sock, NEW msg, NEW q, WithoutHead(q, Coming(s)),
         Coming(s) # <<>>, Coming(s)[1] = msg, Consume(s, msg)
  PROVE  \E k \in Seq(Nat) :
            /\ got' = [got EXCEPT ![s] = k]
            /\ Orderly(q, Len(k), sent[s], pipe[s])
            /\ \/ k = got[s]
               \/ k = Append(got[s], Len(got[s]) + 1) /\ Len(got[s]) < sent[s]
<1>1. /\ Coming(s) \in Seq(Messages) /\ got[s] \in Seq(Nat) /\ sent[s] \in Nat
      /\ got \in [Sock -> Seq(Nat)]
  BY TwoQueues DEF MailInv, MailTypeOK, Coming
<1>2. Orderly(Coming(s), Len(got[s]), sent[s], pipe[s]) /\ Len(got[s]) \in Nat
  BY <1>1 DEF MailInv, QueuesInOrder
<1>3. CASE msg.kind = "data"
  <2>1. msg.n = Len(got[s]) + 1
    BY <1>1, <1>2, <1>3, HeadIsNext DEF Orderly
  <2>2. /\ Follows(q, Len(got[s]) + 1) /\ Bounded(q, sent[s]) /\ Len(got[s]) + 1 <= sent[s]
        /\ pipe[s] = "up" => Complete(q, Len(got[s]) + 1, sent[s])
    BY <1>1, <1>2, <1>3, TakeData DEF Orderly
  <2> DEFINE k == Append(got[s], Len(got[s]) + 1)
  <2>3. k \in Seq(Nat) /\ Len(k) = Len(got[s]) + 1
    BY <1>1
  <2>4. got' = [got EXCEPT ![s] = k]
    BY <1>1, <1>3, <2>1 DEF Consume
  <2>5. Len(got[s]) < sent[s]
    BY <1>1, <1>2, <2>2
  <2> QED BY <2>2, <2>3, <2>4, <2>5 DEF Orderly
<1>4. CASE msg.kind # "data"
  <2>1. Follows(q, Len(got[s])) /\ Bounded(q, sent[s]) /\ (pipe[s] = "up" => Complete(q, Len(got[s]), sent[s]))
    BY <1>1, <1>2, <1>4, TakeOther DEF Orderly
  <2>2. got' = [got EXCEPT ![s] = got[s]]
    BY <1>1, <1>4 DEF Consume
  <2> QED BY <1>1, <1>2, <2>1, <2>2 DEF Orderly
<1> QED BY <1>3, <1>4

\* A mailbox whose messages move has its actor, and keeps its types.
LEMMA MailboxState ==
  ASSUME MailInv, NEW s \in Sock
  PROVE  /\ pending[s] \in Seq(Messages) /\ wire[s] \in Seq(Messages)
         /\ got[s] \in Seq(Nat) /\ Len(got[s]) \in Nat /\ sent[s] \in Nat /\ pipe[s] \in {"none", "up", "gone"}
         /\ Orderly(Coming(s), Len(got[s]), sent[s], pipe[s])
         /\ pending[s] # <<>> \/ wire[s] # <<>> => pipe[s] # "none"
         /\ pending = [pending EXCEPT ![s] = pending[s]] /\ wire = [wire EXCEPT ![s] = wire[s]]
         /\ got = [got EXCEPT ![s] = got[s]] /\ sent = [sent EXCEPT ![s] = sent[s]]
         /\ pipe = [pipe EXCEPT ![s] = pipe[s]]
<1>1. pending[s] \in Seq(Messages) /\ wire[s] \in Seq(Messages)
  BY DEF MailInv, MailTypeOK
<1>2. pending[s] # <<>> \/ wire[s] # <<>> => Coming(s) # <<>>
  BY <1>1, TwoQueues DEF Coming
<1> QED BY <1>1, <1>2 DEF MailInv, MailTypeOK, NotDialed, QueuesInOrder

\* recv!, from what nng-poll saved and from the wire.
LEMMA RecvKeeps ==
  ASSUME MailInv, NEW s \in Sock, RecvPending(s) \/ (RecvMessage(s) /\ vm \in VmCalls)
  PROVE  /\ MailInv'
         /\ \/ got' = got
            \/ /\ ~closed[s] /\ Len(got[s]) < sent[s]
               /\ got' = [got EXCEPT ![s] = Append(@, Len(@) + 1)]
         /\ sent' = sent /\ closed' = closed
<1>a. /\ pending[s] \in Seq(Messages) /\ wire[s] \in Seq(Messages)
      /\ got[s] \in Seq(Nat) /\ Len(got[s]) \in Nat /\ sent[s] \in Nat /\ pipe[s] \in {"none", "up", "gone"}
      /\ Orderly(Coming(s), Len(got[s]), sent[s], pipe[s])
      /\ pending[s] # <<>> \/ wire[s] # <<>> => pipe[s] # "none"
  BY MailboxState
<1>b. /\ pending = [pending EXCEPT ![s] = pending[s]] /\ wire = [wire EXCEPT ![s] = wire[s]]
      /\ got = [got EXCEPT ![s] = got[s]] /\ sent = [sent EXCEPT ![s] = sent[s]]
      /\ pipe = [pipe EXCEPT ![s] = pipe[s]]
  BY MailboxState
<1>1. CASE RecvPending(s)
  <2>1. /\ pending[s] # <<>> /\ Consume(s, Head(pending[s]))
        /\ pending' = [pending EXCEPT ![s] = Tail(pending[s])]
        /\ UNCHANGED <<actor, pipe, wire, sent, closed, vm>> /\ vm = Idle /\ ~closed[s]
    BY <1>1 DEF RecvPending, Usable
  <2>2. /\ WithoutHead(Tail(pending[s]) \o wire[s], Coming(s))
        /\ Coming(s) # <<>> /\ Coming(s)[1] = Head(pending[s])
    BY <1>a, <2>1, TwoQueues DEF Coming
  <2>3. PICK k \in Seq(Nat) :
            /\ got' = [got EXCEPT ![s] = k]
            /\ Orderly(Tail(pending[s]) \o wire[s], Len(k), sent[s], pipe[s])
            /\ \/ k = got[s]
               \/ k = Append(got[s], Len(got[s]) + 1) /\ Len(got[s]) < sent[s]
    BY <2>1, <2>2, TakenInOrder
  <2>4. Tail(pending[s]) \in Seq(Messages)
    BY <1>a, <2>1
  <2>5. pipe[s] \in {"up", "gone"} /\ pipe[s] # "none"
    BY <1>a, <2>1
  <2>6. NoneSaved'
    BY <2>1 DEF NoneSaved, Idle
  <2>7. /\ wire' = [wire EXCEPT ![s] = wire[s]] /\ sent' = [sent EXCEPT ![s] = sent[s]]
        /\ pipe' = [pipe EXCEPT ![s] = pipe[s]]
    BY <1>b, <2>1
  <2>8. Moves(s, Tail(pending[s]), wire[s], k, sent[s], pipe[s])
    BY <1>a, <2>1, <2>3, <2>4, <2>5, <2>7 DEF Moves
  <2>9. MailInv'
    BY <2>3, <2>6, <2>8, OneMailbox
  <2> QED BY <1>b, <2>1, <2>3, <2>9
<1>2. CASE RecvMessage(s) /\ vm \in VmCalls
  <2>1. /\ wire[s] # <<>> /\ Consume(s, Head(wire[s]))
        /\ wire' = [wire EXCEPT ![s] = Tail(wire[s])]
        /\ UNCHANGED <<actor, pipe, pending, sent, closed>> /\ ~closed[s]
        /\ vm.op = "recv" /\ vm.sock = s
        /\ vm' = Idle \/ vm' = [vm EXCEPT !.skip = @ + 1]
    BY <1>2 DEF RecvMessage
  <2>2. pending[s] = <<>>
    BY <2>1 DEF MailInv, NoneSaved
  <2>3. /\ WithoutHead(pending[s] \o Tail(wire[s]), Coming(s))
        /\ Coming(s) # <<>> /\ Coming(s)[1] = Head(wire[s])
    BY <1>a, <2>1, <2>2, TwoQueues DEF Coming
  <2>4. PICK k \in Seq(Nat) :
            /\ got' = [got EXCEPT ![s] = k]
            /\ Orderly(pending[s] \o Tail(wire[s]), Len(k), sent[s], pipe[s])
            /\ \/ k = got[s]
               \/ k = Append(got[s], Len(got[s]) + 1) /\ Len(got[s]) < sent[s]
    BY <2>1, <2>3, TakenInOrder
  <2>5. Tail(wire[s]) \in Seq(Messages)
    BY <1>a, <2>1
  <2>6. pipe[s] \in {"up", "gone"} /\ pipe[s] # "none"
    BY <1>a, <2>1
  <2>7. NoneSaved'
    BY <1>2, <2>1, <2>2 DEF NoneSaved, Idle, VmCalls
  <2>8. /\ pending' = [pending EXCEPT ![s] = pending[s]] /\ sent' = [sent EXCEPT ![s] = sent[s]]
        /\ pipe' = [pipe EXCEPT ![s] = pipe[s]]
    BY <1>b, <2>1
  <2>9. Moves(s, pending[s], Tail(wire[s]), k, sent[s], pipe[s])
    BY <1>a, <2>1, <2>4, <2>5, <2>6, <2>8 DEF Moves
  <2>10. MailInv'
    BY <2>4, <2>7, <2>9, OneMailbox
  <2> QED BY <1>b, <2>1, <2>4, <2>10
<1> QED BY <1>1, <1>2

\* nng-poll saves a message: it stays the first.
LEMMA PollKeeps ==
  ASSUME MailInv, NEW s \in Sock, Poll(s)
  PROVE  MailInv' /\ UNCHANGED <<sent, got, closed>>
<1>a. /\ pending[s] \in Seq(Messages) /\ wire[s] \in Seq(Messages)
      /\ got[s] \in Seq(Nat) /\ Len(got[s]) \in Nat /\ sent[s] \in Nat /\ pipe[s] \in {"none", "up", "gone"}
      /\ Orderly(Coming(s), Len(got[s]), sent[s], pipe[s])
      /\ pending[s] # <<>> \/ wire[s] # <<>> => pipe[s] # "none"
  BY MailboxState
<1>b. /\ pending = [pending EXCEPT ![s] = pending[s]] /\ wire = [wire EXCEPT ![s] = wire[s]]
      /\ got = [got EXCEPT ![s] = got[s]] /\ sent = [sent EXCEPT ![s] = sent[s]]
      /\ pipe = [pipe EXCEPT ![s] = pipe[s]]
  BY MailboxState
<1>1. /\ pending[s] = <<>> /\ wire[s] # <<>> /\ vm' = vm /\ vm = Idle
      /\ pending' = [pending EXCEPT ![s] = <<Head(wire[s])>>]
      /\ wire' = [wire EXCEPT ![s] = Tail(wire[s])]
      /\ UNCHANGED <<actor, pipe, sent, got, closed>>
  BY DEF Poll, Usable
<1>2. /\ Front(<<Head(wire[s])>> \o Tail(wire[s]), Coming(s))
      /\ Len(<<Head(wire[s])>> \o Tail(wire[s])) = Len(Coming(s))
      /\ Coming(s) \in Seq(Messages)
  BY <1>a, <1>1, TwoQueues DEF Coming
<1>3. Orderly(<<Head(wire[s])>> \o Tail(wire[s]), Len(got[s]), sent[s], pipe[s])
  BY ZenonT(60), <1>a, <1>2, CutQueue DEF Orderly
<1>4. <<Head(wire[s])>> \in Seq(Messages) /\ Tail(wire[s]) \in Seq(Messages)
  BY <1>a, <1>1
<1>5. pipe[s] \in {"up", "gone"} /\ pipe[s] # "none"
  BY <1>a, <1>1
<1>6. NoneSaved'
  BY <1>1 DEF NoneSaved, Idle
<1>7. /\ got' = [got EXCEPT ![s] = got[s]] /\ sent' = [sent EXCEPT ![s] = sent[s]]
      /\ pipe' = [pipe EXCEPT ![s] = pipe[s]]
  BY <1>b, <1>1
<1>8. Moves(s, <<Head(wire[s])>>, Tail(wire[s]), got[s], sent[s], pipe[s])
  BY <1>a, <1>1, <1>4, <1>5, <1>7 DEF Moves
<1>9. MailInv'
  BY <1>3, <1>6, <1>8, OneMailbox
<1> QED BY <1>1, <1>9

\* The actor's end puts a message on the wire.
LEMMA WirePutKeeps ==
  ASSUME MailInv, NEW s \in Sock, pipe[s] = "up", UNCHANGED <<actor, pipe, pending, closed, vm, got>>,
         NEW m \in Messages, wire' = [wire EXCEPT ![s] = Append(@, m)],
         \/ m.kind # "data" /\ sent' = sent
         \/ m = Data(sent[s] + 1) /\ sent' = [sent EXCEPT ![s] = sent[s] + 1]
  PROVE  MailInv'
<1>a. /\ pending[s] \in Seq(Messages) /\ wire[s] \in Seq(Messages)
      /\ got[s] \in Seq(Nat) /\ Len(got[s]) \in Nat /\ sent[s] \in Nat /\ pipe[s] \in {"none", "up", "gone"}
      /\ Orderly(Coming(s), Len(got[s]), sent[s], pipe[s])
      /\ pending[s] # <<>> \/ wire[s] # <<>> => pipe[s] # "none"
  BY MailboxState
<1>b. /\ pending = [pending EXCEPT ![s] = pending[s]] /\ wire = [wire EXCEPT ![s] = wire[s]]
      /\ got = [got EXCEPT ![s] = got[s]] /\ sent = [sent EXCEPT ![s] = sent[s]]
      /\ pipe = [pipe EXCEPT ![s] = pipe[s]]
  BY MailboxState
<1>1. Coming(s) \in Seq(Messages) /\ Extended(pending[s] \o Append(wire[s], m), Coming(s), m)
  BY <1>a, TwoQueues DEF Coming
<1>2. Append(wire[s], m) \in Seq(Messages) /\ Len(got[s]) \in Nat
  BY <1>a
<1>3. \E last \in Nat : /\ sent' = [sent EXCEPT ![s] = last]
                        /\ Orderly(pending[s] \o Append(wire[s], m), Len(got[s]), last, pipe[s])
  <2>1. CASE m.kind # "data" /\ sent' = sent
    BY SMTT(30), <1>a, <1>b, <1>1, <1>2, <2>1, ExtendQueue DEF Orderly
  <2>2. CASE m = Data(sent[s] + 1) /\ sent' = [sent EXCEPT ![s] = sent[s] + 1]
    <3>1. /\ Follows(Coming(s), Len(got[s])) /\ Bounded(Coming(s), sent[s]) /\ Len(got[s]) <= sent[s]
          /\ Complete(Coming(s), Len(got[s]), sent[s])
      BY <1>a DEF Orderly
    <3>2. LET q == pending[s] \o Append(wire[s], m)
          IN  Follows(q, Len(got[s])) /\ Bounded(q, sent[s] + 1) /\ Complete(q, Len(got[s]), sent[s] + 1)
      BY <1>a, <1>1, <2>2, <3>1, ExtendQueue
    <3>3. sent[s] + 1 \in Nat /\ Len(got[s]) <= sent[s] + 1
      BY <1>a, <3>1
    <3> QED BY <2>2, <3>2, <3>3 DEF Orderly
  <2> QED BY <2>1, <2>2
<1>4. PICK last \in Nat : /\ sent' = [sent EXCEPT ![s] = last]
                          /\ Orderly(pending[s] \o Append(wire[s], m), Len(got[s]), last, pipe[s])
  BY <1>3
<1>5. NoneSaved'
  BY DEF NoneSaved, MailInv
<1>6. /\ got' = [got EXCEPT ![s] = got[s]] /\ pending' = [pending EXCEPT ![s] = pending[s]]
      /\ pipe' = [pipe EXCEPT ![s] = pipe[s]]
  BY <1>b
<1>7. Moves(s, pending[s], Append(wire[s], m), got[s], last, pipe[s])
  BY <1>a, <1>2, <1>4, <1>6 DEF Moves
<1> QED BY <1>4, <1>5, <1>7, OneMailbox

LEMMA ActorEndKeeps ==
  ASSUME MailInv, NEW s \in Sock, ActorSend(s) \/ ActorPing(s) \/ ActorRecv(s)
  PROVE  MailInv' /\ UNCHANGED <<got, closed>> /\ (sent' = sent \/ sent' = [sent EXCEPT ![s] = @ + 1])
<1>1. CASE ActorSend(s)
  <2>1. /\ pipe[s] = "up" /\ UNCHANGED <<actor, pipe, pending, closed, vm, got>>
        /\ sent' = [sent EXCEPT ![s] = sent[s] + 1]
        /\ wire' = [wire EXCEPT ![s] = Append(@, Data(sent[s] + 1))]
    BY <1>1 DEF ActorSend, Talks, MailInv, MailTypeOK
  <2>2. Data(sent[s] + 1) \in Messages
    BY MailboxState DEF Data, Messages
  <2> QED BY <2>1, <2>2, WirePutKeeps
<1>2. ASSUME Ping \in Messages, Ping.kind # "data", ActorPing(s) PROVE MailInv' /\ UNCHANGED <<got, closed, sent>>
  BY <1>2, WirePutKeeps DEF ActorPing, Talks
<1>3. Ping \in Messages /\ Ping.kind # "data" /\ Pong \in Messages /\ Pong.kind # "data"
  BY DEF Ping, Pong, Messages
<1>4. CASE ActorRecv(s)
  <2>1. UNCHANGED <<actor, pipe, pending, closed, vm, got, sent>> /\ pipe[s] = "up"
    BY <1>4 DEF ActorRecv
  <2>2. CASE wire' = [wire EXCEPT ![s] = Append(@, Pong)]
    BY <1>3, <2>1, <2>2, WirePutKeeps
  <2>3. CASE wire' = wire
    <3>1. pipe' \in [Sock -> {"none", "up", "gone"}] /\ closed' \in [Sock -> BOOLEAN]
      BY <2>1 DEF MailInv, MailTypeOK
    <3>2. MailInv'
      BY <2>1, <2>3, <3>1, QuietKeeps
    <3> QED BY <2>1, <3>2
  <2> QED BY <1>4, <2>1, <2>2, <2>3 DEF ActorRecv, Offer
<1> QED BY <1>1, <1>2, <1>3, <1>4

\* What had not arrived when the connection was lost is cut off the wire.
LEMMA LossKeeps ==
  ASSUME MailInv, NEW s \in Sock, PipeRemoved(s)
  PROVE  MailInv' /\ UNCHANGED <<sent, got, closed>>
<1>a. /\ pending[s] \in Seq(Messages) /\ wire[s] \in Seq(Messages)
      /\ got[s] \in Seq(Nat) /\ Len(got[s]) \in Nat /\ sent[s] \in Nat /\ pipe[s] \in {"none", "up", "gone"}
      /\ Orderly(Coming(s), Len(got[s]), sent[s], pipe[s])
      /\ pending[s] # <<>> \/ wire[s] # <<>> => pipe[s] # "none"
  BY MailboxState
<1>b. /\ pending = [pending EXCEPT ![s] = pending[s]] /\ wire = [wire EXCEPT ![s] = wire[s]]
      /\ got = [got EXCEPT ![s] = got[s]] /\ sent = [sent EXCEPT ![s] = sent[s]]
      /\ pipe = [pipe EXCEPT ![s] = pipe[s]]
  BY MailboxState
<1>1. PICK n \in 0 .. Len(wire[s]) : wire' = [wire EXCEPT ![s] = SubSeq(wire[s], 1, n)]
  BY DEF PipeRemoved
<1>2. /\ pipe[s] = "up" /\ pipe' = [pipe EXCEPT ![s] = "gone"]
      /\ UNCHANGED <<actor, sent, pending, closed, vm, got>>
  BY DEF PipeRemoved
<1>3. /\ Front(pending[s] \o SubSeq(wire[s], 1, n), Coming(s)) /\ Coming(s) \in Seq(Messages)
      /\ SubSeq(wire[s], 1, n) \in Seq(Messages)
  <2>1. /\ \A k \in 0 .. Len(wire[s]) : Front(pending[s] \o SubSeq(wire[s], 1, k), pending[s] \o wire[s])
        /\ pending[s] \o wire[s] \in Seq(Messages)
    BY <1>a, TwoQueues
  <2>2. SubSeq(wire[s], 1, n) \in Seq(Messages)
    BY <1>a
  <2> QED BY <2>1, <2>2 DEF Coming
<1>4. Orderly(pending[s] \o SubSeq(wire[s], 1, n), Len(got[s]), sent[s], "gone")
  BY <1>a, <1>3, CutQueue DEF Orderly
<1>5. NoneSaved'
  BY <1>2 DEF NoneSaved, MailInv
<1>6. /\ got' = [got EXCEPT ![s] = got[s]] /\ pending' = [pending EXCEPT ![s] = pending[s]]
      /\ sent' = [sent EXCEPT ![s] = sent[s]]
  BY <1>b, <1>2
<1>7. Moves(s, pending[s], SubSeq(wire[s], 1, n), got[s], sent[s], "gone")
  BY <1>a, <1>1, <1>2, <1>3, <1>6 DEF Moves
<1>8. MailInv'
  BY <1>4, <1>5, <1>7, OneMailbox
<1> QED BY <1>2, <1>8

\* The socket is shut, by the program or by the debugger.
LEMMA ShutKeeps ==
  ASSUME MailInv, NEW s \in Sock, Shut(s), vm' = vm
  PROVE  MailInv' /\ UNCHANGED <<sent, got>> /\ closed' = [closed EXCEPT ![s] = TRUE]
<1>1. /\ UNCHANGED <<wire, pending, sent, got, actor>> /\ closed' = [closed EXCEPT ![s] = TRUE]
      /\ pipe' = [pipe EXCEPT ![s] = IF @ = "up" THEN "gone" ELSE @]
  BY DEF Shut
<1>2. pipe \in [Sock -> {"none", "up", "gone"}] /\ closed \in [Sock -> BOOLEAN]
  BY DEF MailInv, MailTypeOK
<1>3. pipe' \in [Sock -> {"none", "up", "gone"}] /\ closed' \in [Sock -> BOOLEAN]
  BY <1>1, <1>2
<1>4. ASSUME NEW t \in Sock
      PROVE  /\ pipe'[t] = pipe[t] \/ <<pipe[t], pipe'[t]>> \in {<<"up", "gone">>, <<"none", "up">>}
             /\ actor[t] \in {"none", "new"} => pipe'[t] = pipe[t]
  BY <1>1, <1>2 DEF MailInv, NotDialed
<1>5. MailInv'
  BY <1>1, <1>3, <1>4, QuietKeeps
<1> QED BY <1>1, <1>5

\* All other steps of the program and of the socket's threads move no message.
Still == UNCHANGED <<wire, pending, sent, got, actor, pipe, closed>>

LEMMA StillKeeps ==
  ASSUME MailInv, Still, vm' = vm \/ vm'.op # "recv" \/ pending[vm'.sock] = <<>>
  PROVE  MailInv'
<1>1. UNCHANGED <<wire, pending, sent, got, actor, pipe, closed>>
  BY DEF Still
<1>2. pipe' \in [Sock -> {"none", "up", "gone"}] /\ closed' \in [Sock -> BOOLEAN]
  BY <1>1 DEF MailInv, MailTypeOK
<1> QED BY <1>1, <1>2, QuietKeeps

LEMMA StillSteps ==
  ASSUME NEW s \in Sock,
         \/ RecvNotification(s) \/ \E m \in RecvModes : RecvBegin(s, m) \/ SendBegin(s, m)
         \/ RecvNothing(s) \/ SendEnd(s) \/ Monitor(s) \/ Demonitor(s) \/ EnableHeartbeat(s)
         \/ CallbackTests(s) \/ CallbackPushes(s) \/ BeatPing(s) \/ BeatStamp(s) \/ BeatCheck(s)
  PROVE  Still /\ (vm' = vm \/ vm'.op # "recv" \/ pending[vm'.sock] = <<>>)
<1> USE DEF Still, ends
<1>1. Idle.op # "recv" /\ \A m : Call("send", s, m).op # "recv" /\ Call("recv", s, m).sock = s
  BY DEF Idle, Call
<1>2. CASE RecvNotification(s) \/ Monitor(s) \/ Demonitor(s) \/ EnableHeartbeat(s)
  BY <1>2 DEF RecvNotification, Monitor, Demonitor, EnableHeartbeat
<1>3. ASSUME NEW m \in RecvModes, RecvBegin(s, m)
      PROVE  Still /\ pending[vm'.sock] = <<>>
  BY <1>1, <1>3 DEF RecvBegin
<1>4. ASSUME NEW m \in RecvModes, SendBegin(s, m)
      PROVE  Still /\ vm'.op # "recv"
  BY <1>1, <1>4 DEF SendBegin
<1>5. CASE RecvNothing(s) \/ SendEnd(s)
  BY <1>1, <1>5 DEF RecvNothing, SendEnd
<1>6. CASE CallbackTests(s) \/ CallbackPushes(s) \/ BeatPing(s) \/ BeatStamp(s) \/ BeatCheck(s)
  BY <1>6 DEF CallbackTests, CallbackPushes, BeatPing, BeatStamp, BeatCheck
<1> QED BY <1>2, <1>3, <1>4, <1>5, <1>6

\* The actors' steps move no message; Dial makes the connection.
LEMMA ActorKeepsMail ==
  ASSUME MailInv, LifeInv, NEW s \in Sock, Actor(s)
  PROVE  MailInv' /\ UNCHANGED <<sent, got, closed>>
<1> DEFINE Pipes == {"none", "up", "gone"}
<1>1. actor \in [Sock -> Phases] /\ pipe \in [Sock -> Pipes] /\ closed \in [Sock -> BOOLEAN]
  BY DEF LifeInv, LifeTypeOK, MailInv, MailTypeOK
<1>2. /\ UNCHANGED <<wire, pending, sent, got, closed, vm>>
      /\ \E phase \in Phases \ {"none", "new"} : actor' = [actor EXCEPT ![s] = phase]
  BY DEF Actor, Dial, Loaded, Fails, Started, Returns, Exited, Enter, NotActor, Phases
<1>3. pipe' = pipe \/ (pipe' = [pipe EXCEPT ![s] = "up"] /\ pipe[s] = "none")
  <2>1. CASE Dial(s)
    <3>1. pipe[s] = "none"
      BY <2>1 DEF Dial, Enter, MailInv, NotDialed
    <3> QED BY <1>1, <2>1, <3>1 DEF Dial
  <2>2. CASE Loaded(s) \/ Fails(s) \/ Started(s) \/ Returns(s) \/ Exited(s)
    BY <2>2 DEF Loaded, Fails, Started, Returns, Exited, NotActor
  <2> QED BY <2>1, <2>2 DEF Actor
<1>4. pipe' \in [Sock -> Pipes]
  BY <1>1, <1>3
<1>5. ASSUME NEW t \in Sock
      PROVE  /\ pipe'[t] = pipe[t] \/ <<pipe[t], pipe'[t]>> \in {<<"up", "gone">>, <<"none", "up">>}
             /\ actor'[t] \in {"none", "new"} => actor[t] \in {"none", "new"} /\ pipe'[t] = pipe[t]
  BY <1>1, <1>2, <1>3
<1>6. MailInv'
  BY <1>1, <1>2, <1>4, <1>5, QuietKeeps
<1> QED BY <1>2, <1>6

\* The manager and the debugger touch a mailbox only to shut it.  Spawn takes
\* an actor from "none" to "new", which changes nothing here.
LEMMA ManagerKeepsMail ==
  ASSUME MailInv, LifeInv,
         \/ \E s \in Sock : ManagerCalls(s) \/ ReapEnd(s) \/ JoinEnd(s)
         \/ Quit \/ DestroyNext \/ Debugger
  PROVE  /\ MailInv' /\ UNCHANGED <<sent, got>>
         /\ closed' = closed \/ \E s \in Sock : closed' = [closed EXCEPT ![s] = TRUE]
<1>1. Idle.op # "recv" /\ \A op, s, m : Call(op, s, m).op = op
  BY DEF Idle, Call
<1>2. ASSUME NEW s \in Sock, Spawn(s) PROVE MailInv' /\ UNCHANGED <<sent, got, closed>>
  <2>1. UNCHANGED <<wire, pending, sent, got, closed, vm, pipe>> /\ actor[s] = "none"
        /\ actor' = [actor EXCEPT ![s] = "new"] /\ actor \in [Sock -> Phases]
    BY <1>2 DEF Spawn, NotActor, LifeInv, LifeTypeOK
  <2>2. pipe' \in [Sock -> {"none", "up", "gone"}] /\ closed' \in [Sock -> BOOLEAN]
    BY <2>1 DEF MailInv, MailTypeOK
  <2>3. \A t \in Sock : actor'[t] \in {"none", "new"} => actor[t] \in {"none", "new"}
    BY <2>1
  <2> QED BY <2>1, <2>2, <2>3, QuietKeeps
<1>3. ASSUME NEW s \in Sock,
             \/ \E why \in {"wait", "kill"} : ReapBegin(s, why)
             \/ JoinBegin(s) \/ ReapEnd(s) \/ JoinEnd(s)
      PROVE  Still /\ vm'.op # "recv"
  BY <1>1, <1>3 DEF ReapBegin, JoinBegin, ReapEnd, JoinEnd, OnlyVm, ends, Still
<1>4. ASSUME Quit \/ DestroyNext PROVE Still /\ vm'.op # "recv"
  BY <1>1, <1>4 DEF Quit, DestroyNext, OnlyVm, ends, Still
<1>5. ASSUME Listed \/ \E s \in Sock, op \in {"list", "terminate"} : Request(op, s) PROVE Still /\ vm' = vm
  BY <1>5 DEF Listed, Request, mbox, ends, Still
<1>6. ASSUME NEW s \in Sock, Terminated(s)
      PROVE  /\ MailInv' /\ UNCHANGED <<sent, got>>
             /\ closed' = closed \/ closed' = [closed EXCEPT ![s] = TRUE]
  <2>1. CASE closed[s]
    BY <1>6, <2>1, StillKeeps DEF Terminated, mbox, ends, Still
  <2>2. CASE ~closed[s]
    BY <1>6, <2>2, ShutKeeps DEF Terminated
  <2> QED BY <2>1, <2>2
<1>7. Still => UNCHANGED <<sent, got, closed>>
  BY DEF Still
<1>8. CASE \E s \in Sock : ManagerCalls(s) \/ ReapEnd(s) \/ JoinEnd(s)
  BY <1>2, <1>3, <1>7, <1>8, StillKeeps DEF ManagerCalls
<1>9. CASE Quit \/ DestroyNext
  BY <1>4, <1>7, <1>9, StillKeeps
<1>10. CASE Debugger
  BY <1>5, <1>6, <1>7, <1>10, StillKeeps, ActorAssumption DEF Debugger
<1> QED BY <1>8, <1>9, <1>10

\* The mailbox's own steps.
LEMMA MailStepKeeps ==
  ASSUME MailInv, LifeInv, NEW s \in Sock, MailStep(s)
  PROVE  MailInv' /\ [Channel!Next]_(Channel!vars)
<1>1. vm \in VmCalls
  BY DEF LifeInv, LifeTypeOK
<1>2. CASE RecvPending(s) \/ RecvMessage(s)
  BY <1>1, <1>2, RecvKeeps DEF Channel!Next, Channel!Give, Channel!vars
<1>3. CASE Poll(s)
  BY <1>3, PollKeeps DEF Channel!vars
<1>4. CASE ActorSend(s) \/ ActorPing(s) \/ ActorRecv(s)
  BY <1>4, ActorEndKeeps DEF Channel!Next, Channel!Put, Channel!vars
<1>5. CASE PipeRemoved(s)
  BY <1>5, LossKeeps DEF Channel!vars
<1>6. CASE Close(s)
  BY <1>6, ShutKeeps DEF Close, Channel!Next, Channel!Close, Channel!vars
<1>7. CASE \/ RecvNotification(s) \/ \E m \in RecvModes : RecvBegin(s, m) \/ SendBegin(s, m)
           \/ RecvNothing(s) \/ SendEnd(s) \/ Monitor(s) \/ Demonitor(s) \/ EnableHeartbeat(s)
           \/ CallbackTests(s) \/ CallbackPushes(s) \/ BeatPing(s) \/ BeatStamp(s) \/ BeatCheck(s)
  <2>1. Still /\ MailInv'
    BY <1>7, StillSteps, StillKeeps
  <2> QED BY <2>1 DEF Still, Channel!vars
<1> QED BY <1>2, <1>3, <1>4, <1>5, <1>6, <1>7 DEF MailStep, MailCalls, MailEnds, Transport, Recv

LEMMA InitMail == Init => MailInv /\ Channel!Init
<1> SUFFICES ASSUME Init PROVE MailInv /\ Channel!Init
  OBVIOUS
<1>1. Channel!Init
  BY DEF Init, MailboxInit, Channel!Init
<1>2. MailTypeOK
  BY DEF Init, MailboxInit, MailTypeOK
<1>3. \A s \in Sock : /\ pipe[s] = "none" /\ got[s] = <<>> /\ sent[s] = 0
                      /\ Coming(s) = <<>>
  <2>1. <<>> \o <<>> = <<>>
    OBVIOUS
  <2> QED BY <2>1 DEF Init, MailboxInit, Coming
<1>4. NotDialed /\ NoneSaved
  BY <1>3 DEF NotDialed, NoneSaved, Init, MailboxInit, Idle
<1>5. QueuesInOrder
  <2>1. Orderly(<<>>, 0, 0, "none")
    BY DEF Orderly, Follows, Bounded
  <2>2. Len(<<>>) = 0
    OBVIOUS
  <2> QED BY <1>3, <2>1, <2>2 DEF QueuesInOrder
<1> QED BY <1>1, <1>2, <1>4, <1>5 DEF MailInv

LEMMA NextMail == MailInv /\ LifeInv /\ [Next]_vars => MailInv' /\ [Channel!Next]_(Channel!vars)
<1> SUFFICES ASSUME MailInv, LifeInv, [Next]_vars PROVE MailInv' /\ [Channel!Next]_(Channel!vars)
  OBVIOUS
<1>1. CASE UNCHANGED vars
  <2>1. Still /\ vm' = vm
    BY <1>1 DEF vars, mbox, ends, Still
  <2> QED BY <2>1, StillKeeps DEF Still, Channel!vars
<1>2. ASSUME NEW s \in Sock, MailStep(s) PROVE MailInv' /\ [Channel!Next]_(Channel!vars)
  BY <1>2, MailStepKeeps
<1>3. ASSUME NEW s \in Sock, Actor(s) PROVE MailInv' /\ [Channel!Next]_(Channel!vars)
  BY <1>3, ActorKeepsMail DEF Channel!vars
<1>4. CASE \/ \E s \in Sock : ManagerCalls(s) \/ ReapEnd(s) \/ JoinEnd(s)
           \/ Quit \/ DestroyNext \/ Debugger
  BY <1>4, ManagerKeepsMail DEF Channel!Next, Channel!Close, Channel!vars
<1> QED BY <1>1, <1>2, <1>3, <1>4 DEF Next, MailStep

-----------------------------------------------------------------------------
\* What is on its way to recv! continues what it has returned, in every
\* reachable state.
THEOREM MailInvariant == Spec => []MailInv
<1>1. Init => MailInv
  BY InitMail
<1>2. MailInv /\ LifeInv /\ [Next]_vars => MailInv'
  BY NextMail
<1> QED BY LifeInvariant, <1>1, <1>2, PTL DEF Spec

\* The mailboxes implement channels: recv! returns what the actor sent, in
\* order, each message once and none skipped (recv!, nng-poll, send!).
THEOREM MailboxKeepsChannel == Spec => KeepsChannel
<1>1. Init => Channel!Init
  BY InitMail
<1>2. MailInv /\ LifeInv /\ [Next]_vars => [Channel!Next]_(Channel!vars)
  BY NextMail
<1> QED BY MailInvariant, LifeInvariant, <1>1, <1>2, PTL DEF Spec, KeepsChannel, Channel!Spec
=============================================================================
