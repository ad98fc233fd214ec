----------------------------- MODULE Supervisor -----------------------------
(***************************************************************************)
(* std.supervisor's one-for-one and one-for-all as the program of the VM   *)
(* thread: it spawns and monitors a child for every slot, polls the        *)
(* children, receives from the first that is ready and, on a down message, *)
(* restarts.  A restarted child gets a socket of its own.                  *)
(***************************************************************************)
EXTENDS ProcessManager

CONSTANTS Slot,
          Strategy      \* "one-for-one", "one-for-all"

VARIABLES child,        \* the socket of each slot: the vector children
          pc,           \* "start", "monitor", "poll", "recv", "got", "kill"
          slot,         \* the slot being started or killed
          ready         \* the socket supervisor-poll receives from

supervising == <<child, pc, slot, ready>>
svars == <<vars, supervising>>

SInit == /\ Init
         /\ child = [i \in Slot |-> NoSock]
         /\ pc = "start" /\ slot \in Slot /\ ready = NoSock

Children == {child[i] : i \in Slot}
Unstarted == {i \in Slot : child[i] = NoSock}

\* (spawn (vector-ref specs i)), then (monitor s).
Start == /\ pc = "start"
         /\ \E s \in Sock : /\ actor[s] = "none" /\ Spawn(s)
                            /\ child' = [child EXCEPT ![slot] = s]
         /\ pc' = "monitor"
         /\ UNCHANGED <<slot, ready>>

Watch == /\ pc = "monitor"
         /\ Monitor(child[slot])
         /\ IF Unstarted = {}
            THEN pc' = "poll" /\ UNCHANGED slot
            ELSE pc' = "start" /\ slot' \in Unstarted
         /\ UNCHANGED <<child, ready, managed>>

\* nng-poll: a child is ready when it has a message, saved or on the wire.
Ready(s) == pending[s] # <<>> \/ wire[s] # <<>>

PollChildren ==
  /\ pc = "poll"
  /\ \E s \in Children : /\ Ready(s)
                         /\ ready' = s
                         /\ IF pending[s] = <<>> THEN Poll(s) ELSE UNCHANGED mbox
  /\ pc' = "recv"
  /\ UNCHANGED <<child, slot, managed>>

\* (recv! sock): a down message is acted on, anything else is let go.
Receive ==
  /\ pc = "recv"
  /\ \/ RecvNotification(ready) /\ pc' = "got"
     \/ RecvPending(ready) /\ pc' = "poll"
  /\ UNCHANGED <<child, slot, ready, managed>>

Restart ==
  /\ pc = "got"
  /\ slot' \in {i \in Slot : child[i] = ready}
  /\ pc' = IF Strategy = "one-for-one" THEN "start" ELSE "kill"
  /\ child' = IF Strategy = "one-for-one" THEN [child EXCEPT ![slot'] = NoSock] ELSE child
  /\ UNCHANGED <<ready, vars>>

\* one-for-all: kill-all, then start-all.
KillAll ==
  /\ pc = "kill"
  /\ \/ \E s \in Children : ReapBegin(s, "kill") /\ UNCHANGED supervising
     \/ \E s \in Children : ReapEnd(s) /\ UNCHANGED supervising
     \/ /\ vm = Idle /\ \A s \in Children : ~handle[s]
        /\ child' = [i \in Slot |-> NoSock]
        /\ pc' = "start"
        /\ UNCHANGED <<slot, ready, vars>>

Supervise == Start \/ Watch \/ PollChildren \/ Receive \/ Restart \/ KillAll

Elsewhere == \E s \in Sock : \/ Transport(s) /\ UNCHANGED managed
                             \/ Actor(s)

SNext == Supervise \/ (Elsewhere /\ UNCHANGED supervising)

\* The supervisor loops, and so does everything under it.
SSpec == SInit /\ [][SNext]_svars /\ WF_svars(Supervise)
         /\ WF_svars(\E s \in Sock : (PipeRemoved(s) \/ CallbackTests(s) \/ CallbackPushes(s))
                                     /\ UNCHANGED <<managed, supervising>>)
         /\ WF_svars(\E s \in Sock : (Dial(s) \/ Loaded(s)) /\ UNCHANGED supervising)
         /\ WF_svars(vm.mode = "kill" /\ Fails(vm.sock) /\ UNCHANGED supervising)
-----------------------------------------------------------------------------
\* docs/guide/reference/supervisor.md: a crashed child "is restarted".  A child
\* that had come up and was monitored, and dies, is replaced in its slot, for
\* as long as the model has sockets to restart with.
CrashedChildIsRestarted ==
  \A i \in Slot : \A s \in Sock :
    (child[i] = s /\ monitored[s] /\ pipe[s] = "up" /\ actor[s] = "ended") 
      ~> (child[i] # s \/ \A t \in Sock : actor[t] # "none")
=============================================================================
