------------------------------ MODULE Mailbox -------------------------------
(***************************************************************************)
(* The parent's end of an actor's mailbox: a pair socket whose other end   *)
(* an actor (a thread or a process) dials.  The VM thread calls send!,     *)
(* recv!, nng-poll, monitor, demonitor, enable-heartbeat and nng-close;    *)
(* nng's I/O thread calls the monitor's callback; a heartbeat thread pings.*)
(* wire and out are what nng holds between the ends.                       *)
(***************************************************************************)
EXTENDS Naturals, Sequences

CONSTANTS Sock, NoSock,
          RecvModes,   \* the flags recv! and send! are called with
          MaxSent,     \* bound: messages an actor sends on a socket
          MaxWire,     \* messages nng holds in one direction
          MaxSkip,     \* MAX_HB_SKIP
          MaxNotif     \* bound: notifications a socket's threads may leave unread

VARIABLES actor,       \* "none", "new", "loading", "starting", "running", "leaving", "ended"
          pipe,        \* the connection: "none", "up", "gone"
          wire, out,   \* towards the VM, towards the actor
          pending,     \* pending_msgs: taken off the wire by nng-poll
          notif,       \* notif_msgs: "down", "timeout" or a message emptied meanwhile
          monitored, closing, closed,
          callback,    \* monitor_pipe_cb: "idle", "called", "passed" its tests
          beat,        \* the heartbeat thread: "off", "delay", "sent", "wait"
          ponged,      \* last_pong_epoch_ms: "before" the last ping's stamp, of the
                       \* "same" millisecond, "after" it
          vm,          \* the call the VM thread is in
          sent, got, told   \* history

ends    == <<actor, pipe, wire, out, sent>>
monitor == <<monitored, callback>>
beating == <<beat, ponged>>
mbox    == <<ends, pending, notif, monitor, closing, closed, beating, vm, got, told>>

Idle    == [op |-> "idle", sock |-> NoSock, mode |-> "none", skip |-> 0]
Data(n) == [kind |-> "data", n |-> n]
Ping    == [kind |-> "ping", n |-> 0]
Pong    == [kind |-> "pong", n |-> 0]
Call(op, s, m) == [op |-> op, sock |-> s, mode |-> m, skip |-> 0]

MailboxInit ==
  /\ actor = [s \in Sock |-> "none"]
  /\ pipe = [s \in Sock |-> "none"]
  /\ wire = [s \in Sock |-> <<>>] /\ out = [s \in Sock |-> <<>>]
  /\ pending = [s \in Sock |-> <<>>] /\ notif = [s \in Sock |-> <<>>]
  /\ monitored = [s \in Sock |-> FALSE] /\ callback = [s \in Sock |-> "idle"]
  /\ closing = [s \in Sock |-> FALSE] /\ closed = [s \in Sock |-> FALSE]
  /\ beat = [s \in Sock |-> "off"] /\ ponged = [s \in Sock |-> "before"]
  /\ vm = Idle
  /\ sent = [s \in Sock |-> 0] /\ got = [s \in Sock |-> <<>>]
  /\ told = [s \in Sock |-> {}]

Usable(s) == vm = Idle /\ actor[s] # "none" /\ ~closed[s]

\* nng_send with NNG_FLAG_NONBLOCK: the message is taken or refused.
Offer(q, s, m) == IF pipe[s] = "up" /\ Len(q[s]) < MaxWire
                  THEN [q EXCEPT ![s] = Append(@, m)] ELSE q

-----------------------------------------------------------------------------
(* The VM thread.                                                          *)

\* recv! hands over a message: data is returned, a ping is answered and a
\* pong noted, and the program does not see those two.
Consume(s, msg) ==
  /\ got' = IF msg.kind = "data" THEN [got EXCEPT ![s] = Append(@, msg.n)] ELSE got
  /\ out' = IF msg.kind = "ping" THEN Offer(out, s, Pong) ELSE out
  /\ ponged' = IF msg.kind = "pong" THEN [ponged EXCEPT ![s] = "after"] ELSE ponged

\* A notification goes first, then what nng-poll saved, then the wire.
RecvNotification(s) ==
  /\ Usable(s)
  /\ notif[s] # <<>>
  /\ notif' = [notif EXCEPT ![s] = Tail(@)]
  /\ told' = [told EXCEPT ![s] = @ \cup ({Head(notif[s])} \ {"empty"})]
  /\ UNCHANGED <<ends, pending, monitor, closing, closed, beating, vm, got>>

RecvPending(s) ==
  /\ Usable(s)
  /\ notif[s] = <<>> /\ pending[s] # <<>>
  /\ Consume(s, Head(pending[s]))
  /\ pending' = [pending EXCEPT ![s] = Tail(@)]
  /\ UNCHANGED <<actor, pipe, wire, sent, notif, monitor, closing, closed,
                 beat, vm, told>>

RecvPastPending(s, m) ==
  /\ Usable(s)
  /\ notif[s] = <<>>
  /\ vm' = Call("recv", s, m)
  /\ UNCHANGED <<ends, pending, notif, monitor, closing, closed, beating, got, told>>
RecvBegin(s, m) ==
  /\ Usable(s)
  /\ notif[s] = <<>> /\ pending[s] = <<>>
  /\ vm' = Call("recv", s, m)
  /\ UNCHANGED <<ends, pending, notif, monitor, closing, closed, beating, got, told>>

\* One turn of recv_loop: at most MaxSkip heartbeats are passed over.
RecvMessage(s) ==
  /\ vm.op = "recv" /\ vm.sock = s /\ ~closed[s]
  /\ wire[s] # <<>>
  /\ Consume(s, Head(wire[s]))
  /\ wire' = [wire EXCEPT ![s] = Tail(@)]
  /\ vm' = IF Head(wire[s]).kind = "data" \/ vm.skip + 1 = MaxSkip
           THEN Idle ELSE [vm EXCEPT !.skip = @ + 1]
  /\ UNCHANGED <<actor, pipe, sent, pending, notif, monitor, closing, closed,
                 beat, told>>

\* NNG_EAGAIN and NNG_ETIMEDOUT; 'wait knows neither.  A lost connection does
\* not end the wait, a closed socket does.
RecvNothing(s) ==
  /\ vm.op = "recv" /\ vm.sock = s
  /\ closed[s] \/ (wire[s] = <<>> /\ vm.mode # "wait")
  /\ vm' = Idle
  /\ UNCHANGED <<ends, pending, notif, monitor, closing, closed, beating, got, told>>

\* nng-poll saves one message of a socket that has none saved.  It does not
\* look at notif_msgs.
Poll(s) ==
  /\ Usable(s)
  /\ pending[s] = <<>> /\ wire[s] # <<>>
  /\ pending' = [pending EXCEPT ![s] = <<Head(wire[s])>>]
  /\ wire' = [wire EXCEPT ![s] = Tail(@)]
  /\ UNCHANGED <<actor, pipe, out, sent, notif, monitor, closing, closed,
                 beating, vm, got, told>>

\* send!: 'noblock gives up at once, the others wait for room.
SendBegin(s, m) ==
  /\ Usable(s)
  /\ out' = Offer(out, s, Data(0))
  /\ vm' = IF out' # out \/ m = "noblock" THEN Idle ELSE Call("send", s, m)
  /\ UNCHANGED <<actor, pipe, wire, sent, pending, notif, monitor, closing,
                 closed, beating, got, told>>

SendEnd(s) ==
  /\ vm.op = "send" /\ vm.sock = s
  /\ out' = Offer(out, s, Data(0))
  /\ closed[s] \/ out' # out
  /\ vm' = Idle
  /\ UNCHANGED <<actor, pipe, wire, sent, pending, notif, monitor, closing,
                 closed, beating, got, told>>

Monitor(s) ==
  /\ Usable(s)
  /\ monitored' = [monitored EXCEPT ![s] = TRUE]
  /\ UNCHANGED <<ends, pending, notif, callback, closing, closed, beating, vm, got, told>>

Demonitor(s) ==
  /\ vm = Idle /\ monitored[s]
  /\ monitored' = [monitored EXCEPT ![s] = FALSE]
  /\ UNCHANGED <<ends, pending, notif, callback, closing, closed, beating, vm, got, told>>

\* The model's programs start a heartbeat where none runs: one that is
\* replaced while it runs is told to stop and detached.
EnableHeartbeat(s) ==
  /\ Usable(s)
  /\ beat[s] = "off" /\ Len(notif[s]) < MaxNotif
  /\ beat' = [beat EXCEPT ![s] = "delay"]
  /\ ponged' = [ponged EXCEPT ![s] = "before"]
  /\ UNCHANGED <<ends, pending, notif, monitor, closing, closed, vm, got, told>>

\* closing_normally and stop are set, then the socket is closed: what a
\* heartbeat does after that nobody reads.
Shut(s) ==
  /\ closing' = [closing EXCEPT ![s] = TRUE]
  /\ closed' = [closed EXCEPT ![s] = TRUE]
  /\ beat' = [beat EXCEPT ![s] = "off"]
  /\ pipe' = [pipe EXCEPT ![s] = IF @ = "up" THEN "gone" ELSE @]
  /\ UNCHANGED <<actor, wire, out, sent, pending, notif, monitor, ponged, got, told>>

Close(s) == Usable(s) /\ Shut(s) /\ UNCHANGED vm

-----------------------------------------------------------------------------
(* The actor's end.                                                        *)

Talks(s) == actor[s] = "running" /\ pipe[s] = "up" /\ Len(wire[s]) < MaxWire

ActorSend(s) ==
  /\ Talks(s)
  /\ sent[s] < MaxSent
  /\ sent' = [sent EXCEPT ![s] = @ + 1]
  /\ wire' = [wire EXCEPT ![s] = Append(@, Data(sent'[s]))]
  /\ UNCHANGED <<actor, pipe, out, pending, notif, monitor, closing, closed,
                 beating, vm, got, told>>

\* The actor's own heartbeat.
ActorPing(s) ==
  /\ Talks(s)
  /\ wire' = [wire EXCEPT ![s] = Append(@, Ping)]
  /\ UNCHANGED <<actor, pipe, out, sent, pending, notif, monitor, closing,
                 closed, beating, vm, got, told>>

\* The actor's recv! answers a ping; without room the pong is dropped.
ActorRecv(s) ==
  /\ actor[s] = "running" /\ pipe[s] = "up"
  /\ out[s] # <<>>
  /\ out' = [out EXCEPT ![s] = Tail(@)]
  /\ wire' = IF Head(out[s]).kind = "ping" THEN Offer(wire, s, Pong) ELSE wire
  /\ UNCHANGED <<actor, pipe, sent, pending, notif, monitor, closing, closed,
                 beating, vm, got, told>>

\* The actor's end is gone.  What had not arrived is lost with it.
PipeRemoved(s) ==
  /\ actor[s] = "ended" /\ pipe[s] = "up"
  /\ pipe' = [pipe EXCEPT ![s] = "gone"]
  /\ \E k \in 0 .. Len(wire[s]) : wire' = [wire EXCEPT ![s] = SubSeq(@, 1, k)]
  /\ out' = [out EXCEPT ![s] = <<>>]
  /\ callback' = [callback EXCEPT ![s] = IF monitored[s] THEN "called" ELSE @]
  /\ UNCHANGED <<actor, sent, pending, notif, monitored, closing, closed,
                 beating, vm, got, told>>

-----------------------------------------------------------------------------
(* nng's I/O thread and the heartbeat threads.                             *)

CallbackTestsOnce(s) ==
  /\ callback[s] = "called"
  /\ callback' = [callback EXCEPT ![s] =
                    IF ~closing[s] /\ monitored[s] /\ notif[s] = <<>> THEN "passed" ELSE "idle"]
  /\ UNCHANGED <<ends, pending, notif, monitored, closing, closed, beating, vm, got, told>>
CallbackTests(s) ==
  /\ callback[s] = "called"
  /\ callback' = [callback EXCEPT ![s] =
                    IF ~closing[s] /\ monitored[s] THEN "passed" ELSE "idle"]
  /\ UNCHANGED <<ends, pending, notif, monitored, closing, closed, beating, vm, got, told>>

\* demonitor clears monitor_down_msg without a lock: the copy may be empty.
CallbackPushes(s) ==
  /\ callback[s] = "passed"
  /\ callback' = [callback EXCEPT ![s] = "idle"]
  /\ \E m \in IF monitored[s] THEN {"down"} ELSE {"down", "empty"} :
        notif' = [notif EXCEPT ![s] = Append(@, m)]
  /\ UNCHANGED <<ends, pending, monitored, closing, closed, beating, vm, got, told>>

BeatPing(s) ==
  /\ beat[s] = "delay"
  /\ out' = Offer(out, s, Ping)
  /\ beat' = [beat EXCEPT ![s] = "sent"]
  /\ UNCHANGED <<actor, pipe, wire, sent, pending, notif, monitor, closing,
                 closed, ponged, vm, got, told>>

\* ping_time is read after the send; the last pong may have been handled in
\* the same millisecond.
BeatStampless(s) ==
  /\ beat[s] = "sent"
  /\ beat' = [beat EXCEPT ![s] = "wait"]
  /\ UNCHANGED <<ends, pending, notif, monitor, closing, closed, ponged, vm, got, told>>
BeatStamp(s) ==
  /\ beat[s] = "sent"
  /\ beat' = [beat EXCEPT ![s] = "wait"]
  /\ \E t \in {"before"} \cup (IF ponged[s] = "after" THEN {"same"} ELSE {}) :
        ponged' = [ponged EXCEPT ![s] = t]
  /\ UNCHANGED <<ends, pending, notif, monitor, closing, closed, vm, got, told>>

BeatCheck(s) ==
  /\ beat[s] = "wait"
  /\ beat' = [beat EXCEPT ![s] = IF ponged[s] = "before" THEN "off" ELSE "delay"]
  /\ notif' = IF ponged[s] = "before" THEN [notif EXCEPT ![s] = Append(@, "timeout")]
              ELSE notif
  /\ UNCHANGED <<ends, pending, monitor, closing, closed, ponged, vm, got, told>>

Transport(s) == \/ ActorSend(s) \/ ActorPing(s) \/ ActorRecv(s) \/ PipeRemoved(s)
                \/ CallbackTests(s) \/ CallbackPushes(s)
                \/ BeatPing(s) \/ BeatStamp(s) \/ BeatCheck(s)
=============================================================================
