--------------------------------- MODULE Tcp ---------------------------------
(***************************************************************************)
(* A stream socket: the socket calls of src/kernel/syscall/sys_net.c and   *)
(* the TCP client of src/kernel/net/net.c under them.                      *)
(*                                                                         *)
(* The threads of one process use the socket; a task is interrupted        *)
(* anywhere outside irq_save.  Frames are dispatched by whichever task     *)
(* drains the card (any socket call of any process, DNS, ARP), so an       *)
(* arrival is an action of its own, whatever the tasks of this socket do.  *)
(*                                                                         *)
(* The network loses, repeats, delays and reorders: what one side has sent *)
(* on this connection may get to the other at any time, any number of      *)
(* times, or never.  The peer is a TCP of its own (modelled from what the  *)
(* code expects of it): it may cut its stream into any segments and        *)
(* acknowledges what it has.  Numbers are those of the wire, modulo        *)
(* Modulus; a byte of the peer's stream is its position, 1, 2, 3, ...      *)
(***************************************************************************)
EXTENDS Integers, Sequences, FiniteSetsExt

CONSTANTS Task,        \* the threads of the process
          Reaper,      \* the task that cleans up after a process
          Modulus,     \* 2^32
          Iss, Irs,    \* the initial sequence numbers of the two sides
          Written,     \* bound: bytes the peer writes
          Budget,      \* bound: bytes the process sends
          RxCap,       \* NET_TCP_RX_CAP
          Chunk,       \* 1200, the most one segment takes
          Counts       \* byte counts of send and recv

ASSUME ReaperAssumption == Reaper \notin Task
ASSUME BoundsAssumption ==
  /\ Modulus \in Nat /\ {Iss, Irs} \subseteq 0 .. Modulus - 1
  /\ {Written, Budget, RxCap, Chunk} \subseteq Nat
  /\ RxCap > 0 /\ Chunk > 0 /\ 2 * (Written + 2) < Modulus /\ 2 * (Budget + 2) < Modulus
ASSUME CountsAssumption == Counts \subseteq Nat \ {0}

VARIABLES sock,    \* used (0, 1, or 2: being closed), connected
          pcb,     \* the net_tcp_pcb; queue is rx_buf from rx_head on, and registered
                   \* is left out: it holds exactly while state is not "CLOSED"
          peer,    \* open, how many bytes it has sent, ended (its FIN), rst, and how
                   \* many bytes of ours it has got, and whether it got our FIN
          wire,    \* what we have sent: syn, fin, and the data segments
          pc,      \* where each task is in its call
          call,    \* count and left of that call, and the number it waits for
          taken,   \* history: the bytes recv has handed out on this connection
          answer   \* what the call that has just ended answered

vars == <<sock, pcb, peer, wire, pc, call, taken, answer>>

NoPcb == [cancelled |-> FALSE, seq |-> 0, ack |-> 0, snd_una |-> 0, state |-> "CLOSED",
          rx_closed |-> FALSE, rx_reset |-> FALSE, queue |-> <<>>]
NoPeer == [open |-> FALSE, sent |-> 0, ended |-> FALSE, rst |-> FALSE,
           got |-> 0, got_fin |-> FALSE]
NoWire == [syn |-> FALSE, fin |-> FALSE, data |-> {}]
NoCall == [count |-> 0, left |-> 0, want |-> 0]

Silence == [call |-> "none", code |-> 0, bytes |-> <<>>, upto |-> 0]
Quiet == answer' = Silence
Failure(c) == [Silence EXCEPT !.call = c, !.code = -1]

Init ==
  /\ sock = [used |-> 0, connected |-> FALSE]
  /\ pcb = NoPcb /\ peer = NoPeer /\ wire = NoWire
  /\ pc = [t \in Task \cup {Reaper} |-> "user"]
  /\ call = [t \in Task |-> NoCall]
  /\ taken = <<>>
  /\ answer = Silence

Plus(m, n) == (m + n) % Modulus
(* (int32_t)(m - n) >= 0.                                                  *)
UpTo(m, n) == (m - n) % Modulus < Modulus \div 2

(* net_tcp_pcb_init: with it the connection and all that belongs to it.    *)
PcbInit ==
  /\ pcb' = NoPcb /\ peer' = NoPeer /\ wire' = NoWire /\ taken' = <<>>

(* net_tcp_mark_closed.                                                    *)
MarkClosed(p) == [p EXCEPT !.state = "CLOSED"]

Goto(t, place) == pc' = [pc EXCEPT ![t] = place]
Return(t, a) ==
  /\ Goto(t, "user")
  /\ call' = [call EXCEPT ![t] = NoCall]
  /\ answer' = a

(* socket_get finds the socket.  Calls that fail there are left out: they  *)
(* change nothing.                                                         *)
Mine(t) == pc[t] = "user" /\ sock.used = 1 /\ pc[Reaper] = "user"
(* A thread connects or closes while no other is in a call on the socket:  *)
(* what the comment in net_tcp_close_pcb asks of programs.                 *)
Alone(t) == \A u \in Task \ {t} : pc[u] = "user"

-----------------------------------------------------------------------------
(* sys_socket.                                                             *)
Socket(t) ==
  /\ pc[t] = "user" /\ sock.used = 0
  /\ sock' = [used |-> 1, connected |-> FALSE]
  /\ PcbInit
  /\ Quiet
  /\ UNCHANGED <<pc, call>>

(* sys_connect up to its call of net_tcp_connect_pcb.                      *)
Connect(t) ==
  /\ Mine(t) /\ Alone(t)
  /\ ~sock.connected /\ ~pcb.cancelled
  /\ PcbInit
  /\ Goto(t, "connect")
  /\ Quiet
  /\ UNCHANGED <<sock, call>>

(* net_tcp_connect_pcb up to its loop.                                     *)
ConnectSyn(t) ==
  /\ pc[t] = "connect"
  /\ \/ /\ pcb.cancelled
        /\ Goto(t, "unconnected")
        /\ UNCHANGED <<pcb, wire>>
     \/ /\ ~pcb.cancelled
        /\ pcb' = [pcb EXCEPT !.seq = Iss, !.ack = 0, !.snd_una = Iss, !.state = "SYN_SENT",
                              !.rx_closed = FALSE, !.rx_reset = FALSE]
        /\ wire' = [wire EXCEPT !.syn = TRUE]
        /\ Goto(t, "syn")
     \/ /\ ~pcb.cancelled   \* ip_send fails
        /\ pcb' = MarkClosed([pcb EXCEPT !.seq = Iss, !.ack = 0, !.snd_una = Iss])
        /\ Goto(t, "unconnected")
        /\ UNCHANGED wire
  /\ Quiet
  /\ UNCHANGED <<sock, peer, call, taken>>

(* One pass of its loop; a repeated SYN is one more copy on the wire.      *)
ConnectLook(t) ==
  /\ pc[t] = "syn"
  /\ \/ /\ pcb.cancelled \/ (pcb.state # "ESTABLISHED" /\ pcb.rx_reset)
        /\ Goto(t, "unconnected")
        /\ UNCHANGED pcb
     \/ /\ ~pcb.cancelled /\ pcb.state = "ESTABLISHED"
        /\ Goto(t, "connected")
        /\ UNCHANGED pcb
     \/ /\ ~pcb.cancelled /\ pcb.state # "ESTABLISHED" /\ ~pcb.rx_reset   \* the deadline
        /\ pcb' = MarkClosed(pcb)
        /\ Goto(t, "unconnected")
  /\ Quiet
  /\ UNCHANGED <<sock, peer, wire, call, taken>>

(* The rest of sys_connect.                                                *)
ConnectEnd(t) ==
  \/ /\ pc[t] = "connected" /\ ~pcb.cancelled
     /\ sock' = [sock EXCEPT !.connected = TRUE]
     /\ Return(t, [Silence EXCEPT !.call = "connect"])
     /\ UNCHANGED <<pcb, peer, wire, taken>>
  \/ /\ pc[t] \in {"connected", "unconnected"} /\ pcb.cancelled
     /\ Return(t, Failure("connect"))
     /\ UNCHANGED <<sock, pcb, peer, wire, taken>>
  \/ /\ pc[t] = "unconnected" /\ ~pcb.cancelled
     /\ PcbInit
     /\ Return(t, Failure("connect"))
     /\ UNCHANGED sock

-----------------------------------------------------------------------------
(* sys_send.                                                               *)
Offset(n) == LET d == (n - Iss) % Modulus IN IF d = 0 THEN 0 ELSE d - 1
Offered == IF peer.open THEN Offset(pcb.seq) ELSE 0
Sending(t) == pc[t] \in {"send", "unacked"}
Pending == MapThenSumSet(LAMBDA u : call[u].count, {u \in Task : Sending(u)})
Send(t, n) ==
  /\ Mine(t) /\ sock.connected
  /\ Offered + Pending + n <= Budget
  /\ Goto(t, "send")
  /\ call' = [call EXCEPT ![t] = [count |-> n, left |-> n, want |-> 0]]
  /\ Quiet
  /\ UNCHANGED <<sock, pcb, peer, wire, taken>>

(* A pass of the outer loop of net_tcp_send_pcb.  The number of a chunk is *)
(* taken before the chunk is sent, and is not given back.                  *)
SendChunk(t) ==
  /\ pc[t] = "send"
  /\ \/ /\ pcb.cancelled \/ pcb.state # "ESTABLISHED"
        /\ Return(t, Failure("send"))
        /\ UNCHANGED <<pcb, wire>>
     \/ /\ ~pcb.cancelled /\ pcb.state = "ESTABLISHED"
        /\ LET want == Plus(pcb.seq, Min({call[t].left, Chunk})) IN
           /\ pcb' = [pcb EXCEPT !.seq = want]
           /\ \/ /\ wire' = [wire EXCEPT !.data = @ \cup {<<pcb.seq, want>>}]
                 /\ call' = [call EXCEPT ![t].want = want]
                 /\ Goto(t, "unacked")
                 /\ Quiet
              \/ /\ Return(t, Failure("send"))   \* ip_send fails
                 /\ UNCHANGED wire
  /\ UNCHANGED <<sock, peer, taken>>

AckedUnsigned(t) == pcb.snd_una >= call[t].want   \* mutant: numbers do not wrap around
Acked(t) == UpTo(pcb.snd_una, call[t].want)

(* A pass of the inner loop; a repeated chunk is one more copy on the wire. *)
SendLook(t) ==
  /\ pc[t] = "unacked"
  /\ \/ /\ pcb.cancelled \/ ~Acked(t)   \* shut down, broken off, or out of retries
        /\ Return(t, Failure("send"))
     \/ /\ ~pcb.cancelled /\ Acked(t)
        /\ LET left == call[t].left - Min({call[t].left, Chunk}) IN
           \/ /\ left > 0
              /\ call' = [call EXCEPT ![t].left = left, ![t].want = 0]
              /\ Goto(t, "send")
              /\ Quiet
           \/ /\ left = 0
              /\ Return(t, [Silence EXCEPT !.call = "send", !.code = call[t].count,
                                           !.upto = Offset(call[t].want)])
  /\ UNCHANGED <<sock, pcb, peer, wire, taken>>

-----------------------------------------------------------------------------
(* sys_recv.                                                               *)
Recv(t, n) ==
  /\ Mine(t) /\ sock.connected
  /\ Goto(t, "recv")
  /\ call' = [call EXCEPT ![t].count = n]
  /\ Quiet
  /\ UNCHANGED <<sock, pcb, peer, wire, taken>>

(* A pass of the loop of net_tcp_recv_pcb, as it reads one thing after     *)
(* another: net_tcp_take_rx ...                                            *)
RecvTake(t) ==
  /\ pc[t] = "recv"
  /\ \/ /\ pcb.cancelled
        /\ Return(t, Failure("recv"))
        /\ UNCHANGED <<pcb, taken>>
     \/ /\ ~pcb.cancelled /\ pcb.queue # <<>>
        /\ LET n == Min({call[t].count, Len(pcb.queue)})
               bytes == SubSeq(pcb.queue, 1, n)
           IN /\ Return(t, [call |-> "recv", code |-> n, bytes |-> bytes, upto |-> 0])
              /\ pcb' = [pcb EXCEPT !.queue = SubSeq(@, n + 1, Len(@))]
              /\ taken' = taken \o bytes
     \/ /\ ~pcb.cancelled /\ pcb.queue = <<>>
        /\ Goto(t, "empty")
        /\ Quiet
        /\ UNCHANGED <<pcb, call, taken>>
  /\ UNCHANGED <<sock, peer, wire>>

(* ... then rx_reset, which is told once ...                               *)
RecvReset(t) ==
  /\ pc[t] = "empty"
  /\ \/ /\ pcb.rx_reset
        /\ pcb' = [pcb EXCEPT !.rx_reset = FALSE]
        /\ Return(t, Failure("recv"))
     \/ /\ ~pcb.rx_reset
        /\ Goto(t, "open")
        /\ Quiet
        /\ UNCHANGED <<pcb, call>>
  /\ UNCHANGED <<sock, peer, wire, taken>>

AtEnd == pcb.state = "CLOSED" \/ pcb.rx_closed

(* ... then the state, and at last the deadline.                           *)
RecvEnd(t) ==
  /\ pc[t] = "open"
  /\ \/ /\ AtEnd
        /\ Return(t, [Silence EXCEPT !.call = "recv"])
     \/ /\ ~AtEnd
        /\ \/ /\ Goto(t, "recv")
              /\ Quiet
              /\ UNCHANGED call
           \/ Return(t, Failure("recv"))
  /\ UNCHANGED <<sock, pcb, peer, wire, taken>>

-----------------------------------------------------------------------------
(* sys_shutdown, by any thread at any time.                                *)
Shutdown(t) ==
  /\ Mine(t)
  /\ pcb' = [pcb EXCEPT !.cancelled = TRUE]
  /\ Quiet
  /\ UNCHANGED <<sock, peer, wire, pc, call, taken>>

(* sys_closesocket, and sys_net_cleanup_owner, up to net_tcp_close_pcb.    *)
StartClose(t) ==
  /\ sock' = [used |-> 2, connected |-> FALSE]
  /\ Goto(t, IF pcb.state = "CLOSED" THEN "closed" ELSE "close")

Close(t) ==
  /\ Mine(t) /\ Alone(t)
  /\ StartClose(t)
  /\ Quiet
  /\ UNCHANGED <<pcb, peer, wire, call, taken>>

(* net_tcp_close_pcb.  After a shutdown it sends a RST and goes; otherwise *)
(* it sends a FIN and waits for the peer's.                                *)
CloseTcp(t) ==
  /\ pc[t] = "close"
  /\ \/ /\ pcb.cancelled \/ pcb.state # "ESTABLISHED"
        /\ pcb' = MarkClosed(pcb)
        /\ Goto(t, "closed")
        /\ UNCHANGED wire
     \/ /\ ~pcb.cancelled /\ pcb.state = "ESTABLISHED"
        /\ pcb' = [pcb EXCEPT !.seq = Plus(@, 1)]
        /\ wire' = [wire EXCEPT !.fin = TRUE]
        /\ Goto(t, "fin")
  /\ Quiet
  /\ UNCHANGED <<sock, peer, call, taken>>

(* The peer has closed too, has acknowledged enough, or the deadline is    *)
(* over.                                                                   *)
CloseFin(t) ==
  /\ pc[t] = "fin"
  /\ pcb' = MarkClosed(pcb)
  /\ Goto(t, "closed")
  /\ Quiet
  /\ UNCHANGED <<sock, peer, wire, call, taken>>

(* net_tcp_pcb_init and socket_clear.                                      *)
Free(t) ==
  /\ pc[t] = "closed"
  /\ PcbInit
  /\ sock' = [used |-> 0, connected |-> FALSE]
  /\ Goto(t, "user")
  /\ Quiet
  /\ UNCHANGED call

(* task_kill or an exit of the process, wherever its threads are; the slot *)
(* of the socket is looked at when the process is reaped.                  *)
Kill ==
  /\ pc[Reaper] = "user" /\ sock.used # 0
  /\ pc' = [t \in Task \cup {Reaper} |-> IF t = Reaper THEN "reap" ELSE "user"]
  /\ call' = [t \in Task |-> NoCall]
  /\ Quiet
  /\ UNCHANGED <<sock, pcb, peer, wire, taken>>

(* sys_net_cleanup_owner: a socket that was being closed is not found.     *)
Cleanup ==
  /\ pc[Reaper] = "reap"
  /\ \/ sock.used = 1 /\ StartClose(Reaper)
     \/ sock.used # 1 /\ Goto(Reaper, "user") /\ UNCHANGED sock
  /\ Quiet
  /\ UNCHANGED <<pcb, peer, wire, call, taken>>

-----------------------------------------------------------------------------
(* The peer.                                                               *)
PeerStep(p) ==
  /\ peer' = p
  /\ Quiet
  /\ UNCHANGED <<sock, pcb, wire, pc, call, taken>>

PeerAccept == wire.syn /\ ~peer.open /\ ~peer.rst /\ PeerStep([peer EXCEPT !.open = TRUE])
PeerReset == wire.syn /\ ~peer.rst /\ PeerStep([peer EXCEPT !.rst = TRUE])
PeerWrite ==
  /\ peer.open /\ ~peer.ended /\ ~peer.rst /\ peer.sent < Written
  /\ PeerStep([peer EXCEPT !.sent = @ + 1])
PeerEnd == peer.open /\ ~peer.ended /\ ~peer.rst /\ PeerStep([peer EXCEPT !.ended = TRUE])

(* A data segment of ours, or our FIN, arrives in order at the peer.       *)
PeerGet ==
  /\ peer.open /\ ~peer.rst
  /\ \E s \in wire.data :
       /\ Offset(s[1]) <= peer.got /\ peer.got < Offset(s[2])
       /\ PeerStep([peer EXCEPT !.got = Offset(s[2])])
PeerGetFin ==
  /\ peer.open /\ ~peer.rst
  /\ wire.fin /\ ~peer.got_fin /\ Plus(peer.got, Iss + 2) = pcb.seq
  /\ PeerStep([peer EXCEPT !.got_fin = TRUE])

-----------------------------------------------------------------------------
(* net_tcp_dispatch_frame, for a frame of this connection.                 *)
Arrival(p) ==
  /\ pcb' = p
  /\ Quiet
  /\ UNCHANGED <<sock, peer, wire, pc, call, taken>>

DispatchReset ==
  /\ peer.rst /\ pcb.state # "CLOSED"
  /\ Arrival(MarkClosed([pcb EXCEPT !.rx_reset = TRUE]))

(* The peer answers our SYN: its acknowledgement is seq + 1.               *)
DispatchSynAck ==
  /\ peer.open /\ pcb.state = "SYN_SENT"
  /\ Arrival([pcb EXCEPT !.ack = Plus(Irs, 1), !.seq = Plus(@, 1), !.snd_una = Plus(pcb.seq, 1),
                         !.state = "ESTABLISHED"])

(* A segment: the number of its first byte, its bytes, FIN, acknowledgement. *)
Segments ==
  {[seq |-> Plus(Irs, 1 + i), bytes |-> [k \in 1 .. j - i |-> i + k], fin |-> f, ack |-> a] :
     i \in 0 .. peer.sent, j \in 0 .. peer.sent, f \in BOOLEAN,
     a \in {Plus(Iss, 1 + n) : n \in 0 .. peer.got} \cup
           (IF peer.got_fin THEN {Plus(Iss, 2 + peer.got)} ELSE {})}

TrimNothing(s) == s.bytes   \* mutant: bytes that are here already are queued again
(* What of its bytes is new.                                               *)
Trim(s) == IF UpTo(s.seq, pcb.ack) THEN s.bytes
           ELSE LET skip == Min({(pcb.ack - s.seq) % Modulus, Len(s.bytes)})
                IN SubSeq(s.bytes, skip + 1, Len(s.bytes))

(* net_tcp_queue_rx: what fits, if nothing is missing before it.           *)
QueueRx(s) ==
  IF UpTo(s.seq, Plus(pcb.ack, 1)) THEN <<>>
  ELSE SubSeq(Trim(s), 1, Min({Len(Trim(s)), RxCap - Len(pcb.queue)}))

FinWithData(s, ack) == s.fin /\ s.bytes # <<>> /\ ack = Plus(s.seq, Len(s.bytes))
                            \* mutant: a FIN without data is not seen
AcceptsFin(s, ack) == s.fin /\ ack = Plus(s.seq, Len(s.bytes))

(* What is acknowledged, then the bytes, then the FIN.  The answer, an     *)
(* acknowledgement, is left out: the peer may repeat what it likes.        *)
Received(s) ==
  LET una == IF UpTo(s.ack, pcb.snd_una) /\ UpTo(pcb.seq, s.ack) THEN s.ack ELSE pcb.snd_una
      queued == QueueRx(s)
      ack == Plus(pcb.ack, Len(queued))
      p == [pcb EXCEPT !.snd_una = una, !.queue = @ \o queued, !.ack = ack]
  IN IF AcceptsFin(s, ack) THEN MarkClosed([p EXCEPT !.ack = Plus(@, 1), !.rx_closed = TRUE])
                           ELSE p

DispatchData(s) ==
  /\ pcb.state = "ESTABLISHED"
  /\ Arrival(Received(s))

(* The FIN is on the last segment.  Segments that change nothing are left  *)
(* out.                                                                    *)
Possible(s) ==
  /\ s.fin => peer.ended /\ Plus(s.seq, Len(s.bytes)) = Plus(Irs, 1 + peer.sent)
  /\ Received(s) # pcb

(* What a peer that keeps trying sends again: all that is not acknowledged. *)
Resent ==
  LET n == Len(taken) + Len(pcb.queue) IN
  [seq |-> Plus(Irs, 1 + n), bytes |-> [k \in 1 .. peer.sent - n |-> n + k],
   fin |-> peer.ended, ack |-> Plus(Iss, 1 + peer.got)]

Next ==
  \/ \E t \in Task :
       \/ Socket(t) \/ Connect(t) \/ ConnectSyn(t) \/ ConnectLook(t) \/ ConnectEnd(t)
       \/ SendChunk(t) \/ SendLook(t) \/ RecvTake(t) \/ RecvReset(t) \/ RecvEnd(t)
       \/ Shutdown(t) \/ Close(t)
       \/ \E n \in Counts : Send(t, n) \/ Recv(t, n)
  \/ \E t \in Task \cup {Reaper} : CloseTcp(t) \/ CloseFin(t) \/ Free(t)
  \/ Kill \/ Cleanup
  \/ PeerAccept \/ PeerReset \/ PeerWrite \/ PeerEnd \/ PeerGet \/ PeerGetFin
  \/ DispatchReset \/ DispatchSynAck
  \/ peer.open /\ \E s \in Segments : Possible(s) /\ DispatchData(s)

(* Calls come to their deadlines; the process goes on receiving; the peer  *)
(* repeats what is not acknowledged, and one of the copies gets through.   *)
Spec ==
  /\ Init /\ [][Next]_vars
  /\ \A t \in Task : WF_vars(SendChunk(t) \/ SendLook(t) \/ RecvTake(t) \/ RecvReset(t) \/ RecvEnd(t))
  /\ SF_vars(\E t \in Task, n \in Counts : Recv(t, n))
  /\ SF_pcb(DispatchData(Resent))

-----------------------------------------------------------------------------
(* The variables stay in their ranges, and nothing is lost, repeated or    *)
(* out of order: what recv has handed out and what is queued is the peer's *)
(* stream from its beginning, as far as it has been acknowledged.  Once    *)
(* the peer's FIN is accepted it is the whole stream.                      *)
TypeOK ==
  /\ sock \in [used : 0 .. 2, connected : BOOLEAN]
  /\ {pcb.seq, pcb.ack, pcb.snd_una} \subseteq 0 .. Modulus - 1
  /\ pcb.state \in {"CLOSED", "SYN_SENT", "ESTABLISHED"}
  /\ Len(pcb.queue) <= RxCap
  /\ pc \in [Task \cup {Reaper} -> {"user", "connect", "syn", "connected", "unconnected", "send",
       "unacked", "recv", "empty", "open", "close", "fin", "closed", "reap"}]
  /\ sock.connected => sock.used = 1

StreamIntact ==
  LET here == taken \o pcb.queue IN
  /\ TypeOK
  /\ here = [i \in 1 .. Len(here) |-> i] /\ Len(here) <= peer.sent
  /\ pcb.state = "ESTABLISHED" => pcb.ack = Plus(Irs, 1 + Len(here))
  /\ pcb.rx_closed => peer.ended /\ Len(here) = peer.sent

(* A stream the peer has ended is heard to its end while the process goes  *)
(* on receiving, however small the queue: the FIN that did not fit is      *)
(* taken later.  Unless it is shut down or closed, or the process ends.    *)
EndIsHeard ==
  (peer.ended /\ pcb.state = "ESTABLISHED" /\ sock.connected)
    ~> (pcb.state = "CLOSED" \/ pcb.cancelled \/ ~sock.connected \/ pc[Reaper] # "user")

(***************************************************************************)
(* The socket keeps the promises of a conversation.                        *)
(***************************************************************************)
Abstract == INSTANCE Conversation WITH
  written <- peer.sent, ended <- peer.ended, arrived <- Len(taken) + Len(pcb.queue),
  offered <- Offered, reached <- peer.got,
  broken <- peer.rst /\ pcb.state = "CLOSED" /\ ~pcb.rx_closed

ImplementsConversation == Abstract!Spec
=============================================================================
