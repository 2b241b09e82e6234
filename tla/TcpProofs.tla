----------------------------- MODULE TcpProofs -----------------------------
(***************************************************************************)
(* Proofs about Tcp for all numbers of threads, sizes of the queue,        *)
(* initial sequence numbers and lengths of the peer's stream.              *)
(***************************************************************************)
EXTENDS Tcp, Remainders, SequenceTheorems, TLAPS

-----------------------------------------------------------------------------
(* Numbers that wrap around.                                               *)
LEMMA MinOfTwo ==
  ASSUME NEW m \in Int, NEW n \in Int
  PROVE  Min({m, n}) = IF m <= n THEN m ELSE n
<1> DEFINE k == IF m <= n THEN m ELSE n
<1>1. k \in {m, n} /\ \A y \in {m, n} : k =< y
  OBVIOUS
<1>2. \A x \in {m, n} : (\A y \in {m, n} : x =< y) => x = k
  OBVIOUS
<1> QED BY <1>1, <1>2 DEF Min

LEMMA Sizes ==
  /\ Modulus \in Nat \ {0} /\ Iss \in Int /\ Irs \in Int
  /\ Written \in Nat /\ RxCap \in Nat /\ RxCap > 0
  /\ Modulus \div 2 \in Nat /\ Written + 2 <= Modulus \div 2
  /\ Modulus - (Written + 2) >= Modulus \div 2 /\ Written + 2 < Modulus
BY BoundsAssumption

LEMMA PlusType == ASSUME NEW m \in Int, NEW n \in Int PROVE Plus(m, n) \in 0 .. Modulus - 1
BY Sizes, ModDef DEF Plus

LEMMA PlusPlus ==
  ASSUME NEW m \in Int, NEW n \in Int, NEW k \in Int
  PROVE  Plus(Plus(m, n), k) = Plus(m, n + k)
<1>1. m + n \in Int /\ (m + n) + k = m + (n + k)
  OBVIOUS
<1>2. (((m + n) % Modulus) + k) % Modulus = ((m + n) + k) % Modulus
  BY <1>1, Sizes, ModOfSum, Zenon
<1> QED BY <1>1, <1>2, Zenon DEF Plus

LEMMA PlusMinus ==
  ASSUME NEW m \in Int, NEW x \in Int, NEW y \in Int
  PROVE  (Plus(m, x) - Plus(m, y)) % Modulus = (x - y) % Modulus
<1> DEFINE a == m + x   b == m + y
<1>1. a \in Int /\ b \in Int /\ -b \in Int /\ a - b = x - y /\ a - b = a + (-b)
  OBVIOUS
<1>2. a % Modulus \in Int
  BY <1>1, Sizes, ModDef
<1>3. Plus(m, x) = a % Modulus /\ Plus(m, y) = b % Modulus
  BY DEF Plus
<1> HIDE DEF a, b
<1>4. ((a % Modulus) - (b % Modulus)) % Modulus = ((a % Modulus) - b) % Modulus
  BY <1>1, <1>2, Sizes, ModOfSum, Zenon
<1>5. (a % Modulus) - b = (a % Modulus) + (-b)
  BY <1>1, <1>2
<1>6. ((a % Modulus) + (-b)) % Modulus = (a + (-b)) % Modulus
  BY <1>1, Sizes, ModOfSum, Zenon
<1> QED BY <1>1, <1>3, <1>4, <1>5, <1>6, Zenon

(* Two numbers that are near in the stream are told apart.                 *)
Near(x, y) == x - y \in -(Written + 1) .. Written + 1

LEMMA Apart ==
  ASSUME NEW m \in Int, NEW x \in Int, NEW y \in Int, Near(x, y)
  PROVE  /\ UpTo(Plus(m, x), Plus(m, y)) <=> x >= y
         /\ Plus(m, x) = Plus(m, y) => x = y
         /\ x >= y => (Plus(m, x) - Plus(m, y)) % Modulus = x - y
<1> DEFINE d == x - y
<1>1. d \in Int /\ -(Written + 1) <= d /\ d <= Written + 1
  BY Sizes DEF Near
<1>2. (Plus(m, x) - Plus(m, y)) % Modulus = d % Modulus
  BY PlusMinus
<1> HIDE DEF d
<1>3. CASE d >= 0
  <2>1. d % Modulus = d
    BY <1>1, <1>3, Sizes, ModSmall
  <2>2. UpTo(Plus(m, x), Plus(m, y))
    BY <1>1, <1>2, <2>1, Sizes DEF UpTo
  <2>3. Plus(m, x) = Plus(m, y) => d = 0
    <3> SUFFICES ASSUME Plus(m, x) = Plus(m, y) PROVE d = 0
      OBVIOUS
    <3>1. Plus(m, x) - Plus(m, y) = 0
      BY PlusType
    <3>2. 0 % Modulus = 0
      BY Sizes, ModSmall
    <3> QED BY <1>2, <2>1, <3>1, <3>2
  <2> QED BY <1>2, <1>3, <2>1, <2>2, <2>3 DEF d
<1>4. CASE d < 0
  <2>1. d % Modulus = d + Modulus
    <3>1. d = Modulus * (-1) + (d + Modulus) /\ d + Modulus \in 0 .. Modulus - 1
      BY <1>1, <1>4, Sizes
    <3> QED BY <1>1, <3>1, Sizes, ModUnique
  <2>2. d + Modulus >= Modulus \div 2 /\ d + Modulus > 0
    BY <1>1, Sizes
  <2>3. ~UpTo(Plus(m, x), Plus(m, y))
    BY <1>1, <1>2, <2>1, <2>2, Sizes DEF UpTo
  <2>4. Plus(m, x) # Plus(m, y)
    <3> SUFFICES ASSUME Plus(m, x) = Plus(m, y) PROVE FALSE
      OBVIOUS
    <3>1. Plus(m, x) - Plus(m, y) = 0
      BY PlusType
    <3>2. 0 % Modulus = 0
      BY Sizes, ModSmall
    <3> QED BY <1>2, <2>1, <2>2, <3>1, <3>2
  <2> QED BY <1>4, <2>3, <2>4 DEF d
<1> QED BY <1>1, <1>3, <1>4

-----------------------------------------------------------------------------
(* The invariant.  What has been handed out and what is queued is counted  *)
(* byte by byte, and the acknowledged number says how far it goes.         *)
Here == Len(taken) + Len(pcb.queue)

Intact ==
  /\ taken \in Seq(Nat) /\ \A i \in 1 .. Len(taken) : taken[i] = i
  /\ pcb.queue \in Seq(Nat) /\ \A i \in 1 .. Len(pcb.queue) : pcb.queue[i] = Len(taken) + i
  /\ Len(pcb.queue) <= RxCap
  /\ Here <= peer.sent

Place == {"user", "connect", "syn", "connected", "unconnected", "send", "unacked", "recv",
          "empty", "open", "close", "fin", "closed", "reap"}
Socks == [used : 0 .. 2, connected : BOOLEAN]
Pcbs == [cancelled : BOOLEAN, seq : 0 .. Modulus - 1, ack : 0 .. Modulus - 1,
         snd_una : 0 .. Modulus - 1, state : {"CLOSED", "SYN_SENT", "ESTABLISHED"},
         rx_closed : BOOLEAN, rx_reset : BOOLEAN, queue : Seq(Nat)]
Peers == [open : BOOLEAN, sent : 0 .. Written, ended : BOOLEAN, rst : BOOLEAN,
          got : Int, got_fin : BOOLEAN]
Calls == [Task -> [count : Nat, left : Int, want : Int]]
Wires == [syn : BOOLEAN, fin : BOOLEAN, data : SUBSET (Int \X Int)]
Types ==
  /\ sock \in Socks /\ (sock.connected => sock.used = 1)
  /\ pcb \in Pcbs /\ peer \in Peers /\ wire \in Wires
  /\ pc \in [Task \cup {Reaper} -> Place]
  /\ call \in Calls

(* While one thread connects there is no other call on the socket, and     *)
(* what the last connection left is gone: without this a new connection    *)
(* would begin in the middle of an old stream.                             *)
Connecting ==
  \A t \in Task : pc[t] \in {"connect", "syn", "connected", "unconnected"} =>
    /\ sock.used = 1 /\ ~sock.connected
    /\ \A u \in (Task \cup {Reaper}) \ {t} : pc[u] = "user"
    /\ pc[t] = "connect" => pcb.state = "CLOSED" /\ Here = 0

Synced ==
  /\ pcb.state = "SYN_SENT" => Here = 0
  /\ pcb.state # "CLOSED" => ~pcb.rx_closed
  /\ pcb.state = "ESTABLISHED" => pcb.ack = Plus(Irs, 1 + Here)
  /\ pcb.rx_closed => peer.ended /\ Here = peer.sent

Inv == Types /\ Intact /\ Connecting /\ Synced

LEMMA InvImplies == Inv => StreamIntact
<1> SUFFICES ASSUME Inv PROVE StreamIntact
  OBVIOUS
<1> DEFINE here == taken \o pcb.queue
<1>1. /\ here \in Seq(Nat) /\ Len(here) = Here
      /\ \A i \in 1 .. Len(here) : here[i] = i
  <2> DEFINE q == pcb.queue
  <2>1. /\ taken \in Seq(Nat) /\ \A i \in 1 .. Len(taken) : taken[i] = i
        /\ q \in Seq(Nat) /\ \A i \in 1 .. Len(q) : q[i] = Len(taken) + i
        /\ Here = Len(taken) + Len(q)
    BY DEF Inv, Intact, Here
  <2> HIDE DEF q
  <2>2. /\ taken \o q \in Seq(Nat) /\ Len(taken \o q) = Len(taken) + Len(q)
        /\ \A i \in 1 .. Len(taken) + Len(q) :
             (taken \o q)[i] = IF i <= Len(taken) THEN taken[i] ELSE q[i - Len(taken)]
    BY <2>1, ConcatProperties
  <2>3. Len(taken) \in Nat /\ Len(q) \in Nat
    BY <2>1
  <2>4. \A i \in 1 .. Len(taken) + Len(q) : (taken \o q)[i] = i
    BY <2>1, <2>2, <2>3
  <2> QED BY <2>1, <2>2, <2>4 DEF q
<1>2. here = [i \in 1 .. Len(here) |-> i]
  BY <1>1
<1>3. TypeOK
  BY DEF Inv, Types, Socks, Pcbs, Intact, TypeOK, Place
<1> QED BY <1>1, <1>2, <1>3 DEF StreamIntact, Inv, Intact, Synced

LEMMA Blank == NoPcb \in Pcbs /\ NoPeer \in Peers /\ NoWire \in Wires
<1>1. 0 \in 0 .. Modulus - 1 /\ 0 \in 0 .. Written
  BY Sizes
<1>2. NoPcb \in Pcbs
  BY <1>1 DEF NoPcb, Pcbs
<1>3. NoPeer \in Peers
  BY <1>1 DEF NoPeer, Peers
<1>4. NoWire \in Wires
  BY DEF NoWire, Wires
<1> QED BY <1>2, <1>3, <1>4

LEMMA InvInit == Init => Inv
<1> SUFFICES ASSUME Init PROVE Inv
  OBVIOUS
<1>2. taken = <<>> /\ pcb.queue = <<>> /\ peer.sent = 0 /\ Here = 0
  BY DEF Init, NoPcb, NoPeer, Here
<1>3. Types
  <2>1. sock \in Socks /\ (sock.connected => sock.used = 1)
    BY DEF Init, Socks
  <2>2. NoPcb \in Pcbs /\ NoPeer \in Peers /\ NoWire \in Wires
    BY Blank
  <2>3. pc \in [Task \cup {Reaper} -> Place]
    BY DEF Init, Place
  <2>4. call \in Calls
    BY DEF Init, NoCall, Calls
  <2> QED BY <2>1, <2>2, <2>3, <2>4 DEF Types, Init
<1>4. Intact
  BY <1>2, Sizes DEF Intact
<1>5. Connecting /\ Synced
  BY DEF Init, Connecting, Synced, NoPcb
<1> QED BY <1>3, <1>4, <1>5 DEF Inv

(* What the stream, the numbers and the calls depend on.                   *)
LEMMA Renewed ==
  ASSUME PcbInit
  PROVE  /\ pcb' = NoPcb /\ peer' = NoPeer /\ wire' = NoWire /\ taken' = <<>>
         /\ Intact' /\ Synced' /\ Here' = 0 /\ pcb'.state = "CLOSED"
<1>1. /\ pcb' = NoPcb /\ peer' = NoPeer /\ wire' = NoWire /\ taken' = <<>>
      /\ pcb'.queue = <<>> /\ peer'.sent = 0
      /\ pcb'.state = "CLOSED" /\ ~pcb'.rx_closed
  BY DEF PcbInit, NoPcb, NoPeer
<1>2. Here' = 0
  BY <1>1 DEF Here
<1> QED BY <1>1, <1>2, Sizes DEF Intact, Synced

LEMMA StreamKept ==
  ASSUME Inv, taken' = taken, pcb'.queue = pcb.queue, peer' = peer,
         pcb'.state \in {pcb.state, "CLOSED"}, pcb'.rx_closed = pcb.rx_closed,
         pcb'.ack = pcb.ack
  PROVE  Intact' /\ Synced' /\ Here' = Here
<1>1. Here' = Here
  BY DEF Here
<1> QED BY <1>1 DEF Inv, Intact, Synced

(* Calls of one kind and the other do not meet.                            *)
Setup == {"connect", "syn", "connected", "unconnected"}
Nobody == \A u \in Task : pc[u] \notin Setup

LEMMA NobodyConnects ==
  ASSUME Inv, NEW t \in Task \cup {Reaper},
         sock.connected \/ sock.used # 1 \/ pc[t] \notin Setup \cup {"user"}
  PROVE  Nobody
BY DEF Inv, Connecting, Nobody, Setup

LEMMA StillNobody ==
  ASSUME Inv, Nobody, NEW t \in Task \cup {Reaper}, NEW place \in Place \ Setup, Goto(t, place)
  PROVE  Connecting' /\ pc' \in [Task \cup {Reaper} -> Place]
<1>1. pc' = [pc EXCEPT ![t] = place] /\ pc \in [Task \cup {Reaper} -> Place]
  BY DEF Goto, Inv, Types
<1>2. \A u \in Task : pc'[u] \notin Setup
  BY <1>1 DEF Nobody
<1> QED BY <1>1, <1>2 DEF Connecting, Setup

LEMMA CallEnds ==
  ASSUME Inv, NEW t \in Task, call' = [call EXCEPT ![t] = NoCall]
  PROVE  call' \in Calls
<1>1. NoCall \in [count : Nat, left : Int, want : Int]
  BY DEF NoCall
<1> QED BY <1>1 DEF Inv, Types, Calls

LEMMA SocketStep == ASSUME Inv, NEW t \in Task, Socket(t) PROVE Inv'
<1>1. PcbInit /\ pc' = pc /\ call' = call /\ sock' = [used |-> 1, connected |-> FALSE]
  BY DEF Socket
<1>2. Types'
  <2>1. /\ pcb' \in Pcbs /\ peer' \in Peers /\ wire' \in Wires /\ pc' \in [Task \cup {Reaper} -> Place]
        /\ call' \in Calls
    BY <1>1, Renewed, Blank DEF Inv, Types
  <2>2. sock' \in Socks /\ (sock'.connected => sock'.used = 1)
    BY <1>1 DEF Socks
  <2> QED BY <2>1, <2>2 DEF Types
<1>3. Nobody
  BY NobodyConnects DEF Socket
<1>4. Connecting'
  BY <1>1, <1>3 DEF Connecting, Nobody, Setup
<1> QED BY <1>1, <1>2, <1>4, Renewed DEF Inv

LEMMA RenewedTypes ==
  ASSUME Inv, PcbInit, NEW t \in Task \cup {Reaper}, NEW place \in Place, Goto(t, place),
         sock' = sock \/ sock' = [used |-> 0, connected |-> FALSE],
         call' \in Calls
  PROVE  Types'
<1>1. pcb' \in Pcbs /\ peer' \in Peers /\ wire' \in Wires
  BY Renewed, Blank
<1>2. pc' \in [Task \cup {Reaper} -> Place]
  BY DEF Inv, Types, Goto
<1>3. sock' \in Socks /\ (sock'.connected => sock'.used = 1)
  <2>1. CASE sock' = sock
    BY <2>1 DEF Inv, Types
  <2>2. CASE sock' = [used |-> 0, connected |-> FALSE]
    BY <2>2 DEF Socks
  <2> QED BY <2>1, <2>2
<1> QED BY <1>1, <1>2, <1>3 DEF Types

LEMMA ConnectStep == ASSUME Inv, NEW t \in Task, Connect(t) PROVE Inv'
<1>1. PcbInit /\ Goto(t, "connect") /\ sock' = sock /\ call' = call
  BY DEF Connect
<1>2. Types'
  BY <1>1, RenewedTypes DEF Place, Inv, Types
<1>3. Connecting'
  <2>1. pc' = [pc EXCEPT ![t] = "connect"] /\ pc \in [Task \cup {Reaper} -> Place]
    BY <1>1 DEF Goto, Inv, Types
  <2>2. /\ \A u \in (Task \cup {Reaper}) \ {t} : pc[u] = "user"
        /\ sock.used = 1 /\ ~sock.connected
    BY DEF Connect, Mine, Alone
  <2> QED BY <1>1, <2>1, <2>2, Renewed DEF Connecting
<1> QED BY <1>1, <1>2, <1>3, Renewed DEF Inv

(* The steps of net_tcp_connect_pcb and the rest of sys_connect.           *)
LEMMA ConnectSynStep == ASSUME Inv, NEW t \in Task, ConnectSyn(t) PROVE Inv'
<1>1. /\ pc[t] = "connect" /\ UNCHANGED <<sock, peer, call, taken>>
      /\ pcb'.queue = pcb.queue /\ wire' \in {wire, [wire EXCEPT !.syn = TRUE]}
      /\ \E place \in {"syn", "unconnected"} : pc' = [pc EXCEPT ![t] = place]
      /\ \/ pcb' = pcb
         \/ ~pcb'.rx_closed /\ pcb'.state = "SYN_SENT"
         \/ pcb'.rx_closed = pcb.rx_closed /\ pcb'.state = "CLOSED"
  BY DEF ConnectSyn, Goto, MarkClosed, Inv, Types, Pcbs
<1>2. Types'
  <2>1. pcb' \in Pcbs
    <3>1. {0, Iss} \subseteq 0 .. Modulus - 1
      BY BoundsAssumption, Sizes
    <3> QED BY <3>1 DEF ConnectSyn, MarkClosed, Inv, Types, Pcbs
  <2>2. wire' \in Wires
    BY <1>1 DEF Inv, Types, Wires
  <2> QED BY <1>1, <2>1, <2>2 DEF Inv, Types, Place
<1>3. pcb.state = "CLOSED" /\ Here = 0 /\ Here' = Here
  BY <1>1 DEF Inv, Connecting, Here
<1>4. Intact' /\ Synced'
  BY <1>1, <1>3 DEF Inv, Intact, Synced
<1>5. Connecting'
  BY <1>1 DEF Inv, Types, Connecting
<1> QED BY <1>2, <1>4, <1>5 DEF Inv

LEMMA ConnectLookStep == ASSUME Inv, NEW t \in Task, ConnectLook(t) PROVE Inv'
<1>1. /\ pc[t] = "syn" /\ UNCHANGED <<sock, peer, wire, call, taken>>
      /\ \E place \in {"connected", "unconnected"} : pc' = [pc EXCEPT ![t] = place]
      /\ pcb' \in {pcb, [pcb EXCEPT !.state = "CLOSED"]}
  BY DEF ConnectLook, Goto, MarkClosed
<1>2. Types'
  <2>1. [pcb EXCEPT !.state = "CLOSED"] \in Pcbs
    BY DEF Inv, Types, Pcbs
  <2> QED BY <1>1, <2>1 DEF Inv, Types, Place
<1>3. Intact' /\ Synced'
  <2>1. /\ pcb'.queue = pcb.queue /\ pcb'.state \in {pcb.state, "CLOSED"}
        /\ pcb'.rx_closed = pcb.rx_closed /\ pcb'.ack = pcb.ack
    BY <1>1 DEF Inv, Types, Pcbs
  <2> QED BY <1>1, <2>1, StreamKept
<1>4. Connecting'
  BY <1>1 DEF Inv, Types, Connecting
<1> QED BY <1>2, <1>3, <1>4 DEF Inv

LEMMA ConnectEndStep == ASSUME Inv, NEW t \in Task, ConnectEnd(t) PROVE Inv'
<1>1. /\ pc[t] \in {"connected", "unconnected"} /\ Goto(t, "user")
      /\ sock' \in {sock, [sock EXCEPT !.connected = TRUE]}
      /\ \/ UNCHANGED <<pcb, peer, wire, taken>>
         \/ PcbInit /\ sock' = sock
  BY DEF ConnectEnd, Return
<1>2. /\ pc' = [pc EXCEPT ![t] = "user"] /\ pc \in [Task \cup {Reaper} -> Place]
      /\ call' \in Calls
  <2>1. call' = [call EXCEPT ![t] = NoCall]
    BY DEF ConnectEnd, Return
  <2> QED BY <1>1, <2>1, CallEnds DEF Goto, Inv, Types
<1>3. Connecting'
  BY <1>1, <1>2 DEF Inv, Connecting
<1>4. CASE UNCHANGED <<pcb, peer, wire, taken>>
  <2>1. sock' \in Socks /\ (sock'.connected => sock'.used = 1)
    BY <1>1 DEF Inv, Types, Connecting, Socks
  <2>2. Types'
    BY <1>2, <1>4, <2>1 DEF Inv, Types, Place
  <2> QED BY <1>3, <1>4, <2>2, StreamKept DEF Inv
<1>5. CASE PcbInit /\ sock' = sock
  <2>1. Types'
    BY <1>1, <1>2, <1>5, RenewedTypes DEF Place
  <2> QED BY <1>3, <1>5, <2>1, Renewed DEF Inv
<1> QED BY <1>1, <1>4, <1>5

-----------------------------------------------------------------------------
(* Sending and receiving.                                                  *)
LEMMA ChunkType ==
  ASSUME Inv, NEW t \in Task
  PROVE  Min({call[t].left, Chunk}) \in Int /\ pcb.seq \in Int
<1>1. call[t].left \in Int /\ Chunk \in Int /\ pcb.seq \in Int
  BY BoundsAssumption DEF Inv, Types, Calls, Pcbs
<1> QED BY <1>1, MinOfTwo

LEMMA SendCalls ==
  ASSUME Inv, NEW t \in Task,
         (\E n \in Counts : Send(t, n) \/ Recv(t, n)) \/ SendChunk(t) \/ SendLook(t)
  PROVE  call' \in Calls
<1>1. Counts \subseteq Nat
  BY CountsAssumption
<1>2. call \in Calls
  BY DEF Inv, Types
<1>3. CASE \E n \in Counts : Send(t, n) \/ Recv(t, n)
  BY <1>1, <1>2, <1>3 DEF Send, Recv, Calls
<1>4. CASE call' = [call EXCEPT ![t] = NoCall]
  BY <1>4, CallEnds
<1>5. CASE SendChunk(t)
  <2>1. Plus(pcb.seq, Min({call[t].left, Chunk})) \in Int
    BY ChunkType, PlusType
  <2> QED BY <1>2, <1>4, <1>5, <2>1 DEF SendChunk, Return, Calls
<1>6. CASE SendLook(t)
  <2>1. call[t].left - Min({call[t].left, Chunk}) \in Int
    BY <1>2, ChunkType DEF Calls
  <2> QED BY <1>2, <1>4, <1>6, <2>1 DEF SendLook, Return, Calls
<1> QED BY <1>3, <1>5, <1>6

LEMMA SendSteps ==
  ASSUME Inv, NEW t \in Task,
         (\E n \in Counts : Send(t, n) \/ Recv(t, n)) \/ SendChunk(t) \/ SendLook(t)
  PROVE  Inv'
<1>1. /\ sock' = sock /\ peer' = peer /\ taken' = taken
      /\ \E place \in {"user", "send", "unacked", "recv"} : Goto(t, place)
  BY DEF Send, SendChunk, SendLook, Recv, Return
<1>2. Nobody
  <2>1. sock.connected \/ pc[t] \in {"send", "unacked"}
    BY DEF Send, SendChunk, SendLook, Recv
  <2> QED BY <2>1, NobodyConnects DEF Setup
<1>3. /\ pcb' \in Pcbs
      /\ pcb'.queue = pcb.queue /\ pcb'.state = pcb.state
      /\ pcb'.rx_closed = pcb.rx_closed /\ pcb'.ack = pcb.ack
  <2>1. \/ pcb' = pcb
        \/ pcb' = [pcb EXCEPT !.seq = Plus(pcb.seq, Min({call[t].left, Chunk}))]
    BY DEF Send, SendChunk, SendLook, Recv
  <2>2. Plus(pcb.seq, Min({call[t].left, Chunk})) \in 0 .. Modulus - 1
    BY ChunkType, PlusType, Sizes DEF Inv, Types, Pcbs
  <2> QED BY <2>1, <2>2 DEF Inv, Types, Pcbs
<1>4. Connecting' /\ pc' \in [Task \cup {Reaper} -> Place]
  BY <1>1, <1>2, StillNobody DEF Place, Setup
<1>5. Intact' /\ Synced'
  BY <1>1, <1>3, StreamKept
<1>6. call' \in Calls
  BY SendCalls
<1>7. wire' \in Wires
  <2>1. \/ wire' = wire
        \/ wire' = [wire EXCEPT !.data =
                      wire.data \cup {<<pcb.seq, Plus(pcb.seq, Min({call[t].left, Chunk}))>>}]
    BY DEF Send, SendChunk, SendLook, Recv
  <2>2. <<pcb.seq, Plus(pcb.seq, Min({call[t].left, Chunk}))>> \in Int \X Int
    <3> DEFINE m == pcb.seq   k == Min({call[t].left, Chunk})
    <3>1. m \in Int /\ k \in Int
      BY ChunkType
    <3> HIDE DEF m, k
    <3>2. Plus(m, k) \in Int
      BY <3>1, PlusType, Sizes
    <3> QED BY <3>1, <3>2 DEF m, k
  <2>3. \A d \in Int \X Int : [wire EXCEPT !.data = wire.data \cup {d}] \in Wires
    BY DEF Inv, Types, Wires
  <2> QED BY <2>1, <2>2, <2>3 DEF Inv, Types
<1> QED BY <1>1, <1>3, <1>4, <1>5, <1>6, <1>7 DEF Inv, Types

(* recv takes from the queue what it hands out, and nothing else changes.  *)
LEMMA Handed ==
  ASSUME NEW a \in Seq(Nat), \A i \in 1 .. Len(a) : a[i] = i,
         NEW q \in Seq(Nat), \A i \in 1 .. Len(q) : q[i] = Len(a) + i,
         NEW n \in 0 .. Len(q)
  PROVE  LET b == a \o SubSeq(q, 1, n)   r == SubSeq(q, n + 1, Len(q)) IN
         /\ b \in Seq(Nat) /\ \A i \in 1 .. Len(b) : b[i] = i
         /\ r \in Seq(Nat) /\ \A i \in 1 .. Len(r) : r[i] = Len(b) + i
         /\ Len(b) + Len(r) = Len(a) + Len(q) /\ Len(r) <= Len(q)
<1> DEFINE c == SubSeq(q, 1, n)   r == SubSeq(q, n + 1, Len(q))
<1>1. Len(a) \in Nat /\ Len(q) \in Nat
  OBVIOUS
<1>2. /\ c \in Seq(Nat) /\ Len(c) = n
      /\ \A i \in 1 .. n : c[i] = Len(a) + i
  <2>1. \A i \in 1 .. n : c[i] = q[1 + i - 1] /\ 1 + i - 1 = i
    BY <1>1, SubSeqProperties
  <2>2. c \in Seq(Nat) /\ Len(c) = n
    BY <1>1, SubSeqProperties
  <2> QED BY <1>1, <2>1, <2>2
<1>3. /\ r \in Seq(Nat) /\ Len(r) = Len(q) - n
      /\ \A i \in 1 .. Len(q) - n : r[i] = Len(a) + n + i
  <2>1. r \in Seq(Nat) /\ Len(r) = Len(q) - n
    BY <1>1, SubSeqProperties
  <2>2. \A i \in 1 .. Len(q) - n : r[i] = q[n + i] /\ n + i \in 1 .. Len(q)
    BY <1>1, SubSeqProperties
  <2> QED BY <1>1, <2>1, <2>2
<1> HIDE DEF c, r
<1>4. /\ a \o c \in Seq(Nat) /\ Len(a \o c) = Len(a) + n
      /\ \A i \in 1 .. Len(a) + n : (a \o c)[i] = IF i <= Len(a) THEN a[i] ELSE c[i - Len(a)]
  BY <1>2, ConcatProperties
<1>5. \A i \in 1 .. Len(a) + n : (a \o c)[i] = i
  BY <1>1, <1>2, <1>4
<1>6. /\ a \o c \in Seq(Nat) /\ \A i \in 1 .. Len(a \o c) : (a \o c)[i] = i
      /\ \A i \in 1 .. Len(r) : r[i] = Len(a \o c) + i
      /\ Len(a \o c) + Len(r) = Len(a) + Len(q) /\ Len(r) <= Len(q)
  BY <1>1, <1>3, <1>4, <1>5
<1> QED BY <1>3, <1>6 DEF c, r

LEMMA RecvTakeStep == ASSUME Inv, NEW t \in Task, RecvTake(t) PROVE Inv'
<1>1. /\ pc[t] = "recv" /\ sock' = sock /\ peer' = peer /\ wire' = wire
      /\ \E place \in {"user", "empty"} : Goto(t, place)
      /\ call' = call \/ call' = [call EXCEPT ![t] = NoCall]
  BY DEF RecvTake, Return
<1>2. Connecting' /\ pc' \in [Task \cup {Reaper} -> Place]
  <2>1. Nobody
    BY <1>1, NobodyConnects DEF Setup
  <2> QED BY <1>1, <2>1, StillNobody DEF Place, Setup
<1>3. call' \in Calls
  BY <1>1, CallEnds DEF Inv, Types
<1>4. CASE pcb' = pcb /\ taken' = taken
  BY <1>1, <1>2, <1>3, <1>4, StreamKept DEF Inv, Types
<1>5. CASE ~(pcb' = pcb /\ taken' = taken)
  <2> DEFINE q == pcb.queue   n == Min({call[t].count, Len(q)})
             b == taken \o SubSeq(q, 1, n)   r == SubSeq(q, n + 1, Len(q))
  <2>1. pcb' = [pcb EXCEPT !.queue = r] /\ taken' = b
    BY <1>5 DEF RecvTake
  <2>2. n \in 0 .. Len(q)
    <3>1. call[t].count \in Nat /\ Len(q) \in Nat
      BY DEF Inv, Types, Calls, Pcbs
    <3>2. n = IF call[t].count <= Len(q) THEN call[t].count ELSE Len(q)
      BY <3>1, MinOfTwo
    <3> QED BY <3>1, <3>2
  <2>3. /\ taken \in Seq(Nat) /\ \A i \in 1 .. Len(taken) : taken[i] = i
        /\ q \in Seq(Nat) /\ \A i \in 1 .. Len(q) : q[i] = Len(taken) + i
        /\ Len(q) <= RxCap /\ Len(taken) + Len(q) = Here /\ Here <= peer.sent
    BY DEF Inv, Intact, Here
  <2> HIDE DEF q, n
  <2>4. /\ b \in Seq(Nat) /\ \A i \in 1 .. Len(b) : b[i] = i
        /\ r \in Seq(Nat) /\ \A i \in 1 .. Len(r) : r[i] = Len(b) + i
        /\ Len(b) + Len(r) = Len(taken) + Len(q) /\ Len(r) <= Len(q)
    BY <2>2, <2>3, Handed
  <2> HIDE DEF b, r
  <2>5. /\ pcb' \in Pcbs /\ pcb'.queue = r
        /\ pcb'.state = pcb.state /\ pcb'.rx_closed = pcb.rx_closed /\ pcb'.ack = pcb.ack
    BY <2>1, <2>4 DEF Inv, Types, Pcbs
  <2>6. Here' = Here
    BY <2>1, <2>3, <2>4, <2>5 DEF Here
  <2>7. Len(r) <= RxCap
    BY <2>3, <2>4, Sizes
  <2>8. Intact'
    BY <1>1, <2>1, <2>3, <2>4, <2>5, <2>6, <2>7 DEF Intact
  <2>9. Synced'
    BY <1>1, <2>5, <2>6 DEF Inv, Synced
  <2> QED BY <1>1, <1>2, <1>3, <2>5, <2>8, <2>9 DEF Inv, Types
<1> QED BY <1>4, <1>5

LEMMA RecvRestSteps ==
  ASSUME Inv, NEW t \in Task, RecvReset(t) \/ RecvEnd(t)
  PROVE  Inv'
<1>1. /\ pc[t] \in {"empty", "open"} /\ UNCHANGED <<sock, peer, wire, taken>>
      /\ \E place \in {"user", "open", "recv"} : Goto(t, place)
      /\ call' = call \/ call' = [call EXCEPT ![t] = NoCall]
      /\ pcb' \in {pcb, [pcb EXCEPT !.rx_reset = FALSE]}
  BY DEF RecvReset, RecvEnd, Return
<1>2. Connecting' /\ pc' \in [Task \cup {Reaper} -> Place]
  <2>1. Nobody
    BY <1>1, NobodyConnects DEF Setup
  <2> QED BY <1>1, <2>1, StillNobody DEF Place, Setup
<1>3. call' \in Calls
  BY <1>1, CallEnds DEF Inv, Types
<1>4. /\ pcb' \in Pcbs
      /\ pcb'.queue = pcb.queue /\ pcb'.state = pcb.state
      /\ pcb'.rx_closed = pcb.rx_closed /\ pcb'.ack = pcb.ack
  BY <1>1 DEF Inv, Types, Pcbs
<1>5. Intact' /\ Synced'
  BY <1>1, <1>4, StreamKept
<1> QED BY <1>1, <1>2, <1>3, <1>4, <1>5 DEF Inv, Types

-----------------------------------------------------------------------------
(* Shutting down, closing and cleaning up.                                 *)
LEMMA ShutdownStep == ASSUME Inv, NEW t \in Task, Shutdown(t) PROVE Inv'
<1>1. UNCHANGED <<sock, peer, wire, pc, call, taken>> /\ pcb' = [pcb EXCEPT !.cancelled = TRUE]
  BY DEF Shutdown
<1>2. /\ pcb' \in Pcbs
      /\ pcb'.queue = pcb.queue /\ pcb'.state = pcb.state
      /\ pcb'.rx_closed = pcb.rx_closed /\ pcb'.ack = pcb.ack
  BY <1>1 DEF Inv, Types, Pcbs
<1>3. Intact' /\ Synced' /\ Here' = Here
  BY <1>1, <1>2, StreamKept
<1>4. Connecting'
  BY <1>1, <1>2, <1>3 DEF Inv, Connecting
<1> QED BY <1>1, <1>2, <1>3, <1>4 DEF Inv, Types

LEMMA CloseSteps ==
  ASSUME Inv, NEW t \in Task \cup {Reaper},
         (t \in Task /\ Close(t)) \/ CloseTcp(t) \/ CloseFin(t)
  PROVE  Inv'
<1>1. /\ UNCHANGED <<peer, call, taken>> /\ wire' \in {wire, [wire EXCEPT !.fin = TRUE]}
      /\ sock' \in {sock, [used |-> 2, connected |-> FALSE]}
      /\ \E place \in {"close", "fin", "closed"} : Goto(t, place)
      /\ \/ pcb' \in {pcb, [pcb EXCEPT !.state = "CLOSED"]}
         \/ pcb' = [pcb EXCEPT !.seq = Plus(@, 1)]
  BY DEF Close, CloseTcp, CloseFin, StartClose, MarkClosed
<1>2. Nobody
  <2>1. CASE t \in Task /\ Close(t)
    BY <2>1 DEF Close, Mine, Alone, Nobody, Setup
  <2>2. CASE CloseTcp(t) \/ CloseFin(t)
    <3>1. pc[t] \in {"close", "fin"}
      BY <2>2 DEF CloseTcp, CloseFin
    <3> QED BY <3>1, NobodyConnects DEF Setup
  <2> QED BY <2>1, <2>2
<1>3. Connecting' /\ pc' \in [Task \cup {Reaper} -> Place]
  BY <1>1, <1>2, StillNobody DEF Place, Setup
<1>4. /\ pcb' \in Pcbs
      /\ pcb'.queue = pcb.queue /\ pcb'.state \in {pcb.state, "CLOSED"}
      /\ pcb'.rx_closed = pcb.rx_closed /\ pcb'.ack = pcb.ack
  <2>1. Plus(pcb.seq, 1) \in 0 .. Modulus - 1
    BY PlusType, Sizes DEF Inv, Types, Pcbs
  <2> QED BY <1>1, <2>1 DEF Inv, Types, Pcbs
<1>5. Intact' /\ Synced'
  BY <1>1, <1>4, StreamKept
<1>6. sock' \in Socks /\ (sock'.connected => sock'.used = 1)
  <2>1. CASE sock' = sock
    BY <2>1 DEF Inv, Types
  <2>2. CASE sock' = [used |-> 2, connected |-> FALSE]
    BY <2>2 DEF Socks
  <2> QED BY <1>1, <2>1, <2>2
<1>7. wire' \in Wires
  BY <1>1 DEF Inv, Types, Wires
<1> QED BY <1>1, <1>3, <1>4, <1>5, <1>6, <1>7 DEF Inv, Types

LEMMA FreeStep == ASSUME Inv, NEW t \in Task \cup {Reaper}, Free(t) PROVE Inv'
<1>1. /\ PcbInit /\ Goto(t, "user") /\ call' = call
      /\ sock' = [used |-> 0, connected |-> FALSE] /\ pc[t] = "closed"
  BY DEF Free
<1>2. Types'
  BY <1>1, RenewedTypes DEF Place, Inv, Types
<1>3. Connecting'
  <2>1. Nobody
    BY <1>1, NobodyConnects DEF Setup
  <2> QED BY <1>1, <2>1, StillNobody DEF Place, Setup
<1> QED BY <1>1, <1>2, <1>3, Renewed DEF Inv

LEMMA KillStep == ASSUME Inv, Kill PROVE Inv'
<1>1. /\ UNCHANGED <<sock, pcb, peer, wire, taken>> /\ call' = [t \in Task |-> NoCall]
      /\ pc' = [t \in Task \cup {Reaper} |-> IF t = Reaper THEN "reap" ELSE "user"]
  BY DEF Kill
<1>2. call' \in Calls
  BY <1>1 DEF NoCall, Calls
<1>3. Intact' /\ Synced'
  BY <1>1, StreamKept
<1>4. pc' \in [Task \cup {Reaper} -> Place]
  BY <1>1 DEF Place
<1>5. Connecting'
  BY <1>1, ReaperAssumption DEF Connecting
<1> QED BY <1>1, <1>2, <1>3, <1>4, <1>5 DEF Inv, Types

LEMMA CleanupStep == ASSUME Inv, Cleanup PROVE Inv'
<1>1. /\ UNCHANGED <<pcb, peer, wire, call, taken>> /\ pc[Reaper] = "reap"
      /\ sock' \in {sock, [used |-> 2, connected |-> FALSE]}
      /\ \E place \in {"user", "close", "closed"} : Goto(Reaper, place)
  BY DEF Cleanup, StartClose
<1>2. Connecting' /\ pc' \in [Task \cup {Reaper} -> Place]
  <2>1. Nobody
    BY <1>1, NobodyConnects DEF Setup
  <2> QED BY <1>1, <2>1, StillNobody DEF Place, Setup
<1>3. Intact' /\ Synced'
  BY <1>1, StreamKept
<1>4. sock' \in Socks /\ (sock'.connected => sock'.used = 1)
  <2>1. CASE sock' = sock
    BY <2>1 DEF Inv, Types
  <2>2. CASE sock' = [used |-> 2, connected |-> FALSE]
    BY <2>2 DEF Socks
  <2> QED BY <1>1, <2>1, <2>2
<1> QED BY <1>1, <1>2, <1>3, <1>4 DEF Inv, Types

-----------------------------------------------------------------------------
(* The peer, and the frames that come from it.                             *)
LEMMA PeerSteps ==
  ASSUME Inv, PeerAccept \/ PeerReset \/ PeerWrite \/ PeerEnd \/ PeerGet \/ PeerGetFin
  PROVE  Inv'
<1>1. UNCHANGED <<sock, pcb, wire, pc, call, taken>>
  BY DEF PeerAccept, PeerReset, PeerWrite, PeerEnd, PeerGet, PeerGetFin, PeerStep
<1>2. /\ peer' \in Peers /\ peer'.sent >= peer.sent
      /\ peer.ended => peer'.ended /\ peer'.sent = peer.sent
  <2>1. /\ peer \in Peers /\ Written \in Nat
        /\ \A n \in Int : Offset(n) \in Int
    BY Sizes, ModDef DEF Inv, Types, Offset
  <2>2. CASE \/ peer' \in {[peer EXCEPT !.open = TRUE], [peer EXCEPT !.rst = TRUE]}
             \/ peer' \in {[peer EXCEPT !.ended = TRUE], [peer EXCEPT !.got_fin = TRUE]}
    <3>1. /\ peer' \in Peers /\ peer'.sent = peer.sent /\ (peer.ended => peer'.ended)
      BY <2>1, <2>2 DEF Peers
    <3>2. peer.sent \in Int
      BY <2>1 DEF Peers
    <3> QED BY <3>1, <3>2
  <2>3. CASE PeerWrite
    BY <2>1, <2>3 DEF PeerWrite, PeerStep, Peers
  <2>4. CASE PeerGet
    <3>1. PICK s \in wire.data : peer' = [peer EXCEPT !.got = Offset(s[2])]
      BY <2>4 DEF PeerGet, PeerStep
    <3>2. s[2] \in Int
      BY DEF Inv, Types, Wires
    <3> QED BY <2>1, <3>1, <3>2 DEF Peers
  <2> QED BY <2>2, <2>3, <2>4 DEF PeerAccept, PeerReset, PeerEnd, PeerGetFin, PeerStep
<1>3. Here' = Here /\ Here \in Nat /\ peer.sent \in Nat /\ peer'.sent \in Nat
  BY <1>1, <1>2, Sizes DEF Here, Inv, Types, Intact, Peers
<1>4. Intact'
  BY <1>1, <1>2, <1>3 DEF Inv, Intact
<1>5. Synced'
  BY <1>1, <1>2, <1>3 DEF Inv, Synced
<1>6. Connecting'
  BY <1>1, <1>3 DEF Inv, Connecting
<1> QED BY <1>1, <1>2, <1>4, <1>5, <1>6 DEF Inv, Types

LEMMA ArrivalKept ==
  ASSUME Inv, NEW p \in Pcbs, Arrival(p), pcb.state # "CLOSED", Intact', Synced'
  PROVE  Inv'
<1>1. UNCHANGED <<sock, peer, wire, pc, call, taken>> /\ pcb' = p
  BY DEF Arrival
<1>2. Connecting'
  BY <1>1 DEF Inv, Connecting
<1> QED BY <1>1, <1>2 DEF Inv, Types

LEMMA DispatchResetStep == ASSUME Inv, DispatchReset PROVE Inv'
<1> DEFINE p == [[pcb EXCEPT !.rx_reset = TRUE] EXCEPT !.state = "CLOSED"]
<1>1. Arrival(p) /\ pcb.state # "CLOSED"
  BY DEF DispatchReset, MarkClosed
<1>2. /\ p \in Pcbs /\ p.queue = pcb.queue /\ p.state = "CLOSED"
      /\ p.rx_closed = pcb.rx_closed /\ p.ack = pcb.ack
  BY DEF Inv, Types, Pcbs
<1> HIDE DEF p
<1>3. Intact' /\ Synced'
  BY <1>1, <1>2, StreamKept DEF Arrival
<1> QED BY <1>1, <1>2, <1>3, ArrivalKept

LEMMA DispatchSynAckStep == ASSUME Inv, DispatchSynAck PROVE Inv'
<1> DEFINE p == [pcb EXCEPT !.ack = Plus(Irs, 1), !.seq = Plus(@, 1), !.snd_una = Plus(pcb.seq, 1),
                            !.state = "ESTABLISHED"]
<1>1. Arrival(p) /\ pcb.state = "SYN_SENT"
  BY DEF DispatchSynAck
<1>2. Plus(Irs, 1) \in 0 .. Modulus - 1 /\ Plus(pcb.seq, 1) \in 0 .. Modulus - 1
  <2>1. pcb.seq \in Int
    BY DEF Inv, Types, Pcbs
  <2>2. Plus(Irs, 1) \in 0 .. Modulus - 1
    BY PlusType, Sizes
  <2>3. Plus(pcb.seq, 1) \in 0 .. Modulus - 1
    <3> DEFINE m == pcb.seq
    <3>1. m \in Int /\ 1 \in Int
      BY <2>1
    <3> HIDE DEF m
    <3>2. Plus(m, 1) \in 0 .. Modulus - 1
      BY <3>1, PlusType
    <3> QED BY <3>2 DEF m
  <2> QED BY <2>2, <2>3
<1>3. /\ p \in Pcbs /\ p.queue = pcb.queue /\ p.state = "ESTABLISHED"
      /\ p.rx_closed = pcb.rx_closed /\ p.ack = Plus(Irs, 1)
  BY <1>2 DEF Inv, Types, Pcbs
<1> HIDE DEF p
<1>4. Here' = Here /\ Here = 0 /\ ~pcb.rx_closed
  BY <1>1, <1>3 DEF Arrival, Here, Inv, Synced
<1>5. Intact'
  BY <1>1, <1>3, <1>4 DEF Arrival, Inv, Intact
<1>6. Synced'
  <2>1. 1 + 0 = 1
    OBVIOUS
  <2> QED BY <1>1, <1>3, <1>4, <2>1 DEF Arrival, Synced
<1> QED BY <1>1, <1>3, <1>5, <1>6, ArrivalKept

-----------------------------------------------------------------------------
(* A segment: where it begins in the stream and which bytes it carries.    *)
IsSegment(s, i, j) ==
  /\ s.seq = Plus(Irs, 1 + i) /\ s.ack \in 0 .. Modulus - 1
  /\ s.bytes \in Seq(Nat) /\ Len(s.bytes) = (IF i <= j THEN j - i ELSE 0)
  /\ \A k \in 1 .. Len(s.bytes) : s.bytes[k] = i + k

LEMMA SegmentIs ==
  ASSUME Inv, NEW s \in Segments
  PROVE  \E i \in 0 .. peer.sent, j \in 0 .. peer.sent : IsSegment(s, i, j)
<1>1. peer.sent \in Nat /\ peer.got \in Int /\ Iss \in Int /\ Modulus \in Nat
  BY Sizes DEF Inv, Types, Peers
<1>2. PICK i \in 0 .. peer.sent, j \in 0 .. peer.sent :
        /\ s.seq = Plus(Irs, 1 + i) /\ s.bytes = [k \in 1 .. j - i |-> i + k]
        /\ s.ack \in {Plus(Iss, 1 + n) : n \in 0 .. peer.got} \cup
                     (IF peer.got_fin THEN {Plus(Iss, 2 + peer.got)} ELSE {})
  <2> DEFINE Acks == {Plus(Iss, 1 + n) : n \in 0 .. peer.got} \cup
                     (IF peer.got_fin THEN {Plus(Iss, 2 + peer.got)} ELSE {})
             Seg(i, j, f, a) == [seq |-> Plus(Irs, 1 + i), bytes |-> [k \in 1 .. j - i |-> i + k],
                                 fin |-> f, ack |-> a]
  <2>1. s \in {Seg(i, j, f, a) : i \in 0 .. peer.sent, j \in 0 .. peer.sent, f \in BOOLEAN, a \in Acks}
    BY DEF Segments
  <2> HIDE DEF Acks
  <2>2. PICK i \in 0 .. peer.sent, j \in 0 .. peer.sent, f \in BOOLEAN, a \in Acks : s = Seg(i, j, f, a)
    BY <2>1
  <2>3. s.seq = Plus(Irs, 1 + i) /\ s.bytes = [k \in 1 .. j - i |-> i + k] /\ s.ack \in Acks
    BY <2>2
  <2> QED BY <2>3 DEF Acks
<1>3. s.ack \in 0 .. Modulus - 1
  <2>1. PICK n \in Int : s.ack = Plus(Iss, n)
    <3>1. CASE \E n \in 0 .. peer.got : s.ack = Plus(Iss, 1 + n)
      <4>1. PICK n \in 0 .. peer.got : s.ack = Plus(Iss, 1 + n)
        BY <3>1
      <4>2. 1 + n \in Int
        OBVIOUS
      <4> QED BY <4>1, <4>2
    <3>2. CASE s.ack = Plus(Iss, 2 + peer.got)
      <4>1. 2 + peer.got \in Int
        BY <1>1
      <4> QED BY <3>2, <4>1
    <3> QED BY <1>2, <3>1, <3>2
  <2> QED BY <1>1, <2>1, PlusType
<1>4. CASE i <= j
  <2>1. /\ j - i \in Nat /\ s.bytes \in [1 .. j - i -> Nat]
    BY <1>1, <1>2, <1>4
  <2>2. s.bytes \in Seq(Nat) /\ Len(s.bytes) = j - i
    BY <2>1
  <2> QED BY <1>1, <1>2, <1>3, <1>4, <2>2 DEF IsSegment
<1>5. CASE ~(i <= j)
  <2>1. 1 .. j - i = 1 .. 0
    BY <1>1, <1>5
  <2>2. s.bytes \in [1 .. 0 -> Nat]
    BY <1>2, <2>1
  <2>3. s.bytes \in Seq(Nat) /\ Len(s.bytes) = 0
    BY <2>2
  <2>4. 1 .. 0 = {}
    OBVIOUS
  <2> QED BY <1>1, <1>2, <1>3, <1>5, <2>3, <2>4 DEF IsSegment
<1> QED BY <1>4, <1>5

LEMMA Suffix ==
  ASSUME NEW q \in Seq(Nat), NEW b \in Nat, \A k \in 1 .. Len(q) : q[k] = b + k,
         NEW m \in 0 .. Len(q)
  PROVE  LET r == SubSeq(q, m + 1, Len(q)) IN
         /\ r \in Seq(Nat) /\ Len(r) = Len(q) - m
         /\ \A k \in 1 .. Len(r) : r[k] = b + m + k
<1>1. Len(q) \in Nat
  OBVIOUS
<1> DEFINE r == SubSeq(q, m + 1, Len(q))
<1>2. r \in Seq(Nat) /\ Len(r) = Len(q) - m
  BY <1>1, SubSeqProperties
<1>3. \A k \in 1 .. Len(q) - m : r[k] = q[m + k] /\ m + k \in 1 .. Len(q)
  BY <1>1, SubSeqProperties
<1> HIDE DEF r
<1>4. \A k \in 1 .. Len(r) : r[k] = b + m + k
  BY <1>1, <1>2, <1>3
<1> QED BY <1>2, <1>4 DEF r

LEMMA Prefix ==
  ASSUME NEW q \in Seq(Nat), NEW m \in 0 .. Len(q)
  PROVE  LET r == SubSeq(q, 1, m) IN
         /\ r \in Seq(Nat) /\ Len(r) = m
         /\ \A k \in 1 .. Len(r) : r[k] = q[k]
<1>1. Len(q) \in Nat
  OBVIOUS
<1> DEFINE r == SubSeq(q, 1, m)
<1>2. r \in Seq(Nat) /\ Len(r) = m
  BY <1>1, SubSeqProperties
<1>3. \A k \in 1 .. m : r[k] = q[1 + k - 1] /\ 1 + k - 1 = k
  BY <1>1, SubSeqProperties
<1> HIDE DEF r
<1>4. \A k \in 1 .. Len(r) : r[k] = q[k]
  BY <1>1, <1>2, <1>3
<1> QED BY <1>2, <1>4 DEF r

(* What is queued of it goes on where the stream ends, and no further than *)
(* the peer has written.                                                   *)
Continues(q) ==
  /\ q \in Seq(Nat) /\ \A k \in 1 .. Len(q) : q[k] = Here + k
  /\ Len(q) <= RxCap - Len(pcb.queue) /\ Here + Len(q) <= peer.sent

LEMMA Whereabouts ==
  ASSUME Inv
  PROVE  /\ Here \in Nat /\ peer.sent \in Nat /\ Here <= peer.sent /\ peer.sent <= Written
         /\ Len(pcb.queue) \in Nat /\ Len(pcb.queue) <= RxCap
BY Sizes DEF Inv, Types, Intact, Here, Peers

LEMMA Queued ==
  ASSUME Inv, pcb.state = "ESTABLISHED", NEW s,
         NEW i \in 0 .. peer.sent, NEW j \in 0 .. peer.sent, IsSegment(s, i, j)
  PROVE  Continues(QueueRx(s))
<1> DEFINE n == Here
<1>1. /\ n \in Nat /\ peer.sent \in Nat /\ n <= peer.sent /\ peer.sent <= Written
      /\ Len(pcb.queue) \in Nat /\ Len(pcb.queue) <= RxCap /\ Irs \in Int /\ RxCap \in Nat
  BY Whereabouts, Sizes
<1>2. pcb.ack = Plus(Irs, 1 + n) /\ s.seq = Plus(Irs, 1 + i) /\ Plus(pcb.ack, 1) = Plus(Irs, 2 + n)
  <2>1. pcb.ack = Plus(Irs, 1 + n) /\ s.seq = Plus(Irs, 1 + i)
    BY DEF Inv, Synced, IsSegment
  <2>2. 1 + n \in Int /\ (1 + n) + 1 = 2 + n
    BY <1>1
  <2>3. Plus(Plus(Irs, 1 + n), 1) = Plus(Irs, (1 + n) + 1)
    BY <1>1, <2>2, PlusPlus
  <2> QED BY <2>1, <2>2, <2>3
<1> HIDE DEF n
<1>3. UpTo(s.seq, Plus(pcb.ack, 1)) <=> i > n
  <2>1. Near(1 + i, 2 + n) /\ 1 + i \in Int /\ 2 + n \in Int
    BY <1>1, Sizes DEF Near
  <2>2. UpTo(Plus(Irs, 1 + i), Plus(Irs, 2 + n)) <=> 1 + i >= 2 + n
    BY <1>1, <2>1, Apart
  <2> QED BY <1>1, <1>2, <2>2
<1>4. UpTo(s.seq, pcb.ack) <=> i >= n
  <2>1. Near(1 + i, 1 + n) /\ 1 + i \in Int /\ 1 + n \in Int
    BY <1>1, Sizes DEF Near
  <2>2. UpTo(Plus(Irs, 1 + i), Plus(Irs, 1 + n)) <=> 1 + i >= 1 + n
    BY <1>1, <2>1, Apart
  <2> QED BY <1>1, <1>2, <2>2
<1>5. CASE i > n
  <2>1. QueueRx(s) = <<>>
    BY <1>3, <1>5 DEF QueueRx
  <2> QED BY <1>1, <2>1 DEF Continues, n
<1>6. CASE i <= n
  <2>1. /\ s.bytes \in Seq(Nat) /\ Len(s.bytes) = (IF i <= j THEN j - i ELSE 0)
        /\ \A k \in 1 .. Len(s.bytes) : s.bytes[k] = i + k
    BY DEF IsSegment
  <2> DEFINE r == Trim(s)
  <2>2. /\ r \in Seq(Nat) /\ Len(r) \in Nat
        /\ \A k \in 1 .. Len(r) : r[k] = n + k
        /\ Len(r) > 0 => n + Len(r) = j
    <3>1. CASE i = n
      <4>1. UpTo(s.seq, pcb.ack)
        BY <1>1, <1>4, <3>1
      <4>2. r = s.bytes
        BY <4>1 DEF Trim
      <4> HIDE DEF r
      <4>3. Len(r) > 0 => i + Len(r) = j
        BY <1>1, <2>1, <4>2
      <4> QED BY <2>1, <3>1, <4>2, <4>3
    <3>2. CASE i < n
      <4> DEFINE skip == Min({n - i, Len(s.bytes)})
      <4>1. (pcb.ack - s.seq) % Modulus = n - i
        <5>1. Near(1 + n, 1 + i) /\ 1 + i \in Int /\ 1 + n \in Int /\ 1 + n >= 1 + i
          BY <1>1, <3>2, Sizes DEF Near
        <5>2. (Plus(Irs, 1 + n) - Plus(Irs, 1 + i)) % Modulus = (1 + n) - (1 + i)
          BY <1>1, <5>1, Apart
        <5> QED BY <1>1, <1>2, <5>2
      <4>2. r = SubSeq(s.bytes, skip + 1, Len(s.bytes))
        <5>1. ~UpTo(s.seq, pcb.ack)
          BY <1>1, <1>4, <3>2
        <5> QED BY <4>1, <5>1, Zenon DEF Trim
      <4>3. /\ skip \in 0 .. Len(s.bytes) /\ Len(s.bytes) \in Nat
            /\ skip = (IF n - i <= Len(s.bytes) THEN n - i ELSE Len(s.bytes))
        <5>1. n - i \in Nat /\ Len(s.bytes) \in Nat
          BY <1>1, <2>1, <3>2
        <5>2. skip = (IF n - i <= Len(s.bytes) THEN n - i ELSE Len(s.bytes))
          BY <5>1, MinOfTwo
        <5> QED BY <5>1, <5>2
      <4> HIDE DEF skip, r
      <4>4. /\ r \in Seq(Nat) /\ Len(r) = Len(s.bytes) - skip
            /\ \A k \in 1 .. Len(r) : r[k] = i + skip + k
        <5>1. i \in Nat
          BY <1>1
        <5> QED BY <2>1, <4>2, <4>3, <5>1, Suffix
      <4>5. Len(r) > 0 => skip = n - i
        <5> SUFFICES ASSUME Len(r) > 0 PROVE skip = n - i
          OBVIOUS
        <5>1. skip # Len(s.bytes)
          BY <4>3, <4>4
        <5> QED BY <4>3, <5>1
      <4>6. Len(r) > 0 => Len(s.bytes) = j - i
        <5> SUFFICES ASSUME Len(r) > 0 PROVE Len(s.bytes) = j - i
          OBVIOUS
        <5>1. Len(s.bytes) # 0
          BY <4>3, <4>4
        <5> QED BY <2>1, <5>1
      <4>7. Len(r) > 0 => n + Len(r) = j
        <5> SUFFICES ASSUME Len(r) > 0 PROVE n + Len(r) = j
          OBVIOUS
        <5>1. Len(r) = (j - i) - (n - i)
          BY <4>4, <4>5, <4>6
        <5> QED BY <1>1, <5>1
      <4>8. \A k \in 1 .. Len(r) : r[k] = n + k
        BY <1>1, <4>3, <4>4, <4>5
      <4> QED BY <4>3, <4>4, <4>7, <4>8
    <3> QED BY <1>1, <1>6, <3>1, <3>2
  <2> DEFINE m == Min({Len(r), RxCap - Len(pcb.queue)})
  <2>3. QueueRx(s) = SubSeq(r, 1, m)
    <3>1. ~UpTo(s.seq, Plus(pcb.ack, 1))
      BY <1>1, <1>3, <1>6
    <3> QED BY <3>1, Zenon DEF QueueRx
  <2> HIDE DEF r
  <2>4. m \in 0 .. Len(r) /\ m <= RxCap - Len(pcb.queue)
    <3>1. Len(r) \in Int /\ RxCap - Len(pcb.queue) \in Nat
      BY <1>1, <2>2
    <3>2. m = IF Len(r) <= RxCap - Len(pcb.queue) THEN Len(r) ELSE RxCap - Len(pcb.queue)
      BY <3>1, MinOfTwo
    <3> QED BY <2>2, <3>1, <3>2
  <2> HIDE DEF m
  <2> DEFINE q == SubSeq(r, 1, m)
  <2>5. q \in Seq(Nat) /\ Len(q) = m /\ \A k \in 1 .. Len(q) : q[k] = r[k]
    BY <2>2, <2>4, Prefix
  <2> HIDE DEF q
  <2>6. \A k \in 1 .. Len(q) : q[k] = n + k
    BY <2>2, <2>4, <2>5
  <2>7. n + Len(q) <= peer.sent
    BY <1>1, <2>2, <2>4, <2>5
  <2> QED BY <2>3, <2>4, <2>5, <2>6, <2>7 DEF Continues, n, q
<1> QED BY <1>1, <1>5, <1>6

LEMMA Extended ==
  ASSUME Inv, NEW q, Continues(q), taken' = taken, peer' = peer, pcb'.queue = pcb.queue \o q
  PROVE  Intact' /\ Here' = Here + Len(q)
<1> DEFINE old == pcb.queue   new == old \o q
<1>1. /\ q \in Seq(Nat) /\ \A k \in 1 .. Len(q) : q[k] = Len(taken) + Len(old) + k
      /\ Len(q) <= RxCap - Len(old) /\ Len(taken) + Len(old) + Len(q) <= peer.sent
  BY DEF Continues, Here
<1>2. /\ taken \in Seq(Nat) /\ \A i \in 1 .. Len(taken) : taken[i] = i
      /\ old \in Seq(Nat) /\ \A i \in 1 .. Len(old) : old[i] = Len(taken) + i
  BY DEF Inv, Intact
<1>3. pcb'.queue = new
  OBVIOUS
<1> HIDE DEF old
<1>4. /\ new \in Seq(Nat) /\ Len(new) = Len(old) + Len(q)
      /\ \A i \in 1 .. Len(old) + Len(q) : new[i] = IF i <= Len(old) THEN old[i] ELSE q[i - Len(old)]
  BY <1>1, <1>2, ConcatProperties
<1>5. Len(taken) \in Nat /\ Len(old) \in Nat /\ Len(q) \in Nat /\ RxCap \in Nat
  BY <1>1, <1>2, Sizes
<1> HIDE DEF new
<1>6. \A i \in 1 .. Len(new) : new[i] = Len(taken) + i
  <2> TAKE i \in 1 .. Len(new)
  <2>1. i \in 1 .. Len(old) + Len(q)
    BY <1>4
  <2>2. CASE i <= Len(old)
    <3>1. new[i] = old[i]
      BY <1>4, <2>1, <2>2
    <3>2. i \in 1 .. Len(old)
      BY <1>5, <2>1, <2>2
    <3> QED BY <1>2, <3>1, <3>2
  <2>3. CASE ~(i <= Len(old))
    <3>1. i - Len(old) \in 1 .. Len(q)
      BY <1>5, <2>1, <2>3
    <3>2. q[i - Len(old)] = Len(taken) + Len(old) + (i - Len(old))
      BY <1>1, <3>1
    <3>3. new[i] = q[i - Len(old)]
      BY <1>4, <2>1, <2>3
    <3> QED BY <1>5, <2>1, <3>2, <3>3
  <2> QED BY <2>2, <2>3
<1>7. Here' = Len(taken) + Len(old) + Len(q) /\ Here = Len(taken) + Len(old)
  BY <1>3, <1>4, <1>5 DEF Here, old
<1>8. Len(new) <= RxCap /\ Here' <= peer'.sent
  BY <1>1, <1>4, <1>5, <1>7
<1> QED BY <1>2, <1>3, <1>4, <1>6, <1>7, <1>8 DEF Intact

LEMMA DispatchDataStep ==
  ASSUME Inv, NEW s \in Segments, Possible(s), DispatchData(s)
  PROVE  Inv'
<1> DEFINE q == QueueRx(s)
           ack == Plus(pcb.ack, Len(q))
           una == IF UpTo(s.ack, pcb.snd_una) /\ UpTo(pcb.seq, s.ack) THEN s.ack ELSE pcb.snd_una
           p == [pcb EXCEPT !.snd_una = una, !.queue = @ \o q, !.ack = ack]
           e == [p EXCEPT !.ack = Plus(ack, 1), !.rx_closed = TRUE, !.state = "CLOSED"]
<1>1. pcb.state = "ESTABLISHED" /\ pcb \in Pcbs /\ Arrival(Received(s))
  BY DEF DispatchData, Inv, Types
<1>2. PICK i \in 0 .. peer.sent, j \in 0 .. peer.sent : IsSegment(s, i, j)
  BY SegmentIs
<1>3. Continues(q)
  BY <1>1, <1>2, Queued
<1>4. /\ Here \in Nat /\ Len(q) \in Nat /\ Here + Len(q) <= peer.sent
      /\ peer.sent \in Nat /\ peer.sent <= Written /\ Irs \in Int /\ Modulus \in Nat
  BY <1>3, Whereabouts, Sizes DEF Continues
<1>5. /\ ack = Plus(Irs, 1 + (Here + Len(q)))
      /\ ack \in 0 .. Modulus - 1 /\ Plus(ack, 1) \in 0 .. Modulus - 1
  <2>1. pcb.ack = Plus(Irs, 1 + Here)
    BY <1>1 DEF Inv, Synced
  <2>2. 1 + Here \in Int /\ (1 + Here) + Len(q) = 1 + (Here + Len(q))
    BY <1>4
  <2>3. ack = Plus(Irs, (1 + Here) + Len(q))
    <3> DEFINE m == 1 + Here   k == Len(q)
    <3>1. m \in Int /\ k \in Int
      BY <1>4
    <3> HIDE DEF m, k
    <3>2. Plus(Plus(Irs, m), k) = Plus(Irs, m + k)
      BY <1>4, <3>1, PlusPlus
    <3> QED BY <2>1, <3>2 DEF m, k
  <2>4. ack \in 0 .. Modulus - 1
    BY <1>4, <2>2, <2>3, PlusType
  <2>5. Plus(ack, 1) \in 0 .. Modulus - 1
    <3> HIDE DEF ack
    <3>1. ack \in Int /\ 1 \in Int
      BY <1>4, <2>4
    <3> QED BY <3>1, PlusType
  <2> QED BY <2>2, <2>3, <2>4, <2>5
<1>6. una \in 0 .. Modulus - 1
  BY <1>1, <1>2 DEF IsSegment, Pcbs
<1>7. pcb.queue \o q \in Seq(Nat)
  BY <1>1, <1>3, ConcatProperties DEF Pcbs, Continues
<1>8. Received(s) = IF AcceptsFin(s, ack) THEN MarkClosed([p EXCEPT !.ack = Plus(@, 1), !.rx_closed = TRUE])
                                          ELSE p
  BY Zenon DEF Received
<1> HIDE DEF q, ack, una
<1>9. CASE ~AcceptsFin(s, ack)
  <2>1. Received(s) = p
    BY <1>8, <1>9
  <2>2. /\ p \in Pcbs /\ p.queue = pcb.queue \o q /\ p.ack = ack
        /\ p.state = pcb.state /\ p.rx_closed = pcb.rx_closed
    BY <1>1, <1>5, <1>6, <1>7 DEF Pcbs
  <2> HIDE DEF p
  <2>3. pcb' = p /\ taken' = taken /\ peer' = peer
    BY <1>1, <2>1 DEF Arrival
  <2>4. Intact' /\ Here' = Here + Len(q)
    BY <1>3, <2>2, <2>3, Extended
  <2>5. Synced'
    BY <1>1, <1>5, <2>2, <2>3, <2>4 DEF Inv, Synced
  <2> QED BY <1>1, <2>1, <2>2, <2>4, <2>5, ArrivalKept
<1>10. CASE AcceptsFin(s, ack)
  <2>1. Received(s) = e
    <3>1. /\ p \in Pcbs /\ p.ack = ack
      BY <1>1, <1>5, <1>6, <1>7 DEF Pcbs
    <3>2. Received(s) = [[p EXCEPT !.ack = Plus(p.ack, 1), !.rx_closed = TRUE] EXCEPT !.state = "CLOSED"]
      BY <1>8, <1>10 DEF MarkClosed
    <3> HIDE DEF p
    <3> QED BY <3>1, <3>2
  <2>2. /\ e \in Pcbs /\ e.queue = pcb.queue \o q /\ e.state = "CLOSED" /\ e.rx_closed
    BY <1>1, <1>5, <1>6, <1>7 DEF Pcbs
  <2> HIDE DEF e
  <2>3. pcb' = e /\ taken' = taken /\ peer' = peer
    BY <1>1, <2>1 DEF Arrival
  <2>4. Intact' /\ Here' = Here + Len(q)
    BY <1>3, <2>2, <2>3, Extended
  <2>5. peer.ended /\ Here + Len(q) = peer.sent
    <3>1. s.fin /\ ack = Plus(s.seq, Len(s.bytes))
      BY <1>10 DEF AcceptsFin
    <3>2. peer.ended /\ ack = Plus(Irs, 1 + peer.sent)
      BY <3>1 DEF Possible
    <3>3. /\ Near(1 + (Here + Len(q)), 1 + peer.sent)
          /\ 1 + (Here + Len(q)) \in Int /\ 1 + peer.sent \in Int
      BY <1>4, Sizes DEF Near
    <3>4. 1 + (Here + Len(q)) = 1 + peer.sent
      BY <1>4, <1>5, <3>2, <3>3, Apart
    <3> QED BY <1>4, <3>2, <3>4
  <2>6. Synced'
    BY <2>2, <2>3, <2>4, <2>5 DEF Synced
  <2> QED BY <1>1, <2>1, <2>2, <2>4, <2>6, ArrivalKept
<1> QED BY <1>9, <1>10

-----------------------------------------------------------------------------
LEMMA InvNext == Inv /\ [Next]_vars => Inv'
<1> SUFFICES ASSUME Inv, [Next]_vars PROVE Inv'
  OBVIOUS
<1>1. ASSUME NEW t \in Task,
             \/ Socket(t) \/ Connect(t) \/ ConnectSyn(t) \/ ConnectLook(t) \/ ConnectEnd(t)
      PROVE  Inv'
  BY <1>1, SocketStep, ConnectStep, ConnectSynStep, ConnectLookStep, ConnectEndStep
<1>2. ASSUME NEW t \in Task, \E n \in Counts : Send(t, n) \/ Recv(t, n)
      PROVE  Inv'
  BY <1>2, SendSteps
<1>3. ASSUME NEW t \in Task, SendChunk(t) \/ SendLook(t)
      PROVE  Inv'
  BY <1>3, SendSteps
<1>4. ASSUME NEW t \in Task, RecvTake(t) \/ RecvReset(t) \/ RecvEnd(t) \/ Shutdown(t) \/ Close(t)
      PROVE  Inv'
  BY <1>4, RecvTakeStep, RecvRestSteps, ShutdownStep, CloseSteps
<1>5. ASSUME NEW t \in Task \cup {Reaper}, CloseTcp(t) \/ CloseFin(t) \/ Free(t)
      PROVE  Inv'
  BY <1>5, CloseSteps, FreeStep
<1>6. CASE Kill \/ Cleanup
  BY <1>6, KillStep, CleanupStep
<1>7. CASE PeerAccept \/ PeerReset \/ PeerWrite \/ PeerEnd \/ PeerGet \/ PeerGetFin
  BY <1>7, PeerSteps
<1>8. CASE DispatchReset \/ DispatchSynAck
  BY <1>8, DispatchResetStep, DispatchSynAckStep
<1>9. ASSUME NEW s \in Segments, Possible(s), DispatchData(s)
      PROVE  Inv'
  BY <1>9, DispatchDataStep
<1>10. CASE UNCHANGED vars
  <2>1. UNCHANGED <<sock, pcb, peer, wire, pc, call, taken>>
    BY <1>10 DEF vars
  <2>2. Here' = Here
    BY <2>1 DEF Here
  <2> QED BY <2>1, <2>2 DEF Inv, Types, Intact, Connecting, Synced
<1> QED BY <1>1, <1>2, <1>3, <1>4, <1>5, <1>6, <1>7, <1>8, <1>9, <1>10 DEF Next

(* What recv hands out is the peer's stream from its beginning, whatever   *)
(* the network does with the segments, wherever the 32-bit numbers wrap    *)
(* and however small the queue is; and a FIN is accepted only when the     *)
(* whole stream is here (net_tcp_dispatch_frame, net_tcp_queue_rx and      *)
(* net_tcp_take_rx).                                                       *)
THEOREM TcpSafe == Spec => []StreamIntact
<1>1. Spec => []Inv
  BY InvInit, InvNext, PTL DEF Spec
<1>2. QED BY <1>1, InvImplies, PTL
=============================================================================
