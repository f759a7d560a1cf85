------------------------------- MODULE TcpSock -------------------------------
(***************************************************************************)
(* The sockets of lib/tcpsock.c: a struct tcpsock and the string of its    *)
(* address in memory, and a descriptor that the kernel knows the rest of.  *)
(* A call that opens a socket allocates the struct, then takes a step for  *)
(* each system call and each allocation, and has an action for each place  *)
(* where it can fail; the peers connect, hang up and reset connections     *)
(* between any two steps.  The other calls are one action with an outcome  *)
(* for each way they return.  The kernel, and malloc, are modelled from    *)
(* how the library uses them.                                              *)
(*                                                                         *)
(* The caller is the one tcpsock.h asks for: it hands in null or a socket  *)
(* that it was given and has not closed, and makes one call at a time.     *)
(* The cookie is then the right one in every socket but a null one, and is *)
(* left out.                                                               *)
(***************************************************************************)
EXTENDS Integers

CONSTANTS
  Socks,      \* the addresses malloc may return for a struct tcpsock
  Blocks,     \* the addresses it may return for the string of an address
  Fds,        \* the descriptors of the process that are left to sockets
  Ports,      \* the port numbers callers ask for
  Ephemeral,  \* a port that the kernel chooses when it is asked for port 0
  Backlog,    \* bound: connections waiting to be accepted
  NULL        \* the null pointer, also "no descriptor" and "no port"

MIN_PORT == 1024
MAX_PORT == 65536
UINT16_MAX == 65535

\* The ports a descriptor can be bound to.
BoundPorts == 1 .. UINT16_MAX

\* The values of a struct tcpsock.
tcpsock_t == [sd : Fds \cup {NULL}, ip_addr : Blocks \cup {NULL},
              port : Ports \cup {Ephemeral, NULL}]

\* The call under way: where it is, its new struct, the port it was given,
\* and the listening socket it waits at.
Idle == [fn |-> "none", at |-> "none", new |-> NULL, port |-> NULL, from |-> NULL]

ASSUME TcpSockAssumption ==
  /\ NULL \notin Socks \cup Blocks \cup Fds \cup tcpsock_t
  /\ Fds \subseteq Nat
  /\ Ports \subseteq Nat
  /\ Ephemeral \in BoundPorts \ Ports
  /\ Backlog \in Nat

\* Fault: the number is not cut to 16 bits.
htonsWide(p) == p

\* Fault: the bytes are in the wrong order.
htonsSwapped(p) == (256 * (p % 256)) + ((p \div 256) % 256)

\* A port number in the 16 bits of sin_port.
htons(p) == p % (UINT16_MAX + 1)

VARIABLES
  call,     \* the call that opens a socket, Idle if there is none
  sock,     \* sock[s]: the struct tcpsock at s, NULL if not allocated
  held,     \* the sockets the caller was given and has not closed
  blocks,   \* the strings that are allocated
  kern,     \* kernel: the state of each descriptor
  port,     \* kernel: the port each descriptor is bound to, or NULL
  backlog,  \* kernel: how many connections wait at each descriptor
  orphans,  \* history: the descriptors of calls that failed with their
            \* connection made
  result    \* what the last call returned, "none" until it has; for a
            \* transfer also where, and how many bytes were asked for

kernel == <<kern, port, backlog>>
memory == <<sock, held, blocks>>
vars == <<call, kernel, memory, orphans, result>>

Nothing == [code |-> "none", sd |-> NULL, size |-> 0]

Closed == {f \in Fds : kern[f] = "closed"}
Lowest == CHOOSE f \in Closed : \A g \in Closed : f <= g

Init ==
  /\ call = Idle
  /\ sock = [s \in Socks |-> NULL]
  /\ held = {}
  /\ blocks = {}
  /\ kern = [f \in Fds |-> "closed"]
  /\ port = [f \in Fds |-> NULL]
  /\ backlog = [f \in Fds |-> 0]
  /\ orphans = {}
  /\ result = Nothing

-----------------------------------------------------------------------------
(* The steps that calls are made of *)

Return(code) ==
  /\ call' = Idle
  /\ result' = [Nothing EXCEPT !.code = code]

\* An error before there is a new socket.
Refuse(code) ==
  /\ call = Idle
  /\ Return(code)
  /\ UNCHANGED <<kernel, memory, orphans>>

\* tcp_sock_create succeeds.
Start(fn, at, p, s) ==
  /\ call = Idle
  /\ \E new \in Socks :
       /\ sock[new] = NULL
       /\ sock' = [sock EXCEPT ![new] = [sd |-> NULL, ip_addr |-> NULL, port |-> NULL]]
       /\ call' = [fn |-> fn, at |-> at, new |-> new, port |-> p, from |-> s]
  /\ result' = Nothing
  /\ UNCHANGED <<kernel, held, blocks, orphans>>

Advance(at) ==
  /\ call' = [call EXCEPT !.at = at]
  /\ UNCHANGED <<held, blocks, orphans, result>>

\* An error after it: free(s), and return.
Fail(code) ==
  /\ sock' = [sock EXCEPT ![call.new] = NULL]
  /\ Return(code)
  /\ UNCHANGED <<kernel, held, blocks>>

\* Success: the new socket is handed to the caller.
HandOver(b, p) ==
  /\ sock' = [sock EXCEPT ![call.new].ip_addr = b, ![call.new].port = p]
  /\ held' = held \cup {call.new}
  /\ blocks' = blocks \cup ({b} \ {NULL})
  /\ Return("TCP_NO_ERROR")
  /\ UNCHANGED orphans

\* The kernel opens the lowest descriptor that is free.
Open(state, p) ==
  /\ Closed # {}
  /\ kern' = [kern EXCEPT ![Lowest] = state]
  /\ port' = [port EXCEPT ![Lowest] = p]

\* The descriptor of the new socket.
NewSd == sock[call.new].sd

Unbound(p) == \A f \in Fds : port[f] # p

-----------------------------------------------------------------------------
(* Opening.  The new socket is freed wherever a call fails; its descriptor *)
(* stays open.                                                             *)

tcp_passive_open(p) ==
  IF p \in MIN_PORT .. MAX_PORT
  THEN Refuse("TCP_MEMORY_ERROR") \/ Start("tcp_passive_open", "socket", p, NULL)
  ELSE Refuse("TCP_ADDRESS_ERROR")

\* The remote address may be missing, whatever the port.
tcp_active_open(p) ==
  \/ Refuse("TCP_ADDRESS_ERROR")
  \/ /\ p \in MIN_PORT .. MAX_PORT
     /\ Refuse("TCP_MEMORY_ERROR") \/ Start("tcp_active_open", "socket", p, NULL)

tcp_wait_for_connection(s) ==
  Refuse("TCP_MEMORY_ERROR") \/ Start("tcp_wait_for_connection", "accept", NULL, s)

SocketOpens ==
  /\ call.at = "socket"
  /\ Open("unconnected", NULL)
  /\ sock' = [sock EXCEPT ![call.new].sd = Lowest]
  /\ Advance(IF call.fn = "tcp_passive_open" THEN "bind" ELSE "connect")
  /\ UNCHANGED backlog

SocketFails ==
  /\ call.at = "socket"
  /\ Fail("TCP_SOCKOP_ERROR")
  /\ UNCHANGED orphans

\* Port 0 asks the kernel to choose.
BindSucceeds ==
  /\ call.at = "bind"
  /\ \E q \in {IF htons(call.port) = 0 THEN Ephemeral ELSE htons(call.port)} :
       /\ Unbound(q)
       /\ port' = [port EXCEPT ![NewSd] = q]
  /\ Advance("listen")
  /\ UNCHANGED <<kern, backlog, sock>>

BindFails ==
  /\ call.at = "bind"
  /\ Fail("TCP_SOCKOP_ERROR")
  /\ UNCHANGED orphans

ListenSucceeds ==
  /\ call.at = "listen"
  /\ kern' = [kern EXCEPT ![NewSd] = "listening"]
  /\ HandOver(NULL, call.port)
  /\ UNCHANGED <<port, backlog>>

\* Fault: the new socket is not freed.
ListenFailsUnfreed ==
  /\ call.at = "listen"
  /\ Return("TCP_SOCKOP_ERROR")
  /\ UNCHANGED <<kernel, memory, orphans>>

ListenFails ==
  /\ call.at = "listen"
  /\ Fail("TCP_SOCKOP_ERROR")
  /\ UNCHANGED orphans

\* The remote side is no part of the model.  Port 0, which 65536 becomes,
\* cannot be connected to.
ConnectSucceeds ==
  /\ call.at = "connect"
  /\ htons(call.port) # 0
  /\ kern' = [kern EXCEPT ![NewSd] = "connected"]
  /\ port' = [port EXCEPT ![NewSd] = Ephemeral]
  /\ Advance("getsockname")
  /\ UNCHANGED <<backlog, sock>>

\* inet_aton, or connect.
ConnectFails ==
  /\ call.at = "connect"
  /\ \E code \in {"TCP_ADDRESS_ERROR", "TCP_SOCKOP_ERROR"} : Fail(code)
  /\ UNCHANGED orphans

GetsocknameSucceeds ==
  /\ call.at = "getsockname"
  /\ Advance("string")
  /\ UNCHANGED <<kernel, sock>>

GetsocknameFails ==
  /\ call.at = "getsockname"
  /\ Fail("TCP_SOCKOP_ERROR")
  /\ orphans' = orphans \cup {NewSd}

\* A connection waits, and is taken: it has the port of the listening socket.
Accept(s) ==
  /\ kern[sock[s].sd] = "listening"
  /\ backlog[sock[s].sd] > 0
  /\ backlog' = [backlog EXCEPT ![sock[s].sd] = @ - 1]
  /\ Open("connected", port[sock[s].sd])

\* Fault: the new socket gets the descriptor of the listening one.
AcceptSucceedsSame ==
  /\ call.at = "accept"
  /\ Accept(call.from)
  /\ sock' = [sock EXCEPT ![call.new].sd = sock[call.from].sd]
  /\ Advance("string")

AcceptSucceeds ==
  /\ call.at = "accept"
  /\ Accept(call.from)
  /\ sock' = [sock EXCEPT ![call.new].sd = Lowest]
  /\ Advance("string")

AcceptFails ==
  /\ call.at = "accept"
  /\ Fail("TCP_SOCKOP_ERROR")
  /\ UNCHANGED orphans

\* The last step of tcp_active_open, and of tcp_wait_for_connection.
StringAllocated ==
  /\ call.at = "string"
  /\ \E b \in Blocks \ blocks : HandOver(b, Ephemeral)
  /\ UNCHANGED kernel

StringFails ==
  /\ call.at = "string"
  /\ Fail("TCP_MEMORY_ERROR")
  /\ orphans' = orphans \cup {NewSd}

-----------------------------------------------------------------------------
(* Closing *)

\* Fault: the descriptor is closed only if shutdown failed.
CloseIfFailed(f) ==
  IF kern[f] # "reset" THEN UNCHANGED kernel
  ELSE /\ kern' = [kern EXCEPT ![f] = "closed"]
       /\ port' = [port EXCEPT ![f] = NULL]
       /\ backlog' = [backlog EXCEPT ![f] = 0]

\* shutdown fails with ENOTCONN on a connection that was reset, and the
\* descriptor stays open.
CloseDescriptor(f) ==
  IF kern[f] = "reset" THEN UNCHANGED kernel
  ELSE /\ kern' = [kern EXCEPT ![f] = "closed"]
       /\ port' = [port EXCEPT ![f] = NULL]
       /\ backlog' = [backlog EXCEPT ![f] = 0]

tcp_close(s) ==
  /\ call = Idle
  /\ CloseDescriptor(sock[s].sd)
  /\ blocks' = blocks \ {sock[s].ip_addr}
  /\ sock' = [sock EXCEPT ![s] = NULL]
  /\ held' = held \ {s}
  /\ Return("TCP_NO_ERROR")
  /\ UNCHANGED orphans

-----------------------------------------------------------------------------
(* Transfer.  A size that is zero is handed to the kernel: the test in     *)
(* front of it looks at the pointer to the size.                           *)

Gone(f) == kern[f] \in {"ended", "reset"}

Transferred(s, n, codes) ==
  /\ call = Idle
  /\ \E c \in codes : result' = [code |-> c, sd |-> sock[s].sd, size |-> n]
  /\ UNCHANGED <<call, kernel, memory, orphans>>

\* sendto: 0 bytes of none; EPIPE without a connection or after a reset,
\* which may be reported as ECONNRESET first.  A peer that has only stopped
\* sending takes more.
Sent(f, n) ==
  CASE kern[f] = "listening"                 -> {"TCP_CONNECTION_CLOSED"}
    [] kern[f] = "reset"                     -> {"TCP_CONNECTION_CLOSED", "TCP_SOCKOP_ERROR"}
    [] kern[f] \notin {"listening", "reset"} ->
         {IF n = 0 THEN "TCP_CONNECTION_CLOSED" ELSE "TCP_NO_ERROR", "TCP_SOCKOP_ERROR"}

tcp_send(s, n) == Transferred(s, n, Sent(sock[s].sd, n))

\* Fault: an interrupted call is taken for the end of the connection.
ReceivedInterrupted(f, n) ==
  CASE kern[f] = "connected"  -> {"TCP_NO_ERROR", "TCP_CONNECTION_CLOSED"}
    [] kern[f] # "connected"  -> {"TCP_CONNECTION_CLOSED"}

\* recv: 0 bytes of none, or at the end of the stream; ENOTCONN without a
\* connection; ECONNRESET once after a reset, then 0.
Received(f, n) ==
  CASE kern[f] = "listening" -> {"TCP_CONNECTION_CLOSED"}
    [] kern[f] = "connected" ->
         {IF n = 0 THEN "TCP_CONNECTION_CLOSED" ELSE "TCP_NO_ERROR", "TCP_SOCKOP_ERROR"}
    [] Gone(f) -> {"TCP_NO_ERROR", "TCP_CONNECTION_CLOSED", "TCP_SOCKOP_ERROR"}

tcp_receive(s, n) == Transferred(s, n, Received(sock[s].sd, n))

tcp_get_ip_addr(s) == sock[s].ip_addr
tcp_get_port(s)    == sock[s].port
tcp_get_sd(s)      == sock[s].sd

\* Every call on a null socket.
NullSocket == Refuse("TCP_SOCKET_ERROR")

-----------------------------------------------------------------------------
(* The peers *)

PeerConnects(f) ==
  /\ kern[f] = "listening"
  /\ backlog[f] < Backlog
  /\ backlog' = [backlog EXCEPT ![f] = @ + 1]
  /\ UNCHANGED <<kern, port, call, memory, orphans, result>>

\* A peer hangs up; or its end of the connection is torn down.
PeerLeaves(f) ==
  /\ kern[f] \in {"connected", "ended"}
  /\ \E to \in {"ended", "reset"} : kern' = [kern EXCEPT ![f] = to]
  /\ UNCHANGED <<port, backlog, call, memory, orphans, result>>

Next ==
  \/ \E p \in Ports : tcp_passive_open(p)
  \/ \E p \in Ports : tcp_active_open(p)
  \/ \E s \in held : tcp_wait_for_connection(s)
  \/ SocketOpens         \/ SocketFails
  \/ BindSucceeds        \/ BindFails
  \/ ListenSucceeds      \/ ListenFails
  \/ ConnectSucceeds     \/ ConnectFails
  \/ GetsocknameSucceeds \/ GetsocknameFails
  \/ AcceptSucceeds      \/ AcceptFails
  \/ StringAllocated     \/ StringFails
  \/ \E s \in held : tcp_close(s)
  \/ \E s \in held, n \in 0 .. 1 : tcp_send(s, n)
  \/ \E s \in held, n \in 0 .. 1 : tcp_receive(s, n)
  \/ NullSocket
  \/ \E f \in Fds : PeerConnects(f)
  \/ \E f \in Fds : PeerLeaves(f)

Spec == Init /\ [][Next]_vars

-----------------------------------------------------------------------------
(* Properties *)

\* Every variable ranges over the values its C type can hold here.
TypeOK ==
  /\ call \in {Idle} \cup
       [fn : {"tcp_passive_open", "tcp_active_open", "tcp_wait_for_connection"},
        at : {"socket", "bind", "listen", "connect", "getsockname", "accept", "string"},
        new : Socks, port : Ports \cup {NULL}, from : Socks \cup {NULL}]
  /\ sock \in [Socks -> tcpsock_t \cup {NULL}]
  /\ held \in SUBSET Socks
  /\ blocks \in SUBSET Blocks
  /\ kern \in [Fds -> {"closed", "unconnected", "listening", "connected",
                       "ended", "reset"}]
  /\ port \in [Fds -> BoundPorts \cup {NULL}]
  /\ backlog \in [Fds -> 0 .. Backlog]
  /\ orphans \in SUBSET Fds
  /\ result.sd \in Fds \cup {NULL}
  /\ result.size \in 0 .. 1 /\ (result.size > 0 => result.sd \in Fds)

\* Every socket the caller holds has a descriptor and a string of its own,
\* and the descriptor is open for it: no close, and no error path of an
\* open, takes away what another socket uses or hands it out twice.
SocketsOwnDescriptors ==
  \A s \in held :
    /\ tcp_get_sd(s) \in Fds
    /\ kern[tcp_get_sd(s)] \notin {"closed", "unconnected"}
    /\ \A t \in held \ {s} :
         /\ tcp_get_sd(t) # tcp_get_sd(s)
         /\ tcp_get_ip_addr(t) = tcp_get_ip_addr(s) => tcp_get_ip_addr(s) = NULL

\* Memory is owned: what is allocated belongs to the sockets the caller
\* holds, and for as long as a call lasts to its new socket.  So none of the
\* ways a call can fail, at whichever of its steps, forgets to free the
\* struct or its string, and none frees what somebody still has.
MemoryOwned ==
  /\ {s \in Socks : sock[s] # NULL} = held \cup ({call.new} \ {NULL})
  /\ call.new \notin held
  /\ blocks = {tcp_get_ip_addr(s) : s \in held} \ {NULL}

\* No peer stays connected to nobody: a descriptor that belongs to no socket,
\* and not to the call under way, is unconnected or its peer has reset it,
\* but for the ones that a call opened and then failed, for want of memory
\* for the address or of the address itself (tcpsock.c:116, 119 and 173).
\* Descriptors do leak elsewhere (tcpsock.c:79, 82, 107, 111 and 142), but
\* never with somebody waiting at the other end.
LiveConnectionsAreHeld ==
  \A f \in Fds :
    \/ kern[f] \in {"closed", "unconnected", "reset"}
    \/ \E s \in held : tcp_get_sd(s) = f
    \/ call.at \in {"getsockname", "string"} /\ NewSd = f
    \/ f \in orphans

\* tcp_send and tcp_receive report a closed connection only if there is none
\* any more, whatever errors come before, unless no byte was asked for.
ClosedMeansGone ==
  result.code = "TCP_CONNECTION_CLOSED" /\ result.size > 0
    => kern[result.sd] # "connected"

\* A listening socket is bound to the port its caller asked for, whatever
\* failed before, and nobody else is.  The one exception is MAX_PORT, which
\* the check of the range lets through: it is 0 in 16 bits, the kernel
\* chooses a port, and tcp_get_port does not tell which.
BoundToItsPort ==
  \A s \in held : kern[tcp_get_sd(s)] = "listening" =>
    /\ port[tcp_get_sd(s)] =
         IF tcp_get_port(s) = MAX_PORT THEN Ephemeral ELSE tcp_get_port(s)
    /\ \A t \in held \ {s} : kern[tcp_get_sd(t)] = "listening" =>
         port[tcp_get_sd(t)] # port[tcp_get_sd(s)]

\* What the call under way has got so far: a struct of its own, and from
\* socket or accept on a descriptor of its own, which listen finds bound.
CallInProgress ==
  call # Idle =>
    LET new == sock[call.new]
    IN  /\ result = Nothing
        /\ new # NULL /\ new.ip_addr = NULL
        /\ call.at \in {"bind", "listen"} => call.fn = "tcp_passive_open"
        /\ call.at \in {"socket", "accept"} => new.sd = NULL
        /\ call.at \in {"bind", "listen", "connect"} => kern[new.sd] = "unconnected"
        /\ call.at \in {"getsockname", "string"} =>
             kern[new.sd] \in {"connected", "ended", "reset"}
        /\ call.at \notin {"socket", "accept"} =>
             new.sd \in Fds /\ \A s \in held : tcp_get_sd(s) # new.sd
        /\ call.at \notin {"accept", "string"} =>
             call.port \in Ports \cap (MIN_PORT .. MAX_PORT)
        /\ call.at = "listen" =>
             /\ port[new.sd] = IF call.port = MAX_PORT THEN Ephemeral ELSE call.port
             /\ \A f \in Fds \ {new.sd} : port[f] # port[new.sd]
        /\ call.at = "accept" => call.from \in held

\* All of them together are inductive.
IInv ==
  /\ TypeOK /\ MemoryOwned /\ CallInProgress /\ SocketsOwnDescriptors
  /\ LiveConnectionsAreHeld /\ ClosedMeansGone /\ BoundToItsPort
=============================================================================
