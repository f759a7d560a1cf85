---------------------------- MODULE TcpSockProofs ----------------------------
(* Proofs about module TcpSock, for every set of sockets, strings,          *)
(* descriptors and ports.                                                   *)
EXTENDS TcpSock, Facts

LEMMA InitInv == Init => IInv
<1> SUFFICES ASSUME Init PROVE IInv
  OBVIOUS
<1> USE TcpSockAssumption
<1>1. TypeOK
  <2>1. result.sd = NULL /\ result.size = 0
    BY DEF Init, Nothing
  <2>2. /\ sock \in [Socks -> tcpsock_t \cup {NULL}]
        /\ port \in [Fds -> BoundPorts \cup {NULL}]
    BY DEF Init
  <2>3. kern \in [Fds -> {"closed", "unconnected", "listening", "connected",
                          "ended", "reset"}]
    BY DEF Init
  <2>4. backlog \in [Fds -> 0 .. Backlog]
    BY DEF Init
  <2> QED BY <2>1, <2>2, <2>3, <2>4 DEF Init, TypeOK
<1>2. held = {} /\ \A f \in Fds : kern[f] = "closed"
  BY DEF Init
<1>3. MemoryOwned
  BY DEF Init, MemoryOwned, Idle
<1>4. SocketsOwnDescriptors /\ LiveConnectionsAreHeld /\ BoundToItsPort
  BY <1>2 DEF SocketsOwnDescriptors, LiveConnectionsAreHeld, BoundToItsPort
<1>5. ClosedMeansGone /\ CallInProgress
  BY DEF Init, ClosedMeansGone, CallInProgress, Nothing
<1> QED
  BY <1>1, <1>3, <1>4, <1>5 DEF IInv

-----------------------------------------------------------------------------
(* What the steps that calls are made of rely on *)

LEMMA LowestIsClosed ==
  ASSUME Closed # {}
  PROVE  Lowest \in Fds /\ kern[Lowest] = "closed"
<1>1. Closed \in SUBSET Nat
  BY TcpSockAssumption DEF Closed
<1>2. \E f \in Closed : \A g \in Closed : f <= g
  BY <1>1, LeastNumber
<1>3. Lowest \in Closed
  BY <1>2 DEF Lowest
<1> QED BY <1>3 DEF Closed

\* The sockets of the caller are allocated, and open.
LEMMA HeldFacts ==
  ASSUME IInv, NEW s \in held
  PROVE  /\ s \in Socks /\ sock[s] \in tcpsock_t /\ sock[s].sd \in Fds
         /\ s # call.new
         /\ kern[sock[s].sd] \in {"listening", "connected", "ended", "reset"}
<1>1. s \in Socks /\ sock[s] # NULL /\ s # call.new
  BY DEF IInv, TypeOK, MemoryOwned
<1>2. sock[s].sd \in Fds /\ kern[sock[s].sd] \notin {"closed", "unconnected"}
  BY DEF IInv, SocketsOwnDescriptors, tcp_get_sd
<1> QED BY <1>1, <1>2 DEF IInv, TypeOK

\* The call under way has a new struct, which the caller has not.
LEMMA CallFacts ==
  ASSUME IInv, call # Idle
  PROVE  /\ call.new \in Socks \ held /\ sock[call.new] \in tcpsock_t
         /\ call \in [fn : {"tcp_passive_open", "tcp_active_open",
                            "tcp_wait_for_connection"},
                      at : {"socket", "bind", "listen", "connect", "getsockname",
                            "accept", "string"},
                      new : Socks, port : Ports \cup {NULL}, from : Socks \cup {NULL}]
         /\ call.new # NULL /\ sock[call.new].ip_addr = NULL
         /\ result = Nothing
         /\ \A s \in Socks : sock[s] # NULL <=> s \in held \cup {call.new}
<1>1. /\ call.new \in Socks
      /\ call \in [fn : {"tcp_passive_open", "tcp_active_open",
                         "tcp_wait_for_connection"},
                   at : {"socket", "bind", "listen", "connect", "getsockname",
                         "accept", "string"},
                   new : Socks, port : Ports \cup {NULL}, from : Socks \cup {NULL}]
  BY DEF IInv, TypeOK
<1>2. call.new # NULL
  BY <1>1, TcpSockAssumption
<1>3. sock[call.new] # NULL /\ sock[call.new].ip_addr = NULL /\ result = Nothing
  BY DEF IInv, CallInProgress
<1>4. /\ call.new \notin held
      /\ \A s \in Socks : sock[s] # NULL <=> s \in held \cup {call.new}
  BY <1>2 DEF IInv, MemoryOwned
<1>5. sock[call.new] \in tcpsock_t
  BY <1>1, <1>3 DEF IInv, TypeOK
<1> QED BY <1>1, <1>2, <1>3, <1>4, <1>5

\* Without a call, what is allocated is what the caller holds.
LEMMA IdleFacts ==
  ASSUME IInv, call = Idle
  PROVE  /\ call.new = NULL /\ call.at = "none"
         /\ \A s \in Socks : sock[s] # NULL <=> s \in held
BY DEF IInv, MemoryOwned, Idle

(***************************************************************************)
(* A descriptor just opened belonged to nobody.                            *)
(***************************************************************************)
LEMMA OpenFacts ==
  ASSUME IInv, NEW state, NEW p, Open(state, p)
  PROVE  /\ Lowest \in Fds /\ kern[Lowest] = "closed"
         /\ kern' = [kern EXCEPT ![Lowest] = state]
         /\ port' = [port EXCEPT ![Lowest] = p]
         /\ kern'[Lowest] = state /\ port'[Lowest] = p
         /\ \A f \in Fds \ {Lowest} : kern'[f] = kern[f] /\ port'[f] = port[f]
         /\ \A s \in held : sock[s].sd \in Fds \ {Lowest}
<1>1. Closed # {} /\ kern' = [kern EXCEPT ![Lowest] = state]
      /\ port' = [port EXCEPT ![Lowest] = p]
  BY DEF Open
<1>2. Lowest \in Fds /\ kern[Lowest] = "closed"
  BY <1>1, LowestIsClosed
<1>3. \A s \in held : sock[s].sd \in Fds \ {Lowest}
  BY <1>2, HeldFacts
<1> HIDE DEF Lowest
<1> QED
  BY <1>1, <1>2, <1>3 DEF IInv, TypeOK

\* A call that fails before it has a struct.
LEMMA RefuseStep ==
  ASSUME IInv, NEW code, Refuse(code)
  PROVE  IInv'
<1>1. call = Idle /\ call' = Idle /\ UNCHANGED <<kernel, memory, orphans>>
      /\ result' = [Nothing EXCEPT !.code = code]
  BY DEF Refuse, Return
<1>2. result'.sd = NULL /\ result'.size = 0
  BY <1>1 DEF Nothing
<1> USE <1>1, <1>2 DEF memory, kernel, IInv
<1>3. TypeOK'
  BY DEF TypeOK
<1>4. MemoryOwned' /\ CallInProgress' /\ ClosedMeansGone'
  BY DEF MemoryOwned, CallInProgress, ClosedMeansGone, tcp_get_ip_addr
<1>5. SocketsOwnDescriptors' /\ BoundToItsPort'
  BY DEF SocketsOwnDescriptors, BoundToItsPort, tcp_get_sd, tcp_get_ip_addr, tcp_get_port
<1>6. LiveConnectionsAreHeld'
  BY DEF LiveConnectionsAreHeld, tcp_get_sd, NewSd
<1> QED
  BY <1>3, <1>4, <1>5, <1>6

\* A call that has its struct, and nothing else yet.
LEMMA StartStep ==
  ASSUME IInv, NEW fn, NEW at, NEW p, NEW s, Start(fn, at, p, s),
         \/ /\ fn \in {"tcp_passive_open", "tcp_active_open"} /\ at = "socket"
            /\ p \in Ports \cap (MIN_PORT .. MAX_PORT) /\ s = NULL
         \/ /\ fn = "tcp_wait_for_connection" /\ at = "accept"
            /\ p = NULL /\ s \in held
  PROVE  IInv'
<1> DEFINE fresh == [sd |-> NULL, ip_addr |-> NULL, port |-> NULL]
<1>1. PICK new \in Socks :
        /\ call = Idle /\ sock[new] = NULL
        /\ sock' = [sock EXCEPT ![new] = fresh]
        /\ call' = [fn |-> fn, at |-> at, new |-> new, port |-> p, from |-> s]
        /\ result' = Nothing
        /\ UNCHANGED <<kernel, held, blocks, orphans>>
  BY DEF Start
<1>2. /\ fresh \in tcpsock_t /\ fresh # NULL
      /\ fresh.sd = NULL /\ fresh.ip_addr = NULL
  BY TcpSockAssumption DEF tcpsock_t
<1> HIDE DEF fresh
<1>3. /\ call'.fn = fn /\ call'.at = at /\ call'.new = new
      /\ call'.port = p /\ call'.from = s
  BY <1>1
<1>4. \A t \in Socks : sock[t] # NULL <=> t \in held
  BY <1>1, IdleFacts
<1>5. /\ new \notin held /\ new # NULL /\ sock'[new] = fresh
      /\ sock' \in [Socks -> tcpsock_t \cup {NULL}]
      /\ \A t \in Socks \ {new} : sock'[t] = sock[t]
      /\ \A t \in held : t \in Socks /\ t # new /\ sock'[t] = sock[t]
  BY <1>1, <1>2, <1>4, TcpSockAssumption DEF IInv, TypeOK
<1>6. result'.sd = NULL /\ result'.size = 0
  BY <1>1 DEF Nothing
<1> USE <1>1, <1>3, <1>5 DEF kernel, IInv
<1>7. TypeOK'
  <2>1. s \in Socks \cup {NULL}
    BY DEF TypeOK
  <2> QED BY <1>6, <2>1 DEF TypeOK
<1>8. MemoryOwned'
  <2>1. {t \in Socks : sock'[t] # NULL} = held \cup {new}
    BY <1>2, <1>4
  <2>2. {sock'[t].ip_addr : t \in held} = {sock[t].ip_addr : t \in held}
    OBVIOUS
  <2> QED BY <2>1, <2>2 DEF MemoryOwned, tcp_get_ip_addr
<1>9. CallInProgress'
  BY <1>2 DEF CallInProgress
<1>10. SocketsOwnDescriptors' /\ BoundToItsPort'
  BY DEF SocketsOwnDescriptors, BoundToItsPort, tcp_get_sd, tcp_get_ip_addr, tcp_get_port
<1>11. LiveConnectionsAreHeld'
  <2>1. call.at = "none"
    BY IdleFacts
  <2> QED BY <2>1 DEF LiveConnectionsAreHeld, tcp_get_sd
<1>12. ClosedMeansGone'
  BY <1>6 DEF ClosedMeansGone
<1> QED
  BY <1>7, <1>8, <1>9, <1>10, <1>11, <1>12

(***************************************************************************)
(* A call that fails later frees its struct.  It leaves its descriptor to  *)
(* nobody, which is why a connection it had made has to be on record.      *)
(***************************************************************************)
LEMMA FailStep ==
  ASSUME IInv, NEW code, call # Idle, Fail(code),
         orphans \subseteq orphans', orphans' \subseteq Fds,
         call.at \in {"getsockname", "string"} => NewSd \in orphans'
  PROVE  IInv'
<1> DEFINE new == call.new
<1>1. /\ sock' = [sock EXCEPT ![new] = NULL]
      /\ call' = Idle /\ result' = [Nothing EXCEPT !.code = code]
      /\ UNCHANGED <<kernel, held, blocks>>
  BY DEF Fail, Return
<1>2. /\ new \in Socks \ held
      /\ \A t \in Socks : sock[t] # NULL <=> t \in held \cup {new}
  BY CallFacts
<1> HIDE DEF new
<1>3. /\ sock' \in [Socks -> tcpsock_t \cup {NULL}] /\ sock'[new] = NULL
      /\ \A t \in Socks \ {new} : sock'[t] = sock[t]
      /\ \A t \in held : t \in Socks /\ t # new /\ sock'[t] = sock[t]
  BY <1>1, <1>2 DEF IInv, TypeOK
<1>4. result'.sd = NULL /\ result'.size = 0
  BY <1>1 DEF Nothing
<1> USE <1>1, <1>3 DEF kernel, IInv
<1>5. TypeOK'
  BY <1>4 DEF TypeOK
<1>6. MemoryOwned'
  <2>1. {t \in Socks : sock'[t] # NULL} = held
    BY <1>2
  <2>2. {sock'[t].ip_addr : t \in held} = {sock[t].ip_addr : t \in held}
    OBVIOUS
  <2>3. call'.new = NULL /\ NULL \notin held
    BY TcpSockAssumption DEF Idle, TypeOK
  <2> QED BY <2>1, <2>2, <2>3 DEF MemoryOwned, tcp_get_ip_addr
<1>7. CallInProgress'
  BY DEF CallInProgress
<1>8. SocketsOwnDescriptors' /\ BoundToItsPort'
  BY DEF SocketsOwnDescriptors, BoundToItsPort, tcp_get_sd, tcp_get_ip_addr, tcp_get_port
<1>9. LiveConnectionsAreHeld'
  BY DEF LiveConnectionsAreHeld, tcp_get_sd
<1>10. ClosedMeansGone'
  BY <1>4 DEF ClosedMeansGone
<1> QED
  BY <1>5, <1>6, <1>7, <1>8, <1>9, <1>10

(***************************************************************************)
(* A call that goes on: with the descriptor it has, or with one that it    *)
(* has just got, which was closed.                                         *)
(***************************************************************************)
LEMMA AdvanceStep ==
  ASSUME IInv, call # Idle, NEW d \in Fds,
         NEW at \in {"bind", "listen", "connect", "getsockname", "string"}, Advance(at),
         sock' \in [Socks -> tcpsock_t \cup {NULL}],
         sock'[call.new] # NULL, sock'[call.new].sd = d, sock'[call.new].ip_addr = NULL,
         \A t \in Socks \ {call.new} : sock'[t] = sock[t],
         \A t \in held : sock[t].sd # d,
         sock[call.new].sd \in {d, NULL},
         kern' \in [Fds -> {"closed", "unconnected", "listening", "connected",
                            "ended", "reset"}],
         port' \in [Fds -> BoundPorts \cup {NULL}],
         backlog' \in [Fds -> 0 .. Backlog],
         \A f \in Fds \ {d} : kern'[f] = kern[f] /\ port'[f] = port[f],
         at \in {"bind", "listen", "connect"} => kern'[d] = "unconnected",
         at \in {"getsockname", "string"} => kern'[d] \in {"connected", "ended", "reset"},
         at \in {"bind", "listen"} => call.fn = "tcp_passive_open",
         at # "string" => call.at \notin {"accept", "string"},
         at = "listen" =>
           /\ port'[d] = IF call.port = MAX_PORT THEN Ephemeral ELSE call.port
           /\ \A f \in Fds \ {d} : port[f] # port'[d]
  PROVE  IInv'
<1> DEFINE new == call.new
<1>1. /\ call' = [call EXCEPT !.at = at]
      /\ UNCHANGED <<held, blocks, orphans, result>>
  BY DEF Advance
<1>2. /\ call' \in [fn : {"tcp_passive_open", "tcp_active_open",
                          "tcp_wait_for_connection"},
                    at : {"socket", "bind", "listen", "connect", "getsockname",
                          "accept", "string"},
                    new : Socks, port : Ports \cup {NULL}, from : Socks \cup {NULL}]
      /\ call'.at = at /\ call'.new = new /\ call'.fn = call.fn
      /\ call'.port = call.port /\ call'.from = call.from
  BY <1>1, CallFacts
<1>3. /\ new \in Socks \ held /\ new # NULL /\ result = Nothing
      /\ \A t \in Socks : sock[t] # NULL <=> t \in held \cup {new}
  BY CallFacts
<1>4. \A t \in held : t \in Socks /\ t # new /\ sock'[t] = sock[t]
  BY <1>3 DEF IInv, TypeOK
<1>5. sock'[new] # NULL /\ sock'[new].sd = d /\ sock'[new].ip_addr = NULL
  OBVIOUS
<1>6. \A t \in Socks \ {new} : sock'[t] = sock[t]
  OBVIOUS
<1>7. sock[new].sd \in {d, NULL}
  OBVIOUS
<1>8. d # NULL /\ result.size = 0
  BY <1>3, TcpSockAssumption DEF Nothing
<1> HIDE DEF new
<1> USE <1>1, <1>2, <1>3, <1>4, <1>5, <1>6 DEF IInv
<1>9. TypeOK'
  BY DEF TypeOK
<1>10. MemoryOwned'
  <2>1. {t \in Socks : sock'[t] # NULL} = held \cup {new}
    OBVIOUS
  <2>2. {sock'[t].ip_addr : t \in held} = {sock[t].ip_addr : t \in held}
    OBVIOUS
  <2> QED BY <2>1, <2>2 DEF MemoryOwned, tcp_get_ip_addr
<1>11. CallInProgress'
  <2>1. at # "string" => call.port \in Ports \cap (MIN_PORT .. MAX_PORT)
    BY DEF CallInProgress
  <2> QED BY <2>1 DEF CallInProgress, tcp_get_sd
<1>12. SocketsOwnDescriptors'
  BY DEF SocketsOwnDescriptors, tcp_get_sd, tcp_get_ip_addr
<1>13. BoundToItsPort'
  <2>1. \A t \in held : sock[t].sd \in Fds \ {d}
    BY HeldFacts
  <2> QED BY <2>1 DEF BoundToItsPort, tcp_get_sd, tcp_get_port
<1>14. LiveConnectionsAreHeld'
  <2>1. ASSUME NEW f \in Fds, f # d, LiveConnectionsAreHeld
        PROVE  \/ kern'[f] \in {"closed", "unconnected", "reset"}
               \/ \E s \in held : sock'[s].sd = f
               \/ f \in orphans
    <3>1. NewSd # f
      BY <1>7, <2>1, TcpSockAssumption DEF NewSd, new
    <3> QED BY <2>1, <3>1 DEF LiveConnectionsAreHeld, tcp_get_sd
  <2>2. \/ kern'[d] = "unconnected"
        \/ call'.at \in {"getsockname", "string"} /\ sock'[call'.new].sd = d
    OBVIOUS
  <2> QED BY <2>1, <2>2 DEF LiveConnectionsAreHeld, tcp_get_sd, NewSd
<1>15. ClosedMeansGone'
  BY <1>8 DEF ClosedMeansGone
<1> QED
  BY <1>9, <1>10, <1>11, <1>12, <1>13, <1>14, <1>15

(***************************************************************************)
(* A call that succeeds: the caller gets the new struct, with the          *)
(* descriptor the call has, and with a string that was free.               *)
(***************************************************************************)
LEMMA HandOverStep ==
  ASSUME IInv, call.at \in {"listen", "string"},
         NEW b \in (Blocks \ blocks) \cup {NULL},
         NEW q \in Ports \cup {Ephemeral}, HandOver(b, q),
         kern' \in [Fds -> {"closed", "unconnected", "listening", "connected",
                            "ended", "reset"}],
         \A f \in Fds \ {NewSd} : kern'[f] = kern[f],
         UNCHANGED <<port, backlog>>,
         IF call.at = "listen"
         THEN kern'[NewSd] = "listening" /\ q = call.port
         ELSE kern'[NewSd] = kern[NewSd]
  PROVE  IInv'
<1> DEFINE new == call.new
           d == sock[new].sd
<1>1. call # Idle
  BY DEF Idle
<1>2. /\ sock' = [sock EXCEPT ![new].ip_addr = b, ![new].port = q]
      /\ held' = held \cup {new}
      /\ blocks' = blocks \cup ({b} \ {NULL})
      /\ call' = Idle /\ result' = [Nothing EXCEPT !.code = "TCP_NO_ERROR"]
      /\ UNCHANGED orphans
  BY DEF HandOver, Return
<1>3. /\ new \in Socks \ held /\ new # NULL /\ sock[new] \in tcpsock_t
      /\ \A t \in Socks : sock[t] # NULL <=> t \in held \cup {new}
  BY <1>1, CallFacts
<1>4. d \in Fds /\ \A t \in held : sock[t].sd # d
  BY <1>1 DEF IInv, CallInProgress, tcp_get_sd
<1>5. IF call.at = "listen"
      THEN /\ kern'[d] = "listening"
           /\ port[d] = IF q = MAX_PORT THEN Ephemeral ELSE q
           /\ \A f \in Fds \ {d} : port[f] # port[d]
      ELSE kern'[d] \in {"connected", "ended", "reset"}
  BY <1>1 DEF IInv, CallInProgress, NewSd
<1>6. /\ sock' \in [Socks -> tcpsock_t \cup {NULL}]
      /\ sock'[new] \in tcpsock_t
      /\ sock'[new].sd = d /\ sock'[new].ip_addr = b /\ sock'[new].port = q
      /\ \A t \in Socks \ {new} : sock'[t] = sock[t]
      /\ \A t \in held : t \in Socks /\ t # new /\ sock'[t] = sock[t]
  BY <1>2, <1>3 DEF IInv, TypeOK, tcpsock_t
<1>7. sock'[new] # NULL
  BY <1>6, TcpSockAssumption
<1>8. \A f \in Fds \ {d} : kern'[f] = kern[f]
  BY DEF NewSd
<1>9. \A t \in held : sock[t].ip_addr = b => b = NULL
  BY DEF IInv, MemoryOwned, tcp_get_ip_addr
<1>10. \A t \in held : sock[t].sd \in Fds \ {d}
  BY <1>4, HeldFacts
<1>11. result'.sd = NULL /\ result'.size = 0
  BY <1>2 DEF Nothing
<1> HIDE DEF new, d
<1> USE <1>2, <1>3, <1>4, <1>6, <1>8 DEF IInv
<1>12. TypeOK'
  BY <1>11 DEF TypeOK
<1>13. MemoryOwned'
  <2>1. {t \in Socks : sock'[t] # NULL} = held'
    <3>1. \A t \in Socks : sock'[t] # NULL <=> t \in held'
      BY <1>7
    <3>2. held' \subseteq Socks
      OBVIOUS
    <3> HIDE <1>2, <1>3, <1>4, <1>6, <1>8 DEF IInv
    <3> QED BY <3>1, <3>2
  <2>2. {sock'[t].ip_addr : t \in held'} = {sock[t].ip_addr : t \in held} \cup {b}
    OBVIOUS
  <2>3. blocks' = {sock'[t].ip_addr : t \in held'} \ {NULL}
    BY <2>2 DEF MemoryOwned, tcp_get_ip_addr
  <2>4. call'.new = NULL /\ NULL \notin held'
    BY TcpSockAssumption DEF Idle, TypeOK
  <2> QED BY <2>1, <2>3, <2>4 DEF MemoryOwned, tcp_get_ip_addr
<1>14. CallInProgress'
  BY DEF CallInProgress
<1>15. SocketsOwnDescriptors'
  BY <1>5, <1>9, <1>10 DEF SocketsOwnDescriptors, tcp_get_sd, tcp_get_ip_addr
<1>16. BoundToItsPort'
  BY <1>5, <1>10 DEF BoundToItsPort, tcp_get_sd, tcp_get_port
<1>17. LiveConnectionsAreHeld'
  BY DEF LiveConnectionsAreHeld, tcp_get_sd, NewSd, new, d
<1>18. ClosedMeansGone'
  BY <1>11 DEF ClosedMeansGone
<1> QED
  BY <1>12, <1>13, <1>14, <1>15, <1>16, <1>17, <1>18

\* Numbers of 16 bits stay as they are, and MAX_PORT does not.
LEMMA SixteenBits ==
  /\ UINT16_MAX \in Nat
  /\ MAX_PORT = UINT16_MAX + 1
  /\ \A n \in Nat : n <= UINT16_MAX => htons(n) = n
  /\ htons(MAX_PORT) = 0
BY SMT DEF htons, UINT16_MAX, MAX_PORT

LEMMA PortRange ==
  ASSUME NEW n \in MIN_PORT .. MAX_PORT, n # MAX_PORT
  PROVE  n \in Nat /\ n # 0 /\ n <= UINT16_MAX /\ n \in BoundPorts
<1>1. MIN_PORT \in Nat /\ MIN_PORT # 0
  BY DEF MIN_PORT
<1> QED BY <1>1, SixteenBits, SMT DEF BoundPorts

(***************************************************************************)
(* The port a socket listens at: 16 bits are enough for all ports that the *)
(* check of the range lets through but the last.                           *)
(***************************************************************************)
LEMMA PortFacts ==
  ASSUME NEW p \in Ports, p \in MIN_PORT .. MAX_PORT
  PROVE  LET q == IF htons(p) = 0 THEN Ephemeral ELSE htons(p)
         IN q \in BoundPorts /\ q = IF p = MAX_PORT THEN Ephemeral ELSE p
<1>1. Ephemeral \in BoundPorts
  BY TcpSockAssumption
<1>2. CASE p = MAX_PORT
  BY <1>1, <1>2, SixteenBits
<1>3. CASE p # MAX_PORT
  BY <1>3, SixteenBits, PortRange
<1> QED BY <1>2, <1>3

-----------------------------------------------------------------------------
(* The steps of the calls that open a socket *)

LEMMA BeginStep ==
  ASSUME IInv,
         \/ \E p \in Ports : tcp_passive_open(p) \/ tcp_active_open(p)
         \/ \E s \in held : tcp_wait_for_connection(s)
  PROVE  IInv'
<1>1. ASSUME NEW p \in Ports, tcp_passive_open(p) PROVE IInv'
  BY <1>1, RefuseStep, StartStep DEF tcp_passive_open
<1>2. ASSUME NEW p \in Ports, tcp_active_open(p) PROVE IInv'
  BY <1>2, RefuseStep, StartStep DEF tcp_active_open
<1>3. ASSUME NEW s \in held, tcp_wait_for_connection(s) PROVE IInv'
  BY <1>3, RefuseStep, StartStep DEF tcp_wait_for_connection
<1> QED BY <1>1, <1>2, <1>3

\* The calls that fail have a connection on record if they had made it.
LEMMA FailingSteps ==
  ASSUME IInv,
         \/ SocketFails \/ BindFails \/ ListenFails \/ ConnectFails
         \/ GetsocknameFails \/ AcceptFails \/ StringFails
  PROVE  IInv'
<1>1. call # Idle
  BY DEF Idle, SocketFails, BindFails, ListenFails, ConnectFails,
         GetsocknameFails, AcceptFails, StringFails
<1>2. orphans \subseteq Fds
  BY DEF IInv, TypeOK
<1>3. CASE SocketFails \/ BindFails \/ ListenFails \/ ConnectFails \/ AcceptFails
  BY <1>1, <1>2, <1>3, FailStep
     DEF SocketFails, BindFails, ListenFails, ConnectFails, AcceptFails
<1>4. CASE GetsocknameFails \/ StringFails
  <2>1. NewSd \in Fds
    BY <1>1, <1>4 DEF GetsocknameFails, StringFails, IInv, CallInProgress, NewSd
  <2> QED BY <1>1, <1>2, <1>4, <2>1, FailStep DEF GetsocknameFails, StringFails
<1> QED BY <1>3, <1>4

LEMMA SocketStep ==
  ASSUME IInv, SocketOpens
  PROVE  IInv'
<1>1. call # Idle /\ call.at = "socket"
  BY DEF Idle, SocketOpens
<1>2. /\ Open("unconnected", NULL)
      /\ sock' = [sock EXCEPT ![call.new].sd = Lowest]
      /\ backlog' = backlog
      /\ Advance(IF call.fn = "tcp_passive_open" THEN "bind" ELSE "connect")
  BY DEF SocketOpens
<1>3. /\ Lowest \in Fds
      /\ kern' \in [Fds -> {"closed", "unconnected", "listening", "connected",
                            "ended", "reset"}]
      /\ port' \in [Fds -> BoundPorts \cup {NULL}]
      /\ backlog' \in [Fds -> 0 .. Backlog]
      /\ kern'[Lowest] = "unconnected"
      /\ \A f \in Fds \ {Lowest} : kern'[f] = kern[f] /\ port'[f] = port[f]
      /\ \A s \in held : sock[s].sd # Lowest
  BY <1>2, OpenFacts DEF IInv, TypeOK
<1> HIDE DEF Lowest
<1>4. sock[call.new].sd = NULL
  BY <1>1 DEF IInv, CallInProgress
<1>5. /\ sock' \in [Socks -> tcpsock_t \cup {NULL}]
      /\ sock'[call.new] \in tcpsock_t
      /\ sock'[call.new].sd = Lowest /\ sock'[call.new].ip_addr = NULL
      /\ \A t \in Socks \ {call.new} : sock'[t] = sock[t]
  BY <1>1, <1>2, <1>3, CallFacts DEF IInv, TypeOK, tcpsock_t
<1>6. sock'[call.new] # NULL
  BY <1>5, TcpSockAssumption
<1>7. CASE call.fn = "tcp_passive_open"
  <2>1. Advance("bind")
    BY <1>2, <1>7
  <2> QED BY <1>1, <1>3, <1>4, <1>5, <1>6, <1>7, <2>1, AdvanceStep
<1>8. CASE call.fn # "tcp_passive_open"
  <2>1. Advance("connect")
    BY <1>2, <1>8
  <2> QED BY <1>1, <1>3, <1>4, <1>5, <1>6, <2>1, AdvanceStep
<1> QED BY <1>7, <1>8

\* What a step finds that leaves the new struct alone.
LEMMA OpenedFacts ==
  ASSUME IInv, call.at \in {"bind", "listen", "connect", "getsockname", "string"}
  PROVE  /\ call # Idle /\ NewSd \in Fds
         /\ sock \in [Socks -> tcpsock_t \cup {NULL}]
         /\ sock[call.new] # NULL /\ sock[call.new].sd = NewSd
         /\ sock[call.new].ip_addr = NULL
         /\ \A t \in held : sock[t].sd # NewSd
<1>1. call # Idle
  BY DEF Idle
<1> QED BY <1>1, CallFacts DEF IInv, TypeOK, CallInProgress, tcp_get_sd, NewSd

LEMMA BindStep ==
  ASSUME IInv, BindSucceeds
  PROVE  IInv'
<1> DEFINE q == IF htons(call.port) = 0 THEN Ephemeral ELSE htons(call.port)
<1>1. /\ call.at = "bind" /\ Unbound(q)
      /\ port' = [port EXCEPT ![NewSd] = q]
      /\ Advance("listen")
      /\ UNCHANGED <<kern, backlog, sock>>
  BY DEF BindSucceeds
<1>2. /\ call # Idle /\ NewSd \in Fds
      /\ sock \in [Socks -> tcpsock_t \cup {NULL}]
      /\ sock[call.new] # NULL /\ sock[call.new].sd = NewSd
      /\ sock[call.new].ip_addr = NULL
      /\ \A t \in held : sock[t].sd # NewSd
  BY <1>1, OpenedFacts
<1>3. /\ call.fn = "tcp_passive_open" /\ kern[NewSd] = "unconnected"
      /\ call.port \in Ports /\ call.port \in MIN_PORT .. MAX_PORT
  BY <1>1, <1>2 DEF IInv, CallInProgress, NewSd
<1>4. q \in BoundPorts /\ q = IF call.port = MAX_PORT THEN Ephemeral ELSE call.port
  BY <1>3, PortFacts
<1> HIDE DEF q, NewSd
<1>5. /\ port' \in [Fds -> BoundPorts \cup {NULL}] /\ port'[NewSd] = q
      /\ \A f \in Fds \ {NewSd} : port'[f] = port[f] /\ port[f] # q
      /\ kern \in [Fds -> {"closed", "unconnected", "listening", "connected",
                           "ended", "reset"}]
      /\ backlog \in [Fds -> 0 .. Backlog]
  BY <1>1, <1>2, <1>4 DEF IInv, TypeOK, Unbound
<1> QED BY <1>1, <1>2, <1>3, <1>4, <1>5, AdvanceStep

LEMMA ConnectStep ==
  ASSUME IInv, ConnectSucceeds
  PROVE  IInv'
<1>1. /\ call.at = "connect"
      /\ kern' = [kern EXCEPT ![NewSd] = "connected"]
      /\ port' = [port EXCEPT ![NewSd] = Ephemeral]
      /\ Advance("getsockname")
      /\ UNCHANGED <<backlog, sock>>
  BY DEF ConnectSucceeds
<1>2. /\ call # Idle /\ NewSd \in Fds
      /\ sock \in [Socks -> tcpsock_t \cup {NULL}]
      /\ sock[call.new] # NULL /\ sock[call.new].sd = NewSd
      /\ sock[call.new].ip_addr = NULL
      /\ \A t \in held : sock[t].sd # NewSd
  BY <1>1, OpenedFacts
<1> HIDE DEF NewSd
<1>3. /\ kern' \in [Fds -> {"closed", "unconnected", "listening", "connected",
                            "ended", "reset"}]
      /\ port' \in [Fds -> BoundPorts \cup {NULL}]
      /\ backlog' \in [Fds -> 0 .. Backlog]
      /\ kern'[NewSd] = "connected"
      /\ \A f \in Fds \ {NewSd} : kern'[f] = kern[f] /\ port'[f] = port[f]
  BY <1>1, <1>2, TcpSockAssumption DEF IInv, TypeOK
<1> QED BY <1>1, <1>2, <1>3, AdvanceStep

LEMMA GetsocknameStep ==
  ASSUME IInv, GetsocknameSucceeds
  PROVE  IInv'
<1>1. /\ call.at = "getsockname" /\ Advance("string")
      /\ UNCHANGED <<kern, port, backlog, sock>>
  BY DEF GetsocknameSucceeds, kernel
<1>2. /\ call # Idle /\ NewSd \in Fds
      /\ sock \in [Socks -> tcpsock_t \cup {NULL}]
      /\ sock[call.new] # NULL /\ sock[call.new].sd = NewSd
      /\ sock[call.new].ip_addr = NULL
      /\ \A t \in held : sock[t].sd # NewSd
  BY <1>1, OpenedFacts
<1>3. /\ kern \in [Fds -> {"closed", "unconnected", "listening", "connected",
                           "ended", "reset"}]
      /\ port \in [Fds -> BoundPorts \cup {NULL}]
      /\ backlog \in [Fds -> 0 .. Backlog]
      /\ kern[NewSd] \in {"connected", "ended", "reset"}
  BY <1>1, <1>2 DEF IInv, TypeOK, CallInProgress, NewSd
<1> QED BY <1>1, <1>2, <1>3, AdvanceStep

LEMMA AcceptStep ==
  ASSUME IInv, AcceptSucceeds
  PROVE  IInv'
<1> DEFINE l == sock[call.from].sd
<1>1. /\ call.at = "accept" /\ call # Idle
      /\ backlog[l] > 0 /\ backlog' = [backlog EXCEPT ![l] = @ - 1]
      /\ Open("connected", port[l])
      /\ sock' = [sock EXCEPT ![call.new].sd = Lowest]
      /\ Advance("string")
  BY DEF AcceptSucceeds, Accept, Idle
<1>2. l \in Fds
  <2>1. call.from \in held
    BY <1>1 DEF IInv, CallInProgress
  <2> QED BY <2>1, HeldFacts
<1>3. backlog' \in [Fds -> 0 .. Backlog]
  <2>1. backlog[l] \in 0 .. Backlog
    BY <1>2 DEF IInv, TypeOK
  <2>2. backlog[l] - 1 \in 0 .. Backlog
    BY <1>1, <2>1, TcpSockAssumption
  <2> HIDE DEF l
  <2> QED BY <1>1, <1>2, <2>2 DEF IInv, TypeOK
<1>4. port[l] \in BoundPorts \cup {NULL}
  BY <1>2 DEF IInv, TypeOK
<1> HIDE DEF l
<1>5. /\ Lowest \in Fds
      /\ kern' \in [Fds -> {"closed", "unconnected", "listening", "connected",
                            "ended", "reset"}]
      /\ port' \in [Fds -> BoundPorts \cup {NULL}]
      /\ kern'[Lowest] = "connected"
      /\ \A f \in Fds \ {Lowest} : kern'[f] = kern[f] /\ port'[f] = port[f]
      /\ \A s \in held : sock[s].sd # Lowest
  BY <1>1, <1>4, OpenFacts DEF IInv, TypeOK
<1> HIDE DEF Lowest
<1>6. sock[call.new].sd = NULL
  BY <1>1 DEF IInv, CallInProgress
<1>7. /\ sock' \in [Socks -> tcpsock_t \cup {NULL}]
      /\ sock'[call.new] \in tcpsock_t
      /\ sock'[call.new].sd = Lowest /\ sock'[call.new].ip_addr = NULL
      /\ \A t \in Socks \ {call.new} : sock'[t] = sock[t]
  BY <1>1, <1>5, CallFacts DEF IInv, TypeOK, tcpsock_t
<1>8. sock'[call.new] # NULL
  BY <1>7, TcpSockAssumption
<1> QED BY <1>1, <1>3, <1>5, <1>6, <1>7, <1>8, AdvanceStep

LEMMA ListenStep ==
  ASSUME IInv, ListenSucceeds
  PROVE  IInv'
<1>1. /\ call.at = "listen" /\ kern' = [kern EXCEPT ![NewSd] = "listening"]
      /\ HandOver(NULL, call.port) /\ UNCHANGED <<port, backlog>>
  BY DEF ListenSucceeds
<1>2. call # Idle /\ NewSd \in Fds /\ call.port \in Ports
  BY <1>1, OpenedFacts DEF IInv, CallInProgress
<1> HIDE DEF NewSd
<1>3. /\ kern' \in [Fds -> {"closed", "unconnected", "listening", "connected",
                            "ended", "reset"}]
      /\ kern'[NewSd] = "listening"
      /\ \A f \in Fds \ {NewSd} : kern'[f] = kern[f]
  BY <1>1, <1>2 DEF IInv, TypeOK
<1> QED BY <1>1, <1>2, <1>3, HandOverStep

LEMMA StringStep ==
  ASSUME IInv, StringAllocated
  PROVE  IInv'
<1>1. PICK b \in Blocks \ blocks : HandOver(b, Ephemeral)
  BY DEF StringAllocated
<1>2. call.at = "string" /\ UNCHANGED <<kern, port, backlog>>
  BY DEF StringAllocated, kernel
<1>3. kern \in [Fds -> {"closed", "unconnected", "listening", "connected",
                        "ended", "reset"}]
  BY DEF IInv, TypeOK
<1> QED BY <1>1, <1>2, <1>3, HandOverStep

-----------------------------------------------------------------------------
(* The other calls, and the peers *)

\* Closing a socket takes its string, and its descriptor unless it was reset.
LEMMA CloseStep ==
  ASSUME IInv, NEW s \in held, tcp_close(s)
  PROVE  IInv'
<1> DEFINE d == sock[s].sd
<1>1. /\ call = Idle /\ call' = Idle
      /\ sock' = [sock EXCEPT ![s] = NULL]
      /\ held' = held \ {s}
      /\ blocks' = blocks \ {sock[s].ip_addr}
      /\ orphans' = orphans
      /\ result' = [Nothing EXCEPT !.code = "TCP_NO_ERROR"]
      /\ CloseDescriptor(d)
  BY DEF tcp_close, Return
<1>2. /\ d \in Fds /\ s \in Socks
      /\ \A t \in held \ {s} : t \in Socks /\ sock'[t] = sock[t] /\ sock[t].sd # d
      /\ \A t \in held \ {s} : sock[t].ip_addr = sock[s].ip_addr => sock[s].ip_addr = NULL
      /\ \A t \in Socks \ {s} : sock'[t] = sock[t]
      /\ sock'[s] = NULL
  BY <1>1 DEF IInv, TypeOK, SocketsOwnDescriptors, tcp_get_sd, tcp_get_ip_addr
<1>3. /\ kern'[d] \in {"closed", "reset"}
      /\ kern' = [kern EXCEPT ![d] = kern'[d]]
      /\ port' = [port EXCEPT ![d] = port'[d]]
      /\ port'[d] \in BoundPorts \cup {NULL}
      /\ \A f \in Fds \ {d} : kern'[f] = kern[f] /\ port'[f] = port[f]
      /\ backlog' \in [Fds -> 0 .. Backlog]
  <2>1. CASE kern[d] = "reset"
    BY <1>1, <1>2, <2>1 DEF CloseDescriptor, kernel, IInv, TypeOK
  <2>2. CASE kern[d] # "reset"
    <3>1. /\ kern' = [kern EXCEPT ![d] = "closed"]
          /\ port' = [port EXCEPT ![d] = NULL]
          /\ backlog' = [backlog EXCEPT ![d] = 0]
      BY <1>1, <2>2 DEF CloseDescriptor
    <3>2. 0 \in 0 .. Backlog
      BY TcpSockAssumption
    <3> HIDE DEF d
    <3> QED BY <1>2, <3>1, <3>2 DEF IInv, TypeOK
  <2> QED BY <2>1, <2>2
<1>4. call.at = "none" /\ \A t \in Socks : sock[t] # NULL <=> t \in held
  BY <1>1, IdleFacts
<1>5. result'.sd = NULL /\ result'.size = 0
  BY <1>1 DEF Nothing
<1> HIDE DEF d
<1> USE DEF IInv
<1>6. TypeOK'
  BY <1>1, <1>2, <1>3, <1>5 DEF TypeOK
<1>7. MemoryOwned'
  <2>1. {t \in Socks : sock'[t] # NULL} = held'
    BY <1>1, <1>2, <1>4 DEF TypeOK
  <2>2. {sock'[t].ip_addr : t \in held'} = {sock[t].ip_addr : t \in held \ {s}}
    BY <1>1, <1>2
  <2>3. blocks' = {sock'[t].ip_addr : t \in held'} \ {NULL}
    BY <1>1, <1>2, <2>2 DEF MemoryOwned, tcp_get_ip_addr
  <2>4. call'.new = NULL /\ NULL \notin held'
    BY <1>1, TcpSockAssumption DEF Idle, TypeOK
  <2> QED BY <2>1, <2>3, <2>4 DEF MemoryOwned, tcp_get_ip_addr
<1>8. SocketsOwnDescriptors'
  BY <1>1, <1>2, <1>3 DEF SocketsOwnDescriptors, tcp_get_sd, tcp_get_ip_addr
<1>9. LiveConnectionsAreHeld'
  BY <1>1, <1>2, <1>3, <1>4 DEF LiveConnectionsAreHeld, tcp_get_sd, d
<1>10. ClosedMeansGone' /\ CallInProgress'
  BY <1>1, <1>5 DEF ClosedMeansGone, CallInProgress
<1>11. BoundToItsPort'
  BY <1>1, <1>2, <1>3
     DEF BoundToItsPort, SocketsOwnDescriptors, tcp_get_sd, tcp_get_port
<1> QED
  BY <1>6, <1>7, <1>8, <1>9, <1>10, <1>11

\* A transfer reports a closed connection only of one that is none, and a
\* size that is not zero.
LEMMA TransferStep ==
  ASSUME IInv, NEW s \in held, NEW n \in 0 .. 1, tcp_send(s, n) \/ tcp_receive(s, n)
  PROVE  IInv'
<1>1. /\ sock[s].sd \in Fds
      /\ kern[sock[s].sd] \in {"listening", "connected", "ended", "reset"}
  BY HeldFacts
<1>2. /\ call = Idle /\ UNCHANGED <<call, kernel, memory, orphans>>
      /\ result'.sd = sock[s].sd /\ result'.size = n
      /\ result'.code \in Sent(sock[s].sd, n) \cup Received(sock[s].sd, n)
  BY DEF tcp_send, tcp_receive, Transferred
<1>3. ClosedMeansGone'
  <2>1. n > 0 => n # 0
    OBVIOUS
  <2>2. n # 0 /\ kern[sock[s].sd] = "connected" => result'.code # "TCP_CONNECTION_CLOSED"
    BY <1>2 DEF Sent, Received, Gone
  <2> QED BY <1>2, <2>1, <2>2 DEF ClosedMeansGone, kernel
<1> USE <1>2 DEF IInv, kernel, memory
<1>4. TypeOK'
  BY <1>1 DEF TypeOK
<1>5. MemoryOwned' /\ SocketsOwnDescriptors' /\ LiveConnectionsAreHeld' /\ BoundToItsPort'
  BY DEF MemoryOwned, SocketsOwnDescriptors, LiveConnectionsAreHeld, BoundToItsPort,
         tcp_get_sd, tcp_get_ip_addr, tcp_get_port, NewSd
<1>6. CallInProgress'
  BY DEF CallInProgress
<1> QED
  BY <1>3, <1>4, <1>5, <1>6

\* A peer takes no descriptor from anybody, and no port.
LEMMA PeerStep ==
  ASSUME IInv, NEW f \in Fds, PeerConnects(f) \/ PeerLeaves(f)
  PROVE  IInv'
<1>1. UNCHANGED <<port, call, memory, orphans, result>>
  BY DEF PeerConnects, PeerLeaves
<1>2. /\ kern' \in [Fds -> {"closed", "unconnected", "listening", "connected",
                           "ended", "reset"}]
      /\ \A g \in Fds :
           \/ kern'[g] = kern[g]
           \/ kern[g] \in {"connected", "ended"} /\ kern'[g] \in {"ended", "reset"}
  BY DEF PeerConnects, PeerLeaves, IInv, TypeOK
<1>3. backlog' \in [Fds -> 0 .. Backlog]
  <2>1. CASE PeerLeaves(f)
    BY <2>1 DEF PeerLeaves, IInv, TypeOK
  <2>2. CASE PeerConnects(f)
    <3>1. backlog[f] + 1 \in 0 .. Backlog
      BY <2>2, TcpSockAssumption DEF PeerConnects, IInv, TypeOK
    <3> QED BY <2>2, <3>1 DEF PeerConnects, IInv, TypeOK
  <2> QED BY <2>1, <2>2
<1> USE <1>1, <1>2, <1>3 DEF IInv, memory
<1>4. TypeOK'
  BY DEF TypeOK
<1>5. MemoryOwned'
  BY DEF MemoryOwned, tcp_get_ip_addr
<1>6. SocketsOwnDescriptors'
  BY DEF SocketsOwnDescriptors, tcp_get_sd, tcp_get_ip_addr
<1>7. LiveConnectionsAreHeld'
  BY DEF LiveConnectionsAreHeld, tcp_get_sd, NewSd
<1>8. ClosedMeansGone'
  BY DEF ClosedMeansGone, TypeOK
<1>9. BoundToItsPort'
  BY DEF BoundToItsPort, SocketsOwnDescriptors, tcp_get_sd, tcp_get_port
<1>10. CallInProgress'
  <2>1. CASE call = Idle
    BY <2>1 DEF CallInProgress
  <2>2. CASE call.at \in {"socket", "accept"}
    BY <2>2 DEF CallInProgress
  <2>3. CASE call # Idle /\ call.at \notin {"socket", "accept"}
    <3>1. sock[call.new].sd \in Fds
      BY <2>3 DEF CallInProgress
    <3> QED BY <2>3, <3>1 DEF CallInProgress, tcp_get_sd
  <2> QED BY <2>1, <2>2, <2>3
<1> QED
  BY <1>4, <1>5, <1>6, <1>7, <1>8, <1>9, <1>10

LEMMA StepInv == IInv /\ [Next]_vars => IInv'
<1> SUFFICES ASSUME IInv, [Next]_vars PROVE IInv'
  OBVIOUS
<1>1. CASE NullSocket
  BY <1>1, RefuseStep DEF NullSocket
<1>2. CASE UNCHANGED vars
  BY <1>2 DEF vars, kernel, memory, IInv, TypeOK, MemoryOwned, CallInProgress,
              SocketsOwnDescriptors, LiveConnectionsAreHeld, ClosedMeansGone,
              BoundToItsPort, tcp_get_sd, tcp_get_ip_addr, tcp_get_port, NewSd
<1> QED
  BY <1>1, <1>2, BeginStep, FailingSteps, SocketStep, BindStep, ListenStep,
     ConnectStep, GetsocknameStep, AcceptStep, StringStep,
     CloseStep, TransferStep, PeerStep DEF Next

-----------------------------------------------------------------------------
(***************************************************************************)
(* Whatever the calls, their errors and the peers do, and in whichever     *)
(* order, the invariant holds.                                             *)
(***************************************************************************)
THEOREM Invariance == Spec => []IInv
<1> QED
  BY InitInv, StepInv, PTL DEF Spec

(***************************************************************************)
(* Every variable keeps to the values its C type can hold here.            *)
(***************************************************************************)
THEOREM TypeCorrect == Spec => []TypeOK
<1>1. IInv => TypeOK
  BY DEF IInv
<1> QED
  BY <1>1, Invariance, PTL

(***************************************************************************)
(* No close, and no error path of an open, takes a descriptor or a string  *)
(* from another socket, or hands one out twice.                            *)
(***************************************************************************)
THEOREM DescriptorsAreOwned == Spec => []SocketsOwnDescriptors
<1>1. IInv => SocketsOwnDescriptors
  BY DEF IInv
<1> QED
  BY <1>1, Invariance, PTL

(***************************************************************************)
(* No call leaks memory, at whichever of its steps it fails: what is       *)
(* allocated belongs to the sockets the caller holds, or for as long as a  *)
(* call lasts to its new socket.                                           *)
(***************************************************************************)
THEOREM NoMemoryLeaks == Spec => []MemoryOwned
<1>1. IInv => MemoryOwned
  BY DEF IInv
<1> QED
  BY <1>1, Invariance, PTL

(***************************************************************************)
(* The descriptors that leak are never those of a peer that is still       *)
(* connected, but for those of calls that failed with the connection made. *)
(***************************************************************************)
THEOREM NoPeerLeftAlone == Spec => []LiveConnectionsAreHeld
<1>1. IInv => LiveConnectionsAreHeld
  BY DEF IInv
<1> QED
  BY <1>1, Invariance, PTL

(***************************************************************************)
(* tcp_send and tcp_receive report no closed connection that is not.       *)
(***************************************************************************)
THEOREM ReportsAreTrue == Spec => []ClosedMeansGone
<1>1. IInv => ClosedMeansGone
  BY DEF IInv
<1> QED
  BY <1>1, Invariance, PTL

(***************************************************************************)
(* A listening socket has the port that was asked for, or that the kernel  *)
(* chose in place of 65536, and has it alone.                              *)
(***************************************************************************)
THEOREM PortsAreOwned == Spec => []BoundToItsPort
<1>1. IInv => BoundToItsPort
  BY DEF IInv
<1> QED
  BY <1>1, Invariance, PTL
=============================================================================
