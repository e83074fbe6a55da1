----------------------------- MODULE TcpSockets -----------------------------
(***************************************************************************)
(* The socket table of the TCP server (etherhelp/tcp.c), the bridge that   *)
(* makes a socket look like an espconn (common/mystuff.c), and the table   *)
(* of HTTP connections it serves (common/http.c).  Every handler runs to   *)
(* its end before the next one: segments are handled and HTTP is ticked by *)
(* one task, the TCP timer is another, and tasks do not preempt each other.*)
(*                                                                         *)
(* Segments are anything any peer may send: whether an acknowledgement is  *)
(* the one waited for and data the data expected is a choice here.         *)
(* TcpStream decides it by sequence numbers.                               *)
(***************************************************************************)
EXTENDS Integers, FiniteSetsExt

CONSTANTS
  TCP_SOCKETS,              \* socket 0 only answers strangers
  HTTP_CONNECTIONS,
  TCP_TICKS_BEFORE_RESEND, TCP_MAX_RETRIES,
  WebPeers,                 \* address and port pairs that talk to port 80
  OtherPeers,               \* ones that talk to a port nobody listens on
  WifiMax,                  \* HTTP connections that Wi-Fi may hold at a time
  MaxSyns,                  \* bound: connection requests in a behaviour
  ClosersReset,             \* a peer may reset a connection we are closing
  AnswersUnasked,           \* a page or websocket may answer in the receive
                            \* callback while a packet is not acknowledged
  HookReturns               \* what HandleIncomingEthernetSyn, which returns
                            \* nothing, can be seen to return

Socks == 1..TCP_SOCKETS-1
Conns == 1..HTTP_CONNECTIONS
Peers == WebPeers \cup OtherPeers
None  == 0                  \* no connection, no socket
NoMac == "nobody"

ASSUME ConstantsOK ==
  /\ TCP_SOCKETS \in Nat \ {0} /\ HTTP_CONNECTIONS \in Nat
  /\ TCP_TICKS_BEFORE_RESEND \in Nat /\ TCP_MAX_RETRIES \in Nat
  /\ WifiMax \in Nat /\ MaxSyns \in Nat /\ NoMac \notin Peers
  /\ ClosersReset \in BOOLEAN /\ AnswersUnasked \in BOOLEAN
  /\ HookReturns \subseteq Nat

VARIABLES
  TCPs,     \* of every socket but 0: what is read of its tcpconnection
  mac0,     \* remote_mac of socket 0; the others have that of their peer
  http,     \* of every HTTP connection: "none", "reading" a request, or
            \* "serving" it, from DATA_XFER or DATA_WEBSOCKET to WAIT_CLOSE
  socket,   \* of every HTTP connection: its socket, None for one of Wi-Fi
  reverse,  \* of every socket: the connection of its espconn, None before the
            \* callbacks are first registered
  wire,     \* the last packet sent: to whom, with which MAC, from which socket
  syns      \* connection requests so far

httpVars == <<http, socket, reverse>>
vars     == <<TCPs, mac0, httpVars, wire, syns>>

Silent == [to |-> NoMac, mac |-> NoMac, from |-> 0]
Sent(p, m, c) == [to |-> p, mac |-> m, from |-> c]

(* A closed socket is cleared before it is used again.                     *)
Closed == [state |-> "CLOSED", peer |-> NoMac, time_since_sent |-> 0,
           retries |-> 0, sendtype |-> {}]

Init ==
  /\ TCPs = [c \in Socks |-> Closed] /\ mac0 = NoMac
  /\ http = [i \in Conns |-> "none"] /\ socket = [i \in Conns |-> None]
  /\ reverse = [c \in Socks |-> None]
  /\ wire = Silent /\ syns = 0
-----------------------------------------------------------------------------
InUse(c) == TCPs[c].state # "CLOSED"
Live(i)  == http[i] # "none"

GetAssociatedPacket(p) ==
  LET mine == {c \in Socks : InUse(c) /\ TCPs[c].peer = p}
  IN  IF mine = {} THEN 0 ELSE Min(mine)

GetFreeConnection ==
  LET free == {c \in Socks : ~InUse(c)} IN IF free = {} THEN 0 ELSE Min(free)

(* A packet that must be acknowledged starts the clock.                    *)
EndTCPWrite(t) ==
  IF t.sendtype \cap {"PSH", "SYN", "FIN"} = {} THEN t
  ELSE [t EXCEPT !.time_since_sent = 1, !.retries = 0]

Write(t, flags) == EndTCPWrite([t EXCEPT !.sendtype = flags])

(* Mutant: nothing is done before all is sent.                             *)
RequestClosureWhenSent(t) ==
  IF t.state # "ESTABLISHED" \/ t.time_since_sent # 0 THEN t
  ELSE Write([t EXCEPT !.state = "CLOSING_WAIT"], {"FIN", "ACK"})

RequestClosure(t) ==
  IF t.state # "ESTABLISHED" THEN t
  ELSE Write([t EXCEPT !.state = "CLOSING_WAIT", !.time_since_sent = 0], {"FIN", "ACK"})

(* et_TCPConnectionClosing: the disconnect callback, where one is known.   *)
(* Mutant: it is not called.                                               *)
ClosingUnheard(c) == http
Closing(c) == IF reverse[c] = None THEN http ELSE [http EXCEPT ![reverse[c]] = "none"]

(* httpserver_connectcb takes the first HTTP connection that is free.      *)
FreeConns == {i \in Conns : ~Live(i)}

Register(c) ==
  IF FreeConns = {}
  THEN http' = Closing(c) /\ UNCHANGED <<socket, reverse>>
  ELSE LET i == Min(FreeConns)
       IN  /\ http'    = [http EXCEPT ![i] = "reading"]
           /\ socket'  = [socket EXCEPT ![i] = c]
           /\ reverse' = IF c = None THEN reverse ELSE [reverse EXCEPT ![c] = i]

(* The answer to a stranger, or to a connection that cannot be opened.     *)
Reset(p, mac) == wire' = Sent(p, mac, 0) /\ UNCHANGED <<TCPs, httpVars>>
-----------------------------------------------------------------------------
(* A SYN.  The answer is sent by the new socket, but counted for `rsck`    *)
(* of the outer block: the socket this peer already has, or 0.             *)
Open(p, c) ==
  LET rsck == GetAssociatedPacket(p)
      new  == [Closed EXCEPT !.state = "ESTABLISHED", !.peer = p,
                             !.sendtype = {"SYN", "ACK"}]
  IN  /\ TCPs' = [d \in Socks |-> IF d = c THEN new
                                  ELSE IF d = rsck THEN EndTCPWrite(TCPs[d])
                                  ELSE TCPs[d]]
      /\ wire' = Sent(p, p, c)
      /\ Register(c)

Syn(p) ==
  /\ syns < MaxSyns
  /\ syns' = syns + 1
  /\ \E hook \in HookReturns :
       IF hook # 0
       THEN wire' = Sent(p, p, hook) /\ UNCHANGED <<TCPs, httpVars>>
       ELSE IF p \in WebPeers /\ GetFreeConnection # 0
            THEN Open(p, GetFreeConnection)
            ELSE Reset(p, mac0)
  /\ UNCHANGED mac0

(* No socket: data and FIN are answered, anything else is not.             *)
Stray(p) ==
  /\ GetAssociatedPacket(p) = 0
  /\ mac0' = p
  /\ \/ Reset(p, p)
     \/ wire' = Silent /\ UNCHANGED <<TCPs, httpVars>>
  /\ UNCHANGED syns

Rst(p) ==
  LET c == GetAssociatedPacket(p)
  IN  /\ c # 0
      /\ TCPs[c].state = "CLOSING_WAIT" => ClosersReset
      /\ TCPs' = [TCPs EXCEPT ![c] = Closed]
      /\ http' = Closing(c)
      /\ wire' = Sent(p, p, c)
      /\ UNCHANGED <<mac0, socket, reverse, syns>>

(* The acknowledgement in a segment: good, or not.                         *)
Acked(t, good) == IF good THEN [t EXCEPT !.time_since_sent = 0] ELSE t

Fin(p, good) ==
  LET c == GetAssociatedPacket(p)
      t == Acked(TCPs[c], good)
  IN  /\ c # 0
      /\ IF t.state = "CLOSING_WAIT"
         THEN TCPs' = [TCPs EXCEPT ![c] = Closed] /\ UNCHANGED http
         ELSE /\ TCPs' = [TCPs EXCEPT ![c] =
                            Write([t EXCEPT !.state = "CLOSING_WAIT"], {"ACK", "FIN"})]
              /\ http' = Closing(c)
      /\ wire' = Sent(p, p, c)
      /\ UNCHANGED <<mac0, socket, reverse, syns>>

(* Anything else while closing ends the connection.                        *)
Late(p) ==
  LET c == GetAssociatedPacket(p)
  IN  /\ c # 0 /\ TCPs[c].state = "CLOSING_WAIT"
      /\ TCPs' = [TCPs EXCEPT ![c] = Closed]
      /\ wire' = Sent(p, p, c)
      /\ UNCHANGED <<mac0, httpVars, syns>>

(* No data, or not the data expected.                                      *)
NoData(p, good) ==
  LET c == GetAssociatedPacket(p)
  IN  /\ c # 0 /\ TCPs[c].state = "ESTABLISHED"
      /\ TCPs' = [TCPs EXCEPT ![c] = Acked(@, good)]
      /\ wire' = Silent
      /\ UNCHANGED <<mac0, httpVars, syns>>
-----------------------------------------------------------------------------
(* The data expected goes to the HTTP connection of the espconn, which may *)
(* begin to serve a request, answer at once (the header of a dynamic page, *)
(* a websocket), go on to the next or close, all on its own socket.        *)
(* et_TCPReceiveData returns nothing: whether its caller takes that as     *)
(* "acknowledged" is open.                                                 *)
Deeds(i) ==
  {"nothing"} \cup
  IF i = None \/ socket[i] = None \/ ~Live(i) THEN {}
  ELSE {"begin", "answer"} \cup IF http[i] = "serving" THEN {"close", "next"} ELSE {}

Done(i, did, table) ==
  LET s == socket[i]
  IN  CASE did = "answer" -> [table EXCEPT ![s] = Write(@, {"ACK", "PSH"})]
        [] did = "close"  -> [table EXCEPT ![s] = RequestClosure(@)]
        [] OTHER -> table

Data(p, good, did, acks) ==
  LET c == GetAssociatedPacket(p)
      t == Acked(TCPs[c], good)
      i == reverse[c]
      table == [TCPs EXCEPT ![c] = t]
      after == Done(i, did, table)
  IN  /\ c # 0 /\ t.state = "ESTABLISHED"
      /\ did \in Deeds(i)
      /\ did = "answer" => AnswersUnasked \/ table[socket[i]].time_since_sent = 0
      /\ http' = CASE did = "nothing" -> http
                   [] did = "close" -> Closing(socket[i])
                   [] did = "next" -> [http EXCEPT ![i] = "reading"]
                   [] OTHER -> [http EXCEPT ![i] = "serving"]
      /\ CASE acks = "no" -> wire' = Silent /\ TCPs' = after
           [] acks = "yes" /\ after[c].time_since_sent # 0 ->
                wire' = Sent(p, mac0, 0) /\ TCPs' = after
           [] OTHER -> /\ wire' = Sent(p, p, c)
                       /\ TCPs' = [after EXCEPT ![c] = Write(@, {"ACK"})]
      /\ UNCHANGED <<mac0, socket, reverse, syns>>

Segment(p) ==
  \/ Syn(p) \/ Stray(p) \/ Rst(p) \/ Late(p)
  \/ \E good \in BOOLEAN : Fin(p, good) \/ NoData(p, good)
  \/ \E good \in BOOLEAN, did \in {"nothing", "begin", "answer", "close", "next"}, acks \in {"yes", "no"} :
       Data(p, good, did, acks)
-----------------------------------------------------------------------------
(* The timer, 100 times a second.                                          *)
Due(t) == t.state # "CLOSED" /\ t.time_since_sent + 1 > TCP_TICKS_BEFORE_RESEND
          /\ t.time_since_sent # 0
GivenUp(t) == Due(t) /\ t.state = "ESTABLISHED" /\ t.retries > TCP_MAX_RETRIES

(* Mutants: a FIN is repeated for ever; or retries are counted only once.  *)
TickedForever(t) ==
  IF t.time_since_sent = 0 THEN t
  ELSE IF ~Due(t) THEN [t EXCEPT !.time_since_sent = @ + 1]
  ELSE IF GivenUp(t) THEN Closed
  ELSE [t EXCEPT !.time_since_sent = 1]
TickedOnce(t) ==
  IF t.time_since_sent = 0 THEN t
  ELSE IF ~Due(t) THEN [t EXCEPT !.time_since_sent = @ + 1]
  ELSE IF t.state = "CLOSING_WAIT" \/ GivenUp(t) THEN Closed
  ELSE [t EXCEPT !.time_since_sent = 1, !.retries = 1]

Ticked(t) ==
  IF t.time_since_sent = 0 THEN t
  ELSE IF ~Due(t) THEN [t EXCEPT !.time_since_sent = @ + 1]
  ELSE IF t.state = "CLOSING_WAIT" \/ GivenUp(t) THEN Closed
  ELSE [t EXCEPT !.time_since_sent = 1, !.retries = @ + 1]

TickTCP ==
  /\ TCPs' = [c \in Socks |-> Ticked(TCPs[c])]
  /\ http' = [i \in Conns |-> IF \E c \in Socks : GivenUp(TCPs[c]) /\ reverse[c] = i
                              THEN "none" ELSE http[i]]
  /\ wire' = Silent
  /\ UNCHANGED <<mac0, socket, reverse, syns>>

(* HTTPTick: a connection that can send goes on with its page.             *)
Serve(i) ==
  LET s == socket[i]
  IN  /\ http[i] = "serving" /\ s # None /\ TCPs[s].time_since_sent = 0
      /\ TCPs' = [TCPs EXCEPT ![s] = Write(@, {"ACK", "PSH"})]
      /\ wire' = Sent(TCPs[s].peer, TCPs[s].peer, s)
      /\ UNCHANGED <<mac0, httpVars, syns>>

(* WAIT_CLOSE with keep_alive: on to the next request.                     *)
KeepAlive(i) ==
  /\ http[i] = "serving" /\ socket[i] # None /\ TCPs[socket[i]].time_since_sent = 0
  /\ http' = [http EXCEPT ![i] = "reading"]
  /\ wire' = Silent
  /\ UNCHANGED <<TCPs, mac0, socket, reverse, syns>>

(* HTTPClose: all is sent, or no request came for HTTP_SERVER_TIMEOUT.     *)
HTTPClose(i) ==
  LET s == socket[i]
  IN  /\ Live(i) /\ s # None
      /\ http[i] = "serving" => TCPs[s].time_since_sent = 0
      /\ TCPs' = [TCPs EXCEPT ![s] = RequestClosure(@)]
      /\ http' = Closing(s)
      /\ wire' = Sent(TCPs[s].peer, TCPs[s].peer, s)
      /\ UNCHANGED <<mac0, socket, reverse, syns>>

(* Wi-Fi connections come from the same table.                             *)
Wifi == {i \in Conns : Live(i) /\ socket[i] = None}

WifiConnects ==
  /\ Cardinality(Wifi) < WifiMax /\ FreeConns # {}
  /\ Register(None)
  /\ wire' = Silent
  /\ UNCHANGED <<TCPs, mac0, syns>>

WifiCloses(i) ==
  /\ i \in Wifi
  /\ http' = [http EXCEPT ![i] = "none"]
  /\ wire' = Silent
  /\ UNCHANGED <<TCPs, mac0, socket, reverse, syns>>

Next ==
  \/ \E p \in Peers : Segment(p)
  \/ TickTCP
  \/ \E i \in Conns : Serve(i) \/ KeepAlive(i) \/ HTTPClose(i) \/ WifiCloses(i)
  \/ WifiConnects

Spec == Init /\ [][Next]_vars

(* The timer goes on.                                                      *)
FairSpec == Spec /\ WF_vars(TickTCP)
-----------------------------------------------------------------------------
Sock == [state : {"CLOSED", "ESTABLISHED", "CLOSING_WAIT"}, peer : Peers \cup {NoMac},
         time_since_sent : 0..TCP_TICKS_BEFORE_RESEND+1,
         retries : 0..TCP_MAX_RETRIES+1, sendtype : SUBSET {"SYN", "ACK", "PSH", "FIN"}]

(* Every variable has its type.                                            *)
TypeOK ==
  /\ TCPs \in [Socks -> Sock] /\ mac0 \in Peers \cup {NoMac}
  /\ http \in [Conns -> {"none", "reading", "serving"}] /\ socket \in [Conns -> Socks \cup {None}]
  /\ reverse \in [Socks -> Conns \cup {None}]
  /\ wire \in [to : Peers \cup {NoMac}, mac : Peers \cup {NoMac}, from : Nat]
  /\ syns \in 0..MaxSyns

(* An HTTP connection never works on a socket that was closed under it or  *)
(* has become somebody else's: it is live only while its own socket is     *)
(* established and that socket's espconn leads back to it.                 *)
LiveServesOwnSocket ==
  \A i \in Conns : Live(i) /\ socket[i] # None =>
    TCPs[socket[i]].state = "ESTABLISHED" /\ reverse[socket[i]] = i

(* A socket that waits for the end of a connection is always on the clock, *)
(* so TickTCP gets to close it whatever the peer does.                     *)
ClosingIsTimed ==
  \A c \in Socks : TCPs[c].state = "CLOSING_WAIT" => TCPs[c].time_since_sent > 0

(* An established socket has an HTTP connection to serve it; nobody else's *)
(* end of connection takes it away.                                        *)
EstablishedIsServed ==
  \A c \in Socks : TCPs[c].state = "ESTABLISHED" =>
    reverse[c] # None /\ Live(reverse[c]) /\ socket[reverse[c]] = c

(* A connection that is being closed ends.                                 *)
ClosingEnds == \A c \in Socks : TCPs[c].state = "CLOSING_WAIT" ~> TCPs[c].state # "CLOSING_WAIT"

(* A packet is not retransmitted for ever: it is acknowledged, or another  *)
(* takes its place, or the connection is given up.                         *)
ResendingEnds ==
  \A c \in Socks : TCPs[c].retries > 0 /\ TCPs[c].time_since_sent > 0
                 ~> TCPs[c].retries = 0 \/ TCPs[c].time_since_sent = 0

(* "Wait for the ESP to tell us the socket is successfully closed"         *)
(* (http.c:28-29): an HTTP connection becomes NONE only when its own       *)
(* socket ends.  Does not hold: the reset of a connection that is already  *)
(* closing calls the disconnect callback again, when the HTTP connection   *)
(* may serve another socket.                                               *)
NoneOnlyWhenClosed ==
  [][\A i \in Conns : Live(i) /\ ~Live(i)' /\ socket[i] # None =>
       TCPs'[socket[i]].state # "ESTABLISHED"]_vars
=============================================================================
