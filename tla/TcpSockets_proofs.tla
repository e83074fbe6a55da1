-------------------------- MODULE TcpSockets_proofs --------------------------
(***************************************************************************)
(* The socket table for any number of sockets, HTTP connections and peers: *)
(* types, HTTP connections that work on their own live socket, closing     *)
(* sockets that are on the clock, and established ones that are served.    *)
(* Then one connection with sequence numbers (TcpStream), for any number   *)
(* of bytes and packets: both its directions are byte streams.             *)
(***************************************************************************)
EXTENDS TcpStream, TLAPS, WellFoundedInduction, FiniteSetTheorems, SequenceTheorems

(* What every entry of the table is like: the clock of a closed socket has *)
(* stopped, that of a closing one runs.                                    *)
SockOK(t) ==
  /\ t \in Sock
  /\ t.state = "CLOSED" => t.time_since_sent = 0
  /\ t.state = "CLOSING_WAIT" => t.time_since_sent > 0

IInv ==
  /\ TypeOK
  /\ \A c \in Socks : SockOK(TCPs[c])
  /\ LiveServesOwnSocket
-----------------------------------------------------------------------------
LEMMA MinIn ==
  ASSUME NEW S \in SUBSET Nat, S # {}
  PROVE  Min(S) \in S
<1> DEFINE less == OpToRel(<, Nat)
<1>1. \E x \in S : \A y \in S : <<y, x>> \notin less
  <2> HIDE DEF less
  <2>1. IsWellFoundedOn(less, Nat)
    BY NatLessThanWellFounded DEF less
  <2> QED
    BY <2>1, WFMin
<1>2. \A x, y \in Nat : <<y, x>> \notin less => x =< y
  BY DEF OpToRel
<1>3. \E x \in S : \A y \in S : x =< y
  BY <1>1, <1>2
<1> QED
  BY <1>3 DEF Min

LEMMA FreeSocket ==
  GetFreeConnection \in Socks \cup {0}
    /\ (GetFreeConnection # 0 => TCPs[GetFreeConnection].state = "CLOSED")
<1> DEFINE free == {c \in Socks : ~InUse(c)}
<1>1. free \in SUBSET Nat
  BY ConstantsOK DEF Socks
<1>2. free # {} => Min(free) \in free
  BY <1>1, MinIn
<1> QED
  BY <1>2 DEF GetFreeConnection, InUse

LEMMA OwnSocket ==
  ASSUME NEW p
  PROVE  /\ GetAssociatedPacket(p) \in Socks \cup {0}
         /\ GetAssociatedPacket(p) # 0 =>
              /\ TCPs[GetAssociatedPacket(p)].state # "CLOSED"
              /\ TCPs[GetAssociatedPacket(p)].peer = p
<1> DEFINE mine == {c \in Socks : InUse(c) /\ TCPs[c].peer = p}
<1>1. mine \in SUBSET Nat
  BY ConstantsOK DEF Socks
<1>2. mine # {} => Min(mine) \in mine
  BY <1>1, MinIn
<1> QED
  BY <1>2 DEF GetAssociatedPacket, InUse

LEMMA FreeHttp == FreeConns # {} => Min(FreeConns) \in Conns /\ ~Live(Min(FreeConns))
<1>1. FreeConns \in SUBSET Nat
  BY ConstantsOK DEF FreeConns, Conns
<1> QED
  BY <1>1, MinIn DEF FreeConns
-----------------------------------------------------------------------------
(* What the helpers do to one entry.                                       *)
Flags == SUBSET {"SYN", "ACK", "PSH", "FIN"}

LEMMA ClosedOK == SockOK(Closed)
BY ConstantsOK DEF SockOK, Closed, Sock

LEMMA EndTCPWriteOK ==
  ASSUME NEW t, SockOK(t), t.state # "CLOSED"
  PROVE  SockOK(EndTCPWrite(t)) /\ EndTCPWrite(t).state = t.state
<1> DEFINE u == [t EXCEPT !.time_since_sent = 1]
           v == [u EXCEPT !.retries = 0]
<1>1. 1 \in 0..TCP_TICKS_BEFORE_RESEND+1 /\ 0 \in 0..TCP_MAX_RETRIES+1
  BY ConstantsOK
<1>2. u \in Sock /\ u.state = t.state /\ u.time_since_sent = 1
  BY <1>1 DEF SockOK, Sock
<1>3. EndTCPWrite(t) \in {t, v}
  BY DEF EndTCPWrite
<1> HIDE DEF u
<1>4. v \in Sock /\ v.state = t.state /\ v.time_since_sent = 1
  BY <1>1, <1>2 DEF Sock
<1> HIDE DEF v
<1> QED
  BY <1>3, <1>4 DEF SockOK

LEMMA WriteOK ==
  ASSUME NEW t, SockOK(t), t.state # "CLOSED", NEW flags \in Flags
  PROVE  SockOK(Write(t, flags)) /\ Write(t, flags).state = t.state
<1> DEFINE u == [t EXCEPT !.sendtype = flags]
<1>1. SockOK(u) /\ u.state = t.state
  BY DEF SockOK, Sock, Flags
<1> HIDE DEF u
<1>2. SockOK(EndTCPWrite(u)) /\ EndTCPWrite(u).state = t.state
  BY <1>1, EndTCPWriteOK
<1> QED
  BY <1>2 DEF Write, u

LEMMA RequestClosureOK ==
  ASSUME NEW t, SockOK(t)
  PROVE  /\ SockOK(RequestClosure(t))
         /\ t.state = "ESTABLISHED" => RequestClosure(t).state = "CLOSING_WAIT"
         /\ t.state # "ESTABLISHED" => RequestClosure(t) = t
<1>1. CASE t.state # "ESTABLISHED"
  BY <1>1 DEF RequestClosure
<1>2. CASE t.state = "ESTABLISHED"
  <2> DEFINE u == [[t EXCEPT !.state = "CLOSING_WAIT"] EXCEPT !.time_since_sent = 0]
             v == [u EXCEPT !.sendtype = {"FIN", "ACK"}]
             w == [[v EXCEPT !.time_since_sent = 1] EXCEPT !.retries = 0]
  <2>0. /\ 0 \in 0..TCP_TICKS_BEFORE_RESEND+1 /\ 1 \in 0..TCP_TICKS_BEFORE_RESEND+1
        /\ 0 \in 0..TCP_MAX_RETRIES+1
    BY ConstantsOK
  <2> DEFINE y == [t EXCEPT !.state = "CLOSING_WAIT"]
  <2>6. y \in Sock /\ y.state = "CLOSING_WAIT"
    BY DEF SockOK, Sock
  <2> HIDE DEF y
  <2>1. u \in Sock /\ u.state = "CLOSING_WAIT"
    BY <2>0, <2>6 DEF Sock, y
  <2> HIDE DEF u
  <2>2. v \in Sock /\ v.state = "CLOSING_WAIT" /\ v.sendtype = {"FIN", "ACK"}
    BY <2>1 DEF Sock
  <2>3. RequestClosure(t) = EndTCPWrite(v)
    BY <1>2 DEF RequestClosure, Write, u
  <2> HIDE DEF v
  <2>4. RequestClosure(t) = w
    BY <2>2, <2>3 DEF EndTCPWrite
  <2> DEFINE x == [v EXCEPT !.time_since_sent = 1]
  <2>7. x \in Sock /\ x.state = "CLOSING_WAIT" /\ x.time_since_sent = 1
    BY <2>0, <2>2 DEF Sock
  <2> HIDE DEF x
  <2>5. w \in Sock /\ w.state = "CLOSING_WAIT" /\ w.time_since_sent = 1
    BY <2>0, <2>7 DEF Sock, x
  <2> QED
    BY <1>2, <2>4, <2>5 DEF SockOK
<1> QED
  BY <1>1, <1>2

LEMMA AckedOK ==
  ASSUME NEW t, SockOK(t), NEW good \in BOOLEAN
  PROVE  /\ Acked(t, good) \in Sock /\ Acked(t, good).state = t.state
         /\ t.state = "ESTABLISHED" => SockOK(Acked(t, good))
BY ConstantsOK DEF SockOK, Acked, Sock

LEMMA TickedOK ==
  ASSUME NEW t, SockOK(t)
  PROVE  /\ SockOK(Ticked(t))
         /\ t.state = "ESTABLISHED" /\ ~GivenUp(t) => Ticked(t).state = "ESTABLISHED"
<1>0. /\ t \in Sock /\ t.time_since_sent \in Nat /\ t.retries \in Nat
      /\ TCP_TICKS_BEFORE_RESEND \in Nat /\ TCP_MAX_RETRIES \in Nat
  BY ConstantsOK DEF SockOK, Sock
<1>1. CASE t.time_since_sent = 0
  BY <1>1 DEF Ticked
<1>2. CASE t.time_since_sent # 0 /\ ~Due(t)
  <2> DEFINE n == t.time_since_sent + 1
  <2>1. n \in 0..TCP_TICKS_BEFORE_RESEND+1 /\ n > 0
    BY <1>0, <1>2 DEF Due, SockOK
  <2>2. Ticked(t) = [t EXCEPT !.time_since_sent = n]
    BY <1>2 DEF Ticked
  <2> HIDE DEF n
  <2>3. t.state # "CLOSED"
    BY <1>2 DEF SockOK
  <2> QED
    BY <1>0, <2>1, <2>2, <2>3 DEF SockOK, Sock
<1>3. CASE t.time_since_sent # 0 /\ Due(t) /\ (t.state = "CLOSING_WAIT" \/ GivenUp(t))
  BY <1>3, ClosedOK DEF Ticked
<1>4. CASE t.time_since_sent # 0 /\ Due(t) /\ ~(t.state = "CLOSING_WAIT" \/ GivenUp(t))
  <2> DEFINE n == t.retries + 1
  <2>1. t.state = "ESTABLISHED"
    BY <1>0, <1>4 DEF Due, Sock
  <2>2. n \in 0..TCP_MAX_RETRIES+1
    BY <1>0, <1>4, <2>1 DEF GivenUp
  <2> DEFINE u == [t EXCEPT !.time_since_sent = 1]
  <2>3. Ticked(t) = [u EXCEPT !.retries = n]
    BY <1>4 DEF Ticked
  <2>4. u \in Sock /\ u.state = "ESTABLISHED"
    BY <1>0, <2>1 DEF Sock
  <2> HIDE DEF n, u
  <2>5. Ticked(t) \in Sock /\ Ticked(t).state = "ESTABLISHED"
    BY <2>2, <2>3, <2>4 DEF Sock
  <2> QED
    BY <2>5 DEF SockOK
<1> QED
  BY <1>1, <1>2, <1>3, <1>4
-----------------------------------------------------------------------------
(* Every action, in three parts: the table of sockets, the bond between    *)
(* HTTP connections and sockets, and the other types.                      *)
TableOK == TCPs \in [Socks -> Sock] /\ \A c \in Socks : SockOK(TCPs[c])

HttpTypeOK ==
  /\ http \in [Conns -> {"none", "reading", "serving"}]
  /\ socket \in [Conns -> Socks \cup {None}]
  /\ reverse \in [Socks -> Conns \cup {None}]

OtherTypeOK ==
  /\ mac0 \in Peers \cup {NoMac}
  /\ wire \in [to : Peers \cup {NoMac}, mac : Peers \cup {NoMac}, from : Nat]
  /\ syns \in 0..MaxSyns

LEMMA Parts == IInv <=> TableOK /\ HttpTypeOK /\ OtherTypeOK /\ LiveServesOwnSocket
BY DEF IInv, TypeOK, TableOK, HttpTypeOK, OtherTypeOK

LEMMA PartsNext ==
  IInv' <=> TableOK' /\ HttpTypeOK' /\ OtherTypeOK' /\ LiveServesOwnSocket'
BY DEF IInv, TypeOK, TableOK, HttpTypeOK, OtherTypeOK

(* A socket is known by its HTTP connection and the other way round.       *)
LEMMA Bond ==
  ASSUME HttpTypeOK, LiveServesOwnSocket,
         NEW i \in Conns, Live(i), socket[i] # None
  PROVE  /\ socket[i] \in Socks /\ TCPs[socket[i]].state = "ESTABLISHED"
         /\ reverse[socket[i]] = i /\ i # None
BY ConstantsOK DEF HttpTypeOK, LiveServesOwnSocket, Conns, None

(* When the disconnect callback of a socket has run, no HTTP connection    *)
(* works on it, and none has come to life.                                 *)
LEMMA ClosingOK ==
  ASSUME HttpTypeOK, LiveServesOwnSocket, NEW c \in Socks
  PROVE  /\ Closing(c) \in [Conns -> {"none", "reading", "serving"}]
         /\ \A i \in Conns : Closing(c)[i] # "none" =>
               Closing(c)[i] = http[i] /\ (socket[i] # None => socket[i] # c)
<1>1. CASE reverse[c] = None
  BY <1>1, Bond DEF Closing, HttpTypeOK, Live
<1>2. CASE reverse[c] # None
  BY <1>2, Bond DEF Closing, HttpTypeOK, Live
<1> QED
  BY <1>1, <1>2

(* Where the bond can be disturbed: it is enough that a connection that is *)
(* live afterwards was live before, on a socket that stays established.    *)
LEMMA BondKept ==
  ASSUME HttpTypeOK, LiveServesOwnSocket, UNCHANGED <<socket, reverse>>,
         \A i \in Conns : http'[i] # "none" /\ socket[i] # None =>
           Live(i) /\ TCPs'[socket[i]].state = "ESTABLISHED"
  PROVE  LiveServesOwnSocket'
BY DEF HttpTypeOK, LiveServesOwnSocket, Live

(* The common cases: established sockets stay so and no connection comes   *)
(* to life, or one socket ends and its disconnect callback runs.           *)
LEMMA Kept ==
  ASSUME HttpTypeOK, LiveServesOwnSocket, UNCHANGED <<socket, reverse>>,
         http' \in [Conns -> {"none", "reading", "serving"}],
         \A i \in Conns : http'[i] # "none" => Live(i),
         \A c \in Socks : TCPs[c].state = "ESTABLISHED" => TCPs'[c].state = "ESTABLISHED"
  PROVE  HttpTypeOK' /\ LiveServesOwnSocket'
<1>1. \A i \in Conns : http'[i] # "none" /\ socket[i] # None =>
        Live(i) /\ TCPs'[socket[i]].state = "ESTABLISHED"
  BY Bond
<1>2. LiveServesOwnSocket'
  BY <1>1, BondKept
<1> QED
  BY <1>2 DEF HttpTypeOK

LEMMA ClosingKept ==
  ASSUME HttpTypeOK, LiveServesOwnSocket, UNCHANGED <<socket, reverse>>,
         NEW c \in Socks, http' = Closing(c),
         \A d \in Socks \ {c} :
           TCPs[d].state = "ESTABLISHED" => TCPs'[d].state = "ESTABLISHED"
  PROVE  HttpTypeOK' /\ LiveServesOwnSocket'
<1>1. \A i \in Conns : http'[i] # "none" =>
        Live(i) /\ (socket[i] # None => socket[i] # c)
  BY ClosingOK DEF Live
<1>2. \A i \in Conns : http'[i] # "none" /\ socket[i] # None =>
        Live(i) /\ TCPs'[socket[i]].state = "ESTABLISHED"
  BY <1>1, Bond
<1>3. LiveServesOwnSocket'
  BY <1>2, BondKept
<1> QED
  BY <1>3, ClosingOK DEF HttpTypeOK

LEMMA Put ==
  ASSUME TableOK, NEW c \in Socks, NEW x, SockOK(x), TCPs' = [TCPs EXCEPT ![c] = x]
  PROVE  TableOK' /\ TCPs'[c] = x /\ \A d \in Socks \ {c} : TCPs'[d] = TCPs[d]
BY DEF TableOK, SockOK

LEMMA WireOK ==
  ASSUME NEW p \in Peers \cup {NoMac}, NEW m \in Peers \cup {NoMac}, NEW n \in Nat
  PROVE  /\ Sent(p, m, n) \in [to : Peers \cup {NoMac}, mac : Peers \cup {NoMac}, from : Nat]
         /\ Silent \in [to : Peers \cup {NoMac}, mac : Peers \cup {NoMac}, from : Nat]
BY DEF Sent, Silent

LEMMA SocksAreNat == Socks \subseteq Nat /\ None \notin Socks
BY ConstantsOK DEF Socks, None

(* A closing socket that has just sent its FIN is on the clock.            *)
LEMMA FinOK ==
  ASSUME NEW t \in Sock
  PROVE  SockOK(Write([t EXCEPT !.state = "CLOSING_WAIT"], {"ACK", "FIN"}))
<1> DEFINE u == [t EXCEPT !.state = "CLOSING_WAIT"]
           v == [u EXCEPT !.sendtype = {"ACK", "FIN"}]
           x == [v EXCEPT !.time_since_sent = 1]
           w == [x EXCEPT !.retries = 0]
<1>0. 1 \in 0..TCP_TICKS_BEFORE_RESEND+1 /\ 0 \in 0..TCP_MAX_RETRIES+1
  BY ConstantsOK
<1>1. u \in Sock /\ u.state = "CLOSING_WAIT"
  BY DEF Sock
<1>2. Write(u, {"ACK", "FIN"}) = EndTCPWrite(v)
  BY DEF Write
<1> HIDE DEF u
<1>3. v \in Sock /\ v.state = "CLOSING_WAIT" /\ v.sendtype = {"ACK", "FIN"}
  BY <1>1 DEF Sock
<1> HIDE DEF v
<1>4. EndTCPWrite(v) = w
  BY <1>3 DEF EndTCPWrite
<1>5. x \in Sock /\ x.state = "CLOSING_WAIT" /\ x.time_since_sent = 1
  BY <1>0, <1>3 DEF Sock
<1> HIDE DEF x
<1>6. w \in Sock /\ w.state = "CLOSING_WAIT" /\ w.time_since_sent = 1
  BY <1>0, <1>5 DEF Sock
<1> HIDE DEF w
<1>7. SockOK(Write(u, {"ACK", "FIN"}))
  BY <1>2, <1>4, <1>6 DEF SockOK
<1> QED
  BY <1>7 DEF u
-----------------------------------------------------------------------------
LEMMA RstKeeps ==
  ASSUME IInv, NEW p \in Peers, Rst(p)
  PROVE  IInv'
<1> DEFINE c == GetAssociatedPacket(p)
<1>1. TableOK /\ HttpTypeOK /\ OtherTypeOK /\ LiveServesOwnSocket
  BY Parts
<1>2. c \in Socks
  BY OwnSocket DEF Rst
<1>3. TCPs' = [TCPs EXCEPT ![c] = Closed] /\ http' = Closing(c)
  BY DEF Rst
<1> HIDE DEF c
<1>4. TableOK' /\ \A d \in Socks \ {c} : TCPs'[d] = TCPs[d]
  BY <1>1, <1>2, <1>3, ClosedOK, Put
<1>5. HttpTypeOK' /\ LiveServesOwnSocket'
  <2>1. UNCHANGED <<socket, reverse>>
    BY DEF Rst
  <2> QED
    BY <1>1, <1>2, <1>3, <1>4, <2>1, ClosingKept
<1>6. OtherTypeOK'
  BY <1>1, <1>2, SocksAreNat, WireOK DEF Rst, OtherTypeOK, c
<1> QED
  BY <1>4, <1>5, <1>6, PartsNext

LEMMA FinKeeps ==
  ASSUME IInv, NEW p \in Peers, NEW good \in BOOLEAN, Fin(p, good)
  PROVE  IInv'
<1> DEFINE c == GetAssociatedPacket(p)
           t == Acked(TCPs[c], good)
           w == Write([t EXCEPT !.state = "CLOSING_WAIT"], {"ACK", "FIN"})
<1>1. TableOK /\ HttpTypeOK /\ OtherTypeOK /\ LiveServesOwnSocket
  BY Parts
<1>2. c \in Socks
  BY OwnSocket DEF Fin
<1>3. t \in Sock /\ t.state = TCPs[c].state
  BY <1>1, <1>2, AckedOK DEF TableOK
<1>4. UNCHANGED <<socket, reverse, mac0, syns>> /\ wire' = Sent(p, p, c)
  BY DEF Fin
<1>5. \/ t.state = "CLOSING_WAIT" /\ TCPs' = [TCPs EXCEPT ![c] = Closed] /\ http' = http
      \/ TCPs' = [TCPs EXCEPT ![c] = w] /\ http' = Closing(c)
  BY DEF Fin
<1>6. SockOK(w)
  BY <1>3, FinOK
<1> HIDE DEF c, t, w
<1>7. OtherTypeOK'
  BY <1>1, <1>2, <1>4, SocksAreNat, WireOK DEF OtherTypeOK
<1>8. CASE t.state = "CLOSING_WAIT" /\ TCPs' = [TCPs EXCEPT ![c] = Closed] /\ http' = http
  <2>1. TableOK' /\ \A d \in Socks \ {c} : TCPs'[d] = TCPs[d]
    BY <1>1, <1>2, <1>8, ClosedOK, Put
  <2>2. \A d \in Socks : TCPs[d].state = "ESTABLISHED" => TCPs'[d].state = "ESTABLISHED"
    BY <1>3, <1>8, <2>1
  <2>3. http' \in [Conns -> {"none", "reading", "serving"}] /\ \A i \in Conns : http'[i] # "none" => Live(i)
    BY <1>1, <1>8 DEF HttpTypeOK, Live
  <2>4. HttpTypeOK' /\ LiveServesOwnSocket'
    BY <1>1, <1>4, <2>2, <2>3, Kept
  <2> QED
    BY <1>7, <2>1, <2>4, PartsNext
<1>9. CASE TCPs' = [TCPs EXCEPT ![c] = w] /\ http' = Closing(c)
  <2>1. TableOK' /\ \A d \in Socks \ {c} : TCPs'[d] = TCPs[d]
    BY <1>1, <1>2, <1>6, <1>9, Put
  <2>2. HttpTypeOK' /\ LiveServesOwnSocket'
    BY <1>1, <1>2, <1>4, <1>9, <2>1, ClosingKept
  <2> QED
    BY <1>7, <2>1, <2>2, PartsNext
<1> QED
  BY <1>5, <1>8, <1>9

LEMMA LateKeeps ==
  ASSUME IInv, NEW p \in Peers, Late(p)
  PROVE  IInv'
<1> DEFINE c == GetAssociatedPacket(p)
<1>1. TableOK /\ HttpTypeOK /\ OtherTypeOK /\ LiveServesOwnSocket
  BY Parts
<1>2. c \in Socks /\ TCPs[c].state = "CLOSING_WAIT"
  BY OwnSocket DEF Late
<1>3. /\ TCPs' = [TCPs EXCEPT ![c] = Closed] /\ wire' = Sent(p, p, c)
      /\ UNCHANGED <<mac0, http, socket, reverse, syns>>
  BY DEF Late, httpVars
<1> HIDE DEF c
<1>4. TableOK' /\ \A d \in Socks \ {c} : TCPs'[d] = TCPs[d]
  BY <1>1, <1>2, <1>3, ClosedOK, Put
<1>5. \A d \in Socks : TCPs[d].state = "ESTABLISHED" => TCPs'[d].state = "ESTABLISHED"
  BY <1>2, <1>4
<1>6. http' \in [Conns -> {"none", "reading", "serving"}] /\ \A i \in Conns : http'[i] # "none" => Live(i)
  BY <1>1, <1>3 DEF HttpTypeOK, Live
<1>7. HttpTypeOK' /\ LiveServesOwnSocket'
  BY <1>1, <1>3, <1>5, <1>6, Kept
<1>8. OtherTypeOK'
  BY <1>1, <1>2, <1>3, SocksAreNat, WireOK DEF OtherTypeOK
<1> QED
  BY <1>4, <1>7, <1>8, PartsNext

LEMMA NoDataKeeps ==
  ASSUME IInv, NEW p \in Peers, NEW good \in BOOLEAN, NoData(p, good)
  PROVE  IInv'
<1> DEFINE c == GetAssociatedPacket(p)
           t == Acked(TCPs[c], good)
<1>1. TableOK /\ HttpTypeOK /\ OtherTypeOK /\ LiveServesOwnSocket
  BY Parts
<1>2. c \in Socks /\ TCPs[c].state = "ESTABLISHED"
  BY OwnSocket DEF NoData
<1>3. /\ TCPs' = [TCPs EXCEPT ![c] = t] /\ wire' = Silent
      /\ UNCHANGED <<mac0, http, socket, reverse, syns>>
  BY <1>1, <1>2 DEF NoData, httpVars, TableOK
<1>4. SockOK(t) /\ t.state = "ESTABLISHED"
  BY <1>1, <1>2, AckedOK DEF TableOK
<1> HIDE DEF c, t
<1>5. TableOK' /\ TCPs'[c] = t /\ \A d \in Socks \ {c} : TCPs'[d] = TCPs[d]
  BY <1>1, <1>2, <1>3, <1>4, Put
<1>6. \A d \in Socks : TCPs[d].state = "ESTABLISHED" => TCPs'[d].state = "ESTABLISHED"
  BY <1>4, <1>5
<1>7. http' \in [Conns -> {"none", "reading", "serving"}] /\ \A i \in Conns : http'[i] # "none" => Live(i)
  BY <1>1, <1>3 DEF HttpTypeOK, Live
<1>8. HttpTypeOK' /\ LiveServesOwnSocket'
  BY <1>1, <1>3, <1>6, <1>7, Kept
<1>9. OtherTypeOK'
  BY <1>1, <1>3, WireOK DEF OtherTypeOK
<1> QED
  BY <1>5, <1>8, <1>9, PartsNext

(* What a deed of an HTTP connection does to the table.                    *)
LEMMA DoneOK ==
  ASSUME HttpTypeOK, LiveServesOwnSocket, NEW table \in [Socks -> Sock],
         \A d \in Socks : SockOK(table[d]) /\ table[d].state = TCPs[d].state,
         NEW i, NEW did \in Deeds(i), i = None \/ i \in Conns
  PROVE  /\ Done(i, did, table) \in [Socks -> Sock]
         /\ \A d \in Socks : SockOK(Done(i, did, table)[d])
         /\ \A d \in Socks : TCPs[d].state = "ESTABLISHED" =>
              Done(i, did, table)[d].state \in
                IF did = "close" /\ d = socket[i] THEN {"CLOSING_WAIT"} ELSE {"ESTABLISHED"}
         /\ did # "nothing" => i \in Conns /\ Live(i) /\ socket[i] \in Socks
<1> DEFINE s == socket[i]
           after == Done(i, did, table)
<1>1. CASE did \notin {"answer", "close"}
  <2>1. after = table
    BY <1>1 DEF Done
  <2>2. did # "nothing" => i \in Conns /\ Live(i) /\ s # None
    BY DEF Deeds
  <2>3. did # "nothing" => s \in Socks
    BY <2>2, Bond
  <2> QED
    BY <1>1, <2>1, <2>2, <2>3
<1>2. CASE did \in {"answer", "close"}
  <2>1. i \in Conns /\ Live(i) /\ s # None
    BY <1>2 DEF Deeds
  <2>2. s \in Socks /\ TCPs[s].state = "ESTABLISHED" /\ table[s].state = "ESTABLISHED"
    BY <2>1, Bond
  <2>3. CASE did = "answer"
    <3> DEFINE w == Write(table[s], {"ACK", "PSH"})
    <3>1. {"ACK", "PSH"} \in Flags
      BY DEF Flags
    <3>2. SockOK(w) /\ w.state = "ESTABLISHED"
      BY <2>2, <3>1, WriteOK
    <3>3. after = [table EXCEPT ![s] = w]
      BY <2>3 DEF Done
    <3> HIDE DEF w
    <3>4. after \in [Socks -> Sock] /\ \A d \in Socks : after[d] = IF d = s THEN w ELSE table[d]
      BY <2>2, <3>2, <3>3 DEF SockOK
    <3> HIDE DEF after
    <3> QED
      BY <2>1, <2>2, <2>3, <3>2, <3>4 DEF after
  <2>4. CASE did = "close"
    <3> DEFINE w == RequestClosure(table[s])
    <3>2. SockOK(w) /\ w.state = "CLOSING_WAIT"
      BY <2>2, RequestClosureOK
    <3>3. after = [table EXCEPT ![s] = w]
      BY <2>4 DEF Done
    <3> HIDE DEF w
    <3>4. after \in [Socks -> Sock] /\ \A d \in Socks : after[d] = IF d = s THEN w ELSE table[d]
      BY <2>2, <3>2, <3>3 DEF SockOK
    <3> HIDE DEF after
    <3> QED
      BY <2>1, <2>2, <2>4, <3>2, <3>4 DEF after
  <2> QED
    BY <1>2, <2>3, <2>4
<1> QED
  BY <1>1, <1>2

LEMMA DataKeeps ==
  ASSUME IInv, NEW p \in Peers, NEW good \in BOOLEAN, NEW did,
         NEW acks \in {"yes", "no"}, Data(p, good, did, acks)
  PROVE  IInv'
<1> DEFINE c == GetAssociatedPacket(p)
           t == Acked(TCPs[c], good)
           i == reverse[c]
           table == [TCPs EXCEPT ![c] = t]
           after == Done(i, did, table)
           w == Write(after[c], {"ACK"})
<1>1. TableOK /\ HttpTypeOK /\ OtherTypeOK /\ LiveServesOwnSocket
  BY Parts
<1>2. c \in Socks /\ t.state = "ESTABLISHED" /\ did \in Deeds(i)
  BY OwnSocket DEF Data
<1>3. t.state = TCPs[c].state /\ (TCPs[c].state = "ESTABLISHED" => SockOK(t))
  BY <1>1, <1>2, AckedOK DEF TableOK
<1>4. http' = CASE did = "nothing" -> http
                [] did = "close" -> Closing(socket[i])
                [] did = "next" -> [http EXCEPT ![i] = "reading"]
                [] OTHER -> [http EXCEPT ![i] = "serving"]
  BY DEF Data
<1>5. \/ wire' = Silent /\ TCPs' = after
      \/ wire' = Sent(p, mac0, 0) /\ TCPs' = after
      \/ wire' = Sent(p, p, c) /\ TCPs' = [after EXCEPT ![c] = w]
  BY DEF Data
<1>6. UNCHANGED <<mac0, socket, reverse, syns>>
  BY DEF Data
<1>7. i = None \/ i \in Conns
  BY <1>1, <1>2 DEF HttpTypeOK
<1>8. /\ table \in [Socks -> Sock]
      /\ \A d \in Socks : SockOK(table[d]) /\ table[d].state = TCPs[d].state
  <2> HIDE DEF c, t
  <2>1. \A d \in Socks : table[d] = IF d = c THEN t ELSE TCPs[d]
    BY <1>1, <1>2 DEF TableOK
  <2> QED
    BY <1>1, <1>2, <1>3, <2>1 DEF TableOK, SockOK
<1> HIDE DEF c, t, i, table
<1>9. /\ after \in [Socks -> Sock]
      /\ \A d \in Socks : SockOK(after[d])
      /\ \A d \in Socks : TCPs[d].state = "ESTABLISHED" =>
           after[d].state \in IF did = "close" /\ d = socket[i] THEN {"CLOSING_WAIT"}
                                                                ELSE {"ESTABLISHED"}
      /\ did # "nothing" => i \in Conns /\ Live(i) /\ socket[i] \in Socks
  BY <1>1, <1>2, <1>7, <1>8, DoneOK
<1>10. after[c].state \in {"ESTABLISHED", "CLOSING_WAIT"}
  BY <1>2, <1>3, <1>9
<1>11. {"ACK"} \in Flags
  BY DEF Flags
<1> HIDE DEF after
<1>12. SockOK(w) /\ w.state = after[c].state
  BY <1>2, <1>9, <1>10, <1>11, WriteOK
<1> HIDE DEF w
<1>13. TableOK' /\ \A d \in Socks : TCPs'[d].state = after[d].state
  <2>1. CASE TCPs' = after
    BY <1>9, <2>1 DEF TableOK
  <2>2. CASE TCPs' = [after EXCEPT ![c] = w]
    <3>1. \A d \in Socks : TCPs'[d] = IF d = c THEN w ELSE after[d]
      BY <1>2, <1>9, <2>2
    <3> QED
      BY <1>2, <1>9, <1>12, <2>2, <3>1 DEF TableOK, SockOK
  <2> QED
    BY <1>5, <2>1, <2>2
<1>14. HttpTypeOK' /\ LiveServesOwnSocket'
  <2>1. CASE did = "close"
    <3>1. http' = Closing(socket[i]) /\ socket[i] \in Socks
      BY <1>4, <1>9, <2>1
    <3>2. \A d \in Socks \ {socket[i]} :
            TCPs[d].state = "ESTABLISHED" => TCPs'[d].state = "ESTABLISHED"
      BY <1>9, <1>13
    <3> QED
      BY <1>1, <1>6, <3>1, <3>2, ClosingKept
  <2>2. CASE did # "close"
    <3>1. \A d \in Socks : TCPs[d].state = "ESTABLISHED" => TCPs'[d].state = "ESTABLISHED"
      BY <1>9, <1>13, <2>2
    <3>2. /\ http' \in [Conns -> {"none", "reading", "serving"}]
          /\ \A j \in Conns : http'[j] # "none" => Live(j)
      <4>1. CASE did = "nothing"
        BY <1>1, <1>4, <4>1 DEF HttpTypeOK, Live
      <4>2. CASE did # "nothing"
        <5>1. PICK h \in {"reading", "serving"} : http' = [http EXCEPT ![i] = h]
          BY <1>4, <2>2, <4>2
        <5> QED
          BY <1>1, <1>9, <4>2, <5>1 DEF HttpTypeOK, Live
      <4> QED
        BY <4>1, <4>2
    <3> QED
      BY <1>1, <1>6, <3>1, <3>2, Kept
  <2> QED
    BY <2>1, <2>2
<1>15. OtherTypeOK'
  <2>1. c \in Nat /\ 0 \in Nat /\ mac0 \in Peers \cup {NoMac} /\ p \in Peers \cup {NoMac}
    BY <1>1, <1>2, SocksAreNat DEF OtherTypeOK
  <2>2. wire' \in [to : Peers \cup {NoMac}, mac : Peers \cup {NoMac}, from : Nat]
    <3>1. /\ Silent \in [to : Peers \cup {NoMac}, mac : Peers \cup {NoMac}, from : Nat]
          /\ Sent(p, mac0, 0) \in [to : Peers \cup {NoMac}, mac : Peers \cup {NoMac}, from : Nat]
          /\ Sent(p, p, c) \in [to : Peers \cup {NoMac}, mac : Peers \cup {NoMac}, from : Nat]
      BY <2>1, WireOK
    <3> QED
      BY <1>5, <3>1
  <2> QED
    BY <1>1, <1>6, <2>2 DEF OtherTypeOK
<1> QED
  BY <1>13, <1>14, <1>15, PartsNext

LEMMA StrayKeeps ==
  ASSUME IInv, NEW p \in Peers, Stray(p)
  PROVE  IInv'
<1>1. TableOK /\ HttpTypeOK /\ OtherTypeOK /\ LiveServesOwnSocket
  BY Parts
<1>2. UNCHANGED <<TCPs, http, socket, reverse, syns>>
  BY DEF Stray, Reset, httpVars
<1>3. mac0' = p /\ wire' \in {Silent, Sent(p, p, 0)}
  BY DEF Stray, Reset
<1>4. OtherTypeOK'
  <2>1. Silent \in [to : Peers \cup {NoMac}, mac : Peers \cup {NoMac}, from : Nat]
    BY WireOK
  <2>2. Sent(p, p, 0) \in [to : Peers \cup {NoMac}, mac : Peers \cup {NoMac}, from : Nat]
    BY WireOK
  <2> QED
    BY <1>1, <1>2, <1>3, <2>1, <2>2 DEF OtherTypeOK
<1>5. TableOK' /\ HttpTypeOK' /\ LiveServesOwnSocket'
  BY <1>1, <1>2 DEF TableOK, HttpTypeOK, LiveServesOwnSocket, Live
<1> QED
  BY <1>4, <1>5, PartsNext

LEMMA TickKeeps ==
  ASSUME IInv, TickTCP
  PROVE  IInv'
<1>1. TableOK /\ HttpTypeOK /\ OtherTypeOK /\ LiveServesOwnSocket
  BY Parts
<1>2. TCPs' = [c \in Socks |-> Ticked(TCPs[c])]
  BY DEF TickTCP
<1>3. TableOK'
  BY <1>1, <1>2, TickedOK DEF TableOK, SockOK
<1>4. UNCHANGED <<mac0, socket, reverse, syns>> /\ wire' = Silent
  BY DEF TickTCP
<1>5. /\ http' \in [Conns -> {"none", "reading", "serving"}]
      /\ \A i \in Conns : http'[i] # "none" =>
           Live(i) /\ \A c \in Socks : reverse[c] = i => ~GivenUp(TCPs[c])
  BY <1>1 DEF TickTCP, HttpTypeOK, Live
<1>6. ASSUME NEW i \in Conns, http'[i] # "none", socket[i] # None
      PROVE  Live(i) /\ TCPs'[socket[i]].state = "ESTABLISHED"
  <2>1. /\ socket[i] \in Socks /\ TCPs[socket[i]].state = "ESTABLISHED"
        /\ reverse[socket[i]] = i /\ Live(i)
    BY <1>1, <1>5, <1>6, Bond
  <2>2. ~GivenUp(TCPs[socket[i]]) /\ SockOK(TCPs[socket[i]])
    BY <1>1, <1>5, <1>6, <2>1 DEF TableOK
  <2> QED
    BY <1>2, <2>1, <2>2, TickedOK
<1>7. HttpTypeOK' /\ LiveServesOwnSocket'
  BY <1>1, <1>4, <1>5, <1>6, BondKept DEF HttpTypeOK
<1>8. OtherTypeOK'
  BY <1>1, <1>4, WireOK DEF OtherTypeOK
<1> QED
  BY <1>3, <1>7, <1>8, PartsNext

LEMMA ServeKeeps ==
  ASSUME IInv, NEW i \in Conns, Serve(i)
  PROVE  IInv'
<1> DEFINE s == socket[i]
           w == Write(TCPs[s], {"ACK", "PSH"})
<1>1. TableOK /\ HttpTypeOK /\ OtherTypeOK /\ LiveServesOwnSocket
  BY Parts
<1>2. s \in Socks /\ TCPs[s].state = "ESTABLISHED"
  BY <1>1, Bond DEF Serve, Live
<1>3. {"ACK", "PSH"} \in Flags
  BY DEF Flags
<1>4. SockOK(w) /\ w.state = "ESTABLISHED"
  BY <1>1, <1>2, <1>3, WriteOK DEF TableOK
<1>5. /\ TCPs' = [TCPs EXCEPT ![s] = w] /\ wire' = Sent(TCPs[s].peer, TCPs[s].peer, s)
      /\ UNCHANGED <<mac0, http, socket, reverse, syns>>
  BY <1>1, <1>2 DEF Serve, httpVars, TableOK
<1> HIDE DEF s, w
<1>6. TableOK' /\ TCPs'[s] = w /\ \A d \in Socks \ {s} : TCPs'[d] = TCPs[d]
  BY <1>1, <1>2, <1>4, <1>5, Put
<1>7. \A d \in Socks : TCPs[d].state = "ESTABLISHED" => TCPs'[d].state = "ESTABLISHED"
  BY <1>4, <1>6
<1>8. http' \in [Conns -> {"none", "reading", "serving"}] /\ \A j \in Conns : http'[j] # "none" => Live(j)
  BY <1>1, <1>5 DEF HttpTypeOK, Live
<1>9. HttpTypeOK' /\ LiveServesOwnSocket'
  BY <1>1, <1>5, <1>7, <1>8, Kept
<1>10. s \in Nat /\ TCPs[s].peer \in Peers \cup {NoMac}
  BY <1>1, <1>2, SocksAreNat DEF TableOK, Sock
<1>11. OtherTypeOK'
  BY <1>1, <1>5, <1>10, WireOK DEF OtherTypeOK
<1> QED
  BY <1>6, <1>9, <1>11, PartsNext

LEMMA KeepAliveKeeps ==
  ASSUME IInv, NEW i \in Conns, KeepAlive(i)
  PROVE  IInv'
<1>1. TableOK /\ HttpTypeOK /\ OtherTypeOK /\ LiveServesOwnSocket
  BY Parts
<1>2. Live(i) /\ http' = [http EXCEPT ![i] = "reading"] /\ wire' = Silent
  BY DEF KeepAlive, Live
<1>3. UNCHANGED <<TCPs, mac0, socket, reverse, syns>>
  BY DEF KeepAlive
<1>4. http' \in [Conns -> {"none", "reading", "serving"}] /\ \A j \in Conns : http'[j] # "none" => Live(j)
  BY <1>1, <1>2 DEF HttpTypeOK, Live
<1>5. HttpTypeOK' /\ LiveServesOwnSocket'
  BY <1>1, <1>3, <1>4, Kept
<1>6. OtherTypeOK' /\ TableOK'
  BY <1>1, <1>2, <1>3, WireOK DEF OtherTypeOK, TableOK
<1> QED
  BY <1>5, <1>6, PartsNext

LEMMA CloseKeeps ==
  ASSUME IInv, NEW i \in Conns, HTTPClose(i)
  PROVE  IInv'
<1> DEFINE s == socket[i]
           w == RequestClosure(TCPs[s])
<1>1. TableOK /\ HttpTypeOK /\ OtherTypeOK /\ LiveServesOwnSocket
  BY Parts
<1>2. s \in Socks /\ TCPs[s].state = "ESTABLISHED"
  BY <1>1, Bond DEF HTTPClose
<1>3. SockOK(w)
  BY <1>1, <1>2, RequestClosureOK DEF TableOK
<1>4. /\ TCPs' = [TCPs EXCEPT ![s] = w] /\ wire' = Sent(TCPs[s].peer, TCPs[s].peer, s)
      /\ http' = Closing(s) /\ UNCHANGED <<mac0, socket, reverse, syns>>
  BY <1>1, <1>2 DEF HTTPClose, TableOK
<1> HIDE DEF s, w
<1>5. TableOK' /\ \A d \in Socks \ {s} : TCPs'[d] = TCPs[d]
  BY <1>1, <1>2, <1>3, <1>4, Put
<1>6. HttpTypeOK' /\ LiveServesOwnSocket'
  BY <1>1, <1>2, <1>4, <1>5, ClosingKept
<1>7. s \in Nat /\ TCPs[s].peer \in Peers \cup {NoMac}
  BY <1>1, <1>2, SocksAreNat DEF TableOK, Sock
<1>8. OtherTypeOK'
  BY <1>1, <1>4, <1>7, WireOK DEF OtherTypeOK
<1> QED
  BY <1>5, <1>6, <1>8, PartsNext

LEMMA WifiClosesKeeps ==
  ASSUME IInv, NEW i \in Conns, WifiCloses(i)
  PROVE  IInv'
<1>1. TableOK /\ HttpTypeOK /\ OtherTypeOK /\ LiveServesOwnSocket
  BY Parts
<1>2. http' = [http EXCEPT ![i] = "none"] /\ wire' = Silent
  BY DEF WifiCloses
<1>3. UNCHANGED <<TCPs, mac0, socket, reverse, syns>>
  BY DEF WifiCloses
<1>4. http' \in [Conns -> {"none", "reading", "serving"}] /\ \A j \in Conns : http'[j] # "none" => Live(j)
  BY <1>1, <1>2 DEF HttpTypeOK, Live
<1>5. HttpTypeOK' /\ LiveServesOwnSocket'
  BY <1>1, <1>3, <1>4, Kept
<1>6. OtherTypeOK' /\ TableOK'
  BY <1>1, <1>2, <1>3, WireOK DEF OtherTypeOK, TableOK
<1> QED
  BY <1>5, <1>6, PartsNext

LEMMA WifiConnectsKeeps ==
  ASSUME IInv, WifiConnects
  PROVE  IInv'
<1> DEFINE i == Min(FreeConns)
<1>1. TableOK /\ HttpTypeOK /\ OtherTypeOK /\ LiveServesOwnSocket
  BY Parts
<1>2. i \in Conns /\ ~Live(i)
  BY FreeHttp DEF WifiConnects
<1>3. /\ http' = [http EXCEPT ![i] = "reading"] /\ socket' = [socket EXCEPT ![i] = None]
      /\ UNCHANGED <<reverse, TCPs, mac0, syns>> /\ wire' = Silent
  BY DEF WifiConnects, Register
<1> HIDE DEF i
<1>4. HttpTypeOK' /\ LiveServesOwnSocket'
  BY <1>1, <1>2, <1>3 DEF HttpTypeOK, LiveServesOwnSocket, Live
<1>5. OtherTypeOK' /\ TableOK'
  BY <1>1, <1>3, WireOK DEF OtherTypeOK, TableOK
<1> QED
  BY <1>4, <1>5, PartsNext

LEMMA OpenKeeps ==
  ASSUME IInv, NEW p \in Peers, Open(p, GetFreeConnection), GetFreeConnection # 0
  PROVE  TableOK' /\ HttpTypeOK' /\ LiveServesOwnSocket' /\ wire' = Sent(p, p, GetFreeConnection)
<1> DEFINE c == GetFreeConnection
           rsck == GetAssociatedPacket(p)
           v == [Closed EXCEPT !.state = "ESTABLISHED"]
           u == [v EXCEPT !.peer = p]
           new == [u EXCEPT !.sendtype = {"SYN", "ACK"}]
<1>1. TableOK /\ HttpTypeOK /\ OtherTypeOK /\ LiveServesOwnSocket
  BY Parts
<1>2. c \in Socks /\ TCPs[c].state = "CLOSED"
  BY FreeSocket
<1>3. SockOK(new) /\ new.state = "ESTABLISHED"
  <2>1. v \in Sock /\ v.state = "ESTABLISHED"
    BY ClosedOK DEF SockOK, Sock
  <2> HIDE DEF v
  <2>2. u \in Sock /\ u.state = "ESTABLISHED"
    BY <2>1 DEF Sock
  <2> HIDE DEF u
  <2> QED
    BY <2>2 DEF SockOK, Sock
<1>4. TCPs' = [d \in Socks |-> IF d = c THEN new ELSE IF d = rsck THEN EndTCPWrite(TCPs[d]) ELSE TCPs[d]]
  BY DEF Open
<1>5. wire' = Sent(p, p, c) /\ Register(c)
  BY DEF Open
<1>6. rsck \in Socks => TCPs[rsck].state # "CLOSED"
  BY SocksAreNat, OwnSocket DEF None
<1> HIDE DEF c, rsck, new
<1>7. \A d \in Socks : SockOK(TCPs'[d]) /\ (d # c => TCPs'[d].state = TCPs[d].state)
  BY <1>1, <1>3, <1>4, <1>6, EndTCPWriteOK DEF TableOK
<1>8. TCPs'[c].state = "ESTABLISHED"
  BY <1>2, <1>3, <1>4
<1>9. TableOK'
  <2>1. \A d \in Socks : TCPs'[d] \in Sock
    BY <1>7 DEF SockOK
  <2>2. TCPs' = [d \in Socks |-> TCPs'[d]]
    BY <1>4
  <2> QED
    BY <1>7, <2>1, <2>2 DEF TableOK
<1>10. CASE FreeConns = {}
  <2>1. http' = Closing(c) /\ UNCHANGED <<socket, reverse>>
    BY <1>5, <1>10 DEF Register
  <2>2. \A d \in Socks \ {c} : TCPs[d].state = "ESTABLISHED" => TCPs'[d].state = "ESTABLISHED"
    BY <1>7
  <2>3. HttpTypeOK' /\ LiveServesOwnSocket'
    BY <1>1, <1>2, <2>1, <2>2, ClosingKept
  <2> QED
    BY <1>5, <1>9, <2>3 DEF c
<1>11. CASE FreeConns # {}
  <2> DEFINE i == Min(FreeConns)
  <2>1. i \in Conns /\ ~Live(i)
    BY <1>11, FreeHttp
  <2>2. c # None
    BY <1>2, SocksAreNat
  <2>3. /\ http' = [http EXCEPT ![i] = "reading"] /\ socket' = [socket EXCEPT ![i] = c]
        /\ reverse' = [reverse EXCEPT ![c] = i]
    BY <1>5, <1>11, <2>2 DEF Register
  <2> HIDE DEF i
  <2>4. HttpTypeOK'
    BY <1>1, <1>2, <2>1, <2>3 DEF HttpTypeOK
  <2>5. ASSUME NEW j \in Conns, http'[j] # "none", socket'[j] # None
        PROVE  TCPs'[socket'[j]].state = "ESTABLISHED" /\ reverse'[socket'[j]] = j
    <3>1. CASE j = i
      BY <1>1, <1>2, <1>8, <2>1, <2>3, <3>1 DEF HttpTypeOK
    <3>2. CASE j # i
      <4>1. socket'[j] = socket[j] /\ http'[j] = http[j]
        BY <1>1, <2>3, <3>2 DEF HttpTypeOK
      <4>2. /\ socket[j] \in Socks /\ TCPs[socket[j]].state = "ESTABLISHED"
            /\ reverse[socket[j]] = j
        BY <1>1, <2>5, <4>1, Bond DEF Live
      <4> QED
        BY <1>1, <1>2, <1>7, <2>3, <4>1, <4>2 DEF HttpTypeOK
    <3> QED
      BY <3>1, <3>2
  <2>6. LiveServesOwnSocket'
    BY <2>5 DEF LiveServesOwnSocket, Live
  <2> QED
    BY <1>5, <1>9, <2>4, <2>6 DEF c
<1> QED
  BY <1>10, <1>11

LEMMA SynKeeps ==
  ASSUME IInv, NEW p \in Peers, Syn(p)
  PROVE  IInv'
<1>1. TableOK /\ HttpTypeOK /\ OtherTypeOK /\ LiveServesOwnSocket
  BY Parts
<1>2. mac0' = mac0 /\ syns' = syns + 1 /\ syns < MaxSyns
  BY DEF Syn
<1>3. syns' \in 0..MaxSyns
  BY <1>1, <1>2, ConstantsOK DEF OtherTypeOK
<1>4. \/ UNCHANGED <<TCPs, http, socket, reverse>> /\ \E hook \in Nat : wire' = Sent(p, p, hook)
      \/ UNCHANGED <<TCPs, http, socket, reverse>> /\ wire' = Sent(p, mac0, 0)
      \/ GetFreeConnection # 0 /\ Open(p, GetFreeConnection)
  BY ConstantsOK DEF Syn, Reset, httpVars
<1>5. CASE UNCHANGED <<TCPs, http, socket, reverse>>
  <2>1. wire' \in [to : Peers \cup {NoMac}, mac : Peers \cup {NoMac}, from : Nat]
    <3>1. CASE \E hook \in Nat : wire' = Sent(p, p, hook)
      BY <3>1, WireOK
    <3>2. CASE wire' = Sent(p, mac0, 0)
      BY <1>1, <3>2, WireOK DEF OtherTypeOK
    <3>3. CASE GetFreeConnection # 0 /\ Open(p, GetFreeConnection)
      <4>1. wire' = Sent(p, p, GetFreeConnection)
        BY <3>3 DEF Open
      <4>2. GetFreeConnection \in Nat
        BY <3>3, FreeSocket, SocksAreNat
      <4> QED
        BY <4>1, <4>2, WireOK
    <3> QED
      BY <1>4, <3>1, <3>2, <3>3
  <2>2. OtherTypeOK'
    BY <1>1, <1>2, <1>3, <2>1 DEF OtherTypeOK
  <2>3. TableOK' /\ HttpTypeOK' /\ LiveServesOwnSocket'
    BY <1>1, <1>5 DEF TableOK, HttpTypeOK, LiveServesOwnSocket, Live
  <2> QED
    BY <2>2, <2>3, PartsNext
<1>6. CASE GetFreeConnection # 0 /\ Open(p, GetFreeConnection)
  <2>1. TableOK' /\ HttpTypeOK' /\ LiveServesOwnSocket' /\ wire' = Sent(p, p, GetFreeConnection)
    BY <1>6, OpenKeeps
  <2>2. GetFreeConnection \in Nat
    BY <1>6, FreeSocket, SocksAreNat
  <2>3. OtherTypeOK'
    BY <1>1, <1>2, <1>3, <2>1, <2>2, WireOK DEF OtherTypeOK
  <2> QED
    BY <2>1, <2>3, PartsNext
<1> QED
  BY <1>4, <1>5, <1>6
-----------------------------------------------------------------------------
LEMMA InitIInv == Init => IInv
<1> SUFFICES ASSUME Init PROVE IInv
  OBVIOUS
<1>1. TableOK
  BY ClosedOK DEF Init, TableOK, SockOK
<1>2. HttpTypeOK /\ LiveServesOwnSocket
  BY DEF Init, HttpTypeOK, LiveServesOwnSocket, Live
<1>3. OtherTypeOK
  BY ConstantsOK, WireOK DEF Init, OtherTypeOK
<1> QED
  BY <1>1, <1>2, <1>3, Parts

LEMMA NextIInv == IInv /\ [Next]_vars => IInv'
<1> SUFFICES ASSUME IInv, [Next]_vars PROVE IInv'
  OBVIOUS
<1>1. CASE UNCHANGED vars
  BY <1>1 DEF IInv, TypeOK, LiveServesOwnSocket, Live, vars, httpVars
<1>2. CASE \E p \in Peers : Segment(p)
  BY <1>2, SynKeeps, StrayKeeps, RstKeeps, LateKeeps, FinKeeps, NoDataKeeps, DataKeeps DEF Segment
<1>3. CASE TickTCP
  BY <1>3, TickKeeps
<1>4. CASE \E i \in Conns : Serve(i) \/ KeepAlive(i) \/ HTTPClose(i) \/ WifiCloses(i)
  BY <1>4, ServeKeeps, KeepAliveKeeps, CloseKeeps, WifiClosesKeeps
<1>5. CASE WifiConnects
  BY <1>5, WifiConnectsKeeps
<1> QED
  BY <1>1, <1>2, <1>3, <1>4, <1>5 DEF Next

(* The table, the connections and what is sent always have their types,    *)
(* whatever peers send: no tick and no retry is counted past its limit.    *)
THEOREM SocketTypes == Spec => []TypeOK
<1>1. IInv => TypeOK
  BY DEF IInv
<1> QED
  BY <1>1, InitIInv, NextIInv, PTL DEF Spec

(* An HTTP connection works on a socket that is established and its own:   *)
(* with any number of sockets, connections and peers.                      *)
THEOREM ServesOwn == Spec => []LiveServesOwnSocket
<1>1. IInv => LiveServesOwnSocket
  BY DEF IInv
<1> QED
  BY <1>1, InitIInv, NextIInv, PTL DEF Spec

(* A closing socket is on the clock.                                       *)
THEOREM ClosingTimed == Spec => []ClosingIsTimed
<1>1. IInv => ClosingIsTimed
  BY DEF IInv, SockOK, ClosingIsTimed
<1> QED
  BY <1>1, InitIInv, NextIInv, PTL DEF Spec
-----------------------------------------------------------------------------
(* Every established socket is served, where there are enough connections  *)
(* for all the sockets and for Wi-Fi, and peers do not reset what is being *)
(* closed.  A free socket then means a free connection: the live ones of   *)
(* this server are as many as the sockets they work on.                    *)
EnoughConns == TCP_SOCKETS - 1 + WifiMax <= HTTP_CONNECTIONS

WifiBound == Cardinality(Wifi) <= WifiMax

Served == EstablishedIsServed /\ WifiBound

LEMMA FiniteTables ==
  /\ IsFiniteSet(Conns) /\ Cardinality(Conns) = HTTP_CONNECTIONS
  /\ IsFiniteSet(Socks) /\ Cardinality(Socks) = TCP_SOCKETS - 1
  /\ TCP_SOCKETS \in Nat \ {0} /\ HTTP_CONNECTIONS \in Nat /\ WifiMax \in Nat
<1>1. TCP_SOCKETS \in Nat \ {0} /\ HTTP_CONNECTIONS \in Nat /\ WifiMax \in Nat
  BY ConstantsOK
<1>2. /\ IsFiniteSet(1..HTTP_CONNECTIONS)
      /\ Cardinality(1..HTTP_CONNECTIONS) = IF 1 > HTTP_CONNECTIONS THEN 0 ELSE HTTP_CONNECTIONS-1+1
  BY <1>1, FS_Interval
<1>3. /\ IsFiniteSet(1..TCP_SOCKETS-1)
      /\ Cardinality(1..TCP_SOCKETS-1) = IF 1 > TCP_SOCKETS-1 THEN 0 ELSE TCP_SOCKETS-1-1+1
  BY <1>1, FS_Interval
<1> QED
  BY <1>1, <1>2, <1>3 DEF Conns, Socks

LEMMA FiniteWifi ==
  /\ IsFiniteSet(Wifi) /\ Cardinality(Wifi) \in Nat
  /\ IsFiniteSet(Conns \ Wifi) /\ Cardinality(Conns \ Wifi) = HTTP_CONNECTIONS - Cardinality(Wifi)
<1>1. Wifi \in SUBSET Conns
  BY DEF Wifi
<1>2. IsFiniteSet(Wifi)
  BY <1>1, FiniteTables, FS_Subset
<1>3. Cardinality(Wifi) \in Nat
  BY <1>2, FS_CardinalityType
<1>4. IsFiniteSet(Conns \ Wifi) /\ Cardinality(Conns \ Wifi) = Cardinality(Conns) - Cardinality(Conns \cap Wifi)
  BY FiniteTables, <1>2, FS_Difference
<1>5. Conns \cap Wifi = Wifi
  BY <1>1
<1> QED
  BY <1>2, <1>3, <1>4, <1>5, FiniteTables

(* A socket is free: so is an HTTP connection.                             *)
LEMMA FreeMeansFree ==
  ASSUME IInv, WifiBound, EnoughConns, NEW c \in Socks, TCPs[c].state # "ESTABLISHED"
  PROVE  FreeConns # {}
<1> SUFFICES ASSUME FreeConns = {} PROVE FALSE
  OBVIOUS
<1> DEFINE mine == Conns \ Wifi
           rest == Socks \ {c}
           f == [i \in mine |-> socket[i]]
<1>1. HttpTypeOK /\ LiveServesOwnSocket
  BY Parts
<1>2. \A i \in Conns : Live(i)
  BY DEF FreeConns
<1>3. \A i \in mine : socket[i] \in Socks /\ socket[i] # c /\ reverse[socket[i]] = i
  BY <1>1, <1>2, Bond DEF Wifi
<1>4. f \in [mine -> rest]
  BY <1>3
<1>5. IsFiniteSet(rest) /\ Cardinality(rest) = TCP_SOCKETS - 2
  BY FiniteTables, FS_RemoveElement
<1>6. IsFiniteSet(mine) /\ Cardinality(rest) < Cardinality(mine)
  BY <1>5, FiniteWifi, FiniteTables DEF EnoughConns, WifiBound
<1> HIDE DEF f, mine, rest
<1>7. \E x, y \in mine : x # y /\ f[x] = f[y]
  BY <1>4, <1>5, <1>6, FS_PigeonHole
<1> QED
  BY <1>3, <1>7 DEF f

LEMMA WifiOnly ==
  ASSUME WifiBound, Wifi' \subseteq Wifi
  PROVE  WifiBound'
<1>1. IsFiniteSet(Wifi) /\ Cardinality(Wifi) \in Nat
  BY FiniteWifi
<1>2. IsFiniteSet(Wifi') /\ Cardinality(Wifi') <= Cardinality(Wifi)
  BY <1>1, FS_Subset
<1>3. Cardinality(Wifi') \in Nat
  BY <1>2, FS_CardinalityType
<1> QED
  BY <1>1, <1>2, <1>3, FiniteTables DEF WifiBound

(* The sockets `gone` end, and their connections only.                     *)
LEMMA ServedKept ==
  ASSUME HttpTypeOK, Served, UNCHANGED <<socket, reverse>>, NEW gone,
         \A d \in Socks : TCPs'[d].state = "ESTABLISHED" => TCPs[d].state = "ESTABLISHED" /\ d \notin gone,
         \A i \in Conns : http'[i] # "none" => Live(i),
         \A i \in Conns : Live(i) /\ http'[i] = "none" =>
           \E d \in gone : d \in Socks /\ TCPs[d].state = "ESTABLISHED" /\ reverse[d] = i
  PROVE  Served'
<1>1. EstablishedIsServed'
  <2> SUFFICES ASSUME NEW c \in Socks, TCPs'[c].state = "ESTABLISHED"
               PROVE  reverse[c] # None /\ http'[reverse[c]] # "none" /\ socket[reverse[c]] = c
    BY DEF EstablishedIsServed, Live
  <2>1. TCPs[c].state = "ESTABLISHED" /\ c \notin gone
    OBVIOUS
  <2>2. reverse[c] # None /\ Live(reverse[c]) /\ socket[reverse[c]] = c /\ reverse[c] \in Conns
    BY <2>1 DEF Served, EstablishedIsServed, HttpTypeOK
  <2>3. ASSUME http'[reverse[c]] = "none" PROVE FALSE
    <3>1. PICK d \in gone : d \in Socks /\ TCPs[d].state = "ESTABLISHED" /\ reverse[d] = reverse[c]
      BY <2>2, <2>3
    <3>2. socket[reverse[d]] = d
      BY <3>1 DEF Served, EstablishedIsServed
    <3> QED
      BY <2>1, <2>2, <3>1, <3>2
  <2> QED
    BY <2>2, <2>3
<1>2. Wifi' \subseteq Wifi
  BY DEF Wifi, Live
<1>3. WifiBound'
  BY <1>2, WifiOnly DEF Served
<1> QED
  BY <1>1, <1>3 DEF Served

LEMMA ServedClosing ==
  ASSUME HttpTypeOK, LiveServesOwnSocket, Served, UNCHANGED <<socket, reverse>>,
         NEW c \in Socks, TCPs[c].state = "ESTABLISHED", http' = Closing(c),
         TCPs'[c].state # "ESTABLISHED",
         \A d \in Socks \ {c} : TCPs'[d].state = "ESTABLISHED" => TCPs[d].state = "ESTABLISHED"
  PROVE  Served'
<1>1. \A i \in Conns : http'[i] # "none" => Live(i)
  BY ClosingOK DEF Live
<1>2. \A i \in Conns : Live(i) /\ http'[i] = "none" => reverse[c] = i
  BY DEF Closing, HttpTypeOK, Live
<1> QED
  BY <1>1, <1>2, ServedKept

LEMMA ServedOn ==
  ASSUME HttpTypeOK, Served, UNCHANGED <<socket, reverse>>,
         \A d \in Socks : TCPs'[d].state = "ESTABLISHED" => TCPs[d].state = "ESTABLISHED",
         \A i \in Conns : http'[i] # "none" <=> Live(i)
  PROVE  Served'
<1> DEFINE gone == {}
<1>1. \A d \in Socks : TCPs'[d].state = "ESTABLISHED" => TCPs[d].state = "ESTABLISHED" /\ d \notin gone
  OBVIOUS
<1>2. \A i \in Conns : Live(i) /\ http'[i] = "none" =>
        \E d \in gone : d \in Socks /\ TCPs[d].state = "ESTABLISHED" /\ reverse[d] = i
  OBVIOUS
<1> HIDE DEF gone
<1> QED
  BY <1>1, <1>2, ServedKept
-----------------------------------------------------------------------------
LEMMA ServedOpen ==
  ASSUME IInv, Served, EnoughConns, NEW p \in Peers,
         Open(p, GetFreeConnection), GetFreeConnection # 0
  PROVE  Served'
<1> DEFINE c == GetFreeConnection
           rsck == GetAssociatedPacket(p)
           i == Min(FreeConns)
           new == [Closed EXCEPT !.state = "ESTABLISHED", !.peer = p, !.sendtype = {"SYN", "ACK"}]
<1>1. TableOK /\ HttpTypeOK
  BY Parts
<1>2. c \in Socks /\ TCPs[c].state = "CLOSED" /\ c # None
  BY FreeSocket, SocksAreNat
<1>3. FreeConns # {}
  BY <1>2, FreeMeansFree DEF Served
<1>4. i \in Conns /\ ~Live(i) /\ i # None
  BY <1>3, FreeHttp, ConstantsOK DEF Conns, None
<1>5. /\ http' = [http EXCEPT ![i] = "reading"] /\ socket' = [socket EXCEPT ![i] = c]
      /\ reverse' = [reverse EXCEPT ![c] = i]
  BY <1>2, <1>3 DEF Open, Register
<1>6. TCPs' = [d \in Socks |-> IF d = c THEN new ELSE IF d = rsck THEN EndTCPWrite(TCPs[d]) ELSE TCPs[d]]
  BY DEF Open
<1>7. rsck \in Socks => TCPs[rsck].state # "CLOSED"
  BY SocksAreNat, OwnSocket DEF None
<1> HIDE DEF c, rsck, i, new
<1>8. \A d \in Socks : d # c => TCPs'[d].state = TCPs[d].state
  BY <1>1, <1>6, <1>7, EndTCPWriteOK DEF TableOK
<1>9. ASSUME NEW d \in Socks, TCPs'[d].state = "ESTABLISHED"
      PROVE  reverse'[d] # None /\ http'[reverse'[d]] # "none" /\ socket'[reverse'[d]] = d
  <2>1. CASE d = c
    BY <1>1, <1>2, <1>4, <1>5, <2>1 DEF HttpTypeOK
  <2>2. CASE d # c
    <3>1. TCPs[d].state = "ESTABLISHED"
      BY <1>8, <1>9, <2>2
    <3>2. /\ reverse[d] # None /\ reverse[d] \in Conns /\ Live(reverse[d]) /\ socket[reverse[d]] = d
      BY <1>1, <3>1 DEF Served, EstablishedIsServed, HttpTypeOK
    <3>3. reverse'[d] = reverse[d] /\ reverse[d] # i
      BY <1>1, <1>4, <1>5, <2>2, <3>2 DEF HttpTypeOK
    <3> QED
      BY <1>1, <1>5, <3>2, <3>3 DEF HttpTypeOK, Live
  <2> QED
    BY <2>1, <2>2
<1>10. Wifi' \subseteq Wifi
  BY <1>1, <1>2, <1>4, <1>5 DEF Wifi, Live, HttpTypeOK
<1>11. WifiBound'
  BY <1>10, WifiOnly DEF Served
<1> QED
  BY <1>9, <1>11 DEF Served, EstablishedIsServed, Live

LEMMA StateOfWrite ==
  ASSUME NEW t \in Sock, NEW flags
  PROVE  Write(t, flags).state = t.state
<1> DEFINE u == [t EXCEPT !.sendtype = flags]
<1>1. u.state = t.state
  BY DEF Sock
<1>2. \E a, b, x : t = [state |-> t.state, peer |-> t.peer, time_since_sent |-> a, retries |-> b, sendtype |-> x]
  BY DEF Sock
<1>3. EndTCPWrite(u).state = t.state
  BY <1>1, <1>2 DEF EndTCPWrite
<1> QED
  BY <1>3 DEF Write

LEMMA ServedEnds ==
  ASSUME IInv, Served, ~ClosersReset, NEW p \in Peers, NEW good \in BOOLEAN,
         Rst(p) \/ Fin(p, good) \/ Late(p) \/ NoData(p, good)
  PROVE  Served'
<1> DEFINE c == GetAssociatedPacket(p)
<1>1. TableOK /\ HttpTypeOK /\ LiveServesOwnSocket
  BY Parts
<1>2. c # 0 /\ UNCHANGED <<socket, reverse>>
  BY DEF Rst, Fin, Late, NoData, httpVars
<1>3. c \in Socks /\ TCPs[c].state # "CLOSED" /\ SockOK(TCPs[c]) /\ TCPs[c] \in Sock
  BY <1>1, <1>2, OwnSocket DEF TableOK
<1>4. TCPs[c].state \in {"ESTABLISHED", "CLOSING_WAIT"} /\ Closed.state = "CLOSED"
  BY <1>3 DEF Sock, Closed
<1>5. CASE Rst(p)
  <2>1. TCPs' = [TCPs EXCEPT ![c] = Closed] /\ http' = Closing(c) /\ TCPs[c].state = "ESTABLISHED"
    BY <1>4, <1>5 DEF Rst
  <2> HIDE DEF c
  <2>2. TCPs'[c].state # "ESTABLISHED" /\ \A d \in Socks \ {c} : TCPs'[d] = TCPs[d]
    BY <1>1, <1>3, <1>4, <2>1 DEF TableOK
  <2> QED
    BY <1>1, <1>2, <1>3, <2>1, <2>2, ServedClosing
<1>6. CASE Late(p)
  <2>1. TCPs' = [TCPs EXCEPT ![c] = Closed] /\ http' = http
    BY <1>6 DEF Late, httpVars
  <2> HIDE DEF c
  <2>2. \A d \in Socks : TCPs'[d].state = "ESTABLISHED" => TCPs[d].state = "ESTABLISHED"
    BY <1>1, <1>3, <1>4, <2>1 DEF TableOK
  <2> QED
    BY <1>1, <1>2, <2>1, <2>2, ServedOn DEF Live
<1>7. CASE NoData(p, good)
  <2> DEFINE t == Acked(TCPs[c], good)
  <2>1. TCPs' = [TCPs EXCEPT ![c] = t] /\ http' = http
    BY <1>7 DEF NoData, httpVars
  <2>2. t.state = TCPs[c].state
    BY <1>3, AckedOK
  <2> HIDE DEF c, t
  <2>3. \A d \in Socks : TCPs'[d].state = "ESTABLISHED" => TCPs[d].state = "ESTABLISHED"
    BY <1>1, <1>3, <2>1, <2>2 DEF TableOK
  <2> QED
    BY <1>1, <1>2, <2>1, <2>3, ServedOn DEF Live
<1>8. CASE Fin(p, good)
  <2> DEFINE t == Acked(TCPs[c], good)
             u == [t EXCEPT !.state = "CLOSING_WAIT"]
             w == Write(u, {"ACK", "FIN"})
  <2>1. t.state = TCPs[c].state /\ t \in Sock
    BY <1>3, AckedOK
  <2>2. CASE TCPs[c].state = "CLOSING_WAIT"
    <3>1. TCPs' = [TCPs EXCEPT ![c] = Closed] /\ http' = http
      BY <1>8, <2>1, <2>2 DEF Fin
    <3> HIDE DEF c
    <3>2. \A d \in Socks : TCPs'[d].state = "ESTABLISHED" => TCPs[d].state = "ESTABLISHED"
      BY <1>1, <1>3, <1>4, <3>1 DEF TableOK
    <3> QED
      BY <1>1, <1>2, <3>1, <3>2, ServedOn DEF Live
  <2>3. CASE TCPs[c].state = "ESTABLISHED"
    <3>1. TCPs' = [TCPs EXCEPT ![c] = w] /\ http' = Closing(c)
      BY <1>8, <2>1, <2>3 DEF Fin
    <3>2. w.state = "CLOSING_WAIT"
      <4>1. u.state = "CLOSING_WAIT" /\ u \in Sock
        BY <2>1 DEF Sock
      <4> HIDE DEF u
      <4> QED
        BY <4>1, StateOfWrite
    <3> HIDE DEF c, w
    <3>3. TCPs'[c].state # "ESTABLISHED" /\ \A d \in Socks \ {c} : TCPs'[d] = TCPs[d]
      BY <1>1, <1>3, <3>1, <3>2 DEF TableOK
    <3> QED
      BY <1>1, <1>2, <1>3, <2>3, <3>1, <3>3, ServedClosing
  <2> QED
    BY <1>4, <2>2, <2>3
<1> QED
  BY <1>5, <1>6, <1>7, <1>8

LEMMA ServedData ==
  ASSUME IInv, Served, NEW p \in Peers, NEW good \in BOOLEAN, NEW did,
         NEW acks \in {"yes", "no"}, Data(p, good, did, acks)
  PROVE  Served'
<1> DEFINE c == GetAssociatedPacket(p)
           t == Acked(TCPs[c], good)
           i == reverse[c]
           table == [TCPs EXCEPT ![c] = t]
           after == Done(i, did, table)
           w == Write(after[c], {"ACK"})
<1>1. TableOK /\ HttpTypeOK /\ OtherTypeOK /\ LiveServesOwnSocket
  BY Parts
<1>2. c \in Socks /\ t.state = "ESTABLISHED" /\ did \in Deeds(i)
  BY OwnSocket DEF Data
<1>3. t.state = TCPs[c].state /\ (TCPs[c].state = "ESTABLISHED" => SockOK(t))
  BY <1>1, <1>2, AckedOK DEF TableOK
<1>4. http' = CASE did = "nothing" -> http
                [] did = "close" -> Closing(socket[i])
                [] did = "next" -> [http EXCEPT ![i] = "reading"]
                [] OTHER -> [http EXCEPT ![i] = "serving"]
  BY DEF Data
<1>5. TCPs' = after \/ TCPs' = [after EXCEPT ![c] = w]
  BY DEF Data
<1>6. UNCHANGED <<socket, reverse>>
  BY DEF Data
<1>7. i = None \/ i \in Conns
  BY <1>1, <1>2 DEF HttpTypeOK
<1>8. /\ table \in [Socks -> Sock]
      /\ \A d \in Socks : SockOK(table[d]) /\ table[d].state = TCPs[d].state
  <2> HIDE DEF c, t
  <2>1. \A d \in Socks : table[d] = IF d = c THEN t ELSE TCPs[d]
    BY <1>1, <1>2 DEF TableOK
  <2> QED
    BY <1>1, <1>2, <1>3, <2>1 DEF TableOK, SockOK
<1> HIDE DEF c, t, i, table
<1>9. /\ after \in [Socks -> Sock]
      /\ \A d \in Socks : SockOK(after[d])
      /\ did # "nothing" => i \in Conns /\ Live(i) /\ socket[i] \in Socks
      /\ \A d \in Socks : TCPs[d].state = "ESTABLISHED" =>
           after[d].state \in IF did = "close" /\ d = socket[i] THEN {"CLOSING_WAIT"}
                                                                ELSE {"ESTABLISHED"}
  BY <1>1, <1>2, <1>7, <1>8, DoneOK
<1>10. \A d \in Socks : after[d].state = "ESTABLISHED" => TCPs[d].state = "ESTABLISHED"
  <2>1. CASE did \notin {"answer", "close"}
    BY <1>8, <2>1 DEF after, Done
  <2>2. CASE did \in {"answer", "close"}
    <3> DEFINE s == socket[i]
    <3>1. s \in Socks /\ TCPs[s].state = "ESTABLISHED"
      BY <1>1, <1>9, <2>2, SocksAreNat, Bond
    <3>2. \A d \in Socks \ {s} : after[d] = table[d]
      BY <1>8, <2>2 DEF after, Done
    <3> QED
      BY <1>8, <3>1, <3>2
  <2> QED
    BY <2>1, <2>2
<1>11. after[c].state # "CLOSED" /\ SockOK(after[c])
  BY <1>2, <1>3, <1>9
<1>12. {"ACK"} \in Flags
  BY DEF Flags
<1> HIDE DEF after
<1>13. w.state = after[c].state
  BY <1>11, <1>12, WriteOK
<1> HIDE DEF w
<1>14. \A d \in Socks : TCPs'[d].state = after[d].state
  BY <1>2, <1>5, <1>9, <1>13
<1>15. CASE did = "close"
  <2> DEFINE s == socket[i]
  <2>1. s \in Socks /\ TCPs[s].state = "ESTABLISHED" /\ http' = Closing(s)
    BY <1>1, <1>4, <1>9, <1>15, SocksAreNat, Bond
  <2>2. TCPs'[s].state # "ESTABLISHED"
    BY <1>9, <1>14, <1>15, <2>1
  <2> HIDE DEF s
  <2> QED
    BY <1>1, <1>6, <1>10, <1>14, <2>1, <2>2, ServedClosing
<1>16. CASE did # "close"
  <2>1. \A j \in Conns : http'[j] # "none" <=> Live(j)
    <3>1. CASE did = "nothing"
      BY <1>4, <3>1 DEF Live
    <3>2. CASE did # "nothing"
      <4>1. PICK h \in {"reading", "serving"} : http' = [http EXCEPT ![i] = h]
        BY <1>4, <1>16, <3>2
      <4> QED
        BY <1>1, <1>9, <3>2, <4>1 DEF HttpTypeOK, Live
    <3> QED
      BY <3>1, <3>2
  <2> QED
    BY <1>1, <1>6, <1>10, <1>14, <2>1, ServedOn
<1> QED
  BY <1>15, <1>16

LEMMA TickedState ==
  ASSUME NEW t \in Sock, Ticked(t).state = "ESTABLISHED"
  PROVE  t.state = "ESTABLISHED" /\ ~GivenUp(t)
<1>1. /\ [t EXCEPT !.time_since_sent = @ + 1].state = t.state
      /\ [t EXCEPT !.time_since_sent = 1, !.retries = @ + 1].state = t.state
      /\ Closed.state = "CLOSED" /\ t.state \in {"CLOSED", "ESTABLISHED", "CLOSING_WAIT"}
  BY DEF Sock, Closed
<1>2. CASE Due(t)
  BY <1>1, <1>2 DEF Ticked, Due
<1>3. CASE ~Due(t)
  BY <1>1, <1>3 DEF Ticked, GivenUp
<1> QED
  BY <1>2, <1>3

LEMMA ServedTick ==
  ASSUME IInv, Served, TickTCP
  PROVE  Served'
<1> DEFINE gone == {d \in Socks : GivenUp(TCPs[d])}
<1>1. HttpTypeOK /\ UNCHANGED <<socket, reverse>> /\ \A d \in Socks : TCPs[d] \in Sock
  BY Parts DEF TickTCP, TableOK
<1>2. \A d \in Socks : TCPs'[d].state = "ESTABLISHED" => TCPs[d].state = "ESTABLISHED" /\ d \notin gone
  BY <1>1, TickedState DEF TickTCP
<1>3. /\ \A i \in Conns : http'[i] # "none" => Live(i)
      /\ \A i \in Conns : Live(i) /\ http'[i] = "none" =>
           \E d \in gone : d \in Socks /\ TCPs[d].state = "ESTABLISHED" /\ reverse[d] = i
  BY DEF TickTCP, Live, GivenUp
<1> HIDE DEF gone
<1> QED
  BY <1>1, <1>2, <1>3, ServedKept

LEMMA ServedServing ==
  ASSUME IInv, Served, NEW i \in Conns, Serve(i) \/ KeepAlive(i) \/ HTTPClose(i)
  PROVE  Served'
<1> DEFINE s == socket[i]
<1>1. TableOK /\ HttpTypeOK /\ LiveServesOwnSocket /\ UNCHANGED <<socket, reverse>>
  BY Parts DEF Serve, KeepAlive, HTTPClose, httpVars
<1>2. Live(i) /\ s # None
  BY DEF Serve, KeepAlive, HTTPClose, Live
<1>3. s \in Socks /\ TCPs[s].state = "ESTABLISHED" /\ SockOK(TCPs[s]) /\ TCPs[s] \in Sock
  BY <1>1, <1>2, Bond DEF TableOK
<1>4. CASE Serve(i)
  <2> DEFINE w == Write(TCPs[s], {"ACK", "PSH"})
  <2>1. TCPs' = [TCPs EXCEPT ![s] = w] /\ http' = http
    BY <1>4 DEF Serve, httpVars
  <2> HIDE DEF s, w
  <2>2. \A d \in Socks : TCPs'[d].state = "ESTABLISHED" => TCPs[d].state = "ESTABLISHED"
    BY <1>1, <1>3, <2>1 DEF TableOK
  <2> QED
    BY <1>1, <2>1, <2>2, ServedOn DEF Live
<1>5. CASE KeepAlive(i)
  <2>1. TCPs' = TCPs /\ http' = [http EXCEPT ![i] = "reading"]
    BY <1>5 DEF KeepAlive
  <2>2. \A k \in Conns : http'[k] # "none" <=> Live(k)
    BY <1>1, <1>2, <2>1 DEF HttpTypeOK, Live
  <2> QED
    BY <1>1, <2>1, <2>2, ServedOn
<1>6. CASE HTTPClose(i)
  <2> DEFINE w == RequestClosure(TCPs[s])
  <2>1. TCPs' = [TCPs EXCEPT ![s] = w] /\ http' = Closing(s)
    BY <1>6 DEF HTTPClose
  <2>2. w.state = "CLOSING_WAIT"
    BY <1>3, RequestClosureOK
  <2> HIDE DEF s, w
  <2>3. TCPs'[s].state # "ESTABLISHED" /\ \A d \in Socks \ {s} : TCPs'[d] = TCPs[d]
    BY <1>1, <1>3, <2>1, <2>2 DEF TableOK
  <2> QED
    BY <1>1, <1>3, <2>1, <2>3, ServedClosing
<1> QED
  BY <1>4, <1>5, <1>6

LEMMA ServedWifi ==
  ASSUME IInv, Served, WifiConnects \/ \E i \in Conns : WifiCloses(i)
  PROVE  Served'
<1>1. HttpTypeOK
  BY Parts
<1>2. CASE WifiConnects
  <2> DEFINE i == Min(FreeConns)
  <2>1. i \in Conns /\ ~Live(i) /\ Cardinality(Wifi) < WifiMax
    BY <1>2, FreeHttp DEF WifiConnects
  <2>2. /\ http' = [http EXCEPT ![i] = "reading"] /\ socket' = [socket EXCEPT ![i] = None]
        /\ UNCHANGED <<reverse, TCPs>>
    BY <1>2 DEF WifiConnects, Register
  <2> HIDE DEF i
  <2>3. EstablishedIsServed'
    BY <1>1, <2>1, <2>2 DEF Served, EstablishedIsServed, HttpTypeOK, Live
  <2>4. Wifi' = Wifi \cup {i}
    BY <1>1, <2>1, <2>2 DEF Wifi, Live, HttpTypeOK
  <2>5. i \notin Wifi
    BY <2>1 DEF Wifi
  <2>6. Cardinality(Wifi \cup {i}) = Cardinality(Wifi) + 1
    BY <2>5, FiniteWifi, FS_AddElement
  <2>7. WifiBound'
    BY <2>1, <2>4, <2>6, FiniteWifi, FiniteTables DEF WifiBound
  <2> QED
    BY <2>3, <2>7 DEF Served
<1>3. ASSUME NEW i \in Conns, WifiCloses(i) PROVE Served'
  <2>1. /\ i \in Wifi /\ http' = [http EXCEPT ![i] = "none"] /\ UNCHANGED <<socket, reverse, TCPs>>
    BY <1>3 DEF WifiCloses
  <2>2. \A c \in Socks : socket[i] # c
    BY <2>1, SocksAreNat DEF Wifi
  <2>3. EstablishedIsServed'
    BY <1>1, <2>1, <2>2 DEF Served, EstablishedIsServed, HttpTypeOK, Live
  <2>4. Wifi' \subseteq Wifi
    BY <1>1, <2>1 DEF Wifi, Live, HttpTypeOK
  <2> QED
    BY <2>3, <2>4, WifiOnly DEF Served
<1> QED
  BY <1>2, <1>3

LEMMA NextServed ==
  ASSUME IInv, Served, ~ClosersReset, EnoughConns, [Next]_vars
  PROVE  Served'
<1>1. CASE UNCHANGED <<TCPs, http, socket, reverse>>
  <2>1. Wifi' \subseteq Wifi
    BY <1>1 DEF Wifi, Live
  <2> QED
    BY <1>1, <2>1, WifiOnly DEF Served, EstablishedIsServed, Live
<1>2. CASE UNCHANGED vars
  BY <1>1, <1>2 DEF vars, httpVars
<1>3. ASSUME NEW p \in Peers, Segment(p) PROVE Served'
  <2>1. CASE Syn(p)
    <3>1. \/ UNCHANGED <<TCPs, http, socket, reverse>>
          \/ GetFreeConnection # 0 /\ Open(p, GetFreeConnection)
      BY <2>1 DEF Syn, Reset, httpVars
    <3> QED
      BY <1>1, <3>1, ServedOpen
  <2>2. CASE Stray(p)
    BY <1>1, <2>2 DEF Stray, Reset, httpVars
  <2> QED
    BY <1>3, <2>1, <2>2, ServedEnds, ServedData DEF Segment
<1> QED
  BY <1>2, <1>3, ServedTick, ServedServing, ServedWifi DEF Next

LEMMA InitServed == Init => Served
<1> SUFFICES ASSUME Init PROVE Served
  OBVIOUS
<1>1. EstablishedIsServed
  BY DEF Init, EstablishedIsServed, Closed
<1>2. Wifi = {}
  BY DEF Init, Wifi, Live
<1>3. Cardinality(Wifi) = 0
  BY <1>2, FS_EmptySet
<1> QED
  BY <1>1, <1>3, FiniteTables DEF Served, WifiBound

(* Nobody holds a socket that is not served, with any number of sockets:   *)
(* 3 that can be connected and 8 connections leave 5 to Wi-Fi.             *)
THEOREM EstablishedServed ==
  ASSUME ~ClosersReset, EnoughConns
  PROVE  Spec => []EstablishedIsServed
<1>1. Init => IInv /\ Served
  BY InitIInv, InitServed
<1>2. IInv /\ Served /\ [Next]_vars => (IInv /\ Served)'
  BY NextIInv, NextServed
<1>3. Served => EstablishedIsServed
  BY DEF Served
<1> QED
  BY <1>1, <1>2, <1>3, PTL DEF Spec
-----------------------------------------------------------------------------
(* TcpStream: one connection, with its sequence numbers.  Every packet the *)
(* server sent is a part of what the application wrote, and only one is    *)
(* not acknowledged at a time: the one at sendptr, the last of it.         *)
AnswerBytes == 1..MaxAnswers

Part(m, written) ==
  /\ m.data \in Seq(AnswerBytes) /\ m.seq \in Nat
  /\ \A k \in 1..Len(m.data) :
       m.seq >= 1 /\ m.seq + k - 1 <= Len(written) /\ m.data[k] = written[m.seq + k - 1]

Received == Len(rcv) <= Len(out) /\ \A k \in 1..Len(rcv) : rcv[k] = out[k]

Taken == Len(got) <= asked /\ \A k \in 1..Len(got) : got[k] = k

Clock == LET t == TCPs[1] IN t.state = "ESTABLISHED" =>
  /\ ack_num = Len(got) + 1
  /\ t.time_since_sent = 0 => Len(rcv) = Len(out) /\ seq_num = Len(out) + 1
  /\ t.time_since_sent # 0 => sendlength > 0 /\ seq_num + sendlength = Len(out) + 1

Unopened == syns = 0 => TCPs[1].state = "CLOSED" /\ out = <<>> /\ got = <<>>

StreamTypes ==
  /\ out \in Seq(AnswerBytes) /\ rcv \in Seq(AnswerBytes) /\ got \in Seq(Nat)
  /\ asked \in 0..MaxRequest /\ seq_num \in Nat /\ ack_num \in Nat /\ sendlength \in Nat

StreamInv ==
  /\ IInv /\ StreamTypes
  /\ (\A m \in toClient : Part(m, out)) /\ Part(stored, out)
  /\ Received /\ Taken /\ Clock /\ Unopened

LEMMA OneSocket ==
  ASSUME OneConnection, IInv
  PROVE  /\ Socks = {1} /\ Conns = {1} /\ Client \in Peers
         /\ TCPs[1] \in Sock /\ SockOK(TCPs[1]) /\ TCPs \in [Socks -> Sock]
         /\ \A i \in Conns : Live(i) /\ socket[i] # None => socket[i] = 1
         /\ MaxRequest \in Nat /\ MaxAnswers \in Nat
<1>1. Socks = {1} /\ Conns = {1} /\ Client \in Peers /\ MaxRequest \in Nat /\ MaxAnswers \in Nat
  BY DEF OneConnection, Socks, Conns, Peers
<1>2. TableOK /\ HttpTypeOK
  BY Parts
<1> QED
  BY <1>1, <1>2 DEF TableOK, HttpTypeOK, None

LEMMA StepOfTable == OneConnection /\ [SNext]_allVars => [Next]_vars
<1> SUFFICES ASSUME OneConnection, [SNext]_allVars PROVE [Next]_vars
  OBVIOUS
<1>1. Client \in Peers /\ 1 \in Conns
  BY DEF OneConnection, Peers, Conns
<1>2. ASSUME NEW m, SNoData(m) PROVE Next
  <2>1. Good(m) \in BOOLEAN /\ NoData(Client, Good(m))
    BY <1>2 DEF SNoData, Good
  <2> QED
    BY <1>1, <2>1 DEF Next, Segment
<1>3. ASSUME NEW m, SData(m) PROVE Next
  <2>1. PICK acks \in {"yes", "no"}, did \in {"nothing", "begin", "next", "answer"} :
          Data(Client, Good(m), did, acks)
    BY <1>3 DEF SData
  <2>2. Good(m) \in BOOLEAN
    BY DEF Good
  <2> QED
    BY <1>1, <2>1, <2>2 DEF Next, Segment
<1>4. CASE SSyn
  BY <1>1, <1>4 DEF SSyn, Next, Segment
<1>5. CASE SServe \/ SKeepAlive \/ STick
  BY <1>1, <1>5 DEF SServe, SKeepAlive, STick, Next
<1>6. CASE ClientSends \/ ClientReceives \/ UNCHANGED allVars
  BY <1>6 DEF ClientSends, ClientReceives, allVars
<1> QED
  BY <1>2, <1>3, <1>4, <1>5, <1>6 DEF SNext

(* The clock of one socket, as its helpers leave it.                       *)
LEMMA ClockOfAcked ==
  ASSUME NEW t \in Sock, NEW good \in BOOLEAN
  PROVE  /\ Acked(t, good).state = t.state /\ Acked(t, good) \in Sock
         /\ Acked(t, good).time_since_sent = IF good THEN 0 ELSE t.time_since_sent
BY ConstantsOK DEF Acked, Sock

LEMMA ClockOfWrite ==
  ASSUME NEW t \in Sock
  PROVE  /\ Write(t, {"ACK", "PSH"}).state = t.state /\ Write(t, {"ACK", "PSH"}).time_since_sent = 1
         /\ Write(t, {"ACK"}).state = t.state /\ Write(t, {"ACK"}).time_since_sent = t.time_since_sent
<1> DEFINE u == [t EXCEPT !.sendtype = {"ACK", "PSH"}]
           v == [t EXCEPT !.sendtype = {"ACK"}]
<1>1. /\ u \in [state : {"CLOSED", "ESTABLISHED", "CLOSING_WAIT"}, peer : Peers \cup {NoMac},
               time_since_sent : 0..TCP_TICKS_BEFORE_RESEND+1,
               retries : 0..TCP_MAX_RETRIES+1, sendtype : {{"ACK", "PSH"}}]
      /\ u.state = t.state /\ u.sendtype = {"ACK", "PSH"}
  BY DEF Sock
<1>2. /\ v.state = t.state /\ v.time_since_sent = t.time_since_sent /\ v.sendtype = {"ACK"}
  BY DEF Sock
<1>3. Write(t, {"ACK", "PSH"}) = EndTCPWrite(u) /\ Write(t, {"ACK"}) = EndTCPWrite(v)
  BY DEF Write
<1> HIDE DEF u, v
<1>4. EndTCPWrite(v) = v
  BY <1>2 DEF EndTCPWrite
<1>5. EndTCPWrite(u) = [u EXCEPT !.time_since_sent = 1, !.retries = 0]
  BY <1>1 DEF EndTCPWrite
<1>6. EndTCPWrite(u).state = u.state /\ EndTCPWrite(u).time_since_sent = 1
  BY <1>1, <1>5
<1> QED
  BY <1>1, <1>2, <1>3, <1>4, <1>6

LEMMA ClockOfTicked ==
  ASSUME NEW t \in Sock, t.state = "ESTABLISHED", Ticked(t).state = "ESTABLISHED"
  PROVE  Ticked(t).time_since_sent = 0 <=> t.time_since_sent = 0
<1>1. t.time_since_sent \in Nat /\ Closed.state = "CLOSED"
  BY ConstantsOK DEF Sock, Closed
<1>2. /\ [t EXCEPT !.time_since_sent = @ + 1].time_since_sent = t.time_since_sent + 1
      /\ [t EXCEPT !.time_since_sent = 1, !.retries = @ + 1].time_since_sent = 1
  BY DEF Sock
<1>3. CASE t.time_since_sent = 0
  BY <1>3 DEF Ticked
<1>4. CASE t.time_since_sent # 0 /\ ~Due(t)
  <2>1. Ticked(t) = [t EXCEPT !.time_since_sent = @ + 1]
    BY <1>4 DEF Ticked
  <2> QED
    BY <1>1, <1>2, <1>4, <2>1
<1>5. CASE t.time_since_sent # 0 /\ Due(t)
  <2>1. Ticked(t) = [t EXCEPT !.time_since_sent = 1, !.retries = @ + 1]
    BY <1>1, <1>5 DEF Ticked
  <2> QED
    BY <1>2, <1>5, <2>1
<1> QED
  BY <1>3, <1>4, <1>5

(* The client acknowledges no more than it received: an acknowledgement is *)
(* good only when something is on its way, and then it is of all of it.    *)
LEMMA GoodIsAll ==
  ASSUME OneConnection, StreamInv, TCPs[1].state = "ESTABLISHED", NEW m \in toServer
  PROVE  LET t == Acked(TCPs[1], Good(m)) IN
         /\ t \in Sock /\ t.state = "ESTABLISHED" /\ Good(m) \in BOOLEAN
         /\ t.time_since_sent = 0 => Len(rcv) = Len(out) /\ SeqAfter(m) = Len(out) + 1
         /\ t.time_since_sent # 0 => sendlength > 0 /\ SeqAfter(m) + sendlength = Len(out) + 1
         /\ SeqAfter(m) \in Nat /\ m.ack <= Len(rcv) + 1
<1> DEFINE t == Acked(TCPs[1], Good(m))
<1>1. TCPs[1] \in Sock /\ TCPs[1].time_since_sent \in Nat
  BY OneSocket, ConstantsOK DEF StreamInv, Sock
<1>2. /\ Good(m) \in BOOLEAN /\ t \in Sock /\ t.state = "ESTABLISHED"
      /\ t.time_since_sent = IF Good(m) THEN 0 ELSE TCPs[1].time_since_sent
  BY <1>1, ClockOfAcked DEF Good
<1>3. m.ack \in Nat /\ m.ack <= Len(rcv) + 1
  BY DEF toServer, StreamInv, StreamTypes
<1>4. Len(rcv) <= Len(out) /\ Len(rcv) \in Nat /\ Len(out) \in Nat /\ seq_num \in Nat /\ sendlength \in Nat
  BY DEF StreamInv, Received, StreamTypes
<1>5. /\ TCPs[1].time_since_sent = 0 => Len(rcv) = Len(out) /\ seq_num = Len(out) + 1
      /\ TCPs[1].time_since_sent # 0 => sendlength > 0 /\ seq_num + sendlength = Len(out) + 1
  BY DEF StreamInv, Clock
<1> HIDE DEF t
<1>6. Good(m) => t.time_since_sent = 0 /\ Len(rcv) = Len(out) /\ SeqAfter(m) = Len(out) + 1
  <2> SUFFICES ASSUME Good(m) PROVE t.time_since_sent = 0 /\ Len(rcv) = Len(out) /\ SeqAfter(m) = Len(out) + 1
    OBVIOUS
  <2>1. m.ack = nextseq /\ SeqAfter(m) = nextseq
    BY DEF Good, SeqAfter
  <2>2. TCPs[1].time_since_sent # 0
    BY <1>3, <1>4, <1>5, <2>1 DEF nextseq
  <2>3. nextseq = Len(out) + 1
    BY <1>4, <1>5, <2>2 DEF nextseq
  <2>4. Len(rcv) = Len(out)
    BY <1>3, <1>4, <2>1, <2>3
  <2> QED
    BY <1>2, <2>1, <2>3, <2>4
<1>7. ~Good(m) => t.time_since_sent = TCPs[1].time_since_sent /\ SeqAfter(m) = seq_num
  BY <1>2 DEF SeqAfter
<1>8. /\ t.time_since_sent = 0 => Len(rcv) = Len(out) /\ SeqAfter(m) = Len(out) + 1
      /\ t.time_since_sent # 0 => sendlength > 0 /\ SeqAfter(m) + sendlength = Len(out) + 1
      /\ SeqAfter(m) \in Nat
  BY <1>4, <1>5, <1>6, <1>7
<1> QED
  BY <1>2, <1>3, <1>8 DEF t

(* What the application wrote more of it does not change what it wrote.    *)
Grows(o, p) == Len(o) <= Len(p) /\ \A k \in 1..Len(o) : p[k] = o[k]

LEMMA StillPart ==
  ASSUME NEW m, NEW o \in Seq(AnswerBytes), NEW p \in Seq(AnswerBytes), Part(m, o), Grows(o, p)
  PROVE  Part(m, p)
<1>1. m.data \in Seq(AnswerBytes) /\ m.seq \in Nat /\ Len(o) \in Nat /\ Len(p) \in Nat
  BY DEF Part
<1>2. ASSUME NEW k \in 1..Len(m.data)
      PROVE  m.seq >= 1 /\ m.seq + k - 1 <= Len(p) /\ m.data[k] = p[m.seq + k - 1]
  <2>1. /\ m.seq >= 1 /\ m.seq + k - 1 <= Len(o) /\ m.data[k] = o[m.seq + k - 1]
    BY DEF Part
  <2>2. k \in Nat /\ k >= 1
    BY <1>1
  <2>3. m.seq + k - 1 \in 1..Len(o)
    BY <1>1, <2>1, <2>2
  <2> QED
    BY <1>1, <2>1, <2>3 DEF Grows
<1> QED
  BY <1>1, <1>2 DEF Part

LEMMA NetworkKept ==
  ASSUME StreamInv, Grows(out, out'), out' \in Seq(AnswerBytes),
         \A m \in toClient' : m \in toClient \/ m = stored \/ Part(m, out'),
         stored' = stored \/ Part(stored', out')
  PROVE  (\A m \in toClient' : Part(m, out')) /\ Part(stored', out')
BY StillPart DEF StreamInv, StreamTypes

LEMMA EmptyPart ==
  ASSUME NEW n \in Nat, NEW a, NEW o
  PROVE  Part(Packet(n, a, <<>>), o)
<1>1. <<>> \in Seq(AnswerBytes) /\ Len(<<>>) = 0
  BY EmptySeq
<1> QED
  BY <1>1 DEF Part, Packet

(* What the application writes goes to the end of what it wrote.           *)
LEMMA NewAnswer ==
  ASSUME OneConnection, StreamTypes, NEW d \in Answers, NEW p, p = out \o d, NEW a,
         NEW n, n = Len(out) + 1
  PROVE  /\ Grows(out, p) /\ p \in Seq(AnswerBytes) /\ Len(d) \in {1, 2}
         /\ Len(p) = Len(out) + Len(d)
         /\ Part(Packet(n, a, d), p)
<1>1. out \in Seq(AnswerBytes) /\ Len(out) \in Nat /\ MaxAnswers \in Nat
  BY DEF StreamTypes, OneConnection
<1>2. Answer \in Nat \ {0}
  BY <1>1 DEF Answer, Last, AnswerBytes
<1> HIDE DEF Answer
<1>3. Answer <= MaxAnswers /\ (d = <<Answer>> \/ d = <<Answer, Answer>>)
  BY <1>1, <1>2 DEF Answers
<1>4. Answer \in AnswerBytes
  BY <1>1, <1>2, <1>3 DEF AnswerBytes
<1>5. d \in Seq(AnswerBytes) /\ Len(d) \in {1, 2}
  BY <1>3, <1>4
<1>6. /\ p \in Seq(AnswerBytes) /\ Len(p) = Len(out) + Len(d)
      /\ \A k \in 1..Len(out) + Len(d) : p[k] = IF k <= Len(out) THEN out[k] ELSE d[k - Len(out)]
  BY <1>1, <1>5, ConcatProperties
<1>7. Grows(out, p)
  BY <1>1, <1>5, <1>6 DEF Grows
<1>8. Part(Packet(n, a, d), p)
  <2>1. Packet(n, a, d).seq = n /\ Packet(n, a, d).data = d
    BY DEF Packet
  <2>2. ASSUME NEW k \in 1..Len(d)
        PROVE  n >= 1 /\ n + k - 1 <= Len(p) /\ d[k] = p[n + k - 1]
    <3>1. n + k - 1 \in 1..Len(out) + Len(d) /\ ~(n + k - 1 <= Len(out)) /\ n + k - 1 - Len(out) = k
      BY <1>1, <1>5
    <3> QED
      BY <1>1, <1>6, <3>1, SMTT(30)
  <2> QED
    BY <1>1, <1>5, <2>1, <2>2 DEF Part
<1> QED
  BY <1>5, <1>6, <1>7, <1>8

LEMMA SynStream ==
  ASSUME OneConnection, StreamInv, IInv', SSyn
  PROVE  StreamInv'
<1>1. /\ Syn(Client) /\ TCPs'[1].state = "ESTABLISHED" /\ UNCHANGED <<out, got, asked, rcv>>
      /\ seq_num' = 1 /\ ack_num' = 1 /\ Keep(Packet(0, 1, <<>>))
      /\ toClient' = toClient \cup {Packet(0, 1, <<>>)}
  BY DEF SSyn
<1>2. syns = 0 /\ syns' = 1
  BY <1>1 DEF Syn, OneConnection, StreamInv, IInv, TypeOK
<1>3. TCPs[1].state = "CLOSED" /\ out = <<>> /\ got = <<>> /\ Len(rcv) = 0
  <2>1. TCPs[1].state = "CLOSED" /\ out = <<>> /\ got = <<>>
    BY <1>2 DEF StreamInv, Unopened
  <2>2. Len(rcv) \in Nat /\ Len(rcv) <= Len(out) /\ Len(<<>>) = 0
    BY DEF StreamInv, StreamTypes, Received
  <2> QED
    BY <2>1, <2>2
<1>4. TCPs'[1].time_since_sent = 0
  <2>1. GetFreeConnection # 0 /\ Open(Client, GetFreeConnection)
    BY <1>1, <1>3 DEF Syn, Reset
  <2>2. GetFreeConnection = 1 /\ 1 \in Socks
    BY <2>1, FreeSocket, OneSocket DEF StreamInv
  <2>3. TCPs'[1] = [Closed EXCEPT !.state = "ESTABLISHED", !.peer = Client, !.sendtype = {"SYN", "ACK"}]
    BY <2>1, <2>2 DEF Open
  <2> QED
    BY <2>3 DEF Closed
<1>5. Part(Packet(0, 1, <<>>), out')
  BY EmptyPart
<1>6. Grows(out, out') /\ out' \in Seq(AnswerBytes) /\ stored' = Packet(0, 1, <<>>) /\ sendlength' = 0
  BY <1>1 DEF Grows, StreamInv, StreamTypes, Keep, Packet
<1>7. (\A m \in toClient' : Part(m, out')) /\ Part(stored', out')
  BY <1>1, <1>5, <1>6, NetworkKept
<1>8. Clock'
  BY <1>1, <1>3, <1>4 DEF Clock
<1> QED
  BY <1>1, <1>2, <1>6, <1>7, <1>8 DEF StreamInv, StreamTypes, Received, Taken, Unopened

(* Steps in which the application neither writes nor is given anything.    *)
LEMMA StreamKept ==
  ASSUME StreamInv, IInv', UNCHANGED <<out, got, asked, rcv>>,
         \A m \in toClient' : m \in toClient \/ m = stored \/ Part(m, out'),
         stored' = stored \/ Part(stored', out'),
         seq_num' \in Nat, ack_num' \in Nat, sendlength' \in Nat, Clock',
         syns' = syns, TCPs[1].state = "CLOSED" => TCPs'[1].state = "CLOSED"
  PROVE  StreamInv'
<1>1. Grows(out, out') /\ out' \in Seq(AnswerBytes)
  BY DEF Grows, StreamInv, StreamTypes
<1>2. (\A m \in toClient' : Part(m, out')) /\ Part(stored', out')
  BY <1>1, NetworkKept
<1> QED
  BY <1>1, <1>2 DEF StreamInv, StreamTypes, Received, Taken, Unopened

LEMMA NoDataStream ==
  ASSUME OneConnection, StreamInv, IInv', NEW m \in toServer, SNoData(m)
  PROVE  StreamInv'
<1> DEFINE t == Acked(TCPs[1], Good(m))
<1>1. /\ NoData(Client, Good(m)) /\ seq_num' = SeqAfter(m)
      /\ UNCHANGED <<ack_num, sendlength, stored, toClient, out, got, asked, rcv>>
  BY DEF SNoData
<1>2. Socks = {1} /\ TCPs \in [Socks -> Sock]
  BY OneSocket DEF StreamInv
<1>3. GetAssociatedPacket(Client) = 1 /\ TCPs[1].state = "ESTABLISHED" /\ syns' = syns
  BY <1>1, <1>2, OwnSocket DEF NoData
<1>4. TCPs' = [TCPs EXCEPT ![1] = t]
  BY <1>1, <1>3 DEF NoData
<1>5. /\ t \in Sock /\ t.state = "ESTABLISHED"
      /\ t.time_since_sent = 0 => Len(rcv) = Len(out) /\ SeqAfter(m) = Len(out) + 1
      /\ t.time_since_sent # 0 => sendlength > 0 /\ SeqAfter(m) + sendlength = Len(out) + 1
      /\ SeqAfter(m) \in Nat
  BY <1>3, GoodIsAll
<1> HIDE DEF t
<1>6. TCPs'[1] = t
  BY <1>2, <1>4
<1>7. ack_num = Len(got) + 1
  BY <1>3 DEF StreamInv, Clock
<1>8. Clock'
  BY <1>1, <1>5, <1>6, <1>7 DEF Clock
<1> QED
  BY <1>1, <1>3, <1>5, <1>8, StreamKept DEF StreamInv, StreamTypes

LEMMA TickStream ==
  ASSUME OneConnection, StreamInv, IInv', STick
  PROVE  StreamInv'
<1>1. /\ TickTCP /\ UNCHANGED <<seq_num, ack_num, sendlength, stored, out, got, asked, rcv>>
      /\ toClient' \subseteq toClient \cup {stored}
  BY DEF STick, sockVars
<1>2. Socks = {1} /\ TCPs[1] \in Sock /\ SockOK(TCPs[1])
  BY OneSocket DEF StreamInv
<1>3. TCPs'[1] = Ticked(TCPs[1]) /\ syns' = syns
  BY <1>1, <1>2 DEF TickTCP
<1>4. TCPs'[1].state = "ESTABLISHED" =>
        TCPs[1].state = "ESTABLISHED" /\ (TCPs'[1].time_since_sent = 0 <=> TCPs[1].time_since_sent = 0)
  BY <1>2, <1>3, TickedState, ClockOfTicked
<1>5. TCPs[1].state = "CLOSED" => TCPs'[1].state = "CLOSED"
  BY <1>2, <1>3 DEF SockOK, Ticked
<1>6. Clock'
  BY <1>1, <1>4 DEF StreamInv, Clock
<1> QED
  BY <1>1, <1>3, <1>5, <1>6, StreamKept DEF StreamInv, StreamTypes

LEMMA ServeStream ==
  ASSUME OneConnection, StreamInv, IInv', SServe
  PROVE  StreamInv'
<1>1. Serve(1) /\ UNCHANGED <<seq_num, ack_num, got, asked, rcv>>
  BY DEF SServe
<1>2. PICK d \in Answers : /\ Keep(Packet(seq_num, ack_num, d)) /\ out' = out \o d
                           /\ toClient' = toClient \cup {Packet(seq_num, ack_num, d)}
  BY DEF SServe
<1>3. /\ Socks = {1} /\ Conns = {1} /\ TCPs[1] \in Sock /\ TCPs \in [Socks -> Sock]
  BY OneSocket DEF StreamInv
<1>4. /\ socket[1] = 1 /\ TCPs[1].state = "ESTABLISHED" /\ TCPs[1].time_since_sent = 0
      /\ TCPs' = [TCPs EXCEPT ![1] = Write(@, {"ACK", "PSH"})] /\ syns' = syns
  <2>1. socket[1] = 1
    BY <1>1, OneSocket DEF Serve, Live, StreamInv
  <2>2. TCPs[1].state = "ESTABLISHED"
    BY <1>1, <1>3, <2>1 DEF Serve, Live, StreamInv, IInv, LiveServesOwnSocket
  <2> QED
    BY <1>1, <2>1, <2>2 DEF Serve
<1>5. TCPs'[1].state = "ESTABLISHED" /\ TCPs'[1].time_since_sent = 1
  BY <1>3, <1>4, ClockOfWrite
<1>6. ack_num = Len(got) + 1 /\ Len(rcv) = Len(out) /\ seq_num = Len(out) + 1 /\ Len(out) \in Nat
  BY <1>4 DEF StreamInv, Clock, StreamTypes
<1>7. /\ Grows(out, out') /\ out' \in Seq(AnswerBytes) /\ Len(d) \in {1, 2}
      /\ Len(out') = Len(out) + Len(d) /\ Part(Packet(seq_num, ack_num, d), out')
  BY <1>2, <1>6, NewAnswer DEF StreamInv
<1>8. stored' = Packet(seq_num, ack_num, d) /\ sendlength' = Len(d)
  BY <1>2 DEF Keep, Packet
<1>9. (\A m \in toClient' : Part(m, out')) /\ Part(stored', out')
  BY <1>2, <1>7, <1>8, NetworkKept
<1>10. Clock'
  BY <1>1, <1>5, <1>6, <1>7, <1>8 DEF Clock
<1>11. Received'
  BY <1>1, <1>7 DEF StreamInv, Received, Grows, StreamTypes
<1>12. Unopened'
  BY <1>4 DEF StreamInv, Unopened
<1> QED
  BY <1>1, <1>7, <1>8, <1>9, <1>10, <1>11, <1>12 DEF StreamInv, StreamTypes, Taken

(* The bytes taken are the next the client sent.                           *)
LEMMA TakenMore ==
  ASSUME StreamTypes, Taken, NEW b \in Seq(Nat), Len(got) + Len(b) <= asked,
         \A k \in 1..Len(b) : b[k] = Len(got) + k, NEW g, g = got \o b
  PROVE  g \in Seq(Nat) /\ Len(g) = Len(got) + Len(b) /\ Len(g) <= asked /\ \A k \in 1..Len(g) : g[k] = k
<1>1. got \in Seq(Nat) /\ Len(got) \in Nat /\ asked \in Nat /\ Len(b) \in Nat
  BY DEF StreamTypes
<1>2. /\ g \in Seq(Nat) /\ Len(g) = Len(got) + Len(b)
      /\ \A k \in 1..Len(got) + Len(b) : g[k] = IF k <= Len(got) THEN got[k] ELSE b[k - Len(got)]
  BY <1>1, ConcatProperties
<1>3. ASSUME NEW k \in 1..Len(got) + Len(b) PROVE g[k] = k
  <2>1. CASE k <= Len(got)
    BY <1>1, <1>2, <2>1 DEF Taken
  <2>2. CASE ~(k <= Len(got))
    <3>1. k - Len(got) \in 1..Len(b)
      BY <1>1, <2>2
    <3> QED
      BY <1>1, <1>2, <2>2, <3>1
  <2> QED
    BY <2>1, <2>2
<1> QED
  BY <1>1, <1>2, <1>3

(* Data that is not answered at once leaves the clock to its               *)
(* acknowledgement, and is acknowledged by the socket only when that       *)
(* stopped; an answer starts it, and waits for it to have stopped.         *)
LEMMA DataClock ==
  ASSUME OneConnection, IInv, ~AnswersUnasked, NEW good \in BOOLEAN,
         NEW did \in {"nothing", "begin", "next", "answer"}, NEW acks \in {"yes", "no"},
         Data(Client, good, did, acks)
  PROVE  LET t == Acked(TCPs[1], good) IN
         /\ TCPs[1].state = "ESTABLISHED" /\ TCPs'[1].state = "ESTABLISHED" /\ syns' = syns
         /\ did = "answer" => t.time_since_sent = 0 /\ TCPs'[1].time_since_sent = 1
         /\ did # "answer" => /\ TCPs'[1].time_since_sent = t.time_since_sent
                              /\ wire'.from = 1 => t.time_since_sent = 0
<1> DEFINE t == Acked(TCPs[1], good)
           i == reverse[1]
           table == [TCPs EXCEPT ![1] = t]
           after == Done(i, did, table)
<1>1. Socks = {1} /\ Conns = {1} /\ TCPs \in [Socks -> Sock] /\ TCPs[1] \in Sock
  BY OneSocket
<1>2. GetAssociatedPacket(Client) = 1
  BY <1>1, OwnSocket DEF Data
<1>3. t \in Sock /\ t.state = TCPs[1].state
  BY <1>1, ClockOfAcked
<1>4. /\ t.state = "ESTABLISHED" /\ syns' = syns /\ did \in Deeds(i)
      /\ did = "answer" => table[socket[i]].time_since_sent = 0
      /\ CASE acks = "no" -> wire' = Silent /\ TCPs' = after
           [] acks = "yes" /\ after[1].time_since_sent # 0 ->
                wire' = Sent(Client, mac0, 0) /\ TCPs' = after
           [] OTHER -> /\ wire' = Sent(Client, Client, 1)
                       /\ TCPs' = [after EXCEPT ![1] = Write(@, {"ACK"})]
  BY <1>2 DEF Data
<1>5. did = "answer" => socket[i] = 1
  <2>1. did = "answer" => Live(i) /\ socket[i] # None /\ i # None
    BY <1>4 DEF Deeds
  <2>2. i \in Conns \cup {None}
    BY <1>1, Parts DEF HttpTypeOK
  <2> QED
    BY <2>1, <2>2, OneSocket
<1> HIDE DEF t
<1>6. table \in [Socks -> Sock] /\ table[1] = t
  BY <1>1, <1>3
<1> HIDE DEF table, i
<1>7. did # "answer" => after = table
  BY DEF Done
<1>8. did = "answer" => /\ after = [table EXCEPT ![1] = Write(@, {"ACK", "PSH"})]
                        /\ t.time_since_sent = 0
  BY <1>4, <1>5, <1>6 DEF Done
<1>9. did = "answer" => /\ after[1] = Write(t, {"ACK", "PSH"}) /\ after[1].time_since_sent = 1
                        /\ after[1].state = "ESTABLISHED" 
  BY <1>1, <1>3, <1>4, <1>6, <1>8, ClockOfWrite
<1>10. Silent.from = 0 /\ Sent(Client, mac0, 0).from = 0
  BY DEF Silent, Sent
<1> HIDE DEF after
<1>11. CASE did = "answer"
  <2>1. TCPs' = after
    BY <1>4, <1>9, <1>11
  <2> QED
    BY <1>3, <1>4, <1>8, <1>9, <1>11, <2>1 DEF t
<1>12. CASE did # "answer"
  <2>1. after = table
    BY <1>7, <1>12
  <2>2. \/ TCPs' = table /\ wire'.from = 0
        \/ t.time_since_sent = 0 /\ TCPs' = [table EXCEPT ![1] = Write(@, {"ACK"})]
    BY <1>4, <1>6, <1>10, <2>1
  <2>3. TCPs'[1].state = t.state /\ TCPs'[1].time_since_sent = t.time_since_sent
    BY <1>1, <1>3, <1>6, <2>2, ClockOfWrite
  <2> QED
    BY <1>3, <1>4, <1>12, <2>2, <2>3 DEF t
<1> QED
  BY <1>11, <1>12

LEMMA DataStream ==
  ASSUME OneConnection, ~AnswersUnasked, StreamInv, IInv', NEW m \in toServer, SData(m)
  PROVE  StreamInv'
<1> DEFINE t == Acked(TCPs[1], Good(m))
           ack == ack_num + m.len
           empty == Packet(SeqAfter(m), ack, <<>>)
<1>1. /\ m.len \in Nat /\ m.seq = ack_num /\ m.seq + m.len <= asked + 1
      /\ seq_num' = SeqAfter(m) /\ ack_num' = ack /\ UNCHANGED <<asked, rcv>>
      /\ got' = got \o [k \in 1..m.len |-> m.seq + k - 1]
  BY DEF SData, Wanted, toServer
<1>2. Good(m) \in BOOLEAN
  BY DEF Good
<1>3. PICK acks \in {"yes", "no"}, heard \in SUBSET {empty} :
        \/ /\ \E did \in {"nothing", "begin", "next"} : Data(Client, Good(m), did, acks)
           /\ IF wire'.from = 1 THEN Keep(empty) ELSE UNCHANGED <<stored, sendlength>>
           /\ toClient' = toClient \cup heard
           /\ UNCHANGED out
        \/ \E d \in Answers :
             /\ Data(Client, Good(m), "answer", acks)
             /\ Keep(Packet(SeqAfter(m), ack, d))
             /\ toClient' = toClient \cup {Packet(SeqAfter(m), ack, d)} \cup heard
             /\ out' = out \o d
  BY DEF SData
<1>4. \E did \in {"nothing", "begin", "next", "answer"} : Data(Client, Good(m), did, acks)
  BY <1>3
<1>5. TCPs[1].state = "ESTABLISHED" /\ TCPs'[1].state = "ESTABLISHED" /\ syns' = syns
  BY <1>2, <1>4, DataClock DEF StreamInv
<1>6. /\ t.time_since_sent = 0 => Len(rcv) = Len(out) /\ SeqAfter(m) = Len(out) + 1
      /\ t.time_since_sent # 0 => sendlength > 0 /\ SeqAfter(m) + sendlength = Len(out) + 1
      /\ SeqAfter(m) \in Nat
  BY <1>5, GoodIsAll
<1> HIDE DEF t, ack
<1>7. ack_num = Len(got) + 1 /\ Len(got) \in Nat /\ StreamTypes /\ Taken
  BY <1>5 DEF StreamInv, Clock, StreamTypes
<1>8. /\ got' \in Seq(Nat) /\ Len(got') = Len(got) + m.len
      /\ Len(got') <= asked /\ \A k \in 1..Len(got') : got'[k] = k
  <2> DEFINE b == [k \in 1..m.len |-> m.seq + k - 1]
  <2>1. b \in [1..m.len -> Nat] /\ m.seq \in Nat
    BY <1>1, <1>7
  <2>2. b \in Seq(Nat) /\ Len(b) = m.len
    <3> HIDE DEF b
    <3>1. m.len \in Nat
      BY <1>1
    <3> QED
      BY <2>1, <3>1
  <2>3. \A k \in 1..m.len : b[k] = Len(got) + k
    BY <1>1, <1>7
  <2>4. Len(got) + m.len <= asked
    BY <1>1, <1>7 DEF StreamTypes
  <2>5. got' = got \o b
    BY <1>1
  <2> HIDE DEF b
  <2> QED
    BY <1>7, <2>2, <2>3, <2>4, <2>5, TakenMore
<1>9. Taken' /\ ack_num' = Len(got') + 1
  <2>1. ack_num' = Len(got') + 1
    <3>1. ack_num' = ack_num + m.len /\ m.len \in Nat
      BY <1>1 DEF ack
    <3>2. Len(got') = Len(got) + m.len
      BY <1>8
    <3> QED
      BY <1>7, <3>1, <3>2
  <2>2. asked' = asked
    BY <1>1
  <2> QED
    BY <1>8, <2>1, <2>2 DEF Taken
<1>10. \A o : Part(empty, o)
  BY <1>6, EmptyPart
<1>11. empty.data = <<>>
  BY DEF Packet
<1> HIDE DEF empty
<1>12. CASE /\ \E did \in {"nothing", "begin", "next"} : Data(Client, Good(m), did, acks)
            /\ IF wire'.from = 1 THEN Keep(empty) ELSE UNCHANGED <<stored, sendlength>>
            /\ toClient' = toClient \cup heard
            /\ UNCHANGED out
  <2>1. /\ TCPs'[1].time_since_sent = t.time_since_sent
        /\ wire'.from = 1 => t.time_since_sent = 0
    BY <1>2, <1>12, DataClock DEF StreamInv, t
  <2>2. \/ stored' = empty /\ sendlength' = 0 /\ t.time_since_sent = 0
        \/ stored' = stored /\ sendlength' = sendlength
    BY <1>11, <1>12, <2>1 DEF Keep
  <2>3. Grows(out, out') /\ out' \in Seq(AnswerBytes)
    BY <1>12 DEF Grows, StreamInv, StreamTypes
  <2>4. (\A n \in toClient' : Part(n, out')) /\ Part(stored', out')
    BY <1>10, <1>12, <2>2, <2>3, NetworkKept
  <2>5. Clock'
    BY <1>1, <1>6, <1>9, <1>12, <2>1, <2>2 DEF Clock
  <2>6. sendlength' \in Nat
    BY <1>7, <2>2 DEF StreamTypes
  <2> QED
    BY <1>1, <1>5, <1>6, <1>7, <1>8, <1>9, <1>12, <2>3, <2>4, <2>5, <2>6, SMTT(30)
    DEF StreamInv, StreamTypes, Received, Unopened
<1>13. ASSUME NEW d \in Answers, Data(Client, Good(m), "answer", acks),
              Keep(Packet(SeqAfter(m), ack, d)), out' = out \o d,
              toClient' = toClient \cup {Packet(SeqAfter(m), ack, d)} \cup heard
       PROVE  StreamInv'
  <2>1. t.time_since_sent = 0 /\ TCPs'[1].time_since_sent = 1
    BY <1>2, <1>13, DataClock DEF StreamInv, t
  <2>2. Len(rcv) = Len(out) /\ SeqAfter(m) = Len(out) + 1 /\ Len(out) \in Nat
    BY <1>6, <1>7, <2>1 DEF StreamTypes
  <2>3. /\ Grows(out, out') /\ out' \in Seq(AnswerBytes) /\ Len(d) \in {1, 2}
        /\ Len(out') = Len(out) + Len(d) /\ Part(Packet(SeqAfter(m), ack, d), out')
    BY <1>7, <1>13, <2>2, NewAnswer
  <2>4. stored' = Packet(SeqAfter(m), ack, d) /\ sendlength' = Len(d)
    BY <1>13 DEF Keep, Packet
  <2>5. (\A n \in toClient' : Part(n, out')) /\ Part(stored', out')
    BY <1>10, <1>13, <2>3, <2>4, NetworkKept
  <2>6. Clock'
    BY <1>1, <1>9, <2>1, <2>2, <2>3, <2>4 DEF Clock
  <2>7. Received'
    BY <1>1, <2>3 DEF StreamInv, Received, Grows, StreamTypes
  <2>8. Unopened'
    BY <1>5 DEF StreamInv, Unopened
  <2>9. StreamTypes'
    <3>1. out' \in Seq(AnswerBytes) /\ got' \in Seq(Nat)
      BY <1>8, <2>3
    <3>2. rcv' \in Seq(AnswerBytes) /\ asked' \in 0..MaxRequest
      BY <1>1, <1>7 DEF StreamTypes
    <3>3. seq_num' \in Nat
      BY <1>1, <1>6
    <3>4. ack_num' \in Nat
      BY <1>1, <1>7 DEF ack
    <3>5. sendlength' \in Nat
      BY <2>3, <2>4
    <3> QED
      BY <3>1, <3>2, <3>3, <3>4, <3>5 DEF StreamTypes
  <2> QED
    BY <1>9, <2>5, <2>6, <2>7, <2>8, <2>9 DEF StreamInv
<1> QED
  BY <1>3, <1>12, <1>13

LEMMA KeepAliveStream ==
  ASSUME OneConnection, StreamInv, IInv', SKeepAlive
  PROVE  StreamInv'
<1>1. UNCHANGED <<TCPs, syns, seq_num, ack_num, sendlength, stored, toClient, out, got, asked, rcv>>
  BY DEF SKeepAlive, KeepAlive, streamVars, sockVars
<1> QED
  BY <1>1 DEF StreamInv, StreamTypes, Received, Taken, Clock, Unopened

LEMMA ClientSendsStream ==
  ASSUME OneConnection, StreamInv, IInv', ClientSends
  PROVE  StreamInv'
<1>1. /\ UNCHANGED <<TCPs, syns, seq_num, ack_num, sendlength, stored, toClient, out, got, rcv>>
      /\ asked' = asked + 1 /\ asked < MaxRequest
  BY DEF ClientSends, vars, sockVars
<1>2. asked \in Nat /\ asked' \in 0..MaxRequest /\ Len(got) \in Nat
  BY <1>1, OneSocket DEF StreamInv, StreamTypes
<1>3. Taken'
  BY <1>1, <1>2 DEF StreamInv, Taken
<1> QED
  BY <1>1, <1>2, <1>3 DEF StreamInv, StreamTypes, Received, Clock, Unopened

LEMMA Suffix ==
  ASSUME NEW S, NEW d \in Seq(S), NEW first \in 1..Len(d), NEW b, b = SubSeq(d, first, Len(d))
  PROVE  /\ b \in Seq(S) /\ Len(b) = Len(d) - first + 1
         /\ \A k \in 1..Len(d) - first + 1 : b[k] = d[first + k - 1]
<1> DEFINE n == Len(d)
<1>1. n \in Int /\ first \in Int /\ first <= n
  OBVIOUS
<1>2. \A k \in first..n : d[k] \in S
  BY ElementOfSeq
<1> HIDE DEF n
<1>3. /\ SubSeq(d, first, n) \in Seq(S)
      /\ Len(SubSeq(d, first, n)) = n - first + 1
      /\ \A k \in 1..n - first + 1 : SubSeq(d, first, n)[k] = d[first + k - 1]
  BY <1>1, <1>2, SubSeqProperties
<1> QED
  BY <1>3 DEF n

LEMMA Joined ==
  ASSUME NEW S, NEW s \in Seq(S), NEW b \in Seq(S), NEW r, r = s \o b
  PROVE  /\ r \in Seq(S) /\ Len(r) = Len(s) + Len(b)
         /\ \A k \in 1..Len(s) : r[k] = s[k]
         /\ \A k \in 1..Len(b) : r[Len(s) + k] = b[k]
<1>1. /\ r \in Seq(S) /\ Len(r) = Len(s) + Len(b)
      /\ \A k \in 1..Len(s) + Len(b) : r[k] = IF k <= Len(s) THEN s[k] ELSE b[k - Len(s)]
  BY ConcatProperties
<1>2. ASSUME NEW k \in 1..Len(b) PROVE r[Len(s) + k] = b[k]
  <2>1. Len(s) + k \in 1..Len(s) + Len(b) /\ ~(Len(s) + k <= Len(s)) /\ Len(s) + k - Len(s) = k
    OBVIOUS
  <2> QED
    BY <1>1, <2>1
<1> QED
  BY <1>1, <1>2

(* The client takes what follows from a packet that brings more.           *)
LEMMA ClientReceivesStream ==
  ASSUME OneConnection, StreamInv, IInv', ClientReceives
  PROVE  StreamInv' /\ Len(rcv) < Len(rcv')
<1>1. /\ UNCHANGED <<TCPs, syns, seq_num, ack_num, sendlength, stored, toClient, out, got, asked>>
  BY DEF ClientReceives, vars, sockVars
<1>2. PICK m \in toClient :
        /\ m.seq <= Len(rcv) + 1 /\ m.seq + Len(m.data) > Len(rcv) + 1
        /\ rcv' = rcv \o SubSeq(m.data, Len(rcv) + 2 - m.seq, Len(m.data))
  BY DEF ClientReceives
<1>3. StreamTypes /\ Received /\ Part(m, out)
  BY DEF StreamInv
<1>4. /\ rcv' \in Seq(AnswerBytes) /\ Len(rcv) < Len(rcv') /\ Len(rcv') <= Len(out)
      /\ \A k \in 1..Len(rcv') : rcv'[k] = out[k]
  <2> DEFINE first == Len(rcv) + 2 - m.seq
             b == SubSeq(m.data, first, Len(m.data))
  <2>1. /\ m.data \in Seq(AnswerBytes) /\ m.seq \in Nat /\ Len(rcv) \in Nat /\ Len(m.data) \in Nat
        /\ rcv \in Seq(AnswerBytes)
    BY <1>3 DEF Part, StreamTypes
  <2>2. first \in 1..Len(m.data) /\ first + m.seq = Len(rcv) + 2
    BY <1>2, <2>1, SMTT(30)
  <2>3. rcv' = rcv \o b
    BY <1>2
  <2>4. b = SubSeq(m.data, first, Len(m.data))
    OBVIOUS
  <2> HIDE DEF first, b
  <2>5. /\ b \in Seq(AnswerBytes) /\ Len(b) = Len(m.data) - first + 1
        /\ \A k \in 1..Len(m.data) - first + 1 : b[k] = m.data[first + k - 1]
    BY <2>1, <2>2, <2>4, Suffix, SMTT(30)
  <2>6. /\ rcv' \in Seq(AnswerBytes) /\ Len(rcv') = Len(rcv) + Len(b)
        /\ \A k \in 1..Len(rcv) : rcv'[k] = rcv[k]
        /\ \A k \in 1..Len(b) : rcv'[Len(rcv) + k] = b[k]
    BY <2>1, <2>3, <2>5, Joined
  <2> DEFINE l == Len(rcv)
             n == Len(m.data)
             w == Len(out)
             lb == Len(b)
  <2>7. l \in Nat /\ n \in Nat /\ w \in Nat /\ m.seq \in Nat /\ lb = n - first + 1
    BY <1>3, <2>1, <2>5 DEF StreamTypes
  <2>8. \A k \in 1..n : m.seq >= 1 /\ m.seq + k - 1 <= w /\ m.data[k] = out[m.seq + k - 1]
    BY <1>3 DEF Part
  <2>9. \A k \in 1..l : rcv[k] = out[k]
    BY <1>3 DEF Received
  <2>10. first \in 1..n /\ first + m.seq = l + 2 /\ lb \in Nat /\ lb >= 1
    BY <2>2, <2>7
  <2>11. /\ \A k \in 1..lb : b[k] = m.data[first + k - 1]
         /\ Len(rcv') = l + lb /\ \A k \in 1..l : rcv'[k] = rcv[k]
         /\ \A k \in 1..lb : rcv'[l + k] = b[k]
    BY <2>5, <2>6
  <2> HIDE DEF l, n, w, lb
  <2>12. ASSUME NEW k \in 1..lb PROVE l + k <= w /\ rcv'[l + k] = out[l + k]
    <3>1. first + k - 1 \in 1..n /\ m.seq + (first + k - 1) - 1 = l + k
      BY <2>7, <2>10
    <3>2. /\ m.seq + (first + k - 1) - 1 <= w
          /\ m.data[first + k - 1] = out[m.seq + (first + k - 1) - 1]
      BY <2>8, <3>1
    <3> QED
      BY <2>11, <3>1, <3>2
  <2>13. l < l + lb /\ l + lb <= w
    <3>1. lb \in 1..lb
      BY <2>10
    <3>2. \A k \in 1..lb : l + k <= w
      BY <2>12
    <3>3. l + lb <= w
      BY <3>1, <3>2
    <3> QED
      BY <2>7, <2>10, <3>3
  <2>14. ASSUME NEW k \in 1..l + lb PROVE rcv'[k] = out[k]
    <3>1. CASE k <= l
      <4>1. k \in 1..l
        BY <2>7, <2>10, <3>1
      <4> QED
        BY <2>9, <2>11, <4>1
    <3>2. CASE ~(k <= l)
      <4>1. k - l \in 1..lb /\ l + (k - l) = k
        BY <2>7, <2>10, <3>2
      <4> QED
        BY <2>12, <4>1
    <3> QED
      BY <2>7, <2>10, <3>1, <3>2
  <2> QED
    BY <2>6, <2>11, <2>13, <2>14 DEF l, w
<1>5. Len(rcv) \in Nat /\ Len(rcv') \in Nat /\ Len(out) \in Nat
  BY <1>3, <1>4 DEF StreamTypes
<1>6. Clock'
  BY <1>1, <1>4, <1>5 DEF StreamInv, Clock
<1>7. Received'
  BY <1>1, <1>4 DEF Received
<1> QED
  BY <1>1, <1>4, <1>6, <1>7 DEF StreamInv, StreamTypes, Taken, Unopened

LEMMA NextStream ==
  ASSUME OneConnection, ~AnswersUnasked, StreamInv, [SNext]_allVars
  PROVE  StreamInv'
<1>1. IInv'
  <2>1. IInv /\ [Next]_vars
    BY StepOfTable DEF StreamInv
  <2> QED
    BY <2>1, NextIInv
<1>2. CASE UNCHANGED allVars
  <2>1. UNCHANGED <<TCPs, syns, seq_num, ack_num, sendlength, stored, toClient, out, got, asked, rcv>>
    BY <1>2 DEF allVars, vars, streamVars, sockVars
  <2> QED
    BY <1>1, <2>1 DEF StreamInv, StreamTypes, Received, Taken, Clock, Unopened
<1>3. CASE SSyn
  BY <1>1, <1>3, SynStream
<1>4. CASE SServe
  BY <1>1, <1>4, ServeStream
<1>5. CASE SKeepAlive
  BY <1>1, <1>5, KeepAliveStream
<1>6. CASE STick
  BY <1>1, <1>6, TickStream
<1>7. CASE ClientSends
  BY <1>1, <1>7, ClientSendsStream
<1>8. CASE ClientReceives
  BY <1>1, <1>8, ClientReceivesStream
<1>9. ASSUME NEW m \in toServer, SNoData(m) PROVE StreamInv'
  BY <1>1, <1>9, NoDataStream
<1>10. ASSUME NEW m \in toServer, SData(m) PROVE StreamInv'
  BY <1>1, <1>10, DataStream
<1> QED
  BY <1>2, <1>3, <1>4, <1>5, <1>6, <1>7, <1>8, <1>9, <1>10 DEF SNext

LEMMA InitStream == OneConnection /\ SInit => StreamInv
<1> SUFFICES ASSUME OneConnection, SInit PROVE StreamInv
  OBVIOUS
<1>1. IInv /\ Socks = {1} /\ MaxRequest \in Nat
  BY InitIInv, OneSocket DEF SInit
<1>2. TCPs[1].state = "CLOSED"
  BY <1>1 DEF SInit, Init, Closed
<1>3. /\ out = <<>> /\ got = <<>> /\ rcv = <<>> /\ asked = 0 /\ toClient = {} /\ syns = 0
      /\ seq_num = 0 /\ ack_num = 0 /\ sendlength = 0 /\ stored = Packet(0, 0, <<>>)
  BY DEF SInit, Init, Packet
<1>4. StreamTypes /\ Len(<<>>) = 0
  BY <1>1, <1>3 DEF StreamTypes
<1>5. Part(stored, out)
  BY <1>3, EmptyPart
<1> QED
  BY <1>1, <1>2, <1>3, <1>4, <1>5 DEF StreamInv, Received, Taken, Clock, Unopened

(* For any number of requests and answers, ticks and retries, and for      *)
(* whatever the network does: et_TCPCanSend tells the truth, as long as    *)
(* nothing is written while a packet waits for its acknowledgement.        *)
THEOREM WhatItSays ==
  ASSUME OneConnection, ~AnswersUnasked
  PROVE  SSpec => []CanSendMeansReceived
<1>1. SInit => StreamInv
  BY InitStream
<1>2. StreamInv /\ [SNext]_allVars => StreamInv'
  BY NextStream
<1>3. StreamInv => CanSendMeansReceived
  <2> SUFFICES ASSUME StreamInv, TCPs[1].state = "ESTABLISHED", TCPs[1].time_since_sent = 0
               PROVE  rcv = out
    BY DEF CanSendMeansReceived
  <2>1. Len(rcv) = Len(out) /\ \A k \in 1..Len(rcv) : rcv[k] = out[k]
    BY DEF StreamInv, Clock, Received
  <2>2. rcv \in Seq(AnswerBytes) /\ out \in Seq(AnswerBytes)
    BY DEF StreamInv, StreamTypes
  <2> QED
    BY <2>1, <2>2, SeqEqual
<1> QED
  BY <1>1, <1>2, <1>3, PTL DEF SSpec

LEMMA PrefixOf ==
  ASSUME NEW S, NEW s \in Seq(S), NEW p \in Seq(S), Grows(s, p)
  PROVE  Len(s) <= Len(p) /\ SubSeq(s, 1, Len(s)) = SubSeq(p, 1, Len(s))
<1> DEFINE n == Len(s)
<1>1. n \in Nat /\ n <= Len(p) /\ 1 \in Int /\ n \in Int
  BY DEF Grows
<1>2. \A k \in 1..n : s[k] \in S /\ p[k] = s[k]
  BY ElementOfSeq DEF Grows
<1>3. \A k \in 1..n : p[k] \in S
  BY <1>2
<1> HIDE DEF n
<1>4. /\ SubSeq(s, 1, n) \in Seq(S) /\ Len(SubSeq(s, 1, n)) = IF 1 <= n THEN n - 1 + 1 ELSE 0
      /\ \A k \in 1..n - 1 + 1 : SubSeq(s, 1, n)[k] = s[1 + k - 1]
  BY <1>1, <1>2, SubSeqProperties
<1>5. /\ SubSeq(p, 1, n) \in Seq(S) /\ Len(SubSeq(p, 1, n)) = IF 1 <= n THEN n - 1 + 1 ELSE 0
      /\ \A k \in 1..n - 1 + 1 : SubSeq(p, 1, n)[k] = p[1 + k - 1]
  BY <1>1, <1>3, SubSeqProperties
<1>6. Len(SubSeq(s, 1, n)) = n /\ Len(SubSeq(p, 1, n)) = n
  BY <1>1, <1>4, <1>5
<1>7. \A k \in 1..n : SubSeq(s, 1, n)[k] = SubSeq(p, 1, n)[k]
  BY <1>1, <1>2, <1>4, <1>5
<1>8. SubSeq(s, 1, n) = SubSeq(p, 1, n)
  BY <1>4, <1>5, <1>6, <1>7, SeqEqual
<1> QED
  BY <1>1, <1>8 DEF n

(* The steps of the two streams.                                           *)
LEMMA OutSends ==
  ASSUME StreamInv, StreamInv', Grows(out, out'), Len(out) < Len(out'), rcv' = rcv
  PROVE  OutStream!Send
<1>1. out \in Seq(AnswerBytes) /\ out' \in Seq(AnswerBytes)
  BY DEF StreamInv, StreamTypes
<1>2. OutStream!IsStrictPrefix(out, out')
  <2>1. Len(out) <= Len(out') /\ SubSeq(out, 1, Len(out)) = SubSeq(out', 1, Len(out))
    BY <1>1, PrefixOf
  <2>2. out # out'
    BY <1>1
  <2> QED
    BY <2>1, <2>2 DEF OutStream!IsStrictPrefix, OutStream!IsPrefix
<1>3. \A k \in DOMAIN out' : out'[k] \in 1..MaxAnswers
  <2>1. DOMAIN out' = 1..Len(out')
    BY <1>1
  <2>2. \A k \in 1..Len(out') : out'[k] \in AnswerBytes
    BY <1>1, ElementOfSeq
  <2> QED
    BY <2>1, <2>2 DEF AnswerBytes
<1> QED
  BY <1>2, <1>3 DEF OutStream!Send

LEMMA OutGets ==
  ASSUME StreamInv, StreamInv', Len(rcv) < Len(rcv'), out' = out
  PROVE  OutStream!Get
<1>1. /\ rcv \in Seq(AnswerBytes) /\ rcv' \in Seq(AnswerBytes) /\ out \in Seq(AnswerBytes)
      /\ Len(rcv) \in Nat /\ Len(rcv') \in Nat
  BY DEF StreamInv, StreamTypes
<1>2. Grows(rcv', out)
  BY DEF StreamInv, Received, Grows
<1>3. Grows(rcv, rcv')
  BY <1>1 DEF StreamInv, Received, Grows
<1>4. /\ Len(rcv) <= Len(rcv') /\ SubSeq(rcv, 1, Len(rcv)) = SubSeq(rcv', 1, Len(rcv))
      /\ Len(rcv') <= Len(out) /\ SubSeq(rcv', 1, Len(rcv')) = SubSeq(out, 1, Len(rcv'))
  BY <1>1, <1>2, <1>3, PrefixOf
<1>5. rcv # rcv'
  BY <1>1
<1> QED
  BY <1>4, <1>5 DEF OutStream!Get, OutStream!IsStrictPrefix, OutStream!IsPrefix

LEMMA AnswerGrows ==
  ASSUME OneConnection, StreamInv, NEW d \in Answers, out' = out \o d
  PROVE  Grows(out, out') /\ Len(out) < Len(out')
<1> DEFINE n == Len(out) + 1
<1>1. StreamTypes /\ Len(out) \in Nat /\ n = Len(out) + 1
  BY DEF StreamInv, StreamTypes
<1> HIDE DEF n
<1>2. Grows(out, out') /\ Len(d) \in {1, 2} /\ Len(out') = Len(out) + Len(d)
  BY <1>1, NewAnswer
<1>3. Len(out') = Len(out) + 1 \/ Len(out') = Len(out) + 2
  BY <1>2
<1>4. Len(out) < Len(out')
  BY <1>1, <1>3
<1> QED
  BY <1>2, <1>4

LEMMA OutStep ==
  ASSUME OneConnection, ~AnswersUnasked, StreamInv, StreamInv', [SNext]_allVars
  PROVE  [OutStream!Send \/ OutStream!Get]_<<out, rcv>>
<1>1. CASE UNCHANGED <<out, rcv>>
  BY <1>1
<1>2. ASSUME NEW d \in Answers, out' = out \o d, rcv' = rcv PROVE OutStream!Send
  BY <1>2, AnswerGrows, OutSends
<1>3. CASE SServe
  BY <1>2, <1>3 DEF SServe
<1>4. CASE ClientReceives
  <2>1. IInv' /\ out' = out
    BY <1>4 DEF StreamInv, ClientReceives
  <2> QED
    BY <1>4, <2>1, ClientReceivesStream, OutGets
<1>5. ASSUME NEW m \in toServer, SData(m) PROVE UNCHANGED <<out, rcv>> \/ OutStream!Send
  <2>1. rcv' = rcv /\ (out' = out \/ \E d \in Answers : out' = out \o d)
    BY <1>5 DEF SData
  <2> QED
    BY <1>2, <2>1
<1>6. ASSUME NEW m \in toServer, SNoData(m) PROVE UNCHANGED <<out, rcv>>
  BY <1>6 DEF SNoData
<1>7. CASE SSyn \/ SKeepAlive \/ STick \/ ClientSends
  BY <1>1, <1>7 DEF SSyn, SKeepAlive, STick, ClientSends, streamVars
<1>8. CASE UNCHANGED allVars
  BY <1>1, <1>8 DEF allVars, streamVars
<1> QED
  BY <1>1, <1>3, <1>4, <1>5, <1>6, <1>7, <1>8 DEF SNext

Request(n) == [k \in 1..n |-> k]

LEMMA RequestSeq ==
  ASSUME NEW n \in Nat
  PROVE  Request(n) \in Seq(Nat) /\ Len(Request(n)) = n /\ \A k \in 1..n : Request(n)[k] = k
BY DEF Request

LEMMA InSends ==
  ASSUME OneConnection, StreamInv, StreamInv', asked' = asked + 1, got' = got
  PROVE  InStream!Send
<1>1. asked \in Nat /\ asked' \in Nat /\ asked' <= MaxRequest
  BY OneSocket DEF StreamInv, StreamTypes
<1>2. /\ Request(asked) \in Seq(Nat) /\ Len(Request(asked)) = asked
      /\ Request(asked') \in Seq(Nat) /\ Len(Request(asked')) = asked'
      /\ \A k \in 1..asked : Request(asked)[k] = k
      /\ \A k \in 1..asked' : Request(asked')[k] = k
  BY <1>1, RequestSeq
<1>3. Grows(Request(asked), Request(asked')) /\ Request(asked) # Request(asked')
  BY <1>1, <1>2 DEF Grows
<1>4. Len(Request(asked)) <= Len(Request(asked'))
      /\ SubSeq(Request(asked), 1, Len(Request(asked))) = SubSeq(Request(asked'), 1, Len(Request(asked)))
  BY <1>2, <1>3, PrefixOf
<1>5. InStream!IsStrictPrefix(Request(asked), Request(asked'))
  BY <1>3, <1>4 DEF InStream!IsStrictPrefix, InStream!IsPrefix
<1>6. \A k \in DOMAIN Request(asked') : Request(asked')[k] \in 1..MaxRequest
  <2>1. DOMAIN Request(asked') = 1..asked'
    BY <1>1 DEF Request
  <2>2. \A k \in 1..asked' : k \in 1..MaxRequest
    BY <1>1, OneSocket DEF StreamInv
  <2>3. \A k \in 1..asked' : Request(asked')[k] \in 1..MaxRequest
    BY <1>2, <2>2
  <2> QED
    BY <2>1, <2>3
<1> QED
  BY <1>5, <1>6 DEF InStream!Send, Request

LEMMA InGets ==
  ASSUME OneConnection, StreamInv, StreamInv', Len(got) < Len(got'), asked' = asked
  PROVE  InStream!Get
<1>1. /\ got \in Seq(Nat) /\ got' \in Seq(Nat) /\ asked \in Nat
      /\ Len(got) \in Nat /\ Len(got') \in Nat
  BY OneSocket DEF StreamInv, StreamTypes
<1>2. /\ Request(asked) \in Seq(Nat) /\ Len(Request(asked)) = asked
      /\ \A k \in 1..asked : Request(asked)[k] = k
  BY <1>1, RequestSeq
<1>3. /\ Len(got) <= asked /\ \A k \in 1..Len(got) : got[k] = k
      /\ Len(got') <= asked /\ \A k \in 1..Len(got') : got'[k] = k
  BY DEF StreamInv, Taken
<1>4. Grows(got', Request(asked)) /\ Grows(got, got')
  BY <1>1, <1>2, <1>3 DEF Grows
<1>5. /\ Len(got) <= Len(got') /\ SubSeq(got, 1, Len(got)) = SubSeq(got', 1, Len(got))
      /\ Len(got') <= Len(Request(asked))
      /\ SubSeq(got', 1, Len(got')) = SubSeq(Request(asked), 1, Len(got'))
  BY <1>1, <1>2, <1>4, PrefixOf
<1>6. got # got'
  BY <1>1
<1>7. InStream!IsStrictPrefix(got, got') /\ InStream!IsPrefix(got', Request(asked))
  BY <1>5, <1>6 DEF InStream!IsStrictPrefix, InStream!IsPrefix
<1> QED
  BY <1>7 DEF InStream!Get, Request

LEMMA InStep ==
  ASSUME OneConnection, ~AnswersUnasked, StreamInv, StreamInv', [SNext]_allVars
  PROVE  [InStream!Send \/ InStream!Get]_<<[k \in 1..asked |-> k], got>>
<1>1. CASE UNCHANGED <<asked, got>>
  BY <1>1
<1>2. CASE ClientSends
  BY <1>2, InSends DEF ClientSends
<1>3. ASSUME NEW m \in toServer, SData(m) PROVE InStream!Get
  <2>1. /\ m.len \in Nat /\ m.len > 0 /\ asked' = asked
        /\ ack_num' = ack_num + m.len
    BY <1>3 DEF SData, Wanted, toServer
  <2>2. PICK acks \in {"yes", "no"}, did \in {"nothing", "begin", "next", "answer"} :
          Data(Client, Good(m), did, acks)
    BY <1>3 DEF SData
  <2>3. TCPs[1].state = "ESTABLISHED" /\ TCPs'[1].state = "ESTABLISHED"
    <3>1. Good(m) \in BOOLEAN /\ IInv
      BY DEF Good, StreamInv
    <3> QED
      BY <2>2, <3>1, DataClock
  <2>4. ack_num = Len(got) + 1 /\ ack_num' = Len(got') + 1
    BY <2>3 DEF StreamInv, Clock
  <2>5. Len(got) \in Nat /\ Len(got') \in Nat
    BY DEF StreamInv, StreamTypes
  <2> QED
    BY <2>1, <2>4, <2>5, InGets
<1>4. ASSUME NEW m \in toServer, SNoData(m) PROVE UNCHANGED <<asked, got>>
  BY <1>4 DEF SNoData
<1>5. CASE SSyn \/ SServe \/ SKeepAlive \/ STick \/ ClientReceives
  BY <1>1, <1>5 DEF SSyn, SServe, SKeepAlive, STick, ClientReceives, streamVars
<1>6. CASE UNCHANGED allVars
  BY <1>1, <1>6 DEF allVars, streamVars
<1> QED
  BY <1>1, <1>2, <1>3, <1>4, <1>5, <1>6 DEF SNext

(* Both directions of the connection are byte streams: nothing is lost,    *)
(* repeated or out of order in what either side is given, whatever the     *)
(* network loses, repeats and reorders.                                    *)
THEOREM TwoStreams ==
  ASSUME OneConnection, ~AnswersUnasked
  PROVE  SSpec => ImplementsStreams
<1>1. SInit => StreamInv
  BY InitStream
<1>2. StreamInv /\ [SNext]_allVars => StreamInv'
  BY NextStream
<1>3. SInit => OutStream!Init /\ InStream!Init
  <2> SUFFICES ASSUME SInit PROVE OutStream!Init /\ InStream!Init
    OBVIOUS
  <2>1. out = <<>> /\ rcv = <<>> /\ got = <<>> /\ asked = 0
    BY DEF SInit
  <2>2. Request(0) = <<>>
    <3>1. Request(0) \in Seq(Nat) /\ Len(Request(0)) = 0
      BY RequestSeq
    <3> QED
      BY <3>1, EmptySeq
  <2> QED
    BY <2>1, <2>2 DEF OutStream!Init, InStream!Init, Request
<1>4. StreamInv /\ StreamInv' /\ [SNext]_allVars =>
        /\ [OutStream!Send \/ OutStream!Get]_<<out, rcv>>
        /\ [InStream!Send \/ InStream!Get]_<<[k \in 1..asked |-> k], got>>
  BY OutStep, InStep
<1> QED
  BY <1>1, <1>2, <1>3, <1>4, PTL DEF SSpec, ImplementsStreams, OutStream!Spec, InStream!Spec
=============================================================================
