------------------------------ MODULE TcpStream ------------------------------
(***************************************************************************)
(* One connection of the TCP server with its sequence numbers, from the    *)
(* SYN on: TcpSockets with the choices decided by etherhelp/tcp.c's tests. *)
(* The network may lose, repeat, delay and reorder segments: nothing ever  *)
(* leaves it, and nothing in it need be taken.  The client is any          *)
(* conforming one.  Bytes and sequence numbers are counted from the SYNs,  *)
(* which are number 0.                                                     *)
(***************************************************************************)
EXTENDS TcpSockets, SequencesExt

CONSTANTS
  Client,
  MaxRequest,   \* bound: bytes the client sends
  MaxAnswers    \* bound: packets of data the server writes

(* The model is of one connection and one client.                          *)
OneConnection ==
  /\ TCP_SOCKETS = 2 /\ HTTP_CONNECTIONS = 1 /\ WebPeers = {Client} /\ OtherPeers = {}
  /\ MaxSyns = 1 /\ WifiMax = 0 /\ MaxRequest \in Nat /\ MaxAnswers \in Nat

VARIABLES
  seq_num, ack_num,
  sendlength,           \* bytes of data in the packet stored at sendptr
  stored,               \* that packet
  toClient,             \* the network, towards the client
  out, got,             \* what the application wrote, and what it was given
  asked, rcv            \* bytes the client sent, and what it received

sockVars   == <<seq_num, ack_num, sendlength, stored>>
streamVars == <<sockVars, toClient, out, got, asked, rcv>>
allVars    == <<vars, streamVars>>

SInit ==
  /\ Init
  /\ seq_num = 0 /\ ack_num = 0 /\ sendlength = 0
  /\ stored = [seq |-> 0, ack |-> 0, data |-> <<>>]
  /\ toClient = {}
  /\ out = <<>> /\ got = <<>> /\ asked = 0 /\ rcv = <<>>

(* A packet made now: kept at sendptr, and sent.                           *)
Packet(seq, ack, data) == [seq |-> seq, ack |-> ack, data |-> data]
Keep(packet) == stored' = packet /\ sendlength' = Len(packet.data)

SSyn ==
  /\ Syn(Client) /\ TCPs'[1].state = "ESTABLISHED"
  /\ Keep(Packet(0, 1, <<>>))
  /\ seq_num' = 1 /\ ack_num' = 1
  /\ toClient' = toClient \cup {Packet(0, 1, <<>>)}
  /\ UNCHANGED <<out, got, asked, rcv>>

(* Only an acknowledgement of just what was sent last counts.              *)
nextseq  == seq_num + IF sendlength = 0 THEN 1 ELSE sendlength
(* Mutant: an older acknowledgement will do.                               *)
GoodOrOld(m) == m.ack <= nextseq
Good(m)  == m.ack = nextseq
SeqAfter(m)   == IF Good(m) THEN nextseq ELSE seq_num
(* Mutant: bytes may be missing before those that come.                    *)
WantedOrNewer(m) == m.len > 0 /\ m.seq >= ack_num
Wanted(m) == m.len > 0 /\ m.seq = ack_num

SNoData(m) ==
  /\ ~Wanted(m)
  /\ NoData(Client, Good(m))
  /\ seq_num' = SeqAfter(m)
  /\ UNCHANGED <<ack_num, sendlength, stored, toClient, out, got, asked, rcv>>

(* What the application writes next: one or two bytes marked with the      *)
(* number of the packet.                                                   *)
Answer  == IF out = <<>> THEN 1 ELSE Last(out) + 1
Answers == IF Answer > MaxAnswers THEN {} ELSE {<<Answer>>, <<Answer, Answer>>}

SData(m) ==
  LET ack == ack_num + m.len
      empty == Packet(SeqAfter(m), ack, <<>>)
      heard == IF wire' # Silent /\ wire'.mac = Client THEN {empty} ELSE {}
  IN  /\ Wanted(m)
      /\ seq_num' = SeqAfter(m) /\ ack_num' = ack
      /\ got' = got \o [k \in 1..m.len |-> m.seq + k - 1]
      /\ \E acks \in {"yes", "no"} :
           \/ /\ \E did \in {"nothing", "begin", "next"} : Data(Client, Good(m), did, acks)
              /\ IF wire'.from = 1 THEN Keep(empty) ELSE UNCHANGED <<stored, sendlength>>
              /\ toClient' = toClient \cup heard
              /\ UNCHANGED out
           \/ \E d \in Answers :
                /\ Data(Client, Good(m), "answer", acks)
                /\ Keep(Packet(SeqAfter(m), ack, d))
                /\ toClient' = toClient \cup {Packet(SeqAfter(m), ack, d)} \cup heard
                /\ out' = out \o d
      /\ UNCHANGED <<asked, rcv>>

SServe ==
  /\ Serve(1)
  /\ \E d \in Answers :
       /\ Keep(Packet(seq_num, ack_num, d))
       /\ toClient' = toClient \cup {Packet(seq_num, ack_num, d)}
       /\ out' = out \o d
  /\ UNCHANGED <<seq_num, ack_num, got, asked, rcv>>

SKeepAlive == KeepAlive(1) /\ UNCHANGED streamVars

STick ==
  /\ TickTCP
  /\ toClient' = IF Due(TCPs[1]) THEN toClient \cup {stored} ELSE toClient
  /\ UNCHANGED <<sockVars, out, got, asked, rcv>>
-----------------------------------------------------------------------------
(* The client, once it has seen the SYN|ACK, sends any bytes it has, new   *)
(* or again, with an acknowledgement of any part of what it received.  All *)
(* of it is in the network towards the server from then on.                *)
toServer ==
  {m \in [seq : 1..asked+1, len : 0..2, ack : 1..Len(rcv)+1] : m.seq + m.len <= asked + 1}

ClientSends ==
  /\ toClient # {} /\ asked < MaxRequest
  /\ asked' = asked + 1
  /\ UNCHANGED <<vars, sockVars, toClient, out, got, rcv>>

ClientReceives ==
  /\ \E m \in toClient :
       /\ m.seq <= Len(rcv) + 1 /\ m.seq + Len(m.data) > Len(rcv) + 1
       /\ rcv' = rcv \o SubSeq(m.data, Len(rcv) + 2 - m.seq, Len(m.data))
  /\ UNCHANGED <<vars, sockVars, toClient, out, got, asked>>

SNext ==
  \/ SSyn \/ SServe \/ SKeepAlive \/ STick \/ ClientSends \/ ClientReceives
  \/ toClient # {} /\ \E m \in toServer : SNoData(m) \/ SData(m)

SSpec == SInit /\ [][SNext]_allVars
-----------------------------------------------------------------------------
(* When nothing waits for an acknowledgement, the client has received all  *)
(* the application wrote: et_TCPCanSend tells the truth, whatever late or  *)
(* repeated acknowledgements came in.                                      *)
CanSendMeansReceived ==
  TCPs[1].state = "ESTABLISHED" /\ TCPs[1].time_since_sent = 0 => rcv = out

(* Both directions are byte streams.                                       *)
OutStream == INSTANCE ByteStream WITH Bytes <- 1..MaxAnswers, sent <- out, got <- rcv
InStream  == INSTANCE ByteStream WITH Bytes <- 1..MaxRequest,
                                      sent <- [k \in 1..asked |-> k], got <- got

ImplementsStreams == OutStream!Spec /\ InStream!Spec
=============================================================================
