------------------------------ MODULE IpInput ------------------------------
(***************************************************************************)
(* What happens to an Ethernet frame (etherhelp/iparpetc.c): ARP and ping  *)
(* are answered, UDP is a command (user/user_main.c, HandleUDP), TCP goes  *)
(* to the sockets (TcpSockets).  The handlers leave what they read in      *)
(* globals, macfrom, ipsource, remoteport and localport, and an answer is  *)
(* addressed by them.                                                      *)
(***************************************************************************)
EXTENDS Browse

CONSTANTS
  Hosts,      \* on Ethernet: each has a MAC and an IP of that name
  EthPorts    \* of Hosts

(* Where an IP packet may be addressed.  MyMask is 255.0.0.0: "net" is     *)
(* 10.255.255.255, "mixed" has some octets of MyIP and others all ones,    *)
(* "ones" is 255.255.255.255.                                              *)
Targets == {"MyIP", "net", "mixed", "ones", "else"}
(* Of every target, what each of its four octets is.                       *)
Octets == [t \in Targets |->
  CASE t = "MyIP"  -> <<"mine", "mine", "mine", "mine">>
    [] t = "net"   -> <<"mine", "ones", "ones", "ones">>
    [] t = "mixed" -> <<"mine", "mine", "ones", "mine">>
    [] t = "ones"  -> <<"ones", "ones", "ones", "ones">>
    [] t = "else"  -> <<"mine", "mine", "mine", "other">>]
MaskedOut == <<FALSE, TRUE, TRUE, TRUE>>    \* the octets that are 0 in MyMask

VARIABLES
  macfrom, ipsource, remoteport, localport, \* of the last frame that had one
  got,          \* history: the frame the last step handled, if it was answered
  reply         \* history: what it sent, and to TCP what it handed on

evars == <<macfrom, ipsource, remoteport, localport, got, reply>>
vars  == <<bvars, evars>>

Silence == [kind |-> "none"]
TCPPort == "80"

Init ==
  /\ BInit
  /\ macfrom = NoIp /\ ipsource = NoIp /\ remoteport = NoIp /\ localport = NoIp
  /\ got = Silence /\ reply = Silence

(* Frames: the host that sent it, what it is, and the fields its handler   *)
(* reads.  An ARP for `to`; an echo request has an id and a payload, here  *)
(* one value; "other" ICMP is not a request.                               *)
Frames ==
  [kind : {"runt", "not_IP", "IP_options"}, host : Hosts]
  \cup [kind : {"ARP"}, host : Hosts, op : {"request", "reply"}, to : {"MyIP", "else"}]
  \cup [kind : {"ICMP"}, host : Hosts, op : {"request", "reply"}, to : Targets]
  \cup [kind : {"UDP"}, host : Hosts, to : Targets, sport : EthPorts, dport : {Port, "other"}, op : Commands]
  \cup [kind : {"TCP"}, host : Hosts, to : Targets, sport : EthPorts, dport : {TCPPort}]

IsIP(f) == f.kind \in {"ICMP", "UDP", "TCP"}
HasPorts(f) == f.kind \in {"UDP", "TCP"}
-----------------------------------------------------------------------------
(* Every octet is mine, or all ones where the mask is not.  Mutants: the   *)
(* test is of the last octet only; or there is none.                       *)
ForMeLast(to) == Octets[to][4] \in {"mine", "ones"}
ForMe(to) == \A i \in 1..4 : Octets[to][i] = "mine" \/ (MaskedOut[i] /\ Octets[to][i] = "ones")

(* An answer, from the scratch: send_etherlink_header takes macfrom.       *)
Send(f, ip, sport, dport) ==
  got' = f /\ reply' = [mac |-> macfrom', ip |-> ip, sport |-> sport, dport |-> dport]
NoSend == got' = Silence /\ reply' = Silence

(* The frame's ARP fields say who asked, not its header.                   *)
HandleArp(f) ==
  /\ IF f.op = "request" /\ f.to = "MyIP" THEN Send(f, f.host, NoIp, NoIp) ELSE NoSend
  /\ UNCHANGED bvars

HandleICMP(f) ==
  /\ IF f.op = "request" THEN Send(f, ipsource', NoIp, NoIp) ELSE NoSend
  /\ UNCHANGED bvars

(* A command by Ethernet is issued with the Wi-Fi address of before.       *)
HandleUDP(f) ==
  IF localport' # Port THEN NoSend /\ UNCHANGED bvars
  ELSE /\ issue_command(f.op, remote)
       /\ IF Answers(f.op)
          THEN Send(f, ipsource', localport', remoteport')
          ELSE NoSend

HandleTCP(f) == Send(f, ipsource', localport', remoteport') /\ UNCHANGED bvars

(* et_receivecallback.  The ports of a UDP packet are taken also when it   *)
(* is not for this host, those of a TCP segment are not.                   *)
TakePorts(f) ==
  IF f.kind = "UDP" \/ (f.kind = "TCP" /\ ForMe(f.to))
  THEN remoteport' = f.sport /\ localport' = f.dport
  ELSE UNCHANGED <<remoteport, localport>>

TakeSource(f) == IF IsIP(f) THEN ipsource' = f.host ELSE UNCHANGED ipsource

et_receivecallback(f) ==
  /\ macfrom' = IF f.kind = "runt" THEN macfrom ELSE f.host
  /\ TakeSource(f) /\ TakePorts(f)
  /\ CASE f.kind = "ARP" -> HandleArp(f)
       [] f.kind = "ICMP" /\ ForMe(f.to) -> HandleICMP(f)
       [] f.kind = "UDP" /\ ForMe(f.to) -> HandleUDP(f)
       [] f.kind = "TCP" /\ ForMe(f.to) -> HandleTCP(f)
       [] OTHER -> NoSend /\ UNCHANGED bvars

(* Nothing of Ethernet changes by Wi-Fi or the tick.                       *)
Quiet == NoSend /\ UNCHANGED <<macfrom, ipsource, remoteport, localport>>

Next ==
  \/ \E f \in Frames : et_receivecallback(f)
  \/ Wifi /\ Quiet
  \/ Tick /\ Quiet

Spec == Init /\ [][Next]_vars

(* The tick goes on.                                                       *)
FairSpec == Spec /\ WF_vars(Tick /\ Quiet)
-----------------------------------------------------------------------------
(* Every variable of the input has its type.                               *)
TypeOK ==
  /\ BTypeOK
  /\ macfrom \in Hosts \cup {NoIp} /\ ipsource \in Hosts \cup {NoIp}
  /\ remoteport \in EthPorts \cup {NoIp} /\ localport \in {Port, TCPPort, "other", NoIp}
  /\ got \in Frames \cup {Silence}

(* What is sent for a frame goes back to the host that sent it, with its   *)
(* ports exchanged, and only for a frame that is for this host: whatever   *)
(* frames of others came before, and left their sender in the globals.     *)
AnswersSender ==
  reply # Silence =>
    /\ reply.mac = got.host /\ reply.ip = got.host
    /\ HasPorts(got) => reply.sport = got.dport /\ reply.dport = got.sport
    /\ got.to \notin {"else", "ones"}
=============================================================================
