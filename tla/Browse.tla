------------------------------- MODULE Browse -------------------------------
(***************************************************************************)
(* How devices find each other (common/commonservices.c): a probe (BQ) is  *)
(* answered at the next slow tick, responses (BR) fill a table, a search   *)
(* (BS) sends a few probes of its own.  All of it goes through one UDP     *)
(* espconn, pUdpServer, whose remote address is the peer of the datagram   *)
(* being handled, the peer of the next one to be sent, and, for a command  *)
(* that did not come by Wi-Fi, whatever it was last.                       *)
(*                                                                         *)
(* Commands are handled one at a time, and never during a tick.            *)
(***************************************************************************)
EXTENDS Integers, FiniteSetsExt

CONSTANTS
  Peers,                      \* addresses on Wi-Fi
  Ports,                      \* the ports they ask from
  BROWSE_CLIENTS_LIST_SIZE,
  BROWSE_SEARCHES,            \* probes in a search
  Pauses,                     \* ticks between them, (rand()%20)+30
  MaxCommands                 \* bound: commands in a behaviour

NoIp == "0"
All  == "255.255.255.255"
Port == "7878"
Ips  == Peers \cup {All}
Slots == 1..BROWSE_CLIENTS_LIST_SIZE

ASSUME BrowseConstantsOK ==
  /\ BROWSE_CLIENTS_LIST_SIZE \in Nat /\ BROWSE_SEARCHES \in Nat /\ MaxCommands \in Nat
  /\ Pauses # {} /\ Pauses \subseteq Nat \ {0}
  /\ NoIp \notin Peers /\ All \notin Peers

VARIABLES
  FoundBrowseClients,         \* of every slot: the ip in it
  BrowseRequestTimeout, BrowseSearchCount,
  BrowseRespond, BrowseRespondPort,
  remote,                     \* pUdpServer->proto.udp->remote_ip and remote_port
  commands,                   \* commands so far
  heard,                      \* history: peers taken for the sender of a response since the last BS
  owed                        \* history: probes of an ip that are not answered

respond == <<BrowseRespond, BrowseRespondPort>>
search  == <<BrowseRequestTimeout, BrowseSearchCount>>
bvars   == <<FoundBrowseClients, search, respond, remote, commands, heard, owed>>

Udp(ip, port) == [ip |-> ip, port |-> port]
Nothing == Udp(NoIp, NoIp)

BInit ==
  /\ FoundBrowseClients = [s \in Slots |-> NoIp]
  /\ BrowseRequestTimeout = 0 /\ BrowseSearchCount = 0
  /\ BrowseRespond = NoIp /\ BrowseRespondPort = NoIp
  /\ remote = Nothing /\ commands = 0
  /\ heard = {} /\ owed = [ip \in Ips |-> 0]
-----------------------------------------------------------------------------
(* EmitWhoAmINow: what it sends, and to whom.                              *)
WhoAmI == Udp(BrowseRespond, BrowseRespondPort)
Answered(o) == [o EXCEPT ![BrowseRespond] = @ - 1]

(* A probe for this service or this device, or for anybody.  One that      *)
(* waits is answered first; that leaves its port in remote_port, which is  *)
(* then read for the port of the new one.  `from` is pUdpServer's remote   *)
(* address when the command is issued.  Mutants: the one that waits is     *)
(* forgotten; or is kept, and the new one forgotten.                       *)
BQForgets(from) ==
  /\ BrowseRespond' = from.ip /\ BrowseRespondPort' = from.port
  /\ remote' = from
  /\ owed' = IF from.ip = NoIp THEN owed ELSE [owed EXCEPT ![from.ip] = @ + 1]
  /\ UNCHANGED <<FoundBrowseClients, search, heard>>
BQ(from) ==
  LET pending == BrowseRespond # NoIp
      left == IF pending THEN Answered(owed) ELSE owed
  IN  /\ remote' = IF pending THEN WhoAmI ELSE from
      /\ BrowseRespond' = from.ip
      /\ BrowseRespondPort' = remote'.port
      /\ owed' = IF from.ip = NoIp THEN left ELSE [left EXCEPT ![from.ip] = @ + 1]
      /\ UNCHANGED <<FoundBrowseClients, search, heard>>

(* The slot of a response: the one with its ip, else the first empty one.  *)
(* Mutant: it is not looked for.                                           *)
SlotOfNew(ip) ==
  LET empty == {s \in Slots : FoundBrowseClients[s] = NoIp} IN IF empty # {} THEN Min(empty) ELSE 0
SlotOf(ip) ==
  LET same  == {s \in Slots : FoundBrowseClients[s] = ip}
      empty == {s \in Slots : FoundBrowseClients[s] = NoIp}
  IN  IF same # {} THEN Min(same) ELSE IF empty # {} THEN Min(empty) ELSE 0

BR(from) ==
  /\ FoundBrowseClients' =
       IF SlotOf(from.ip) = 0 THEN FoundBrowseClients ELSE [FoundBrowseClients EXCEPT ![SlotOf(from.ip)] = from.ip]
  /\ heard' = heard \cup ({from.ip} \ {NoIp})
  /\ remote' = from
  /\ UNCHANGED <<search, respond, owed>>

(* BrowseForService.                                                       *)
BS(from) ==
  /\ FoundBrowseClients' = [s \in Slots |-> NoIp]
  /\ BrowseRequestTimeout' = 1 /\ BrowseSearchCount' = BROWSE_SEARCHES
  /\ heard' = {} /\ remote' = from
  /\ UNCHANGED <<respond, owed>>

(* A command that leaves all this alone: a probe for others, a response    *)
(* with a part missing, BL, which has an answer, those of System.          *)
Other(from) == remote' = from /\ UNCHANGED <<FoundBrowseClients, search, respond, heard, owed>>

(* What has an answer: BS and the others, not BQ and BR.                   *)
Commands == {"BQ", "BR", "BS", "other"}
Answers(c) == c \in {"BS", "other"}

issue_command(c, from) ==
  /\ commands < MaxCommands /\ commands' = commands + 1
  /\ CASE c = "BQ" -> BQ(from) [] c = "BR" -> BR(from) [] c = "BS" -> BS(from)
       [] OTHER -> Other(from)

(* A datagram on Wi-Fi: the SDK sets the remote address of the espconn to  *)
(* its sender.  issue_command_udp answers by the sender's address.         *)
issue_command_udp(from, c) == issue_command(c, from)

(* The slow tick.  The pause is drawn when a probe is sent.  Mutant: the   *)
(* probes are not counted.                                                 *)
SlowTickForever(pause) ==
  LET asks == BrowseRequestTimeout = 1 /\ BrowseSearchCount > 0
  IN  /\ BrowseRequestTimeout' = IF asks THEN pause ELSE IF BrowseRequestTimeout = 0 THEN 0 ELSE BrowseRequestTimeout - 1
      /\ BrowseRespond' = NoIp
      /\ UNCHANGED <<FoundBrowseClients, BrowseSearchCount, BrowseRespondPort, remote, commands, heard, owed>>
SlowTick(pause) ==
  LET responds == BrowseRespond # NoIp
      asks == BrowseRequestTimeout = 1 /\ BrowseSearchCount > 0
  IN  /\ owed' = IF responds THEN Answered(owed) ELSE owed
      /\ BrowseRespond' = NoIp
      /\ BrowseRequestTimeout' = IF asks THEN pause ELSE IF BrowseRequestTimeout = 0 THEN 0 ELSE BrowseRequestTimeout - 1
      /\ BrowseSearchCount' = IF asks THEN BrowseSearchCount - 1 ELSE BrowseSearchCount
      /\ remote' = IF asks THEN Udp(All, Port) ELSE IF responds THEN WhoAmI ELSE remote
      /\ UNCHANGED <<FoundBrowseClients, BrowseRespondPort, commands, heard>>

Tick == \E pause \in Pauses : SlowTick(pause)
Wifi == \E ip \in Peers, port \in Ports, c \in Commands : issue_command_udp(Udp(ip, port), c)
-----------------------------------------------------------------------------
(* Every variable of browsing has its type.                                *)
BTypeOK ==
  /\ FoundBrowseClients \in [Slots -> Ips \cup {NoIp}]
  /\ BrowseRequestTimeout \in Nat /\ BrowseSearchCount \in 0..BROWSE_SEARCHES
  /\ BrowseRespond \in Ips \cup {NoIp} /\ BrowseRespondPort \in Ports \cup {Port, NoIp}
  /\ remote \in [ip : Ips \cup {NoIp}, port : Ports \cup {Port, NoIp}]
  /\ commands \in 0..MaxCommands /\ heard \subseteq Ips /\ owed \in [Ips -> Nat]

(* The table has every peer that was heard once, and nobody else, unless   *)
(* it is full: then it has as many as it holds.                            *)
ListsPeers ==
  LET used == {s \in Slots : FoundBrowseClients[s] # NoIp}
  IN  /\ \A s, t \in used : FoundBrowseClients[s] = FoundBrowseClients[t] => s = t
      /\ {FoundBrowseClients[s] : s \in used} \subseteq heard
      /\ used = Slots \/ heard = {FoundBrowseClients[s] : s \in used}

(* A search that has probes to send is on the clock: it never stalls.      *)
SearchGoesOn == BrowseSearchCount > 0 => BrowseRequestTimeout > 0

(* Every probe is answered, to the ip it was taken to be from, also those  *)
(* that come while another waits.                                          *)
ProbesAnswered == \A ip \in Ips : owed[ip] > 0 ~> owed[ip] = 0

(* A search comes to its end with all its probes sent, though a command    *)
(* restarts it at any tick: it neither stalls nor goes on for ever.        *)
SearchEnds ==
  BrowseSearchCount > 0 \/ BrowseRequestTimeout > 0
    ~> BrowseSearchCount = 0 /\ BrowseRequestTimeout = 0
=============================================================================
