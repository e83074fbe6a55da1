--------------------------- MODULE IpInput_proofs ---------------------------
(***************************************************************************)
(* Browsing and the input from Ethernet, for any peers, ports and hosts,   *)
(* any size of the table, any number of probes and any pauses: the table   *)
(* lists the peers, a search does not stall, the one probe that waits is   *)
(* the one not answered, and an answer goes to the host that asked.        *)
(***************************************************************************)
EXTENDS IpInput, TLAPS, WellFoundedInduction

Remotes == [ip : Ips \cup {NoIp}, port : Ports \cup {Port, NoIp}]

(* The probe that waits is the one that is not answered.                   *)
OwedIsWaiting == owed = [ip \in Ips |-> IF ip = BrowseRespond THEN 1 ELSE 0]

BInv == BTypeOK /\ OwedIsWaiting /\ ListsPeers /\ SearchGoesOn

IInv == TypeOK /\ BInv /\ AnswersSender
-----------------------------------------------------------------------------
LEMMA NoIpIsNone == NoIp \notin Ips
BY BrowseConstantsOK DEF Ips, NoIp, All

LEMMA MinOfSlots ==
  ASSUME NEW S \in SUBSET Slots, S # {}
  PROVE  Min(S) \in S
<1> DEFINE less == OpToRel(<, Nat)
<1>0. S \subseteq Nat
  BY BrowseConstantsOK DEF Slots
<1>1. \E x \in S : \A y \in S : <<y, x>> \notin less
  <2> HIDE DEF less
  <2>1. IsWellFoundedOn(less, Nat)
    BY NatLessThanWellFounded DEF less
  <2> QED
    BY <1>0, <2>1, WFMin
<1>2. \A x, y \in Nat : <<y, x>> \notin less => x =< y
  BY DEF OpToRel
<1>3. \E x \in S : \A y \in S : x =< y
  BY <1>0, <1>1, <1>2
<1> QED
  BY <1>3 DEF Min

(* The slot of a response is that of its ip, or an empty one; there is     *)
(* none only if the table is full of others.                               *)
LEMMA SlotEffect ==
  ASSUME NEW ip
  PROVE  \/ SlotOf(ip) = 0 /\ \A s \in Slots : FoundBrowseClients[s] \notin {ip, NoIp}
         \/ SlotOf(ip) \in Slots /\ FoundBrowseClients[SlotOf(ip)] = ip
         \/ /\ SlotOf(ip) \in Slots /\ FoundBrowseClients[SlotOf(ip)] = NoIp
            /\ \A s \in Slots : FoundBrowseClients[s] # ip
<1> DEFINE same  == {s \in Slots : FoundBrowseClients[s] = ip}
           empty == {s \in Slots : FoundBrowseClients[s] = NoIp}
<1>1. SlotOf(ip) = IF same # {} THEN Min(same) ELSE IF empty # {} THEN Min(empty) ELSE 0
  BY DEF SlotOf
<1>2. CASE same # {}
  <2>1. Min(same) \in same
    BY <1>2, MinOfSlots
  <2> QED
    BY <1>1, <1>2, <2>1
<1>3. CASE same = {} /\ empty # {}
  <2>1. Min(empty) \in empty
    BY <1>3, MinOfSlots
  <2> QED
    BY <1>1, <1>3, <2>1
<1>4. CASE same = {} /\ empty = {}
  BY <1>1, <1>4
<1> QED
  BY <1>2, <1>3, <1>4

(* A response is put where SlotEffect says.                                *)
LEMMA ResponseKeepsList ==
  ASSUME BTypeOK, ListsPeers, NEW from \in Remotes, BR(from)
  PROVE  FoundBrowseClients' \in [Slots -> Ips \cup {NoIp}] /\ ListsPeers'
<1> DEFINE F == FoundBrowseClients
           k == SlotOf(from.ip)
           used == {s \in Slots : F[s] # NoIp}
<1>0. F \in [Slots -> Ips \cup {NoIp}] /\ from.ip \in Ips \cup {NoIp} /\ 0 \notin Slots
  BY BrowseConstantsOK DEF BTypeOK, Remotes, Slots
<1>1. /\ F' = IF k = 0 THEN F ELSE [F EXCEPT ![k] = from.ip]
      /\ heard' = heard \cup ({from.ip} \ {NoIp})
  BY DEF BR
<1>2. /\ \A s, t \in used : F[s] = F[t] => s = t
      /\ {F[s] : s \in used} \subseteq heard
      /\ used = Slots \/ heard = {F[s] : s \in used}
  BY DEF ListsPeers
<1>6. ASSUME F' = F, used = Slots \/ heard' = heard PROVE ListsPeers'
  <2> DEFINE used2 == {s \in Slots : F'[s] # NoIp}
  <2>1. used2 = used /\ {F'[s] : s \in used2} = {F[s] : s \in used}
    BY <1>6
  <2>2. \A s, t \in used2 : F'[s] = F'[t] => s = t
    BY <1>2, <1>6, <2>1
  <2>3. {F'[s] : s \in used2} \subseteq heard'
    BY <1>1, <1>2, <2>1
  <2>4. used2 = Slots \/ heard' = {F'[s] : s \in used2}
    BY <1>2, <1>6, <2>1
  <2> QED
    BY <2>2, <2>3, <2>4 DEF ListsPeers
<1>3. CASE k = 0 /\ \A s \in Slots : F[s] \notin {from.ip, NoIp}
  <2>1. F' = F /\ used = Slots
    BY <1>1, <1>3
  <2> QED
    BY <1>0, <1>6, <2>1
<1>4. CASE k \in Slots /\ F[k] = from.ip
  <2>1. F' = F
    BY <1>0, <1>1, <1>4
  <2>2. from.ip # NoIp => from.ip \in {F[s] : s \in used}
    BY <1>4
  <2>3. used = Slots \/ heard' = heard
    BY <1>1, <1>2, <2>2
  <2> QED
    BY <1>0, <1>6, <2>1, <2>3
<1>5. CASE k \in Slots /\ F[k] = NoIp /\ \A s \in Slots : F[s] # from.ip
  <2> DEFINE used2 == {s \in Slots : F'[s] # NoIp}
  <2>1. from.ip # NoIp
    BY <1>5
  <2>2. F' = [F EXCEPT ![k] = from.ip] /\ heard' = heard \cup {from.ip}
    BY <1>0, <1>1, <1>5, <2>1
  <2>3. used2 = used \cup {k}
    BY <1>0, <1>5, <2>1, <2>2
  <2>4. \A s, t \in used2 : F'[s] = F'[t] => s = t
    BY <1>0, <1>2, <1>5, <2>2, <2>3
  <2>5. {F'[s] : s \in used2} = {F[s] : s \in used} \cup {from.ip}
    BY <1>0, <1>5, <2>2, <2>3
  <2>6. used2 = Slots \/ heard' = {F'[s] : s \in used2}
    BY <1>2, <2>2, <2>3, <2>5
  <2>7. {F'[s] : s \in used2} \subseteq heard'
    BY <1>2, <2>2, <2>5
  <2>8. F' \in [Slots -> Ips \cup {NoIp}]
    BY <1>0, <2>2
  <2> QED
    BY <2>4, <2>6, <2>7, <2>8 DEF ListsPeers
<1> QED
  BY <1>3, <1>4, <1>5, SlotEffect
-----------------------------------------------------------------------------
(* A command, whoever sent it.                                             *)
LEMMA CommandKeeps ==
  ASSUME BInv, NEW c \in Commands, NEW from \in Remotes, issue_command(c, from)
  PROVE  BInv'
<1> USE DEF BInv, BTypeOK, Remotes
<1>0. commands' \in 0..MaxCommands
  BY BrowseConstantsOK DEF issue_command
<1>1. CASE BQ(from)
  <2>1. remote' \in Remotes
    BY <1>1 DEF BQ, WhoAmI, Udp
  <2>2. BrowseRespond' = from.ip /\ BrowseRespondPort' = remote'.port
    BY <1>1 DEF BQ
  <2>3. owed' = [ip \in Ips |-> IF ip = from.ip THEN 1 ELSE 0]
    <3> DEFINE left == IF BrowseRespond # NoIp THEN Answered(owed) ELSE owed
    <3>1. left = [ip \in Ips |-> 0]
      BY NoIpIsNone DEF OwedIsWaiting, Answered
    <3>2. owed' = IF from.ip = NoIp THEN left ELSE [left EXCEPT ![from.ip] = @ + 1]
      BY <1>1 DEF BQ
    <3>3. CASE from.ip = NoIp
      BY <3>1, <3>2, <3>3, NoIpIsNone
    <3>4. CASE from.ip # NoIp
      BY <3>1, <3>2, <3>4
    <3> QED
      BY <3>3, <3>4
  <2>4. UNCHANGED <<FoundBrowseClients, search, heard>>
    BY <1>1 DEF BQ
  <2>5. BTypeOK'
    BY <1>0, <2>1, <2>2, <2>3, <2>4 DEF search
  <2>6. OwedIsWaiting'
    BY <2>2, <2>3 DEF OwedIsWaiting
  <2> QED
    BY <2>4, <2>5, <2>6 DEF ListsPeers, SearchGoesOn, search
<1>2. CASE BR(from)
  <2>1. FoundBrowseClients' \in [Slots -> Ips \cup {NoIp}] /\ ListsPeers'
    BY <1>2, ResponseKeepsList
  <2>2. heard' \subseteq Ips /\ remote' = from /\ UNCHANGED <<search, respond, owed>>
    BY <1>2 DEF BR
  <2> QED
    BY <1>0, <2>1, <2>2 DEF OwedIsWaiting, SearchGoesOn, search, respond
<1>3. CASE BS(from)
  <2>1. ListsPeers'
    BY <1>3 DEF BS, ListsPeers
  <2>2. BTypeOK'
    BY <1>0, <1>3, BrowseConstantsOK DEF BS, respond
  <2> QED
    BY <1>3, <2>1, <2>2 DEF BS, OwedIsWaiting, SearchGoesOn, respond
<1>4. CASE Other(from)
  BY <1>0, <1>4 DEF Other, OwedIsWaiting, ListsPeers, SearchGoesOn, search, respond
<1> QED
  BY <1>1, <1>2, <1>3, <1>4 DEF issue_command, Commands

(* The slow tick.                                                          *)
LEMMA TickKeeps == BInv /\ Tick => BInv'
<1> SUFFICES ASSUME BInv, NEW pause \in Pauses, SlowTick(pause) PROVE BInv'
  BY DEF Tick
<1> USE DEF BInv, BTypeOK
<1>1. pause \in Nat /\ pause > 0
  BY BrowseConstantsOK
<1>2. owed' = [ip \in Ips |-> 0] /\ BrowseRespond' = NoIp
  BY NoIpIsNone DEF SlowTick, OwedIsWaiting, Answered
<1>3. BrowseRequestTimeout' \in Nat /\ BrowseSearchCount' \in 0..BROWSE_SEARCHES
  BY <1>1, BrowseConstantsOK DEF SlowTick
<1>4. SearchGoesOn'
  BY <1>1, BrowseConstantsOK DEF SlowTick, SearchGoesOn
<1>5. remote' \in Remotes
  BY DEF SlowTick, Remotes, Udp, WhoAmI, Ips
<1>6. BTypeOK'
  BY <1>2, <1>3, <1>5 DEF SlowTick, Remotes
<1>7. OwedIsWaiting'
  BY <1>2, NoIpIsNone DEF OwedIsWaiting
<1>8. ListsPeers'
  BY DEF SlowTick, ListsPeers
<1> QED
  BY <1>4, <1>6, <1>7, <1>8

LEMMA WifiKeeps == BInv /\ Wifi => BInv'
<1> SUFFICES ASSUME BInv, NEW ip \in Peers, NEW port \in Ports, NEW c \in Commands,
                    issue_command(c, Udp(ip, port))
             PROVE  BInv'
  BY DEF Wifi, issue_command_udp
<1>1. Udp(ip, port) \in Remotes
  BY DEF Udp, Remotes, Ips
<1> QED
  BY <1>1, CommandKeeps
-----------------------------------------------------------------------------
(* A frame that passes the test of its octets is for this host.            *)
LEMMA ForMeExcludes == ~ForMe("else") /\ ~ForMe("ones")
BY DEF ForMe, Octets, Targets, MaskedOut

(* A frame leaves browsing alone, or is a command.                         *)
LEMMA FrameKeepsBrowse ==
  ASSUME BInv, NEW f \in Frames, et_receivecallback(f)
  PROVE  BInv'
<1>1. UNCHANGED bvars => BInv'
  BY DEF bvars, search, respond, BInv, BTypeOK, OwedIsWaiting, ListsPeers, SearchGoesOn
<1>2. UNCHANGED bvars \/ (HandleUDP(f) /\ f.kind = "UDP")
  BY DEF et_receivecallback, HandleArp, HandleICMP, HandleTCP
<1>3. CASE HandleUDP(f) /\ f.kind = "UDP"
  <2>1. f.op \in Commands
    BY <1>3 DEF Frames
  <2>2. remote \in Remotes
    BY DEF BInv, BTypeOK, Remotes
  <2> QED
    BY <1>1, <1>3, <2>1, <2>2, CommandKeeps DEF HandleUDP
<1> QED
  BY <1>1, <1>2, <1>3

(* What the frame leaves in the globals.                                   *)
LEMMA FrameTypes ==
  ASSUME TypeOK, NEW f \in Frames, et_receivecallback(f)
  PROVE  /\ macfrom' \in Hosts \cup {NoIp} /\ ipsource' \in Hosts \cup {NoIp}
         /\ remoteport' \in EthPorts \cup {NoIp} /\ localport' \in {Port, TCPPort, "other", NoIp}
<1>1. f.host \in Hosts
  BY DEF Frames
<1>2. HasPorts(f) => f.sport \in EthPorts /\ f.dport \in {Port, TCPPort, "other"}
  BY DEF Frames, HasPorts
<1> QED
  BY <1>1, <1>2 DEF TypeOK, et_receivecallback, TakeSource, TakePorts, HasPorts

(* The answer to a frame.                                                  *)
LEMMA FrameAnswered ==
  ASSUME NEW f \in Frames, et_receivecallback(f)
  PROVE  got' \in Frames \cup {Silence} /\ AnswersSender'
<1>1. CASE NoSend
  BY <1>1 DEF NoSend, AnswersSender
<1>2. CASE f.kind = "ARP" /\ ~NoSend
  <2>1. got' = f /\ reply' = [mac |-> macfrom', ip |-> f.host, sport |-> NoIp, dport |-> NoIp] /\ f.to = "MyIP"
    BY <1>2 DEF et_receivecallback, HandleArp, Send
  <2>2. macfrom' = f.host
    BY <1>2 DEF et_receivecallback
  <2> QED
    BY <1>2, <2>1, <2>2 DEF AnswersSender, HasPorts
<1>3. CASE f.kind = "ICMP" /\ ~NoSend
  <2>1. got' = f /\ reply' = [mac |-> macfrom', ip |-> ipsource', sport |-> NoIp, dport |-> NoIp] /\ ForMe(f.to)
    BY <1>3 DEF et_receivecallback, HandleICMP, Send
  <2>2. macfrom' = f.host /\ ipsource' = f.host
    BY <1>3 DEF et_receivecallback, TakeSource, IsIP
  <2> QED
    BY <1>3, <2>1, <2>2, ForMeExcludes DEF AnswersSender, HasPorts
<1>4. CASE f.kind \in {"UDP", "TCP"} /\ ~NoSend
  <2>1. got' = f /\ reply' = [mac |-> macfrom', ip |-> ipsource', sport |-> localport', dport |-> remoteport'] /\ ForMe(f.to)
    BY <1>4 DEF et_receivecallback, HandleUDP, HandleTCP, Send
  <2>2. macfrom' = f.host /\ ipsource' = f.host
    BY <1>4 DEF et_receivecallback, TakeSource, IsIP
  <2>3. remoteport' = f.sport /\ localport' = f.dport
    BY <1>4, <2>1 DEF et_receivecallback, TakePorts
  <2> QED
    BY <1>4, <2>1, <2>2, <2>3, ForMeExcludes DEF AnswersSender
<1>5. f.kind \in {"ARP", "ICMP", "UDP", "TCP"} \/ NoSend
  BY DEF et_receivecallback
<1> QED
  BY <1>1, <1>2, <1>3, <1>4, <1>5

LEMMA InitIInv == Init => IInv
<1> SUFFICES ASSUME Init PROVE IInv
  OBVIOUS
<1>1. BTypeOK
  BY BrowseConstantsOK DEF Init, BInit, BTypeOK, Nothing, Udp
<1>2. OwedIsWaiting
  BY NoIpIsNone DEF Init, BInit, OwedIsWaiting
<1>3. ListsPeers /\ SearchGoesOn
  BY DEF Init, BInit, ListsPeers, SearchGoesOn
<1>4. TypeOK /\ AnswersSender
  BY <1>1 DEF Init, TypeOK, AnswersSender
<1> QED
  BY <1>1, <1>2, <1>3, <1>4 DEF IInv, BInv

LEMMA NextKeeps == IInv /\ [Next]_vars => IInv'
<1> SUFFICES ASSUME IInv, [Next]_vars PROVE IInv'
  OBVIOUS
<1>1. CASE UNCHANGED vars
  BY <1>1 DEF vars, evars, bvars, search, respond, IInv, TypeOK, BInv, BTypeOK, OwedIsWaiting, ListsPeers,
              SearchGoesOn, AnswersSender, HasPorts
<1>2. ASSUME NEW f \in Frames, et_receivecallback(f) PROVE IInv'
  <2>1. BInv'
    BY <1>2, FrameKeepsBrowse DEF IInv
  <2> QED
    BY <1>2, <2>1, FrameTypes, FrameAnswered DEF IInv, TypeOK, BInv
<1>3. CASE (Wifi \/ Tick) /\ Quiet
  <2>1. BInv'
    BY <1>3, WifiKeeps, TickKeeps DEF IInv
  <2> QED
    BY <1>3, <2>1 DEF IInv, TypeOK, BInv, Quiet, NoSend, AnswersSender
<1> QED
  BY <1>1, <1>2, <1>3 DEF Next
-----------------------------------------------------------------------------
(* The inductive invariant of browsing and the input from Ethernet.        *)
THEOREM InputInvariant == Spec => []IInv
BY InitIInv, NextKeeps, PTL DEF Spec

(* Every variable has its type.                                            *)
THEOREM InputTypes == Spec => []TypeOK
<1>1. IInv => TypeOK
  BY DEF IInv
<1> QED
  BY <1>1, InputInvariant, PTL

(* The table lists the peers that were heard, each once.                   *)
THEOREM PeersListed == Spec => []ListsPeers
<1>1. IInv => ListsPeers
  BY DEF IInv, BInv
<1> QED
  BY <1>1, InputInvariant, PTL

(* A search that has probes to send is on the clock.                       *)
THEOREM SearchNeverStalls == Spec => []SearchGoesOn
<1>1. IInv => SearchGoesOn
  BY DEF IInv, BInv
<1> QED
  BY <1>1, InputInvariant, PTL

(* An answer goes to the host that sent the frame.                         *)
THEOREM SenderAnswered == Spec => []AnswersSender
<1>1. IInv => AnswersSender
  BY DEF IInv
<1> QED
  BY <1>1, InputInvariant, PTL

(* At most one probe is not answered: the one that waits for the tick.     *)
THEOREM OneProbeWaits == Spec => []OwedIsWaiting
<1>1. IInv => OwedIsWaiting
  BY DEF IInv, BInv
<1> QED
  BY <1>1, InputInvariant, PTL
=============================================================================
