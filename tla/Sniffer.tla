------------------------------ MODULE Sniffer ------------------------------
(***************************************************************************)
(* The packet sniffer (pRemoteSniffer/custom_commands.c): what the radio   *)
(* hears becomes records of a pcap stream, collected in sendbuffer and     *)
(* written to the one TCP connection that captures, gHandlingTCP, when     *)
(* its last packet is acknowledged.  Of TCP (etherhelp/tcp.c) the model    *)
(* has the state of each socket and whether a packet is outstanding, see   *)
(* TcpSockets for the whole of it; what is acknowledged arrived, see       *)
(* TcpStream.  Nothing here is preempted.                                  *)
(***************************************************************************)
EXTENDS Integers, SequencesExt

CONSTANTS
  Sockets,        \* TCP sockets from 1
  STORESIZE,      \* of sendbuffer
  GlobalHeader,   \* bytes of the pcap file header
  Overhead,       \* bytes of a record before its data
  DataLengths,    \* of a record: mdata+padct
  CLIENTENTRIES, Macs,
  Word,           \* values of a uint32_t, and of the SDK's microsecond clock
  Second,         \* microseconds in a second
  MaxTime,        \* bound: microseconds in a behaviour
  MaxHeard, MaxSyns   \* bounds: frames from the radio, connections

None == 0
Entries == 1..CLIENTENTRIES

ASSUME ConstantsOK ==
  /\ Sockets \in Nat /\ STORESIZE \in Nat /\ GlobalHeader \in 1..STORESIZE /\ Overhead \in Nat
  /\ DataLengths \subseteq Nat /\ CLIENTENTRIES \in Nat \ {0} /\ Word \in Nat \ {0} /\ Second \in 1..Word
  /\ MaxTime \in Nat /\ MaxHeard \in Nat /\ MaxSyns \in Nat

VARIABLES
  gHandlingTCP,
  sendbuffer,       \* its contents: Header and records [frame, at]
  sendtop,          \* bytes of it that are filled
  TCPs,             \* per socket: state, unacked, and whose disconnect_callback it has
  cle,              \* the clients: [mac, time], and `at` (history), the time unwrapped
  ctl, tv_sec, tv_usec,
  now,              \* the time since the start, of which the clock has the low bits
  updated,          \* history: when UpdateTime last ran
  stream,           \* history: per socket, what its capture was sent
  heard, syns

clock  == <<ctl, tv_sec, tv_usec, updated>>
tcp    == <<TCPs, stream>>
buffer == <<sendbuffer, sendtop>>
vars   == <<gHandlingTCP, buffer, tcp, cle, clock, now, heard, syns>>

Header == [frame |-> 0, at |-> 0]
Nobody == [mac |-> "00", time |-> 0, at |-> 0]
Closed == [state |-> "CLOSED", unacked |-> FALSE, callback |-> "none"]

Init ==
  /\ gHandlingTCP = None /\ sendbuffer = <<>> /\ sendtop = 0
  /\ TCPs = [i \in 1..Sockets |-> Closed] /\ stream = [i \in 1..Sockets |-> <<>>]
  /\ cle = [e \in Entries |-> Nobody]
  /\ ctl = 0 /\ tv_sec = 0 /\ tv_usec = 0 /\ now = 0 /\ updated = 0
  /\ heard = 0 /\ syns = 0
-----------------------------------------------------------------------------
system_get_time == now % Word
Since(t) == (system_get_time - t) % Word        \* of uint32_t

(* The clock may have wrapped since.  tv_usec is a uint32_t too, so the sum*)
(* wraps where more than Word - Second went by.  Mutant: the clock must    *)
(* not have wrapped.                                                       *)
UpdateTimeUnwrapped ==
  LET usec == tv_usec + system_get_time - ctl
  IN  /\ ctl' = system_get_time
      /\ tv_sec' = tv_sec + usec \div Second /\ tv_usec' = usec % Second
      /\ updated' = now
UpdateTime ==
  LET usec == (tv_usec + Since(ctl)) % Word
  IN  /\ ctl' = system_get_time
      /\ tv_sec' = tv_sec + usec \div Second /\ tv_usec' = usec % Second
      /\ updated' = now

(* The idle task and the timer: all there is goes into one packet, if the  *)
(* last one was acknowledged.  Mutant: a packet is worth sending only when *)
(* the buffer is half full.                                                *)
TickPacketSetLater ==
  /\ UpdateTime
  /\ IF gHandlingTCP # None /\ ~TCPs[gHandlingTCP].unacked /\ 2 * sendtop > STORESIZE
     THEN /\ TCPs' = [TCPs EXCEPT ![gHandlingTCP].unacked = TRUE]
          /\ stream' = [stream EXCEPT ![gHandlingTCP] = @ \o sendbuffer]
          /\ sendbuffer' = <<>> /\ sendtop' = 0
     ELSE UNCHANGED <<tcp, buffer>>
  /\ UNCHANGED <<gHandlingTCP, cle, now, heard, syns>>
TickPacketSet ==
  /\ UpdateTime
  /\ IF gHandlingTCP # None /\ ~TCPs[gHandlingTCP].unacked /\ sendtop > 0
     THEN /\ TCPs' = [TCPs EXCEPT ![gHandlingTCP].unacked = TRUE]
          /\ stream' = [stream EXCEPT ![gHandlingTCP] = @ \o sendbuffer]
          /\ sendbuffer' = <<>> /\ sendtop' = 0
     ELSE UNCHANGED <<tcp, buffer>>
  /\ UNCHANGED <<gHandlingTCP, cle, now, heard, syns>>

(* The entry of a client: its own (the last, if there were two), else the  *)
(* one not heard for longest, the first of them.  Mutant: the time is      *)
(* compared, not the age.                                                  *)
Own(mac) == {e \in Entries : cle[e].mac = mac}
OldestByTime == CHOOSE e \in Entries :
  /\ \A f \in Entries : cle[f].time >= cle[e].time
  /\ \A f \in 1..e-1 : cle[f].time > cle[e].time
Oldest == CHOOSE e \in Entries :
  /\ \A f \in Entries : Since(cle[f].time) <= Since(cle[e].time)
  /\ \A f \in 1..e-1 : Since(cle[f].time) < Since(cle[e].time)
Match(mac) == IF Own(mac) # {} THEN CHOOSE e \in Own(mac) : \A f \in Own(mac) : f <= e ELSE Oldest

(* Mutant: the record may be cut.                                          *)
FitsHeader(length) == STORESIZE - sendtop > Overhead
Fits(length) == STORESIZE - sendtop > Overhead + length

AddBL(record, length) ==
  /\ sendbuffer' = Append(sendbuffer, record)
  /\ sendtop' = sendtop + length

(* A frame that is long enough to name its sender; a record is made of it  *)
(* if there is room, whether anybody captures or not.                      *)
promisc_cb(mac, length) ==
  /\ heard < MaxHeard /\ heard' = heard + 1
  /\ cle' = [cle EXCEPT ![Match(mac)] = [mac |-> mac, time |-> system_get_time, at |-> now]]
  /\ IF Fits(length)
     THEN /\ UpdateTime
          /\ AddBL([frame |-> heard', at |-> tv_sec' * Second + tv_usec'], Overhead + length)
     ELSE UNCHANGED <<clock, buffer>>
  /\ UNCHANGED <<gHandlingTCP, tcp, now, syns>>
-----------------------------------------------------------------------------
(* What a socket's disconnect_callback does: whichever socket it is, the   *)
(* capture of now ends.  Mutant: it goes on.                               *)
DisconnectNothing(i) == gHandlingTCP' = gHandlingTCP
Disconnect(i) == gHandlingTCP' = IF TCPs[i].callback = "pkcapt_close" THEN None ELSE gHandlingTCP

Free == {i \in 1..Sockets : TCPs[i].state = "CLOSED"}
et_GetFreeConnection == CHOOSE i \in Free : \A j \in Free : i <= j

Closing(s) == [s EXCEPT !.state = "CLOSING_WAIT", !.unacked = TRUE]
RequestClosure(s) == IF s.state = "ESTABLISHED" THEN Closing(s) ELSE s

(* A SYN for port 6648: a capture starts, the one before is closed.  The   *)
(* SYN|ACK is not counted as outstanding (see TcpSockets).  Mutant: what   *)
(* was collected is kept.                                                  *)
SynKeepsRecords ==
  /\ syns < MaxSyns /\ syns' = syns + 1 /\ Free # {}
  /\ LET i == et_GetFreeConnection
         old == IF gHandlingTCP = None THEN TCPs ELSE [TCPs EXCEPT ![gHandlingTCP] = RequestClosure(@)]
     IN  /\ TCPs' = [old EXCEPT ![i] = [state |-> "ESTABLISHED", unacked |-> FALSE, callback |-> "pkcapt_close"]]
         /\ gHandlingTCP' = i /\ stream' = [stream EXCEPT ![i] = <<>>]
  /\ AddBL(Header, GlobalHeader)
  /\ UNCHANGED <<cle, clock, now, heard>>
HandleIncomingEthernetSyn ==
  /\ syns < MaxSyns /\ syns' = syns + 1 /\ Free # {}
  /\ LET i == et_GetFreeConnection
         old == IF gHandlingTCP = None THEN TCPs ELSE [TCPs EXCEPT ![gHandlingTCP] = RequestClosure(@)]
     IN  /\ TCPs' = [old EXCEPT ![i] = [state |-> "ESTABLISHED", unacked |-> FALSE, callback |-> "pkcapt_close"]]
         /\ gHandlingTCP' = i /\ stream' = [stream EXCEPT ![i] = <<>>]
  /\ sendbuffer' = <<Header>> /\ sendtop' = GlobalHeader
  /\ UNCHANGED <<cle, clock, now, heard>>

(* A SYN for the web server, which takes a socket from the same table.     *)
WebSyn ==
  /\ syns < MaxSyns /\ syns' = syns + 1 /\ Free # {}
  /\ LET i == et_GetFreeConnection
     IN  /\ TCPs' = [TCPs EXCEPT ![i] = [state |-> "ESTABLISHED", unacked |-> FALSE, callback |-> "http_disconnetcb"]]
         /\ stream' = [stream EXCEPT ![i] = <<>>]
  /\ UNCHANGED <<gHandlingTCP, buffer, cle, clock, now, heard>>

Ended(i, s) ==
  /\ TCPs' = [TCPs EXCEPT ![i] = s]
  /\ stream' = IF s = Closed THEN [stream EXCEPT ![i] = <<>>] ELSE stream
Others == UNCHANGED <<buffer, cle, clock, now, heard, syns>>

(* The peer acknowledges the last packet, ends the connection, or resets   *)
(* it, and the socket gives up what was repeated too often.                *)
Acknowledged(i) ==
  /\ TCPs[i].unacked
  /\ Ended(i, IF TCPs[i].state = "CLOSING_WAIT" THEN Closed ELSE [TCPs[i] EXCEPT !.unacked = FALSE])
  /\ UNCHANGED gHandlingTCP /\ Others

Fin(i) ==
  /\ \/ /\ TCPs[i].state = "ESTABLISHED" /\ Disconnect(i) /\ Ended(i, Closing(TCPs[i]))
     \/ /\ TCPs[i].state = "CLOSING_WAIT" /\ Ended(i, Closed)
        /\ UNCHANGED gHandlingTCP
  /\ Others

Rst(i) ==
  /\ TCPs[i].state # "CLOSED" /\ Disconnect(i)
  /\ Ended(i, Closed)
  /\ Others

GivenUp(i) ==
  /\ TCPs[i].unacked
  /\ IF TCPs[i].state = "CLOSING_WAIT" THEN UNCHANGED gHandlingTCP ELSE Disconnect(i)
  /\ Ended(i, Closed)
  /\ Others

(* Time passes.  The timer runs the tick a hundred times a second: before  *)
(* Word - Second microseconds (71 minutes) went by without one.            *)
Pass ==
  /\ now < MaxTime /\ now - updated < Word - Second
  /\ now' = now + 1
  /\ UNCHANGED <<gHandlingTCP, buffer, tcp, cle, clock, heard, syns>>

Next ==
  \/ TickPacketSet \/ HandleIncomingEthernetSyn \/ WebSyn \/ Pass
  \/ \E mac \in Macs, length \in DataLengths : promisc_cb(mac, length)
  \/ \E i \in 1..Sockets : Acknowledged(i) \/ Fin(i) \/ Rst(i) \/ GivenUp(i)

Spec == Init /\ [][Next]_vars

(* The tasks run, and what is not acknowledged is given up in the end.     *)
FairSpec == Spec /\ WF_vars(TickPacketSet) /\ \A i \in 1..Sockets : WF_vars(Acknowledged(i) \/ GivenUp(i))
-----------------------------------------------------------------------------
(* Every variable has its type, and sendbuffer holds what is put in it:    *)
(* a record is never written past its end (promisc_cb).                    *)
TypeOK ==
  /\ gHandlingTCP \in 0..Sockets /\ sendtop \in 0..STORESIZE
  /\ TCPs \in [1..Sockets -> [state : {"CLOSED", "ESTABLISHED", "CLOSING_WAIT"}, unacked : BOOLEAN,
                              callback : {"none", "pkcapt_close", "http_disconnetcb"}]]
  /\ cle \in [Entries -> [mac : Macs \cup {"00"}, time : 0..Word-1, at : Nat]]
  /\ ctl \in 0..Word-1 /\ tv_sec \in Nat /\ tv_usec \in 0..Second-1

(* The capture of now is a connection that is open and is one: no write    *)
(* goes to a socket that was closed, or taken by the web server since      *)
(* (TickPacketSet, pkcapt_close).                                          *)
CapturesOwnSocket ==
  gHandlingTCP # None =>
    TCPs[gHandlingTCP].state = "ESTABLISHED" /\ TCPs[gHandlingTCP].callback = "pkcapt_close"

(* What a capture gets is a pcap file: the header, once, then records of   *)
(* frames, in the order they came and with times that do not go back,      *)
(* whatever other captures were opened, closed or replaced meanwhile.      *)
StreamIsPcap ==
  \A i \in 1..Sockets : LET s == stream[i] IN
    /\ s # <<>> => s[1] = Header
    /\ \A k \in 2..Len(s) : s[k].frame > s[k-1].frame /\ s[k].at >= s[k-1].at

(* The time of a record is the time since the start, though the clock      *)
(* wraps (UpdateTime).                                                     *)
TimeIsKept == tv_sec * Second + tv_usec = updated

(* No client is in the table twice.                                        *)
OneEntryEach == \A e, f \in Entries : cle[e].mac = cle[f].mac /\ e # f => cle[e].mac = "00"

Listed(m) == \E e \in Entries : cle[e].mac = m

(* The client that is dropped from the full table is the one not heard for *)
(* longest, unless one of them was not heard for a turn of the clock.      *)
DropsOldest ==
  [][\A e \in Entries, m \in Macs :
       cle[e].mac = m /\ ~Listed(m)' /\ (\A f \in Entries : now - cle[f].at < Word)
         => \A f \in Entries : cle[e].at <= cle[f].at]_vars

(* What was collected goes to the capture, unless that is closed, or       *)
(* replaced.                                                               *)
CaptureGoesOn ==
  \A i \in 1..Sockets :
    gHandlingTCP = i /\ sendbuffer # <<>> ~> sendbuffer = <<>> \/ gHandlingTCP # i
=============================================================================
