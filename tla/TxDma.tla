-------------------------------- MODULE TxDma --------------------------------
(***************************************************************************)
(* The transmit path (user/i2sduplex.c, SendPacketData of                  *)
(* user/manchestrate.c).  The I2S engine walks a linked list of DMA        *)
(* descriptors for ever: 0 -> 1 -> 0 is silence.  A packet is spliced in   *)
(* after 1 by the interrupt of a finished 1, and 3 is looped to 2:         *)
(*     0 -> 1 -> packet -> 2 -> 3 -> 2 -> 3 ...                            *)
(* until the interrupt of a finished 3 restores 1 -> 0 and 3 -> 0.  Normal *)
(* link pulses are spliced in the same way.  The engine, the interrupt and *)
(* the main loop each go at their own speed: the interrupt may be so late  *)
(* that only the last of several finished descriptors is seen.             *)
(***************************************************************************)
EXTENDS Integers

CONSTANTS
  NlpEvery,     \* nlpcount, in interrupts, above which a link pulse is due
  MaxPackets,   \* bound: packets handed to SendPacketData in a behaviour
  MaxKicks      \* bound: restarts of the engine

ASSUME ConstantsOK == NlpEvery \in Nat /\ MaxPackets \in Nat /\ MaxKicks \in Nat

VARIABLES
  cur,                  \* the descriptor the engine is sending
  next,                 \* next_link_ptr of every descriptor
  eof,                  \* SLC_RX_EOF_DES_ADDR: the last one finished, if flagged
  pending,              \* an end-of-frame interrupt is raised
  insend, i2stxdone, tx_link_address, nlpcount,
  pc,                   \* main loop, in SendPacketData and SendI2SPacket
  handed,               \* packets handed over so far
  buffer,               \* sendDMAbuffer: is the preamble there, and whose data
  loaded,               \* descriptor 4 points to sendDMAbuffer
  sent,                 \* history: the packets the engine sent whole
  doneEarly,            \* history: the packet was out, or dropped by a restart,
                        \* before SendI2SPacket cleared i2stxdone for it
  kicks,
  onTime                \* an interrupt is always taken before the engine finishes another
                        \* flagged descriptor (102 us in the code): never changes

isrVars  == <<insend, tx_link_address, nlpcount>>
mainVars == <<pc, handed, buffer, doneEarly>>
vars     == <<cur, next, eof, pending, isrVars, i2stxdone, mainVars, loaded, sent, kicks>>

NLP  == 6       \* the descriptors are named by their `unused` member at the start
Desc == 0..NLP
None == -1      \* a null tx_link_address

(* The member `unused`: 4 and 5 are the two parts of a packet, and the     *)
(* second part, where there is one, reads as a 3.                          *)
Unused(d) == IF d = 4 THEN 2 ELSE IF d = 5 THEN 3 ELSE d

InitNext == [d \in Desc |-> IF d = 0 THEN 1 ELSE IF d = 1 THEN 0 ELSE IF d = 2 THEN 3 ELSE 2]

Init ==
  /\ cur = 0 /\ next = InitNext /\ eof = 0 /\ pending = FALSE
  /\ insend = 0 /\ i2stxdone = 1 /\ tx_link_address = None /\ nlpcount = 0
  /\ pc = "idle" /\ handed = 0 /\ buffer = [head |-> FALSE, data |-> 0] /\ doneEarly = FALSE
  /\ loaded = FALSE /\ sent = {} /\ kicks = 0
  /\ onTime \in BOOLEAN
-----------------------------------------------------------------------------
SendsLastPart == loaded /\ (cur = 5 \/ (cur = 4 /\ next[4] # 5))

(* The engine finishes a descriptor and follows its link.  A packet is     *)
(* whole when its last part is out.                                        *)
Engine ==
  /\ onTime => ~pending \/ cur = NLP
  /\ cur' = next[cur]
  /\ IF cur = NLP THEN UNCHANGED <<eof, pending>>
                  ELSE eof' = cur /\ pending' = TRUE
  /\ sent' = IF SendsLastPart THEN sent \cup {handed} ELSE sent
  /\ UNCHANGED <<next, isrVars, i2stxdone, mainVars, loaded, kicks>>

(* slc_isr, the transmit part: the lists are repaired after a 3, a link    *)
(* pulse or else a packet is spliced in after a 1.                         *)
(* Mutant: only a link pulse is cleaned up after.                          *)
RepairForPulses == Unused(eof) = 3 /\ insend = 1
(* Mutant: repairs after a 0 too.                                          *)
RepairEarly == Unused(eof) \in {0, 3} /\ insend # 0
Repair == Unused(eof) = 3 /\ insend # 0

Splice == Unused(eof) = 1 /\ insend = 0

Count  == IF nlpcount > NlpEvery THEN nlpcount ELSE nlpcount + 1

(* Mutant: every splice is a link pulse.                                   *)
PulseAlways == Splice /\ Count > 0
Pulse  == Splice /\ Count > NlpEvery
Packet == Splice /\ ~Pulse /\ tx_link_address # None

(* Mutant: the repair leaves the link to the packet.                       *)
Link1Stays == CASE Pulse -> NLP [] Packet -> tx_link_address [] OTHER -> next[1]
Link1 == CASE Repair -> 0 [] Pulse -> NLP [] Packet -> tx_link_address
           [] OTHER -> next[1]

Isr ==
  /\ pending /\ pending' = FALSE
  /\ nlpcount' = IF Pulse THEN 0 ELSE Count
  /\ i2stxdone' = IF Repair /\ insend = 2 THEN 1 ELSE i2stxdone
  /\ insend' = CASE Repair -> 0 [] Pulse -> 1 [] Packet -> 2 [] OTHER -> insend
  /\ tx_link_address' = IF Packet THEN None ELSE tx_link_address
  /\ next' = [next EXCEPT ![1] = Link1,
                          ![3] = IF Repair THEN 0 ELSE IF Splice THEN 2 ELSE @]
  /\ UNCHANGED <<cur, eof, mainVars, loaded, sent, kicks>>

(* testi2s_init: the engine and all descriptors start afresh.  KickRX      *)
(* calls it from the interrupt, at any point of the main loop, for a       *)
(* receive fault; et_backend_tick_slow calls it between packets.           *)
(* Mutant: insend is not reset.                                            *)
KickKeepsInsend ==
  /\ kicks < MaxKicks
  /\ kicks' = kicks + 1
  /\ cur' = 0 /\ next' = InitNext /\ pending' = FALSE
  /\ i2stxdone' = 1 /\ tx_link_address' = None /\ nlpcount' = 0
  /\ loaded' = FALSE /\ doneEarly' = FALSE
  /\ UNCHANGED <<insend, eof, pc, handed, buffer, sent>>

Kick ==
  /\ kicks < MaxKicks
  /\ kicks' = kicks + 1
  /\ cur' = 0 /\ next' = InitNext /\ pending' = FALSE
  /\ insend' = 0 /\ i2stxdone' = 1 /\ tx_link_address' = None /\ nlpcount' = 0
  /\ loaded' = FALSE /\ doneEarly' = FALSE
  /\ UNCHANGED <<eof, pc, handed, buffer, sent>>
-----------------------------------------------------------------------------
(* SendPacketData refuses a packet that is too big.  The zeros and the     *)
(* preamble go into sendDMAbuffer before the wait, while the engine may    *)
(* still be sending the packet before: for any packet but the first they   *)
(* are there already.                                                      *)
(* Mutant: the data is written before the wait, too.                       *)
CallFillsAtOnce ==
  /\ pc = "idle" /\ handed < MaxPackets
  /\ \/ pc' = "wait" /\ buffer' = [head |-> TRUE, data |-> handed + 1]
     \/ UNCHANGED <<pc, buffer>>
  /\ UNCHANGED <<cur, next, eof, pending, isrVars, i2stxdone, handed, doneEarly, loaded, sent, kicks>>

Call ==
  /\ pc = "idle" /\ handed < MaxPackets
  /\ \/ pc' = "wait" /\ buffer' = [buffer EXCEPT !.head = TRUE]
     \/ UNCHANGED <<pc, buffer>>
  /\ UNCHANGED <<cur, next, eof, pending, isrVars, i2stxdone, handed, doneEarly, loaded, sent, kicks>>

(* The packet before is out: the data goes into the buffer.                *)
(* Mutant: it does not wait.                                               *)
WaitDoneNever ==
  /\ pc = "wait"
  /\ pc' = "fill" /\ handed' = handed + 1 /\ buffer' = [buffer EXCEPT !.data = handed + 1]
  /\ UNCHANGED <<cur, next, eof, pending, isrVars, i2stxdone, doneEarly, loaded, sent, kicks>>

WaitDone ==
  /\ pc = "wait" /\ i2stxdone = 1
  /\ pc' = "fill" /\ handed' = handed + 1 /\ buffer' = [buffer EXCEPT !.data = handed + 1]
  /\ UNCHANGED <<cur, next, eof, pending, isrVars, i2stxdone, doneEarly, loaded, sent, kicks>>

(* SendI2SPacket waits once more and writes descriptor 4, and 5 for a      *)
(* packet of more than 1008 words.                                         *)
Describe ==
  /\ pc = "fill" /\ i2stxdone = 1
  /\ pc' = "link"
  /\ \E part2 \in {2, 5} :
       next' = [next EXCEPT ![4] = part2, ![5] = IF part2 = 5 THEN 2 ELSE @]
  /\ loaded' = TRUE
  /\ UNCHANGED <<cur, eof, pending, isrVars, i2stxdone, handed, buffer, doneEarly, sent, kicks>>

LinkIn ==
  /\ pc = "link"
  /\ pc' = "flag"
  /\ tx_link_address' = 4
  /\ UNCHANGED <<cur, next, eof, pending, insend, nlpcount, i2stxdone, handed, buffer,
                 doneEarly, loaded, sent, kicks>>

(* The packet was linked in a step before: by now it may even be out, or   *)
(* a restart may have dropped it, and then no interrupt sets the flag.     *)
SetNotDone ==
  /\ pc = "flag"
  /\ pc' = "idle"
  /\ i2stxdone' = 0
  /\ doneEarly' = (tx_link_address = None /\ insend # 2)
  /\ UNCHANGED <<cur, next, eof, pending, isrVars, handed, buffer, loaded, sent, kicks>>

Sending == WaitDone \/ Describe \/ LinkIn \/ SetNotDone
Main == Call \/ Sending
Next == (Engine \/ Isr \/ Kick \/ Main) /\ UNCHANGED onTime
Spec == Init /\ [][Next]_<<vars, onTime>>

(* The engine never stops, a call that has begun goes on, interrupts are   *)
(* taken.                                                                  *)
FairSpec == Spec /\ WF_vars(Engine) /\ WF_vars(Sending) /\ WF_vars(Isr)
-----------------------------------------------------------------------------
(* Every variable has its type.                                            *)
TypeOK ==
  /\ cur \in Desc /\ next \in [Desc -> Desc] /\ eof \in Desc /\ pending \in BOOLEAN
  /\ insend \in {0, 1, 2} /\ i2stxdone \in {0, 1}
  /\ tx_link_address \in {None, 4} /\ nlpcount \in 0..(NlpEvery + 1)
  /\ pc \in {"idle", "wait", "fill", "link", "flag"}
  /\ handed \in 0..MaxPackets /\ loaded \in BOOLEAN /\ doneEarly \in BOOLEAN
  /\ buffer \in [head : BOOLEAN, data : 0..MaxPackets]
  /\ sent \in SUBSET (0..MaxPackets) /\ kicks \in 0..MaxKicks /\ onTime \in BOOLEAN

(* The state machine of i2sduplex.c:26-35: what insend says is how the     *)
(* lists are linked, however late the interrupt is.                        *)
ListsMatchInsend ==
  /\ insend = 0 => next[1] = 0
  /\ insend = 1 => next[1] = NLP /\ next[3] = 2
  /\ insend = 2 => next[1] = 4 /\ next[3] = 2

(* The engine is not in a packet and no link leads into one.               *)
PacketIsOut == cur \notin {4, 5} /\ next[1] # 4 /\ tx_link_address = None

(* What the engine sends is not changed under it: while the main loop      *)
(* fills in the data or writes descriptors 4 and 5 the packet before is    *)
(* out, and what it writes before it waits changes nothing of a packet     *)
(* that may still be on its way.                                           *)
BufferFreeWhileFilled ==
  /\ [](pc \in {"fill", "link"} => PacketIsOut)
  /\ [][buffer' # buffer => PacketIsOut]_vars

(* No packet goes out twice, though the interrupt code runs several times  *)
(* per packet and the engine passes descriptor 1 again before the repair.  *)
SentOnce == [][Engine /\ SendsLastPart => handed \notin sent]_vars

(* When i2stxdone says so the packet is out, unless a restart since its     *)
(* descriptors were written made them silence.                             *)
DoneMeansSent ==
  [][i2stxdone = 0 /\ i2stxdone' = 1 => handed \in sent \/ ~loaded']_vars

(* The busy wait of SendPacketData ends, if interrupts are on time, unless *)
(* the packet before was out, or dropped by a restart, before its          *)
(* i2stxdone was cleared: in that one gap the flag is lost, and only       *)
(* another restart ends the wait.                                          *)
WaitEnds == onTime /\ pc = "wait" ~> pc = "fill" \/ doneEarly

(* Packets and link pulses share descriptor 1 and neither holds the other  *)
(* up for ever: a packet linked in goes out, unless the engine is          *)
(* restarted, and so does a link pulse that is due, unless restarts set    *)
(* its count back.                                                         *)
LineIsShared ==
  /\ \A p \in 1..MaxPackets :
       onTime /\ handed = p /\ loaded /\ pc = "flag" ~> p \in sent \/ ~loaded
  /\ onTime /\ nlpcount > NlpEvery ~> cur = NLP \/ kicks = MaxKicks
=============================================================================
