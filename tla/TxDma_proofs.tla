---------------------------- MODULE TxDma_proofs ----------------------------
(***************************************************************************)
(* The transmit path, for any distance of link pulses and any number of    *)
(* packets, with restarts at any step: the lists are linked as insend      *)
(* says, nothing is written under the engine, and every packet goes out at *)
(* most once, before i2stxdone says so.                                    *)
(***************************************************************************)
EXTENDS TxDma, TLAPS

(* The links that no step changes but from one descriptor of a part to the *)
(* next.                                                                   *)
Links ==
  /\ next[0] = 1 /\ next[2] = 3 /\ next[NLP] = 2 /\ next[5] = 2
  /\ next[3] \in {0, 2} /\ next[4] \in {2, 5}

(* Where the engine may be, and what the interrupt will see.               *)
EngineWhere ==
  /\ insend = 0 => cur \in {0, 1, 2, 3} /\ (cur \in {2, 3} => next[3] = 0)
  /\ insend = 1 => cur \notin {4, 5}
  /\ insend = 2 => cur # NLP
Raised ==
  /\ pending /\ insend = 0 /\ eof = 1 => cur = 0
  /\ pending /\ insend # 0 /\ eof \in {3, 5} => cur = 2

(* How far the packet is.                                                  *)
NotOut == insend = 2 /\ cur \in {0, 1, 4, 5}
Handed ==
  /\ pc = "wait" => handed < MaxPackets
  /\ pc \in {"fill", "link", "flag"} => i2stxdone = 1
  /\ ~buffer.head => pc = "idle" /\ i2stxdone = 1
  /\ i2stxdone = 1 /\ pc # "flag" => tx_link_address = None /\ insend # 2
  /\ insend = 2 => tx_link_address = None
Once ==
  /\ pc \in {"fill", "link"} \/ tx_link_address = 4 \/ NotOut => handed \notin sent
  /\ sent \subseteq 0..handed
  /\ insend = 2 /\ cur \in {2, 3} => handed \in sent \/ ~loaded

IInv == TypeOK /\ ListsMatchInsend /\ Links /\ EngineWhere /\ Raised /\ Handed /\ Once
-----------------------------------------------------------------------------
LEMMA InitNextLinks ==
  /\ InitNext \in [Desc -> Desc]
  /\ InitNext[0] = 1 /\ InitNext[1] = 0 /\ InitNext[2] = 3
  /\ InitNext[3] = 2 /\ InitNext[4] = 2 /\ InitNext[5] = 2 /\ InitNext[NLP] = 2
BY DEF InitNext, Desc, NLP

LEMMA InitIInv == Init => IInv
<1> SUFFICES ASSUME Init PROVE IInv
  OBVIOUS
<1> USE InitNextLinks, ConstantsOK DEF Init
<1>1. TypeOK
  <2>1. cur \in Desc /\ next \in [Desc -> Desc] /\ eof \in Desc /\ pending \in BOOLEAN /\ onTime \in BOOLEAN
    <3>1. next \in [Desc -> Desc]
      BY Zenon
    <3>2. cur \in Desc /\ eof \in Desc
      BY DEF Desc, NLP
    <3>3. pending \in BOOLEAN /\ onTime \in BOOLEAN
      BY Zenon
    <3> QED
      BY <3>1, <3>2, <3>3
  <2>2. nlpcount \in 0..(NlpEvery + 1) /\ handed \in 0..MaxPackets /\ kicks \in 0..MaxKicks
    OBVIOUS
  <2> QED
    BY <2>1, <2>2 DEF TypeOK, None
<1>2. ListsMatchInsend /\ Links /\ EngineWhere /\ Raised
  BY DEF ListsMatchInsend, Links, EngineWhere, Raised
<1>3. Handed /\ Once
  BY DEF Handed, Once, NotOut, None
<1> QED
  BY <1>1, <1>2, <1>3 DEF IInv

(* The engine stays where insend lets it, and reports what it leaves.      *)
LEMMA EngineKeeps ==
  ASSUME IInv, Engine, UNCHANGED onTime
  PROVE  IInv'
<1> USE DEF IInv, Desc, NLP, None
<1>1. cur' \in Desc /\ cur' = next[cur]
  BY DEF Engine, TypeOK
<1>2. TypeOK'
  <2>1. eof' \in Desc /\ pending' \in BOOLEAN
    <3>1. cur \in Desc /\ eof \in Desc /\ pending \in BOOLEAN
      BY DEF TypeOK
    <3>2. (eof' = eof /\ pending' = pending) \/ (eof' = cur /\ pending' = TRUE)
      BY DEF Engine
    <3> QED
      BY <3>1, <3>2, Zenon
  <2>2. sent' \in SUBSET (0..MaxPackets)
    <3>1. sent \in SUBSET (0..MaxPackets) /\ handed \in 0..MaxPackets
      BY DEF TypeOK
    <3>2. sent' = sent \/ sent' = sent \cup {handed}
      BY DEF Engine
    <3> QED
      BY <3>1, <3>2
  <2>3. UNCHANGED <<next, insend, nlpcount, tx_link_address, i2stxdone, pc, handed, buffer, doneEarly, loaded, kicks>>
    BY Zenon DEF Engine, isrVars, mainVars
  <2>4. cur' \in Desc /\ onTime' = onTime /\ TypeOK
    BY <1>1
  <2> HIDE DEF IInv, Desc, NLP, None
  <2> QED
    BY <2>1, <2>2, <2>3, <2>4 DEF TypeOK
<1>3. ListsMatchInsend' /\ Links'
  BY DEF Engine, ListsMatchInsend, Links, isrVars
<1>4. EngineWhere'
  BY <1>1 DEF Engine, EngineWhere, TypeOK, ListsMatchInsend, Links, isrVars
<1>5. Raised'
  BY <1>1 DEF Engine, Raised, EngineWhere, TypeOK, ListsMatchInsend, Links, isrVars
<1>6. Handed'
  BY <1>1 DEF Engine, Handed, NotOut, EngineWhere, Raised, TypeOK, ListsMatchInsend, Links, isrVars, mainVars
<1>7. Once'
  <2>1. NotOut' => NotOut
    BY <1>1 DEF Engine, NotOut, EngineWhere, TypeOK, ListsMatchInsend, Links, isrVars
  <2>2. SendsLastPart => ~NotOut' /\ tx_link_address = None /\ pc \notin {"fill", "link"}
    BY <1>1 DEF Engine, SendsLastPart, NotOut, EngineWhere, Handed, TypeOK, ListsMatchInsend, Links, isrVars
  <2>3. insend = 2 /\ cur' \in {2, 3} /\ cur \notin {2, 3} => SendsLastPart \/ ~loaded
    BY <1>1 DEF SendsLastPart, TypeOK, ListsMatchInsend, Links, EngineWhere
  <2>4. handed \in 0..handed
    BY DEF TypeOK
  <2>5. /\ UNCHANGED <<pc, tx_link_address, handed, loaded, insend>>
        /\ sent' = IF SendsLastPart THEN sent \cup {handed} ELSE sent
    BY DEF Engine, isrVars, mainVars
  <2>6. (pc \in {"fill", "link"} \/ tx_link_address = 4 \/ NotOut)' => (handed \notin sent)'
    BY <2>1, <2>2, <2>5 DEF Once
  <2>7. (sent \subseteq 0..handed)'
    BY <2>4, <2>5 DEF Once
  <2>8. (insend = 2 /\ cur \in {2, 3})' => (handed \in sent \/ ~loaded)'
    BY <2>3, <2>5 DEF Once
  <2> QED
    BY <2>6, <2>7, <2>8 DEF Once
<1> QED
  BY <1>2, <1>3, <1>4, <1>5, <1>6, <1>7

(* The interrupt: what it does to the lists, and to the packet.            *)
LEMMA IsrKeeps ==
  ASSUME IInv, Isr, UNCHANGED onTime
  PROVE  IInv'
<1> USE DEF IInv, Desc, NLP, None
<1>1. Repair => eof \in {3, 5} /\ insend # 0
  BY DEF Repair, Unused
<1>2. Splice => eof = 1 /\ insend = 0
  BY DEF Splice, Unused, TypeOK
<1>4. TypeOK'
  <2>1. nlpcount' \in 0..(NlpEvery + 1)
    BY ConstantsOK DEF Isr, Count, TypeOK
  <2>2. Link1 \in 0..6 /\ next' \in [0..6 -> 0..6]
    BY DEF Isr, Link1, Packet, TypeOK
  <2>3. insend' \in {0, 1, 2} /\ i2stxdone' \in {0, 1} /\ tx_link_address' \in {-1, 4}
    BY DEF Isr, TypeOK
  <2> QED
    BY <2>1, <2>2, <2>3 DEF Isr, TypeOK, mainVars
<1>5. ListsMatchInsend' /\ Links'
  BY <1>1, <1>2 DEF Isr, Pulse, Packet, Link1, ListsMatchInsend, Links, TypeOK
<1>6. EngineWhere'
  BY <1>1, <1>2 DEF Isr, Pulse, Packet, Raised, EngineWhere, TypeOK
<1>7. Raised'
  BY DEF Isr, Raised
<1>8. Handed'
  BY <1>1, <1>2 DEF Isr, Pulse, Packet, Handed, NotOut, Raised, TypeOK, mainVars
<1>9. Once'
  BY <1>1, <1>2 DEF Isr, Pulse, Packet, Once, NotOut, Raised, Handed, TypeOK, mainVars
<1> QED
  BY <1>4, <1>5, <1>6, <1>7, <1>8, <1>9

(* A restart, at any step of the main loop.                                *)
LEMMA KickKeeps ==
  ASSUME IInv, Kick, UNCHANGED onTime
  PROVE  IInv'
<1> USE DEF IInv, Desc, NLP, None
<1>1. TypeOK'
  <2>1. InitNext \in [0..6 -> 0..6]
    BY InitNextLinks
  <2>2. kicks' \in 0..MaxKicks /\ nlpcount' \in 0..(NlpEvery + 1)
    BY ConstantsOK DEF Kick, TypeOK
  <2>3. /\ cur' \in 0..6 /\ eof' \in 0..6 /\ pending' \in BOOLEAN /\ next' \in [0..6 -> 0..6]
        /\ pc' = pc /\ handed' = handed /\ sent' = sent /\ buffer' = buffer
    <3>1. /\ cur' \in 0..6 /\ eof' \in 0..6 /\ pc' = pc /\ handed' = handed /\ sent' = sent
          /\ buffer' = buffer
      BY DEF Kick, TypeOK, mainVars
    <3>2. pending' \in BOOLEAN
      BY Zenon DEF Kick
    <3>3. next' \in [0..6 -> 0..6]
      BY <2>1, Zenon DEF Kick
    <3> QED
      BY <3>1, <3>2, <3>3
  <2>4. insend' = 0 /\ i2stxdone' = 1 /\ tx_link_address' = -1
    BY DEF Kick
  <2>5. loaded' \in BOOLEAN /\ doneEarly' \in BOOLEAN
    BY Zenon DEF Kick
  <2> QED
    BY <2>2, <2>3, <2>4, <2>5 DEF TypeOK
<1>2. (ListsMatchInsend /\ Links /\ EngineWhere /\ Raised)'
  BY InitNextLinks DEF Kick, ListsMatchInsend, Links, EngineWhere, Raised
<1>3. (Handed /\ Once)'
  BY DEF Kick, Handed, Once, NotOut, mainVars, TypeOK
<1> QED
  BY <1>1, <1>2, <1>3

(* The main loop.                                                          *)
LEMMA MainKeeps ==
  ASSUME IInv, Main, UNCHANGED onTime
  PROVE  IInv'
<1> USE DEF IInv, Desc, NLP, None, isrVars
<1>1. CASE Call
  <2>1. /\ buffer' \in [head : BOOLEAN, data : 0..MaxPackets]
        /\ buffer'.head = FALSE => buffer.head = FALSE /\ pc' = pc
    BY <1>1 DEF Call, TypeOK
  <2>2. pc' \in {"idle", "wait"} /\ pc = "idle" /\ handed < MaxPackets
    BY <1>1 DEF Call
  <2>3. /\ cur' = cur /\ next' = next /\ eof' = eof /\ pending' = pending /\ insend' = insend
        /\ tx_link_address' = tx_link_address /\ nlpcount' = nlpcount /\ i2stxdone' = i2stxdone
        /\ handed' = handed /\ doneEarly' = doneEarly /\ loaded' = loaded /\ sent' = sent
        /\ kicks' = kicks
    BY <1>1 DEF Call
  <2>4. TypeOK'
    BY <2>1, <2>2, <2>3 DEF TypeOK
  <2>5. (ListsMatchInsend /\ Links /\ EngineWhere /\ Raised)'
    BY <2>3 DEF ListsMatchInsend, Links, EngineWhere, Raised
  <2>6. (Handed /\ Once)'
    BY <2>1, <2>2, <2>3 DEF Handed, Once, NotOut
  <2> QED
    BY <2>4, <2>5, <2>6
<1>2. CASE WaitDone
  <2>1. TypeOK'
    <3>1. handed' \in 0..MaxPackets
      BY <1>2, ConstantsOK DEF WaitDone, TypeOK, Handed
    <3> QED
      BY <1>2, <3>1 DEF WaitDone, TypeOK
  <2>2. handed' \notin sent /\ sent \subseteq 0..handed'
    BY <1>2 DEF WaitDone, TypeOK, Once
  <2> QED
    BY <1>2, <2>1, <2>2 DEF WaitDone, TypeOK, ListsMatchInsend, Links, EngineWhere, Raised, Handed, Once, NotOut
<1>3. CASE Describe
  BY <1>3 DEF Describe, TypeOK, ListsMatchInsend, Links, EngineWhere, Raised, Handed, Once, NotOut
<1>4. CASE LinkIn
  BY <1>4 DEF LinkIn, TypeOK, ListsMatchInsend, Links, EngineWhere, Raised, Handed, Once, NotOut
<1>5. CASE SetNotDone
  BY <1>5 DEF SetNotDone, TypeOK, ListsMatchInsend, Links, EngineWhere, Raised, Handed, Once, NotOut
<1> QED
  BY <1>1, <1>2, <1>3, <1>4, <1>5 DEF Main, Sending

LEMMA NextKeeps == IInv /\ [Next]_<<vars, onTime>> => IInv'
<1>1. IInv /\ UNCHANGED <<vars, onTime>> => IInv'
  BY DEF vars, isrVars, mainVars, IInv, TypeOK, ListsMatchInsend, Links, EngineWhere, Raised, Handed, Once, NotOut
<1> QED
  BY <1>1, EngineKeeps, IsrKeeps, KickKeeps, MainKeeps DEF Next
-----------------------------------------------------------------------------
(* The inductive invariant of the transmit path.                           *)
THEOREM TxInvariant == Spec => []IInv
BY InitIInv, NextKeeps, PTL DEF Spec

(* Every variable has its type.                                            *)
THEOREM TxTypes == Spec => []TypeOK
<1>1. IInv => TypeOK
  BY DEF IInv
<1> QED
  BY <1>1, TxInvariant, PTL

(* The lists are linked as insend says, however late the interrupt is.     *)
THEOREM ListsAsInsendSays == Spec => []ListsMatchInsend
<1>1. IInv => ListsMatchInsend
  BY DEF IInv
<1> QED
  BY <1>1, TxInvariant, PTL

(* Nothing is written that the engine is sending or is led to.             *)
THEOREM BufferIsFree == Spec => BufferFreeWhileFilled
<1>1. IInv /\ i2stxdone = 1 /\ pc # "flag" => PacketIsOut
  BY DEF IInv, Handed, EngineWhere, ListsMatchInsend, TypeOK, PacketIsOut, NLP, None
<1>2. IInv => (pc \in {"fill", "link"} => PacketIsOut)
  BY <1>1 DEF IInv, Handed
<1>3. IInv /\ [Next]_<<vars, onTime>> => [buffer' # buffer => PacketIsOut]_vars
  <2> SUFFICES ASSUME IInv, [Next]_<<vars, onTime>>, buffer' # buffer
               PROVE  PacketIsOut
    OBVIOUS
  <2>1. CASE Call
    <3>1. buffer.head = FALSE
      BY <2>1 DEF Call, IInv, TypeOK
    <3> QED
      BY <1>1, <3>1 DEF IInv, Handed
  <2>2. CASE WaitDone
    BY <1>1, <2>2 DEF WaitDone
  <2>3. ~(Engine \/ Isr \/ Kick \/ Describe \/ LinkIn \/ SetNotDone \/ UNCHANGED vars)
    BY DEF Engine, Isr, Kick, Describe, LinkIn, SetNotDone, vars, mainVars
  <2> QED
    BY <2>1, <2>2, <2>3 DEF Next, Main, Sending, vars
<1> QED
  BY <1>2, <1>3, TxInvariant, PTL DEF Spec, BufferFreeWhileFilled

(* No packet goes out twice.                                               *)
THEOREM NoPacketTwice == Spec => SentOnce
<1>1. IInv => (Engine /\ SendsLastPart => handed \notin sent)
  BY DEF IInv, SendsLastPart, EngineWhere, Once, NotOut, TypeOK
<1> QED
  BY <1>1, TxInvariant, PTL DEF SentOnce

(* When i2stxdone says so the packet is out, or a restart dropped it.      *)
THEOREM DoneIsSent == Spec => DoneMeansSent
<1>1. IInv /\ [Next]_<<vars, onTime>> /\ i2stxdone = 0 /\ i2stxdone' = 1 => handed \in sent \/ ~loaded'
  <2> SUFFICES ASSUME IInv, [Next]_<<vars, onTime>>, i2stxdone = 0, i2stxdone' = 1
               PROVE  handed \in sent \/ ~loaded'
    OBVIOUS
  <2>1. CASE Isr
    BY <2>1 DEF Isr, Repair, Unused, IInv, Raised, Once, TypeOK, Desc, NLP
  <2>2. CASE Kick
    BY <2>2 DEF Kick
  <2>3. CASE Engine \/ Main \/ UNCHANGED vars
    BY <2>3 DEF Engine, Main, Sending, Call, WaitDone, Describe, LinkIn, SetNotDone, vars
  <2> QED
    BY <2>1, <2>2, <2>3 DEF Next
<1> QED
  BY <1>1, TxInvariant, PTL DEF Spec, DoneMeansSent
=============================================================================
