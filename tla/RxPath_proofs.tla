--------------------------- MODULE RxPath_proofs ----------------------------
(***************************************************************************)
(* Proofs about the receive path, for any number and size of buffers, any  *)
(* block length and any traffic, with the capture of raw samples or        *)
(* without it.                                                             *)
(***************************************************************************)
EXTENDS RxCapture, TLAPS

(* Indexes the main loop still has to visit before it comes to buffer i.   *)
Ahead(i) == IF i >= idx THEN i - idx ELSE i + RXBUFS - idx

(* The main loop works on a complete buffer.                               *)
ReaderHoldsComplete == Busy => rx_pack_flags[idx] = 2

(* The induction behind BoundedOvertaking: what a complete buffer has seen *)
(* go by and what it still can see make up one round.                      *)
OneRound ==
  \A i \in Bufs : rx_pack_flags[i] = 2 => waited[i] + Ahead(i) <= RXBUFS - 1

IInv == /\ TypeOK
        /\ NoLeakedBuffer
        /\ ReceivingIntoOwnBuffer
        /\ ReaderHoldsComplete
        /\ CallbackSeesCheckedFrame
        /\ OneRound
-----------------------------------------------------------------------------
(* The line only carries words.                                            *)
LEMMA NextWordsType ==
  ASSUME NEW w \in Word PROVE NextWords(w) \subseteq Word
<1>1. CASE w.kind = "null" /\ w.k > 0
  BY <1>1 DEF NextWords, Word, Kinds
<1>2. CASE w.kind = "null" /\ w.k = 0
  BY <1>2, ConstantsOK DEF NextWords, Word, Kinds
<1>3. CASE w.kind = "pre" /\ w.k > 1
  BY <1>3 DEF NextWords, Word, Kinds
<1>4. CASE w.kind = "pre" /\ w.k <= 1
  BY <1>4 DEF NextWords, Word, Kinds
<1>5. CASE w.kind = "tail"
  BY <1>5, ConstantsOK DEF NextWords, Word, Kinds, Null
<1>6. CASE w.kind \in {"sfd", "data", "stop"}
  BY <1>6, ConstantsOK DEF NextWords, Word, Kinds
<1> QED
  BY <1>1, <1>2, <1>3, <1>4, <1>5, <1>6 DEF Word, Kinds

LEMMA ConsumeType ==
  ASSUME TypeOK, left > 0, NEW then \in {"run", "skip", "drain"}, Consume(then)
  PROVE  /\ word' \in Word
         /\ left' \in 0..BlockLen
         /\ isr' \in {"run", "skip", "drain"}
BY NextWordsType, ConstantsOK DEF TypeOK, Consume

LEMMA FreedType ==
  ASSUME TypeOK
  PROVE  /\ Freed \in [Bufs -> {0, 1, 2}]
         /\ \A i \in Bufs : Freed[i] = 2 <=> rx_pack_flags[i] = 2
BY DEF TypeOK, Freed

LEMMA NextIdxType ==
  ASSUME TypeOK PROVE NextIdx \in Bufs
BY ConstantsOK DEF TypeOK, NextIdx, Bufs

LEMMA InitTypeOK == Init => TypeOK
BY ConstantsOK DEF Init, TypeOK, Word, Kinds, Null, Bufs

(* Every step keeps the types.                                             *)
LEMMA NextTypeOK == TypeOK /\ [Next]_vars => TypeOK'
<1> SUFFICES ASSUME TypeOK, [Next]_vars PROVE TypeOK'
  OBVIOUS
<1>1. CASE Interrupt
  BY <1>1, ConstantsOK DEF Interrupt, TypeOK, scanVars, decVars, bufVars, mainVars
<1>2. CASE LoseWord
  BY <1>2, NextWordsType DEF LoseWord, TypeOK, scanVars, decVars, bufVars, mainVars
<1>3. CASE PassOver
  BY <1>3, ConsumeType DEF PassOver, TypeOK, scanVars, decVars, bufVars, mainVars
<1>4. CASE Search
  BY <1>4, ConsumeType, SMTT(30) DEF Search, Looking, TypeOK, lineVars, scanVars, decVars, bufVars, mainVars
<1>5. CASE Quiet
  BY <1>5, ConsumeType DEF Quiet, Looking, TypeOK, decVars, bufVars, mainVars
<1>6. CASE Start
  <2>1. CASE \E i \in Bufs :
               /\ rx_pack_flags' = [Freed EXCEPT ![i] = 1]
               /\ rx_cur' = i /\ gl_in_preamble' = 2 /\ rec_place' = 0
               /\ PacketStoreInSitu' \in {-1, 1}
               /\ Consume("run")
    BY <1>6, <2>1, ConsumeType, FreedType, ConstantsOK, SMTT(30)
       DEF Start, Looking, TypeOK, mainVars
  <2>2. CASE PacketStoreInSitu' = -1 /\ rx_pack_flags' = Freed
             /\ UNCHANGED <<lineVars, decVars>>
    BY <1>6, <2>2, FreedType DEF Start, Looking, TypeOK, mainVars, lineVars, decVars
  <2> QED
    BY <1>6, <2>1, <2>2 DEF Start
<1>7. CASE DecodeFirst
  BY <1>7, ConsumeType DEF DecodeFirst, Looking, TypeOK, scanVars, mainVars
<1>8. CASE DecodePreamble
  BY <1>8, ConsumeType DEF DecodePreamble, Looking, TypeOK, scanVars, bufVars, mainVars
<1>9. CASE DecodeData
  <2>1. mem' \in [Bufs -> [1..MaxLen -> Word]]
    BY <1>9, ConstantsOK DEF DecodeData, TypeOK
  <2>2. rec_place' \in 0..MaxLen
    BY <1>9, ConstantsOK DEF DecodeData, TypeOK
  <2> QED
    BY <1>9, <2>1, <2>2, ConsumeType
       DEF DecodeData, Decoding, Looking, TypeOK, scanVars, mainVars
<1>10. CASE DecodeOverflow
  BY <1>10, ConsumeType DEF DecodeOverflow, Decoding, Looking, TypeOK, decVars, mainVars
<1>11. CASE DecodeEnd
  <2> DEFINE n == IF IsNull(word) THEN rec_place ELSE rec_place + 1
  <2>1. n \in 0..MaxLen /\ (~IsNull(word) => n \in 1..MaxLen)
    BY <1>11, ConstantsOK DEF DecodeEnd, TypeOK
  <2>2. mem' \in [Bufs -> [1..MaxLen -> Word]]
    BY <1>11, <2>1 DEF DecodeEnd, TypeOK
  <2>3. /\ rec_place' \in 0..MaxLen
        /\ rx_pack_lens' \in [Bufs -> 0..MaxLen]
        /\ rx_pack_flags' \in [Bufs -> {0, 1, 2}]
        /\ waited' \in [Bufs -> Nat]
    BY <1>11, <2>1 DEF DecodeEnd, TypeOK
  <2> QED
    BY <1>11, <2>2, <2>3, ConsumeType
       DEF DecodeEnd, Decoding, Looking, TypeOK, mainVars
<1>12. CASE ScanFlag
  BY <1>12, NextIdxType DEF ScanFlag, TypeOK, lineVars, scanVars, decVars, bufVars
<1>13. CASE CheckCrc
  BY <1>13 DEF CheckCrc, TypeOK, lineVars, scanVars, decVars, bufVars
<1>14. CASE CallbackReturns
  <2>1. mem[idx][1].f \in 0..MaxFrames
    BY ConstantsOK, SMTT(30) DEF TypeOK, Word
  <2> QED
    BY <1>14, <2>1 DEF CallbackReturns, TypeOK, lineVars, scanVars, decVars, bufVars
<1>15. CASE Release
  BY <1>15, NextIdxType, SMTT(30) DEF Release, TypeOK, lineVars, scanVars, decVars
<1>16. CASE UNCHANGED vars
  BY <1>16 DEF vars, TypeOK, lineVars, scanVars, decVars, bufVars, mainVars
<1> QED
  BY <1>1, <1>2, <1>3, <1>4, <1>5, <1>6, <1>7, <1>8, <1>9, <1>10, <1>11,
     <1>12, <1>13, <1>14, <1>15, <1>16 DEF Next, Isr, Main

(* The variables of the interrupt and of the main loop have their types.   *)
THEOREM TypeCorrect == Spec => []TypeOK
<1> QED BY InitTypeOK, NextTypeOK, PTL DEF Spec
-----------------------------------------------------------------------------
LEMMA InitInv == Init => IInv
BY InitTypeOK, ConstantsOK
   DEF Init, IInv, NoLeakedBuffer, ReceivingIntoOwnBuffer, ReaderHoldsComplete,
       CallbackSeesCheckedFrame, OneRound, Busy

(* Which buffers an interrupt may touch: none that is complete.            *)
LEMMA IsrKeepsComplete ==
  ASSUME IInv, Isr, NEW i \in Bufs, rx_pack_flags[i] = 2
  PROVE  /\ rx_pack_flags'[i] = 2
         /\ rx_pack_lens'[i] = rx_pack_lens[i]
         /\ mem'[i] = mem[i]
         /\ waited'[i] = waited[i]
<1> USE DEF IInv
<1>1. CASE PassOver \/ Search \/ Quiet \/ DecodePreamble
  BY <1>1 DEF PassOver, Search, Quiet, DecodePreamble, bufVars
<1>2. CASE Start
  BY <1>2, FreedType DEF Start, FirstFree, TypeOK
<1>3. CASE DecodeFirst
  BY <1>3 DEF DecodeFirst, Looking, ReceivingIntoOwnBuffer, TypeOK
<1>4. CASE DecodeData
  BY <1>4 DEF DecodeData, Decoding, Looking, ReceivingIntoOwnBuffer, TypeOK
<1>5. CASE DecodeOverflow
  BY <1>5 DEF DecodeOverflow, Decoding, Looking, ReceivingIntoOwnBuffer, TypeOK
<1>6. CASE DecodeEnd
  BY <1>6 DEF DecodeEnd, Decoding, Looking, ReceivingIntoOwnBuffer, TypeOK
<1> QED
  BY <1>1, <1>2, <1>3, <1>4, <1>5, <1>6 DEF Isr

LEMMA IsrMain == Isr => UNCHANGED <<pc, idx, delivered>>
BY DEF Isr, PassOver, Search, Quiet, Start, DecodeFirst, DecodePreamble,
       DecodeData, DecodeOverflow, DecodeEnd, mainVars

LEMMA NextNoLeak == IInv /\ [Next]_vars => NoLeakedBuffer'
<1> SUFFICES ASSUME IInv, [Next]_vars PROVE NoLeakedBuffer'
  OBVIOUS
<1> USE DEF IInv, NoLeakedBuffer
<1>1. CASE Start
  BY <1>1, FreedType DEF Start, Freed, TypeOK, decVars
<1>2. CASE DecodeFirst
  BY <1>2 DEF DecodeFirst, TypeOK
<1>3. CASE DecodeOverflow
  BY <1>3 DEF DecodeOverflow, decVars, TypeOK
<1>4. CASE DecodeEnd
  BY <1>4 DEF DecodeEnd, TypeOK
<1>5. CASE Release
  BY <1>5 DEF Release, decVars, TypeOK
<1>6. CASE UNCHANGED <<rx_pack_flags, rx_cur>>
  BY <1>6 DEF Bufs
<1> QED
  BY <1>1, <1>2, <1>3, <1>4, <1>5, <1>6
     DEF Next, Isr, Main, vars, Interrupt, LoseWord, PassOver, Search, Quiet,
         DecodePreamble, DecodeData, ScanFlag, CheckCrc, CallbackReturns,
         decVars, bufVars

LEMMA NextOwnBuffer == IInv /\ [Next]_vars => ReceivingIntoOwnBuffer'
<1> SUFFICES ASSUME IInv, [Next]_vars PROVE ReceivingIntoOwnBuffer'
  OBVIOUS
<1> USE DEF IInv, ReceivingIntoOwnBuffer
<1>1. CASE Start
  BY <1>1, FreedType DEF Start, TypeOK, decVars
<1>2. CASE DecodeFirst
  BY <1>2 DEF DecodeFirst, scanVars, TypeOK
<1>3. CASE DecodeOverflow \/ DecodeEnd
  BY <1>3 DEF DecodeOverflow, DecodeEnd
<1>4. CASE Release
  BY <1>4 DEF Release, scanVars, decVars, TypeOK
<1>5. CASE Search
  BY <1>5 DEF Search, Looking, scanVars
<1>6. CASE UNCHANGED <<rx_pack_flags, rx_cur, PacketStoreInSitu>>
  BY <1>6
<1> QED
  BY <1>1, <1>2, <1>3, <1>4, <1>5, <1>6
     DEF Next, Isr, Main, vars, Interrupt, LoseWord, PassOver, Quiet,
         DecodePreamble, DecodeData, ScanFlag, CheckCrc, CallbackReturns,
         decVars, bufVars, scanVars

LEMMA NextReader == IInv /\ [Next]_vars =>
                      ReaderHoldsComplete' /\ CallbackSeesCheckedFrame'
<1> SUFFICES ASSUME IInv, [Next]_vars
             PROVE  ReaderHoldsComplete' /\ CallbackSeesCheckedFrame'
  OBVIOUS
<1> USE DEF IInv, ReaderHoldsComplete, CallbackSeesCheckedFrame, Busy
<1>1. CASE Isr
  <2>1. CASE pc = "scan"
    BY <1>1, <2>1, IsrMain
  <2>2. CASE pc # "scan"
    <3>1. idx \in Bufs /\ rx_pack_flags[idx] = 2
      BY <2>2 DEF TypeOK
    <3>2. /\ rx_pack_flags'[idx] = 2 /\ mem'[idx] = mem[idx]
          /\ rx_pack_lens'[idx] = rx_pack_lens[idx]
      BY <1>1, <3>1, IsrKeepsComplete
    <3> QED
      BY <1>1, <3>2, IsrMain
  <2> QED
    BY <2>1, <2>2
<1>2. CASE Interrupt \/ LoseWord
  BY <1>2 DEF Interrupt, LoseWord, mainVars, bufVars
<1>3. CASE ScanFlag
  BY <1>3 DEF ScanFlag, bufVars
<1>4. CASE CheckCrc
  BY <1>4 DEF CheckCrc, bufVars
<1>5. CASE CallbackReturns
  BY <1>5 DEF CallbackReturns, bufVars
<1>6. CASE Release
  BY <1>6 DEF Release
<1>7. CASE UNCHANGED vars
  BY <1>7 DEF vars, mainVars, bufVars
<1> QED
  BY <1>1, <1>2, <1>3, <1>4, <1>5, <1>6, <1>7 DEF Next, Main

(* One step of the main loop brings it one buffer nearer to every other.   *)
LEMMA AheadDecreases ==
  ASSUME TypeOK, NEW i \in Bufs, i # idx, idx' = NextIdx
  PROVE  /\ Ahead(i) \in 1..(RXBUFS - 1)
         /\ Ahead(i)' = Ahead(i) - 1
BY ConstantsOK DEF TypeOK, Ahead, NextIdx, Bufs

LEMMA AheadBound ==
  ASSUME TypeOK, NEW i \in Bufs PROVE Ahead(i) \in 0..(RXBUFS - 1)
BY ConstantsOK DEF TypeOK, Ahead, Bufs

LEMMA NextOneRound == IInv /\ [Next]_vars => OneRound'
<1> SUFFICES ASSUME IInv, [Next]_vars, NEW i \in Bufs, rx_pack_flags'[i] = 2
             PROVE  waited'[i] + Ahead(i)' <= RXBUFS - 1
  BY DEF OneRound, Bufs
<1> USE DEF IInv, OneRound
<1>1. CASE Isr
  <2>1. Ahead(i)' = Ahead(i)
    BY <1>1, IsrMain DEF Ahead
  <2>2. CASE rx_pack_flags[i] = 2
    BY <1>1, <2>1, <2>2, IsrKeepsComplete
  <2>3. CASE rx_pack_flags[i] # 2
    <3>1. DecodeEnd /\ i = rx_cur
      BY <1>1, <2>3, FreedType
         DEF Isr, PassOver, Search, Quiet, Start, DecodeFirst, DecodePreamble,
             DecodeData, DecodeOverflow, DecodeEnd, bufVars, TypeOK
    <3>2. waited'[i] = 0
      BY <3>1 DEF DecodeEnd, TypeOK
    <3> QED
      BY <2>1, <3>2, AheadBound, ConstantsOK
  <2> QED
    BY <2>2, <2>3
<1>2. CASE ScanFlag
  <2>1. rx_pack_flags[i] = 2 /\ waited'[i] = waited[i]
    BY <1>2 DEF ScanFlag, bufVars
  <2>2. CASE rx_pack_flags[idx] = 2
    BY <1>2, <2>1, <2>2 DEF ScanFlag, Ahead
  <2>3. CASE rx_pack_flags[idx] # 2
    <3>1. i # idx /\ idx' = NextIdx
      BY <1>2, <2>1, <2>3 DEF ScanFlag
    <3>2. Ahead(i) \in 1..(RXBUFS - 1) /\ Ahead(i)' = Ahead(i) - 1
      BY <3>1, AheadDecreases
    <3>3. waited[i] \in Nat /\ waited[i] + Ahead(i) <= RXBUFS - 1
      BY <2>1 DEF TypeOK
    <3> QED
      BY <2>1, <3>2, <3>3, ConstantsOK
  <2> QED
    BY <2>2, <2>3
<1>3. CASE Release
  <2>1. rx_pack_flags[i] = 2 /\ i # idx
    BY <1>3 DEF Release, TypeOK
  <2>2. waited'[i] = waited[i] + 1
    BY <1>3, <2>1 DEF Release
  <2> QED
    BY <1>3, <2>1, <2>2, AheadDecreases, ConstantsOK DEF Release, TypeOK
<1>4. CASE UNCHANGED <<rx_pack_flags, waited, idx>>
  BY <1>4 DEF Ahead
<1> QED
  BY <1>1, <1>2, <1>3, <1>4
     DEF Next, Main, vars, Interrupt, LoseWord, CheckCrc, CallbackReturns,
         mainVars, bufVars

LEMMA NextInv == IInv /\ [Next]_vars => IInv'
BY NextTypeOK, NextNoLeak, NextOwnBuffer, NextReader, NextOneRound DEF IInv

THEOREM Invariance == Spec => []IInv
<1> QED BY InitInv, NextInv, PTL DEF Spec
-----------------------------------------------------------------------------
(* No sequence of faults and drops leaves a buffer marked in transit that  *)
(* the interrupt no longer holds.                                          *)
THEOREM NoLeak == Spec => []NoLeakedBuffer
<1>1. IInv => NoLeakedBuffer
  BY DEF IInv
<1> QED BY <1>1, Invariance, PTL

(* The interrupt never receives into a buffer the main loop can look at.   *)
THEOREM Exclusion == Spec => []ReceivingIntoOwnBuffer
<1>1. IInv => ReceivingIntoOwnBuffer
  BY DEF IInv
<1> QED BY <1>1, Invariance, PTL

(* The stack always works on a frame whose CRC is right.                   *)
THEOREM CheckedFrame == Spec => []CallbackSeesCheckedFrame
<1>1. IInv => CallbackSeesCheckedFrame
  BY DEF IInv
<1> QED BY <1>1, Invariance, PTL

(* A complete frame is overtaken at most once by every other buffer.       *)
THEOREM Overtaking == Spec => []BoundedOvertaking
<1>1. IInv => BoundedOvertaking
  <2> SUFFICES ASSUME IInv, NEW i \in Bufs, rx_pack_flags[i] = 2
               PROVE  waited[i] <= RXBUFS - 1
    BY DEF BoundedOvertaking
  <2>1. waited[i] + Ahead(i) <= RXBUFS - 1
    BY DEF IInv, OneRound
  <2>2. waited[i] \in Nat
    BY DEF IInv, TypeOK
  <2> QED BY <2>1, <2>2, AheadBound, ConstantsOK DEF IInv
<1> QED BY <1>1, Invariance, PTL

(* No step changes a buffer, its length or its flag under the main loop.   *)
THEOREM StableWhileRead == Spec => BufferStableWhileRead
<1> DEFINE Stable == Busy /\ Busy' => /\ mem'[idx] = mem[idx]
                                     /\ rx_pack_lens'[idx] = rx_pack_lens[idx]
                                     /\ rx_pack_flags'[idx] = 2
<1>1. IInv /\ [Next]_vars => [Stable]_vars
  <2> SUFFICES ASSUME IInv, Next, Busy, Busy'
               PROVE  /\ mem'[idx] = mem[idx]
                      /\ rx_pack_lens'[idx] = rx_pack_lens[idx]
                      /\ rx_pack_flags'[idx] = 2
    OBVIOUS
  <2>1. idx \in Bufs /\ rx_pack_flags[idx] = 2
    BY DEF IInv, TypeOK, ReaderHoldsComplete
  <2>2. CASE Isr
    BY <2>1, <2>2, IsrKeepsComplete
  <2>3. CASE Interrupt \/ LoseWord \/ ScanFlag \/ CheckCrc \/ CallbackReturns
    BY <2>1, <2>3 DEF Interrupt, LoseWord, ScanFlag, CheckCrc, CallbackReturns,
                      bufVars
  <2>4. CASE Release
    BY <2>4 DEF Release, Busy
  <2> QED
    BY <2>2, <2>3, <2>4 DEF Next, Main
<1> QED BY <1>1, Invariance, PTL DEF Spec, BufferStableWhileRead
-----------------------------------------------------------------------------
(* The refinement: one lemma for each actor.                               *)
LEMMA SameComplete ==
  ASSUME IInv, Isr, \A i \in Bufs : rx_pack_flags'[i] = 2 => rx_pack_flags[i] = 2
  PROVE  UNCHANGED <<PoolFrame, IF Busy THEN {idx} ELSE {},
                     [i \in Bufs |-> IF Complete(i) THEN waited[i] ELSE 0]>>
<1>1. UNCHANGED Busy /\ UNCHANGED idx
  BY IsrMain DEF Busy
<1>2. \A i \in Bufs : Complete(i)' = Complete(i)
  BY IsrKeepsComplete DEF Complete
<1>3. \A i \in Bufs : Complete(i) => /\ mem'[i] = mem[i] /\ waited'[i] = waited[i]
                                     /\ rx_pack_lens'[i] = rx_pack_lens[i]
  BY IsrKeepsComplete DEF Complete
<1> QED BY <1>1, <1>2, <1>3 DEF PoolFrame, Bufs

LEMMA StartStep == IInv /\ Start => [Pool!Next]_(Pool!vars)
<1> SUFFICES ASSUME IInv, Start PROVE [Pool!Next]_(Pool!vars)
  OBVIOUS
<1> USE DEF IInv
<1>0. Isr
  BY DEF Isr
<1>1. \A i \in Bufs : rx_pack_flags'[i] = 2 <=> rx_pack_flags[i] = 2
  BY FreedType DEF Start, FirstFree, TypeOK
<1>2. UNCHANGED <<PoolFrame, IF Busy THEN {idx} ELSE {},
                  [i \in Bufs |-> IF Complete(i) THEN waited[i] ELSE 0]>>
  BY <1>0, <1>1, SameComplete
<1>3. \A i \in Bufs : PoolSlot[i] = IF rx_pack_flags[i] = 2 THEN "full" ELSE "free"
  BY DEF Start, Looking, PoolSlot, Complete
<1>4. CASE PacketStoreInSitu' # 1
  <2>1. PoolSlot' = PoolSlot
    BY <1>1, <1>4 DEF Start, Looking, PoolSlot, Complete, Bufs
  <2> QED BY <1>2, <2>1 DEF Pool!vars
<1>5. CASE PacketStoreInSitu' = 1
  <2>1. PICK i \in Bufs : FirstFree(i) /\ rx_cur' = i
    BY <1>5 DEF Start
  <2>2. rx_pack_flags[i] # 2
    BY <2>1, FreedType DEF FirstFree
  <2>3. PoolSlot' = [PoolSlot EXCEPT ![i] = "filling"]
    BY <1>1, <1>3, <1>5, <2>1, <2>2 DEF PoolSlot, Complete, Bufs
  <2>4. Pool!Fill(i)
    BY <1>2, <1>3, <2>2, <2>3 DEF Pool!Fill
  <2> QED BY <2>4 DEF Pool!Next
<1> QED BY <1>4, <1>5

LEMMA DecodeStep ==
  IInv /\ (DecodeOverflow \/ DecodeEnd) => [Pool!Next]_(Pool!vars)
<1> SUFFICES ASSUME IInv, DecodeOverflow \/ DecodeEnd PROVE Pool!Next
  OBVIOUS
<1> USE DEF IInv
<1>0. Isr
  BY DEF Isr
<1>1. /\ PacketStoreInSitu = 1 /\ PacketStoreInSitu' = -1
      /\ rx_cur' = rx_cur /\ rx_cur \in Bufs /\ rx_pack_flags[rx_cur] # 2
      /\ \A i \in Bufs : i # rx_cur => rx_pack_flags'[i] = rx_pack_flags[i]
  BY DEF DecodeOverflow, DecodeEnd, Decoding, Looking, decVars, TypeOK,
         ReceivingIntoOwnBuffer
<1>2. PoolSlot[rx_cur] = "filling"
  BY <1>1 DEF PoolSlot, Complete
<1>3. CASE rx_pack_flags'[rx_cur] # 2
  <2>1. PoolSlot' = [PoolSlot EXCEPT ![rx_cur] = "free"]
    <3>1. \A i \in Bufs : PoolSlot'[i] = IF i = rx_cur THEN "free" ELSE PoolSlot[i]
      BY <1>1, <1>3 DEF PoolSlot, Complete
    <3> QED BY <3>1 DEF PoolSlot
  <2>2. \A i \in Bufs : rx_pack_flags'[i] = 2 => rx_pack_flags[i] = 2
    BY <1>1, <1>3
  <2>3. Pool!Abandon(rx_cur)
    BY <1>0, <1>2, <2>1, <2>2, SameComplete DEF Pool!Abandon
  <2> QED BY <1>1, <2>3 DEF Pool!Next
<1>4. CASE rx_pack_flags'[rx_cur] = 2
  <2>1. DecodeEnd
    BY <1>1, <1>4 DEF DecodeOverflow, TypeOK
  <2>2. PoolSlot' = [PoolSlot EXCEPT ![rx_cur] = "full"]
    BY <1>1, <1>4 DEF PoolSlot, Complete, Bufs
  <2>3. \A i \in Bufs \ {rx_cur} : PoolFrame'[i] = PoolFrame[i]
    BY <1>0, <1>1, IsrKeepsComplete DEF PoolFrame, Complete, Bufs
  <2>4. TypeOK'
    BY <1>0, NextTypeOK DEF Next
  <2>5. /\ PoolFrame' \in [Bufs -> SUBSET ([1..MaxLen -> Word] \X (0..MaxLen))]
        /\ PoolFrame'[rx_cur] # {}
    <3>1. \A i \in Bufs : /\ mem'[i] \in [1..MaxLen -> Word]
                          /\ rx_pack_lens'[i] \in 0..MaxLen
      BY <2>4 DEF TypeOK
    <3>2. \A i \in Bufs : <<mem'[i], rx_pack_lens'[i]>>
                            \in [1..MaxLen -> Word] \X (0..MaxLen)
      BY <3>1
    <3>3. \A i \in Bufs : PoolFrame'[i] \in SUBSET ([1..MaxLen -> Word] \X (0..MaxLen))
      BY <3>2 DEF PoolFrame, Complete
    <3>4. PoolFrame' = [i \in Bufs |-> PoolFrame'[i]]
      BY DEF PoolFrame
    <3>5. PoolFrame'[rx_cur] = {<<mem'[rx_cur], rx_pack_lens'[rx_cur]>>}
      BY <1>1, <1>4 DEF PoolFrame, Complete
    <3> QED BY <3>3, <3>4, <3>5
  <2>6. UNCHANGED (IF Busy THEN {idx} ELSE {})
    BY <1>0, IsrMain DEF Busy
  <2>7. UNCHANGED [i \in Bufs |-> IF Complete(i) THEN waited[i] ELSE 0]
    <3>1. \A i \in Bufs : (IF Complete(i) THEN waited[i] ELSE 0)'
                          = IF Complete(i) THEN waited[i] ELSE 0
      BY <1>1, <1>4, <2>1 DEF DecodeEnd, Complete, TypeOK
    <3> QED BY <3>1 DEF Bufs
  <2>8. Pool!Complete(rx_cur)
    BY <1>2, <2>2, <2>3, <2>5, <2>6, <2>7 DEF Pool!Complete
  <2> QED BY <1>1, <2>8 DEF Pool!Next
<1> QED BY <1>3, <1>4

(* The other steps of the interrupt do not show in the pool.               *)
LEMMA OtherIsrStep ==
  IInv /\ Isr /\ ~Start /\ ~DecodeOverflow /\ ~DecodeEnd => UNCHANGED Pool!vars
<1> SUFFICES ASSUME IInv, Isr, ~Start, ~DecodeOverflow, ~DecodeEnd
             PROVE  UNCHANGED Pool!vars
  OBVIOUS
<1> USE DEF IInv
<1>1. /\ \A i \in Bufs : rx_pack_flags'[i] = 2 => rx_pack_flags[i] = 2
      /\ rx_cur' = rx_cur
      /\ PacketStoreInSitu' = 1 <=> PacketStoreInSitu = 1
  BY DEF Isr, PassOver, Search, Quiet, DecodeFirst, DecodePreamble, DecodeData,
         Looking, Decoding, scanVars, decVars, bufVars, TypeOK
<1>2. UNCHANGED PoolSlot
  BY <1>1, IsrKeepsComplete DEF PoolSlot, Complete, Bufs
<1> QED BY <1>1, <1>2, SameComplete DEF Pool!vars

LEMMA MainStep == IInv /\ Main => [Pool!Next]_(Pool!vars)
<1> SUFFICES ASSUME IInv, Main PROVE [Pool!Next]_(Pool!vars)
  OBVIOUS
<1> USE DEF IInv
<1>1. CASE ScanFlag
  <2>1. UNCHANGED <<PoolSlot, PoolFrame,
                    [i \in Bufs |-> IF Complete(i) THEN waited[i] ELSE 0]>>
    BY <1>1 DEF ScanFlag, PoolSlot, PoolFrame, Complete, scanVars, decVars, bufVars
  <2>2. CASE rx_pack_flags[idx] = 2
    <3>1. Pool!Take(idx)
      BY <1>1, <2>1, <2>2 DEF ScanFlag, Pool!Take, PoolSlot, Complete, Busy, TypeOK
    <3> QED BY <3>1 DEF Pool!Next, TypeOK
  <2>3. CASE rx_pack_flags[idx] # 2
    <3>1. ~Busy /\ ~Busy'
      BY <1>1, <2>3 DEF ScanFlag, Busy
    <3> QED BY <2>1, <3>1 DEF Pool!vars
  <2> QED BY <2>2, <2>3
<1>2. CASE CheckCrc \/ CallbackReturns
  <2>1. /\ UNCHANGED <<scanVars, decVars, bufVars, waited, idx>>
        /\ Busy /\ Busy'
    BY <1>2 DEF CheckCrc, CallbackReturns, Busy
  <2> QED BY <2>1 DEF Pool!vars, PoolSlot, PoolFrame, Complete, scanVars, decVars, bufVars
<1>3. CASE Release
  <2>1. Busy /\ ~Busy' /\ idx \in Bufs /\ rx_pack_flags[idx] = 2
    BY <1>3 DEF Release, Busy, ReaderHoldsComplete, TypeOK
  <2>2. /\ rx_pack_flags'[idx] = 0
        /\ \A i \in Bufs : i # idx => rx_pack_flags'[i] = rx_pack_flags[i]
        /\ UNCHANGED <<PacketStoreInSitu, rx_cur, mem, rx_pack_lens>>
    BY <1>3 DEF Release, TypeOK, scanVars, decVars
  <2>3. PacketStoreInSitu = 1 => rx_cur # idx
    BY <2>1 DEF ReceivingIntoOwnBuffer
  <2>4. PoolSlot[idx] = "full" /\ PoolSlot' = [PoolSlot EXCEPT ![idx] = "free"]
    <3>1. \A i \in Bufs : PoolSlot'[i] = IF i = idx THEN "free" ELSE PoolSlot[i]
      BY <2>1, <2>2, <2>3 DEF PoolSlot, Complete
    <3> QED BY <2>1, <3>1 DEF PoolSlot, Complete
  <2>5. PoolFrame' = [PoolFrame EXCEPT ![idx] = {}]
    <3>1. \A i \in Bufs : PoolFrame'[i] = IF i = idx THEN {} ELSE PoolFrame[i]
      BY <2>1, <2>2 DEF PoolFrame, Complete
    <3> QED BY <3>1 DEF PoolFrame
  <2> DEFINE B == [i \in Bufs |-> IF Complete(i) THEN waited[i] ELSE 0]
  <2>6. \A t \in Bufs \ {idx} : PoolSlot[t] = "full" => B[t] < RXBUFS - 1
    <3> SUFFICES ASSUME NEW t \in Bufs, t # idx, rx_pack_flags[t] = 2
                 PROVE  waited[t] < RXBUFS - 1
      BY DEF PoolSlot, Complete
    <3>1. waited[t] + Ahead(t) <= RXBUFS - 1 /\ waited[t] \in Nat
      BY DEF OneRound, TypeOK
    <3>2. Ahead(t) \in 1..(RXBUFS - 1)
      BY <1>3, AheadDecreases DEF Release
    <3> QED BY <3>1, <3>2, ConstantsOK
  <2>7. B' = [t \in Bufs |-> IF PoolSlot[t] = "full" /\ t # idx THEN B[t] + 1 ELSE 0]
    <3>1. \A t \in Bufs : (IF Complete(t) THEN waited[t] ELSE 0)'
                        = IF PoolSlot[t] = "full" /\ t # idx THEN B[t] + 1 ELSE 0
      BY <1>3, <2>2 DEF Release, PoolSlot, Complete
    <3> QED BY <3>1 DEF Bufs
  <2>8. PICK b \in Bufs : b = idx
    BY <2>1
  <2>9. Pool!GiveBack(b)
    BY <2>1, <2>4, <2>5, <2>6, <2>7, <2>8 DEF Pool!GiveBack
  <2> QED BY <2>9 DEF Pool!Next
<1> QED BY <1>1, <1>2, <1>3 DEF Main

LEMMA PoolInit == Init => Pool!Init
BY DEF Init, Pool!Init, PoolSlot, PoolFrame, Complete, Busy

LEMMA PoolStep == IInv /\ [Next]_vars => [Pool!Next]_(Pool!vars)
<1> SUFFICES ASSUME IInv, [Next]_vars PROVE [Pool!Next]_(Pool!vars)
  OBVIOUS
<1>1. CASE Interrupt \/ LoseWord \/ UNCHANGED vars
  BY <1>1 DEF Interrupt, LoseWord, vars, scanVars, decVars, bufVars, mainVars,
              Pool!vars, PoolSlot, PoolFrame, Complete, Busy
<1> QED
  BY <1>1, StartStep, DecodeStep, OtherIsrStep, MainStep DEF Next

(* Interrupt and main loop together implement the pool of frames: one      *)
(* writer, one reader, frames kept until given back, bounded overtaking.   *)
THEOREM Refinement == Spec => ImplementsPool
<1> QED BY PoolInit, PoolStep, Invariance, PTL DEF Spec, ImplementsPool, Pool!Spec
-----------------------------------------------------------------------------
(* No frame twice.  The first word of a frame goes by once, so it lies in  *)
(* no more than one of the buffers in use; of those a frame that was       *)
(* delivered is only in the one about to be released.                      *)
First(w) == w.kind \in {"data", "tail"} /\ w.k = 1

(* The line is past the first word of frame f.                             *)
Past(f) == \/ f < word.f
           \/ f = word.f /\ \/ word.kind = "null"
                            \/ word.kind \in {"data", "stop", "tail"} /\ word.k > 1

(* Buffer i holds the beginning of a frame, complete or in progress.       *)
InUse(i) == \/ rx_pack_flags[i] = 2
            \/ PacketStoreInSitu = 1 /\ rx_cur = i /\ rec_place > 0

Begun(i) == InUse(i) /\ First(mem[i][1])

BegunPast     == \A i \in Bufs : Begun(i) => Past(mem[i][1].f)
BegunApart    == \A i, j \in Bufs :
                   Begun(i) /\ Begun(j) /\ mem[i][1].f = mem[j][1].f => i = j
DeliveredPast == \A f \in delivered : Past(f)
BegunFresh    == \A i \in Bufs : Begun(i) /\ ~(pc = "release" /\ idx = i)
                                  => mem[i][1].f \notin delivered

OnceInv == BegunPast /\ BegunApart /\ DeliveredPast /\ BegunFresh

LEMMA WordAdvances ==
  ASSUME TypeOK, word' \in NextWords(word)
  PROVE  /\ \A f \in 0..MaxFrames : Past(f) => Past(f)'
         /\ First(word) => ~Past(word.f) /\ word'.f = word.f /\ Past(word.f)'
<1> USE DEF Past, First
<1>0. word \in Word /\ word.f \in Int /\ word.k \in Nat /\ word.kind \in Kinds
  BY DEF TypeOK, Word
<1>1. CASE word.kind = "null"
  <2>1. (word'.kind = "null" /\ word'.f = word.f) \/ word'.f = word.f + 1
    BY <1>0, <1>1 DEF NextWords, Word
  <2> QED BY <1>0, <1>1, <2>1
<1>2. CASE word.kind = "pre"
  <2>1. word'.f = word.f
    BY <1>0, <1>2 DEF NextWords, Word
  <2> QED BY <1>0, <1>2, <2>1
<1>3. CASE word.kind = "tail"
  <2>1. word'.f = word.f /\ word'.kind = "null"
    BY <1>0, <1>3 DEF NextWords, Null
  <2> QED BY <1>0, <1>3, <2>1
<1>4. CASE word.kind \in {"sfd", "data", "stop"}
  <2>1. /\ word'.f = word.f /\ word'.k = word.k + 1
        /\ word'.kind \in {"data", "stop", "tail"}
    BY <1>0, <1>4 DEF NextWords
  <2> QED BY <1>0, <1>4, <2>1
<1> QED BY <1>0, <1>1, <1>2, <1>3, <1>4 DEF Kinds

(* What the interrupt does to the buffers in use: it gives some up, and    *)
(* puts the word it looks at first into the one it receives into.          *)
LEMMA IsrBegins ==
  ASSUME IInv, Isr
  PROVE  /\ word' = word \/ word' \in NextWords(word)
         /\ \A i \in Bufs : InUse(i)' =>
              \/ InUse(i) /\ mem'[i][1] = mem[i][1]
              \/ i = rx_cur /\ mem'[i][1] = word /\ word' \in NextWords(word)
<1> USE DEF IInv, InUse
<1>1. CASE PassOver \/ Quiet \/ DecodePreamble
  BY <1>1 DEF PassOver, Quiet, DecodePreamble, Consume, scanVars, decVars, bufVars
<1>2. CASE Search
  BY <1>2 DEF Search, Looking, Consume, lineVars, scanVars, decVars, bufVars
<1>3. CASE Start
  <2>1. /\ \A i \in Bufs : rx_pack_flags'[i] = 2 <=> rx_pack_flags[i] = 2
        /\ PacketStoreInSitu' = -1 \/ rec_place' = 0
        /\ mem' = mem
        /\ word' = word \/ word' \in NextWords(word)
    BY <1>3, FreedType DEF Start, FirstFree, TypeOK, Consume, lineVars
  <2> QED BY <2>1
<1>4. CASE DecodeFirst
  <2>1. /\ \A i \in Bufs : rx_pack_flags'[i] = 2 => rx_pack_flags[i] = 2
        /\ UNCHANGED <<PacketStoreInSitu, rx_cur, rec_place, mem>>
        /\ word' \in NextWords(word)
    BY <1>4 DEF DecodeFirst, Consume, TypeOK, scanVars
  <2> QED BY <2>1
<1>5. CASE DecodeData
  <2>1. /\ UNCHANGED <<PacketStoreInSitu, rx_cur, rx_pack_flags>>
        /\ word' \in NextWords(word)
        /\ \A i \in Bufs : i # rx_cur => mem'[i] = mem[i]
        /\ mem'[rx_cur] = [mem[rx_cur] EXCEPT ![rec_place + 1] = word]
    BY <1>5 DEF DecodeData, Consume, TypeOK, scanVars, bufVars
  <2>2. PacketStoreInSitu = 1 /\ rx_pack_flags[rx_cur] # 2 /\ rec_place \in 0..MaxLen
    BY <1>5 DEF DecodeData, Decoding, Looking, ReceivingIntoOwnBuffer, TypeOK
  <2>3. mem'[rx_cur][1] = IF rec_place = 0 THEN word ELSE mem[rx_cur][1]
    BY <2>1, <2>2, ConstantsOK DEF TypeOK
  <2>4. ASSUME NEW i \in Bufs, i # rx_cur, InUse(i)'
        PROVE  InUse(i) /\ mem'[i][1] = mem[i][1]
    BY <2>1, <2>4
  <2>5. ASSUME rec_place # 0
        PROVE  InUse(rx_cur) /\ mem'[rx_cur][1] = mem[rx_cur][1]
    BY <2>2, <2>3, <2>5
  <2> QED BY <2>1, <2>3, <2>4, <2>5
<1>6. CASE DecodeOverflow
  <2>1. /\ \A i \in Bufs : rx_pack_flags'[i] = 2 => rx_pack_flags[i] = 2
        /\ PacketStoreInSitu' = -1 /\ mem' = mem
        /\ word' \in NextWords(word)
    BY <1>6 DEF DecodeOverflow, Consume, TypeOK
  <2> QED BY <2>1
<1>7. CASE DecodeEnd
  <2>1. /\ PacketStoreInSitu = 1 /\ PacketStoreInSitu' = -1
        /\ word' \in NextWords(word)
        /\ rec_place \in 0..MaxLen
    BY <1>7 DEF DecodeEnd, Decoding, Looking, Consume, TypeOK
  <2>2. \A i \in Bufs : i # rx_cur => /\ mem'[i] = mem[i]
                                     /\ rx_pack_flags'[i] = rx_pack_flags[i]
    BY <1>7 DEF DecodeEnd, TypeOK
  <2>3. CASE IsNull(word)
    <3>1. mem' = mem
      BY <1>7, <2>3 DEF DecodeEnd
    <3>2. rx_pack_flags'[rx_cur] = 2 => rec_place > Runt
      BY <1>7, <2>3 DEF DecodeEnd, TypeOK
    <3> QED BY <2>1, <2>2, <3>1, <3>2, ConstantsOK
  <2>4. CASE ~IsNull(word)
    <3>1. mem'[rx_cur] = [mem[rx_cur] EXCEPT ![rec_place + 1] = word]
      BY <1>7, <2>4 DEF DecodeEnd, TypeOK
    <3>2. mem'[rx_cur][1] = IF rec_place = 0 THEN word ELSE mem[rx_cur][1]
      BY <2>1, <3>1, ConstantsOK DEF TypeOK
    <3> QED BY <2>1, <2>2, <3>2
  <2> QED BY <2>3, <2>4
<1> QED BY <1>1, <1>2, <1>3, <1>4, <1>5, <1>6, <1>7 DEF Isr

LEMMA HeadType ==
  ASSUME TypeOK, NEW i \in Bufs
  PROVE  mem[i][1] \in Word /\ mem[i][1].f \in 0..MaxFrames
<1>1. mem[i][1] \in Word
  BY ConstantsOK DEF TypeOK
<1> QED BY <1>1 DEF Word

LEMMA InitOnce == Init => OnceInv
BY ConstantsOK DEF Init, OnceInv, BegunPast, BegunApart, DeliveredPast, BegunFresh,
                   Begun, InUse

LEMMA IsrOnce == IInv /\ OnceInv /\ Isr => OnceInv'
<1> SUFFICES ASSUME IInv, OnceInv, Isr PROVE OnceInv'
  OBVIOUS
<1> USE DEF IInv, OnceInv, Begun
<1>1. \A f \in 0..MaxFrames : Past(f) => Past(f)'
  BY IsrBegins, WordAdvances DEF Past
<1>2. delivered \subseteq 0..MaxFrames /\ \A i \in Bufs : mem[i][1].f \in 0..MaxFrames
  BY HeadType DEF TypeOK
<1> DEFINE New(i) == i = rx_cur /\ mem'[i][1] = word /\ First(word)
                     /\ word' \in NextWords(word)
           Old(i) == Begun(i) /\ mem'[i][1] = mem[i][1]
<1>3. \A i \in Bufs : Begun(i)' => Old(i) \/ New(i)
  BY IsrBegins
<1>4. \A i \in Bufs : New(i) => ~Past(word.f) /\ word'.f = word.f /\ Past(word.f)'
  BY WordAdvances
<1>5. BegunPast'
  <2> SUFFICES ASSUME NEW i \in Bufs, Begun(i)' PROVE Past(mem[i][1].f)'
    BY DEF BegunPast, Bufs
  <2>1. CASE Old(i)
    <3>1. Past(mem[i][1].f)
      BY <2>1 DEF BegunPast
    <3> QED BY <1>1, <1>2, <2>1, <3>1 DEF Past
  <2>2. CASE New(i)
    BY <1>4, <2>2 DEF Past
  <2> QED BY <1>3, <2>1, <2>2
<1>6. BegunApart'
  BY <1>3, <1>4 DEF BegunPast, BegunApart
<1>7. DeliveredPast'
  BY <1>1, <1>2, IsrMain DEF DeliveredPast
<1>8. BegunFresh'
  BY <1>3, <1>4, IsrMain DEF DeliveredPast, BegunFresh
<1> QED BY <1>5, <1>6, <1>7, <1>8

LEMMA NextOnce == IInv /\ OnceInv /\ [Next]_vars => OnceInv'
<1> SUFFICES ASSUME IInv, OnceInv, [Next]_vars PROVE OnceInv'
  OBVIOUS
<1> USE DEF OnceInv, BegunPast, BegunApart, DeliveredPast, BegunFresh, Begun, InUse
<1>1. CASE Isr
  BY <1>1, IsrOnce
<1>2. CASE LoseWord
  <2>1. \A f \in 0..MaxFrames : Past(f) => Past(f)'
    BY <1>2, WordAdvances DEF LoseWord, IInv
  <2>2. delivered \subseteq 0..MaxFrames /\ \A i \in Bufs : mem[i][1].f \in 0..MaxFrames
    BY HeadType DEF IInv, TypeOK
  <2> QED BY <1>2, <2>1, <2>2 DEF LoseWord, scanVars, decVars, bufVars, mainVars
<1>3. CASE Interrupt \/ ScanFlag \/ CheckCrc \/ UNCHANGED vars
  <2>1. /\ UNCHANGED <<word, scanVars, decVars, bufVars, delivered>>
        /\ ~(pc = "release" /\ pc' # "release")
        /\ pc = "release" => idx' = idx
    BY <1>3 DEF Interrupt, ScanFlag, CheckCrc, vars, mainVars, lineVars
  <2>2. \A f : Past(f) <=> Past(f)'
    BY <2>1 DEF Past
  <2> QED BY <2>1, <2>2 DEF scanVars, decVars, bufVars
<1>4. CASE CallbackReturns
  <2>1. /\ UNCHANGED <<word, scanVars, decVars, bufVars, idx>>
        /\ pc = "callback" /\ pc' = "release"
        /\ delivered' = delivered \cup {mem[idx][1].f}
    BY <1>4 DEF CallbackReturns, lineVars
  <2>2. idx \in Bufs /\ Begun(idx)
    BY <2>1, ConstantsOK DEF IInv, TypeOK, ReaderHoldsComplete, Busy,
       CallbackSeesCheckedFrame, Intact, First
  <2>3. \A f : Past(f) <=> Past(f)'
    BY <2>1 DEF Past
  <2> QED BY <2>1, <2>2, <2>3 DEF scanVars, decVars, bufVars
<1>5. CASE Release
  <2>1. /\ UNCHANGED <<word, scanVars, decVars, mem, delivered>>
        /\ pc = "release" /\ idx \in Bufs
        /\ rx_pack_flags' = [rx_pack_flags EXCEPT ![idx] = 0]
    BY <1>5 DEF Release, lineVars, IInv, TypeOK
  <2>2. rx_pack_flags \in [Bufs -> {0, 1, 2}]
    BY DEF IInv, TypeOK
  <2>3. ~(PacketStoreInSitu = 1 /\ rx_cur = idx)
    BY <2>1 DEF IInv, ReaderHoldsComplete, Busy, ReceivingIntoOwnBuffer
  <2>5. \A i \in Bufs : InUse(i)' => InUse(i) /\ i # idx
    BY <2>1, <2>2, <2>3 DEF scanVars, decVars
  <2>4. \A f : Past(f) <=> Past(f)'
    BY <2>1 DEF Past
  <2> QED BY <2>1, <2>4, <2>5
<1> QED BY <1>1, <1>2, <1>3, <1>4, <1>5 DEF Next, Main

(* Both invariants together are inductive.                                 *)
THEOREM OnceInvariance == Spec => [](IInv /\ OnceInv)
<1>1. Init => IInv /\ OnceInv
  BY InitInv, InitOnce
<1>2. IInv /\ OnceInv /\ [Next]_vars => (IInv /\ OnceInv)'
  BY NextInv, NextOnce
<1> QED BY <1>1, <1>2, PTL DEF Spec

(* The stack is handed no frame of the line twice, whatever was lost,      *)
(* dropped or overtaken.                                                   *)
THEOREM NoFrameTwice == Spec => DeliveredOnce
<1>1. IInv /\ OnceInv => (pc = "callback" => mem[idx][1].f \notin delivered)
  BY DEF IInv, TypeOK, ReaderHoldsComplete, Busy, CallbackSeesCheckedFrame, Intact,
         First, OnceInv, BegunFresh, Begun, InUse, Bufs
<1>2. IInv /\ OnceInv /\ [Next]_vars
        => [pc = "callback" /\ pc' # pc => mem[idx][1].f \notin delivered]_vars
  BY <1>1
<1> QED BY <1>2, OnceInvariance, PTL DEF Spec, DeliveredOnce
-----------------------------------------------------------------------------
(* The capture only watches: what holds of the receive path holds with it. *)
THEOREM CaptureWatches == CSpec => Spec
<1>1. [CNext]_capVars => [Next]_vars
  BY DEF CNext, capVars, CInterrupt, CStart, CEnd, COther, CCheckCrc, Command, CKEmpty,
         CKSet, CN, Next, Isr, Main
<1> QED BY <1>1, PTL DEF CSpec, CInit, Spec

(* Whatever CK empties, and in the middle of whichever frame: inside the   *)
(* interrupt an armed store has samples of the frame in progress.          *)
Begins == left > 0 /\ PacketStoreInSitu = 1 /\ Armed => store # Nothing

LEMMA InterruptBegins == TypeOK /\ CInterrupt => Begins'
BY DEF CInterrupt, Interrupt, scanVars, Begins, Armed, Nothing, TypeOK, Word

LEMMA StartBegins == TypeOK /\ Begins /\ CStart => Begins'
<1> SUFFICES ASSUME TypeOK, Begins, CStart PROVE Begins'
  OBVIOUS
<1>1. word.f # Nothing
  BY DEF TypeOK, Word, Nothing
<1>2. CASE \E i \in Bufs : Freed[i] = 0
  <2>1. CASE Armed
    BY <1>1, <1>2, <2>1 DEF CStart, Begins
  <2>2. CASE ~Armed
    BY <2>2 DEF CStart, Begins, Armed, captureVars
  <2> QED
    BY <2>1, <2>2
<1>3. CASE ~\E i \in Bufs : Freed[i] = 0
  <2>1. PacketStoreInSitu' = -1
    BY <1>3 DEF CStart, Start, FirstFree
  <2> QED
    BY <2>1 DEF Begins
<1> QED
  BY <1>2, <1>3

LEMMA OtherBegins ==
  TypeOK /\ Begins /\ (CEnd \/ COther \/ CCheckCrc \/ Command \/ UNCHANGED capVars) => Begins'
<1> SUFFICES ASSUME TypeOK, Begins,
                    CEnd \/ COther \/ CCheckCrc \/ Command \/ UNCHANGED capVars
             PROVE  Begins'
  OBVIOUS
<1>1. CASE CEnd
  BY <1>1 DEF CEnd, DecodeOverflow, DecodeEnd, Begins
<1>2. CASE CCheckCrc \/ Command
  BY <1>2 DEF CCheckCrc, CheckCrc, lineVars, Command, CKEmpty, CKSet, CN, vars, Begins
<1>3. CASE COther
  <2>1. UNCHANGED captureVars
    BY <1>3 DEF COther
  <2>2. CASE LoseWord \/ ScanFlag \/ CallbackReturns \/ Release
    BY <2>2 DEF LoseWord, ScanFlag, CallbackReturns, Release, lineVars, Begins
  <2>3. CASE Search \/ Quiet
    BY <2>3 DEF Search, Quiet, Looking, scanVars, Begins
  <2>4. CASE PassOver \/ DecodeFirst \/ DecodePreamble \/ DecodeData
    <3>1. left > 0 /\ PacketStoreInSitu' = PacketStoreInSitu
      BY <2>4 DEF PassOver, DecodeFirst, DecodePreamble, DecodeData, Decoding, Looking, scanVars
    <3> QED
      BY <2>1, <3>1 DEF Begins, Armed, captureVars
  <2> QED
    BY <1>3, <2>2, <2>3, <2>4 DEF COther
<1>4. CASE UNCHANGED capVars
  BY <1>4 DEF capVars, captureVars, vars, lineVars, scanVars, Begins, Armed
<1> QED
  BY <1>1, <1>2, <1>3, <1>4

(* A locked store is changed and released by commands only, and the        *)
(* interrupt locks no empty one.                                           *)
THEOREM StoreLocked == CSpec => LockedStoreKept
<1>1. CInit => Begins
  BY DEF CInit, Init, Begins, Armed
<1>2. TypeOK /\ Begins /\ [CNext]_capVars => Begins'
  BY InterruptBegins, StartBegins, OtherBegins DEF CNext
<1>3. TypeOK /\ Begins /\ [CNext]_capVars =>
        [/\ KeepNextPacket = 4 => UNCHANGED captureVars \/ Command
         /\ left > 0 /\ KeepNextPacket # 4 /\ KeepNextPacket' = 4 => store' # Nothing]_capVars
  <2> SUFFICES ASSUME TypeOK, Begins, CNext
               PROVE  /\ KeepNextPacket = 4 => UNCHANGED captureVars \/ Command
                      /\ left > 0 /\ KeepNextPacket # 4 /\ KeepNextPacket' = 4
                           => store' # Nothing
    OBVIOUS
  <2>1. CASE CInterrupt \/ COther
    BY <2>1 DEF CInterrupt, COther, captureVars, Armed
  <2>2. CASE CStart
    BY <2>2 DEF CStart, captureVars, Armed, TypeOK, Word, Nothing
  <2>3. CASE CEnd
    BY <2>3 DEF CEnd, DecodeOverflow, DecodeEnd, Decoding, Looking, captureVars, Armed, Begins
  <2>4. CASE CCheckCrc
    BY <2>4 DEF CCheckCrc, CheckCrc, captureVars
  <2>5. CASE Command
    BY <2>5 DEF Command, CKEmpty, CKSet, CN
  <2> QED
    BY <2>1, <2>2, <2>3, <2>4, <2>5 DEF CNext
<1> QED BY <1>1, <1>2, <1>3, CaptureWatches, TypeCorrect, PTL DEF CSpec, LockedStoreKept
=============================================================================
