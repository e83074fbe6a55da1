------------------------------- MODULE RxPath -------------------------------
(***************************************************************************)
(* The receive path of the Ethernet PHY in software (user/manchestrate.c,  *)
(* etherhelp/net_compat.c).  The I2S engine samples the line into blocks   *)
(* of words; at the end of a block the interrupt slc_isr calls             *)
(* GotNewI2SData, which finds the start of a frame, takes a receive buffer *)
(* (ResetPacketInternal) and decodes words into it (DecodePacket) until    *)
(* the end of the frame.  The main loop, et_backend_tick_quick, polls the  *)
(* flags of the RXBUFS buffers, checks the CRC of the complete ones, hands *)
(* them to the stack and releases them.  The interrupt preempts the main   *)
(* loop between any two of its steps; the main loop never preempts the     *)
(* interrupt.                                                              *)
(*                                                                         *)
(* The interrupt is cut at every word of the block.  A word of samples is  *)
(* abstracted to what the decoder can tell of it.                          *)
(***************************************************************************)
EXTENDS Integers

CONSTANTS
  RXBUFS,       \* number of receive buffers
  BlockLen,     \* words in a DMA block (I2SDMABUFLEN)
  MaxLen,       \* words a receive buffer can hold (MAX_FRAMELEN)
  Runt,         \* a frame of at most this many words is dropped (9 in the code)
  PreWords,     \* words of preamble before the start-of-frame delimiter
  GapWords,     \* quiet words between two frames, at least
  LineWords,    \* words of the longest frame on the line
  MaxFrames,    \* bound: frames on the line in a behaviour
  Lossy         \* whether words can go by without an interrupt

ASSUME ConstantsOK ==
  /\ RXBUFS \in Nat \ {0} /\ BlockLen \in Nat \ {0} /\ MaxLen \in Nat \ {0}
  /\ PreWords \in Nat \ {0} /\ LineWords \in Nat \ {0}
  /\ Runt \in Nat /\ GapWords \in Nat /\ MaxFrames \in Nat
  /\ Lossy \in BOOLEAN

VARIABLES
  word,         \* the word of the line the interrupt looks at next
  left,         \* words of the block not consumed yet; 0: not in the interrupt
  isr,          \* "run", "skip" the next word, "drain" the block after a return
  PacketStoreInSitu, stripe,
  gl_in_preamble, rec_place, rx_cur,
  rx_pack_flags, rx_pack_lens,
  mem,          \* what each receive buffer holds
  pc, idx,      \* main loop: where in et_backend_tick_quick, and its i
  delivered,    \* history: frames handed to et_receivecallback
  waited        \* history: buffers released while this one was complete

lineVars == <<word, left, isr>>
scanVars == <<PacketStoreInSitu, stripe>>
decVars  == <<gl_in_preamble, rec_place, rx_cur>>
bufVars  == <<rx_pack_flags, rx_pack_lens, mem>>
mainVars == <<pc, idx, delivered>>
vars     == <<lineVars, scanVars, decVars, bufVars, mainVars, waited>>

Bufs == 0..RXBUFS-1
-----------------------------------------------------------------------------
(* The line.  k counts the words left of a gap or of a preamble, and       *)
(* numbers the words of a frame.  "stop" is a code violation inside a      *)
(* frame, "tail" the last word of it: both, and quiet words, carry a run   *)
(* of equal samples long enough for the decoder to see an end of packet.   *)

Kinds == {"null", "pre", "sfd", "data", "stop", "tail"}
Word  == [kind : Kinds, f : 0..MaxFrames, k : Nat]

Null(f, k) == [kind |-> "null", f |-> f, k |-> k]

IsNull(w)  == w.kind = "null"
EndMark(w) == w.kind \in {"null", "stop", "tail"}

NextWords(w) ==
  CASE w.kind = "null" /\ w.k > 0 -> {[w EXCEPT !.k = @ - 1]}
    [] w.kind = "null" /\ w.k = 0 ->
         {w} \cup {[kind |-> "pre", f |-> g, k |-> PreWords] :
                     g \in {w.f + 1} \cap (1..MaxFrames)}
    [] w.kind = "pre" /\ w.k > 1 -> {[w EXCEPT !.k = @ - 1]}
    [] w.kind = "pre" /\ w.k <= 1 -> {[kind |-> "sfd", f |-> w.f, k |-> 0]}
    [] w.kind = "tail" -> {Null(w.f, GapWords)}
    [] OTHER -> {[kind |-> d, f |-> w.f, k |-> w.k + 1] :
                   d \in IF w.k + 1 < LineWords THEN {"data", "stop", "tail"}
                                                ELSE {"tail"}}

(* The first n words of a buffer are one whole frame: its CRC is right.    *)
Intact(m, n) ==
  n > 0 /\ \A k \in 1..n : /\ m[k].f = m[1].f
                           /\ m[k].k = k
                           /\ m[k].kind = IF k = n THEN "tail" ELSE "data"
-----------------------------------------------------------------------------
Init ==
  /\ word = Null(0, 0) /\ left = 0 /\ isr = "run"
  /\ PacketStoreInSitu = 0 /\ stripe = 0
  /\ gl_in_preamble = 0 /\ rec_place = 0 /\ rx_cur = 0
  /\ rx_pack_flags = [i \in Bufs |-> 0]
  /\ rx_pack_lens  = [i \in Bufs |-> 0]
  /\ mem = [i \in Bufs |-> [k \in 1..MaxLen |-> Null(0, 0)]]
  /\ pc = "scan" /\ idx = 0 /\ delivered = {}
  /\ waited = [i \in Bufs |-> 0]

(* i++ in the interrupt: the word is consumed, and what is to be done with *)
(* the next one is `then`.                                                 *)
Consume(then) ==
  /\ word' \in NextWords(word)
  /\ left' = left - 1
  /\ isr'  = IF left = 1 THEN "run" ELSE then

(* A word that the decoder looks at in state s of PacketStoreInSitu.       *)
Looking(s) == left > 0 /\ isr = "run" /\ PacketStoreInSitu = s
-----------------------------------------------------------------------------
(* A block of samples is complete: the interrupt enters GotNewI2SData.     *)
Interrupt ==
  /\ left = 0
  /\ left' = BlockLen
  /\ UNCHANGED <<word, isr, scanVars, decVars, bufVars, mainVars, waited>>

(* The engine fell over and was kicked (KickRX) or restarted               *)
(* (testi2s_init): words go by that no interrupt is raised for.            *)
LoseWord ==
  /\ Lossy /\ left = 0
  /\ word' \in NextWords(word)
  /\ UNCHANGED <<left, isr, scanVars, decVars, bufVars, mainVars, waited>>

(* A word passed over: by the i += 2 of the quiet search, or because       *)
(* DecodePacket returned 0 before the end of the block.                    *)
PassOver ==
  /\ left > 0 /\ isr \in {"skip", "drain"}
  /\ Consume(IF isr = "drain" THEN "drain" ELSE "run")
  /\ UNCHANGED <<scanVars, decVars, bufVars, mainVars, waited>>

(* PacketStoreInSitu < 0: quiet words are passed; the first word that is   *)
(* not quiet ends the search and is looked at again.                       *)
Search ==
  /\ Looking(-1)
  /\ \/ /\ IsNull(word)
        /\ Consume("run")
        /\ UNCHANGED scanVars
     \/ /\ ~IsNull(word)
        /\ PacketStoreInSitu' = 0 /\ stripe' = 1
        /\ UNCHANGED lineVars
  /\ UNCHANGED <<decVars, bufVars, mainVars, waited>>

(* PacketStoreInSitu = 0: every other word counts.                         *)
Quiet ==
  /\ Looking(0)
  /\ IsNull(word) \/ stripe # 2
  /\ stripe' = IF IsNull(word) THEN 0 ELSE stripe + 1
  /\ Consume("skip")
  /\ UNCHANGED <<PacketStoreInSitu, decVars, bufVars, mainVars, waited>>

(* ResetPacketInternal: the buffer of an unfinished packet is free again;  *)
(* the first free buffer is taken.                                         *)
(* Mutant: the unfinished packet keeps its buffer.                         *)
FreedNothing == rx_pack_flags
Freed == IF rx_pack_flags[rx_cur] # 2
         THEN [rx_pack_flags EXCEPT ![rx_cur] = 0] ELSE rx_pack_flags

(* Mutant: a complete packet nobody has taken yet counts as free.          *)
FirstFreeOrFull(i) == Freed[i] # 1 /\ \A j \in 0..i-1 : Freed[j] = 1
FirstFree(i) == Freed[i] = 0 /\ \A j \in 0..i-1 : Freed[j] # 0

(* The third word in a row that is not quiet: a frame starts.  Without a   *)
(* free buffer the decoder searches on from the same word.  With one it    *)
(* goes on with the next word; at the end of the block there is none, and  *)
(* r, which DecodePacket did not set, still is the index of the buffer:    *)
(* 0 reads as "more data to come", any other as "packet is complete".      *)
Start ==
  /\ Looking(0) /\ ~IsNull(word) /\ stripe = 2
  /\ stripe' = 0
  /\ \/ /\ \A i \in Bufs : Freed[i] # 0
        /\ PacketStoreInSitu' = -1
        /\ rx_pack_flags' = Freed
        /\ UNCHANGED <<lineVars, decVars>>
     \/ \E i \in Bufs :
          /\ FirstFree(i)
          /\ rx_pack_flags' = [Freed EXCEPT ![i] = 1]
          /\ rx_cur' = i /\ gl_in_preamble' = 2 /\ rec_place' = 0
          /\ PacketStoreInSitu' = IF left = 1 /\ i # 0 THEN -1 ELSE 1
          /\ Consume("run")
  /\ UNCHANGED <<rx_pack_lens, mem, mainVars, waited>>
-----------------------------------------------------------------------------
(* DecodePacket, first word: a faulty one frees the buffer and abandons    *)
(* the block, but the decoder stays in this state.                         *)
DecodeFirst ==
  /\ Looking(1) /\ gl_in_preamble = 2
  /\ IF EndMark(word)
     THEN /\ rx_pack_flags' = [rx_pack_flags EXCEPT ![rx_cur] = 0]
          /\ Consume("drain")
          /\ UNCHANGED gl_in_preamble
     ELSE /\ gl_in_preamble' = 1
          /\ Consume("run")
          /\ UNCHANGED rx_pack_flags
  /\ UNCHANGED <<scanVars, rec_place, rx_cur, rx_pack_lens, mem, mainVars, waited>>

(* Anything but the alternating preamble breaks it; the rest of that word  *)
(* does not fill a byte.                                                   *)
DecodePreamble ==
  /\ Looking(1) /\ gl_in_preamble = 1
  /\ gl_in_preamble' = IF word.kind = "pre" THEN 1 ELSE 0
  /\ Consume("run")
  /\ UNCHANGED <<scanVars, rec_place, rx_cur, bufVars, mainVars, waited>>

(* Words of the frame.  A quiet word ends it without adding to it.         *)
Decoding == Looking(1) /\ gl_in_preamble = 0

DecodeData ==
  /\ Decoding /\ ~EndMark(word) /\ rec_place < MaxLen
  /\ mem' = [mem EXCEPT ![rx_cur][rec_place + 1] = word]
  /\ rec_place' = rec_place + 1
  /\ Consume("run")
  /\ UNCHANGED <<scanVars, gl_in_preamble, rx_cur, rx_pack_flags, rx_pack_lens,
                 mainVars, waited>>

DecodeOverflow ==
  /\ Decoding /\ ~IsNull(word) /\ rec_place >= MaxLen
  /\ rx_pack_flags' = [rx_pack_flags EXCEPT ![rx_cur] = 0]
  /\ PacketStoreInSitu' = -1
  /\ Consume("run")
  /\ UNCHANGED <<stripe, decVars, rx_pack_lens, mem, mainVars, waited>>

DecodeEnd ==
  /\ Decoding /\ EndMark(word) /\ (IsNull(word) \/ rec_place < MaxLen)
  /\ LET n == IF IsNull(word) THEN rec_place ELSE rec_place + 1
     IN  /\ mem' = IF IsNull(word) THEN mem ELSE [mem EXCEPT ![rx_cur][n] = word]
         /\ rec_place' = n
         /\ rx_pack_lens'  = [rx_pack_lens EXCEPT ![rx_cur] = n]
         /\ rx_pack_flags' = [rx_pack_flags EXCEPT ![rx_cur] = IF n > Runt THEN 2 ELSE 0]
  /\ waited' = [waited EXCEPT ![rx_cur] = 0]
  /\ PacketStoreInSitu' = -1
  /\ Consume("run")
  /\ UNCHANGED <<stripe, gl_in_preamble, rx_cur, mainVars>>
-----------------------------------------------------------------------------
(* et_backend_tick_quick, outside the interrupt.  The end of its loop, the *)
(* rest of procTask and the next call are one more step of idx.            *)
(* Mutant: the loop visits one buffer too few.                             *)
NextIdxShort == IF idx >= RXBUFS - 2 THEN 0 ELSE idx + 1
NextIdx == IF idx = RXBUFS - 1 THEN 0 ELSE idx + 1

ScanFlag ==
  /\ left = 0 /\ pc = "scan"
  /\ IF rx_pack_flags[idx] = 2
     THEN pc' = "crc" /\ UNCHANGED idx
     ELSE idx' = NextIdx /\ UNCHANGED pc
  /\ UNCHANGED <<delivered, lineVars, scanVars, decVars, bufVars, waited>>

CheckCrc ==
  /\ left = 0 /\ pc = "crc"
  /\ pc' = IF Intact(mem[idx], rx_pack_lens[idx]) THEN "callback" ELSE "release"
  /\ UNCHANGED <<idx, delivered, lineVars, scanVars, decVars, bufVars, waited>>

(* The stack has read the frame where it lies, interrupts allowed.         *)
CallbackReturns ==
  /\ left = 0 /\ pc = "callback"
  /\ pc' = "release"
  /\ delivered' = delivered \cup {mem[idx][1].f}
  /\ UNCHANGED <<idx, lineVars, scanVars, decVars, bufVars, waited>>

(* Mutant: the buffer is not released.                                     *)
ReleaseNothing ==
  /\ left = 0 /\ pc = "release"
  /\ pc' = "scan" /\ idx' = NextIdx
  /\ UNCHANGED <<delivered, lineVars, scanVars, decVars, bufVars, waited>>

(* Mutant: one buffer per call, always from the first.                     *)
ReleaseAndReturn ==
  /\ left = 0 /\ pc = "release"
  /\ rx_pack_flags' = [rx_pack_flags EXCEPT ![idx] = 0]
  /\ waited' = [i \in Bufs |-> IF rx_pack_flags[i] = 2 /\ i # idx
                               THEN waited[i] + 1 ELSE 0]
  /\ pc' = "scan" /\ idx' = 0
  /\ UNCHANGED <<delivered, lineVars, scanVars, decVars, rx_pack_lens, mem>>

Release ==
  /\ left = 0 /\ pc = "release"
  /\ rx_pack_flags' = [rx_pack_flags EXCEPT ![idx] = 0]
  /\ waited' = [i \in Bufs |-> IF rx_pack_flags[i] = 2 /\ i # idx
                               THEN waited[i] + 1 ELSE 0]
  /\ pc' = "scan" /\ idx' = NextIdx
  /\ UNCHANGED <<delivered, lineVars, scanVars, decVars, rx_pack_lens, mem>>
-----------------------------------------------------------------------------
Isr  == \/ PassOver \/ Search \/ Quiet \/ Start \/ DecodeFirst
        \/ DecodePreamble \/ DecodeData \/ DecodeOverflow \/ DecodeEnd
Main == ScanFlag \/ CheckCrc \/ CallbackReturns \/ Release
Next == Interrupt \/ LoseWord \/ Isr \/ Main

Spec == Init /\ [][Next]_vars

(* The interrupt runs to its end, and it takes less time than a block      *)
(* takes to fill, so the main loop gets the processor between interrupts.  *)
FairSpec == Spec /\ WF_vars(Isr) /\ SF_vars(Main)
-----------------------------------------------------------------------------
(* Every variable has its type.                                            *)
TypeOK ==
  /\ word \in Word /\ left \in 0..BlockLen /\ isr \in {"run", "skip", "drain"}
  /\ PacketStoreInSitu \in {-1, 0, 1} /\ stripe \in 0..2
  /\ gl_in_preamble \in {0, 1, 2} /\ rec_place \in 0..MaxLen /\ rx_cur \in Bufs
  /\ rx_pack_flags \in [Bufs -> {0, 1, 2}]
  /\ rx_pack_lens \in [Bufs -> 0..MaxLen]
  /\ mem \in [Bufs -> [1..MaxLen -> Word]]
  /\ pc \in {"scan", "crc", "callback", "release"} /\ idx \in Bufs
  /\ delivered \in SUBSET (0..MaxFrames)
  /\ waited \in [Bufs -> Nat]

Busy == pc # "scan"     \* the main loop works on buffer idx

(* No buffer leaks: whatever faults, overflows, runts and dropped frames   *)
(* the interrupt went through, only the buffer it holds now can be marked  *)
(* "in transit", so every other one is free or waits for the main loop.    *)
NoLeakedBuffer ==
  \A i \in Bufs : rx_pack_flags[i] = 1 => i = rx_cur

(* While the interrupt has a frame in progress its buffer is not one the   *)
(* main loop can be looking at, even after a faulty first word made        *)
(* DecodePacket mark it free and go on using it.                           *)
ReceivingIntoOwnBuffer ==
  PacketStoreInSitu = 1 => rx_pack_flags[rx_cur] # 2

(* The frame the stack works on is the whole frame whose CRC was checked,  *)
(* for as long as et_receivecallback runs: no interrupt overwrote it.      *)
CallbackSeesCheckedFrame ==
  pc = "callback" => Intact(mem[idx], rx_pack_lens[idx])

(* From the flag test in et_backend_tick_quick to the release, no step     *)
(* changes the buffer, its length or its flag under the main loop.         *)
BufferStableWhileRead ==
  [][Busy /\ Busy' => /\ mem'[idx] = mem[idx]
                     /\ rx_pack_lens'[idx] = rx_pack_lens[idx]
                     /\ rx_pack_flags'[idx] = 2]_vars

(* The stack is handed no frame twice.                                     *)
DeliveredOnce ==
  [][pc = "callback" /\ pc' # pc => mem[idx][1].f \notin delivered]_vars

(* The polling loop takes buffers in index order, not in order of arrival, *)
(* so a frame can be overtaken; but a complete one is passed over by no    *)
(* more than one frame of every other buffer.                              *)
BoundedOvertaking ==
  \A i \in Bufs : rx_pack_flags[i] = 2 => waited[i] <= RXBUFS - 1

(* A frame is given up at its start only for want of a buffer,             *)
(* manchestrate.c:344-352.  Does not hold when a start is recognised in    *)
(* the last word of a block and the buffer is not the first.               *)
DropsOnlyWhenFull ==
  [][PacketStoreInSitu = 0 /\ PacketStoreInSitu' = -1
       => \A i \in Bufs : rx_pack_flags[i] = 2]_vars
-----------------------------------------------------------------------------
(* What the receive path promises the stack: see FramePool.  A slot is     *)
(* being filled while the interrupt has a frame in progress in it,         *)
(* whatever its flag says.                                                 *)
Complete(i) == rx_pack_flags[i] = 2

PoolSlot == [i \in Bufs |->
  IF Complete(i) THEN "full"
  ELSE IF PacketStoreInSitu = 1 /\ rx_cur = i THEN "filling" ELSE "free"]

PoolFrame == [i \in Bufs |->
  IF Complete(i) THEN {<<mem[i], rx_pack_lens[i]>>} ELSE {}]

Pool == INSTANCE FramePool WITH
          Slots    <- Bufs,
          Bypass   <- RXBUFS - 1,
          Frames   <- [1..MaxLen -> Word] \X (0..MaxLen),
          slot     <- PoolSlot,
          frame    <- PoolFrame,
          reading  <- IF Busy THEN {idx} ELSE {},
          bypassed <- [i \in Bufs |-> IF Complete(i) THEN waited[i] ELSE 0]

(* The receive path implements the pool: every step of the interrupt and   *)
(* of the main loop is a step of the pool or changes nothing of it.        *)
ImplementsPool == Pool!Spec

(* The same with the pool's fairness: the reader keeps taking frames.      *)
ImplementsFairPool == Pool!FairSpec
=============================================================================
