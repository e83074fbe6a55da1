----------------------------- MODULE RxCapture ------------------------------
(***************************************************************************)
(* Frame debugging (ALLOW_FRAME_DEBUGGING): the receive path with one      *)
(* frame of raw samples kept in PacketStore.  A user command arms          *)
(* KeepNextPacket (1: just the next packet, 2: wait for an error); the     *)
(* interrupt stores what it decodes while armed, and the interrupt or the  *)
(* CRC check of the main loop locks the store (4) until it is released.    *)
(***************************************************************************)
EXTENDS RxPath

CONSTANT LossToo   \* bound: are words lost in behaviours with commands, too

ASSUME LossTooOK == LossToo \in BOOLEAN

VARIABLES
  KeepNextPacket,  \* 0 stands for every value that is none of 1, 2, 4
  store,           \* PacketStore: the frame its samples are of, if any
  ck,              \* CK has emptied the store and not set KeepNextPacket yet
  watched          \* commands are given in this behaviour: never changes
captureVars == <<KeepNextPacket, store>>
capVars     == <<vars, captureVars, ck, watched>>

(* Mutant: a locked store counts as armed.                                 *)
ArmedOrLocked == KeepNextPacket # 0
Armed   == KeepNextPacket \in {1, 2}
Nothing == -1

CInit == Init /\ KeepNextPacket = 0 /\ store = Nothing /\ ck = FALSE /\ watched \in BOOLEAN

(* A block that continues a frame is appended; to an empty store too.      *)
CInterrupt ==
  /\ Interrupt
  /\ store' = IF Armed /\ PacketStoreInSitu = 1 /\ store = Nothing
              THEN word.f ELSE store
  /\ UNCHANGED <<KeepNextPacket, ck>>

(* A frame that got a buffer restarts the store.  At the end of a block    *)
(* the frame may be given up right away, and counts as complete.           *)
CStart ==
  /\ Start
  /\ IF Armed /\ \E i \in Bufs : Freed[i] = 0
     THEN /\ store' = word.f
          /\ KeepNextPacket' = IF PacketStoreInSitu' = -1 /\ KeepNextPacket = 1
                               THEN 4 ELSE KeepNextPacket
     ELSE UNCHANGED captureVars
  /\ UNCHANGED ck

(* The end of a frame, good or bad, in the interrupt.                      *)
CEnd ==
  /\ DecodeOverflow \/ DecodeEnd
  /\ KeepNextPacket' = IF \/ KeepNextPacket = 1
                          \/ KeepNextPacket = 2 /\ rx_pack_flags'[rx_cur] = 0
                       THEN 4 ELSE KeepNextPacket
  /\ UNCHANGED <<store, ck>>

COther ==
  /\ \/ LoseWord /\ (watched => LossToo)
     \/ PassOver \/ Search \/ Quiet \/ DecodeFirst \/ DecodePreamble \/ DecodeData
     \/ ~ck /\ (ScanFlag \/ CallbackReturns \/ Release)
  /\ UNCHANGED <<captureVars, ck>>

CCheckCrc ==
  /\ ~ck /\ CheckCrc
  /\ KeepNextPacket' = IF KeepNextPacket = 2 /\ pc' = "release" THEN 4 ELSE KeepNextPacket
  /\ UNCHANGED <<store, ck>>

(* Commands come in frames, and over Wi-Fi wherever the main loop is.  CK  *)
(* empties the store, then sets KeepNextPacket to whatever number was      *)
(* sent, also to 4: locked, whatever is in it.  An interrupt may come in   *)
(* between.                                                                *)
CKEmpty ==
  /\ watched /\ left = 0 /\ ~ck
  /\ store' = Nothing /\ ck' = TRUE
  /\ UNCHANGED <<vars, KeepNextPacket>>

CKSet ==
  /\ left = 0 /\ ck
  /\ KeepNextPacket' \in {0, 1, 2, 4} /\ ck' = FALSE
  /\ UNCHANGED <<vars, store>>

CN ==
  /\ watched /\ left = 0 /\ ~ck
  /\ KeepNextPacket' = 0
  /\ UNCHANGED <<vars, store, ck>>

Command == CKEmpty \/ CKSet \/ CN

CNext ==
  /\ CInterrupt \/ CStart \/ CEnd \/ COther \/ CCheckCrc \/ Command
  /\ UNCHANGED watched
CSpec == CInit /\ [][CNext]_capVars
CFairSpec == CSpec /\ WF_vars(Isr) /\ SF_vars(Main)
-----------------------------------------------------------------------------
(* CM reads the locked store piece by piece over many frames: only another *)
(* command changes it or releases it, whatever is received and whichever   *)
(* check fails meanwhile.  And the interrupt locks no empty store, though  *)
(* CK empties it in the middle of frames.                                  *)
LockedStoreKept ==
  [][/\ KeepNextPacket = 4 => UNCHANGED captureVars \/ Command
     /\ left > 0 /\ KeepNextPacket # 4 /\ KeepNextPacket' = 4 => store' # Nothing]_capVars
=============================================================================
