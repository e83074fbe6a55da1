----------------------------- MODULE FramePool ------------------------------
(***************************************************************************)
(* What the receive path is for: a pool of slots through which frames go   *)
(* from one writer to one reader.  One slot at a time is filled; a full    *)
(* one belongs to the reader and keeps its frame until the reader gives it *)
(* back; the order of arrival is not kept, but a full slot is passed over  *)
(* at most Bypass times.                                                   *)
(***************************************************************************)
EXTENDS Integers

CONSTANTS Slots, Bypass, Frames

VARIABLES
  slot,       \* of each slot: "free", "filling" or "full"
  frame,      \* of each slot: the set of the frame it holds, if any
  reading,    \* the set of the slot the reader works on, if any
  bypassed    \* how often another slot was given back while this one was full

vars == <<slot, frame, reading, bypassed>>

Init ==
  /\ slot = [s \in Slots |-> "free"]
  /\ frame = [s \in Slots |-> {}]
  /\ reading = {}
  /\ bypassed = [s \in Slots |-> 0]

Fill(s) ==
  /\ slot[s] = "free"
  /\ \A t \in Slots : slot[t] # "filling"
  /\ slot' = [slot EXCEPT ![s] = "filling"]
  /\ UNCHANGED <<frame, reading, bypassed>>

Abandon(s) ==
  /\ slot[s] = "filling"
  /\ slot' = [slot EXCEPT ![s] = "free"]
  /\ UNCHANGED <<frame, reading, bypassed>>

Complete(s) ==
  /\ slot[s] = "filling"
  /\ slot' = [slot EXCEPT ![s] = "full"]
  /\ \A t \in Slots \ {s} : frame'[t] = frame[t]
  /\ frame' \in [Slots -> SUBSET Frames] /\ frame'[s] # {}
  /\ UNCHANGED <<reading, bypassed>>

Take(s) ==
  /\ slot[s] = "full" /\ reading = {}
  /\ reading' = {s}
  /\ UNCHANGED <<slot, frame, bypassed>>

GiveBack(s) ==
  /\ slot[s] = "full" /\ reading = {s}
  /\ reading' = {}
  /\ slot' = [slot EXCEPT ![s] = "free"]
  /\ frame' = [frame EXCEPT ![s] = {}]
  /\ \A t \in Slots \ {s} : slot[t] = "full" => bypassed[t] < Bypass
  /\ bypassed' = [t \in Slots |-> IF slot[t] = "full" /\ t # s
                                  THEN bypassed[t] + 1 ELSE 0]

Next == \E s \in Slots : \/ Fill(s) \/ Abandon(s) \/ Complete(s)
                         \/ Take(s) \/ GiveBack(s)

Spec == Init /\ [][Next]_vars

FairSpec == Spec /\ WF_vars(\E s \in Slots : Take(s))
                 /\ WF_vars(\E s \in Slots : GiveBack(s))
=============================================================================
