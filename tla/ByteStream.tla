----------------------------- MODULE ByteStream -----------------------------
(***************************************************************************)
(* What a TCP connection promises in each direction: what is got is a      *)
(* prefix of what was sent, and what is got stays got.                     *)
(***************************************************************************)
EXTENDS SequencesExt

CONSTANT Bytes
VARIABLES sent, got

Init == sent = <<>> /\ got = <<>>

Send ==
  /\ IsStrictPrefix(sent, sent')
  /\ \A k \in DOMAIN sent' : sent'[k] \in Bytes
  /\ UNCHANGED got

Get == IsStrictPrefix(got, got') /\ IsPrefix(got', sent) /\ UNCHANGED sent

Spec == Init /\ [][Send \/ Get]_<<sent, got>>
=============================================================================
