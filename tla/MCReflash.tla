------------------------------ MODULE MCReflash ------------------------------
(* Small flash: the first program area and the first stage are one block,  *)
(* the second ones two.  The first update fills its stage; the first file  *)
(* of the last one runs over into the second stage.                        *)
EXTENDS Reflash

MCLength == [u \in 0..3 |-> CASE u = 0 -> <<4, 8>> [] u = 1 -> <<4, 5>>
                              [] u = 2 -> <<1, 2>> [] OTHER -> <<5, 1>>]
MCExact == {<<1, 1>>}
MCStage == <<12, 16>>
MCApp   == <<0, 4>>
MCPages == {Zero} \cup UNION {{<<u, f, k>> : k \in 0..MCLength[u][f]-1} : u \in 0..3, f \in Parts}
=============================================================================
