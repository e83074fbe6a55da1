----------------------------- MODULE FlashDevice -----------------------------
(***************************************************************************)
(* The flash of the device and the commands that change it: FE, FB and FW  *)
(* of issue_command (common/commonservices.c), and FM, which verifies two  *)
(* images and copies them to where the program runs (MyRewriteFlash of     *)
(* common/flash_rewriter.c).  Commands are handled one at a time, and      *)
(* nothing interrupts the copying.                                         *)
(*                                                                         *)
(* Flash is counted in pages of PADDING bytes, the data of one FW.  A hash *)
(* is what was hashed: no two images are taken to have the same.           *)
(***************************************************************************)
EXTENDS Integers

CONSTANTS
  SectorPages,      \* pages in a sector (SRCSIZE, 0x1000)
  BlockSectors,     \* sectors in a block (BLKSIZE)
  FlashPages,       \* pages in the flash
  Pages,            \* what a page may hold beside
  Erased,
  Mixed             \* written twice, with different data

Content == Pages \cup {Erased, Mixed}

ASSUME FlashConstantsOK ==
  /\ SectorPages \in Nat /\ SectorPages > 1
  /\ BlockSectors \in Nat \ {0} /\ FlashPages \in Nat
  /\ Erased \notin Pages /\ Mixed \notin Pages /\ Erased # Mixed

Addr       == 0..FlashPages-1
BlockPages == SectorPages * BlockSectors

(* A command FM, of two images: from which address, to which, how long,    *)
(* and the hash.                                                           *)
Parts   == {1, 2}
Command == [from : [Parts -> Nat], to : [Parts -> Nat], size : [Parts -> Nat],
            md5 : [Parts -> UNION {[0..n-1 -> Content] : n \in Nat}]]

VARIABLES
  flash,    \* every page
  pc,       \* "idle", or the next step of the copying: "erase", "write"
  cmd,      \* the command being executed
  part,     \* the image being copied
  i, j,     \* loop variables: block of the image, sector of the block
  was       \* history: the flash when the copying began

copyVars   == <<pc, cmd, part, i, j, was>>
deviceVars == <<flash, copyVars>>

NoCommand == [from |-> [k \in Parts |-> 0], to |-> [k \in Parts |-> 0],
              size |-> [k \in Parts |-> 0], md5 |-> [k \in Parts |-> [o \in 0..-1 |-> Erased]]]

DeviceInit ==
  /\ flash \in [Addr -> Content]
  /\ pc = "idle" /\ cmd = NoCommand /\ part = 1 /\ i = 0 /\ j = 0 /\ was = flash
-----------------------------------------------------------------------------
(* Flash can only clear bits: a page must be erased before it is written.  *)
Program(old, new) ==
  IF old = Erased \/ old = new THEN new ELSE IF new = Erased THEN old ELSE Mixed

Read(f, a) == IF a \in Addr THEN f[a] ELSE Mixed

EraseAt(pages) == [a \in Addr |-> IF a \in pages THEN Erased ELSE flash[a]]

(* FE and FB: not the first block.                                         *)
EraseSector(n) ==
  /\ pc = "idle" /\ n >= BlockSectors
  /\ flash' = EraseAt(n * SectorPages .. (n + 1) * SectorPages - 1)
  /\ UNCHANGED copyVars

EraseBlock(n) ==
  /\ pc = "idle" /\ n >= 1
  /\ flash' = EraseAt(n * BlockPages .. (n + 1) * BlockPages - 1)
  /\ UNCHANGED copyVars

(* FW, with a page of data.                                                *)
WritePage(a, data) ==
  /\ pc = "idle" /\ a >= BlockPages
  /\ flash' = [b \in Addr |-> IF b = a THEN Program(flash[b], data) ELSE flash[b]]
  /\ UNCHANGED copyVars

Refuse == UNCHANGED deviceVars
-----------------------------------------------------------------------------
(* FM: what MyRewriteFlash returns, 0 if it goes on.                       *)
Matches(c, k) == c.md5[k] = [o \in 0..c.size[k]-1 |-> Read(flash, c.from[k] + o)]

(* Mutant: the second image is not verified.                               *)
VerifyFirst(c) ==
  CASE c.from[1] = 0 \/ c.from[2] = 0 \/ c.size[1] = 0 -> 2
    [] \E k \in Parts : c.from[k] % SectorPages # 0 \/ c.to[k] % SectorPages # 0 -> 3
    [] ~Matches(c, 1) -> 4
    [] OTHER -> 0

Verify(c) ==
  IF c.from[1] = 0 \/ c.from[2] = 0 \/ c.size[1] = 0 THEN 2
  ELSE IF \E k \in Parts : c.from[k] % SectorPages # 0 \/ c.to[k] % SectorPages # 0 THEN 3
  ELSE IF ~Matches(c, 1) THEN 4
  ELSE IF ~Matches(c, 2) THEN 5
  ELSE 0

(* C rounds quotients towards 0.                                           *)
Quotient(a, b) == IF a >= 0 THEN a \div b ELSE -((-a) \div b)

(* Blocks to copy for an image.  Mutant: only the full ones.               *)
FullBlocks(n) == n \div BlockPages
Blocks(n) == Quotient(((n - 1) \div SectorPages) * SectorPages + 1, BlockPages) + 1

Rewrite(c) ==
  /\ pc = "idle" /\ Verify(c) = 0
  /\ pc' = "erase" /\ cmd' = c /\ part' = 1 /\ i' = 0 /\ was' = flash
  /\ UNCHANGED <<flash, j>>

(* SPIEraseBlock( p++ ), from p = to/BLKSIZE.                              *)
CopyErase ==
  LET p == cmd.to[part] \div BlockPages + i
  IN  /\ pc = "erase"
      /\ flash' = EraseAt(p * BlockPages .. (p + 1) * BlockPages - 1)
      /\ pc' = "write" /\ j' = 0
      /\ UNCHANGED <<cmd, part, i, was>>

(* SPIWrite( to, from, SRCSIZE ), the loops, and the restart at their end. *)
CopyWrite ==
  LET done == i * BlockPages + j * SectorPages
      to   == cmd.to[part] + done
      from == cmd.from[part] + done
  IN  /\ pc = "write"
      /\ flash' = [a \in Addr |-> IF a \in to..to+SectorPages-1
                                  THEN Program(flash[a], Read(flash, from + (a - to)))
                                  ELSE flash[a]]
      /\ IF j + 1 < BlockSectors
         THEN j' = j + 1 /\ UNCHANGED <<pc, part, i>>
         ELSE /\ UNCHANGED j
              /\ IF i + 1 < Blocks(cmd.size[part])
                 THEN pc' = "erase" /\ i' = i + 1 /\ UNCHANGED part
                 ELSE IF part = 1
                 THEN pc' = "erase" /\ i' = 0 /\ part' = 2
                 ELSE pc' = "idle" /\ UNCHANGED <<part, i>>
      /\ UNCHANGED <<cmd, was>>

DeviceNext ==
  \/ \E n \in Nat : EraseSector(n) \/ EraseBlock(n)
  \/ \E a \in Nat, data \in Content : WritePage(a, data)
  \/ \E c \in Command : Rewrite(c)
  \/ CopyErase \/ CopyWrite

DeviceSpec == DeviceInit /\ [][DeviceNext]_deviceVars
-----------------------------------------------------------------------------
(* Whole blocks from `a` that hold n pages.                                *)
Room(a, n) == a .. a + ((n + BlockPages - 1) \div BlockPages) * BlockPages - 1

(* Where a command may have its images: destinations at the start of a     *)
(* block, no image copied over another nor over one still to be read.      *)
Layout(c) ==
  /\ \A k \in Parts : c.size[k] > 0 /\ c.to[k] % BlockPages = 0 /\ Room(c.to[k], c.size[k]) \subseteq Addr
  /\ Room(c.to[1], c.size[1]) \cap Room(c.to[2], c.size[2]) = {}
  /\ Room(c.to[1], c.size[1]) \cap Room(c.from[2], c.size[2]) = {}
  /\ \A k \in Parts : \/ c.from[k] >= c.to[k] + BlockPages
                      \/ Room(c.to[k], c.size[k]) \cap Room(c.from[k], c.size[k]) = {}

(* When the copying ends, the destinations hold exactly what was verified, *)
(* and no page beside their blocks has changed.                            *)
RewritesExactly ==
  [][pc = "write" /\ pc' = "idle" /\ Layout(cmd) =>
       /\ \A k \in Parts : \A o \in 0..cmd.size[k]-1 : flash'[cmd.to[k] + o] = cmd.md5[k][o]
       /\ \A a \in Addr : (\A k \in Parts : a \notin Room(cmd.to[k], cmd.size[k]))
                            => flash'[a] = was[a]]_deviceVars
=============================================================================
