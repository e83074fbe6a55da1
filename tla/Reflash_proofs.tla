---------------------------- MODULE Reflash_proofs ----------------------------
(***************************************************************************)
(* FlashDevice, for sectors, blocks and images of any size: how many       *)
(* blocks the copying takes, how far it is at each step, and that what it  *)
(* has not copied yet is still what was verified.  Then Reflash: the       *)
(* device is left with one whole program, and what the host pushed without *)
(* a late datagram is all on the flash, for any number of updates, files,  *)
(* retries and datagrams that come late.  The types come along with it.    *)
(***************************************************************************)
EXTENDS Reflash, TLAPS

(* Quotients by a constant that is not known.                              *)
LEMMA QuotientBounds ==
  ASSUME NEW a \in Nat, NEW b \in Nat \ {0}
  PROVE  /\ a \div b \in Nat
         /\ (a \div b) * b <= a /\ a < (a \div b) * b + b
  OBVIOUS

LEMMA QuotientIs ==
  ASSUME NEW a \in Nat, NEW b \in Nat \ {0}, NEW q \in Int,
         q * b <= a, a < q * b + b
  PROVE  a \div b = q
  OBVIOUS

LEMMA BlockPagesNat ==
  /\ SectorPages \in Nat /\ SectorPages > 1 /\ BlockSectors \in Nat \ {0}
  /\ BlockPages \in Nat \ {0} /\ BlockPages = BlockSectors * SectorPages
<1>1. SectorPages \in Nat /\ SectorPages > 1 /\ BlockSectors \in Nat \ {0}
  BY FlashConstantsOK
<1> QED
  BY <1>1 DEF BlockPages

(* A length rounded down to sectors, plus one, is in the block where the   *)
(* last page is: why sectors of one page would be wrong.                   *)
LEMMA SectorWithin ==
  ASSUME NEW m \in Nat
  PROVE  LET s == (m \div SectorPages) * SectorPages
             q == m \div BlockPages
         IN  s \in Nat /\ q * BlockPages <= s + 1 /\ s + 1 < q * BlockPages + BlockPages
<1> DEFINE S == SectorPages
           N == BlockSectors
           u == m \div S
           q == m \div BlockPages
<1>1. /\ S \in Nat /\ S > 1 /\ N \in Nat \ {0}
      /\ BlockPages \in Nat \ {0} /\ BlockPages = N * S
  BY BlockPagesNat
<1>2. u \in Nat /\ u * S <= m /\ m < u * S + S
  BY <1>1, QuotientBounds
<1>3. q \in Nat /\ q * BlockPages <= m /\ m < q * BlockPages + BlockPages
  BY <1>1, QuotientBounds
<1> HIDE DEF u, q, S, N
<1>4. q * BlockPages = (q * N) * S /\ q * BlockPages + BlockPages = (q * N + N) * S
  BY <1>1, <1>3
<1>5. q * N <= u
  <2>1. (q * N) * S < (u + 1) * S
    BY <1>1, <1>2, <1>3, <1>4
  <2> QED
    BY <2>1, <1>1, <1>2, <1>3
<1>6. u + 1 <= q * N + N
  <2>1. u * S < (q * N + N) * S
    BY <1>1, <1>2, <1>3, <1>4
  <2> QED
    BY <2>1, <1>1, <1>2, <1>3
<1>7. (q * N) * S <= u * S /\ (u + 1) * S <= (q * N + N) * S
  BY <1>1, <1>2, <1>3, <1>5, <1>6
<1>8. (u + 1) * S = u * S + S /\ u * S \in Nat
  BY <1>1, <1>2
<1>9. q * BlockPages <= u * S + 1 /\ u * S + 1 < q * BlockPages + BlockPages
  BY <1>1, <1>2, <1>3, <1>4, <1>7, <1>8
<1> QED
  BY <1>8, <1>9 DEF u, q, S

(* So the blocks of an image are those that hold it, no more.              *)
LEMMA BlocksCover ==
  ASSUME NEW n \in Nat \ {0}
  PROVE  /\ Blocks(n) \in Nat \ {0}
         /\ Blocks(n) = (n + BlockPages - 1) \div BlockPages
         /\ n <= Blocks(n) * BlockPages
<1> DEFINE m == n - 1
           s == (m \div SectorPages) * SectorPages
           q == m \div BlockPages
<1>1. m \in Nat /\ n = m + 1 /\ BlockPages \in Nat \ {0}
  BY BlockPagesNat
<1>2. s \in Nat /\ q * BlockPages <= s + 1 /\ s + 1 < q * BlockPages + BlockPages
  BY <1>1, SectorWithin
<1>3. q \in Nat /\ q * BlockPages <= m /\ m < q * BlockPages + BlockPages
  BY <1>1, QuotientBounds
<1>4. Blocks(n) = Quotient(s + 1, BlockPages) + 1
  BY DEF Blocks
<1> HIDE DEF m, s, q
<1>5. Quotient(s + 1, BlockPages) = q
  <2>1. (s + 1) \div BlockPages = q
    BY <1>1, <1>2, <1>3, QuotientIs
  <2> QED
    BY <2>1, <1>2 DEF Quotient
<1>6. (q + 1) * BlockPages = q * BlockPages + BlockPages
  BY <1>1, <1>3
<1>7. n + BlockPages - 1 = m + BlockPages
  BY <1>1
<1>8. (m + BlockPages) \div BlockPages = q + 1
  BY <1>1, <1>3, <1>6, QuotientIs
<1> QED
  BY <1>1, <1>3, <1>4, <1>5, <1>6, <1>7, <1>8
-----------------------------------------------------------------------------
(* The blocks the copying erases for an image, and how far it is: `Front`  *)
(* is erased, `Pos` of it copied, in pages from the destination.           *)
Size(k)  == Blocks(cmd.size[k]) * BlockPages
Target(k) == cmd.to[k] .. cmd.to[k] + Size(k) - 1
Front    == IF pc = "write" THEN (i + 1) * BlockPages ELSE i * BlockPages
Pos      == IF pc = "write" THEN i * BlockPages + j * SectorPages ELSE i * BlockPages

Copied(k, n) == \A o \in 0..n-1 : flash[cmd.to[k] + o] = Read(was, cmd.from[k] + o)
KeptBut(n)   == \A a \in Addr :
                  (a \notin cmd.to[part] .. cmd.to[part] + n - 1 /\ (part = 2 => a \notin Target(1)))
                    => flash[a] = was[a]
Blank(m, n)  == \A a \in cmd.to[part] + m .. cmd.to[part] + n - 1 : flash[a] = Erased

CommandOK(c) == /\ c.from \in [Parts -> Nat] /\ c.to \in [Parts -> Nat]
                /\ c.size \in [Parts -> Nat]

DeviceTypeOK ==
  /\ flash \in [Addr -> Content] /\ was \in [Addr -> Content]
  /\ pc \in {"idle", "erase", "write"} /\ part \in Parts /\ i \in Nat /\ j \in Nat
  /\ CommandOK(cmd)

CopyOK ==
  /\ i < Blocks(cmd.size[part])
  /\ pc = "write" => j < BlockSectors
  /\ \A k \in Parts : \A o \in 0..cmd.size[k]-1 : cmd.md5[k][o] = Read(was, cmd.from[k] + o)
  /\ KeptBut(Front)
  /\ Copied(part, Pos)
  /\ part = 2 => Copied(1, Size(1))
  /\ pc = "write" => Blank(Pos, Front)

(* Copying, all that was verified is in `was`; the flash differs from it   *)
(* only where the copying has been, and there it is right or blank.        *)
DInv == DeviceTypeOK /\ (pc # "idle" /\ Layout(cmd) => CopyOK)
-----------------------------------------------------------------------------
LEMMA RoomIsTarget ==
  ASSUME NEW k \in Parts, CommandOK(cmd), cmd.size[k] > 0
  PROVE  /\ \A a : Room(a, cmd.size[k]) = a .. a + Size(k) - 1
         /\ Size(k) \in Nat \ {0} /\ cmd.size[k] <= Size(k)
         /\ Blocks(cmd.size[k]) \in Nat
<1>1. cmd.size[k] \in Nat \ {0}
  BY DEF CommandOK
<1>2. /\ Blocks(cmd.size[k]) \in Nat \ {0}
      /\ Blocks(cmd.size[k]) = (cmd.size[k] + BlockPages - 1) \div BlockPages
      /\ cmd.size[k] <= Blocks(cmd.size[k]) * BlockPages
  BY <1>1, BlocksCover
<1>3. \A a : Room(a, cmd.size[k]) = a .. a + Size(k) - 1
  BY <1>2 DEF Room, Size
<1>4. Blocks(cmd.size[k]) * BlockPages \in Nat \ {0}
  BY <1>2, BlockPagesNat
<1> QED
  BY <1>2, <1>3, <1>4 DEF Size

(* What the layout says of the image being copied.                         *)
LEMMA Here ==
  ASSUME DeviceTypeOK, CopyOK, Layout(cmd), pc # "idle"
  PROVE  LET T == cmd.to[part]
             F == cmd.from[part]
             n == Size(part)
         IN  /\ T \in Nat /\ F \in Nat /\ n \in Nat
             /\ T .. T + n - 1 \subseteq Addr
             /\ \A e \in 0..n : F >= T + BlockPages \/ (F .. F + e - 1) \cap (T .. T + e - 1) = {}
             /\ part = 2 => (F .. F + n - 1) \cap Target(1) = {} /\ Target(1) \cap (T .. T + n - 1) = {}
             /\ Target(1) \subseteq Addr
             /\ i * BlockPages \in Nat /\ i * BlockPages + BlockPages = (i + 1) * BlockPages
             /\ (i + 1) * BlockPages <= n
             /\ pc = "write" => /\ j * SectorPages \in Nat
                                /\ j * SectorPages + SectorPages = (j + 1) * SectorPages
                                /\ (j + 1) * SectorPages <= BlockPages
<1>1. \A k \in Parts : cmd.size[k] > 0 /\ cmd.to[k] \in Nat /\ cmd.from[k] \in Nat
  BY DEF Layout, DeviceTypeOK, CommandOK
<1>2. \A k \in Parts : /\ \A a : Room(a, cmd.size[k]) = a .. a + Size(k) - 1
                      /\ Size(k) \in Nat \ {0} /\ Blocks(cmd.size[k]) \in Nat
  BY <1>1, RoomIsTarget DEF DeviceTypeOK
<1>3. part \in Parts /\ 1 \in Parts /\ 2 \in Parts /\ i \in Nat /\ j \in Nat
  BY DEF DeviceTypeOK, Parts
<1>4. \A k \in Parts : cmd.to[k] .. cmd.to[k] + Size(k) - 1 \subseteq Addr
  BY <1>2 DEF Layout
<1>5. part = 2 => (cmd.from[part] .. cmd.from[part] + Size(part) - 1) \cap Target(1) = {}
               /\ Target(1) \cap (cmd.to[part] .. cmd.to[part] + Size(part) - 1) = {}
  BY <1>2, <1>3, ZenonT(60) DEF Layout, Target
<1>6. \A e \in 0..Size(part) : \/ cmd.from[part] >= cmd.to[part] + BlockPages
                             \/ (cmd.from[part] .. cmd.from[part] + e - 1) \cap (cmd.to[part] .. cmd.to[part] + e - 1) = {}
  <2>1. \/ cmd.from[part] >= cmd.to[part] + BlockPages
        \/ (cmd.to[part] .. cmd.to[part] + Size(part) - 1) \cap (cmd.from[part] .. cmd.from[part] + Size(part) - 1) = {}
    BY <1>2, <1>3 DEF Layout
  <2> SUFFICES ASSUME NEW e \in 0..Size(part)
               PROVE  \/ cmd.from[part] >= cmd.to[part] + BlockPages
                      \/ (cmd.from[part] .. cmd.from[part] + e - 1) \cap (cmd.to[part] .. cmd.to[part] + e - 1) = {}
    OBVIOUS
  <2>3. cmd.from[part] \in Nat /\ cmd.to[part] \in Nat /\ Size(part) \in Nat
    BY <1>1, <1>2, <1>3
  <2> HIDE DEF Size
  <2>2. /\ cmd.from[part] .. cmd.from[part] + e - 1 \subseteq cmd.from[part] .. cmd.from[part] + Size(part) - 1
        /\ cmd.to[part] .. cmd.to[part] + e - 1 \subseteq cmd.to[part] .. cmd.to[part] + Size(part) - 1
    BY <2>3, SMTT(30)
  <2> QED
    BY <2>1, <2>2
<1>7. /\ i * BlockPages \in Nat /\ i * BlockPages + BlockPages = (i + 1) * BlockPages
      /\ (i + 1) * BlockPages <= Size(part)
  <2>1. i + 1 <= Blocks(cmd.size[part]) /\ Blocks(cmd.size[part]) \in Nat /\ BlockPages \in Nat
    BY <1>2, <1>3, BlockPagesNat DEF CopyOK
  <2>2. (i + 1) * BlockPages <= Blocks(cmd.size[part]) * BlockPages
    BY <2>1, <1>3
  <2> QED
    BY <2>1, <2>2, <1>3 DEF Size
<1>8. pc = "write" => /\ j * SectorPages \in Nat
                      /\ j * SectorPages + SectorPages = (j + 1) * SectorPages
                      /\ (j + 1) * SectorPages <= BlockPages
  <2>1. pc = "write" => j + 1 <= BlockSectors
    BY <1>3, BlockPagesNat DEF CopyOK
  <2> QED
    BY <2>1, <1>3, BlockPagesNat
<1> QED
  BY <1>1, <1>2, <1>3, <1>4, <1>5, <1>6, <1>7, <1>8 DEF Target
(* The block erased, by pages.                                             *)
LEMMA BlockAt ==
  ASSUME NEW T \in Nat, NEW n \in Nat, T % BlockPages = 0
  PROVE  LET p == T \div BlockPages + n
         IN  p * BlockPages .. (p + 1) * BlockPages - 1
               = T + n * BlockPages .. T + (n + 1) * BlockPages - 1
<1> DEFINE t == T \div BlockPages
           u == (t + n) * BlockPages
           v == (t + n + 1) * BlockPages
           w == T + n * BlockPages
           z == T + (n + 1) * BlockPages
<1>1. BlockPages \in Nat /\ t \in Nat /\ t * BlockPages = T
  BY BlockPagesNat
<1> HIDE DEF t
<1>2. u = w /\ v = z /\ u \in Nat /\ v \in Nat
  BY <1>1
<1> HIDE DEF u, v, w, z
<1>3. u .. v - 1 = w .. z - 1
  BY <1>2
<1> QED
  BY <1>1, <1>3, SMTT(30) DEF t, u, v, w, z

LEMMA ErasesBlock ==
  ASSUME DeviceTypeOK, Layout(cmd), CopyErase
  PROVE  flash' = [a \in Addr |-> IF a \in cmd.to[part] + i * BlockPages .. cmd.to[part] + (i + 1) * BlockPages - 1
                                  THEN Erased ELSE flash[a]]
<1>1. cmd.to[part] \in Nat /\ i \in Nat /\ cmd.to[part] % BlockPages = 0
  BY DEF DeviceTypeOK, CommandOK, Layout
<1> QED
  BY <1>1, BlockAt DEF CopyErase, EraseAt

LEMMA EraseTypes ==
  ASSUME DeviceTypeOK, CopyErase
  PROVE  DeviceTypeOK'
<1>1. flash' \in [Addr -> Content]
  BY DEF CopyErase, EraseAt, DeviceTypeOK, Content
<1> QED
  BY <1>1 DEF CopyErase, DeviceTypeOK, CommandOK

LEMMA EraseKeeps ==
  ASSUME DInv, CopyErase
  PROVE  DInv'
<1>1. DeviceTypeOK /\ DeviceTypeOK'
  BY EraseTypes DEF DInv
<1>2. cmd' = cmd /\ part' = part /\ i' = i /\ was' = was /\ pc' = "write" /\ j' = 0 /\ pc = "erase"
  BY DEF CopyErase
<1>3. Layout(cmd)' <=> Layout(cmd)
  BY <1>2 DEF Layout
<1> SUFFICES ASSUME Layout(cmd) PROVE CopyOK'
  BY <1>1, <1>3 DEF DInv
<1>4. CopyOK
  BY <1>2 DEF DInv
<1> DEFINE T == cmd.to[part]
           F == cmd.from[part]
           n == Size(part)
           x == i * BlockPages
           y == (i + 1) * BlockPages
<1>5. /\ T \in Nat /\ F \in Nat /\ n \in Nat /\ x \in Nat /\ y = x + BlockPages /\ y <= n
      /\ T .. T + n - 1 \subseteq Addr /\ Target(1) \subseteq Addr
      /\ part = 2 => Target(1) \cap (T .. T + n - 1) = {}
      /\ BlockPages \in Nat \ {0}
  BY <1>1, <1>2, <1>4, Here, BlockPagesNat
<1>6. flash' = [a \in Addr |-> IF a \in T + x .. T + y - 1 THEN Erased ELSE flash[a]]
  BY <1>1, ErasesBlock
<1>7. Front = x /\ Pos = x /\ Front' = y /\ Pos' = x
  BY <1>2, <1>5, BlockPagesNat DEF Front, Pos
<1>8. KeptBut(x) /\ Copied(part, x) /\ (part = 2 => Copied(1, Size(1)))
  BY <1>4, <1>7 DEF CopyOK
<1> HIDE DEF T, F, n, x, y
<1>9. KeptBut(Front)'
  <2> SUFFICES ASSUME NEW a \in Addr, a \notin T .. T + y - 1, part = 2 => a \notin Target(1)
               PROVE  flash'[a] = was[a]
    BY <1>2, <1>7 DEF KeptBut, Target, Size, T
  <2>1. a \notin T .. T + x - 1 /\ a \notin T + x .. T + y - 1
    BY <1>5
  <2> QED
    BY <2>1, <1>6, <1>8 DEF KeptBut, T
<1>10. Copied(part, Pos)'
  <2> SUFFICES ASSUME NEW o \in 0..x-1 PROVE flash'[T + o] = Read(was, F + o)
    BY <1>2, <1>7 DEF Copied, T, F
  <2>1. T + o \in Addr /\ T + o \notin T + x .. T + y - 1
    BY <1>5
  <2> QED
    BY <2>1, <1>6, <1>8 DEF Copied, T, F
<1>11. (part = 2 => Copied(1, Size(1)))'
  <2> SUFFICES ASSUME part = 2, NEW o \in 0..Size(1)-1
               PROVE  flash'[cmd.to[1] + o] = Read(was, cmd.from[1] + o)
    BY <1>2 DEF Copied, Size
  <2>1. cmd.to[1] + o \in Target(1)
    <3>1. cmd.to[1] \in Nat /\ Size(1) \in Nat
      BY <1>1, RoomIsTarget DEF Layout, DeviceTypeOK, CommandOK, Parts
    <3> QED
      BY <3>1 DEF Target
  <2>2. cmd.to[1] + o \in Addr /\ cmd.to[1] + o \notin T + x .. T + y - 1
    BY <2>1, <1>5
  <2> QED
    BY <2>2, <1>6, <1>8 DEF Copied
<1>12. Blank(Pos, Front)'
  <2> SUFFICES ASSUME NEW a \in T + x .. T + y - 1 PROVE flash'[a] = Erased
    BY <1>2, <1>7 DEF Blank, T
  <2>1. a \in Addr
    BY <1>5
  <2> QED
    BY <2>1, <1>6
<1>13. (\A k \in Parts : \A o \in 0..cmd.size[k]-1 : cmd.md5[k][o] = Read(was, cmd.from[k] + o))'
  BY <1>2, <1>4 DEF CopyOK, Read
<1> QED
  BY <1>2, <1>4, <1>9, <1>10, <1>11, <1>12, <1>13, BlockPagesNat DEF CopyOK
(* A sector is copied: what the flash holds then, before the loops go on.  *)
LEMMA Writes ==
  ASSUME DeviceTypeOK, CopyOK, Layout(cmd), CopyWrite
  PROVE  LET T == cmd.to[part]
             F == cmd.from[part]
             x == Pos + SectorPages
         IN  /\ x = i * BlockPages + (j + 1) * SectorPages /\ x <= (i + 1) * BlockPages
             /\ \A a \in Addr :
                  (a \notin T .. T + (i + 1) * BlockPages - 1 /\ (part = 2 => a \notin Target(1)))
                    => flash'[a] = was[a]
             /\ \A o \in 0..x-1 : flash'[T + o] = Read(was, F + o)
             /\ part = 2 => \A o \in 0..Size(1)-1 : flash'[cmd.to[1] + o] = Read(was, cmd.from[1] + o)
             /\ \A a \in T + x .. T + (i + 1) * BlockPages - 1 : flash'[a] = Erased
<1> DEFINE T == cmd.to[part]
           F == cmd.from[part]
           n == Size(part)
           b == i * BlockPages
           s == j * SectorPages
           y == (i + 1) * BlockPages
           p == Pos
           new(a) == Program(flash[a], Read(flash, F + p + (a - (T + p))))
<1>1. pc = "write"
  BY DEF CopyWrite
<1>2. /\ T \in Nat /\ F \in Nat /\ n \in Nat /\ b \in Nat /\ y = b + BlockPages /\ y <= n
      /\ T .. T + n - 1 \subseteq Addr /\ Target(1) \subseteq Addr
      /\ \A e \in 0..n : F >= T + BlockPages \/ (F .. F + e - 1) \cap (T .. T + e - 1) = {}
      /\ part = 2 => (F .. F + n - 1) \cap Target(1) = {} /\ Target(1) \cap (T .. T + n - 1) = {}
      /\ s \in Nat /\ s + SectorPages = (j + 1) * SectorPages /\ s + SectorPages <= BlockPages
      /\ BlockPages \in Nat \ {0} /\ SectorPages \in Nat \ {0}
  BY <1>1, Here, BlockPagesNat
<1>3. p = b + s /\ Front = y
  BY <1>1 DEF Pos, Front
<1>4. KeptBut(y) /\ Copied(part, p) /\ (part = 2 => Copied(1, Size(1))) /\ Blank(p, y)
  BY <1>1, <1>3 DEF CopyOK
<1>5. flash' = [a \in Addr |-> IF a \in T + p .. T + p + SectorPages - 1
                               THEN new(a) ELSE flash[a]]
  BY <1>1, <1>3 DEF CopyWrite
<1> HIDE DEF T, F, n, b, s, y, p, new
<1>6. p \in Nat /\ p + SectorPages <= y /\ y \in Nat
  BY <1>2, <1>3
<1>7. ASSUME NEW o \in p .. p + SectorPages - 1
      PROVE  flash'[T + o] = Read(was, F + o)
  <2>1. T + o \in Addr /\ T + o \in T + p .. T + p + SectorPages - 1 /\ T + o \in T + p .. T + y - 1
    BY <1>2, <1>6
  <2>2. flash[T + o] = Erased
    BY <2>1, <1>4 DEF Blank, T
  <2>3. F + p + ((T + o) - (T + p)) = F + o
    BY <1>2, <1>6
  <2>4. flash'[T + o] = Program(Erased, Read(flash, F + o))
    <3>1. flash'[T + o] = new(T + o)
      BY <2>1, <1>5
    <3>2. new(T + o) = Program(flash[T + o], Read(flash, F + p + ((T + o) - (T + p))))
      BY Zenon DEF new
    <3> QED
      BY <3>1, <3>2, <2>2, <2>3, Zenon
  <2>5. F + o \notin T .. T + y - 1
    <3>1. F + o \in F .. F + y - 1 /\ y \in 0..n
      BY <1>2, <1>6
    <3>2. CASE (F .. F + y - 1) \cap (T .. T + y - 1) = {}
      BY <3>1, <3>2
    <3>3. CASE F >= T + BlockPages
      BY <3>3, <1>2, <1>3, <1>6
    <3> QED
      BY <3>1, <3>2, <3>3, <1>2
  <2>6. part = 2 => F + o \notin Target(1)
    <3>1. F + o \in F .. F + n - 1
      BY <1>2, <1>6
    <3> QED
      BY <3>1, <1>2
  <2>7. Read(flash, F + o) = Read(was, F + o)
    BY <2>5, <2>6, <1>4 DEF Read, KeptBut, T
  <2> QED
    BY <2>4, <2>7 DEF Program
<1>8. \A a \in Addr : a \notin T .. T + y - 1 /\ (part = 2 => a \notin Target(1)) => flash'[a] = was[a]
  <2> SUFFICES ASSUME NEW a \in Addr, a \notin T .. T + y - 1, part = 2 => a \notin Target(1)
               PROVE  flash'[a] = was[a]
    OBVIOUS
  <2>1. a \notin T + p .. T + p + SectorPages - 1
    BY <1>2, <1>6
  <2> QED
    BY <2>1, <1>4, <1>5 DEF KeptBut, T
<1>9. \A o \in 0 .. (p + SectorPages) - 1 : flash'[T + o] = Read(was, F + o)
  <2> SUFFICES ASSUME NEW o \in 0 .. (p + SectorPages) - 1 PROVE flash'[T + o] = Read(was, F + o)
    OBVIOUS
  <2>1. CASE o \in 0..p-1
    <3>1. T + o \in Addr /\ T + o \notin T + p .. T + p + SectorPages - 1
      BY <2>1, <1>2, <1>6
    <3> QED
      BY <2>1, <3>1, <1>4, <1>5 DEF Copied, T, F
  <2>2. CASE o \in p .. p + SectorPages - 1
    BY <2>2, <1>7
  <2> QED
    BY <2>1, <2>2, <1>2, <1>6
<1>10. part = 2 => \A o \in 0..Size(1)-1 : flash'[cmd.to[1] + o] = Read(was, cmd.from[1] + o)
  <2> SUFFICES ASSUME part = 2, NEW o \in 0..Size(1)-1
               PROVE  flash'[cmd.to[1] + o] = Read(was, cmd.from[1] + o)
    OBVIOUS
  <2>1. cmd.to[1] \in Nat /\ Size(1) \in Nat
    BY RoomIsTarget DEF Layout, DeviceTypeOK, CommandOK, Parts
  <2>2. cmd.to[1] + o \in Target(1)
    BY <2>1 DEF Target
  <2>3. cmd.to[1] + o \in Addr /\ cmd.to[1] + o \notin T + p .. T + p + SectorPages - 1
    BY <2>2, <1>2, <1>6
  <2> QED
    BY <2>3, <1>4, <1>5 DEF Copied
<1>11. \A a \in T + (p + SectorPages) .. T + y - 1 : flash'[a] = Erased
  <2> SUFFICES ASSUME NEW a \in T + (p + SectorPages) .. T + y - 1 PROVE flash'[a] = Erased
    OBVIOUS
  <2>1. a \in Addr /\ a \notin T + p .. T + p + SectorPages - 1 /\ a \in T + p .. T + y - 1
    BY <1>2, <1>6
  <2> QED
    BY <2>1, <1>4, <1>5 DEF Blank, T
<1>12. p + SectorPages = b + (j + 1) * SectorPages
  BY <1>2, <1>3 DEF s
<1>13. /\ p + SectorPages = i * BlockPages + (j + 1) * SectorPages /\ p + SectorPages <= (i + 1) * BlockPages
  BY <1>6, <1>12 DEF b, y
<1>14. \A a \in Addr : a \notin T .. T + (i + 1) * BlockPages - 1 /\ (part = 2 => a \notin Target(1)) => flash'[a] = was[a]
  BY <1>8, Zenon DEF y
<1>15. \A a \in T + (p + SectorPages) .. T + (i + 1) * BlockPages - 1 : flash'[a] = Erased
  BY <1>11, Zenon DEF y
<1> QED
  BY <1>9, <1>10, <1>13, <1>14, <1>15, Zenon DEF T, F, p
LEMMA ProgramType ==
  ASSUME DeviceTypeOK, NEW a \in Addr, NEW data \in Content
  PROVE  Program(flash[a], data) \in Content
BY DEF DeviceTypeOK, Program, Content

LEMMA WriteTypes ==
  ASSUME DeviceTypeOK, CopyWrite
  PROVE  DeviceTypeOK'
<1>1. flash' \in [Addr -> Content]
  <2> DEFINE done == i * BlockPages + j * SectorPages
             to   == cmd.to[part] + done
             new(a) == Program(flash[a], Read(flash, (cmd.from[part] + done) + (a - to)))
  <2>1. flash' = [a \in Addr |-> IF a \in to .. to + SectorPages - 1 THEN new(a) ELSE flash[a]]
    BY DEF CopyWrite
  <2>2. \A a \in Addr : new(a) \in Content
    <3>1. \A a : Read(flash, a) \in Content
      BY DEF Read, DeviceTypeOK, Content
    <3> QED
      BY <3>1, ProgramType
  <2>3. \A a \in Addr : flash[a] \in Content
    BY DEF DeviceTypeOK
  <2> HIDE DEF to, new
  <2> QED
    BY <2>1, <2>2, <2>3
<1>2. /\ cmd' = cmd /\ was' = was /\ pc' \in {"idle", "erase", "write"}
      /\ part' \in {part, 2} /\ i' \in {i, i + 1, 0} /\ j' \in {j, j + 1}
  BY DEF CopyWrite
<1> QED
  BY <1>1, <1>2 DEF DeviceTypeOK, CommandOK, Parts

LEMMA WriteKeeps ==
  ASSUME DInv, CopyWrite
  PROVE  DInv'
<1>1. DeviceTypeOK /\ DeviceTypeOK' /\ cmd' = cmd /\ was' = was /\ pc = "write"
  BY WriteTypes DEF DInv, CopyWrite
<1>2. Layout(cmd)' <=> Layout(cmd)
  BY <1>1 DEF Layout
<1> SUFFICES ASSUME Layout(cmd), pc' # "idle" PROVE CopyOK'
  BY <1>1, <1>2 DEF DInv
<1>3. CopyOK
  BY <1>1 DEF DInv
<1> DEFINE T == cmd.to[part]
           F == cmd.from[part]
           x == Pos + SectorPages
           y == (i + 1) * BlockPages
<1>4. /\ x = i * BlockPages + (j + 1) * SectorPages
      /\ \A a \in Addr : a \notin T .. T + y - 1 /\ (part = 2 => a \notin Target(1)) => flash'[a] = was[a]
      /\ \A o \in 0..x-1 : flash'[T + o] = Read(was, F + o)
      /\ part = 2 => \A o \in 0..Size(1)-1 : flash'[cmd.to[1] + o] = Read(was, cmd.from[1] + o)
      /\ \A a \in T + x .. T + y - 1 : flash'[a] = Erased
  <2>1. x = i * BlockPages + (j + 1) * SectorPages
    BY <1>1, <1>3, Writes
  <2>2. \A a \in Addr : a \notin T .. T + y - 1 /\ (part = 2 => a \notin Target(1)) => flash'[a] = was[a]
    BY <1>1, <1>3, Writes
  <2>3. \A o \in 0..x-1 : flash'[T + o] = Read(was, F + o)
    BY <1>1, <1>3, Writes
  <2>4. part = 2 => \A o \in 0..Size(1)-1 : flash'[cmd.to[1] + o] = Read(was, cmd.from[1] + o)
    BY <1>1, <1>3, Writes
  <2>5. \A a \in T + x .. T + y - 1 : flash'[a] = Erased
    BY <1>1, <1>3, Writes
  <2> QED
    BY <2>1, <2>2, <2>3, <2>4, <2>5
<1>5. (\A k \in Parts : \A o \in 0..cmd.size[k]-1 : cmd.md5[k][o] = Read(was, cmd.from[k] + o))'
  BY <1>1, <1>3 DEF CopyOK, Read
<1>6. i \in Nat /\ j \in Nat /\ j < BlockSectors /\ i < Blocks(cmd.size[part]) /\ part \in Parts
  BY <1>1, <1>3 DEF CopyOK, DeviceTypeOK
<1>7. \A k \in Parts : Blocks(cmd.size[k]) \in Nat \ {0}
  BY <1>1, BlocksCover DEF Layout, DeviceTypeOK, CommandOK
<1> HIDE DEF T, F, x, y
<1>8. CASE j + 1 < BlockSectors
  <2>1. pc' = "write" /\ part' = part /\ i' = i /\ j' = j + 1
    BY <1>8 DEF CopyWrite
  <2>2. Pos' = x /\ Front' = y
    BY <2>1, <1>4, BlockPagesNat DEF Pos, Front, y
  <2>3. KeptBut(Front)' /\ Copied(part, Pos)' /\ Blank(Pos, Front)'
    BY <2>1, <2>2, <1>1, <1>4 DEF KeptBut, Copied, Blank, Target, Size, T, F
  <2>4. (part = 2 => Copied(1, Size(1)))'
    BY <2>1, <1>1, <1>4 DEF Copied, Size
  <2> QED
    BY <1>1, <1>5, <1>6, <1>8, <2>1, <2>3, <2>4, BlockPagesNat DEF CopyOK
<1>9. CASE j + 1 = BlockSectors
  <2>1. x = y
    <3>1. (j + 1) * SectorPages = BlockPages
      BY <1>9, BlockPagesNat
    <3> QED
      BY <3>1, <1>4, <1>6, BlockPagesNat DEF y
  <2>2. CASE i + 1 < Blocks(cmd.size[part])
    <3>1. pc' = "erase" /\ part' = part /\ i' = i + 1
      BY <1>9, <2>2, <1>6, BlockPagesNat DEF CopyWrite
    <3>2. Pos' = x /\ Front' = y
      BY <3>1, <2>1 DEF Pos, Front, y
    <3>3. KeptBut(Front)' /\ Copied(part, Pos)'
      BY <3>1, <3>2, <1>1, <1>4 DEF KeptBut, Copied, Target, Size, T, F
    <3>4. (part = 2 => Copied(1, Size(1)))'
      BY <3>1, <1>1, <1>4 DEF Copied, Size
    <3> QED
      BY <1>1, <1>5, <2>2, <3>1, <3>3, <3>4 DEF CopyOK
  <2>3. CASE ~(i + 1 < Blocks(cmd.size[part]))
    <3>1. pc' = "erase" /\ part = 1 /\ part' = 2 /\ i' = 0
      BY <1>9, <2>3, <1>6, BlockPagesNat DEF CopyWrite
    <3>2. y = Size(1)
      BY <2>3, <3>1, <1>6, <1>7 DEF Size, y, Parts
    <3>3. Pos' = 0 /\ Front' = 0
      BY <3>1, BlockPagesNat DEF Pos, Front
    <3>4. KeptBut(Front)'
      <4> SUFFICES ASSUME NEW a \in Addr, a \notin Target(1) PROVE flash'[a] = was[a]
        BY <3>1, <3>3, <1>1 DEF KeptBut, Target, Size
      <4> QED
        BY <1>4, <3>1, <3>2 DEF Target, T
    <3>5. Copied(1, Size(1))'
      BY <1>1, <1>4, <2>1, <3>1, <3>2 DEF Copied, Size, T, F
    <3>6. Copied(part, Pos)'
      BY <3>3 DEF Copied
    <3>7. 0 < Blocks(cmd.size[2])
      BY <1>7 DEF Parts
    <3> QED
      BY <1>1, <1>5, <3>1, <3>4, <3>5, <3>6, <3>7 DEF CopyOK
  <2> QED
    BY <2>2, <2>3
<1> QED
  BY <1>6, <1>8, <1>9, BlockPagesNat
LEMMA RewriteKeeps ==
  ASSUME DInv, NEW c \in Command, Rewrite(c)
  PROVE  DInv'
<1>1. /\ DeviceTypeOK /\ cmd' = c /\ was' = flash /\ flash' = flash /\ pc' = "erase"
      /\ part' = 1 /\ i' = 0 /\ j' = j /\ Verify(c) = 0
  BY DEF DInv, Rewrite
<1>2. DeviceTypeOK'
  BY <1>1 DEF DeviceTypeOK, Command, CommandOK, Parts
<1> SUFFICES ASSUME Layout(c) PROVE CopyOK'
  BY <1>1, <1>2 DEF DInv, Layout
<1>3. Matches(c, 1) /\ Matches(c, 2)
  BY <1>1 DEF Verify
<1>4. \A k \in Parts : \A o \in 0..c.size[k]-1 : c.md5[k][o] = Read(flash, c.from[k] + o)
  BY <1>3 DEF Matches, Parts
<1>5. 0 < Blocks(c.size[1])
  <2>1. c.size[1] \in Nat \ {0}
    BY DEF Command, Layout, Parts
  <2> QED
    BY <2>1, BlocksCover
<1>6. Front' = 0 /\ Pos' = 0
  BY <1>1, BlockPagesNat DEF Front, Pos
<1>7. KeptBut(Front)' /\ Copied(part, Pos)'
  BY <1>1, <1>6 DEF KeptBut, Copied
<1> QED
  BY <1>1, <1>4, <1>5, <1>7 DEF CopyOK, Read

LEMMA CommandsKeep ==
  ASSUME DInv, (\E n \in Nat : EraseSector(n) \/ EraseBlock(n))
               \/ \E a \in Nat, data \in Content : WritePage(a, data)
  PROVE  DInv'
<1>1. UNCHANGED copyVars /\ pc = "idle"
  BY DEF EraseSector, EraseBlock, WritePage
<1>2. flash' \in [Addr -> Content]
  <2>1. ASSUME NEW n \in Nat, EraseSector(n) \/ EraseBlock(n) PROVE flash' \in [Addr -> Content]
    BY <2>1 DEF DInv, DeviceTypeOK, EraseSector, EraseBlock, EraseAt, Content
  <2>2. ASSUME NEW a \in Nat, NEW data \in Content, WritePage(a, data) PROVE flash' \in [Addr -> Content]
    <3>1. \A b \in Addr : Program(flash[b], data) \in Content /\ flash[b] \in Content
      BY ProgramType DEF DInv, DeviceTypeOK
    <3> QED
      BY <2>2, <3>1 DEF WritePage
  <2> QED
    BY <2>1, <2>2
<1> QED
  BY <1>1, <1>2 DEF DInv, DeviceTypeOK, CommandOK, copyVars

LEMMA DeviceInitInv == DeviceInit => DInv
BY DEF DeviceInit, DInv, DeviceTypeOK, CommandOK, NoCommand, Parts

LEMMA DeviceKeeps == DInv /\ [DeviceNext]_deviceVars => DInv'
<1> SUFFICES ASSUME DInv, [DeviceNext]_deviceVars PROVE DInv'
  OBVIOUS
<1>1. CASE CopyErase
  BY <1>1, EraseKeeps
<1>2. CASE CopyWrite
  BY <1>2, WriteKeeps
<1>3. ASSUME NEW c \in Command, Rewrite(c) PROVE DInv'
  BY <1>3, RewriteKeeps
<1>4. CASE (\E n \in Nat : EraseSector(n) \/ EraseBlock(n))
           \/ \E a \in Nat, data \in Content : WritePage(a, data)
  BY <1>4, CommandsKeep
<1>5. CASE UNCHANGED deviceVars
  BY <1>5 DEF deviceVars, copyVars, DInv, DeviceTypeOK, CommandOK, CopyOK, Layout, KeptBut,
              Copied, Blank, Front, Pos, Target, Size, Read
<1> QED
  BY <1>1, <1>2, <1>3, <1>4, <1>5 DEF DeviceNext
-----------------------------------------------------------------------------
(* What the last step of the copying leaves.                               *)
LEMMA CopyEnds ==
  ASSUME DInv, [DeviceNext]_deviceVars, pc = "write", pc' = "idle", Layout(cmd)
  PROVE  /\ \A k \in Parts : \A o \in 0..cmd.size[k]-1 : flash'[cmd.to[k] + o] = cmd.md5[k][o]
         /\ \A a \in Addr : (\A k \in Parts : a \notin Room(cmd.to[k], cmd.size[k])) => flash'[a] = was[a]
<1>1. CopyWrite
  BY DEF DeviceNext, EraseSector, EraseBlock, WritePage, Rewrite, CopyErase, deviceVars, copyVars
<1>2. CopyOK /\ DeviceTypeOK
  BY DEF DInv
<1>3. i \in Nat /\ j \in Nat /\ j < BlockSectors /\ i < Blocks(cmd.size[part]) /\ part \in Parts
  BY <1>2 DEF CopyOK, DeviceTypeOK
<1>4. part = 2 /\ j + 1 = BlockSectors /\ i + 1 = Blocks(cmd.size[2])
  <2>1. ~(j + 1 < BlockSectors) /\ ~(i + 1 < Blocks(cmd.size[part])) /\ part # 1
    BY <1>1 DEF CopyWrite
  <2>2. Blocks(cmd.size[part]) \in Nat
    BY <1>2, <1>3, BlocksCover DEF Layout, DeviceTypeOK, CommandOK
  <2> QED
    BY <2>1, <2>2, <1>3, BlockPagesNat DEF Parts
<1>5. (i + 1) * BlockPages = Size(2) /\ i * BlockPages + (j + 1) * SectorPages = Size(2)
  <2>1. (i + 1) * BlockPages = Size(2)
    BY <1>4 DEF Size
  <2>2. (j + 1) * SectorPages = BlockPages
    BY <1>4, BlockPagesNat
  <2>3. i * BlockPages + BlockPages = (i + 1) * BlockPages
    BY <1>3, BlockPagesNat
  <2> QED
    BY <2>1, <2>2, <2>3
<1>6. /\ \A o \in 0..Size(2)-1 : flash'[cmd.to[2] + o] = Read(was, cmd.from[2] + o)
      /\ \A o \in 0..Size(1)-1 : flash'[cmd.to[1] + o] = Read(was, cmd.from[1] + o)
      /\ \A a \in Addr : (a \notin Target(2) /\ a \notin Target(1)) => flash'[a] = was[a]
  BY <1>1, <1>2, <1>4, <1>5, Writes DEF Target
<1>7. \A k \in Parts : /\ Room(cmd.to[k], cmd.size[k]) = Target(k)
                      /\ Size(k) \in Nat /\ cmd.size[k] \in Nat /\ cmd.size[k] <= Size(k)
  BY <1>2, RoomIsTarget DEF Target, Layout, DeviceTypeOK, CommandOK
<1>8. \A k \in Parts : \A o \in 0..cmd.size[k]-1 : flash'[cmd.to[k] + o] = cmd.md5[k][o]
  <2> SUFFICES ASSUME NEW k \in Parts, NEW o \in 0..cmd.size[k]-1
               PROVE  flash'[cmd.to[k] + o] = cmd.md5[k][o]
    OBVIOUS
  <2>1. o \in 0..Size(k)-1
    BY <1>7
  <2>2. flash'[cmd.to[k] + o] = Read(was, cmd.from[k] + o)
    BY <2>1, <1>6 DEF Parts
  <2> QED
    BY <2>2, <1>2 DEF CopyOK
<1> QED
  BY <1>6, <1>7, <1>8 DEF Parts

(* Whatever commands come and wherever its images are, FM leaves exactly   *)
(* what it verified at their destinations, and every other page alone.     *)
THEOREM ExactRewrite == DeviceSpec => RewritesExactly
<1>1. DInv /\ [DeviceNext]_deviceVars
        => [pc = "write" /\ pc' = "idle" /\ Layout(cmd) =>
             /\ \A k \in Parts : \A o \in 0..cmd.size[k]-1 : flash'[cmd.to[k] + o] = cmd.md5[k][o]
             /\ \A a \in Addr : (\A k \in Parts : a \notin Room(cmd.to[k], cmd.size[k]))
                                  => flash'[a] = was[a]]_deviceVars
  BY CopyEnds
<1> QED
  BY <1>1, DeviceInitInv, DeviceKeeps, PTL DEF DeviceSpec, RewritesExactly
-----------------------------------------------------------------------------
(* The host, and the network between the two.                              *)
LEMMA Constants ==
  /\ Stage \in [Parts -> Nat] /\ App \in [Parts -> Nat]
  /\ MaxTries \in Nat /\ MaxLate \in Nat /\ LastUpdate \in Nat \ {0}
  /\ Length \in [0..LastUpdate -> [Parts -> Nat \ {0}]]
  /\ \A u \in 0..LastUpdate, f \in Parts : Length[u][f] \in Nat \ {0} /\ Stage[f] \in Nat /\ App[f] \in Nat
  /\ 1 \in Parts /\ 2 \in Parts
  BY ReflashConstantsOK DEF Parts

LEMMA DataOK ==
  ASSUME NEW u \in Updates, NEW f \in Parts, NEW k \in Nat
  PROVE  Data(u, f, k) \in Content
<1>1. u \in 0..LastUpdate
  BY Constants DEF Updates
<1>2. CASE k < Length[u][f]
  <2>1. <<u, f, k>> \in Pages
    <3>1. Length[u][f] \in Nat
      BY <1>1, Constants
    <3>2. k \in 0..Length[u][f]-1
      BY <1>2, <3>1
    <3> QED
      BY <1>1, <3>2, ReflashConstantsOK, Zenon
  <2> QED
    BY <2>1, <1>2 DEF Data, Content
<1>3. CASE ~(k < Length[u][f])
  BY <1>3, ReflashConstantsOK DEF Data, Content
<1> QED
  BY <1>2, <1>3

LEMMA CommandIs ==
  ASSUME NEW u \in Updates
  PROVE  FM(u) \in Command
<1>1. u \in 0..LastUpdate
  BY Constants DEF Updates
<1>2. \A f \in Parts : Image(u, f) \in [0..Length[u][f]-1 -> Content]
  BY <1>1, DataOK, Constants DEF Image
<1>3. \A f \in Parts : Image(u, f) \in UNION {[0..n-1 -> Content] : n \in Nat}
  BY <1>1, <1>2, Constants
<1>4. Length[u] \in [Parts -> Nat]
  BY <1>1, Constants
<1> QED
  BY <1>3, <1>4, Constants DEF FM, Command

LEMMA WholeBlocks ==
  ASSUME NEW a \in Nat, a % BlockPages = 0
  PROVE  a \div BlockPages \in Nat /\ (a \div BlockPages) * BlockPages = a
  BY BlockPagesNat

(* Files that fit between two places fit with the blocks that hold them.   *)
LEMMA SpaceFor ==
  ASSUME NEW n \in Nat \ {0}, NEW a \in Nat, NEW b \in Nat, a + n <= b,
         a % BlockPages = 0, b % BlockPages = 0
  PROVE  Room(a, n) \subseteq a .. b-1
<1> DEFINE s == a \div BlockPages
           t == b \div BlockPages
           q == (n + BlockPages - 1) \div BlockPages
<1>1. BlockPages \in Nat \ {0}
  BY BlockPagesNat
<1>2. s \in Nat /\ t \in Nat /\ s * BlockPages = a /\ t * BlockPages = b
  BY <1>1
<1>3. q \in Nat /\ q * BlockPages < n + BlockPages
  <2>1. n + BlockPages - 1 \in Nat
    BY <1>1
  <2> QED
    BY <2>1, <1>1, QuotientBounds
<1> HIDE DEF s, t, q
<1>4. (s + q) * BlockPages < (t + 1) * BlockPages
  <2>1. (s + q) * BlockPages = a + q * BlockPages /\ (t + 1) * BlockPages = b + BlockPages
    BY <1>1, <1>2, <1>3
  <2> QED
    BY <2>1, <1>1, <1>2, <1>3
<1>5. s + q <= t
  BY <1>1, <1>2, <1>3, <1>4
<1>6. (s + q) * BlockPages <= t * BlockPages
  BY <1>1, <1>2, <1>3, <1>5
<1>7. a + q * BlockPages <= b /\ q * BlockPages \in Nat
  BY <1>1, <1>2, <1>3, <1>6
<1>8. Room(a, n) = a .. a + q * BlockPages - 1
  BY DEF Room, q
<1> QED
  BY <1>7, <1>8
-----------------------------------------------------------------------------
(* A program is on the flash whole only below what is pushed.              *)
LEMMA BelowStage ==
  ASSUME NEW u \in 0..LastUpdate, Runs(u), NEW f \in Parts, NEW k \in 0..Length[u][f]-1
  PROVE  App[f] + k \in Nat /\ App[f] + k < Stage[1]
<1>1. /\ Length[u][1] \in Nat \ {0} /\ Length[u][2] \in Nat \ {0} /\ k \in Nat
      /\ App[1] \in Nat /\ App[2] \in Nat /\ Stage[1] \in Nat
  BY Constants
<1>2. App[1] < App[2] /\ App[2] < Stage[1] /\ App[2] + Length[u][2] <= Stage[1]
  BY PlacesOK
<1>3. CASE f = 2
  BY <1>1, <1>2, <1>3
<1>4. CASE f = 1
  <2>1. CASE Length[u][1] <= App[2] - App[1]
    BY <1>1, <1>2, <1>4, <2>1
  <2>2. CASE Length[u][1] > App[2] - App[1]
    <3> DEFINE o == App[2] - App[1]
    <3>1. o \in 0..Length[u][1]-1 /\ App[1] + o = App[2] /\ 0 \in 0..Length[u][2]-1 /\ App[2] + 0 = App[2]
      BY <1>1, <1>2, <2>2
    <3> HIDE DEF o
    <3>2. flash[App[1] + o] = <<u, 1, o>>
      BY <3>1, Constants DEF Runs
    <3>3. flash[App[2] + 0] = <<u, 2, 0>>
      BY <3>1, Constants DEF Runs
    <3> QED
      BY <3>1, <3>2, <3>3
  <2> QED
    BY <1>1, <1>2, <2>1, <2>2
<1> QED
  BY <1>3, <1>4 DEF Parts

(* What passes the verification has its images where they can be copied:   *)
(* a first file too long would have lost its end to the second.            *)
LEMMA VerifiedFits ==
  ASSUME NEW u \in Updates, Verify(FM(u)) = 0
  PROVE  Layout(FM(u))
<1>1. /\ u \in 0..LastUpdate
      /\ Length[u][1] \in Nat \ {0} /\ Length[u][2] \in Nat \ {0}
      /\ App[1] \in Nat /\ App[2] \in Nat /\ Stage[1] \in Nat /\ Stage[2] \in Nat
  BY Constants DEF Updates
<1>2. /\ App[1] < App[2] /\ App[2] < Stage[1] /\ Stage[1] < Stage[2] /\ Stage[1] <= FlashPages
      /\ Stage[2] - Stage[1] = App[2] - App[1] /\ App[2] + Length[u][2] <= Stage[1]
      /\ App[1] % BlockPages = 0 /\ App[2] % BlockPages = 0 /\ Stage[1] % BlockPages = 0
  BY <1>1, PlacesOK, Constants
<1>3. /\ FM(u).from = Stage /\ FM(u).to = App /\ FM(u).size = Length[u]
      /\ \A f \in Parts : FM(u).md5[f] = Image(u, f)
  BY DEF FM
<1>4. \A f \in Parts : \A k \in 0..Length[u][f]-1 : Read(flash, Stage[f] + k) = <<u, f, k>>
  <2> SUFFICES ASSUME NEW f \in Parts, NEW k \in 0..Length[u][f]-1
               PROVE  Read(flash, Stage[f] + k) = <<u, f, k>>
    OBVIOUS
  <2>1. Matches(FM(u), f)
    BY DEF Verify, Parts
  <2>2. Image(u, f)[k] = Read(flash, Stage[f] + k)
    BY <2>1, <1>3 DEF Matches
  <2>3. Image(u, f)[k] = <<u, f, k>>
    <3>1. Length[u][f] \in Nat
      BY <1>1, Constants
    <3>2. k < Length[u][f]
      BY <3>1
    <3> QED
      BY <3>2 DEF Image, Data
  <2> QED
    BY <2>2, <2>3
<1>5. App[1] + Length[u][1] <= App[2]
  <2> SUFFICES ASSUME Length[u][1] > App[2] - App[1] PROVE FALSE
    BY <1>1
  <2> DEFINE o == App[2] - App[1]
  <2>1. o \in 0..Length[u][1]-1 /\ Stage[1] + o = Stage[2] /\ 0 \in 0..Length[u][2]-1 /\ Stage[2] + 0 = Stage[2]
    BY <1>1, <1>2
  <2> HIDE DEF o
  <2>2. Read(flash, Stage[1] + o) = <<u, 1, o>>
    BY <2>1, <1>4, Constants
  <2>3. Read(flash, Stage[2] + 0) = <<u, 2, 0>>
    BY <2>1, <1>4, Constants
  <2> QED
    BY <2>1, <2>2, <2>3
<1>6. Room(App[1], Length[u][1]) \subseteq App[1] .. App[2]-1
  BY <1>1, <1>2, <1>5, SpaceFor
<1>7. Room(App[2], Length[u][2]) \subseteq App[2] .. Stage[1]-1
  BY <1>1, <1>2, SpaceFor
<1>8. App[1] + BlockPages <= Stage[1] /\ App[2] + BlockPages <= Stage[2]
  <2> DEFINE s == App[1] \div BlockPages
             t == App[2] \div BlockPages
  <2>1. BlockPages \in Nat \ {0} /\ s \in Nat /\ t \in Nat /\ s * BlockPages = App[1] /\ t * BlockPages = App[2]
    BY <1>1, <1>2, BlockPagesNat, WholeBlocks
  <2> HIDE DEF s, t
  <2>2. s + 1 <= t
    BY <2>1, <1>2
  <2>3. (s + 1) * BlockPages <= t * BlockPages
    BY <2>1, <2>2
  <2>4. App[1] + BlockPages <= App[2]
    BY <2>1, <2>3
  <2> QED
    BY <2>1, <2>4, <1>1, <1>2
<1>9. \A n : Room(Stage[2], n) \cap (App[1] .. App[2]-1) = {}
  BY <1>1, <1>2 DEF Room
<1>10. \A k \in Parts : Length[u][k] > 0 /\ App[k] % BlockPages = 0 /\ Room(App[k], Length[u][k]) \subseteq Addr
  BY <1>1, <1>2, <1>6, <1>7, FlashConstantsOK DEF Parts, Addr
<1>11. Room(App[1], Length[u][1]) \cap Room(App[2], Length[u][2]) = {}
  BY <1>1, <1>6, <1>7
<1>12. Room(App[1], Length[u][1]) \cap Room(Stage[2], Length[u][2]) = {}
  BY <1>6, <1>9
<1>13. \A k \in Parts : Stage[k] >= App[k] + BlockPages
  BY <1>1, <1>8, BlockPagesNat DEF Parts
<1> QED
  BY <1>3, <1>10, <1>11, <1>12, <1>13 DEF Layout
-----------------------------------------------------------------------------
(* What is asked of the device is asked above where programs run.          *)
RequestsOK ==
  \A r \in requests :
    /\ r.on[1] \in 1..update
    /\ r.op = "FB" => Stage[1] <= r.at * BlockPages
    /\ r.op = "FW" => Stage[1] <= r.at

CopiesOwn == pc # "idle" => \E u \in 1..update : cmd = FM(u) /\ Layout(cmd)

LEMMA AtHandOK ==
  ASSUME TypeOK
  PROVE  /\ AtHand \in Requests /\ AtHand.on = <<update, file, page>> /\ Block \in Nat
         /\ AtHand.op = "FB" => Stage[1] <= AtHand.at * BlockPages
         /\ AtHand.op = "FW" => Stage[1] <= AtHand.at
<1>1. update \in Updates /\ file \in Parts /\ page \in Nat
  BY DEF TypeOK
<1>2. Stage[file] \in Nat /\ Stage[1] \in Nat /\ Stage[1] <= Stage[file]
  BY <1>1, PlacesOK, Constants, SMTT(30) DEF Parts
<1>3. Place \in Nat /\ Stage[1] <= Stage[file] + page
  BY <1>1, <1>2 DEF Place
<1> DEFINE t == Stage[1] \div BlockPages
           q == (Stage[file] + page) \div BlockPages
<1>4. t \in Nat /\ t * BlockPages = Stage[1]
  BY <1>2, PlacesOK, Constants, WholeBlocks
<1>5. q \in Nat /\ Stage[file] + page < q * BlockPages + BlockPages /\ BlockPages \in Nat \ {0}
  <2>1. Stage[file] + page \in Nat /\ BlockPages \in Nat \ {0}
    BY <1>1, <1>2, BlockPagesNat
  <2> QED
    BY <2>1, QuotientBounds
<1> HIDE DEF t, q
<1>6. Stage[1] <= q * BlockPages
  <2>1. t * BlockPages < (q + 1) * BlockPages
    BY <1>1, <1>2, <1>3, <1>4, <1>5
  <2>2. t <= q
    BY <2>1, <1>4, <1>5
  <2> QED
    BY <2>2, <1>4, <1>5
<1>7. Block = q
  BY DEF Block, Place, q
<1>8. Data(update, file, page) \in Content /\ Erased \in Content
  BY <1>1, DataOK DEF Content
<1> QED
  BY <1>1, <1>3, <1>5, <1>6, <1>7, <1>8 DEF AtHand, Requests, Place, Parts
LEMMA RequestType ==
  ASSUME TypeOK, NEW r \in requests
  PROVE  /\ r \in Requests /\ r.op \in {"FB", "FW", "FM"} /\ r.at \in Nat /\ r.data \in Content
         /\ r.on[1] \in Updates
<1>1. r \in Requests
  BY DEF TypeOK
<1> QED
  BY <1>1 DEF Requests

(* Of the device, a step of the whole is a step of the device alone.       *)
LEMMA StepsOfDevice ==
  ASSUME TypeOK, [Next]_vars
  PROVE  [DeviceNext]_deviceVars
<1>1. ASSUME NEW r \in requests, Deliver(r) PROVE [DeviceNext]_deviceVars
  <2>1. r.at \in Nat /\ r.data \in Content /\ FM(r.on[1]) \in Command
    BY RequestType, CommandIs
  <2>2. EraseBlock(r.at) \/ WritePage(r.at, r.data) \/ Rewrite(FM(r.on[1])) \/ UNCHANGED deviceVars
    BY <1>1 DEF Deliver, Refuse
  <2> QED
    BY <2>1, <2>2 DEF DeviceNext
<1>2. CASE Copy
  BY <1>2 DEF Copy, DeviceNext
<1>3. CASE Ask \/ GiveUp \/ BlockErased \/ Written \/ RunAgain \/ UNCHANGED vars
  BY <1>3 DEF Ask, GiveUp, BlockErased, Written, RunAgain, vars
<1> QED
  BY <1>1, <1>2, <1>3 DEF Next

DevTypeOK ==
  /\ flash \in [Addr -> Content] /\ was \in [Addr -> Content]
  /\ pc \in {"idle", "erase", "write"} /\ part \in Parts /\ i \in Nat /\ j \in 0..BlockSectors-1
  /\ cmd \in {NoCommand} \cup {FM(u) : u \in Updates}

HostTypeOK ==
  /\ update \in Updates /\ phase \in {"erase", "write", "ended"}
  /\ file \in Parts /\ page \in 0..Pushed(update, file)-1 /\ tries \in 0..MaxTries
  /\ lastblock \in Nat \cup {-1}

NetTypeOK ==
  /\ late \in 0..MaxLate
  /\ requests \subseteq Requests
  /\ \A r \in replies : r.op \in {"FB", "FW"} /\ r.at \in Nat /\ r.on[1] = update

LEMMA TypeParts == TypeOK <=> DevTypeOK /\ HostTypeOK /\ NetTypeOK
BY DEF TypeOK, DevTypeOK, HostTypeOK, NetTypeOK

LEMMA TypePartsNext == TypeOK' <=> DevTypeOK' /\ HostTypeOK' /\ NetTypeOK'
BY DEF TypeOK, DevTypeOK, HostTypeOK, NetTypeOK

LEMMA DevTypes ==
  ASSUME TypeOK, DInv, [Next]_vars
  PROVE  DevTypeOK'
<1>1. DeviceTypeOK'
  BY StepsOfDevice, DeviceKeeps DEF DInv
<1>2. DevTypeOK
  BY TypeParts
<1>3. j' \in 0..BlockSectors-1 /\ cmd' \in {NoCommand} \cup {FM(u) : u \in Updates}
  <2>1. ASSUME NEW r \in requests, Deliver(r)
        PROVE  j' = j /\ cmd' \in {cmd, FM(r.on[1])}
    BY <2>1 DEF Deliver, EraseBlock, WritePage, Rewrite, Refuse, deviceVars, copyVars
  <2>2. CASE CopyErase
    BY <1>2, <2>2, BlockPagesNat DEF CopyErase, DevTypeOK
  <2>3. CASE CopyWrite
    BY <1>2, <2>3, BlockPagesNat DEF CopyWrite, DevTypeOK
  <2>4. CASE UNCHANGED <<j, cmd>>
    BY <1>2, <2>4 DEF DevTypeOK
  <2>5. ASSUME NEW r \in requests, Deliver(r) PROVE r.on[1] \in Updates
    BY RequestType
  <2> QED
    BY <1>2, <2>1, <2>2, <2>3, <2>4, <2>5
       DEF Next, DevTypeOK, Copy, Ask, GiveUp, BlockErased, Written, RunAgain, vars, deviceVars, copyVars
<1> QED
  BY <1>1, <1>3 DEF DeviceTypeOK, DevTypeOK

LEMMA PushedIs ==
  ASSUME NEW u \in Updates, NEW f \in Parts
  PROVE  Pushed(u, f) \in Nat \ {0}
<1>1. Length[u][f] \in Nat \ {0}
  BY Constants DEF Updates
<1> QED
  BY <1>1 DEF Pushed

LEMMA HostTypes ==
  ASSUME TypeOK, [Next]_vars
  PROVE  HostTypeOK'
<1>1. HostTypeOK /\ MaxTries \in Nat /\ 1 \in Parts /\ 2 \in Parts /\ Block \in Nat
  BY TypeParts, Constants, AtHandOK
<1>2. \A u \in Updates, f \in Parts : Pushed(u, f) \in Nat \ {0}
  BY PushedIs
<1>3. CASE UNCHANGED hostVars
  BY <1>1, <1>3 DEF HostTypeOK, hostVars, Pushed
<1>4. CASE Ask
  BY <1>1, <1>4 DEF Ask, HostTypeOK, Pushed
<1>5. CASE GiveUp
  BY <1>1, <1>5 DEF GiveUp, HostTypeOK, Pushed
<1>6. CASE BlockErased
  BY <1>1, <1>6 DEF BlockErased, HostTypeOK, Pushed
<1>7. CASE Written
  <2>1. update' = update /\ tries' = 0 /\ phase' \in {"erase", "write", "ended"}
    BY <1>7 DEF Written, Advance, Erasing
  <2>2. file' \in Parts /\ lastblock' \in Nat \cup {-1}
    BY <1>1, <1>7 DEF Written, Advance, HostTypeOK, NoLastBlock
  <2>3. page' \in 0..Pushed(update, file')-1
    <3>1. CASE More /\ page' = page + 1 /\ file' = file
      BY <3>1, <1>1, <1>2 DEF More, HostTypeOK
    <3>2. CASE file' = 2 /\ page' = 0
      BY <3>2, <1>1, <1>2 DEF HostTypeOK
    <3>3. CASE UNCHANGED <<file, page>>
      BY <3>3, <1>1 DEF HostTypeOK
    <3> QED
      BY <1>7, <3>1, <3>2, <3>3 DEF Written, Advance
  <2> QED
    BY <1>1, <2>1, <2>2, <2>3 DEF HostTypeOK, Pushed
<1>8. CASE RunAgain
  <2>1. /\ update' \in Updates /\ phase' = "erase" /\ file' = 1 /\ page' = 0
        /\ lastblock' = -1 /\ tries' = 0
    BY <1>1, <1>8 DEF RunAgain, HostTypeOK
  <2>2. 0 \in 0..Pushed(update', 1)-1
    BY <1>1, <1>2, <2>1
  <2> QED
    BY <1>1, <2>1, <2>2 DEF HostTypeOK, Pushed
<1> QED
  BY <1>3, <1>4, <1>5, <1>6, <1>7, <1>8 DEF Next, Deliver, Copy, vars, hostVars

LEMMA NetTypes ==
  ASSUME TypeOK, [Next]_vars
  PROVE  NetTypeOK'
<1>1. NetTypeOK /\ HostTypeOK /\ MaxLate \in Nat
  BY TypeParts, Constants
<1>2. late' \in 0..MaxLate
  <2>1. ASSUME NEW b \in BOOLEAN, Count(b), b \/ late < MaxLate PROVE late' \in 0..MaxLate
    BY <1>1, <2>1 DEF NetTypeOK, Count
  <2>2. ASSUME Answered PROVE late' \in 0..MaxLate
    BY <2>1, <2>2 DEF Answered
  <2>3. ASSUME NEW r \in requests, Deliver(r) PROVE late' \in 0..MaxLate
    <3>1. InTime(r) \in BOOLEAN
      BY DEF InTime
    <3> QED
      BY <2>1, <2>3, <3>1 DEF Deliver
  <2>4. CASE UNCHANGED late
    BY <1>1, <2>4 DEF NetTypeOK
  <2> QED
    BY <2>2, <2>3, <2>4 DEF Next, Ask, GiveUp, BlockErased, Written, RunAgain, Copy, vars
<1>3. requests' \subseteq Requests
  <2>1. AtHand \in Requests
    BY AtHandOK
  <2>2. Go(update) \in Requests
    BY <1>1 DEF Go, Requests, HostTypeOK, Content
  <2>3. requests' \subseteq requests \cup {AtHand, Go(update)}
    BY DEF Next, Ask, GiveUp, BlockErased, Written, Advance, RunAgain, Deliver, Copy, vars
  <2> QED
    BY <1>1, <2>1, <2>2, <2>3 DEF NetTypeOK
<1>4. (\A r \in replies : r.op \in {"FB", "FW"} /\ r.at \in Nat /\ r.on[1] = update)'
  <2>1. CASE UNCHANGED <<replies, update>>
    BY <1>1, <2>1 DEF NetTypeOK
  <2>2. CASE replies' = {}
    BY <2>2
  <2>3. ASSUME NEW r \in requests, Deliver(r)
        PROVE  (\A q \in replies : q.op \in {"FB", "FW"} /\ q.at \in Nat /\ q.on[1] = update)'
    <3>1. r.op \in {"FB", "FW", "FM"} /\ r.at \in Nat
      BY RequestType
    <3>2. update' = update
      BY <2>3 DEF Deliver, hostVars
    <3>3. \/ replies' = replies
          \/ /\ r.on[1] = update /\ r.op # "FM"
             /\ replies' = replies \cup {[op |-> r.op, at |-> r.at, on |-> r.on]}
      BY <2>3 DEF Deliver
    <3> QED
      BY <1>1, <3>1, <3>2, <3>3 DEF NetTypeOK
  <2> QED
    BY <2>1, <2>2, <2>3 DEF Next, Ask, GiveUp, BlockErased, Written, RunAgain, Copy, vars, hostVars
<1> QED
  BY <1>2, <1>3, <1>4 DEF NetTypeOK-----------------------------------------------------------------------------
(* While the device is idle a program is whole.  While it copies it is     *)
(* none; but then what it copies is one run's, and will not get in its own *)
(* way.                                                                    *)
PInv ==
  /\ TypeOK /\ DInv
  /\ RequestsOK
  /\ WholeProgram
  /\ CopiesOwn

LEMMA RequestsKept ==
  ASSUME TypeOK, RequestsOK, [Next]_vars
  PROVE  RequestsOK'
<1>1. update \in Updates /\ update' \in Updates /\ update \in Nat /\ update' \in Nat /\ update <= update'
  <2>1. update \in Updates /\ update' \in Updates
    BY HostTypes DEF TypeOK, HostTypeOK
  <2>2. update' = update \/ update' = update + 1
    BY DEF Next, Ask, GiveUp, BlockErased, Written, RunAgain, Deliver, Copy, vars, hostVars
  <2> QED
    BY <2>1, <2>2, Constants DEF Updates
<1>2. requests' \subseteq requests \cup {AtHand, Go(update)}
  BY DEF Next, Ask, GiveUp, BlockErased, Written, Advance, RunAgain, Deliver, Copy, vars
<1>3. 1..update \subseteq 1..update' /\ update \in 1..update'
  BY <1>1, Constants DEF Updates
<1> SUFFICES ASSUME NEW r \in requests'
             PROVE  /\ r.on[1] \in 1..update'
                    /\ r.op = "FB" => Stage[1] <= r.at * BlockPages
                    /\ r.op = "FW" => Stage[1] <= r.at
  BY DEF RequestsOK
<1>4. CASE r \in requests
  BY <1>3, <1>4 DEF RequestsOK
<1>5. CASE r = AtHand
  BY <1>3, <1>5, AtHandOK
<1>6. CASE r = Go(update)
  BY <1>3, <1>6 DEF Go
<1> QED
  BY <1>2, <1>4, <1>5, <1>6

(* What is asked of the device while it is idle leaves every program whole *)
(* that is.                                                                *)
LEMMA ProgramKept ==
  ASSUME TypeOK, RequestsOK, NEW r \in requests, Deliver(r), ~Rewrite(FM(r.on[1])),
         NEW u \in 0..LastUpdate, Runs(u)
  PROVE  Runs(u)'
<1>1. r.at \in Nat /\ BlockPages \in Nat /\ Stage[1] \in Nat
  BY RequestType, BlockPagesNat, Constants
<1>2. ASSUME NEW a \in Addr, a < Stage[1] PROVE flash'[a] = flash[a]
  <2>1. CASE r.op = "FB" /\ EraseBlock(r.at)
    <3>1. Stage[1] <= r.at * BlockPages
      BY <2>1 DEF RequestsOK
    <3>2. r.at * BlockPages \in Nat /\ (r.at + 1) * BlockPages \in Nat
      BY <1>1
    <3>3. a \notin r.at * BlockPages .. (r.at + 1) * BlockPages - 1
      BY <1>1, <1>2, <3>1, <3>2 DEF Addr
    <3> QED
      BY <2>1, <3>3 DEF EraseBlock, EraseAt
  <2>2. CASE r.op = "FW" /\ WritePage(r.at, r.data)
    <3>1. a # r.at
      BY <2>2, <1>1, <1>2 DEF RequestsOK, Addr
    <3> QED
      BY <2>2, <3>1 DEF WritePage
  <2>3. CASE UNCHANGED deviceVars
    BY <2>3 DEF deviceVars
  <2> QED
    BY <2>1, <2>2, <2>3 DEF Deliver, Refuse
<1> SUFFICES ASSUME NEW f \in Parts, NEW k \in 0..Length[u][f]-1
             PROVE  flash'[App[f] + k] = <<u, f, k>>
  BY DEF Runs
<1>3. App[f] + k \in Nat /\ App[f] + k < Stage[1]
  BY BelowStage
<1>4. App[f] + k \in Addr
  BY <1>1, <1>3, PlacesOK, FlashConstantsOK DEF Addr
<1> QED
  BY <1>2, <1>3, <1>4 DEF Runs

LEMMA DeliverKeeps ==
  ASSUME PInv, NEW r \in requests, Deliver(r)
  PROVE  WholeProgram' /\ CopiesOwn'
<1>1. TypeOK /\ RequestsOK /\ WholeProgram /\ update' = update /\ pc = "idle"
  BY DEF PInv, Deliver, hostVars, EraseBlock, WritePage, Rewrite
<1>2. update \in 1..LastUpdate /\ r.on[1] \in 1..update /\ r.on[1] \in Updates
  BY <1>1, RequestType DEF TypeOK, Updates, RequestsOK
<1>3. CASE Rewrite(FM(r.on[1]))
  <2>1. pc' = "erase" /\ cmd' = FM(r.on[1])
    BY <1>3 DEF Rewrite
  <2>2. Layout(FM(r.on[1]))
    BY <1>2, <1>3, VerifiedFits DEF Rewrite
  <2>3. Layout(FM(r.on[1]))'
    BY <2>2 DEF Layout, FM
  <2> QED
    BY <1>1, <1>2, <2>1, <2>2 DEF WholeProgram, CopiesOwn, Layout
<1>4. CASE ~Rewrite(FM(r.on[1]))
  <2>1. pc' = "idle"
    BY <1>1, <1>4 DEF Deliver, EraseBlock, WritePage, Refuse, deviceVars, copyVars
  <2>2. PICK u \in 0..update : Runs(u)
    BY <1>1 DEF WholeProgram
  <2>3. u \in 0..LastUpdate
    BY <1>2, Constants
  <2>4. Runs(u)'
    BY <1>1, <1>4, <2>2, <2>3, ProgramKept
  <2> QED
    BY <1>1, <2>1, <2>4 DEF WholeProgram, CopiesOwn
<1> QED
  BY <1>3, <1>4

LEMMA CopyKeeps ==
  ASSUME PInv, Copy
  PROVE  WholeProgram' /\ CopiesOwn'
<1>1. /\ TypeOK /\ DInv /\ pc # "idle" /\ cmd' = cmd /\ update' = update
      /\ CopyErase \/ CopyWrite
  BY DEF PInv, Copy, CopyErase, CopyWrite, hostVars
<1>2. PICK u \in 1..update : cmd = FM(u) /\ Layout(cmd)
  BY <1>1 DEF PInv, CopiesOwn
<1>3. CASE pc' # "idle"
  BY <1>1, <1>2, <1>3 DEF WholeProgram, CopiesOwn, Layout
<1>4. CASE pc' = "idle"
  <2>1. pc = "write" /\ [DeviceNext]_deviceVars
    BY <1>1, <1>4 DEF CopyErase, CopyWrite, DeviceNext
  <2>2. \A k \in Parts : \A o \in 0..cmd.size[k]-1 : flash'[cmd.to[k] + o] = cmd.md5[k][o]
    BY <1>1, <1>2, <1>4, <2>1, CopyEnds
  <2>3. ASSUME NEW f \in Parts, NEW k \in 0..Length[u][f]-1
        PROVE  flash'[App[f] + k] = <<u, f, k>>
    <3>1. flash'[App[f] + k] = Image(u, f)[k]
      BY <1>2, <2>2 DEF FM
    <3>2. Length[u][f] \in Nat
      <4>1. update \in 1..LastUpdate /\ LastUpdate \in Nat
        BY <1>1, Constants DEF TypeOK, Updates
      <4>2. u \in 0..LastUpdate
        BY <4>1
      <4> QED
        BY <4>2, Constants
    <3>3. Image(u, f)[k] = <<u, f, k>>
      BY <3>2 DEF Image, Data
    <3> QED
      BY <3>1, <3>3
  <2>4. Runs(u)'
    BY <2>3 DEF Runs
  <2>5. u \in 0..update'
    BY <1>1, Constants DEF TypeOK, Updates
  <2> QED
    BY <1>4, <2>4, <2>5 DEF WholeProgram, CopiesOwn
<1> QED
  BY <1>3, <1>4

LEMMA HostKeeps ==
  ASSUME PInv, UNCHANGED deviceVars, HostTypeOK', update' \in {update, update + 1}
  PROVE  WholeProgram' /\ CopiesOwn'
<1>1. update \in Nat
  BY Constants DEF PInv, TypeOK, Updates
<1>2. 0..update \subseteq 0..update' /\ 1..update \subseteq 1..update'
  BY <1>1
<1>3. flash' = flash /\ pc' = pc /\ cmd' = cmd
  BY DEF deviceVars, copyVars
<1> QED
  BY <1>2, <1>3 DEF PInv, WholeProgram, CopiesOwn, Runs, Layout

LEMMA PInvKept == PInv /\ [Next]_vars => PInv'
<1> SUFFICES ASSUME PInv, [Next]_vars PROVE PInv'
  OBVIOUS
<1>1. TypeOK /\ DInv /\ RequestsOK
  BY DEF PInv
<1>2. TypeOK' /\ DInv' /\ RequestsOK' /\ HostTypeOK'
  BY <1>1, DevTypes, HostTypes, NetTypes, TypePartsNext, StepsOfDevice, DeviceKeeps, RequestsKept
<1>3. ASSUME NEW r \in requests, Deliver(r) PROVE WholeProgram' /\ CopiesOwn'
  BY <1>3, DeliverKeeps
<1>4. ASSUME Copy PROVE WholeProgram' /\ CopiesOwn'
  BY <1>4, CopyKeeps
<1>5. ASSUME Ask \/ GiveUp \/ BlockErased \/ Written \/ RunAgain \/ UNCHANGED vars
      PROVE  WholeProgram' /\ CopiesOwn'
  <2>1. UNCHANGED deviceVars /\ update' \in {update, update + 1}
    BY <1>5 DEF Ask, GiveUp, BlockErased, Written, RunAgain, vars, hostVars
  <2> QED
    BY <1>2, <2>1, HostKeeps
<1> QED
  BY <1>2, <1>3, <1>4, <1>5 DEF PInv, Next
LEMMA InitPInv == Init => PInv /\ DeviceInit
<1> SUFFICES ASSUME Init PROVE PInv /\ DeviceInit
  OBVIOUS
<1> DEFINE In(f, a) == a - App[f] \in 0..Length[0][f]-1
           at(a)    == CHOOSE f \in Parts : In(f, a)
<1>1. flash = [a \in Addr |-> IF \E f \in Parts : In(f, a) THEN <<0, at(a), a - App[at(a)]>> ELSE Mixed]
  BY DEF Init
<1>2. /\ pc = "idle" /\ cmd = NoCommand /\ part = 1 /\ i = 0 /\ j = 0 /\ was = flash
      /\ update = 1 /\ phase = "erase" /\ file = 1 /\ page = 0 /\ lastblock = -1 /\ tries = 0
      /\ requests = {} /\ replies = {} /\ late = 0
  BY DEF Init
<1>3. /\ App[1] \in Nat /\ App[2] \in Nat /\ Stage[1] \in Nat /\ 0 \in 0..LastUpdate
      /\ Length[0][1] \in Nat \ {0} /\ Length[0][2] \in Nat \ {0}
  BY Constants
<1>4. App[1] + Length[0][1] <= App[2] /\ App[2] + Length[0][2] <= Stage[1] /\ Stage[1] <= FlashPages
  BY <1>3, PlacesOK
<1>5. ASSUME NEW a, \E f \in Parts : In(f, a) PROVE at(a) \in Parts /\ In(at(a), a)
  BY <1>5
<1> HIDE DEF at
<1>6. flash \in [Addr -> Content]
  <2> SUFFICES ASSUME NEW a \in Addr PROVE flash[a] \in Content
    BY <1>1
  <2>1. CASE \E f \in Parts : In(f, a)
    <3>1. at(a) \in Parts /\ In(at(a), a)
      BY <2>1, <1>5
    <3>2. <<0, at(a), a - App[at(a)]>> \in Pages
      BY <3>1, <1>3, ReflashConstantsOK
    <3> QED
      BY <2>1, <3>2, <1>1 DEF Content
  <2>2. CASE ~\E f \in Parts : In(f, a)
    BY <2>2, <1>1 DEF Content
  <2> QED
    BY <2>1, <2>2
<1>7. ASSUME NEW f \in Parts, NEW k \in 0..Length[0][f]-1
      PROVE  flash[App[f] + k] = <<0, f, k>>
  <2>1. App[f] + k \in Addr /\ (App[f] + k) - App[f] = k
    BY <1>3, <1>4, FlashConstantsOK DEF Addr, Parts
  <2>2. In(f, App[f] + k)
    BY <1>7, <2>1
  <2>3. \A g \in Parts : In(g, App[f] + k) => g = f
    BY <1>3, <1>4 DEF Parts
  <2>4. at(App[f] + k) = f
    BY <1>5, <2>2, <2>3
  <2> HIDE DEF In
  <2> QED
    BY <1>1, <2>1, <2>2, <2>4
<1>8. WholeProgram
  <2>1. Runs(0)
    BY <1>7 DEF Runs
  <2> QED
    BY <1>2, <2>1 DEF WholeProgram
<1>9. DeviceInit
  BY <1>2, <1>6 DEF DeviceInit
<1>10. DevTypeOK /\ HostTypeOK /\ NetTypeOK
  <2>1. 1 \in Updates /\ 1 \in Parts
    BY Constants DEF Updates
  <2>2. 0 \in 0..Pushed(1, 1)-1
    BY <2>1, PushedIs
  <2> QED
    BY <1>2, <1>6, <2>1, <2>2, Constants, BlockPagesNat DEF DevTypeOK, HostTypeOK, NetTypeOK
<1> QED
  BY <1>2, <1>8, <1>9, <1>10, TypeParts, DeviceInitInv DEF PInv, RequestsOK, CopiesOwn

LEMMA Always == Spec => []PInv
BY InitPInv, PInvKept, PTL DEF Spec

(* Types of the host, the network and the device.                          *)
THEOREM ReflashTypes == Spec => []TypeOK
BY Always, PTL DEF PInv

(* Whatever the network loses, repeats, delays or reorders, wherever the   *)
(* host gives up and however often it is run again, the device is left     *)
(* with one whole program, for files of any lengths.                       *)
THEOREM OneWholeProgram == Spec => []WholeProgram
BY Always, PTL DEF PInv

(* The device does nothing with the host but what it may do alone.         *)
THEOREM DeviceWithHost == Spec => DeviceSpec
<1>1. PInv /\ [Next]_vars => [DeviceNext]_deviceVars
  BY StepsOfDevice DEF PInv
<1>2. Init => DeviceInit
  BY InitPInv
<1> QED
  BY <1>1, <1>2, Always, PTL DEF Spec, DeviceSpec

(* What FM copies is what it verified, also over the network.              *)
THEOREM ExactOverNetwork == Spec => RewritesExactly
BY DeviceWithHost, ExactRewrite
-----------------------------------------------------------------------------
(* What the host was told is written is there.  Nothing counts here that   *)
(* came late, so what the device takes is the command at hand.             *)

FirstFits == Stage[1] + Length[update][1] <= Stage[2]

(* The first n pages of file f are where they were pushed to, as far as    *)
(* the flash goes.                                                         *)
Staged(f, n) == \A k \in 0..Length[update][f]-1 :
  k < n /\ Stage[f] + k \in Addr => flash[Stage[f] + k] = Data(update, f, k)

BlankFrom(p) == \A a \in Addr : a >= p /\ a < Block * BlockPages + BlockPages => flash[a] = Erased
InPlace == Place \in Addr => flash[Place] = Data(update, file, page)

(* A command is not sent before the ones it follows are answered.          *)
Behind(r) == r.on[1] = update /\ r.op # "FM" =>
  \/ r.on[2] = 1 /\ file = 2
  \/ r.on[2] = file /\ r.on[3] < page
  \/ r.on[2] = file /\ r.on[3] = page /\ (r.op = "FW" => phase = "write")

RepliesAnswer == \A r \in replies : \E q \in requests :
  q.op # "FM" /\ r = [op |-> q.op, at |-> q.at, on |-> q.on]

Asking ==
  /\ Go(update) \notin requests
  /\ \A r \in requests : Behind(r)
  /\ phase = "erase" => Place = Block * BlockPages
  /\ phase = "write" => lastblock = Block

HostInv == RepliesAnswer /\ (phase # "ended" => Asking)

(* What is behind the page at hand is written, what is ahead of it in the  *)
(* block is blank.                                                         *)
Pushing ==
  /\ file = 2 /\ FirstFits => Staged(1, Length[update][1])
  /\ Staged(file, page)
  /\ phase = "write" => BlankFrom(Place + 1) /\ (BlankFrom(Place) \/ InPlace)
  /\ \A r \in replies : r.on = AtHand.on /\ r.op = AtHand.op =>
       IF phase = "erase" THEN BlankFrom(Place) ELSE InPlace

AllPushed == (FirstFits => Staged(1, Length[update][1])) /\ Staged(2, Length[update][2])

StagedInv == late = 0 => /\ phase # "ended" => Pushing
                         /\ Go(update) \in requests => AllPushed

SInv == PInv /\ HostInv /\ StagedInv
-----------------------------------------------------------------------------
LEMMA NextOfBlock ==
  ASSUME NEW p \in Nat, (p + 1) \div BlockPages # p \div BlockPages
  PROVE  p + 1 = ((p + 1) \div BlockPages) * BlockPages
<1> DEFINE q == p \div BlockPages
<1>1. BlockPages \in Nat \ {0}
  BY BlockPagesNat
<1>2. q \in Nat /\ q * BlockPages <= p /\ p < q * BlockPages + BlockPages
  BY <1>1, QuotientBounds
<1> HIDE DEF q
<1>3. p + 1 = q * BlockPages + BlockPages
  <2> SUFFICES ASSUME p + 1 # q * BlockPages + BlockPages PROVE FALSE
    OBVIOUS
  <2>1. q * BlockPages <= p + 1 /\ p + 1 < q * BlockPages + BlockPages
    BY <1>1, <1>2
  <2>2. (p + 1) \div BlockPages = q
    BY <1>1, <1>2, <2>1, QuotientIs
  <2> QED
    BY <2>2 DEF q
<1>4. (q + 1) * BlockPages = q * BlockPages + BlockPages
  BY <1>1, <1>2
<1>5. (p + 1) \div BlockPages = q + 1
  BY <1>1, <1>2, <1>3, <1>4, QuotientIs
<1> QED
  BY <1>3, <1>4, <1>5

(* Where the host is: its numbers.                                         *)
LEMMA HostNumbers ==
  ASSUME TypeOK
  PROVE  /\ update \in Updates /\ update \in 0..LastUpdate /\ file \in Parts /\ page \in Nat
         /\ Stage[file] \in Nat /\ Stage[1] \in Nat /\ Stage[2] \in Nat /\ Stage[1] < Stage[2]
         /\ Stage[1] <= Stage[file] /\ Place \in Nat /\ Place = Stage[file] + page /\ Block \in Nat
         /\ BlockPages \in Nat \ {0} /\ Block * BlockPages \in Nat
         /\ (Block + 1) * BlockPages = Block * BlockPages + BlockPages
         /\ Block * BlockPages <= Place /\ Place < Block * BlockPages + BlockPages
         /\ Length[update][1] \in Nat \ {0} /\ Length[update][2] \in Nat \ {0}
         /\ Length[update][file] \in Nat \ {0} /\ late \in Nat
<1>1. update \in Updates /\ file \in Parts /\ page \in Nat /\ late \in Nat
  BY DEF TypeOK
<1>2. update \in 0..LastUpdate
  BY <1>1, Constants DEF Updates
<1>3. Stage[file] \in Nat /\ Stage[1] \in Nat /\ Stage[2] \in Nat /\ Stage[1] < Stage[2]
  BY <1>1, Constants, PlacesOK
<1>4. BlockPages \in Nat \ {0} /\ Place \in Nat /\ Place = Stage[file] + page
  BY <1>1, <1>3, BlockPagesNat DEF Place
<1>5. Block \in Nat /\ Block * BlockPages <= Place /\ Place < Block * BlockPages + BlockPages
  BY <1>4, QuotientBounds DEF Block
<1>6. Block * BlockPages \in Nat /\ (Block + 1) * BlockPages = Block * BlockPages + BlockPages
  BY <1>4, <1>5
<1>7. /\ Length[update][1] \in Nat \ {0} /\ Length[update][2] \in Nat \ {0}
      /\ Length[update][file] \in Nat \ {0}
  BY <1>1, <1>2, Constants
<1>8. Stage[1] <= Stage[file]
  BY <1>1, <1>3 DEF Parts
<1> HIDE DEF Place, Block
<1> QED
  BY <1>1, <1>2, <1>3, <1>4, <1>5, <1>6, <1>7, <1>8

LEMMA FileStart ==
  ASSUME NEW f \in Parts
  PROVE  Stage[f] \div BlockPages \in Nat /\ Stage[f] = (Stage[f] \div BlockPages) * BlockPages
BY WholeBlocks, PlacesOK, Constants

LEMMA RequestFrom ==
  ASSUME TypeOK, NEW r \in requests
  PROVE  r.on \in Updates \X (0..2) \X Nat /\ r.on[2] \in Nat /\ r.on[3] \in Nat
<1>1. r.on \in Updates \X (0..2) \X Nat
  BY DEF TypeOK, Requests
<1> QED
  BY <1>1

LEMMA CountsUp ==
  ASSUME TypeOK, [Next]_vars, late' = 0
  PROVE  late = 0
<1>1. late \in Nat
  BY DEF TypeOK
<1>2. ASSUME NEW b, Count(b) PROVE late' \in {late, late + 1}
  BY <1>2 DEF Count
<1>3. late' \in {late, late + 1}
  BY <1>2 DEF Next, Ask, GiveUp, BlockErased, Written, Answered, RunAgain, Deliver, Copy, vars
<1> QED
  BY <1>1, <1>3
-----------------------------------------------------------------------------
(* The host asks in order.                                                 *)
LEMMA RepliesKept == HostInv /\ [Next]_vars => RepliesAnswer'
<1> SUFFICES ASSUME RepliesAnswer, [Next]_vars PROVE RepliesAnswer'
  BY DEF HostInv
<1>1. requests \subseteq requests'
  BY DEF Next, Ask, GiveUp, BlockErased, Written, Advance, RunAgain, Deliver, Copy, vars
<1>2. CASE replies' \subseteq replies
  BY <1>1, <1>2 DEF RepliesAnswer
<1>3. ASSUME NEW q \in requests, Deliver(q) PROVE RepliesAnswer'
  <2>1. \/ replies' = replies
        \/ /\ q.op # "FM"
           /\ replies' = replies \cup {[op |-> q.op, at |-> q.at, on |-> q.on]}
    BY <1>3 DEF Deliver
  <2> QED
    BY <1>1, <2>1 DEF RepliesAnswer
<1> QED
  BY <1>2, <1>3 DEF Next, Ask, GiveUp, BlockErased, Written, RunAgain, Copy, vars

(* What the next page begins with.                                         *)
LEMMA ErasingIs ==
  ASSUME NEW f \in Parts, NEW k \in Nat, NEW last
  PROVE  /\ Erasing(f, k, last) \in {"erase", "write"}
         /\ Erasing(f, k, last) = "write" <=> (Stage[f] + k) \div BlockPages = last
BY DEF Erasing

LEMMA AskingKept ==
  ASSUME TypeOK, TypeOK', RequestsOK, HostInv, [Next]_vars, phase' # "ended"
  PROVE  Asking'
<1> USE DEF HostInv
<1>0. update \in Updates /\ update \in Nat /\ file \in Parts /\ page \in Nat /\ Block \in Nat
  BY HostNumbers, Constants
<1>1. CASE UNCHANGED <<hostVars, requests>>
  BY <1>1 DEF hostVars, Asking, Behind, Place, Block, Go
<1>2. CASE Ask
  <2>1. /\ UNCHANGED <<update, phase, file, page, lastblock>> /\ Asking
        /\ requests' = requests \cup {AtHand} /\ phase # "ended"
    BY <1>2 DEF Ask
  <2>2. /\ AtHand.on = <<update, file, page>> /\ AtHand.op = (IF phase = "erase" THEN "FB" ELSE "FW")
        /\ phase \in {"erase", "write", "ended"}
    BY DEF AtHand, TypeOK
  <2>3. Behind(AtHand) /\ AtHand # Go(update)
    BY <2>1, <2>2 DEF Behind, Go
  <2> QED
    BY <2>1, <2>3 DEF Asking, Behind, Place, Block, Go
<1>3. CASE BlockErased
  <2>1. /\ UNCHANGED <<update, file, page, requests>> /\ Asking
        /\ phase' = "write" /\ lastblock' = Block
    BY <1>3 DEF BlockErased
  <2> QED
    BY <2>1 DEF Asking, Behind, Place, Block, Go
<1>4. CASE Written
  <2>1. phase = "write" /\ Asking /\ update' = update
    BY <1>4 DEF Written
  <2>2. CASE More /\ page' = page + 1 /\ phase' = Erasing(file, page + 1, lastblock)
             /\ UNCHANGED <<file, lastblock, requests>>
    <3>1. \A r \in requests : Behind(r)'
      BY <1>0, <2>1, <2>2, RequestFrom DEF Asking, Behind
    <3>6. Stage[file] \in Nat /\ Place \in Nat
      BY HostNumbers
    <3>7. Place' = Place + 1
      BY <1>0, <2>2, <3>6 DEF Place
    <3>2. /\ Place \in Nat /\ Place' = Place + 1 /\ Block' = (Place + 1) \div BlockPages
          /\ Block = Place \div BlockPages /\ lastblock = Block
      BY <2>1, <3>6, <3>7 DEF Asking, Block
    <3>3. phase' = "write" <=> Block' = Block
      BY <1>0, <2>2, <3>2, ErasingIs DEF Place, Block
    <3>4. Block' # Block => Place' = Block' * BlockPages
      BY <3>2, NextOfBlock
    <3> QED
      BY <2>1, <2>2, <3>1, <3>2, <3>3, <3>4 DEF Asking, Go
  <2>3. CASE file = 1 /\ file' = 2 /\ page' = 0 /\ lastblock' = NoLastBlock
             /\ phase' = Erasing(2, 0, NoLastBlock) /\ UNCHANGED requests
    <3>1. \A r \in requests : Behind(r)'
      BY <2>1, <2>3 DEF Asking, Behind
    <3>2. Stage[2] \in Nat /\ Stage[2] + 0 = Stage[2] /\ 2 \in Parts
      BY Constants
    <3>3. Block' = Stage[2] \div BlockPages /\ Place' = Stage[2]
      BY <2>3, <3>2 DEF Place, Block
    <3>4. Block' \in Nat /\ Place' = Block' * BlockPages
      BY <3>2, <3>3, FileStart
    <3>5. phase' = "erase"
      <4>1. (Stage[2] + 0) \div BlockPages = Block' /\ Block' # NoLastBlock
        BY <3>2, <3>3, <3>4 DEF NoLastBlock
      <4> QED
        BY <2>3, <3>2, <4>1 DEF Erasing
    <3> QED
      BY <2>1, <2>3, <3>1, <3>4, <3>5 DEF Asking, Go
  <2> QED
    BY <1>4, <2>2, <2>3 DEF Written, Advance
<1>5. CASE RunAgain
  <2>1. /\ update' = update + 1 /\ phase' = "erase" /\ file' = 1 /\ page' = 0
        /\ requests' = requests
    BY <1>5 DEF RunAgain
  <2>2. \A r \in requests : r.on[1] \in 1..update
    BY DEF RequestsOK
  <2>3. \A r \in requests : r.on[1] # update'
    BY <1>0, <2>1, <2>2
  <2>4. Go(update') \notin requests
    BY <2>3 DEF Go
  <2>5. Place' = Stage[1] /\ Block' = Stage[1] \div BlockPages
    BY <2>1, Constants DEF Place, Block
  <2> QED
    BY <2>1, <2>3, <2>4, <2>5, Constants, FileStart DEF Asking, Behind, Go
<1>6. CASE GiveUp
  BY <1>6 DEF GiveUp
<1> QED
  BY <1>1, <1>2, <1>3, <1>4, <1>5, <1>6 DEF Next, Deliver, Copy, vars
-----------------------------------------------------------------------------
(* The copying leaves alone what was pushed.                               *)
LEMMA CopiesBelow ==
  ASSUME PInv, pc # "idle"
  PROVE  /\ Layout(cmd) /\ CommandOK(cmd)
         /\ \A k \in Parts : \A a \in Room(cmd.to[k], cmd.size[k]) : a < Stage[1]
<1>1. PICK u \in 1..update : cmd = FM(u) /\ Layout(cmd)
  BY DEF PInv, CopiesOwn
<1>2. u \in 0..LastUpdate /\ cmd.to = App /\ cmd.size = Length[u] /\ CommandOK(cmd)
  <2>1. update \in 1..LastUpdate
    BY DEF PInv, TypeOK, Updates
  <2> QED
    BY <1>1, <2>1, Constants DEF PInv, DInv, DeviceTypeOK, FM
<1>3. /\ Length[u][1] \in Nat \ {0} /\ Length[u][2] \in Nat \ {0}
      /\ App[1] \in Nat /\ App[2] \in Nat /\ Stage[1] \in Nat
      /\ App[1] < App[2] /\ App[2] < Stage[1] /\ App[2] + Length[u][2] <= Stage[1]
      /\ App[1] % BlockPages = 0 /\ App[2] % BlockPages = 0 /\ Stage[1] % BlockPages = 0
  BY <1>2, Constants, PlacesOK
<1>4. Room(App[2], Length[u][2]) \subseteq App[2] .. Stage[1]-1
  BY <1>3, SpaceFor
<1>5. App[1] + Length[u][1] <= App[2]
  <2> SUFFICES ASSUME App[2] < App[1] + Length[u][1] PROVE FALSE
    BY <1>3
  <2>1. \A k \in Parts : /\ Room(App[k], Length[u][k]) = App[k] .. App[k] + Size(k) - 1
                         /\ Size(k) \in Nat \ {0} /\ Length[u][k] <= Size(k)
    BY <1>2, <1>3, RoomIsTarget DEF Parts
  <2>4. Size(1) \in Nat \ {0} /\ Size(2) \in Nat \ {0} /\ Length[u][1] <= Size(1)
    BY <2>1, Constants
  <2>2. App[2] \in App[1] .. App[1] + Size(1) - 1 /\ App[2] \in App[2] .. App[2] + Size(2) - 1
    BY <1>3, <2>4
  <2>3. App[2] \in Room(App[1], Length[u][1]) \cap Room(App[2], Length[u][2])
    BY <2>1, <2>2, Constants
  <2> QED
    BY <1>1, <1>2, <2>3 DEF Layout
<1>6. Room(App[1], Length[u][1]) \subseteq App[1] .. App[2]-1
  BY <1>3, <1>5, SpaceFor
<1>7. ASSUME NEW k \in Parts, NEW a \in Room(cmd.to[k], cmd.size[k]) PROVE a < Stage[1]
  <2>1. CASE k = 1
    BY <1>2, <1>3, <1>6, <2>1
  <2>2. CASE k = 2
    BY <1>2, <1>3, <1>4, <2>2
  <2> QED
    BY <2>1, <2>2 DEF Parts
<1> QED
  BY <1>1, <1>2, <1>7

Elsewhere(a) == \A k \in Parts : a \notin Room(cmd.to[k], cmd.size[k])
KeptElsewhere == \A a \in Addr : Elsewhere(a) => flash[a] = was[a]

LEMMA NotCopied == DInv /\ pc # "idle" /\ Layout(cmd) => KeptElsewhere
<1> SUFFICES ASSUME DInv, pc # "idle", Layout(cmd), NEW a \in Addr, Elsewhere(a)
             PROVE  flash[a] = was[a]
  BY DEF KeptElsewhere
<1> USE DEF Elsewhere
<1>1. DeviceTypeOK /\ CopyOK /\ part \in Parts /\ 1 \in Parts /\ CommandOK(cmd)
      /\ \A k \in Parts : cmd.size[k] > 0
  BY DEF DInv, DeviceTypeOK, Parts, Layout
<1>2. /\ cmd.to[part] \in Nat /\ Size(part) \in Nat /\ i * BlockPages \in Nat
      /\ (i + 1) * BlockPages <= Size(part) /\ i * BlockPages + BlockPages = (i + 1) * BlockPages
  BY <1>1, Here
<1>3. Front \in Nat /\ Front <= Size(part)
  BY <1>2, BlockPagesNat DEF Front
<1>4. \A k \in Parts : Room(cmd.to[k], cmd.size[k]) = cmd.to[k] .. cmd.to[k] + Size(k) - 1
  BY <1>1, RoomIsTarget
<1>5. a \notin cmd.to[part] .. cmd.to[part] + Size(part) - 1 /\ a \notin Target(1)
  BY <1>1, <1>4 DEF Target
<1>6. a \notin cmd.to[part] .. cmd.to[part] + Front - 1
  BY <1>2, <1>3, <1>5 DEF Addr
<1> QED
  BY <1>1, <1>5, <1>6 DEF CopyOK, KeptBut

LEMMA StageUntouched ==
  ASSUME PInv, PInv', Copy, NEW a \in Addr, Stage[1] <= a
  PROVE  flash'[a] = flash[a]
<1>1. /\ pc # "idle" /\ cmd' = cmd /\ was' = was /\ DInv /\ DInv' /\ [DeviceNext]_deviceVars
      /\ pc' = "idle" => pc = "write"
  BY DEF PInv, Copy, CopyErase, CopyWrite, DeviceNext
<1>2. /\ Layout(cmd) /\ a \in Int /\ Stage[1] \in Nat
      /\ \A k \in Parts : \A b \in Room(cmd.to[k], cmd.size[k]) : b < Stage[1]
  BY <1>1, CopiesBelow, Constants DEF Addr
<1>3. Elsewhere(a) /\ Elsewhere(a)'
  BY <1>1, <1>2 DEF Elsewhere
<1>4. flash[a] = was[a]
  BY <1>1, <1>2, <1>3, NotCopied DEF KeptElsewhere
<1>5. CASE pc' = "idle"
  BY <1>1, <1>2, <1>3, <1>4, <1>5, CopyEnds DEF Elsewhere
<1>6. CASE pc' # "idle"
  <2>1. (DInv /\ pc # "idle" /\ Layout(cmd))'
    BY <1>1, <1>2, <1>6 DEF Layout
  <2>2. KeptElsewhere'
    BY <2>1, NotCopied, PTL
  <2> QED
    BY <1>1, <1>3, <1>4, <2>2 DEF KeptElsewhere
<1> QED
  BY <1>5, <1>6
-----------------------------------------------------------------------------
(* The stage as the host goes on.                                          *)
LEMMA StageAddr ==
  ASSUME TypeOK, NEW f \in Parts, NEW k \in 0..Length[update][f]-1
  PROVE  k \in Nat /\ Stage[f] + k \in Nat /\ Stage[1] <= Stage[f] + k
<1>1. /\ Stage[1] \in Nat /\ Stage[2] \in Nat /\ Stage[1] < Stage[2] /\ Stage[f] \in Nat
      /\ update \in 0..LastUpdate
  BY HostNumbers, Constants
<1>2. Length[update][f] \in Nat
  BY <1>1, Constants
<1>3. k \in Nat /\ Stage[1] <= Stage[f]
  BY <1>1, <1>2 DEF Parts
<1> QED
  BY <1>1, <1>3

LEMMA SameStage ==
  ASSUME TypeOK, UNCHANGED <<update, phase, file, page>>,
         \A a \in Addr : Stage[1] <= a => flash'[a] = flash[a]
  PROVE  /\ \A f \in Parts : \A n : Staged(f, n) => Staged(f, n)'
         /\ AllPushed => AllPushed'
         /\ replies' = replies /\ Pushing => Pushing'
<1>1. \A f \in Parts : \A n : Staged(f, n) => Staged(f, n)'
  <2> SUFFICES ASSUME NEW f \in Parts, NEW n, Staged(f, n), NEW k \in 0..Length[update][f]-1,
                      k < n, Stage[f] + k \in Addr
               PROVE  flash'[Stage[f] + k] = Data(update, f, k)
    BY DEF Staged
  <2>1. flash[Stage[f] + k] = Data(update, f, k)
    BY DEF Staged
  <2> QED
    BY <2>1, StageAddr
<1>2. (BlankFrom(Place) => BlankFrom(Place)') /\ (BlankFrom(Place + 1) => BlankFrom(Place + 1)')
      /\ (InPlace => InPlace')
  <2>1. Place' = Place /\ Block' = Block /\ Place \in Nat /\ Stage[1] \in Nat /\ Stage[1] <= Place
    BY HostNumbers DEF Place, Block
  <2>2. \A a \in Addr : a >= Place => flash'[a] = flash[a]
    BY <2>1 DEF Addr
  <2> HIDE DEF Place, Block
  <2> QED
    BY <2>1, <2>2 DEF BlankFrom, InPlace, Addr
<1>3. AllPushed => AllPushed'
  BY <1>1, Constants DEF AllPushed, FirstFits
<1>4. AtHand' = AtHand
  BY DEF AtHand, Place, Block
<1>5. replies' = replies /\ Pushing => Pushing'
  BY <1>1, <1>2, <1>4, Constants, HostNumbers DEF Pushing, FirstFits
<1> QED
  BY <1>1, <1>3, <1>5

(* FB at hand blanks the block; the pages before it are in others.         *)
LEMMA EraseStages ==
  ASSUME TypeOK, Asking, Pushing, phase = "erase", EraseBlock(Block), UNCHANGED hostVars
  PROVE  Pushing'
<1>1. /\ Place' = Place /\ Block' = Block /\ UNCHANGED <<update, phase, file, page>>
      /\ Place = Block * BlockPages
  BY DEF hostVars, Place, Block, Asking
<1>2. /\ Block * BlockPages \in Nat /\ (Block + 1) * BlockPages = Block * BlockPages + BlockPages
      /\ BlockPages \in Nat /\ Place \in Nat /\ Stage[file] \in Nat /\ page \in Nat /\ Place = Stage[file] + page
      /\ Stage[1] \in Nat /\ Stage[2] \in Nat /\ file \in Parts
  BY HostNumbers
<1> HIDE DEF Place, Block
<1>3. /\ \A a \in Addr : a < Place => flash'[a] = flash[a]
      /\ \A a \in Addr : a >= Place /\ a < Place + BlockPages => flash'[a] = Erased
  BY <1>1, <1>2, SMTT(30) DEF EraseBlock, EraseAt, Addr
<1>4. BlankFrom(Place)'
  BY <1>1, <1>3 DEF BlankFrom
<1>5. Staged(file, page)'
  <2> SUFFICES ASSUME NEW k \in 0..Length[update][file]-1, k < page, Stage[file] + k \in Addr
               PROVE  flash'[Stage[file] + k] = Data(update, file, k)
    BY <1>1 DEF Staged
  <2>1. k \in Nat /\ Stage[file] + k < Place
    BY <1>2, StageAddr
  <2>2. flash[Stage[file] + k] = Data(update, file, k)
    BY DEF Pushing, Staged
  <2> QED
    BY <1>3, <2>1, <2>2
<1>6. file = 2 /\ FirstFits => Staged(1, Length[update][1])'
  <2> SUFFICES ASSUME file = 2, FirstFits, NEW k \in 0..Length[update][1]-1, Stage[1] + k \in Addr,
                      k < Length[update][1]
               PROVE  flash'[Stage[1] + k] = Data(update, 1, k)
    BY <1>1 DEF Staged
  <2>3. k \in Nat /\ Length[update][1] \in Nat /\ Stage[1] + Length[update][1] <= Stage[2]
    BY HostNumbers DEF FirstFits
  <2>1. k \in Nat /\ Stage[1] + k < Place
    BY <1>2, <2>3
  <2>2. flash[Stage[1] + k] = Data(update, 1, k)
    BY DEF Pushing, Staged
  <2> QED
    BY <1>3, <2>1, <2>2
<1> QED
  BY <1>1, <1>4, <1>5, <1>6 DEF Pushing, FirstFits

(* FW at hand puts the page where nothing was, or the page.                *)
LEMMA WriteStages ==
  ASSUME TypeOK, Pushing, phase = "write", WritePage(Place, Data(update, file, page)), UNCHANGED hostVars
  PROVE  Pushing'
<1>1. /\ Place' = Place /\ Block' = Block /\ UNCHANGED <<update, phase, file, page>>
  BY DEF hostVars, Place, Block
<1>2. /\ Place \in Nat /\ Stage[file] \in Nat /\ page \in Nat /\ Place = Stage[file] + page
      /\ Stage[1] \in Nat /\ Stage[2] \in Nat /\ file \in Parts
      /\ Place < Block * BlockPages + BlockPages
  BY HostNumbers
<1> HIDE DEF Place, Block
<1>3. \A a \in Addr : a # Place => flash'[a] = flash[a]
  BY DEF WritePage
<1>4. InPlace'
  <2> SUFFICES ASSUME Place \in Addr PROVE flash'[Place] = Data(update, file, page)
    BY <1>1 DEF InPlace
  <2>1. flash[Place] = Erased \/ flash[Place] = Data(update, file, page)
    BY <1>2 DEF Pushing, BlankFrom, InPlace
  <2> QED
    BY <2>1 DEF WritePage, Program
<1>5. BlankFrom(Place + 1)'
  BY <1>1, <1>2, <1>3 DEF Pushing, BlankFrom, Addr
<1>6. Staged(file, page)'
  <2> SUFFICES ASSUME NEW k \in 0..Length[update][file]-1, k < page, Stage[file] + k \in Addr
               PROVE  flash'[Stage[file] + k] = Data(update, file, k)
    BY <1>1 DEF Staged
  <2>1. k \in Nat /\ Stage[file] + k # Place
    BY <1>2, StageAddr
  <2>2. flash[Stage[file] + k] = Data(update, file, k)
    BY DEF Pushing, Staged
  <2> QED
    BY <1>3, <2>1, <2>2
<1>7. file = 2 /\ FirstFits => Staged(1, Length[update][1])'
  <2> SUFFICES ASSUME file = 2, FirstFits, NEW k \in 0..Length[update][1]-1, Stage[1] + k \in Addr,
                      k < Length[update][1]
               PROVE  flash'[Stage[1] + k] = Data(update, 1, k)
    BY <1>1 DEF Staged
  <2>3. k \in Nat /\ Length[update][1] \in Nat /\ Stage[1] + Length[update][1] <= Stage[2]
    BY HostNumbers DEF FirstFits
  <2>1. k \in Nat /\ Stage[1] + k # Place
    BY <1>2, <2>3
  <2>2. flash[Stage[1] + k] = Data(update, 1, k)
    BY DEF Pushing, Staged
  <2> QED
    BY <1>3, <2>1, <2>2
<1> QED
  BY <1>1, <1>4, <1>5, <1>6, <1>7 DEF Pushing, FirstFits

(* Nothing was answered yet of what the host has not asked.                *)
LEMMA NotAnswered ==
  ASSUME TypeOK, RepliesAnswer, Asking, NEW r \in replies, r.on[1] = update,
         \/ r.on[2] = file /\ r.on[3] = page + 1
         \/ r.on[2] = 2 /\ file = 1
         \/ r.on[2] = file /\ r.on[3] = page /\ r.op = "FW" /\ phase = "erase"
  PROVE  FALSE
<1>1. PICK q \in requests : q.op # "FM" /\ r.op = q.op /\ r.on = q.on
  BY DEF RepliesAnswer
<1>2. Behind(q) /\ q.on[3] \in Nat /\ page \in Nat
  BY RequestFrom, HostNumbers DEF Asking
<1> QED
  BY <1>1, <1>2 DEF Behind

LEMMA PageWritten ==
  ASSUME TypeOK, Pushing, InPlace, NEW n \in Nat, n <= page + 1
  PROVE  Staged(file, n)
<1> SUFFICES ASSUME NEW k \in 0..Length[update][file]-1, k < n, Stage[file] + k \in Addr
             PROVE  flash[Stage[file] + k] = Data(update, file, k)
  BY DEF Staged
<1>1. k \in Nat /\ page \in Nat /\ Place = Stage[file] + page
  BY HostNumbers, StageAddr
<1>2. CASE k = page
  BY <1>1, <1>2 DEF InPlace
<1>3. CASE k < page
  BY <1>3 DEF Pushing, Staged
<1> QED
  BY <1>1, <1>2, <1>3

LEMMA DeliverStages ==
  ASSUME TypeOK, HostInv, StagedInv, late = 0, late' = 0, NEW r \in requests, Deliver(r)
  PROVE  StagedInv'
<1>1. UNCHANGED <<hostVars, requests>> /\ InTime(r)
  BY DEF Deliver, Count
<1>2. UNCHANGED <<update, phase, file, page>> /\ Go(update)' = Go(update)
  BY <1>1 DEF hostVars, Go
<1>3. CASE r = Go(update)
  <2>1. r.op = "FM"
    BY <1>3 DEF Go
  <2>2. flash' = flash /\ replies' = replies
    BY <2>1 DEF Deliver, Rewrite, Refuse, deviceVars
  <2>3. (AllPushed => AllPushed') /\ (Pushing => Pushing')
    BY <1>2, <2>2, SameStage
  <2> QED
    BY <1>1, <1>2, <2>3 DEF StagedInv
<1>4. CASE phase # "ended" /\ r = AtHand
  <2>1. Asking /\ Pushing /\ phase \in {"erase", "write"}
    BY <1>4 DEF HostInv, StagedInv, TypeOK
  <2>2. CASE phase = "erase"
    <3>1. r.op = "FB" /\ r.at = Block
      BY <1>4, <2>2 DEF AtHand
    <3>2. EraseBlock(Block)
      BY <3>1 DEF Deliver
    <3> QED
      BY <1>1, <1>2, <2>1, <2>2, <3>2, EraseStages DEF StagedInv, Asking
  <2>3. CASE phase = "write"
    <3>1. r.op = "FW" /\ r.at = Place /\ r.data = Data(update, file, page)
      BY <1>4, <2>3 DEF AtHand
    <3>2. WritePage(Place, Data(update, file, page))
      BY <3>1 DEF Deliver
    <3> QED
      BY <1>1, <1>2, <2>1, <2>3, <3>2, WriteStages DEF StagedInv, Asking
  <2> QED
    BY <2>1, <2>2, <2>3
<1> QED
  BY <1>1, <1>3, <1>4 DEF InTime

LEMMA CopyStages ==
  ASSUME PInv, PInv', StagedInv, late = 0, Copy
  PROVE  StagedInv'
<1>1. UNCHANGED <<update, phase, file, page, replies, requests>> /\ Go(update)' = Go(update) /\ TypeOK
  BY DEF Copy, hostVars, Go, PInv
<1>2. \A a \in Addr : Stage[1] <= a => flash'[a] = flash[a]
  BY StageUntouched
<1>3. (AllPushed => AllPushed') /\ (Pushing => Pushing')
  BY <1>1, <1>2, SameStage
<1> QED
  BY <1>1, <1>3 DEF StagedInv

LEMMA AskStages ==
  ASSUME TypeOK, StagedInv, late = 0, Ask \/ GiveUp \/ UNCHANGED vars
  PROVE  StagedInv'
<1>1. UNCHANGED <<update, file, page, replies, flash>> /\ Go(update)' = Go(update)
  BY DEF Ask, GiveUp, vars, deviceVars, hostVars, Go
<1>2. CASE phase' = phase
  <2>1. (AllPushed => AllPushed') /\ (Pushing => Pushing')
    BY <1>1, <1>2, SameStage
  <2>2. AtHand # Go(update)
    BY DEF AtHand, Go
  <2>3. Go(update) \in requests' => Go(update) \in requests
    BY <2>2 DEF Ask, GiveUp, vars
  <2> QED
    BY <1>1, <1>2, <2>1, <2>3 DEF StagedInv
<1>3. CASE phase' = "ended" /\ requests' = requests
  <2>1. AllPushed => AllPushed'
    BY <1>1 DEF AllPushed, FirstFits, Staged
  <2> QED
    BY <1>1, <1>3, <2>1 DEF StagedInv
<1> QED
  BY <1>2, <1>3 DEF Ask, GiveUp, vars, hostVars

(* An answer in time is to the command at hand.                            *)
LEMMA ErasedStages ==
  ASSUME TypeOK, HostInv, StagedInv, late = 0, late' = 0, BlockErased
  PROVE  StagedInv'
<1>1. /\ phase = "erase" /\ phase' = "write" /\ UNCHANGED <<update, file, page, replies, requests, flash>>
      /\ Answered
  BY DEF BlockErased, deviceVars
<1>2. Asking /\ Pushing /\ RepliesAnswer
  BY <1>1 DEF HostInv, StagedInv
<1>3. PICK r \in replies : r.op = AtHand.op /\ r.on = AtHand.on
  BY <1>1 DEF Answered, Count
<1>4. BlankFrom(Place)
  BY <1>1, <1>2, <1>3 DEF Pushing
<1>5. Place' = Place /\ Block' = Block /\ Go(update)' = Go(update) /\ Place \in Nat
  BY <1>1, HostNumbers DEF Place, Block, Go
<1>6. AtHand'.op = "FW" /\ AtHand'.on = <<update, file, page>>
  BY <1>1 DEF AtHand
<1>7. ASSUME NEW q \in replies, q.on = AtHand'.on, q.op = AtHand'.op PROVE FALSE
  <2>1. q.on[1] = update /\ q.on[2] = file /\ q.on[3] = page /\ q.op = "FW"
    BY <1>6, <1>7
  <2> QED
    BY <1>1, <1>2, <2>1, NotAnswered
<1> HIDE DEF Place, Block
<1>8. BlankFrom(Place)' /\ BlankFrom(Place + 1)'
  BY <1>1, <1>4, <1>5 DEF BlankFrom, Addr
<1>9. Staged(file, page)' /\ (file = 2 /\ FirstFits => Staged(1, Length[update][1])')
  BY <1>1, <1>2 DEF Pushing, Staged
<1>10. Pushing'
  BY <1>1, <1>5, <1>7, <1>8, <1>9 DEF Pushing, FirstFits
<1> QED
  BY <1>1, <1>2, <1>5, <1>10 DEF StagedInv, Asking

(* The page at hand is written: the one after it, in this file or the next. *)
LEMMA WrittenHere ==
  ASSUME TypeOK, HostInv, StagedInv, late = 0, late' = 0, Written
  PROVE  /\ phase = "write" /\ UNCHANGED <<update, replies, flash>> /\ Advance
         /\ Asking /\ Pushing /\ RepliesAnswer /\ InPlace
         /\ \A n \in Nat : n <= page + 1 => Staged(file, n)
<1>1. phase = "write" /\ UNCHANGED <<update, replies, flash>> /\ Advance /\ Answered
  BY DEF Written, deviceVars
<1>2. Asking /\ Pushing /\ RepliesAnswer
  BY <1>1 DEF HostInv, StagedInv
<1>3. PICK r \in replies : r.op = AtHand.op /\ r.on = AtHand.on
  BY <1>1 DEF Answered, Count
<1>4. InPlace
  BY <1>1, <1>2, <1>3 DEF Pushing
<1> QED
  BY <1>1, <1>2, <1>4, PageWritten

LEMMA NextPageStages ==
  ASSUME TypeOK, HostInv, StagedInv, late = 0, late' = 0, Written,
         More, page' = page + 1, phase' = Erasing(file, page + 1, lastblock),
         UNCHANGED <<file, lastblock, requests>>
  PROVE  StagedInv'
<1>1. /\ phase = "write" /\ UNCHANGED <<update, replies, flash>>
      /\ Asking /\ Pushing /\ RepliesAnswer /\ InPlace
      /\ \A n \in Nat : n <= page + 1 => Staged(file, n)
  BY WrittenHere
<1>2. /\ Stage[file] \in Nat /\ page \in Nat /\ file \in Parts /\ Place \in Nat
      /\ Place = Stage[file] + page /\ Block = Place \div BlockPages
  BY HostNumbers DEF Block
<1>3. Place' = Place + 1 /\ Block' = (Place + 1) \div BlockPages
  BY <1>2 DEF Place, Block
<1>4. phase' \in {"erase", "write"} /\ (phase' = "write" => Block' = Block)
  <2>1. lastblock = Block
    BY <1>1 DEF Asking
  <2>2. page + 1 \in Nat /\ Stage[file] + (page + 1) = Place + 1
    BY <1>2
  <2> QED
    BY <1>2, <1>3, <2>1, <2>2, ErasingIs
<1>5. AtHand'.on = <<update, file, page + 1>>
  BY <1>1 DEF AtHand
<1>6. ASSUME NEW q \in replies, q.on = AtHand'.on PROVE FALSE
  <2>1. q.on[1] = update /\ q.on[2] = file /\ q.on[3] = page + 1
    BY <1>5, <1>6
  <2> QED
    BY <1>1, <2>1, NotAnswered
<1> HIDE DEF Place, Block
<1>7. phase' = "write" => BlankFrom(Place)'
  BY <1>1, <1>3, <1>4 DEF Pushing, BlankFrom
<1>8. phase' = "write" => BlankFrom(Place + 1)'
  BY <1>2, <1>3, <1>7 DEF BlankFrom, Addr
<1>9. Staged(file, page)'
  <2>1. Staged(file, page + 1)
    BY <1>1, <1>2
  <2> QED
    BY <1>1, <2>1 DEF Staged
<1>10. (file = 2 /\ FirstFits => Staged(1, Length[update][1]))'
  BY <1>1 DEF Pushing, Staged, FirstFits
<1>11. Pushing'
  BY <1>1, <1>6, <1>7, <1>8, <1>9, <1>10 DEF Pushing
<1>12. Go(update)' \notin requests'
  BY <1>1 DEF Asking, Go
<1> QED
  BY <1>11, <1>12 DEF StagedInv

LEMMA WholeFile ==
  ASSUME TypeOK, ~More
  PROVE  Length[update][file] \in Nat /\ Length[update][file] <= page + 1
<1>1. Length[update][file] \in Nat /\ page \in Nat
  BY HostNumbers
<1>2. Pushed(update, file) \in Nat /\ Pushed(update, file) <= page + 1
  BY <1>1 DEF More, Pushed
<1> QED
  BY <1>1, <1>2 DEF Pushed

LEMMA NextFileStages ==
  ASSUME TypeOK, HostInv, StagedInv, late = 0, late' = 0, Written,
         ~More, file = 1, file' = 2, page' = 0, lastblock' = NoLastBlock,
         phase' = Erasing(2, 0, NoLastBlock), UNCHANGED requests
  PROVE  StagedInv'
<1>1. /\ phase = "write" /\ UNCHANGED <<update, replies, flash>>
      /\ Asking /\ Pushing /\ RepliesAnswer /\ InPlace
      /\ \A n \in Nat : n <= page + 1 => Staged(file, n)
  BY WrittenHere
<1>2. Staged(1, Length[update][1])
  BY <1>1, WholeFile
<1>3. phase' = "erase"
  <2>1. Stage[2] \in Nat /\ Stage[2] + 0 = Stage[2] /\ 2 \in Parts
    BY Constants
  <2>2. Stage[2] \div BlockPages \in Nat
    BY <2>1, FileStart
  <2>3. (Stage[2] + 0) \div BlockPages # NoLastBlock
    BY <2>1, <2>2 DEF NoLastBlock
  <2> QED
    BY <2>3 DEF Erasing
<1>4. AtHand'.on = <<update, 2, 0>>
  BY <1>1 DEF AtHand
<1>5. ASSUME NEW q \in replies, q.on = AtHand'.on PROVE FALSE
  <2>1. q.on[1] = update /\ q.on[2] = 2
    BY <1>4, <1>5
  <2> QED
    BY <1>1, <2>1, NotAnswered
<1>6. Staged(2, 0)'
  <2>1. \A k \in 0..Length[update][2]-1 : ~(k < 0)
    BY HostNumbers
  <2> QED
    BY <1>1, <2>1 DEF Staged
<1>7. Staged(1, Length[update][1])'
  BY <1>1, <1>2 DEF Staged
<1>8. Pushing'
  BY <1>1, <1>3, <1>5, <1>6, <1>7 DEF Pushing
<1>9. Go(update)' \notin requests'
  BY <1>1 DEF Asking, Go
<1> QED
  BY <1>8, <1>9 DEF StagedInv

LEMMA LastPageStages ==
  ASSUME TypeOK, HostInv, StagedInv, late = 0, late' = 0, Written,
         ~More, file = 2, phase' = "ended"
  PROVE  StagedInv'
<1>1. /\ UNCHANGED <<update, flash>> /\ Pushing
      /\ \A n \in Nat : n <= page + 1 => Staged(file, n)
  BY WrittenHere
<1>2. Staged(2, Length[update][2])
  BY <1>1, WholeFile
<1>3. AllPushed
  BY <1>1, <1>2 DEF Pushing, AllPushed
<1>4. AllPushed'
  BY <1>1, <1>3 DEF AllPushed, FirstFits, Staged
<1> QED
  BY <1>4 DEF StagedInv

LEMMA AgainStages ==
  ASSUME TypeOK, RequestsOK, RunAgain
  PROVE  StagedInv'
<1>1. /\ update' = update + 1 /\ phase' = "erase" /\ file' = 1 /\ page' = 0
      /\ requests' = requests /\ replies' = {}
  BY DEF RunAgain
<1>2. update \in Nat /\ update' \in 0..LastUpdate
  BY <1>1, HostNumbers, Constants DEF RunAgain, Updates
<1>3. Go(update)' \notin requests'
  <2>1. \A r \in requests : r.on[1] \in 1..update
    BY DEF RequestsOK
  <2> QED
    BY <1>1, <1>2, <2>1 DEF Go
<1>4. Staged(file, page)'
  <2>1. Length[update'][1] \in Nat
    BY <1>2, Constants
  <2>2. \A k \in 0..Length[update'][1]-1 : ~(k < 0)
    BY <2>1
  <2> QED
    BY <1>1, <2>2 DEF Staged
<1> QED
  BY <1>1, <1>3, <1>4 DEF StagedInv, Pushing

LEMMA StagedKept ==
  ASSUME PInv, PInv', HostInv, StagedInv, [Next]_vars
  PROVE  StagedInv'
<1> SUFFICES ASSUME late' = 0 PROVE StagedInv'
  BY DEF StagedInv
<1>1. TypeOK /\ RequestsOK /\ late = 0
  BY CountsUp DEF PInv
<1>2. CASE Written
  <2>1. Advance
    BY <1>2 DEF Written
  <2> QED
    BY <1>1, <1>2, <2>1, NextPageStages, NextFileStages, LastPageStages DEF Advance
<1> QED
  BY <1>1, <1>2, DeliverStages, CopyStages, AskStages, ErasedStages, AgainStages DEF Next

LEMMA SInvKept == SInv /\ [Next]_vars => SInv'
<1> SUFFICES ASSUME SInv, [Next]_vars PROVE SInv'
  OBVIOUS
<1>1. PInv' /\ TypeOK /\ TypeOK' /\ RequestsOK
  BY PInvKept DEF SInv, PInv
<1>2. HostInv'
  BY <1>1, RepliesKept, AskingKept DEF SInv, HostInv
<1> QED
  BY <1>1, <1>2, StagedKept DEF SInv

LEMMA InitSInv == Init => SInv
<1> SUFFICES ASSUME Init PROVE SInv
  OBVIOUS
<1>1. PInv /\ TypeOK
  BY InitPInv DEF PInv
<1>2. Place = Block * BlockPages
  <2>1. Place = Stage[1] /\ Block = Stage[1] \div BlockPages
    BY Constants DEF Init, Place, Block
  <2> QED
    BY <2>1, FileStart, Constants
<1>3. HostInv
  BY <1>2 DEF Init, HostInv, RepliesAnswer, Asking
<1>4. Staged(file, page)
  <2>1. \A k \in 0..Length[update][file]-1 : ~(k < page)
    BY <1>1, HostNumbers DEF Init
  <2> QED
    BY <2>1 DEF Staged
<1>5. StagedInv
  BY <1>4 DEF Init, StagedInv, Pushing
<1> QED
  BY <1>1, <1>3, <1>5 DEF SInv

LEMMA AlwaysStaged == Spec => []SInv
BY InitSInv, SInvKept, PTL DEF Spec

(* What FM asks to be verified is there: no byte of either file is lost,   *)
(* repeated in the place of another, or erased with the block after it.    *)
LEMMA StagedMatches ==
  ASSUME TypeOK, AllPushed, FirstFits, NEW f \in Parts
  PROVE  Matches(FM(update), f)
<1>1. /\ Stage[1] \in Nat /\ Stage[2] \in Nat /\ App[1] \in Nat /\ App[2] \in Nat
      /\ Stage[2] - Stage[1] = App[2] - App[1]
      /\ App[2] + Length[update][2] <= Stage[1] /\ Stage[1] + Stage[1] <= FlashPages + App[1]
      /\ Stage[1] + Length[update][1] <= Stage[2] /\ FlashPages \in Nat
      /\ Length[update][1] \in Nat \ {0} /\ Length[update][2] \in Nat \ {0}
  BY HostNumbers, Constants, PlacesOK, StageOnFlash, FlashConstantsOK DEF FirstFits
<1>2. Stage[2] + Length[update][2] <= FlashPages /\ Stage[1] + Length[update][1] <= FlashPages
  BY <1>1
<1>3. \A k \in 0..Length[update][f]-1 : Stage[f] + k \in Addr /\ k < Length[update][f]
  BY <1>1, <1>2 DEF Addr, Parts
<1>4. Staged(f, Length[update][f])
  BY DEF AllPushed, Parts
<1>5. \A k \in 0..Length[update][f]-1 : Read(flash, Stage[f] + k) = Data(update, f, k)
  BY <1>3, <1>4 DEF Staged, Read
<1> QED
  BY <1>5 DEF Matches, FM, Image

(* What the host was told is written is there when it sends FM.  Where the *)
(* files are pushed to, the flash goes on long enough.                     *)
THEOREM PushedStaged == Spec => []PushedIsStaged
<1>1. SInv => PushedIsStaged
  BY StagedMatches DEF SInv, PInv, StagedInv, PushedIsStaged, FirstFits
<1> QED
  BY <1>1, AlwaysStaged, PTL
=============================================================================
