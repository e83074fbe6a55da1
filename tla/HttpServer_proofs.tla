-------------------------- MODULE HttpServer_proofs --------------------------
(***************************************************************************)
(* The web server, for any number of slots, any file system, and any       *)
(* number of connections and requests, cut anywhere.  All there is to say  *)
(* is about one slot, so what every function does to a slot comes first.   *)
(***************************************************************************)
EXTENDS HttpServer, TLAPS, WellFoundedInduction, SequenceTheorems

PacketType ==
  [what : {"200", "404", "101", "data", "huge", "echo", "issue", "frame"},
   from : Nat, to : {Unknown, Endless} \cup Nat]

(* Sent in order and without a gap.                                        *)
PageOK(page) ==
  \A k \in DOMAIN page : page[k].what = "data" =>
    /\ k > 1 /\ page[1].what = "200" /\ page[k].to <= page[1].to
    /\ page[k].from = IF k = 2 THEN 0 ELSE page[k-1].to

(* How much of its file a page has sent, and what is done about it next.   *)
SendsFile(h) ==
  h.state = "DATA_XFER" /\ ~h.is_dynamic =>
    IF h.is404 THEN h.page = IF h.isdone THEN <<Packet("404", 0, 0)>> ELSE <<>>
    ELSE IF h.isfirst THEN h.page = <<>> /\ h.bytesleft = h.filelen /\ ~h.isdone
    ELSE /\ h.page # <<>> /\ h.page[1] = Packet("200", 0, h.filelen)
         /\ h.bytesleft \in 0..h.filelen
         /\ IF Len(h.page) = 1 THEN h.bytesleft = h.filelen /\ ~h.isdone
            ELSE Last(h.page).what = "data" /\ Last(h.page).to = h.filelen - h.bytesleft
         /\ h.isdone => h.bytesleft = 0

Linked(h) == h.state = "NONE" <=> h.link = "none"

(* The count is not behind the ticks that found the connection waiting,    *)
(* but for the first of them, which may find any count; nor ahead of them  *)
(* if data set it back.                                                    *)
OnTime(h) ==
  h.link \in {"eth", "wifi"} =>
    /\ h.idle = 0 \/ (h.idle <= h.timeout /\ h.timeout <= HTTP_SERVER_TIMEOUT + 1)
    /\ h.last = "data" => h.timeout = h.idle

HasOwn(h) ==
  /\ h.state = "DATA_XFER" /\ h.is_dynamic =>
       (h.rcb = "huge" <=> h.path = "/d/huge") /\ (h.rcb = "issue" <=> h.path = "/d/issue?")
  /\ h.state = "DATA_WEBSOCKET" /\ h.state_deets > 0 /\ h.path \in WsPaths \ {"/d/ws/other"} =>
       h.rcb = "none" /\ (h.rcbDat = "issue" <=> h.path = "/d/ws/issue")

SlotOK(h) == h \in Slot /\ PageOK(h.page) /\ SendsFile(h) /\ Linked(h) /\ HasOwn(h)

(* The counts, which only the tick and the data touch.                     *)
SameTime(g, h) == /\ g.timeout = h.timeout /\ g.idle = h.idle
                  /\ (g.link = h.link /\ g.last = h.last) \/ g.link \in {"none", "closing"}
-----------------------------------------------------------------------------
LEMMA Numbers ==
  /\ HTTP_CONNECTIONS \in Nat /\ HTTP_SERVER_TIMEOUT \in Nat /\ MFS_SECTOR \in Nat \ {0}
  /\ Word \in Nat /\ HTTP_SERVER_TIMEOUT + 1 < Word
  /\ Conns \subseteq Nat /\ None \notin Conns
BY ConstantsOK DEF Conns, None

LEMMA LeastOf ==
  ASSUME NEW a \in Int, NEW b \in Int
  PROVE  Least(a, b) \in Int /\ Least(a, b) <= a /\ Least(a, b) <= b /\ Least(a, b) \in {a, b}
BY DEF Least

LEMMA WriteSlot ==
  ASSUME NEW h \in Slot, NEW packet \in PacketType, packet.what # "huge"
  PROVE  /\ EndTCPWrite(h, packet) = [h EXCEPT !.unsent = TRUE, !.page = Append(h.page, packet)]
         /\ EndTCPWrite(h, packet) \in Slot
<1>1. EndTCPWrite(h, packet) = [h EXCEPT !.unsent = TRUE, !.page = Append(h.page, packet)]
  BY DEF EndTCPWrite, Slot
<1>2. h.page \in Seq(PacketType)
  BY DEF Slot, PacketType
<1>3. Append(h.page, packet) \in Seq(PacketType)
  BY <1>2, AppendProperties
<1> QED
  BY <1>1, <1>3, ZenonT(60) DEF Slot, PacketType

LEMMA CloseSlot ==
  ASSUME NEW h \in Slot, Linked(h), h.state # "NONE"
  PROVE  LET g == HTTPClose(h) IN
         /\ g \in Slot /\ Linked(g) /\ g.state \in {"NONE", "WAIT_CLOSE"} /\ g.page = h.page
         /\ g.link \in {"none", "closing"} /\ SameTime(g, h)
<1> DEFINE e == [h EXCEPT !.state = "NONE", !.link = "none", !.last = "closed"]
           w == [h EXCEPT !.state = "WAIT_CLOSE", !.link = "closing", !.last = "closed"]
<1>1. HTTPClose(h) = IF h.link = "eth" THEN e ELSE w
  BY DEF HTTPClose, http_disconnetcb, Slot
<1>2. /\ e \in Slot /\ e.state = "NONE" /\ e.link = "none" /\ e.page = h.page
      /\ e.timeout = h.timeout /\ e.idle = h.idle
  BY ZenonT(60) DEF Slot
<1>3. /\ w \in Slot /\ w.state = "WAIT_CLOSE" /\ w.link = "closing" /\ w.page = h.page
      /\ w.timeout = h.timeout /\ w.idle = h.idle
  BY ZenonT(60) DEF Slot
<1> HIDE DEF e, w
<1>4. CASE h.link = "eth"
  BY <1>1, <1>2, <1>4 DEF Linked, SameTime
<1>5. CASE h.link # "eth"
  BY <1>1, <1>3, <1>5 DEF Linked, SameTime
<1> QED
  BY <1>4, <1>5

LEMMA PacketIs ==
  ASSUME NEW what \in {"200", "404", "101", "data", "huge", "echo", "issue", "frame"},
         NEW from \in Nat, NEW to \in {Unknown, Endless} \cup Nat
  PROVE  /\ Packet(what, from, to) \in PacketType /\ Packet(what, from, to).what = what
         /\ Packet(what, from, to).from = from /\ Packet(what, from, to).to = to
BY DEF Packet, PacketType

LEMMA PageGrows ==
  ASSUME NEW page \in Seq(PacketType), PageOK(page), NEW p \in PacketType,
         p.what = "data" => /\ page # <<>> /\ page[1].what = "200" /\ p.to <= page[1].to
                            /\ p.from = IF Len(page) = 1 THEN 0 ELSE page[Len(page)].to
  PROVE  LET q == Append(page, p) IN
         /\ PageOK(q) /\ q \in Seq(PacketType) /\ Len(q) = Len(page) + 1 /\ Last(q) = p
         /\ q[1] = IF page = <<>> THEN p ELSE page[1]
         /\ q # <<>> /\ (page = <<>> => q = <<p>>)
<1> DEFINE q == Append(page, p)
           n == Len(page)
<1>1. /\ q \in Seq(PacketType) /\ Len(q) = n + 1 /\ q[n + 1] = p
      /\ \A k \in 1..n : q[k] = page[k]
  BY AppendProperties
<1>2. n \in Nat /\ (page = <<>> <=> n = 0) /\ DOMAIN page = 1..n
  BY EmptySeq
<1>3. page = <<>> => q = <<p>>
  OBVIOUS
<1> HIDE DEF q
<1>4. DOMAIN q = 1..n + 1 /\ q # <<>>
  BY <1>1, <1>2
<1>5. q[1] = IF page = <<>> THEN p ELSE page[1]
  <2>1. CASE n = 0
    BY <1>1, <1>2, <2>1
  <2>2. CASE n # 0
    <3>1. 1 \in 1..n
      BY <1>2, <2>2
    <3> QED
      BY <1>1, <1>2, <2>2, <3>1
  <2> QED
    BY <2>1, <2>2
<1>6. Last(q) = p
  BY <1>1 DEF Last
<1>7. ASSUME NEW k \in DOMAIN q, q[k].what = "data"
      PROVE  /\ k > 1 /\ q[1].what = "200" /\ q[k].to <= q[1].to
             /\ q[k].from = IF k = 2 THEN 0 ELSE q[k-1].to
  <2>1. CASE k = n + 1
    <3>1. /\ page # <<>> /\ page[1].what = "200" /\ p.to <= page[1].to
          /\ p.from = IF n = 1 THEN 0 ELSE page[n].to
      BY <1>1, <1>7, <2>1
    <3>2. n \in 1..n /\ k > 1 /\ (k = 2 <=> n = 1) /\ k - 1 = n
      BY <1>2, <2>1, <3>1
    <3>3. q[n] = page[n] /\ q[k] = p /\ q[1] = page[1]
      BY <1>1, <1>5, <2>1, <3>1, <3>2
    <3> QED
      BY <3>1, <3>2, <3>3
  <2>2. CASE k # n + 1
    <3>1. k \in 1..n /\ q[k] = page[k]
      BY <1>1, <1>2, <1>4, <2>2
    <3>2. /\ k > 1 /\ page[1].what = "200" /\ page[k].to <= page[1].to
          /\ page[k].from = IF k = 2 THEN 0 ELSE page[k-1].to
      BY <1>2, <1>7, <3>1 DEF PageOK
    <3>3. page # <<>> /\ k - 1 \in 1..n
      BY <1>2, <3>1, <3>2
    <3>4. q[1] = page[1] /\ q[k-1] = page[k-1]
      BY <1>1, <1>5, <3>3
    <3> QED
      BY <3>1, <3>2, <3>4
  <2> QED
    BY <2>1, <2>2
<1>8. PageOK(q)
  BY <1>7 DEF PageOK
<1> QED
  BY <1>1, <1>3, <1>4, <1>5, <1>6, <1>8 DEF q
-----------------------------------------------------------------------------
(* A page that is a file.                                                  *)
LEMMA NotFoundSends ==
  ASSUME NEW h, SlotOK(h), h.state = "DATA_XFER", ~h.is_dynamic, ~h.isdone, h.is404
  PROVE  LET g == HTTPHandleInternalCallback(h) IN SlotOK(g) /\ SameTime(g, h) /\ g.state = "DATA_XFER"
<1> DEFINE p == Packet("404", 0, 0)
           g == [h EXCEPT !.unsent = TRUE, !.page = <<p>>, !.isdone = TRUE]
<1>1. h \in Slot /\ h.page = <<>> /\ Linked(h)
  BY DEF SlotOK, SendsFile
<1>2. p \in PacketType /\ p.what = "404"
  BY PacketIs
<1>3. EndTCPWrite(h, p) = [h EXCEPT !.unsent = TRUE, !.page = <<p>>]
  <2>1. EndTCPWrite(h, p) = [h EXCEPT !.unsent = TRUE, !.page = Append(h.page, p)]
    BY <1>1, <1>2, WriteSlot
  <2>2. Append(h.page, p) = <<p>>
    BY <1>1
  <2> QED
    BY <2>1, <2>2
<1>4. PageOK(<<p>>) /\ <<p>> \in Seq(PacketType)
  BY <1>2 DEF PageOK
<1>5. HTTPHandleInternalCallback(h) = [EndTCPWrite(h, p) EXCEPT !.isdone = TRUE]
  BY DEF HTTPHandleInternalCallback
<1>6. HTTPHandleInternalCallback(h) = g
  BY <1>1, <1>3, <1>5, Zenon DEF Slot
<1>7. /\ g \in Slot /\ g.page = <<p>> /\ g.is404 /\ g.isdone /\ g.state = "DATA_XFER" /\ ~g.is_dynamic
      /\ g.link = h.link /\ g.timeout = h.timeout /\ g.idle = h.idle /\ g.last = h.last
  BY <1>1, <1>4 DEF Slot, PacketType
<1> HIDE DEF g
<1> QED
  BY <1>1, <1>4, <1>6, <1>7 DEF SlotOK, SendsFile, Linked, HasOwn, SameTime

LEMMA HeaderSends ==
  ASSUME NEW h \in Slot, PageOK(h.page), h.page = <<>>, ~h.isdone, ~h.is404, h.isfirst
  PROVE  LET g == HTTPHandleInternalCallback(h)
             p == Packet("200", 0, h.bytesleft)
         IN /\ g = [h EXCEPT !.unsent = TRUE, !.page = <<p>>, !.keep_alive = h.bytesleft >= 0, !.isfirst = FALSE]
            /\ g \in Slot /\ PageOK(g.page)
<1> DEFINE p == Packet("200", 0, h.bytesleft)
           g == [h EXCEPT !.unsent = TRUE, !.page = <<p>>, !.keep_alive = h.bytesleft >= 0, !.isfirst = FALSE]
<1>1. h.bytesleft \in {Unknown, Endless} \cup Nat /\ (h.bytesleft >= 0) \in BOOLEAN
  <2>1. h.bytesleft \in {Unknown, Endless} \cup Nat
    BY DEF Slot
  <2> QED
    BY <2>1 DEF Unknown, Endless
<1>2. p \in PacketType /\ p.what = "200"
  BY <1>1, PacketIs
<1>3. EndTCPWrite(h, p) = [h EXCEPT !.unsent = TRUE, !.page = <<p>>]
  <2>1. EndTCPWrite(h, p) = [h EXCEPT !.unsent = TRUE, !.page = Append(h.page, p)]
    BY <1>2, WriteSlot
  <2>2. Append(h.page, p) = <<p>>
    OBVIOUS
  <2> QED
    BY <2>1, <2>2
<1>4. PageOK(<<p>>) /\ <<p>> \in Seq(PacketType)
  BY <1>2 DEF PageOK
<1>5. HTTPHandleInternalCallback(h)
        = [EndTCPWrite(h, p) EXCEPT !.keep_alive = h.bytesleft >= 0, !.isfirst = FALSE]
  BY DEF HTTPHandleInternalCallback
<1>6. HTTPHandleInternalCallback(h) = g
  BY <1>3, <1>5 DEF Slot
<1>7. g \in Slot /\ g.page = <<p>>
  BY <1>1, <1>4, ZenonT(60) DEF Slot, PacketType
<1> QED
  BY <1>4, <1>6, <1>7

LEMMA FirstSends ==
  ASSUME NEW h, SlotOK(h), h.state = "DATA_XFER", ~h.is_dynamic, ~h.isdone, ~h.is404, h.isfirst
  PROVE  LET g == HTTPHandleInternalCallback(h) IN SlotOK(g) /\ SameTime(g, h) /\ g.state = "DATA_XFER"
<1> DEFINE p == Packet("200", 0, h.bytesleft)
           g == [h EXCEPT !.unsent = TRUE, !.page = <<p>>, !.keep_alive = h.bytesleft >= 0, !.isfirst = FALSE]
<1>1. h \in Slot /\ h.page = <<>> /\ h.bytesleft = h.filelen /\ Linked(h) /\ PageOK(h.page)
  BY DEF SlotOK, SendsFile
<1>2. HTTPHandleInternalCallback(h) = g /\ g \in Slot /\ PageOK(g.page)
  BY <1>1, HeaderSends
<1>3. /\ g.page = <<p>> /\ ~g.is404 /\ ~g.isdone /\ ~g.isfirst /\ g.state = "DATA_XFER" /\ ~g.is_dynamic
      /\ g.link = h.link /\ g.timeout = h.timeout /\ g.idle = h.idle /\ g.last = h.last
      /\ g.bytesleft = h.filelen /\ g.filelen = h.filelen
  BY <1>1 DEF Slot
<1>4. h.filelen \in Nat
  BY <1>1 DEF Slot
<1> HIDE DEF g
<1>5. SendsFile(g)
  <2>1. /\ g.page # <<>> /\ Len(g.page) = 1 /\ g.page[1] = Packet("200", 0, g.filelen)
        /\ g.bytesleft \in 0..g.filelen
    BY <1>1, <1>3, <1>4
  <2> QED
    BY <1>3, <2>1 DEF SendsFile
<1> QED
  BY <1>1, <1>2, <1>3, <1>5 DEF SlotOK, Linked, HasOwn, SameTime

LEMMA SectorsSend ==
  ASSUME NEW h, SlotOK(h), h.state = "DATA_XFER", ~h.is_dynamic, ~h.isdone, ~h.is404, ~h.isfirst
  PROVE  LET g == HTTPHandleInternalCallback(h) IN SlotOK(g) /\ SameTime(g, h) /\ g.state = "DATA_XFER"
<1> DEFINE n == Least(h.bytesleft, 4 * MFS_SECTOR)
           from == h.filelen - h.bytesleft
           p == Packet("data", from, from + n)
           q == Append(h.page, p)
           g == [h EXCEPT !.unsent = TRUE, !.page = q, !.bytesleft = h.bytesleft - n, !.isdone = h.bytesleft = n]
<1>1. /\ h \in Slot /\ Linked(h) /\ PageOK(h.page)
      /\ h.page # <<>> /\ h.page[1] = Packet("200", 0, h.filelen)
      /\ h.bytesleft \in 0..h.filelen
      /\ Len(h.page) = 1 => h.bytesleft = h.filelen
      /\ Len(h.page) # 1 => Last(h.page).to = h.filelen - h.bytesleft
  BY DEF SlotOK, SendsFile
<1>2. h.filelen \in Nat /\ h.page \in Seq(PacketType) /\ h.bytesleft \in Nat
  <2>1. h.filelen \in Nat
    BY <1>1 DEF Slot
  <2>2. h.page \in Seq(PacketType)
    BY <1>1 DEF Slot, PacketType
  <2> QED
    BY <1>1, <2>1, <2>2
<1>3. n \in 0..h.bytesleft /\ from \in Nat /\ from + n \in Nat /\ from + n <= h.filelen
  <2>1. 4 * MFS_SECTOR \in Nat
    BY Numbers
  <2>2. n <= h.bytesleft /\ n \in Nat
    BY <1>2, <2>1 DEF Least
  <2> QED
    BY <1>1, <1>2, <2>2
<1> HIDE DEF n, from
<1>4. p \in PacketType /\ p.what = "data" /\ p.from = from /\ p.to = from + n
  BY <1>3, PacketIs
<1>5. EndTCPWrite(h, p) = [h EXCEPT !.unsent = TRUE, !.page = q]
  BY <1>1, <1>4, WriteSlot
<1>6. h.page[1].what = "200" /\ h.page[1].to = h.filelen
  BY <1>1, <1>2, PacketIs
<1>7. p.from = IF Len(h.page) = 1 THEN 0 ELSE h.page[Len(h.page)].to
  BY <1>1, <1>2, <1>4 DEF Last, from
<1>8. /\ PageOK(q) /\ q \in Seq(PacketType) /\ Len(q) = Len(h.page) + 1 /\ Last(q) = p
      /\ q[1] = h.page[1] /\ q # <<>>
  BY <1>1, <1>2, <1>3, <1>4, <1>6, <1>7, PageGrows
<1>9. HTTPHandleInternalCallback(h) = Sectors(h)
  BY DEF HTTPHandleInternalCallback
<1>10. Sectors(h) = [EndTCPWrite(h, p) EXCEPT !.bytesleft = @ - n, !.isdone = h.bytesleft = n]
  BY DEF Sectors, n, from
<1> HIDE DEF p, q
<1>11. Sectors(h) = g
  BY <1>1, <1>5, <1>10 DEF Slot
<1>12. /\ g.page = q /\ ~g.is404 /\ ~g.isfirst /\ g.state = "DATA_XFER" /\ ~g.is_dynamic
       /\ g.link = h.link /\ g.timeout = h.timeout /\ g.idle = h.idle /\ g.last = h.last
       /\ g.bytesleft = h.bytesleft - n /\ g.filelen = h.filelen /\ (g.isdone <=> h.bytesleft = n)
  BY <1>1 DEF Slot
<1>13. g \in Slot
  <2>1. h.bytesleft - n \in Nat /\ (h.bytesleft = n) \in BOOLEAN
    BY <1>2, <1>3
  <2> QED
    BY <1>1, <1>8, <2>1 DEF Slot, PacketType
<1> HIDE DEF g
<1>14. SendsFile(g)
  <2>1. Len(q) # 1
    BY <1>1, <1>2, <1>8, EmptySeq
  <2>2. Last(g.page).what = "data" /\ Last(g.page).to = g.filelen - g.bytesleft
    BY <1>2, <1>3, <1>4, <1>8, <1>12 DEF from
  <2>3. g.bytesleft \in 0..g.filelen /\ (g.isdone => g.bytesleft = 0)
    BY <1>1, <1>2, <1>3, <1>12
  <2> QED
    BY <1>1, <1>8, <1>12, <2>1, <2>2, <2>3 DEF SendsFile
<1> QED
  BY <1>1, <1>8, <1>9, <1>11, <1>12, <1>13, <1>14 DEF SlotOK, Linked, HasOwn, SameTime

LEMMA FileSends ==
  ASSUME NEW h, SlotOK(h), h.state = "DATA_XFER", ~h.is_dynamic
  PROVE  LET g == HTTPHandleInternalCallback(h) IN
         SlotOK(g) /\ SameTime(g, h) /\ (g.state = "DATA_XFER" \/ h.isdone)
<1>1. CASE h.isdone
  <2> DEFINE g == HTTPClose(h)
  <2>1. h \in Slot /\ Linked(h) /\ PageOK(h.page)
    BY DEF SlotOK
  <2>2. /\ g \in Slot /\ Linked(g) /\ g.state \in {"NONE", "WAIT_CLOSE"} /\ g.page = h.page
        /\ SameTime(g, h)
    BY <2>1, CloseSlot
  <2>3. HTTPHandleInternalCallback(h) = g
    BY <1>1 DEF HTTPHandleInternalCallback
  <2> HIDE DEF g
  <2> QED
    BY <1>1, <2>1, <2>2, <2>3 DEF SlotOK, SendsFile, HasOwn
<1> QED
  BY <1>1, NotFoundSends, FirstSends, SectorsSend
-----------------------------------------------------------------------------
(* How a page begins.                                                      *)
LEMMA OpensFile ==
  ASSUME NEW h \in Slot, NEW name, Entries(name) # {}
  PROVE  \E n \in Nat : MFSOpenFile(h, name) = [h EXCEPT !.filelen = n]
<1> DEFINE least == CHOOSE n \in Entries(name) : \A m \in Entries(name) : n <= m
<1>1. Entries(name) \subseteq Nat /\ Entries(name) \subseteq DOMAIN Directory
  BY ConstantsOK DEF Entries
<1>2. \E n \in Entries(name) : \A m \in Entries(name) : n <= m
  <2> DEFINE less == OpToRel(<, Nat)
  <2>1. \E n \in Entries(name) : \A m \in Entries(name) : <<m, n>> \notin less
    <3> HIDE DEF less
    <3>1. IsWellFoundedOn(less, Nat)
      BY NatLessThanWellFounded DEF less
    <3> QED
      BY <1>1, <3>1, WFMin
  <2>2. \A n, m \in Nat : <<m, n>> \notin less => n <= m
    BY DEF OpToRel
  <2> QED
    BY <1>1, <2>1, <2>2
<1>3. least \in Entries(name)
  BY <1>2
<1> HIDE DEF least
<1>4. Directory[least].len \in Nat
  <2>1. Directory[least] \in [name : STRING, len : Nat]
    <3>1. Directory \in Seq([name : STRING, len : Nat]) /\ least \in DOMAIN Directory
      BY <1>1, <1>3, ConstantsOK
    <3>2. least \in 1..Len(Directory)
      BY <3>1
    <3> QED
      BY <3>1, <3>2, ElementOfSeq
  <2> QED
    BY <2>1
<1>5. MFSOpenFile(h, name) = [h EXCEPT !.filelen = Directory[least].len]
  BY DEF MFSOpenFile, least
<1> QED
  BY <1>4, <1>5

LEMMA StartsDynamic ==
  ASSUME NEW h \in Slot, h.state = "DATA_XFER", Linked(h), h.is_dynamic, h.path \in DynPaths,
         ~h.isdone, ~h.is404, h.page = <<>>
  PROVE  LET g == HTTPCustomStart(h) IN SlotOK(g) /\ SameTime(g, h)
<1> DEFINE rcb == CASE h.path = "/d/huge" -> "huge" [] h.path = "/d/echo?" -> "echo"
                    [] h.path = "/d/issue?" -> "issue" [] OTHER -> "none"
           left == CASE h.path = "/d/huge" -> Endless [] h.path \in {"/d/echo?", "/d/issue?"} -> Unknown
                     [] OTHER -> 0
           d == [h EXCEPT !.rcb = rcb, !.bytesleft = left, !.isfirst = TRUE]
           p == Packet("200", 0, left)
           g == [d EXCEPT !.unsent = TRUE, !.page = <<p>>, !.keep_alive = left >= 0, !.isfirst = FALSE]
<1>1. /\ rcb \in {"none", "huge", "echo", "issue"} /\ left \in {Unknown, Endless} \cup Nat
      /\ (rcb = "huge" <=> h.path = "/d/huge") /\ (rcb = "issue" <=> h.path = "/d/issue?")
  BY DEF DynPaths
<1>2. HTTPCustomStart(h) = HTTPHandleInternalCallback(d)
  BY DEF HTTPCustomStart
<1> HIDE DEF rcb, left
<1>3. /\ d \in Slot /\ d.page = <<>> /\ ~d.isdone /\ ~d.is404 /\ d.isfirst /\ d.bytesleft = left
  <2>1. d.page = <<>> /\ ~d.isdone /\ ~d.is404 /\ d.isfirst /\ d.bytesleft = left
    BY DEF Slot
  <2>2. d \in Slot
    <3>1. rcb \in {"none", "huge", "echo", "issue"} /\ left \in {Unknown, Endless} \cup Nat
      BY <1>1
    <3> QED
      BY <3>1, ZenonT(60) DEF Slot
  <2> QED
    BY <2>1, <2>2
<1>4. PageOK(d.page)
  BY <1>3 DEF PageOK
<1>5. /\ d.state = "DATA_XFER" /\ d.is_dynamic /\ d.rcb = rcb /\ d.path = h.path
      /\ d.link = h.link /\ d.timeout = h.timeout /\ d.idle = h.idle /\ d.last = h.last
  <2>1. d.state = "DATA_XFER" /\ d.is_dynamic /\ d.rcb = rcb /\ d.path = h.path
    BY DEF Slot
  <2>2. d.link = h.link /\ d.timeout = h.timeout /\ d.idle = h.idle /\ d.last = h.last
    BY DEF Slot
  <2> QED
    BY <2>1, <2>2
<1> HIDE DEF d
<1>6. HTTPHandleInternalCallback(d) = g /\ g \in Slot /\ PageOK(g.page)
  BY <1>3, <1>4, HeaderSends
<1>7. /\ g.state = "DATA_XFER" /\ g.is_dynamic /\ g.rcb = rcb /\ g.path = h.path
      /\ g.link = h.link /\ g.timeout = h.timeout /\ g.idle = h.idle /\ g.last = h.last
  BY <1>3, <1>5 DEF Slot
<1> HIDE DEF g
<1> QED
  BY <1>1, <1>2, <1>6, <1>7 DEF SlotOK, SendsFile, Linked, HasOwn, SameTime

LEMMA StartsPage ==
  ASSUME NEW h \in Slot, h.state = "DATA_XFER", Linked(h)
  PROVE  LET g == InternalStartHTTP(h) IN SlotOK(g) /\ SameTime(g, h)
<1> DEFINE new == [h EXCEPT !.isfirst = TRUE, !.isdone = FALSE, !.is404 = FALSE, !.page = <<>>]
           name == IF h.path = "" THEN "index.html" ELSE h.path
           c == [new EXCEPT !.is_dynamic = TRUE]
           e == [new EXCEPT !.is404 = TRUE, !.is_dynamic = FALSE, !.bytessofar = 0]
           f == MFSOpenFile(new, name)
           b == [f EXCEPT !.bytesleft = f.filelen, !.is_dynamic = FALSE, !.bytessofar = 0]
<1>1. InternalStartHTTP(h) = IF h.path \in DynPaths THEN HTTPCustomStart(c)
                             ELSE IF Entries(name) = {} THEN e ELSE b
  BY DEF InternalStartHTTP
<1>2. <<>> \in Seq(PacketType) /\ PageOK(<<>>)
  BY DEF PageOK
<1>3. /\ new \in Slot /\ new.state = "DATA_XFER" /\ new.page = <<>> /\ new.isfirst /\ ~new.isdone
      /\ ~new.is404 /\ new.path = h.path
      /\ new.link = h.link /\ new.timeout = h.timeout /\ new.idle = h.idle /\ new.last = h.last
  BY <1>2 DEF Slot, PacketType
<1> HIDE DEF new, name
<1>4. CASE h.path \in DynPaths
  <2>1. /\ c \in Slot /\ c.state = "DATA_XFER" /\ c.page = <<>> /\ ~c.isdone
        /\ ~c.is404 /\ c.path = h.path /\ c.is_dynamic
        /\ c.link = h.link /\ c.timeout = h.timeout /\ c.idle = h.idle /\ c.last = h.last
    BY <1>3 DEF Slot
  <2> HIDE DEF c
  <2>2. Linked(c)
    BY <2>1 DEF Linked
  <2>3. SlotOK(HTTPCustomStart(c)) /\ SameTime(HTTPCustomStart(c), c)
    BY <1>4, <2>1, <2>2, StartsDynamic
  <2> QED
    BY <1>1, <1>4, <2>1, <2>3 DEF SameTime
<1>5. CASE h.path \notin DynPaths /\ Entries(name) = {}
  <2>1. /\ e \in Slot /\ e.state = "DATA_XFER" /\ e.page = <<>> /\ ~e.isdone /\ e.is404 /\ ~e.is_dynamic
        /\ e.link = h.link /\ e.timeout = h.timeout /\ e.idle = h.idle /\ e.last = h.last
    BY <1>3 DEF Slot
  <2> HIDE DEF e
  <2> QED
    BY <1>1, <1>2, <1>5, <2>1 DEF SlotOK, SendsFile, Linked, HasOwn, SameTime
<1>6. CASE h.path \notin DynPaths /\ Entries(name) # {}
  <2>1. PICK n \in Nat : f = [new EXCEPT !.filelen = n]
    BY <1>3, <1>6, OpensFile
  <2> HIDE DEF f
  <2>2. f \in Slot /\ f.filelen = n
    BY <1>3, <2>1 DEF Slot
  <2>3. /\ f.state = "DATA_XFER" /\ f.page = <<>> /\ f.isfirst /\ ~f.isdone /\ ~f.is404
        /\ f.link = h.link /\ f.timeout = h.timeout /\ f.idle = h.idle /\ f.last = h.last
    BY <1>3, <2>1 DEF Slot
  <2>4. /\ b \in Slot /\ b.bytesleft = n /\ b.filelen = n /\ ~b.is_dynamic
    BY <2>2, ZenonT(60) DEF Slot
  <2>5. /\ b.state = "DATA_XFER" /\ b.page = <<>> /\ b.isfirst /\ ~b.isdone /\ ~b.is404
        /\ b.link = h.link /\ b.timeout = h.timeout /\ b.idle = h.idle /\ b.last = h.last
    BY <2>2, <2>3 DEF Slot
  <2> HIDE DEF b
  <2> QED
    BY <1>1, <1>2, <1>6, <2>4, <2>5 DEF SlotOK, SendsFile, Linked, HasOwn, SameTime
<1> QED
  BY <1>4, <1>5, <1>6
-----------------------------------------------------------------------------
(* Dynamic pages and websockets write, and change little else.             *)
Like(g, h) ==
  /\ g \in Slot /\ PageOK(g.page)
  /\ g.state = h.state /\ g.path = h.path /\ g.is_dynamic = h.is_dynamic /\ g.state_deets = h.state_deets
  /\ g.rcb = h.rcb /\ g.rcbDat = h.rcbDat
  /\ g.link = h.link /\ g.timeout = h.timeout /\ g.idle = h.idle /\ g.last = h.last

LEMMA LikeOK ==
  ASSUME NEW h, NEW g, SlotOK(h), Like(g, h), h.state = "DATA_XFER" => h.is_dynamic
  PROVE  SlotOK(g) /\ SameTime(g, h)
BY DEF SlotOK, Like, SendsFile, Linked, HasOwn, SameTime

LEMMA LikeSelf ==
  ASSUME NEW h, SlotOK(h)
  PROVE  Like(h, h)
BY DEF SlotOK, Like

LEMMA LikeWrite ==
  ASSUME NEW h \in Slot, PageOK(h.page), NEW p \in PacketType, p.what # "data"
  PROVE  Like(EndTCPWrite(h, p), h)
<1> DEFINE q == IF h.page # <<>> /\ Last(h.page) = p /\ p.what = "huge" THEN h.page ELSE Append(h.page, p)
<1>1. EndTCPWrite(h, p) = [h EXCEPT !.unsent = TRUE, !.page = q]
  BY DEF EndTCPWrite, Slot
<1>2. h.page \in Seq(PacketType)
  BY DEF Slot, PacketType
<1>3. q \in Seq(PacketType) /\ PageOK(q)
  BY <1>2, PageGrows
<1> HIDE DEF q
<1> DEFINE g == [h EXCEPT !.unsent = TRUE, !.page = q]
<1>4. g \in Slot /\ g.page = q
  BY <1>3 DEF Slot, PacketType
<1>5. /\ g.state = h.state /\ g.path = h.path /\ g.is_dynamic = h.is_dynamic /\ g.state_deets = h.state_deets
      /\ g.rcb = h.rcb /\ g.rcbDat = h.rcbDat
      /\ g.link = h.link /\ g.timeout = h.timeout /\ g.idle = h.idle /\ g.last = h.last
  BY DEF Slot
<1> HIDE DEF g
<1>6. Like(g, h)
  BY <1>3, <1>4, <1>5 DEF Like
<1> QED
  BY <1>1, <1>6 DEF g

(* A request is being read, or a connection ends.                          *)
Quiet == {"WAIT_METHOD", "WAIT_PATH", "WAIT_PROTO", "WAIT_FLAG", "WAIT_INFLAG", "WAIT_CLOSE"}

LEMMA QuietOK ==
  ASSUME NEW h, NEW g, SlotOK(h), h.state # "NONE", g \in Slot, PageOK(g.page), g.state \in Quiet,
         g.link = h.link, g.timeout = h.timeout, g.idle = h.idle, g.last = h.last
  PROVE  SlotOK(g) /\ SameTime(g, h)
BY DEF SlotOK, SendsFile, Linked, HasOwn, SameTime, Quiet

LEMMA GoesQuiet ==
  ASSUME NEW h, SlotOK(h), h.state # "NONE", NEW s \in Quiet
  PROVE  LET g == [h EXCEPT !.state = s] IN SlotOK(g) /\ SameTime(g, h) /\ g.state = s
<1> DEFINE g == [h EXCEPT !.state = s]
<1>1. h \in Slot /\ PageOK(h.page)
  BY DEF SlotOK
<1>2. /\ g \in Slot /\ g.page = h.page /\ g.state = s
      /\ g.link = h.link /\ g.timeout = h.timeout /\ g.idle = h.idle /\ g.last = h.last
  BY <1>1, ZenonT(60) DEF Slot, Quiet
<1> HIDE DEF g
<1>3. SlotOK(g) /\ SameTime(g, h)
  BY <1>1, <1>2, QuietOK
<1> QED
  BY <1>2, <1>3 DEF g

LEMMA SlotLike ==
  ASSUME NEW h, SlotOK(h), NEW g, Like(g, h), h.state = "DATA_XFER" => h.is_dynamic
  PROVE  SlotOK(g) /\ SameTime(g, h) /\ g.state = h.state
BY LikeOK DEF Like

LEMMA TimeTwice ==
  ASSUME NEW f, NEW g, NEW h, SameTime(f, g), SameTime(g, h)
  PROVE  SameTime(f, h)
BY DEF SameTime

LEMMA CallbackOK ==
  ASSUME NEW h, SlotOK(h), h.state # "NONE", h.state = "DATA_XFER" => h.is_dynamic, NEW answers \in BOOLEAN
  PROVE  LET g == HTTPCustomCallback(h, answers) IN SlotOK(g) /\ SameTime(g, h)
<1> DEFINE p(what) == Packet(what, 0, 0)
           w(what) == EndTCPWrite(h, p(what))
           d == [h EXCEPT !.isdone = TRUE]
           c(g) == [g EXCEPT !.state = "WAIT_CLOSE"]
           f == HTTPCustomCallback(h, answers)
<1>1. h \in Slot /\ PageOK(h.page)
  BY DEF SlotOK
<1>2. /\ h.rcb = "none" => f = d
      /\ h.rcb = "huge" => f = w("huge")
      /\ h.rcb = "echo" => f = c(w("echo"))
      /\ h.rcb = "issue" => f = c(IF answers THEN w("issue") ELSE h)
      /\ h.rcb \in {"none", "huge", "echo", "issue"}
  <2>1. h.rcb \in {"none", "huge", "echo", "issue"}
    BY <1>1 DEF Slot
  <2> QED
    BY <2>1 DEF HTTPCustomCallback
<1>3. ASSUME NEW what \in {"huge", "echo", "issue"}
      PROVE  SlotOK(w(what)) /\ SameTime(w(what), h) /\ w(what).state = h.state
  <2>1. p(what) \in PacketType /\ p(what).what # "data"
    BY PacketIs
  <2>2. Like(w(what), h)
    BY <1>1, <2>1, LikeWrite
  <2> QED
    BY <2>2, SlotLike
<1>4. SlotOK(d) /\ SameTime(d, h)
  <2>1. /\ d \in Slot /\ d.page = h.page
        /\ d.state = h.state /\ d.path = h.path /\ d.is_dynamic = h.is_dynamic /\ d.state_deets = h.state_deets
        /\ d.rcb = h.rcb /\ d.rcbDat = h.rcbDat
        /\ d.link = h.link /\ d.timeout = h.timeout /\ d.idle = h.idle /\ d.last = h.last
    BY <1>1 DEF Slot
  <2> HIDE DEF d
  <2>2. Like(d, h)
    BY <1>1, <2>1 DEF Like
  <2> QED
    BY <2>2, SlotLike
<1>5. ASSUME NEW g, SlotOK(g), SameTime(g, h), g.state # "NONE" PROVE SlotOK(c(g)) /\ SameTime(c(g), h)
  BY <1>5, GoesQuiet, TimeTwice DEF Quiet
<1>6. SlotOK(h) /\ SameTime(h, h)
  BY DEF SameTime
<1>7. SlotOK(c(w("echo"))) /\ SameTime(c(w("echo")), h)
  BY <1>3, <1>5
<1>8. LET g == IF answers THEN w("issue") ELSE h IN SlotOK(c(g)) /\ SameTime(c(g), h)
  BY <1>3, <1>5, <1>6
<1> HIDE DEF w, d, c, f
<1>9. SlotOK(f) /\ SameTime(f, h)
  BY <1>2, <1>3, <1>4, <1>7, <1>8
<1> QED
  BY <1>9 DEF f

LEMMA DeetsOK ==
  ASSUME NEW h, NEW g, SlotOK(h), h.state = "DATA_WEBSOCKET", h.state_deets > 0, g \in Slot, PageOK(g.page),
         g.state = h.state, g.path = h.path, g.rcb = h.rcb, g.rcbDat = h.rcbDat,
         g.link = h.link, g.timeout = h.timeout, g.idle = h.idle, g.last = h.last
  PROVE  SlotOK(g) /\ SameTime(g, h)
BY DEF SlotOK, SendsFile, Linked, HasOwn, SameTime

LEMMA WebSocketDataOK ==
  ASSUME NEW h, SlotOK(h), h.state = "DATA_WEBSOCKET"
  PROVE  LET g == WebSocketData(h) IN SlotOK(g) /\ SameTime(g, h)
<1> DEFINE e == [h EXCEPT !.bytessofar = h.bytessofar + 1]
           p(n) == Packet("frame", n, 0)
<1>1. h \in Slot /\ PageOK(h.page) /\ h.bytessofar \in Nat /\ h.rcbDat \in {"none", "echo", "eval", "issue"}
  BY DEF SlotOK, Slot
<1>2. /\ e \in Slot /\ e.page = h.page /\ e.state = h.state /\ e.path = h.path
      /\ e.is_dynamic = h.is_dynamic /\ e.state_deets = h.state_deets
      /\ e.rcb = h.rcb /\ e.rcbDat = h.rcbDat
      /\ e.link = h.link /\ e.timeout = h.timeout /\ e.idle = h.idle /\ e.last = h.last
  <2>1. h \in Slot /\ h.bytessofar + 1 \in Nat
    BY <1>1
  <2>2. e \in Slot
    BY <2>1 DEF Slot
  <2>3. /\ e.page = h.page /\ e.state = h.state /\ e.path = h.path
        /\ e.is_dynamic = h.is_dynamic /\ e.state_deets = h.state_deets
        /\ e.rcb = h.rcb /\ e.rcbDat = h.rcbDat
        /\ e.link = h.link /\ e.timeout = h.timeout /\ e.idle = h.idle /\ e.last = h.last
    BY <2>1 DEF Slot
  <2> QED
    BY <2>2, <2>3
<1>3. WebSocketData(h) \in {h, EndTCPWrite(e, p(h.bytessofar)), EndTCPWrite(h, p(0))}
  BY <1>1 DEF WebSocketData, WebSocketSend
<1> HIDE DEF e
<1>4. \A n \in Nat : p(n) \in PacketType /\ p(n).what = "frame"
  BY PacketIs
<1> HIDE DEF p
<1>5. SlotOK(e) /\ SameTime(e, h)
  <2>1. Like(e, h)
    BY <1>1, <1>2 DEF Like
  <2> QED
    BY <2>1, SlotLike
<1>6. SlotOK(EndTCPWrite(e, p(h.bytessofar))) /\ SameTime(EndTCPWrite(e, p(h.bytessofar)), h)
  <2>1. Like(EndTCPWrite(e, p(h.bytessofar)), e)
    BY <1>1, <1>2, <1>4, LikeWrite
  <2>2. SlotOK(EndTCPWrite(e, p(h.bytessofar))) /\ SameTime(EndTCPWrite(e, p(h.bytessofar)), e)
    BY <1>2, <1>5, <2>1, SlotLike
  <2> QED
    BY <1>5, <2>2, TimeTwice
<1>7. SlotOK(EndTCPWrite(h, p(0))) /\ SameTime(EndTCPWrite(h, p(0)), h)
  <2>1. Like(EndTCPWrite(h, p(0)), h)
    BY <1>1, <1>4, LikeWrite
  <2> QED
    BY <2>1, SlotLike
<1> QED
  BY <1>3, <1>6, <1>7 DEF SameTime

LEMMA SlotParts ==
  ASSUME NEW h \in Slot, NEW n \in 0..5
  PROVE  /\ [h EXCEPT !.state_deets = n, !.page = <<>>] \in Slot
         /\ [h EXCEPT !.state_deets = n, !.keep_alive = FALSE] \in Slot
<1>1. <<>> \in Seq(PacketType)
  OBVIOUS
<1>2. [h EXCEPT !.state_deets = n, !.page = <<>>] \in Slot
  BY <1>1 DEF Slot, PacketType
<1>3. [h EXCEPT !.state_deets = n, !.keep_alive = FALSE] \in Slot
  BY DEF Slot
<1> QED
  BY <1>2, <1>3

LEMMA ReadParts ==
  ASSUME NEW h \in Slot, NEW n \in 0..5, NEW p \in Asked \cup {"", "?"},
         NEW s \in {"WAIT_PATH", "WAIT_PROTO", "WAIT_FLAG", "DATA_WEBSOCKET"}
  PROVE  /\ [h EXCEPT !.state = s, !.path = p, !.state_deets = n] \in Slot
         /\ [h EXCEPT !.path = p, !.state_deets = n] \in Slot
         /\ [h EXCEPT !.state = s, !.state_deets = n] \in Slot
<1>1. [h EXCEPT !.state = s, !.path = p, !.state_deets = n] \in Slot
  BY DEF Slot
<1>2. [h EXCEPT !.path = p, !.state_deets = n] \in Slot
  BY DEF Slot
<1>3. [h EXCEPT !.state = s, !.state_deets = n] \in Slot
  BY DEF Slot
<1> QED
  BY <1>1, <1>2, <1>3

LEMMA FindKeyOK ==
  ASSUME NEW h, SlotOK(h), h.state = "DATA_WEBSOCKET", NEW rest, NEW from
  PROVE  LET g == FindKey(h, rest, from).h IN SlotOK(g) /\ SameTime(g, h)
<1> DEFINE e == [h EXCEPT !.is_dynamic = TRUE, !.state = "WAIT_CLOSE"]
           x == [h EXCEPT !.is_dynamic = TRUE, !.bytessofar = 0, !.bytesleft = 0]
           g == [NewWebSocket(x) EXCEPT !.state_deets = 1, !.page = <<>>]
<1>1. h \in Slot /\ PageOK(h.page)
  BY DEF SlotOK
<1>2. FindKey(h, rest, from).h \in {e, g}
  BY DEF FindKey
<1>3. SlotOK(e) /\ SameTime(e, h)
  <2>1. /\ e \in Slot /\ e.page = h.page /\ e.state = "WAIT_CLOSE"
        /\ e.link = h.link /\ e.timeout = h.timeout /\ e.idle = h.idle /\ e.last = h.last
    BY <1>1 DEF Slot
  <2> HIDE DEF e
  <2> QED
    BY <1>1, <2>1, QuietOK DEF Quiet
<1>4. SlotOK(g) /\ SameTime(g, h)
  <2> DEFINE dat == CASE x.path = "/d/ws/echo" -> "echo" [] x.path = "/d/ws/evaltest" -> "eval"
                      [] x.path = "/d/ws/issue" -> "issue" [] OTHER -> "none"
             y == NewWebSocket(x)
  <2>1. /\ x \in Slot /\ x.state = h.state /\ x.path = h.path
        /\ x.link = h.link /\ x.timeout = h.timeout /\ x.idle = h.idle /\ x.last = h.last
    BY <1>1 DEF Slot
  <2> HIDE DEF x
  <2>2. y = IF dat = "none" THEN [x EXCEPT !.is404 = TRUE] ELSE [x EXCEPT !.rcb = "none", !.rcbDat = dat]
    BY DEF NewWebSocket
  <2>3. /\ dat \in {"none", "echo", "eval", "issue"}
        /\ dat = "none" => x.path \notin WsPaths \ {"/d/ws/other"}
        /\ dat = "issue" <=> x.path = "/d/ws/issue"
    BY DEF WsPaths
  <2> HIDE DEF dat, y
  <2>4. /\ y \in Slot /\ y.state = x.state /\ y.path = x.path
        /\ y.link = x.link /\ y.timeout = x.timeout /\ y.idle = x.idle /\ y.last = x.last
    <3>1. CASE dat = "none"
      BY <2>1, <2>2, <3>1, ZenonT(60) DEF Slot
    <3>2. CASE dat # "none"
      <4>1. x \in Slot /\ dat \in {"none", "echo", "eval", "issue"}
        BY <2>1, <2>3
      <4>2. y = [x EXCEPT !.rcb = "none", !.rcbDat = dat]
        BY <2>2, <3>2
      <4>3. y \in Slot
        BY <4>1, <4>2 DEF Slot
      <4>4. /\ y.state = x.state /\ y.path = x.path
            /\ y.link = x.link /\ y.timeout = x.timeout /\ y.idle = x.idle /\ y.last = x.last
        BY <4>1, <4>2 DEF Slot
      <4> QED
        BY <4>3, <4>4
    <3> QED
      BY <3>1, <3>2
  <2>5. dat # "none" => y.rcb = "none" /\ y.rcbDat = dat
    BY <2>1, <2>2 DEF Slot
  <2>6. <<>> \in Seq(PacketType) /\ PageOK(<<>>)
    BY DEF PageOK
  <2>7. g = [y EXCEPT !.state_deets = 1, !.page = <<>>]
    BY DEF y
  <2> HIDE DEF g
  <2>8. /\ g \in Slot /\ g.page = <<>> /\ g.state = y.state /\ g.path = y.path /\ g.rcb = y.rcb
        /\ g.rcbDat = y.rcbDat
        /\ g.link = y.link /\ g.timeout = y.timeout /\ g.idle = y.idle /\ g.last = y.last
    <3>1. y \in Slot /\ <<>> \in Seq(PacketType)
      BY <2>4, <2>6
    <3>2. g \in Slot
      <4>1. 1 \in 0..5
        OBVIOUS
      <4> QED
        BY <3>1, <2>7, <4>1, SlotParts, Zenon
    <3>3. /\ g.page = <<>> /\ g.state = y.state /\ g.path = y.path /\ g.rcb = y.rcb
          /\ g.rcbDat = y.rcbDat
          /\ g.link = y.link /\ g.timeout = y.timeout /\ g.idle = y.idle /\ g.last = y.last
      BY <3>1, <2>7 DEF Slot
    <3> QED
      BY <3>2, <3>3
  <2>9. HasOwn(g)
    BY <2>1, <2>3, <2>4, <2>5, <2>8 DEF HasOwn
  <2> QED
    BY <2>1, <2>4, <2>6, <2>8, <2>9 DEF SlotOK, SendsFile, Linked, SameTime
<1> HIDE DEF e, g
<1> QED
  BY <1>2, <1>3, <1>4

LEMMA WebSocketGotDataOK ==
  ASSUME NEW h, SlotOK(h), h.state = "DATA_WEBSOCKET", NEW c, NEW rest, NEW fate \in {"pass", "close", "take"},
         NEW from
  PROVE  LET g == WebSocketGotData(h, c, rest, fate, from).h IN SlotOK(g) /\ SameTime(g, h)
<1> DEFINE d == [h EXCEPT !.state_deets = HeaderEnd(@, c)]
           w == [h EXCEPT !.state = "WAIT_CLOSE"]
           r == WebSocketGotData(h, c, rest, fate, from).h
<1>1. h \in Slot /\ PageOK(h.page) /\ h.state_deets \in 0..5
  BY DEF SlotOK, Slot
<1>2. CASE h.state_deets = 0
  <2>1. r = FindKey(h, rest, from).h
    BY <1>2 DEF WebSocketGotData
  <2> HIDE DEF r
  <2>2. SlotOK(r) /\ SameTime(r, h)
    BY <2>1, FindKeyOK
  <2> QED
    BY <2>2 DEF r
<1>3. CASE h.state_deets = 5
  <2>1. r = Established(h, c, rest, fate).h
    BY <1>3 DEF WebSocketGotData
  <2>2. Established(h, c, rest, fate).h \in {h, w, WebSocketData(h)}
    BY DEF Established
  <2>3. SlotOK(w) /\ SameTime(w, h)
    BY GoesQuiet DEF Quiet
  <2>4. SlotOK(h) /\ SameTime(h, h)
    BY DEF SameTime
  <2> HIDE DEF r, w
  <2>5. SlotOK(r) /\ SameTime(r, h)
    BY <2>1, <2>2, <2>3, <2>4, WebSocketDataOK
  <2> QED
    BY <2>5 DEF r
<1>4. CASE h.state_deets \notin {0, 5}
  <2>1. r = d
    BY <1>1, <1>4 DEF WebSocketGotData
  <2>2. HeaderEnd(h.state_deets, c) \in 0..5 /\ h.state_deets > 0
    BY <1>1, <1>4 DEF HeaderEnd
  <2>3. /\ d \in Slot /\ d.page = h.page /\ d.state = h.state /\ d.path = h.path
        /\ d.rcb = h.rcb /\ d.rcbDat = h.rcbDat
        /\ d.link = h.link /\ d.timeout = h.timeout /\ d.idle = h.idle /\ d.last = h.last
    BY <1>1, <2>2 DEF Slot
  <2> HIDE DEF d, r
  <2>4. SlotOK(d) /\ SameTime(d, h)
    BY <1>1, <2>2, <2>3, DeetsOK
  <2> QED
    BY <2>1, <2>4 DEF r
<1> QED
  BY <1>2, <1>3, <1>4

LEMMA WebSocketTickOK ==
  ASSUME NEW h, SlotOK(h), h.state = "DATA_WEBSOCKET", NEW answers \in BOOLEAN
  PROVE  LET g == WebSocketTickInternal(h, answers) IN SlotOK(g) /\ SameTime(g, h)
<1> DEFINE p == Packet("101", 0, 0)
           w == EndTCPWrite(h, p)
           d == [w EXCEPT !.state_deets = 5, !.keep_alive = FALSE]
<1>1. h \in Slot /\ PageOK(h.page)
  BY DEF SlotOK
<1>2. WebSocketTickInternal(h, answers) \in
        {HTTPCustomCallback(h, answers), h} \cup IF h.state_deets = 4 THEN {d} ELSE {}
  BY DEF WebSocketTickInternal
<1>3. p \in PacketType /\ p.what = "101"
  BY PacketIs
<1> HIDE DEF p
<1>4. Like(w, h)
  BY <1>1, <1>3, LikeWrite
<1> HIDE DEF w
<1>5. /\ d \in Slot /\ d.page = w.page /\ d.state = w.state /\ d.path = w.path
      /\ d.rcb = w.rcb /\ d.rcbDat = w.rcbDat
      /\ d.link = w.link /\ d.timeout = w.timeout /\ d.idle = w.idle /\ d.last = w.last
  <2>1. w \in Slot
    BY <1>4 DEF Like
  <2>2. d \in Slot
    <3>1. 5 \in 0..5
      OBVIOUS
    <3> QED
      BY <2>1, <3>1, SlotParts, Zenon
  <2>3. /\ d.page = w.page /\ d.state = w.state /\ d.path = w.path
        /\ d.rcb = w.rcb /\ d.rcbDat = w.rcbDat
        /\ d.link = w.link /\ d.timeout = w.timeout /\ d.idle = w.idle /\ d.last = w.last
    BY <2>1 DEF Slot
  <2> QED
    BY <2>2, <2>3
<1> HIDE DEF d
<1>6. h.state_deets = 4 => SlotOK(d) /\ SameTime(d, h)
  BY <1>4, <1>5, DeetsOK DEF Like
<1>7. SlotOK(h) /\ SameTime(h, h)
  BY DEF SameTime
<1>8. SlotOK(HTTPCustomCallback(h, answers)) /\ SameTime(HTTPCustomCallback(h, answers), h)
  BY CallbackOK
<1> QED
  BY <1>2, <1>6, <1>7, <1>8
-----------------------------------------------------------------------------
(* The tick.                                                               *)
LEMMA CloseOK ==
  ASSUME NEW h, SlotOK(h), h.state # "NONE"
  PROVE  LET g == HTTPClose(h) IN
         SlotOK(g) /\ SameTime(g, h) /\ g.state \in {"NONE", "WAIT_CLOSE"} /\ g.link \in {"none", "closing"}
<1> DEFINE g == HTTPClose(h)
<1>1. h \in Slot /\ Linked(h) /\ PageOK(h.page)
  BY DEF SlotOK
<1>2. /\ g \in Slot /\ Linked(g) /\ g.state \in {"NONE", "WAIT_CLOSE"} /\ g.page = h.page
      /\ g.link \in {"none", "closing"} /\ SameTime(g, h)
  BY <1>1, CloseSlot
<1> HIDE DEF g
<1>3. SlotOK(g)
  BY <1>1, <1>2 DEF SlotOK, SendsFile, HasOwn
<1> QED
  BY <1>2, <1>3 DEF g

LEMMA TimeKept ==
  ASSUME NEW h, NEW g, SameTime(g, h), OnTime(h)
  PROVE  OnTime(g)
BY DEF SameTime, OnTime

(* A tick that counts.                                                     *)
LEMMA TickedSlot ==
  ASSUME NEW h, SlotOK(h), Waits(h)
  PROVE  LET t == Ticked(h) IN
         /\ SlotOK(t) /\ Waits(t) /\ t.link = h.link /\ t.last = h.last
         /\ t.timeout = (h.timeout + 1) % Word /\ t.idle = Least(h.idle + 1, HTTP_SERVER_TIMEOUT + 2)
<1> DEFINE n == (h.timeout + 1) % Word
           m == Least(h.idle + 1, HTTP_SERVER_TIMEOUT + 2)
           t == [h EXCEPT !.timeout = n, !.idle = m]
<1>1. h \in Slot /\ h.state # "NONE" /\ h.timeout \in 0..Word-1 /\ h.idle \in 0..HTTP_SERVER_TIMEOUT + 2
  BY DEF SlotOK, Waits, Slot
<1>2. n \in 0..Word-1
  BY <1>1, Numbers
<1>3. m \in 0..HTTP_SERVER_TIMEOUT + 2
  BY <1>1, Numbers DEF Least
<1>4. Ticked(h) = t
  BY <1>1 DEF Ticked, Slot
<1> HIDE DEF n, m
<1>5. t.timeout = n /\ t.idle = m /\ t.page = h.page /\ t.state = h.state /\ t.link = h.link /\ t.last = h.last
  BY <1>1 DEF Slot
<1>6. t \in Slot
  BY <1>1, <1>2, <1>3 DEF Slot
<1> HIDE DEF t
<1>7. SlotOK(t) /\ Waits(t)
  BY <1>1, <1>5, <1>6 DEF SlotOK, SendsFile, Linked, HasOwn, Waits
<1> QED
  BY <1>4, <1>5, <1>7 DEF n, m

LEMMA TimedOK ==
  ASSUME NEW h, SlotOK(h), OnTime(h), Waits(h)
  PROVE  LET g == Timed(h) IN SlotOK(g) /\ OnTime(g) /\ (Waits(g) \/ TimedOut(h))
<1> DEFINE t == Ticked(h)
<1>1. h.timeout \in 0..Word-1 /\ h.idle \in 0..HTTP_SERVER_TIMEOUT + 2
  BY DEF SlotOK, Slot
<1>2. /\ SlotOK(t) /\ Waits(t) /\ t.link = h.link /\ t.last = h.last
      /\ t.timeout = (h.timeout + 1) % Word /\ t.idle = Least(h.idle + 1, HTTP_SERVER_TIMEOUT + 2)
  BY TickedSlot
<1>3. Timed(h) = IF TimedOut(h) THEN HTTPClose(t) ELSE t
  BY DEF Timed
<1> HIDE DEF t
<1>4. CASE TimedOut(h)
  <2>1. t.state # "NONE"
    BY <1>2 DEF Waits
  <2>2. SlotOK(HTTPClose(t)) /\ HTTPClose(t).link \in {"none", "closing"}
    BY <1>2, <2>1, CloseOK
  <2> QED
    BY <1>3, <1>4, <2>2 DEF OnTime
<1>5. CASE ~TimedOut(h)
  <2>1. t.timeout = h.timeout + 1 /\ h.timeout <= HTTP_SERVER_TIMEOUT
    BY <1>1, <1>2, <1>5, Numbers DEF TimedOut
  <2>2. ASSUME h.link \in {"eth", "wifi"}
        PROVE  h.idle <= h.timeout /\ (h.last = "data" => h.timeout = h.idle)
    BY <1>1, <2>2 DEF OnTime
  <2>3. ASSUME h.link \in {"eth", "wifi"}
        PROVE  t.idle = h.idle + 1
    BY <1>1, <1>2, <2>1, <2>2, <2>3, Numbers DEF Least
  <2>4. OnTime(t)
    BY <1>1, <1>2, <2>1, <2>2, <2>3, Numbers DEF OnTime
  <2> QED
    BY <1>2, <1>3, <1>5, <2>4
<1> QED
  BY <1>4, <1>5

LEMMA DoHTTPOK ==
  ASSUME NEW h, SlotOK(h), OnTime(h), NEW timed \in BOOLEAN, NEW answers \in BOOLEAN
  PROVE  LET g == DoHTTP(h, timed, answers) IN
         /\ SlotOK(g) /\ OnTime(g)
         /\ Waits(h) /\ ~Waits(g) => TimedOut(h)
         /\ h.state = "DATA_XFER" /\ ~h.is_dynamic /\ g.state # "DATA_XFER" => h.isdone
<1> DEFINE g == DoHTTP(h, timed, answers)
<1>1. SlotOK(h) /\ SameTime(h, h)
  BY DEF SameTime
<1>2. CASE h.state = "DATA_XFER" /\ TCPCanSend(h)
  <2>1. g = IF h.is_dynamic THEN HTTPCustomCallback(h, answers) ELSE HTTPHandleInternalCallback(h)
    BY <1>2, Zenon DEF DoHTTP, Waits
  <2> HIDE DEF g
  <2>2. SlotOK(g) /\ SameTime(g, h) /\ (~h.is_dynamic => g.state = "DATA_XFER" \/ h.isdone)
    <3>1. CASE h.is_dynamic
      BY <1>2, <2>1, <3>1, CallbackOK
    <3>2. CASE ~h.is_dynamic
      BY <1>2, <2>1, <3>2, FileSends
    <3> QED
      BY <3>1, <3>2
  <2>3. OnTime(g) /\ ~Waits(h)
    BY <1>2, <2>2, TimeKept DEF Waits
  <2> QED
    BY <2>2, <2>3 DEF g
<1>3. CASE h.state = "WAIT_CLOSE" /\ TCPCanSend(h)
  <2>1. g = IF h.keep_alive THEN [h EXCEPT !.state = "WAIT_METHOD"] ELSE HTTPClose(h)
    BY <1>3, Zenon DEF DoHTTP, Waits
  <2> HIDE DEF g
  <2>2. SlotOK(g) /\ SameTime(g, h)
    BY <1>3, <2>1, CloseOK, GoesQuiet DEF Quiet
  <2>3. OnTime(g) /\ ~Waits(h)
    BY <1>3, <2>2, TimeKept DEF Waits
  <2> QED
    BY <1>3, <2>2, <2>3 DEF g
<1>4. CASE h.state = "DATA_WEBSOCKET" /\ TCPCanSend(h)
  <2>1. g = WebSocketTickInternal(h, answers)
    BY <1>4, Zenon DEF DoHTTP, Waits
  <2> HIDE DEF g
  <2>2. SlotOK(g) /\ SameTime(g, h)
    BY <1>4, <2>1, WebSocketTickOK
  <2>3. OnTime(g) /\ ~Waits(h)
    BY <1>4, <2>2, TimeKept DEF Waits
  <2> QED
    BY <1>4, <2>2, <2>3 DEF g
<1>5. CASE Waits(h) /\ timed
  <2>1. g = Timed(h)
    BY <1>5 DEF DoHTTP, Waits
  <2> HIDE DEF g
  <2>2. SlotOK(g) /\ OnTime(g) /\ (Waits(g) \/ TimedOut(h))
    BY <1>5, <2>1, TimedOK
  <2>3. h.state # "DATA_XFER"
    BY <1>5 DEF Waits
  <2> QED
    BY <1>5, <2>2, <2>3 DEF g
<1>6. CASE ~((h.state = "DATA_XFER" \/ h.state = "WAIT_CLOSE" \/ h.state = "DATA_WEBSOCKET") /\ TCPCanSend(h))
           /\ ~(Waits(h) /\ timed)
  <2>1. g = h
    BY <1>6 DEF DoHTTP
  <2> HIDE DEF g
  <2>2. OnTime(g)
    BY <2>1
  <2> QED
    BY <1>1, <2>1, <2>2 DEF g
<1> QED
  BY <1>2, <1>3, <1>4, <1>5, <1>6

-----------------------------------------------------------------------------
(* A connection comes, data come, they are acknowledged, it goes.          *)
LEMMA CountParts ==
  ASSUME NEW h \in Slot, NEW n \in 0..HTTP_SERVER_TIMEOUT + 2
  PROVE  [h EXCEPT !.idle = n, !.last = "nothing"] \in Slot
<1>1. [h EXCEPT !.idle = n] \in Slot
  BY ZenonT(60) DEF Slot
<1>2. \A g \in Slot : [g EXCEPT !.last = "nothing"] \in Slot
  BY ZenonT(60) DEF Slot
<1>3. [h EXCEPT !.idle = n, !.last = "nothing"] = [[h EXCEPT !.idle = n] EXCEPT !.last = "nothing"]
  BY Zenon DEF Slot
<1> QED
  BY <1>1, <1>2, <1>3

LEMMA FreshOK ==
  ASSUME NEW h \in Slot, NEW kind \in Kinds
  PROVE  SlotOK(Fresh(h, kind)) /\ OnTime(Fresh(h, kind))
<1> DEFINE g == Fresh(h, kind)
<1>1. kind \in {"eth", "wifi"} /\ 0 \in 0..HTTP_SERVER_TIMEOUT + 2 /\ <<>> \in Seq(PacketType) /\ PageOK(<<>>)
  BY ConstantsOK, Numbers DEF PageOK
<1>2. g = [h EXCEPT !.state = "WAIT_METHOD", !.link = kind, !.unsent = FALSE,
                    !.page = <<>>, !.idle = 0, !.last = "nothing"]
  BY DEF Fresh
<1>3. /\ g.state = "WAIT_METHOD" /\ g.link = kind /\ g.page = <<>> /\ g.last = "nothing" /\ g.idle = 0
  BY <1>2 DEF Slot
<1>4. g \in Slot
  <2> DEFINE e == [h EXCEPT !.state = "WAIT_METHOD", !.link = kind, !.unsent = FALSE]
  <2>1. e \in Slot
    BY <1>1 DEF Slot
  <2>2. g = [e EXCEPT !.page = <<>>, !.idle = 0, !.last = "nothing"]
    BY <1>2, Zenon DEF Slot
  <2> HIDE DEF e, g
  <2>3. [e EXCEPT !.page = <<>>, !.idle = 0, !.last = "nothing"] \in Slot
    <3>1. 0 \in 0..HTTP_SERVER_TIMEOUT + 2 /\ <<>> \in Seq(PacketType)
      BY <1>1
    <3>2. [e EXCEPT !.idle = 0, !.last = "nothing"] \in Slot
      BY <2>1, <3>1, CountParts, Zenon
    <3> DEFINE f == [e EXCEPT !.idle = 0, !.last = "nothing"]
    <3>3. [e EXCEPT !.page = <<>>, !.idle = 0, !.last = "nothing"] = [f EXCEPT !.page = <<>>]
      BY <2>1, Zenon DEF Slot
    <3> HIDE DEF f
    <3>4. f \in Slot
      BY <3>2 DEF f
    <3>5. [f EXCEPT !.page = <<>>] \in Slot
      BY <3>1, <3>4 DEF Slot, PacketType
    <3> QED
      BY <3>3, <3>5
  <2> QED
    BY <2>2, <2>3
<1> HIDE DEF g
<1>5. SlotOK(g) /\ OnTime(g)
  BY <1>1, <1>3, <1>4 DEF SlotOK, SendsFile, Linked, HasOwn, OnTime
<1> QED
  BY <1>5 DEF g

LEMMA ArrivesOK ==
  ASSUME NEW h, SlotOK(h)
  PROVE  LET g == [h EXCEPT !.timeout = 0, !.idle = 0, !.last = "data"]
         IN  SlotOK(g) /\ OnTime(g) /\ g.state = h.state
<1> DEFINE g == [h EXCEPT !.timeout = 0, !.idle = 0, !.last = "data"]
<1>1. h \in Slot /\ 0 \in 0..HTTP_SERVER_TIMEOUT + 2 /\ 0 \in 0..Word-1
  BY Numbers DEF SlotOK
<1>2. g \in Slot
  <2>1. h \in Slot /\ 0 \in 0..HTTP_SERVER_TIMEOUT + 2 /\ 0 \in 0..Word-1
    BY <1>1
  <2> QED
    BY <2>1, ZenonT(60) DEF Slot
<1>3. /\ g.timeout = 0 /\ g.idle = 0 /\ g.page = h.page /\ g.state = h.state /\ g.link = h.link
      /\ g.is_dynamic = h.is_dynamic /\ g.is404 = h.is404 /\ g.isdone = h.isdone /\ g.isfirst = h.isfirst
      /\ g.bytesleft = h.bytesleft /\ g.filelen = h.filelen
      /\ g.rcb = h.rcb /\ g.rcbDat = h.rcbDat /\ g.path = h.path /\ g.state_deets = h.state_deets
  BY <1>1 DEF Slot
<1> HIDE DEF g
<1>4. SlotOK(g) /\ OnTime(g)
  BY <1>2, <1>3 DEF SlotOK, SendsFile, Linked, HasOwn, OnTime
<1> QED
  BY <1>3, <1>4 DEF g

LEMMA AcknowledgedOK ==
  ASSUME NEW h, SlotOK(h)
  PROVE  LET g == [h EXCEPT !.unsent = FALSE] IN SlotOK(g) /\ SameTime(g, h) /\ g.state = h.state
<1> DEFINE g == [h EXCEPT !.unsent = FALSE]
<1>1. h \in Slot
  BY DEF SlotOK
<1>2. g \in Slot
  BY <1>1 DEF Slot
<1>3. /\ g.timeout = h.timeout /\ g.idle = h.idle /\ g.last = h.last
      /\ g.page = h.page /\ g.state = h.state /\ g.link = h.link
      /\ g.is_dynamic = h.is_dynamic /\ g.is404 = h.is404 /\ g.isdone = h.isdone /\ g.isfirst = h.isfirst
      /\ g.bytesleft = h.bytesleft /\ g.filelen = h.filelen
      /\ g.rcb = h.rcb /\ g.rcbDat = h.rcbDat /\ g.path = h.path /\ g.state_deets = h.state_deets
  BY <1>1 DEF Slot
<1> HIDE DEF g
<1>4. SlotOK(g) /\ SameTime(g, h)
  BY <1>2, <1>3 DEF SlotOK, SendsFile, Linked, HasOwn, SameTime
<1> QED
  BY <1>3, <1>4 DEF g

LEMMA DisconnectOK ==
  ASSUME NEW h, SlotOK(h)
  PROVE  LET g == http_disconnetcb(h) IN SlotOK(g) /\ OnTime(g) /\ g.last = "nothing"
<1> DEFINE g == [h EXCEPT !.state = "NONE", !.link = "none", !.last = "nothing"]
<1>1. h \in Slot
  BY DEF SlotOK
<1>2. /\ g \in Slot /\ g.state = "NONE" /\ g.link = "none" /\ g.page = h.page /\ g.last = "nothing"
  BY <1>1, ZenonT(60) DEF Slot
<1>3. http_disconnetcb(h) = g
  BY DEF http_disconnetcb
<1> HIDE DEF g
<1> QED
  BY <1>2, <1>3 DEF SlotOK, SendsFile, Linked, HasOwn, OnTime
-----------------------------------------------------------------------------
(* What one character does to its slot.                                    *)
Handled(g, h) == SlotOK(g) /\ SameTime(g, h) /\ (h.state = "DATA_XFER" => g = h)

LEMMA SelfHandled ==
  ASSUME NEW h, SlotOK(h)
  PROVE  Handled(h, h)
BY DEF Handled, SameTime

LEMMA QuietHandled ==
  ASSUME NEW h, NEW g, SlotOK(h), h.state \in Quiet, g \in Slot, g.page = h.page, g.state \in Quiet,
         g.link = h.link, g.timeout = h.timeout, g.idle = h.idle, g.last = h.last
  PROVE  Handled(g, h)
<1>1. h.state # "NONE" /\ h.state # "DATA_XFER" /\ PageOK(g.page)
  BY DEF Quiet, SlotOK
<1> QED
  BY <1>1, QuietOK DEF Handled

LEMMA MethodHandled ==
  ASSUME NEW h, SlotOK(h), h.state = "WAIT_METHOD", NEW c
  PROVE  Handled(IF c = " " THEN [h EXCEPT !.state = "WAIT_PATH", !.path = "", !.state_deets = 0] ELSE h, h)
<1> DEFINE g == [h EXCEPT !.state = "WAIT_PATH", !.path = "", !.state_deets = 0]
<1>1. h \in Slot /\ h.state \in Quiet
  BY DEF SlotOK, Quiet
<1>2. g \in Slot
  <2>1. 0 \in 0..5
    OBVIOUS
  <2> QED
    BY <1>1, <2>1, ReadParts, Zenon
<1>3. /\ g.page = h.page /\ g.state \in Quiet
      /\ g.link = h.link /\ g.timeout = h.timeout /\ g.idle = h.idle /\ g.last = h.last
  BY <1>1 DEF Slot, Quiet
<1> HIDE DEF g
<1>4. Handled(g, h)
  BY <1>1, <1>2, <1>3, QuietHandled
<1> QED
  BY <1>4, SelfHandled DEF g

LEMMA PathHandled ==
  ASSUME NEW h, SlotOK(h), h.state = "WAIT_PATH", NEW c
  PROVE  Handled(CASE c # " " -> [h EXCEPT !.path = IF @ = "" /\ c \in Asked THEN c ELSE "?", !.state_deets = 1]
                   [] c = " " /\ h.path \in WsPaths -> [h EXCEPT !.state = "DATA_WEBSOCKET", !.state_deets = 0]
                   [] OTHER -> [h EXCEPT !.state = "WAIT_PROTO", !.state_deets = 0], h)
<1> DEFINE path == IF h.path = "" /\ c \in Asked THEN c ELSE "?"
           p == [h EXCEPT !.path = path, !.state_deets = 1]
           w == [h EXCEPT !.state = "DATA_WEBSOCKET", !.state_deets = 0]
           r == [h EXCEPT !.state = "WAIT_PROTO", !.state_deets = 0]
           g == CASE c # " " -> [h EXCEPT !.path = IF @ = "" /\ c \in Asked THEN c ELSE "?", !.state_deets = 1]
                  [] c = " " /\ h.path \in WsPaths -> w
                  [] OTHER -> r
<1>1. h \in Slot /\ h.state \in Quiet
  BY DEF SlotOK, Quiet
<1>2. path \in Asked \cup {"", "?"}
  OBVIOUS
<1>3. [h EXCEPT !.path = IF @ = "" /\ c \in Asked THEN c ELSE "?", !.state_deets = 1] = p
  BY <1>1 DEF Slot
<1>4. g \in {p, w, r}
  BY <1>3
<1> HIDE DEF path, g
<1>5. Handled(p, h)
  <2>1. p \in Slot
    <3>1. 1 \in 0..5
      OBVIOUS
    <3> QED
      BY <1>1, <1>2, <3>1, ReadParts, Zenon
  <2>2. /\ p.page = h.page /\ p.state = h.state
        /\ p.link = h.link /\ p.timeout = h.timeout /\ p.idle = h.idle /\ p.last = h.last
    BY <1>1 DEF Slot
  <2> HIDE DEF p
  <2> QED
    BY <1>1, <2>1, <2>2, QuietHandled
<1>6. Handled(w, h)
  <2>1. w \in Slot
    <3>1. 0 \in 0..5
      OBVIOUS
    <3> QED
      BY <1>1, <3>1, ReadParts, Zenon
  <2>2. /\ w.page = h.page /\ w.state = "DATA_WEBSOCKET" /\ w.state_deets = 0
        /\ w.link = h.link /\ w.timeout = h.timeout /\ w.idle = h.idle /\ w.last = h.last
    BY <1>1 DEF Slot
  <2> HIDE DEF w
  <2> QED
    BY <2>1, <2>2 DEF Handled, SlotOK, SendsFile, Linked, HasOwn, SameTime
<1>7. Handled(r, h)
  <2>1. r \in Slot
    <3>1. 0 \in 0..5
      OBVIOUS
    <3> QED
      BY <1>1, <3>1, ReadParts, Zenon
  <2>2. /\ r.page = h.page /\ r.state \in Quiet
        /\ r.link = h.link /\ r.timeout = h.timeout /\ r.idle = h.idle /\ r.last = h.last
    BY <1>1 DEF Slot, Quiet
  <2> HIDE DEF r
  <2> QED
    BY <1>1, <2>1, <2>2, QuietHandled
<1> HIDE DEF p, w, r
<1>8. Handled(g, h)
  BY <1>4, <1>5, <1>6, <1>7
<1> QED
  BY <1>8 DEF g, w, r

LEMMA GoesHandled ==
  ASSUME NEW h, SlotOK(h), h.state \in Quiet, NEW s \in Quiet
  PROVE  Handled([h EXCEPT !.state = s], h)
<1>1. h.state # "NONE" /\ h.state # "DATA_XFER"
  BY DEF Quiet
<1> QED
  BY <1>1, GoesQuiet DEF Handled

LEMMA FlagHandled ==
  ASSUME NEW h, SlotOK(h), h.state = "WAIT_FLAG", NEW c
  PROVE  Handled(CASE c = "\n" -> InternalStartHTTP([h EXCEPT !.state = "DATA_XFER"])
                   [] c = "\r" -> h
                   [] OTHER -> [h EXCEPT !.state = "WAIT_INFLAG"], h)
<1> DEFINE x == [h EXCEPT !.state = "DATA_XFER"]
           i == [h EXCEPT !.state = "WAIT_INFLAG"]
           g == CASE c = "\n" -> InternalStartHTTP(x) [] c = "\r" -> h [] OTHER -> i
<1>1. h \in Slot /\ h.state \in Quiet /\ Linked(h)
  BY DEF SlotOK, Quiet
<1>2. g \in {InternalStartHTTP(x), h, i}
  OBVIOUS
<1>3. /\ x \in Slot /\ x.state = "DATA_XFER"
      /\ x.link = h.link /\ x.timeout = h.timeout /\ x.idle = h.idle /\ x.last = h.last
  BY <1>1 DEF Slot
<1> HIDE DEF x, g
<1>4. Linked(x)
  BY <1>1, <1>3 DEF Linked
<1>5. SlotOK(InternalStartHTTP(x)) /\ SameTime(InternalStartHTTP(x), x)
  BY <1>3, <1>4, StartsPage
<1>6. Handled(InternalStartHTTP(x), h)
  BY <1>3, <1>5 DEF Handled, SameTime
<1>7. Handled(i, h) /\ Handled(h, h)
  BY <1>1, GoesHandled, SelfHandled DEF Quiet
<1> HIDE DEF i
<1>8. Handled(g, h)
  BY <1>2, <1>6, <1>7
<1> QED
  BY <1>8 DEF g, x, i

LEMMA InflagHandled ==
  ASSUME NEW h, SlotOK(h), h.state = "WAIT_INFLAG", NEW c
  PROVE  Handled(IF c = "\n" THEN [h EXCEPT !.state = "WAIT_FLAG", !.state_deets = 0] ELSE h, h)
<1> DEFINE g == [h EXCEPT !.state = "WAIT_FLAG", !.state_deets = 0]
<1>1. h \in Slot /\ h.state \in Quiet
  BY DEF SlotOK, Quiet
<1>2. g \in Slot
  <2>1. 0 \in 0..5
    OBVIOUS
  <2> QED
    BY <1>1, <2>1, ReadParts, Zenon
<1>3. /\ g.page = h.page /\ g.state \in Quiet
      /\ g.link = h.link /\ g.timeout = h.timeout /\ g.idle = h.idle /\ g.last = h.last
  BY <1>1 DEF Slot, Quiet
<1> HIDE DEF g
<1>4. Handled(g, h)
  BY <1>1, <1>2, <1>3, QuietHandled
<1> QED
  BY <1>4, SelfHandled DEF g

LEMMA CloseHandled ==
  ASSUME NEW h, SlotOK(h), h.state = "WAIT_CLOSE"
  PROVE  Handled(IF h.keep_alive THEN [h EXCEPT !.state = "WAIT_METHOD"] ELSE HTTPClose(h), h)
<1>1. h.state \in Quiet /\ "WAIT_METHOD" \in Quiet
  BY DEF Quiet
<1>2. Handled([h EXCEPT !.state = "WAIT_METHOD"], h)
  BY <1>1, GoesHandled
<1>3. Handled(HTTPClose(h), h)
  BY CloseOK DEF Handled
<1> QED
  BY <1>2, <1>3
-----------------------------------------------------------------------------
(* The invariant, and what a step does to one slot.                        *)
HInv == TypeOK /\ \A i \in Conns : SlotOK(HTTPConnections[i]) /\ OnTime(HTTPConnections[i])

Fate(i) ==
  LET h == HTTPConnections[i]
      g == HTTPConnections'[i]
  IN  /\ SlotOK(g) /\ OnTime(g)
      /\ Waits(h) /\ curhttp = None /\ ~Waits(g) /\ g.last = "closed" => TimedOut(h)
      /\ h.state = "DATA_XFER" /\ ~h.is_dynamic /\ g.state # "DATA_XFER" /\ g.last = "closed" => h.isdone

LEMMA Others ==
  ASSUME HInv, NEW i \in Conns, HTTPConnections'[i] = HTTPConnections[i]
  PROVE  Fate(i)
BY DEF HInv, Fate

LEMMA OneSlot ==
  ASSUME HInv, NEW i \in Conns, NEW g, HTTPConnections' = [HTTPConnections EXCEPT ![i] = g], SlotOK(g), OnTime(g),
         \/ g.state = HTTPConnections[i].state
         \/ HTTPConnections[i].state \in Quiet \cup {"NONE", "DATA_WEBSOCKET"} /\ curhttp # None
         \/ HTTPConnections[i].state = "NONE"
         \/ g.last # "closed"
  PROVE  HTTPConnections' \in [Conns -> Slot] /\ \A j \in Conns : Fate(j)
<1>1. HTTPConnections \in [Conns -> Slot] /\ g \in Slot
  BY DEF HInv, TypeOK, SlotOK
<1>2. HTTPConnections' \in [Conns -> Slot] /\ HTTPConnections'[i] = g
  BY <1>1
<1>3. ASSUME NEW j \in Conns, j # i PROVE Fate(j)
  <2>1. HTTPConnections'[j] = HTTPConnections[j]
    BY <1>1, <1>3
  <2> QED
    BY <2>1, Others
<1>4. Fate(i)
  BY <1>2 DEF Fate, Waits, Quiet
<1> QED
  BY <1>2, <1>3, <1>4

(* A character.                                                            *)
LEMMA CharacterOK ==
  ASSUME HInv, HTTPGotData
  PROVE  /\ HTTPConnections' \in [Conns -> Slot] /\ \A j \in Conns : Fate(j)
         /\ UNCHANGED <<curhttp, requests, connects>>
<1>1. curhttp # None /\ curhttp \in Conns /\ UNCHANGED <<curhttp, requests, connects>>
  BY DEF HInv, TypeOK, HTTPGotData, WaitMethod, WaitPath, WaitProto, WaitFlag, WaitInflag, DataXfer,
         DataWebsocket, WaitClose, NoState, Is, Got
<1>2. SlotOK(H) /\ OnTime(H)
  BY <1>1 DEF HInv, H
<1>3. PICK g : HTTPConnections' = [HTTPConnections EXCEPT ![curhttp] = g] /\ Handled(g, H)
  <2>1. CASE WaitMethod
    BY <1>2, <2>1, MethodHandled DEF WaitMethod, Is, Got, H
  <2>2. CASE WaitPath
    BY <1>2, <2>2, PathHandled DEF WaitPath, Is, Got, H
  <2>3. CASE WaitProto
    <3>1. Handled(IF C = "\n" THEN [H EXCEPT !.state = "WAIT_FLAG"] ELSE H, H)
      BY <1>2, <2>3, GoesHandled, SelfHandled DEF WaitProto, Is, H, Quiet
    <3> QED
      BY <2>3, <3>1 DEF WaitProto, Got
  <2>4. CASE WaitFlag
    BY <1>2, <2>4, FlagHandled DEF WaitFlag, Is, Got, H
  <2>5. CASE WaitInflag
    BY <1>2, <2>5, InflagHandled DEF WaitInflag, Is, Got, H
  <2>6. CASE DataXfer
    BY <1>2, <2>6, SelfHandled DEF DataXfer, Got
  <2>7. CASE DataWebsocket
    <3>1. H.state = "DATA_WEBSOCKET"
      BY <2>7 DEF DataWebsocket, Is, H
    <3>2. PICK fate \in {"pass", "close", "take"}, from \in {1} \cup DOMAIN Rest :
            HTTPConnections' = [HTTPConnections EXCEPT ![curhttp] = WebSocketGotData(H, C, Rest, fate, from).h]
      BY <2>7 DEF DataWebsocket, Got
    <3>3. Handled(WebSocketGotData(H, C, Rest, fate, from).h, H)
      BY <1>2, <3>1, WebSocketGotDataOK DEF Handled
    <3> QED
      BY <3>2, <3>3
  <2>8. CASE WaitClose
    BY <1>2, <2>8, CloseHandled DEF WaitClose, Is, Got, H
  <2>9. CASE NoState
    BY <1>2, <2>9, SelfHandled DEF NoState, Got
  <2> QED
    BY <2>1, <2>2, <2>3, <2>4, <2>5, <2>6, <2>7, <2>8, <2>9 DEF HTTPGotData
<1>4. SlotOK(g) /\ OnTime(g)
  BY <1>2, <1>3, TimeKept DEF Handled
<1>5. \/ g.state = HTTPConnections[curhttp].state
      \/ HTTPConnections[curhttp].state \in Quiet \cup {"NONE", "DATA_WEBSOCKET"} /\ curhttp # None
  <2>1. H.state # "DATA_XFER" => H.state \in Quiet \cup {"NONE", "DATA_WEBSOCKET"}
    BY <1>2 DEF SlotOK, Slot, Quiet
  <2> QED
    BY <1>1, <1>3, <2>1 DEF Handled, H
<1> QED
  BY <1>1, <1>3, <1>4, <1>5, OneSlot

LEMMA TickStep ==
  ASSUME HInv, NEW timed \in BOOLEAN, HTTPTick(timed)
  PROVE  HTTPConnections' \in [Conns -> Slot] /\ \A j \in Conns : Fate(j)
<1>1. PICK answers \in BOOLEAN :
        HTTPConnections' = [i \in Conns |-> DoHTTP(HTTPConnections[i], timed, answers)]
  BY DEF HTTPTick
<1>2. ASSUME NEW j \in Conns PROVE Fate(j) /\ HTTPConnections'[j] \in Slot
  <2> DEFINE h == HTTPConnections[j]
             g == DoHTTP(h, timed, answers)
  <2>1. SlotOK(h) /\ OnTime(h)
    BY DEF HInv
  <2>2. HTTPConnections'[j] = g
    BY <1>1
  <2> HIDE DEF h
  <2>3. /\ SlotOK(g) /\ OnTime(g)
        /\ Waits(h) /\ ~Waits(g) => TimedOut(h)
        /\ h.state = "DATA_XFER" /\ ~h.is_dynamic /\ g.state # "DATA_XFER" => h.isdone
    BY <2>1, DoHTTPOK
  <2> HIDE DEF g
  <2> QED
    BY <2>2, <2>3 DEF Fate, SlotOK, h
<1> QED
  BY <1>1, <1>2

LEMMA StepFate ==
  ASSUME HInv, Next
  PROVE  TypeOK' /\ \A j \in Conns : Fate(j)
<1>1. /\ HTTPConnections \in [Conns -> Slot] /\ curhttp \in Conns \cup {None}
      /\ requests \in 0..MaxRequests /\ connects \in 0..MaxConnects
  BY DEF HInv, TypeOK
<1>2. CASE HTTPGotData
  BY <1>1, <1>2, CharacterOK DEF TypeOK
<1>3. CASE Return
  <2>1. \A j \in Conns : Fate(j)
    BY <1>3, Others DEF Return
  <2> QED
    BY <1>1, <1>3, <2>1 DEF TypeOK, Return
<1>4. ASSUME NEW timed \in BOOLEAN, HTTPTick(timed) PROVE TypeOK' /\ \A j \in Conns : Fate(j)
  <2>1. HTTPConnections' \in [Conns -> Slot] /\ \A j \in Conns : Fate(j)
    BY <1>4, TickStep
  <2> QED
    BY <1>1, <1>4, <2>1 DEF TypeOK, HTTPTick
<1>5. ASSUME NEW kind \in Kinds, httpserver_connectcb(kind) PROVE TypeOK' /\ \A j \in Conns : Fate(j)
  <2>1. PICK i \in Conns : /\ HTTPConnections[i].state = "NONE"
                           /\ HTTPConnections' = [HTTPConnections EXCEPT ![i] = Fresh(HTTPConnections[i], kind)]
    BY <1>1, <1>5 DEF httpserver_connectcb
  <2>2. SlotOK(Fresh(HTTPConnections[i], kind)) /\ OnTime(Fresh(HTTPConnections[i], kind))
    BY <1>1, FreshOK
  <2>3. HTTPConnections' \in [Conns -> Slot] /\ \A j \in Conns : Fate(j)
    BY <2>1, <2>2, OneSlot
  <2>4. connects' \in 0..MaxConnects /\ curhttp' = curhttp /\ requests' = requests
    BY <1>1, <1>5, ConstantsOK DEF httpserver_connectcb
  <2> QED
    BY <1>1, <2>3, <2>4 DEF TypeOK
<1>6. ASSUME NEW i \in Conns, Received(i) PROVE TypeOK' /\ \A j \in Conns : Fate(j)
  <2> DEFINE g == [HTTPConnections[i] EXCEPT !.timeout = 0, !.idle = 0, !.last = "data"]
  <2>1. SlotOK(g) /\ OnTime(g) /\ g.state = HTTPConnections[i].state
    BY ArrivesOK DEF HInv
  <2>2. HTTPConnections' = [HTTPConnections EXCEPT ![i] = g]
    BY <1>6 DEF Received, http_recvcb
  <2> HIDE DEF g
  <2>3. HTTPConnections' \in [Conns -> Slot] /\ \A j \in Conns : Fate(j)
    BY <2>1, <2>2, OneSlot
  <2>4. curhttp' = i /\ requests' = requests /\ connects' = connects
    BY <1>6 DEF Received, http_recvcb
  <2> QED
    BY <1>1, <2>3, <2>4 DEF TypeOK
<1>7. ASSUME NEW i \in Conns, Disconnected(i) PROVE TypeOK' /\ \A j \in Conns : Fate(j)
  <2> DEFINE g == http_disconnetcb(HTTPConnections[i])
  <2>1. SlotOK(g) /\ OnTime(g) /\ g.last # "closed"
    BY DisconnectOK DEF HInv
  <2>2. HTTPConnections' = [HTTPConnections EXCEPT ![i] = g]
    BY <1>7 DEF Disconnected
  <2> HIDE DEF g
  <2>3. HTTPConnections' \in [Conns -> Slot] /\ \A j \in Conns : Fate(j)
    BY <2>1, <2>2, OneSlot
  <2>4. UNCHANGED <<curhttp, requests, connects>>
    BY <1>7 DEF Disconnected
  <2> QED
    BY <1>1, <2>3, <2>4 DEF TypeOK
<1>8. ASSUME NEW i \in Conns, ClientSends(i) PROVE TypeOK' /\ \A j \in Conns : Fate(j)
  <2>1. UNCHANGED <<HTTPConnections, curhttp, connects>> /\ requests' \in 0..MaxRequests
    BY <1>1, <1>8, ConstantsOK DEF ClientSends
  <2>2. \A j \in Conns : Fate(j)
    BY <2>1, Others
  <2> QED
    BY <1>1, <2>1, <2>2 DEF TypeOK
<1>9. ASSUME NEW i \in Conns, Acknowledged(i) PROVE TypeOK' /\ \A j \in Conns : Fate(j)
  <2> DEFINE g == [HTTPConnections[i] EXCEPT !.unsent = FALSE]
  <2>1. SlotOK(g) /\ OnTime(g) /\ g.state = HTTPConnections[i].state
    BY AcknowledgedOK, TimeKept DEF HInv
  <2>2. HTTPConnections' = [HTTPConnections EXCEPT ![i] = g]
    BY <1>9 DEF Acknowledged
  <2> HIDE DEF g
  <2>3. HTTPConnections' \in [Conns -> Slot] /\ \A j \in Conns : Fate(j)
    BY <2>1, <2>2, OneSlot
  <2>4. UNCHANGED <<curhttp, requests, connects>>
    BY <1>9 DEF Acknowledged
  <2> QED
    BY <1>1, <2>3, <2>4 DEF TypeOK
<1> QED
  BY <1>2, <1>3, <1>4, <1>5, <1>6, <1>7, <1>8, <1>9 DEF Next

LEMMA Starts == Init => HInv
<1> SUFFICES ASSUME Init PROVE HInv
  OBVIOUS
<1>1. Blank \in Slot
  BY Numbers DEF Blank, Slot
<1>2. SlotOK(Blank) /\ OnTime(Blank)
  <2>1. Blank.page = <<>> /\ Blank.state = "NONE" /\ Blank.link = "none"
    BY DEF Blank
  <2> QED
    BY <1>1, <2>1 DEF SlotOK, OnTime, PageOK, SendsFile, Linked, HasOwn
<1>3. /\ HTTPConnections = [i \in Conns |-> Blank] /\ curhttp = None /\ requests = 0 /\ connects = 0
  BY DEF Init
<1>4. 0 \in 0..MaxRequests /\ 0 \in 0..MaxConnects
  BY ConstantsOK
<1> QED
  BY <1>1, <1>2, <1>3, <1>4 DEF HInv, TypeOK

LEMMA Keeps == HInv /\ [Next]_vars => HInv'
<1> SUFFICES ASSUME HInv, [Next]_vars PROVE HInv'
  OBVIOUS
<1>1. CASE Next
  BY <1>1, StepFate DEF Fate, HInv
<1>2. CASE UNCHANGED vars
  BY <1>2 DEF vars, HInv, TypeOK
<1> QED
  BY <1>1, <1>2

LEMMA Always == Spec => []HInv
BY Starts, Keeps, PTL DEF Spec
-----------------------------------------------------------------------------
(* Every variable has its type over all the handlers of http.c.            *)
THEOREM TypeCorrect == Spec => []TypeOK
<1>1. HInv => TypeOK
  BY DEF HInv
<1> QED
  BY <1>1, Always, PTL

(* A page is sent in order and without a gap, its header first, whatever   *)
(* page or websocket the slot served before                                *)
(* (HTTPHandleInternalCallback).                                           *)
THEOREM SentInOrder == Spec => []PageInOrder
<1>1. HInv => PageInOrder
  BY DEF HInv, SlotOK, PageOK, PageInOrder
<1> QED
  BY <1>1, Always, PTL

(* A page or websocket of a known path has the callback of that path, not  *)
(* one that an earlier page of the slot registered (http_custom.c).        *)
THEOREM CalledBack == Spec => []OwnCallback
<1>1. HInv => OwnCallback
  BY DEF HInv, SlotOK, HasOwn, OwnCallback
<1> QED
  BY <1>1, Always, PTL

(* What has sent all of its file has sent it, or the 404.                  *)
LEMMA DoneIsWhole ==
  ASSUME NEW h, SlotOK(h), h.state = "DATA_XFER", ~h.is_dynamic, h.isdone
  PROVE  \/ h.page = <<Packet("404", 0, 0)>>
         \/ /\ Len(h.page) > 1 /\ h.page[1].what = "200"
            /\ Last(h.page).what = "data" /\ Last(h.page).to = h.page[1].to
<1>1. CASE h.is404
  BY <1>1 DEF SlotOK, SendsFile
<1>2. CASE ~h.is404
  <2>1. /\ h.page # <<>> /\ Len(h.page) # 1 /\ h.page[1] = Packet("200", 0, h.filelen)
        /\ Last(h.page).what = "data" /\ Last(h.page).to = h.filelen - h.bytesleft /\ h.bytesleft = 0
    BY <1>2 DEF SlotOK, SendsFile
  <2>2. h.filelen \in Nat /\ Len(h.page) > 1
    <3>1. h.filelen \in Nat /\ h.page \in Seq(PacketType)
      BY DEF SlotOK, Slot, PacketType
    <3> QED
      <4> DEFINE n == Len(h.page)
      <4>1. n \in Nat /\ n # 0 /\ n # 1
        BY <2>1, <3>1, EmptySeq
      <4> HIDE DEF n
      <4>2. n > 1
        BY <4>1
      <4> QED
        BY <3>1, <4>2 DEF n
  <2>3. h.page[1].what = "200" /\ h.page[1].to = h.filelen
    <3>1. Packet("200", 0, h.filelen).what = "200" /\ Packet("200", 0, h.filelen).to = h.filelen
      BY DEF Packet
    <3>2. h.page[1] = Packet("200", 0, h.filelen)
      BY <2>1
    <3> QED
      BY <3>1, <3>2, Zenon
  <2> QED
    BY <2>1, <2>2, <2>3
<1> QED
  BY <1>1, <1>2

LEMMA Live ==
  ASSUME NEW h, SlotOK(h), Waits(h), h.link # "closing"
  PROVE  h.link \in {"eth", "wifi"}
BY DEF SlotOK, Slot, Linked, Waits

(* The server ends a connection that asked for a file only when all of the *)
(* file was sent after its header, or the 404                              *)
(* (HTTPHandleInternalCallback, HTTPClose).                                *)
THEOREM EndsWhole == Spec => ClosedWhenWhole
<1> DEFINE Whole ==
      \A i \in Conns : LET h == HTTPConnections[i]  page == h.page IN
        h.state = "DATA_XFER" /\ ~h.is_dynamic
          /\ HTTPConnections'[i].state # "DATA_XFER" /\ HTTPConnections'[i].last = "closed" =>
            \/ page = <<Packet("404", 0, 0)>>
            \/ /\ Len(page) > 1 /\ page[1].what = "200"
               /\ Last(page).what = "data" /\ Last(page).to = page[1].to
<1>1. HInv /\ [Next]_vars => [Whole]_vars
  <2> SUFFICES ASSUME HInv, Next PROVE Whole
    OBVIOUS
  <2>1. \A j \in Conns : Fate(j)
    BY StepFate
  <2> QED
    BY <2>1, DoneIsWhole DEF Fate, HInv
<1>2. Spec => [][Whole]_vars
  BY <1>1, Always, PTL DEF Spec
<1> QED
  BY <1>2 DEF ClosedWhenWhole

(* A connection on which something came is closed for being idle only when *)
(* more than HTTP_SERVER_TIMEOUT ticks found it waiting, counted from the  *)
(* last data (DoHTTP, http_recvcb).                                        *)
THEOREM EndsIdle == Spec => ClosedWhenIdle
<1> DEFINE Idle ==
      \A i \in Conns : LET h == HTTPConnections[i] IN
        Waits(h) /\ curhttp = None /\ h.link # "closing" /\ h.last = "data"
          /\ ~Waits(HTTPConnections'[i]) /\ HTTPConnections'[i].last = "closed" =>
            h.idle > HTTP_SERVER_TIMEOUT
<1>1. HInv /\ [Next]_vars => [Idle]_vars
  <2> SUFFICES ASSUME HInv, Next,
                      NEW i \in Conns, Waits(HTTPConnections[i]), curhttp = None,
                      HTTPConnections[i].link # "closing", HTTPConnections[i].last = "data",
                      ~Waits(HTTPConnections'[i]), HTTPConnections'[i].last = "closed"
               PROVE  HTTPConnections[i].idle > HTTP_SERVER_TIMEOUT
    OBVIOUS
  <2> DEFINE h == HTTPConnections[i]
  <2>1. TimedOut(h)
    BY StepFate DEF Fate
  <2>2. SlotOK(h) /\ OnTime(h)
    BY DEF HInv
  <2>3. h.link \in {"eth", "wifi"}
    BY <2>2, Live
  <2>4. h.timeout = h.idle
    BY <2>2, <2>3 DEF OnTime
  <2> QED
    BY <2>1, <2>4 DEF TimedOut
<1>2. Spec => [][Idle]_vars
  BY <1>1, Always, PTL DEF Spec
<1> QED
  BY <1>2 DEF ClosedWhenIdle

(* A client that falls silent, or never says anything, is closed at the    *)
(* latest by tick HTTP_SERVER_TIMEOUT + 2 that finds it waiting, whatever  *)
(* count its slot was left with, and though the count wraps (DoHTTP,       *)
(* httpserver_connectcb).                                                  *)
THEOREM EndsInTime == Spec => []ClosedInTime
<1>1. HInv => ClosedInTime
  <2> SUFFICES ASSUME HInv, NEW i \in Conns, Waits(HTTPConnections[i]), HTTPConnections[i].link # "closing"
               PROVE  HTTPConnections[i].idle <= HTTP_SERVER_TIMEOUT + 1
    BY DEF ClosedInTime
  <2> DEFINE h == HTTPConnections[i]
  <2>1. SlotOK(h) /\ OnTime(h)
    BY DEF HInv
  <2>2. h.link \in {"eth", "wifi"}
    BY <2>1, Live
  <2>3. h.idle = 0 \/ (h.idle <= h.timeout /\ h.timeout <= HTTP_SERVER_TIMEOUT + 1)
    BY <2>1, <2>2 DEF OnTime
  <2>4. h.timeout \in 0..Word-1 /\ h.idle \in 0..HTTP_SERVER_TIMEOUT + 2
    BY <2>1 DEF SlotOK, Slot
  <2> HIDE DEF h
  <2>5. h.idle <= HTTP_SERVER_TIMEOUT + 1
    BY <2>3, <2>4, Numbers
  <2> QED
    BY <2>5 DEF h
<1> QED
  BY <1>1, Always, PTL
=============================================================================
