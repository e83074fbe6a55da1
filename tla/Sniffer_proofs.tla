--------------------------- MODULE Sniffer_proofs ---------------------------
(***************************************************************************)
(* The packet sniffer, for any sockets, clients, clock and buffer: a       *)
(* capture writes to a connection of its own, what it gets is a pcap file, *)
(* no record is written past the end of sendbuffer, the time is kept       *)
(* though the clock wraps, and the table of clients has each once and      *)
(* drops the one not heard for longest.                                    *)
(***************************************************************************)
EXTENDS Sniffer, TLAPS, WellFoundedInduction, SequenceTheorems

Records == [frame : Nat, at : Nat]

Types ==
  /\ gHandlingTCP \in 0..Sockets
  /\ TCPs \in [1..Sockets -> [state : {"CLOSED", "ESTABLISHED", "CLOSING_WAIT"}, unacked : BOOLEAN,
                              callback : {"none", "pkcapt_close", "http_disconnetcb"}]]
  /\ cle \in [Entries -> [mac : Macs \cup {"00"}, time : 0..Word-1, at : Nat]]
  /\ sendbuffer \in Seq(Records) /\ stream \in [1..Sockets -> Seq(Records)] /\ heard \in Nat

ClockTypes ==
  /\ tv_sec \in Nat /\ tv_usec \in 0..Second-1
  /\ now \in Nat /\ updated \in 0..now /\ now - updated <= Word - Second

(* The clock was read when UpdateTime ran, and when a client was heard.    *)
ClockRead == ctl = updated % Word
HeardAt == \A e \in Entries : cle[e].at \in 0..now /\ cle[e].time = cle[e].at % Word

(* What a capture has, with what it will be sent next, is a pcap file.     *)
Pcap(s) ==
  /\ s # <<>> => s[1] = Header
  /\ \A k \in 2..Len(s) : s[k].frame > s[k-1].frame /\ s[k].at >= s[k-1].at
UpTo(s, h, t) == \A k \in 1..Len(s) : s[k].frame \in 0..h /\ s[k].at \in 0..t
Goes == gHandlingTCP # None =>
  LET s == stream[gHandlingTCP] \o sendbuffer IN s # <<>> /\ Pcap(s) /\ UpTo(s, heard, now)

ClockInv == ClockTypes /\ ClockRead /\ TimeIsKept
TableInv == HeardAt /\ OneEntryEach
StreamInv == StreamIsPcap /\ Goes

BufferFits == sendtop \in 0..STORESIZE

IInv == Types /\ BufferFits /\ ClockInv /\ TableInv /\ StreamInv /\ CapturesOwnSocket
-----------------------------------------------------------------------------
(* Division with remainder.                                                *)
LEMMA DivMod ==
  ASSUME NEW W \in Nat \ {0}, NEW x \in Nat
  PROVE  x % W \in 0..W-1 /\ x \div W \in Nat /\ (x \div W) * W + (x % W) = x
<1>1. x % W \in 0..W-1 /\ x \div W \in Nat
  OBVIOUS
<1>2. ASSUME NEW q, q = x \div W, NEW r, r = x % W PROVE q * W + r = x
  BY <1>2
<1> QED
  BY <1>1, <1>2

LEMMA ModSmall ==
  ASSUME NEW W \in Nat \ {0}, NEW x \in Int
  PROVE  /\ x >= 0 /\ x < W => x % W = x
         /\ x < 0 /\ x > -W => x % W = x + W
<1>1. ASSUME x >= 0, x < W PROVE x % W = x
  BY <1>1, SMTT(30)
<1>2. ASSUME x < 0, x > -W PROVE x % W = x + W
  BY <1>2, SMTT(30)
<1> QED
  BY <1>1, <1>2

LEMMA Dist == ASSUME NEW W \in Int, NEW a \in Int, NEW b \in Int PROVE (a + b) * W = a * W + b * W
OBVIOUS
LEMMA Dist2 == ASSUME NEW W \in Int, NEW a \in Int, NEW b \in Int PROVE (a - b) * W = a * W - b * W
OBVIOUS

LEMMA Multiple ==
  ASSUME NEW W \in Nat \ {0}, NEW k \in Int, k >= 1
  PROVE  k * W >= W
<1>1. (k - 1) * W >= 0
  OBVIOUS
<1>2. (k - 1) * W = k * W - 1 * W
  BY Dist2
<1> QED
  BY <1>1, <1>2

LEMMA Remainder ==
  ASSUME NEW W \in Nat \ {0}, NEW q \in Int, NEW r \in 0..W-1, NEW p \in Int, NEW s \in 0..W-1,
         q * W + r = p * W + s
  PROVE  r = s
<1>1. CASE q - p >= 1
  <2>1. (q - p) * W >= W /\ (q - p) * W = q * W - p * W
    BY <1>1, Multiple, Dist2
  <2> QED
    BY <2>1
<1>2. CASE p - q >= 1
  <2>1. (p - q) * W >= W /\ (p - q) * W = p * W - q * W
    BY <1>2, Multiple, Dist2
  <2> QED
    BY <2>1
<1>3. CASE p = q
  BY <1>3
<1> QED
  BY <1>1, <1>2, <1>3

LEMMA ModOfDifference ==
  ASSUME NEW W \in Nat \ {0}, NEW n \in Nat, NEW u \in Nat, u =< n, n - u < W
  PROVE  ((n % W) - (u % W)) % W = n - u
<1>1. PICK a \in Nat : n % W \in 0..W-1 /\ a * W + (n % W) = n
  BY DivMod
<1>2. PICK b \in Nat : u % W \in 0..W-1 /\ b * W + (u % W) = u
  BY DivMod
<1> DEFINE x == (n % W) - (u % W)
<1>3. x \in Int /\ x > -W /\ x < W
  BY <1>1, <1>2
<1>4. (a - b) * W = a * W - b * W /\ (a - b) * W \in Int /\ a * W \in Int /\ b * W \in Int
  BY Dist2
<1>5. (a - b) * W + x = n - u
  BY <1>1, <1>2, <1>4
<1>6. n - u \in 0..W-1 /\ a - b \in Int /\ 0 * W + (n - u) = n - u
  OBVIOUS
<1> HIDE DEF x
<1>7. CASE x >= 0
  <2>1. x \in 0..W-1
    BY <1>3, <1>7
  <2>2. x = n - u
    BY <1>5, <1>6, <2>1, Remainder
  <2> QED
    BY <1>3, <1>7, <2>2, ModSmall DEF x
<1>8. CASE x < 0
  <2>1. x + W \in 0..W-1 /\ (a - b) - 1 \in Int
    BY <1>3, <1>6, <1>8
  <2>2. ((a - b) - 1) * W = (a - b) * W - 1 * W
    BY <1>6, Dist2
  <2>3. ((a - b) - 1) * W + (x + W) = 0 * W + (n - u)
    BY <1>3, <1>4, <1>5, <2>2
  <2>4. x + W = n - u
    BY <1>6, <2>1, <2>3, Remainder
  <2> QED
    BY <1>3, <1>8, <2>4, ModSmall DEF x
<1> QED
  BY <1>3, <1>7, <1>8

LEMMA Carry ==
  ASSUME NEW S \in Nat \ {0}, NEW x \in Nat, NEW t \in Nat
  PROVE  (t + x \div S) * S + (x % S) = t * S + x
<1>0. x % S \in 0..S-1 /\ x \div S \in Nat /\ (x \div S) * S + (x % S) = x
  BY DivMod
<1>1. PICK d \in Nat : d = x \div S /\ d * S + (x % S) = x /\ x % S \in Int
  BY <1>0
<1>2. (t + d) * S = t * S + d * S /\ t * S \in Int /\ d * S \in Int
  BY Dist
<1>3. (t + d) * S + (x % S) = t * S + x
  BY <1>1, <1>2
<1> QED
  BY <1>1, <1>3
-----------------------------------------------------------------------------
(* Least elements.                                                         *)
LEMMA LeastExists ==
  ASSUME NEW S \in SUBSET Nat, S # {}
  PROVE  \E x \in S : \A y \in S : x <= y
<1> DEFINE less == OpToRel(<, Nat)
<1>1. \E x \in S : \A y \in S : <<y, x>> \notin less
  <2> HIDE DEF less
  <2>1. IsWellFoundedOn(less, Nat)
    BY NatLessThanWellFounded DEF less
  <2> QED
    BY <2>1, WFMin
<1>2. \A x, y \in Nat : <<y, x>> \notin less => x <= y
  BY DEF OpToRel
<1> QED
  BY <1>1, <1>2

(* Of a function to 0..m, a greatest value, and the first place of it.     *)
LEMMA FirstGreatestExists ==
  ASSUME NEW n \in Nat \ {0}, NEW m \in Nat, NEW f, \A e \in 1..n : f[e] \in 0..m
  PROVE  \E e \in 1..n : (\A g \in 1..n : f[g] <= f[e]) /\ (\A g \in 1..e-1 : f[g] < f[e])
<1> DEFINE V == {v \in Nat : \E e \in 1..n : v = m - f[e]}
<1>1. V \in SUBSET Nat /\ V # {}
  <2>1. 1 \in 1..n
    OBVIOUS
  <2>2. f[1] \in 0..m
    BY <2>1
  <2>3. m - f[1] \in Nat
    BY <2>2
  <2>4. m - f[1] \in V
    BY <2>1, <2>3
  <2> QED
    BY <2>4
<1>2. PICK v \in V : \A w \in V : v <= w
  <2> HIDE DEF V
  <2> QED
    BY <1>1, LeastExists
<1> DEFINE P == {e \in 1..n : v = m - f[e]}
<1>3. P \in SUBSET Nat /\ P # {}
  BY <1>2
<1>4. PICK e \in P : \A g \in P : e <= g
  <2> HIDE DEF P
  <2> QED
    BY <1>3, LeastExists
<1>5. \A g \in 1..n : f[g] <= f[e]
  <2> SUFFICES ASSUME NEW g \in 1..n PROVE f[g] <= f[e]
    OBVIOUS
  <2>1. m - f[g] \in V
    OBVIOUS
  <2>2. v <= m - f[g] /\ v = m - f[e]
    BY <1>2, <1>4, <2>1
  <2>3. f[g] \in Int /\ f[e] \in Int
    BY <1>4
  <2> QED
    BY <2>2, <2>3
<1>6. \A g \in 1..e-1 : f[g] < f[e]
  <2> SUFFICES ASSUME NEW g \in 1..e-1 PROVE f[g] < f[e]
    OBVIOUS
  <2>1. g \in 1..n /\ ~(e <= g)
    BY <1>4
  <2>2. v # m - f[g] /\ v = m - f[e]
    BY <1>4, <2>1
  <2>3. f[g] <= f[e] /\ f[g] \in Int /\ f[e] \in Int
    BY <1>4, <1>5, <2>1
  <2> QED
    BY <2>2, <2>3
<1> QED
  BY <1>4, <1>5, <1>6
-----------------------------------------------------------------------------
(* Pcap files as sequences.                                                *)
LEMMA PcapAppend ==
  ASSUME NEW s \in Seq(Records), NEW r \in Records, NEW h \in Nat, NEW t \in Nat,
         s # <<>>, Pcap(s), UpTo(s, h, t), r.frame > h, r.at >= t
  PROVE  Append(s, r) # <<>> /\ Pcap(Append(s, r))
<1> DEFINE a == Append(s, r)
<1>0. Len(s) \in Nat \ {0}
  BY EmptySeq, s # <<>>
<1>1. /\ Len(a) = Len(s) + 1 /\ a # <<>>
      /\ \A k \in 1..Len(s) : a[k] = s[k]
      /\ a[Len(s) + 1] = r
  BY AppendProperties
<1> HIDE DEF a
<1>2. a[1] = Header
  BY <1>1 DEF Pcap
<1>3. \A k \in 2..Len(a) : a[k].frame > a[k-1].frame /\ a[k].at >= a[k-1].at
  <2> SUFFICES ASSUME NEW k \in 2..Len(a) PROVE a[k].frame > a[k-1].frame /\ a[k].at >= a[k-1].at
    OBVIOUS
  <2>1. CASE k = Len(a)
    <3>1. a[k] = r /\ a[k-1] = s[Len(s)] /\ Len(s) \in 1..Len(s)
      BY <1>1, <2>1
    <3>2. s[Len(s)].frame \in 0..h /\ s[Len(s)].at \in 0..t
      BY <3>1 DEF UpTo
    <3>3. r.frame \in Nat /\ r.at \in Nat
      BY DEF Records
    <3> QED
      BY <3>1, <3>2, <3>3, SMTT(30)
  <2>2. CASE k \in 2..Len(s)
    <3>1. a[k] = s[k] /\ a[k-1] = s[k-1]
      BY <1>1, <2>2
    <3> QED
      BY <2>2, <3>1 DEF Pcap
  <2> QED
    BY <1>1, <2>1, <2>2
<1> QED
  BY <1>1, <1>2, <1>3 DEF Pcap, a

LEMMA UpToAppend ==
  ASSUME NEW s \in Seq(Records), NEW r \in Records, NEW h \in Nat, NEW t \in Nat, NEW h2 \in Nat, NEW t2 \in Nat,
         UpTo(s, h, t), h <= h2, t <= t2, r.frame <= h2, r.at <= t2
  PROVE  UpTo(Append(s, r), h2, t2)
<1>1. r.frame \in Nat /\ r.at \in Nat
  BY DEF Records
<1> QED
  BY <1>1, AppendProperties, SMTT(30) DEF UpTo

LEMMA ConcatAppend ==
  ASSUME NEW a \in Seq(Records), NEW b \in Seq(Records), NEW r \in Records
  PROVE  a \o Append(b, r) = Append(a \o b, r)
<1> DEFINE u == <<r>>
<1>1. u \in Seq(Records)
  OBVIOUS
<1>2. Append(b, r) = b \o u /\ a \o b \in Seq(Records)
  BY AppendIsConcat, ConcatProperties
<1>3. Append(a \o b, r) = (a \o b) \o u
  BY <1>2, AppendIsConcat
<1> HIDE DEF u
<1>4. (a \o b) \o u = a \o (b \o u)
  BY <1>1, ConcatAssociative
<1> QED
  BY <1>2, <1>3, <1>4

LEMMA HeaderAlone == <<Header>> \in Seq(Records) /\ Pcap(<<Header>>) /\ (\A h, t \in Nat : UpTo(<<Header>>, h, t))
<1>1. Header \in Records
  BY ConstantsOK DEF Header, Records
<1>2. Len(<<Header>>) = 1 /\ <<Header>>[1] = Header /\ <<Header>> \in Seq(Records)
  BY <1>1
<1>3. Header.frame = 0 /\ Header.at = 0
  BY DEF Header
<1> QED
  BY <1>2, <1>3 DEF Pcap, UpTo
-----------------------------------------------------------------------------
(* The time.                                                               *)
LEMMA TimeUpdated ==
  ASSUME ClockInv, UpdateTime, now' = now
  PROVE  ClockInv' /\ tv_sec' * Second + tv_usec' = now
<1> USE DEF ClockInv, ClockTypes
<1> DEFINE sum  == tv_usec + Since(ctl)
           usec == sum % Word
<1>0. /\ Word \in Nat \ {0} /\ Second \in 1..Word /\ Second \in Nat \ {0}
      /\ now \in Nat /\ updated \in Nat /\ updated <= now /\ now - updated < Word
  BY ConstantsOK
<1>1. Since(ctl) = now - updated
  BY <1>0, ModOfDifference DEF Since, system_get_time, ClockRead
<1>2. usec \in Nat /\ tv_sec * Second + usec = now
  <2>1. tv_sec * Second \in Int
    BY <1>0
  <2>2. sum = tv_usec + (now - updated) /\ sum \in 0..Word-1
    BY <1>0, <1>1
  <2>3. usec = sum
    <3> DEFINE x == sum
    <3>1. x \in Int /\ x >= 0 /\ x < Word /\ Word \in Nat \ {0}
      BY <1>0, <2>2
    <3> HIDE DEF x
    <3>2. x % Word = x
      BY <3>1, ModSmall
    <3> QED
      BY <3>2 DEF x
  <2> HIDE DEF sum
  <2> HIDE DEF usec
  <2> QED
    BY <1>0, <2>1, <2>2, <2>3 DEF TimeIsKept
<1>3. /\ tv_sec' = tv_sec + usec \div Second /\ tv_usec' = usec % Second
      /\ updated' = now /\ ctl' = now % Word
  BY DEF UpdateTime, system_get_time
<1> HIDE DEF usec
<1>4. usec % Second \in 0..Second-1 /\ usec \div Second \in Nat
  BY <1>0, <1>2, DivMod
<1>5. tv_sec' * Second + tv_usec' = now
  <2>1. (tv_sec + usec \div Second) * Second + (usec % Second) = tv_sec * Second + usec
    BY <1>0, <1>2, Carry
  <2> QED
    BY <1>2, <1>3, <2>1
<1>6. ClockTypes'
  BY <1>0, <1>3, <1>4
<1> QED
  BY <1>3, <1>5, <1>6 DEF TimeIsKept, ClockRead

LEMMA ClockKeeps == ClockInv /\ [Next]_vars => ClockInv' /\ now <= now' /\ now \in Nat /\ now' \in Nat
<1> SUFFICES ASSUME ClockInv, [Next]_vars
             PROVE  ClockInv' /\ now <= now' /\ now \in Nat /\ now' \in Nat
  OBVIOUS
<1>0. now \in Nat
  BY DEF ClockInv, ClockTypes
<1>1. CASE UpdateTime /\ now' = now
  BY <1>0, <1>1, TimeUpdated
<1>2. CASE UNCHANGED <<clock, now>>
  BY <1>0, <1>2 DEF clock, ClockInv, ClockTypes, ClockRead, TimeIsKept
<1>3. CASE Pass
  BY <1>0, <1>3, ConstantsOK DEF Pass, clock, ClockInv, ClockTypes, ClockRead, TimeIsKept
<1>4. (UpdateTime /\ now' = now) \/ UNCHANGED <<clock, now>> \/ Pass
  BY DEF Next, vars, TickPacketSet, HandleIncomingEthernetSyn, WebSyn, promisc_cb, Acknowledged, Fin, Rst, GivenUp, Others
<1> QED
  BY <1>1, <1>2, <1>3, <1>4
-----------------------------------------------------------------------------
(* The table of clients.                                                   *)
LEMMA OwnMatches ==
  ASSUME NEW mac, Own(mac) # {}
  PROVE  Match(mac) \in Own(mac)
<1> DEFINE V == {v \in Nat : \E e \in Own(mac) : v = CLIENTENTRIES - e}
<1>0. CLIENTENTRIES \in Nat \ {0} /\ Own(mac) \subseteq 1..CLIENTENTRIES
  BY ConstantsOK DEF Own, Entries
<1>1. V \in SUBSET Nat /\ V # {}
  <2>1. PICK e \in Own(mac) : TRUE
    OBVIOUS
  <2>2. CLIENTENTRIES - e \in V
    BY <1>0, <2>1
  <2> QED
    BY <2>2
<1>2. PICK v \in V : \A w \in V : v <= w
  <2> HIDE DEF V
  <2> QED
    BY <1>1, LeastExists
<1>3. PICK e \in Own(mac) : v = CLIENTENTRIES - e
  BY <1>2
<1>4. \A f \in Own(mac) : f <= e
  <2> SUFFICES ASSUME NEW f \in Own(mac) PROVE f <= e
    OBVIOUS
  <2>1. CLIENTENTRIES - f \in V
    BY <1>0
  <2> QED
    BY <1>0, <1>2, <1>3, <2>1
<1>5. \E x \in Own(mac) : \A f \in Own(mac) : f <= x
  BY <1>3, <1>4
<1> QED
  BY <1>5 DEF Match

(* Where there is no entry, the one not heard for longest is taken.        *)
LEMMA OldestIsOldest ==
  ASSUME Types, ClockInv, TableInv
  PROVE  Oldest \in Entries /\ (\A f \in Entries : Since(cle[f].time) <= Since(cle[Oldest].time))
<1> DEFINE age == [e \in Entries |-> Since(cle[e].time)]
<1>0. CLIENTENTRIES \in Nat \ {0} /\ Word \in Nat \ {0} /\ Entries = 1..CLIENTENTRIES
  BY ConstantsOK DEF Entries
<1>1. \A e \in Entries : age[e] \in 0..Word-1
  <2> SUFFICES ASSUME NEW e \in Entries PROVE age[e] \in 0..Word-1
    OBVIOUS
  <2>1. cle[e].time \in 0..Word-1
    BY DEF Types
  <2>2. now % Word \in 0..Word-1
    BY <1>0, DivMod DEF ClockInv, ClockTypes
  <2>3. (now % Word) - cle[e].time \in Int
    BY <1>0, <2>1, <2>2
  <2>4. ((now % Word) - cle[e].time) % Word \in 0..Word-1
    BY <1>0, <2>3
  <2> QED
    BY <2>4 DEF Since, system_get_time
<1>2. \E e \in Entries : (\A g \in Entries : age[g] <= age[e]) /\ (\A g \in 1..e-1 : age[g] < age[e])
  <2> DEFINE m == Word - 1
  <2>1. m \in Nat /\ \A e \in 1..CLIENTENTRIES : age[e] \in 0..m
    BY <1>0, <1>1
  <2> HIDE DEF age, m
  <2>2. \E e \in 1..CLIENTENTRIES : (\A g \in 1..CLIENTENTRIES : age[g] <= age[e]) /\ (\A g \in 1..e-1 : age[g] < age[e])
    BY <1>0, <2>1, FirstGreatestExists
  <2> QED
    BY <1>0, <2>2
<1>3. \E e \in Entries : /\ \A f \in Entries : Since(cle[f].time) <= Since(cle[e].time)
                         /\ \A f \in 1..e-1 : Since(cle[f].time) < Since(cle[e].time)
  <2>1. PICK e \in Entries : (\A g \in Entries : age[g] <= age[e]) /\ (\A g \in 1..e-1 : age[g] < age[e])
    BY <1>2
  <2>2. 1..e-1 \subseteq Entries
    BY <1>0
  <2>3. \A f \in Entries : age[f] = Since(cle[f].time)
    OBVIOUS
  <2> HIDE DEF age
  <2>4. \A f \in Entries : Since(cle[f].time) <= Since(cle[e].time)
    BY <2>1, <2>3
  <2>5. \A f \in 1..e-1 : Since(cle[f].time) < Since(cle[e].time)
    BY <2>1, <2>2, <2>3
  <2> QED
    BY <2>4, <2>5
<1> QED
  BY <1>3 DEF Oldest

LEMMA TableKeeps ==
  ASSUME Types, ClockInv, TableInv, [Next]_vars
  PROVE  TableInv'
<1>0. now <= now' /\ now \in Nat /\ now' \in Nat
  BY ClockKeeps
<1>1. CASE UNCHANGED cle
  <2>1. OneEntryEach'
    BY <1>1 DEF TableInv, OneEntryEach
  <2>2. HeardAt'
    BY <1>0, <1>1 DEF TableInv, HeardAt
  <2> QED
    BY <2>1, <2>2 DEF TableInv
<1>2. ASSUME NEW mac \in Macs, NEW length \in DataLengths, promisc_cb(mac, length) PROVE TableInv'
  <2> DEFINE k == Match(mac)
             new == [mac |-> mac, time |-> now % Word, at |-> now]
  <2>1. cle' = [cle EXCEPT ![k] = new] /\ now' = now
    BY <1>2 DEF promisc_cb, system_get_time
  <2>2. cle \in [Entries -> [mac : Macs \cup {"00"}, time : 0..Word-1, at : Nat]]
    BY DEF Types
  <2>3. Own(mac) # {} => k \in Own(mac)
    BY OwnMatches
  <2> HIDE DEF k
  <2>4. \A e \in Entries : cle'[e] = IF e = k THEN new ELSE cle[e]
    BY <2>1, <2>2
  <2>5. OneEntryEach'
    <3> SUFFICES ASSUME NEW e \in Entries, NEW f \in Entries, cle'[e].mac = cle'[f].mac, e # f, cle'[e].mac # "00"
                 PROVE  FALSE
      BY DEF OneEntryEach
    <3>1. e = k \/ f = k
      BY <2>4 DEF TableInv, OneEntryEach
    <3>2. PICK g \in Entries : g # k /\ cle[g].mac = mac /\ k \in Entries
      BY <2>4, <3>1
    <3>3. g \in Own(mac) /\ cle[k].mac = mac
      BY <2>3, <3>2 DEF Own
    <3>4. mac # "00"
      BY <2>4, <3>1
    <3> QED
      BY <3>2, <3>3, <3>4 DEF TableInv, OneEntryEach
  <2>6. HeardAt'
    BY <1>0, <2>1, <2>4 DEF TableInv, HeardAt
  <2> QED
    BY <2>5, <2>6 DEF TableInv
<1> QED
  BY <1>1, <1>2 DEF Next, vars, TickPacketSet, HandleIncomingEthernetSyn, WebSyn, Pass, Acknowledged, Fin, Rst,
                    GivenUp, Others
-----------------------------------------------------------------------------
(* The sockets.                                                            *)
LEMMA FreeConnection ==
  ASSUME Types, Free # {}
  PROVE  et_GetFreeConnection \in 1..Sockets /\ TCPs[et_GetFreeConnection].state = "CLOSED"
<1>1. Free \in SUBSET Nat
  BY ConstantsOK DEF Free
<1>2. \E i \in Free : \A j \in Free : i <= j
  BY <1>1, LeastExists
<1>3. et_GetFreeConnection \in Free
  BY <1>2 DEF et_GetFreeConnection
<1> QED
  BY <1>3 DEF Free

(* A socket is taken: the others are as they were, but for the capture     *)
(* that is replaced.                                                       *)
LEMMA ConnectionTaken ==
  ASSUME Types, NEW old \in {TCPs, [TCPs EXCEPT ![gHandlingTCP] = RequestClosure(@)]},
         NEW i \in 1..Sockets, NEW callback \in {"pkcapt_close", "http_disconnetcb"},
         TCPs' = [old EXCEPT ![i] = [state |-> "ESTABLISHED", unacked |-> FALSE, callback |-> callback]]
  PROVE  TCPs' \in [1..Sockets -> [state : {"CLOSED", "ESTABLISHED", "CLOSING_WAIT"}, unacked : BOOLEAN,
                                   callback : {"none", "pkcapt_close", "http_disconnetcb"}]]
<1> DEFINE State == [state : {"CLOSED", "ESTABLISHED", "CLOSING_WAIT"}, unacked : BOOLEAN,
                     callback : {"none", "pkcapt_close", "http_disconnetcb"}]
<1>1. \A s \in State : RequestClosure(s) \in State
  BY DEF RequestClosure, Closing
<1>2. [state |-> "ESTABLISHED", unacked |-> FALSE, callback |-> callback] \in State
  OBVIOUS
<1>3. TCPs \in [1..Sockets -> State]
  BY DEF Types
<1> HIDE DEF State
<1>4. old \in [1..Sockets -> State]
  BY <1>1, <1>3
<1>5. TCPs' \in [1..Sockets -> State]
  BY <1>2, <1>4
<1> QED
  BY <1>5 DEF State

(* What an ended connection leaves: a closed socket, or one that waits.    *)
LEMMA SocketEnded ==
  ASSUME Types, NEW i \in 1..Sockets, Acknowledged(i) \/ Fin(i) \/ Rst(i) \/ GivenUp(i)
  PROVE  /\ TCPs' \in [1..Sockets -> [state : {"CLOSED", "ESTABLISHED", "CLOSING_WAIT"}, unacked : BOOLEAN,
                                      callback : {"none", "pkcapt_close", "http_disconnetcb"}]]
         /\ gHandlingTCP' \in {gHandlingTCP, None} /\ Others
         /\ stream' \in {stream, [stream EXCEPT ![i] = <<>>]}
         /\ CapturesOwnSocket => CapturesOwnSocket' /\ (gHandlingTCP' # None => gHandlingTCP' # i \/ stream' = stream)
<1> DEFINE State == [state : {"CLOSED", "ESTABLISHED", "CLOSING_WAIT"}, unacked : BOOLEAN,
                     callback : {"none", "pkcapt_close", "http_disconnetcb"}]
           g == gHandlingTCP
<1>0. TCPs \in [1..Sockets -> State] /\ TCPs[i] \in State /\ None \notin 1..Sockets
  BY ConstantsOK DEF Types, None
<1>1. /\ Closed \in State /\ Closed.state = "CLOSED"
      /\ Closing(TCPs[i]) \in State /\ Closing(TCPs[i]).state = "CLOSING_WAIT"
  BY <1>0 DEF Closed, Closing
<1>2. /\ [TCPs[i] EXCEPT !.unacked = FALSE] \in State
      /\ [TCPs[i] EXCEPT !.unacked = FALSE].state = TCPs[i].state
      /\ [TCPs[i] EXCEPT !.unacked = FALSE].callback = TCPs[i].callback
  BY <1>0
(* Whatever is left, the capture of now is another socket, or goes on.     *)
<1>3. PICK s \in State :
        /\ Ended(i, s) /\ Others /\ g' \in {g, None}
        /\ \/ g' = None
           \/ g # i
           \/ TCPs[i].state # "ESTABLISHED" \/ TCPs[i].callback # "pkcapt_close"
           \/ s.state = "ESTABLISHED" /\ s.callback = "pkcapt_close"
  <2>1. CASE Acknowledged(i)
    <3>1. CASE TCPs[i].state = "CLOSING_WAIT"
      <4>1. Closed \in State
        BY <1>1
      <4> WITNESS Closed \in State
      <4> QED
        BY <2>1, <3>1 DEF Acknowledged
    <3>2. CASE TCPs[i].state # "CLOSING_WAIT"
      <4>1. [TCPs[i] EXCEPT !.unacked = FALSE] \in State
        BY <1>2
      <4> WITNESS [TCPs[i] EXCEPT !.unacked = FALSE] \in State
      <4> QED
        BY <1>2, <2>1, <3>2 DEF Acknowledged
    <3> QED
      BY <3>1, <3>2
  <2>2. CASE Fin(i) /\ TCPs[i].state = "ESTABLISHED"
    <3>1. Closing(TCPs[i]) \in State
      BY <1>1
    <3> WITNESS Closing(TCPs[i]) \in State
    <3> QED
      BY <2>2 DEF Fin, Disconnect
  <2>3. CASE (Fin(i) /\ TCPs[i].state # "ESTABLISHED") \/ Rst(i) \/ GivenUp(i)
    <3>1. Closed \in State
      BY <1>1
    <3> WITNESS Closed \in State
    <3> QED
      BY <2>3 DEF Fin, Rst, GivenUp, Disconnect
  <2> QED
    BY <2>1, <2>2, <2>3
<1> HIDE DEF State
<1>4. TCPs' = [TCPs EXCEPT ![i] = s] /\ stream' = IF s = Closed THEN [stream EXCEPT ![i] = <<>>] ELSE stream
  BY <1>3 DEF Ended
<1>5. TCPs' \in [1..Sockets -> State]
  BY <1>0, <1>3, <1>4
<1>6. ASSUME CapturesOwnSocket PROVE CapturesOwnSocket' /\ (g' # None => g' # i \/ stream' = stream)
  <2>1. CASE g' = None
    BY <2>1 DEF CapturesOwnSocket
  <2>2. CASE g' = g /\ g # i
    BY <1>0, <1>4, <1>6, <2>2 DEF CapturesOwnSocket
  <2>3. CASE g' = i /\ g = i /\ g' # None
    <3>1. s.state = "ESTABLISHED" /\ s.callback = "pkcapt_close"
      BY <1>3, <1>6, <2>3 DEF CapturesOwnSocket
    <3>2. TCPs'[i] = s /\ s # Closed
      BY <1>0, <1>1, <1>4, <3>1
    <3> QED
      BY <1>4, <2>3, <3>1, <3>2 DEF CapturesOwnSocket
  <2> QED
    BY <1>3, <2>1, <2>2, <2>3
<1> QED
  BY <1>3, <1>4, <1>5, <1>6 DEF State
-----------------------------------------------------------------------------
(* A stream that is left alone, or starts again, stays a pcap file.        *)
LEMMA UpToMore ==
  ASSUME NEW s, NEW h \in Nat, NEW t \in Nat, NEW h2 \in Nat, NEW t2 \in Nat, UpTo(s, h, t), h <= h2, t <= t2
  PROVE  UpTo(s, h2, t2)
BY DEF UpTo

LEMMA EmptyIsPcap == Pcap(<<>>)
BY DEF Pcap

LEMMA StreamsArePcap == StreamIsPcap <=> \A i \in 1..Sockets : Pcap(stream[i])
BY DEF StreamIsPcap, Pcap

LEMMA StreamLeft ==
  ASSUME Types, StreamInv, NEW i \in 1..Sockets, stream' \in {stream, [stream EXCEPT ![i] = <<>>]},
         sendbuffer' = sendbuffer, gHandlingTCP' \in {gHandlingTCP, None},
         gHandlingTCP' # None => gHandlingTCP' # i \/ stream' = stream,
         heard' \in Nat, now' \in Nat, now \in Nat, heard <= heard', now <= now'
  PROVE  StreamInv'
<1>1. \A j \in 1..Sockets : Pcap(stream'[j])
  BY EmptyIsPcap, StreamsArePcap DEF StreamInv, Types
<1>2. StreamIsPcap'
  <2>1. StreamIsPcap' <=> \A j \in 1..Sockets : Pcap(stream'[j])
    BY DEF StreamIsPcap, Pcap
  <2> QED
    BY <1>1, <2>1
<1>3. Goes'
  <2> SUFFICES ASSUME gHandlingTCP' # None
               PROVE  LET s == (stream[gHandlingTCP] \o sendbuffer)' IN s # <<>> /\ Pcap(s) /\ UpTo(s, heard', now')
    BY DEF Goes
  <2>1. gHandlingTCP' = gHandlingTCP /\ gHandlingTCP # None
    OBVIOUS
  <2>2. stream'[gHandlingTCP] = stream[gHandlingTCP]
    <3>1. gHandlingTCP \in 1..Sockets /\ (gHandlingTCP # i \/ stream' = stream)
      BY <2>1, ConstantsOK DEF Types, None
    <3> QED
      BY <3>1 DEF Types
  <2> DEFINE s == stream[gHandlingTCP] \o sendbuffer
  <2>3. s # <<>> /\ Pcap(s) /\ UpTo(s, heard, now)
    BY <2>1 DEF StreamInv, Goes
  <2>4. heard \in Nat
    BY DEF Types
  <2> HIDE DEF s
  <2>5. UpTo(s, heard', now')
    BY <2>3, <2>4, UpToMore
  <2> QED
    BY <2>1, <2>2, <2>3, <2>5 DEF s
<1> QED
  BY <1>2, <1>3 DEF StreamInv

LEMMA InitIInv == Init => IInv
<1> SUFFICES ASSUME Init PROVE IInv
  OBVIOUS
<1>1. Types
  <2>1. TCPs \in [1..Sockets -> [state : {"CLOSED", "ESTABLISHED", "CLOSING_WAIT"}, unacked : BOOLEAN,
                                 callback : {"none", "pkcapt_close", "http_disconnetcb"}]]
    BY DEF Init, Closed
  <2>2. cle \in [Entries -> [mac : Macs \cup {"00"}, time : 0..Word-1, at : Nat]]
    <3>1. Nobody \in [mac : Macs \cup {"00"}, time : 0..Word-1, at : Nat]
      BY ConstantsOK DEF Nobody
    <3> QED
      BY <3>1 DEF Init
  <2> QED
    BY <2>1, <2>2, ConstantsOK DEF Init, Types, None
<1>2. 0 % Word = 0 /\ Word > 0
  BY ConstantsOK, ModSmall
<1>3. ClockInv
  BY <1>2, ConstantsOK DEF Init, ClockInv, ClockTypes, ClockRead, TimeIsKept
<1>4. TableInv
  BY <1>2 DEF Init, Nobody, TableInv, HeardAt, OneEntryEach
<1>5. StreamInv
  <2>1. \A i \in 1..Sockets : Pcap(stream[i])
    BY EmptyIsPcap DEF Init
  <2> QED
    BY <2>1, StreamsArePcap DEF Init, StreamInv, Goes
<1>6. CapturesOwnSocket
  BY DEF Init, CapturesOwnSocket
<1>7. BufferFits
  BY ConstantsOK DEF Init, BufferFits
<1> QED
  BY <1>1, <1>3, <1>4, <1>5, <1>6, <1>7 DEF IInv

(* The tick: what was collected goes to the capture.                       *)
LEMMA TickKeeps ==
  ASSUME IInv, TickPacketSet
  PROVE  Types' /\ StreamInv' /\ CapturesOwnSocket'
<1> DEFINE g == gHandlingTCP
           s == stream[g] \o sendbuffer
<1>0. now \in Nat /\ heard \in Nat /\ UNCHANGED <<gHandlingTCP, cle, now, heard>>
  BY DEF IInv, ClockInv, ClockTypes, Types, TickPacketSet
<1>1. CASE UNCHANGED <<tcp, sendbuffer>>
  <2>1. Types' /\ CapturesOwnSocket'
    BY <1>0, <1>1 DEF tcp, IInv, Types, CapturesOwnSocket
  <2>2. StreamInv'
    BY <1>0, <1>1 DEF tcp, IInv, StreamInv, StreamIsPcap, Goes, Pcap, UpTo
  <2> QED
    BY <2>1, <2>2
<1>2. CASE /\ g # None /\ TCPs' = [TCPs EXCEPT ![g].unacked = TRUE]
           /\ stream' = [stream EXCEPT ![g] = @ \o sendbuffer] /\ sendbuffer' = <<>>
  <2>1. g \in 1..Sockets /\ s \in Seq(Records)
    BY <1>2, ConstantsOK, ConcatProperties DEF IInv, Types, None
  <2>2. s # <<>> /\ Pcap(s) /\ UpTo(s, heard, now)
    BY <1>2 DEF IInv, StreamInv, Goes
  <2>3. stream' = [stream EXCEPT ![g] = s] /\ stream'[g] = s
    BY <1>2, <2>1 DEF IInv, Types
  <2> HIDE DEF s
  <2>4. Types'
    <3>1. /\ TCPs' \in [1..Sockets -> [state : {"CLOSED", "ESTABLISHED", "CLOSING_WAIT"}, unacked : BOOLEAN,
                                       callback : {"none", "pkcapt_close", "http_disconnetcb"}]]
      BY <1>2 DEF IInv, Types
    <3>2. stream' \in [1..Sockets -> Seq(Records)] /\ sendbuffer' \in Seq(Records)
      BY <1>2, <2>1, <2>3, EmptySeq DEF IInv, Types
    <3> QED
      BY <1>0, <3>1, <3>2 DEF IInv, Types
  <2>5. CapturesOwnSocket'
    BY <1>0, <1>2, <2>1 DEF IInv, Types, CapturesOwnSocket
  <2>6. StreamIsPcap'
    <3>1. \A i \in 1..Sockets : Pcap(stream'[i])
      BY <2>1, <2>2, <2>3, StreamsArePcap DEF IInv, StreamInv, Types
    <3>2. StreamIsPcap' <=> \A i \in 1..Sockets : Pcap(stream'[i])
      BY DEF StreamIsPcap, Pcap
    <3> QED
      BY <3>1, <3>2
  <2>7. (stream[gHandlingTCP] \o sendbuffer)' = s
    BY <1>0, <1>2, <2>1, <2>3, ConcatEmptySeq
  <2> QED
    BY <1>0, <2>2, <2>4, <2>5, <2>6, <2>7 DEF StreamInv, Goes
<1> QED
  BY <1>1, <1>2 DEF TickPacketSet, buffer

(* A frame from the radio: its record follows all that the capture has.    *)
LEMMA HeardKeeps ==
  ASSUME IInv, NEW mac \in Macs, NEW length \in DataLengths, promisc_cb(mac, length)
  PROVE  Types' /\ StreamInv' /\ CapturesOwnSocket'
<1> DEFINE g == gHandlingTCP
           r == [frame |-> heard', at |-> tv_sec' * Second + tv_usec']
           s == stream[g] \o sendbuffer
<1>0. /\ now \in Nat /\ heard \in Nat /\ heard' = heard + 1 /\ now' = now
      /\ UNCHANGED <<gHandlingTCP, TCPs, stream>>
  BY DEF IInv, ClockInv, ClockTypes, Types, promisc_cb, tcp
<1>1. cle' \in [Entries -> [mac : Macs \cup {"00"}, time : 0..Word-1, at : Nat]]
  <2> DEFINE new == [mac |-> mac, time |-> system_get_time, at |-> now]
  <2>1. now % Word \in 0..Word-1
    BY <1>0, ConstantsOK, DivMod
  <2>2. new \in [mac : Macs \cup {"00"}, time : 0..Word-1, at : Nat]
    BY <1>0, <2>1 DEF system_get_time
  <2>3. cle' = [cle EXCEPT ![Match(mac)] = new]
    BY DEF promisc_cb
  <2> HIDE DEF new
  <2> QED
    BY <2>2, <2>3 DEF IInv, Types
<1>2. CapturesOwnSocket'
  BY <1>0 DEF IInv, CapturesOwnSocket
<1>3. StreamIsPcap'
  BY <1>0 DEF IInv, StreamInv, StreamIsPcap
<1>4. CASE sendbuffer' = sendbuffer
  <2>1. Types'
    BY <1>0, <1>1, <1>4 DEF IInv, Types
  <2>2. Goes'
    <3>1. g # None => s # <<>> /\ Pcap(s) /\ UpTo(s, heard, now)
      BY DEF IInv, StreamInv, Goes
    <3> HIDE DEF s
    <3>2. g # None => UpTo(s, heard', now')
      BY <1>0, <3>1, UpToMore
    <3> QED
      BY <1>0, <1>4, <3>1, <3>2 DEF Goes, s
  <2> QED
    BY <1>2, <1>3, <2>1, <2>2 DEF StreamInv
<1>5. CASE UpdateTime /\ sendbuffer' = Append(sendbuffer, r)
  <2>1. r \in Records /\ r.frame = heard + 1 /\ r.at = now
    <3>1. tv_sec' * Second + tv_usec' = now
      BY <1>0, <1>5, TimeUpdated DEF IInv
    <3> QED
      BY <1>0, <3>1 DEF Records
  <2> HIDE DEF r
  <2>2. sendbuffer \in Seq(Records) /\ sendbuffer' \in Seq(Records)
    BY <1>5, <2>1, AppendProperties DEF IInv, Types
  <2>3. Types'
    BY <1>0, <1>1, <2>2 DEF IInv, Types
  <2>4. Goes'
    <3> SUFFICES ASSUME g # None
                 PROVE  LET z == (stream[gHandlingTCP] \o sendbuffer)' IN z # <<>> /\ Pcap(z) /\ UpTo(z, heard', now')
      BY <1>0 DEF Goes
    <3>1. stream[g] \in Seq(Records) /\ s \in Seq(Records)
      BY <2>2, ConstantsOK, ConcatProperties DEF IInv, Types, None
    <3>2. s # <<>> /\ Pcap(s) /\ UpTo(s, heard, now)
      BY DEF IInv, StreamInv, Goes
    <3>3. (stream[gHandlingTCP] \o sendbuffer)' = Append(s, r)
      <4>1. stream[g] \o Append(sendbuffer, r) = Append(s, r)
        BY <2>1, <2>2, <3>1, ConcatAppend
      <4> QED
        BY <1>0, <1>5, <4>1
    <3> HIDE DEF s
    <3>4. Append(s, r) # <<>> /\ Pcap(Append(s, r))
      BY <1>0, <2>1, <3>1, <3>2, PcapAppend
    <3>5. UpTo(Append(s, r), heard', now')
      BY <1>0, <2>1, <3>1, <3>2, UpToAppend
    <3> QED
      BY <3>3, <3>4, <3>5
  <2> QED
    BY <1>2, <1>3, <2>3, <2>4 DEF StreamInv
<1> QED
  BY <1>4, <1>5 DEF promisc_cb, AddBL, buffer

(* A connection: a capture starts with the header alone; the web server    *)
(* takes a socket that captures nothing.                                   *)
LEMMA SynKeeps ==
  ASSUME IInv, HandleIncomingEthernetSyn \/ WebSyn
  PROVE  Types' /\ StreamInv' /\ CapturesOwnSocket'
<1> DEFINE i == et_GetFreeConnection
           g == gHandlingTCP
           open(callback) == [state |-> "ESTABLISHED", unacked |-> FALSE, callback |-> callback]
<1>0. Types /\ Free # {}
  BY DEF IInv, HandleIncomingEthernetSyn, WebSyn
<1>1. i \in 1..Sockets /\ TCPs[i].state = "CLOSED"
  BY <1>0, FreeConnection
<1>2. /\ UNCHANGED <<cle, now, heard>> /\ stream' = [stream EXCEPT ![i] = <<>>]
      /\ now \in Nat /\ heard \in Nat
  BY DEF HandleIncomingEthernetSyn, WebSyn, clock, IInv, ClockInv, ClockTypes, Types
<1>3. CASE HandleIncomingEthernetSyn
  <2> DEFINE old == IF g = None THEN TCPs ELSE [TCPs EXCEPT ![g] = RequestClosure(@)]
  <2>1. TCPs' = [old EXCEPT ![i] = open("pkcapt_close")] /\ g' = i /\ sendbuffer' = <<Header>>
    BY <1>3 DEF HandleIncomingEthernetSyn
  <2>2. old \in {TCPs, [TCPs EXCEPT ![g] = RequestClosure(@)]}
    OBVIOUS
  <2> HIDE DEF old, i
  <2>3. TCPs' \in [1..Sockets -> [state : {"CLOSED", "ESTABLISHED", "CLOSING_WAIT"}, unacked : BOOLEAN,
                                  callback : {"none", "pkcapt_close", "http_disconnetcb"}]]
    BY <1>0, <1>1, <2>1, <2>2, ConnectionTaken
  <2>4. TCPs'[i] = open("pkcapt_close")
    <3>1. DOMAIN old = 1..Sockets
      BY <1>0, <2>2 DEF Types
    <3> QED
      BY <1>1, <2>1, <3>1
  <2>5. stream' \in [1..Sockets -> Seq(Records)] /\ stream'[i] = <<>>
    BY <1>0, <1>1, <1>2, EmptySeq DEF Types
  <2>6. Types'
    BY <1>0, <1>1, <1>2, <2>1, <2>3, <2>5, HeaderAlone, ConstantsOK DEF Types
  <2>7. StreamIsPcap'
    <3>1. \A j \in 1..Sockets : Pcap(stream'[j])
      BY <1>0, <1>2, EmptyIsPcap, StreamsArePcap DEF IInv, StreamInv, Types
    <3>2. StreamIsPcap' <=> \A j \in 1..Sockets : Pcap(stream'[j])
      BY DEF StreamIsPcap, Pcap
    <3> QED
      BY <3>1, <3>2
  <2>8. (stream[gHandlingTCP] \o sendbuffer)' = <<Header>>
    BY <2>1, <2>5, HeaderAlone, ConcatEmptySeq
  <2>9. Goes'
    <3>1. <<Header>> # <<>> /\ Pcap(<<Header>>) /\ UpTo(<<Header>>, heard', now')
      BY <1>2, HeaderAlone
    <3> QED
      BY <2>8, <3>1 DEF Goes
  <2> QED
    BY <2>1, <2>4, <2>6, <2>7, <2>9 DEF StreamInv, CapturesOwnSocket
<1>4. CASE WebSyn
  <2>1. TCPs' = [TCPs EXCEPT ![i] = open("http_disconnetcb")] /\ g' = g /\ sendbuffer' = sendbuffer
    BY <1>4 DEF WebSyn, buffer
  <2> HIDE DEF i
  <2>2. TCPs' \in [1..Sockets -> [state : {"CLOSED", "ESTABLISHED", "CLOSING_WAIT"}, unacked : BOOLEAN,
                                  callback : {"none", "pkcapt_close", "http_disconnetcb"}]]
    BY <1>0, <1>1, <2>1, ConnectionTaken
  <2>3. Types'
    BY <1>0, <1>2, <2>1, <2>2, EmptySeq DEF Types
  <2>4. g # i
    BY <1>1, ConstantsOK DEF IInv, CapturesOwnSocket, None
  <2>5. CapturesOwnSocket'
    <3>1. g # None => g \in 1..Sockets
      BY <1>0, ConstantsOK DEF Types, None
    <3> QED
      BY <1>0, <2>1, <2>4, <3>1 DEF IInv, Types, CapturesOwnSocket
  <2>6. StreamInv'
    <3>1. /\ stream' \in {stream, [stream EXCEPT ![i] = <<>>]} /\ g' \in {g, None}
          /\ sendbuffer' = sendbuffer /\ (g' # None => g' # i \/ stream' = stream)
      BY <1>2, <2>1, <2>4
    <3>2. heard' \in Nat /\ now' \in Nat /\ now \in Nat /\ heard <= heard' /\ now <= now'
      BY <1>2
    <3> QED
      BY <1>0, <1>1, <3>1, <3>2, StreamLeft DEF IInv
  <2> QED
    BY <2>3, <2>5, <2>6
<1> QED
  BY <1>3, <1>4

(* A connection that ends, and time that passes.                           *)
LEMMA EndKeeps ==
  ASSUME IInv, NEW i \in 1..Sockets, Acknowledged(i) \/ Fin(i) \/ Rst(i) \/ GivenUp(i)
  PROVE  Types' /\ StreamInv' /\ CapturesOwnSocket'
<1>1. /\ TCPs' \in [1..Sockets -> [state : {"CLOSED", "ESTABLISHED", "CLOSING_WAIT"}, unacked : BOOLEAN,
                                   callback : {"none", "pkcapt_close", "http_disconnetcb"}]]
      /\ gHandlingTCP' \in {gHandlingTCP, None} /\ Others
      /\ stream' \in {stream, [stream EXCEPT ![i] = <<>>]}
      /\ CapturesOwnSocket' /\ (gHandlingTCP' # None => gHandlingTCP' # i \/ stream' = stream)
  BY SocketEnded DEF IInv
<1>2. UNCHANGED <<sendbuffer, cle, now, heard>> /\ now \in Nat /\ heard \in Nat
  BY <1>1 DEF Others, buffer, IInv, ClockInv, ClockTypes, Types
<1>3. StreamInv'
  BY <1>1, <1>2, StreamLeft DEF IInv
<1>4. stream' \in [1..Sockets -> Seq(Records)]
  BY <1>1, EmptySeq DEF IInv, Types
<1>5. Types'
  BY <1>1, <1>2, <1>4, ConstantsOK DEF IInv, Types, None
<1> QED
  BY <1>1, <1>3, <1>5

LEMMA PassKeeps ==
  ASSUME IInv, Pass \/ UNCHANGED vars
  PROVE  Types' /\ StreamInv' /\ CapturesOwnSocket'
<1>1. /\ UNCHANGED <<gHandlingTCP, sendbuffer, TCPs, stream, cle, heard>>
      /\ now \in Nat /\ now' \in Nat /\ now <= now' /\ heard \in Nat
  BY DEF Pass, vars, tcp, buffer, IInv, ClockInv, ClockTypes, Types
<1>2. Types' /\ CapturesOwnSocket' /\ StreamIsPcap'
  BY <1>1 DEF IInv, Types, StreamInv, CapturesOwnSocket, StreamIsPcap
<1>3. Goes'
  BY <1>1, UpToMore DEF IInv, StreamInv, Goes
<1> QED
  BY <1>2, <1>3 DEF StreamInv

(* What is added fits: a record by the test before it, the header alone.   *)
LEMMA FitsKeeps == BufferFits /\ [Next]_vars => BufferFits'
<1> SUFFICES ASSUME BufferFits, [Next]_vars PROVE BufferFits'
  OBVIOUS
<1> USE DEF BufferFits
<1>1. ASSUME NEW mac \in Macs, NEW length \in DataLengths, promisc_cb(mac, length) PROVE BufferFits'
  <2>1. CASE Fits(length) /\ sendtop' = sendtop + (Overhead + length)
    <3>1. Overhead \in Nat /\ length \in Nat /\ STORESIZE \in Nat
      BY ConstantsOK
    <3> QED
      BY <2>1, <3>1 DEF Fits
  <2> QED
    BY <1>1, <2>1 DEF promisc_cb, AddBL, buffer
<1>2. CASE HandleIncomingEthernetSyn
  BY <1>2, ConstantsOK DEF HandleIncomingEthernetSyn
<1>3. CASE TickPacketSet
  BY <1>3, ConstantsOK DEF TickPacketSet, buffer
<1>4. CASE WebSyn \/ Pass \/ UNCHANGED vars
  BY <1>4 DEF WebSyn, Pass, vars, buffer
<1>5. ASSUME NEW i \in 1..Sockets, Acknowledged(i) \/ Fin(i) \/ Rst(i) \/ GivenUp(i) PROVE BufferFits'
  BY <1>5 DEF Acknowledged, Fin, Rst, GivenUp, Others, buffer
<1> QED
  BY <1>1, <1>2, <1>3, <1>4, <1>5 DEF Next

LEMMA NextKeeps == IInv /\ [Next]_vars => IInv'
<1> SUFFICES ASSUME IInv, [Next]_vars PROVE IInv'
  OBVIOUS
<1>1. ClockInv'
  BY ClockKeeps DEF IInv
<1>2. TableInv'
  BY TableKeeps DEF IInv
<1>3. Types' /\ StreamInv' /\ CapturesOwnSocket'
  BY TickKeeps, HeardKeeps, SynKeeps, EndKeeps, PassKeeps DEF Next
<1>4. BufferFits'
  BY FitsKeeps DEF IInv
<1> QED
  BY <1>1, <1>2, <1>3, <1>4 DEF IInv
-----------------------------------------------------------------------------
(* The inductive invariant of the sniffer.                                 *)
THEOREM SnifferInvariant == Spec => []IInv
BY InitIInv, NextKeeps, PTL DEF Spec

(* Every variable has its type, and sendbuffer does not overflow whatever  *)
(* the radio hears while nobody, or a slow capture, empties it.            *)
THEOREM TypeCorrect == Spec => []TypeOK
<1>1. IInv => TypeOK
  <2> SUFFICES ASSUME IInv PROVE TypeOK
    OBVIOUS
  <2>1. ctl \in 0..Word-1
    BY ConstantsOK, DivMod DEF IInv, ClockInv, ClockTypes, ClockRead
  <2> QED
    BY <2>1 DEF IInv, Types, BufferFits, ClockInv, ClockTypes, TypeOK
<1> QED
  BY <1>1, SnifferInvariant, PTL

(* The capture of now is an open connection of its own, whatever became of *)
(* the ones before (pkcapt_close).                                         *)
THEOREM CaptureIsOpen == Spec => []CapturesOwnSocket
<1>1. IInv => CapturesOwnSocket
  BY DEF IInv
<1> QED
  BY <1>1, SnifferInvariant, PTL

(* What a capture gets is a pcap file (TickPacketSet, promisc_cb).         *)
THEOREM CaptureIsPcap == Spec => []StreamIsPcap
<1>1. IInv => StreamIsPcap
  BY DEF IInv, StreamInv
<1> QED
  BY <1>1, SnifferInvariant, PTL

(* The time of the records is the time since the start, for a clock and a  *)
(* sum of any width, as long as the tick runs once in a turn of the clock  *)
(* less a second (UpdateTime).                                             *)
THEOREM ClockIsKept == Spec => []TimeIsKept
<1>1. IInv => TimeIsKept
  BY DEF IInv, ClockInv
<1> QED
  BY <1>1, SnifferInvariant, PTL

(* No client is in the table twice (promisc_cb).                           *)
THEOREM ClientsOnce == Spec => []OneEntryEach
<1>1. IInv => OneEntryEach
  BY DEF IInv, TableInv
<1> QED
  BY <1>1, SnifferInvariant, PTL

(* The client that is dropped is the one not heard for longest, unless one *)
(* was not heard for a turn of the clock (promisc_cb).                     *)
THEOREM OldestIsDropped == Spec => DropsOldest
<1> DEFINE Dropped(e, m) == cle[e].mac = m /\ ~Listed(m)' /\ (\A f \in Entries : now - cle[f].at < Word)
<1>1. IInv /\ [Next]_vars => \A e \in Entries, m \in Macs : Dropped(e, m) => \A f \in Entries : cle[e].at <= cle[f].at
  <2> SUFFICES ASSUME IInv, [Next]_vars, NEW e \in Entries, NEW m \in Macs, Dropped(e, m), NEW f \in Entries
               PROVE  cle[e].at <= cle[f].at
    OBVIOUS
  <2>1. cle' # cle
    BY DEF Listed
  <2>2. PICK mac \in Macs, length \in DataLengths : promisc_cb(mac, length)
    BY <2>1 DEF Next, vars, TickPacketSet, HandleIncomingEthernetSyn, WebSyn, Pass, Acknowledged, Fin, Rst, GivenUp,
                Others
  <2>3. e = Match(mac) /\ m # mac
    <3> DEFINE k == Match(mac)
               new == [mac |-> mac, time |-> system_get_time, at |-> now]
    <3>1. cle' = [cle EXCEPT ![k] = new] /\ DOMAIN cle = Entries
      BY <2>2 DEF promisc_cb, IInv, Types
    <3> HIDE DEF k
    <3>2. \A x \in Entries : cle'[x] = IF x = k THEN new ELSE cle[x]
      BY <3>1
    <3>3. cle'[e].mac # m
      BY DEF Listed
    <3>4. e = k
      BY <3>2, <3>3
    <3>5. cle'[e].mac = mac
      BY <3>2, <3>4
    <3> QED
      BY <3>3, <3>4, <3>5 DEF k
  <2>4. Own(mac) = {}
    <3>1. Own(mac) # {} => cle[e].mac = mac
      BY <2>3, OwnMatches DEF Own
    <3> QED
      BY <2>3, <3>1
  <2>5. e = Oldest
    BY <2>3, <2>4 DEF Match
  <2>6. Since(cle[f].time) <= Since(cle[e].time)
    BY <2>5, OldestIsOldest DEF IInv
  <2>7. ASSUME NEW x \in Entries PROVE Since(cle[x].time) = now - cle[x].at /\ now - cle[x].at \in Int
    <3>1. cle[x].at \in 0..now /\ cle[x].time = cle[x].at % Word /\ now \in Nat /\ now - cle[x].at < Word
      BY DEF IInv, ClockInv, ClockTypes, TableInv, HeardAt
    <3> DEFINE a == cle[x].at
    <3>2. a \in Nat /\ a <= now /\ now \in Nat /\ now - a < Word /\ Word \in Nat \ {0}
      BY <3>1, ConstantsOK
    <3>3. Since(cle[x].time) = ((now % Word) - (a % Word)) % Word
      BY <3>1 DEF Since, system_get_time
    <3> HIDE DEF a
    <3>4. ((now % Word) - (a % Word)) % Word = now - a
      BY <3>2, ModOfDifference
    <3> QED
      BY <3>2, <3>3, <3>4 DEF a
  <2>8. now - cle[f].at <= now - cle[e].at
    BY <2>6, <2>7
  <2>9. now \in Nat /\ cle[e].at \in 0..now /\ cle[f].at \in 0..now
    BY DEF IInv, ClockInv, ClockTypes, TableInv, HeardAt
  <2> QED
    BY <2>8, <2>9
<1> QED
  BY <1>1, SnifferInvariant, PTL DEF Spec, DropsOldest
=============================================================================
