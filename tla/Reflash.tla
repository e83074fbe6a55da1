------------------------------- MODULE Reflash -------------------------------
(***************************************************************************)
(* Updating the firmware over the network: web/execute_reflash.c erases    *)
(* and writes two images into the upper half of the flash with commands    *)
(* FB and FW, each repeated until it is answered, and then asks with FM    *)
(* that the device verify them and copy them over the running program.     *)
(* The network loses, repeats, delays and reorders datagrams.              *)
(***************************************************************************)
EXTENDS FlashDevice

CONSTANTS
  Stage,        \* where the two files are pushed to, 0x80000 and 0xC0000
  App,          \* where they belong, 0 and 0x40000
  LastUpdate,   \* how often execute_reflash is run
  Length,       \* pages of both files, for the program that runs at first
                \* (0) and for each run of execute_reflash
  Zero,         \* a page of padding
  Exact,        \* of which files the length is a multiple of PADDING
  MaxTries,     \* 60 in the code
  MaxLate       \* bound: datagrams that come after their time

Updates == 1..LastUpdate

ASSUME ReflashConstantsOK ==
  /\ Stage \in [Parts -> Nat] /\ App \in [Parts -> Nat]
  /\ MaxTries \in Nat /\ MaxLate \in Nat /\ LastUpdate \in Nat \ {0}
  /\ Length \in [0..LastUpdate -> [Parts -> Nat \ {0}]]
  /\ Exact \subseteq Updates \X Parts /\ Zero \in Pages
  /\ \A u \in 0..LastUpdate, f \in Parts : \A k \in 0..Length[u][f]-1 : <<u, f, k>> \in Pages

(* Where the host puts the files, by blocks, and that the second one fits  *)
(* between its place and where the files are pushed.  Nothing is assumed   *)
(* of the first, but that the program there at first is one.               *)
ASSUME PlacesOK ==
  /\ \A f \in Parts : Stage[f] % BlockPages = 0 /\ App[f] % BlockPages = 0
  /\ App[1] < App[2] /\ App[2] < Stage[1] /\ Stage[1] < Stage[2] /\ Stage[1] <= FlashPages
  /\ Stage[2] - Stage[1] = App[2] - App[1]
  /\ App[1] + Length[0][1] <= App[2]
  /\ \A u \in 0..LastUpdate : App[2] + Length[u][2] <= Stage[1]

(* The flash is at least twice the half the program runs in.  Nothing of   *)
(* the program's safety rests on it, but what is pushed must be somewhere. *)
ASSUME StageOnFlash == Stage[1] + Stage[1] <= FlashPages + App[1]

VARIABLES
  update,       \* which run of execute_reflash
  phase,        \* what the host waits for: "erase", "write"; or "ended"
  file, page,   \* the page at hand, `devo` of the file
  lastblock,    \* the block erased last
  tries,        \* how often the command at hand was sent
  requests,     \* every datagram to the device so far
  replies,      \* every answer to this run of the host
  late          \* history: datagrams taken after their time

hostVars == <<update, phase, file, page, lastblock, tries>>
vars     == <<deviceVars, hostVars, requests, replies, late>>

(* Page k of a file, and the pages Push sends: where the length is a       *)
(* multiple of PADDING, the end of the file is found one page later.       *)
Data(u, f, k) == IF k < Length[u][f] THEN <<u, f, k>> ELSE Zero
Pushed(u, f)  == IF <<u, f>> \in Exact THEN Length[u][f] + 1 ELSE Length[u][f]

Place  == Stage[file] + page
Block  == Place \div BlockPages

Image(u, f) == [k \in 0..Length[u][f]-1 |-> Data(u, f, k)]
FM(u) == [from |-> Stage, to |-> App, size |-> Length[u], md5 |-> [f \in Parts |-> Image(u, f)]]

(* The command at hand.  `on` tells which page it is for.                  *)
AtHand ==
  IF phase = "erase"
  THEN [op |-> "FB", at |-> Block, data |-> Erased, on |-> <<update, file, page>>]
  ELSE [op |-> "FW", at |-> Place, data |-> Data(update, file, page), on |-> <<update, file, page>>]

Go(u) == [op |-> "FM", at |-> 0, data |-> Erased, on |-> <<u, 0, 0>>]

InTime(r) == (phase # "ended" /\ r = AtHand) \/ r = Go(update)
Count(inTime) == late' = IF inTime THEN late ELSE late + 1

Init ==
  /\ flash = [a \in Addr |-> IF \E f \in Parts : a - App[f] \in 0..Length[0][f]-1
                             THEN LET f == CHOOSE f \in Parts : a - App[f] \in 0..Length[0][f]-1
                                  IN  <<0, f, a - App[f]>>
                             ELSE Mixed]
  /\ pc = "idle" /\ cmd = NoCommand /\ part = 1 /\ i = 0 /\ j = 0 /\ was = flash
  /\ update = 1 /\ phase = "erase" /\ file = 1 /\ page = 0 /\ lastblock = -1 /\ tries = 0
  /\ requests = {} /\ replies = {} /\ late = 0
-----------------------------------------------------------------------------
(* The host sends a command, again if no answer came for 100 ms.           *)
Ask ==
  /\ phase # "ended" /\ tries < MaxTries
  /\ tries' = tries + 1
  /\ requests' = requests \cup {AtHand}
  /\ UNCHANGED <<deviceVars, update, phase, file, page, lastblock, replies, late>>

GiveUp ==
  /\ phase # "ended" /\ tries = MaxTries
  /\ phase' = "ended"
  /\ UNCHANGED <<deviceVars, update, file, page, lastblock, tries, requests, replies, late>>

(* The answer, which names the command and its address only.               *)
Answered ==
  \E r \in replies :
    /\ r.op = AtHand.op /\ r.at = AtHand.at
    /\ r.on = AtHand.on \/ late < MaxLate
    /\ Count(r.on = AtHand.on)

Erasing(f, k, last) == IF (Stage[f] + k) \div BlockPages = last THEN "write" ELSE "erase"

BlockErased ==
  /\ phase = "erase" /\ tries > 0 /\ Answered
  /\ phase' = "write" /\ lastblock' = Block /\ tries' = 0
  /\ UNCHANGED <<deviceVars, update, file, page, requests, replies>>

(* The file has another page (not feof).                                   *)
More == page + 1 < Pushed(update, file)

(* `lastblock` as each Push begins.  Mutant: the block erased last for one *)
(* file counts for the next.                                               *)
LastBlockKept == lastblock
NoLastBlock   == -1

(* The next page, the next file, or, when both are pushed, FM.             *)
Advance ==
  \/ /\ More
     /\ page' = page + 1 /\ phase' = Erasing(file, page + 1, lastblock)
     /\ UNCHANGED <<file, lastblock, requests>>
  \/ /\ ~More /\ file = 1
     /\ file' = 2 /\ page' = 0 /\ lastblock' = NoLastBlock /\ phase' = Erasing(2, 0, NoLastBlock)
     /\ UNCHANGED requests
  \/ /\ ~More /\ file = 2
     /\ phase' = "ended" /\ requests' = requests \cup {Go(update)}
     /\ UNCHANGED <<file, page, lastblock>>

Written ==
  /\ phase = "write" /\ tries > 0 /\ Answered
  /\ Advance
  /\ tries' = 0
  /\ UNCHANGED <<deviceVars, update, replies>>

(* execute_reflash is run once more, with other files.                     *)
RunAgain ==
  /\ phase = "ended" /\ update + 1 \in Updates
  /\ update' = update + 1
  /\ phase' = "erase" /\ file' = 1 /\ page' = 0 /\ lastblock' = -1 /\ tries' = 0
  /\ replies' = {}
  /\ UNCHANGED <<deviceVars, requests, late>>
-----------------------------------------------------------------------------
(* A datagram gets to the device: the first time, again, or late.          *)
Deliver(r) ==
  /\ r \in requests
  /\ InTime(r) \/ late < MaxLate
  /\ \/ r.op = "FB" /\ EraseBlock(r.at)
     \/ r.op = "FW" /\ WritePage(r.at, r.data)
     \/ r.op = "FM" /\ Rewrite(FM(r.on[1]))
     \/ r.op = "FM" /\ pc = "idle" /\ Verify(FM(r.on[1])) # 0 /\ Refuse
  /\ Count(InTime(r))
  /\ replies' = IF r.on[1] = update /\ r.op # "FM"
                THEN replies \cup {[op |-> r.op, at |-> r.at, on |-> r.on]} ELSE replies
  /\ UNCHANGED <<hostVars, requests>>

Copy == (CopyErase \/ CopyWrite) /\ UNCHANGED <<hostVars, requests, replies, late>>

Next ==
  \/ Ask \/ GiveUp \/ BlockErased \/ Written \/ RunAgain
  \/ \E r \in requests : Deliver(r)
  \/ Copy

Spec == Init /\ [][Next]_vars
-----------------------------------------------------------------------------
Requests ==
  [op : {"FB", "FW", "FM"}, at : Nat, data : Content, on : Updates \X (0..2) \X Nat]

(* Every variable has its type.                                            *)
TypeOK ==
  /\ flash \in [Addr -> Content] /\ was \in [Addr -> Content]
  /\ pc \in {"idle", "erase", "write"} /\ part \in Parts /\ i \in Nat /\ j \in 0..BlockSectors-1
  /\ cmd \in {NoCommand} \cup {FM(u) : u \in Updates}
  /\ update \in Updates /\ phase \in {"erase", "write", "ended"}
  /\ file \in Parts /\ page \in 0..Pushed(update, file)-1 /\ tries \in 0..MaxTries
  /\ lastblock \in Nat \cup {-1} /\ late \in 0..MaxLate
  /\ requests \subseteq Requests
  /\ \A r \in replies : r.op \in {"FB", "FW"} /\ r.at \in Nat /\ r.on[1] = update

(* Whatever the network does, and whatever the host pushed, pushed half or *)
(* pushed over, the device is left with one whole program: the one it had  *)
(* or both files of the same run of execute_reflash.                       *)
Runs(u) == \A f \in Parts : \A k \in 0..Length[u][f]-1 : flash[App[f] + k] = <<u, f, k>>
WholeProgram == pc = "idle" => \E u \in 0..update : Runs(u)

(* What the host was told is written is there when it sends FM, as long as *)
(* nothing came late and the first file does not run into the second.      *)
PushedIsStaged ==
  Go(update) \in requests /\ late = 0 /\ Stage[1] + Length[update][1] <= Stage[2]
    => \A f \in Parts : Matches(FM(update), f)
=============================================================================
