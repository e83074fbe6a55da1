----------------------------- MODULE HttpServer -----------------------------
(***************************************************************************)
(* The web server (common/http.c), what it calls for a dynamic page or a   *)
(* websocket (common/http_custom.c), and the files it serves               *)
(* (common/mfs.c).  A slot of HTTPConnections keeps everything but what    *)
(* a handler happens to overwrite when it goes from one connection to the  *)
(* next, so the model keeps it too.                                        *)
(*                                                                         *)
(* Text is a sequence of tokens: a path and a line of no interest are one  *)
(* token each; "key" and "val" are the header line a websocket needs;      *)
(* "head" and "tail" are the two halves of a websocket frame.  TCP         *)
(* delivers the text in order, cut anywhere.                               *)
(***************************************************************************)
EXTENDS Integers, SequencesExt

CONSTANTS
  HTTP_CONNECTIONS, HTTP_SERVER_TIMEOUT, MFS_SECTOR,
  Word,          \* the values of timeout, which is a uint16_t
  Directory,     \* the file system: a sequence of [name, len]
  Asked,         \* the paths clients ask for
  MaxRequests,   \* bound: requests and websocket messages in a behaviour
  MaxConnects,   \* bound: connections in a behaviour
  Kinds          \* over which interfaces: a subset of {"eth", "wifi"}

Conns == 1..HTTP_CONNECTIONS
None  == 0

WsPaths  == {"/d/ws/echo", "/d/ws/evaltest", "/d/ws/issue", "/d/ws/other"}
DynPaths == {"/d/huge", "/d/echo?", "/d/issue?", "/d/other"}
Unknown  == -2     \* bytesleft 0xfffffffe
Endless  == -1     \* bytesleft 0xffffffff

ASSUME ConstantsOK ==
  /\ HTTP_CONNECTIONS \in Nat /\ HTTP_SERVER_TIMEOUT \in Nat /\ MFS_SECTOR \in Nat \ {0}
  /\ Word \in Nat /\ HTTP_SERVER_TIMEOUT + 1 < Word
  /\ Directory \in Seq([name : STRING, len : Nat])
  /\ MaxRequests \in Nat /\ MaxConnects \in Nat /\ Kinds \subseteq {"eth", "wifi"}

VARIABLES
  HTTPConnections,    \* the slots, each with its link, see Fresh
  text,               \* per slot: what its client sent and TCP did not deliver
  curhttp, curdata,   \* the slot whose data are being handled, what is left of them
  requests, connects

vars == <<HTTPConnections, text, curhttp, curdata, requests, connects>>

(* What a connection that is opened sets; timeout is not among it.  `page` *)
(* (the packets of this request), `idle` (ticks that found the connection  *)
(* waiting since it was opened or data came) and `last` (the last of these *)
(* that happened to it: data came, the server closed it) are history.      *)
Fresh(h, kind) ==
  [h EXCEPT !.state = "WAIT_METHOD", !.link = kind, !.unsent = FALSE,
            !.page = <<>>, !.idle = 0, !.last = "nothing"]

Blank ==
  [state |-> "NONE", state_deets |-> 0, path |-> "", is_dynamic |-> FALSE, timeout |-> 0,
   rcb |-> "none", rcbDat |-> "none", bytesleft |-> 0, bytessofar |-> 0, filelen |-> 0,
   is404 |-> FALSE, isdone |-> FALSE, isfirst |-> FALSE, keep_alive |-> FALSE,
   link |-> "none", unsent |-> FALSE, page |-> <<>>, idle |-> 0, last |-> "nothing"]

Init ==
  /\ HTTPConnections = [i \in Conns |-> Blank]
  /\ text = [i \in Conns |-> <<>>]
  /\ curhttp = None /\ curdata = <<>>
  /\ requests = 0 /\ connects = 0
-----------------------------------------------------------------------------
(* One endless page is kept as one packet of it.                           *)
EndTCPWrite(h, packet) ==
  [h EXCEPT !.unsent = TRUE,
            !.page = IF @ # <<>> /\ Last(@) = packet /\ packet.what = "huge" THEN @ ELSE Append(@, packet)]
Packet(what, from, to) == [what |-> what, from |-> from, to |-> to]

TCPCanSend(h) == ~h.unsent

(* The disconnect callback comes at once on Ethernet, later on Wi-Fi.      *)
http_disconnetcb(h) == [h EXCEPT !.state = "NONE", !.link = "none", !.last = "nothing"]
HTTPClose(h) ==
  IF h.link = "eth" THEN [http_disconnetcb(h) EXCEPT !.last = "closed"]
  ELSE [h EXCEPT !.state = "WAIT_CLOSE", !.link = "closing", !.last = "closed"]

(* The first entry of that name.                                           *)
Entries(name) == {n \in DOMAIN Directory : Directory[n].name = name}
MFSOpenFile(h, name) ==
  [h EXCEPT !.filelen = Directory[CHOOSE n \in Entries(name) : \A m \in Entries(name) : n <= m].len]

Least(a, b) == IF a <= b THEN a ELSE b

(* Up to four sectors go into one packet.  Mutant: three are skipped.      *)
SectorsSkip(h) ==
  LET n == Least(h.bytesleft, 4 * MFS_SECTOR)
  IN  [EndTCPWrite(h, Packet("data", h.filelen - h.bytesleft, h.filelen - h.bytesleft + Least(n, MFS_SECTOR)))
         EXCEPT !.bytesleft = @ - n, !.isdone = h.bytesleft = n]
Sectors(h) ==
  LET n    == Least(h.bytesleft, 4 * MFS_SECTOR)
      from == h.filelen - h.bytesleft
  IN  [EndTCPWrite(h, Packet("data", from, from + n)) EXCEPT !.bytesleft = @ - n, !.isdone = h.bytesleft = n]

HTTPHandleInternalCallback(h) ==
  CASE h.isdone  -> HTTPClose(h)
    [] ~h.isdone /\ h.is404 -> [EndTCPWrite(h, Packet("404", 0, 0)) EXCEPT !.isdone = TRUE]
    [] ~h.isdone /\ ~h.is404 /\ h.isfirst ->
         [EndTCPWrite(h, Packet("200", 0, h.bytesleft)) EXCEPT !.keep_alive = h.bytesleft >= 0, !.isfirst = FALSE]
    [] OTHER -> Sectors(h)

(* A dynamic page sends its header from the receive callback.              *)
HTTPCustomStart(h) ==
  HTTPHandleInternalCallback([h EXCEPT
    !.rcb = CASE h.path = "/d/huge" -> "huge" [] h.path = "/d/echo?" -> "echo"
              [] h.path = "/d/issue?" -> "issue" [] OTHER -> "none",
    !.bytesleft = CASE h.path = "/d/huge" -> Endless [] h.path \in {"/d/echo?", "/d/issue?"} -> Unknown
                    [] OTHER -> 0,
    !.isfirst = TRUE])

(* Mutant: isdone keeps the value the last page left.                      *)
InternalStartStale(h) ==
  LET new  == [h EXCEPT !.isfirst = TRUE, !.is404 = FALSE, !.page = <<>>]
      name == IF h.path = "" THEN "index.html" ELSE h.path
  IN  IF h.path \in DynPaths THEN HTTPCustomStart([new EXCEPT !.is_dynamic = TRUE])
      ELSE IF Entries(name) = {} THEN [new EXCEPT !.is404 = TRUE, !.is_dynamic = FALSE, !.bytessofar = 0]
      ELSE LET f == MFSOpenFile(new, name)
           IN  [f EXCEPT !.bytesleft = f.filelen, !.is_dynamic = FALSE, !.bytessofar = 0]
InternalStartHTTP(h) ==
  LET new  == [h EXCEPT !.isfirst = TRUE, !.isdone = FALSE, !.is404 = FALSE, !.page = <<>>]
      name == IF h.path = "" THEN "index.html" ELSE h.path
  IN  IF h.path \in DynPaths THEN HTTPCustomStart([new EXCEPT !.is_dynamic = TRUE])
      ELSE IF Entries(name) = {} THEN [new EXCEPT !.is404 = TRUE, !.is_dynamic = FALSE, !.bytessofar = 0]
      ELSE LET f == MFSOpenFile(new, name)
           IN  [f EXCEPT !.bytesleft = f.filelen, !.is_dynamic = FALSE, !.bytessofar = 0]

(* huge(), echo() and issue(); a command may have no answer.               *)
HTTPCustomCallback(h, answers) ==
  LET closing(g) == [g EXCEPT !.state = "WAIT_CLOSE"]
  IN  CASE h.rcb = "none"  -> [h EXCEPT !.isdone = TRUE]
        [] h.rcb = "huge"  -> EndTCPWrite(h, Packet("huge", 0, 0))
        [] h.rcb = "echo"  -> closing(EndTCPWrite(h, Packet("echo", 0, 0)))
        [] h.rcb = "issue" -> closing(IF answers THEN EndTCPWrite(h, Packet("issue", 0, 0)) ELSE h)
-----------------------------------------------------------------------------
(* An unknown path only sets is404, which nothing reads here.  Mutant: the *)
(* callback of an earlier page stays.                                      *)
NewWebSocketKeeps(h) ==
  LET dat == CASE h.path = "/d/ws/echo" -> "echo" [] h.path = "/d/ws/evaltest" -> "eval"
               [] h.path = "/d/ws/issue" -> "issue" [] OTHER -> "none"
  IN  IF dat = "none" THEN [h EXCEPT !.is404 = TRUE] ELSE [h EXCEPT !.rcbDat = dat]
NewWebSocket(h) ==
  LET dat == CASE h.path = "/d/ws/echo" -> "echo" [] h.path = "/d/ws/evaltest" -> "eval"
               [] h.path = "/d/ws/issue" -> "issue" [] OTHER -> "none"
  IN  IF dat = "none" THEN [h EXCEPT !.is404 = TRUE] ELSE [h EXCEPT !.rcb = "none", !.rcbDat = dat]

(* The key must be in what is left of this segment, and its line must end  *)
(* in it.  A search that fails leaves the last 20 characters of the segment*)
(* unread, the token `from` and those after it.                            *)
KeyAt(rest) == {k \in 2..Len(rest) - 4 : SubSeq(rest, k, k+2) = <<"key", "val", "\r">>}
FindKey(h, rest, from) ==
  IF KeyAt(rest) = {}
  THEN [h |-> [h EXCEPT !.is_dynamic = TRUE, !.state = "WAIT_CLOSE"],
        rest |-> SubSeq(rest, from, Len(rest))]
  ELSE LET k == CHOOSE k \in KeyAt(rest) : TRUE
       IN  [h |-> [NewWebSocket([h EXCEPT !.is_dynamic = TRUE, !.bytessofar = 0, !.bytesleft = 0])
                     EXCEPT !.state_deets = 1, !.page = <<>>],
            rest |-> SubSeq(rest, k + 3, Len(rest))]

(* The end of the header: an empty line.                                   *)
HeaderEnd(deets, c) ==
  CASE deets = 1 -> IF c = "\n" THEN 2 ELSE 1
    [] deets = 2 -> IF c = "\r" THEN 3 ELSE 1
    [] deets = 3 -> IF c = "\n" THEN 4 ELSE 1
    [] OTHER -> deets

WebSocketSend(h, what) == EndTCPWrite(h, Packet("frame", what, 0))
WebSocketData(h) ==
  CASE h.rcbDat = "none"  -> h
    [] h.rcbDat = "eval"  -> WebSocketSend([h EXCEPT !.bytessofar = @ + 1], h.bytessofar)
    [] OTHER -> WebSocketSend(h, 0)

(* A whole frame is a message.  A frame whose end is not there is given up *)
(* with the connection; but if fewer than five of its characters are there *)
(* they are passed over, and what comes next is taken for a frame, whatever*)
(* it is.  The 16 bit length of a frame of more than 125 bytes makes       *)
(* curlen wrap if the header is not whole: it is then taken for whole.     *)
Established(h, c, rest, fate) ==
  IF c = "head" /\ rest # <<>> /\ Head(rest) = "tail"
  THEN [h |-> WebSocketData(h), rest |-> Tail(rest)]
  ELSE CASE fate = "pass"  -> [h |-> h, rest |-> rest]
         [] fate = "close" -> [h |-> [h EXCEPT !.state = "WAIT_CLOSE"], rest |-> rest]
         [] fate = "take"  -> [h |-> WebSocketData(h), rest |-> rest]

WebSocketGotData(h, c, rest, fate, from) ==
  CASE h.state_deets = 0 -> FindKey(h, rest, from)
    [] h.state_deets = 5 -> Established(h, c, rest, fate)
    [] OTHER -> [h |-> [h EXCEPT !.state_deets = HeaderEnd(@, c)], rest |-> rest]

(* Callbacks registered for a page live on in a websocket of an unknown    *)
(* path.                                                                   *)
WebSocketTickInternal(h, answers) ==
  CASE h.state_deets = 4 -> [EndTCPWrite(h, Packet("101", 0, 0)) EXCEPT !.state_deets = 5, !.keep_alive = FALSE]
    [] h.state_deets = 5 /\ h.rcb # "none" -> HTTPCustomCallback(h, answers)
    [] OTHER -> h
-----------------------------------------------------------------------------
(* One character of HTTPGotData, in each state.                            *)
Is(s) == curhttp # None /\ curdata # <<>> /\ HTTPConnections[curhttp].state = s
C == Head(curdata)
Got(h, rest) ==
  /\ HTTPConnections' = [HTTPConnections EXCEPT ![curhttp] = h]
  /\ curdata' = rest
  /\ UNCHANGED <<text, curhttp, requests, connects>>
H == HTTPConnections[curhttp]
Rest == Tail(curdata)

WaitMethod ==
  /\ Is("WAIT_METHOD")
  /\ Got(IF C = " " THEN [H EXCEPT !.state = "WAIT_PATH", !.path = "", !.state_deets = 0] ELSE H, Rest)

(* A path in pieces, or a longer one, is one that nobody knows.            *)
WaitPath ==
  /\ Is("WAIT_PATH")
  /\ Got(CASE C # " " -> [H EXCEPT !.path = IF @ = "" /\ C \in Asked THEN C ELSE "?", !.state_deets = 1]
           [] C = " " /\ H.path \in WsPaths -> [H EXCEPT !.state = "DATA_WEBSOCKET", !.state_deets = 0]
           [] OTHER -> [H EXCEPT !.state = "WAIT_PROTO", !.state_deets = 0], Rest)

WaitProto ==
  /\ Is("WAIT_PROTO")
  /\ Got(IF C = "\n" THEN [H EXCEPT !.state = "WAIT_FLAG"] ELSE H, Rest)

WaitFlag ==
  /\ Is("WAIT_FLAG")
  /\ Got(CASE C = "\n" -> InternalStartHTTP([H EXCEPT !.state = "DATA_XFER"])
           [] C = "\r" -> H
           [] OTHER -> [H EXCEPT !.state = "WAIT_INFLAG"], Rest)

WaitInflag ==
  /\ Is("WAIT_INFLAG")
  /\ Got(IF C = "\n" THEN [H EXCEPT !.state = "WAIT_FLAG", !.state_deets = 0] ELSE H, Rest)

(* Whatever follows a request is dropped, another request too.             *)
DataXfer == Is("DATA_XFER") /\ Got(H, <<>>)

DataWebsocket ==
  /\ Is("DATA_WEBSOCKET")
  /\ \E fate \in {"pass", "close", "take"}, from \in {1} \cup DOMAIN Rest :
       LET w == WebSocketGotData(H, C, Rest, fate, from) IN Got(w.h, w.rest)

WaitClose ==
  /\ Is("WAIT_CLOSE")
  /\ Got(IF H.keep_alive THEN [H EXCEPT !.state = "WAIT_METHOD"] ELSE HTTPClose(H), Rest)

NoState == Is("NONE") /\ Got(H, Rest)

HTTPGotData ==
  \/ WaitMethod \/ WaitPath \/ WaitProto \/ WaitFlag \/ WaitInflag
  \/ DataXfer \/ DataWebsocket \/ WaitClose \/ NoState

Return ==
  /\ curhttp # None /\ curdata = <<>> /\ curhttp' = None
  /\ UNCHANGED <<HTTPConnections, text, curdata, requests, connects>>

(* A segment arrives: some of what the client sent.  Mutant: the timeout   *)
(* is not set back.                                                        *)
RecvKeepsTime(i, n) ==
  /\ curhttp = None /\ HTTPConnections[i].link # "none"
  /\ curhttp' = i /\ curdata' = SubSeq(text[i], 1, n)
  /\ text' = [text EXCEPT ![i] = SubSeq(@, n+1, Len(@))]
  /\ HTTPConnections' = [HTTPConnections EXCEPT ![i].idle = 0, ![i].last = "data"]
  /\ UNCHANGED <<requests, connects>>
http_recvcb(i, n) ==
  /\ curhttp = None /\ HTTPConnections[i].link # "none"
  /\ curhttp' = i /\ curdata' = SubSeq(text[i], 1, n)
  /\ text' = [text EXCEPT ![i] = SubSeq(@, n+1, Len(@))]
  /\ HTTPConnections' = [HTTPConnections EXCEPT ![i].timeout = 0, ![i].idle = 0, ![i].last = "data"]
  /\ UNCHANGED <<requests, connects>>
-----------------------------------------------------------------------------
(* DoHTTP for one slot.  Mutant: WAIT_CLOSE is left to the timeout.        *)
TimedOut(h) == h.timeout > HTTP_SERVER_TIMEOUT
Waits(h)  == h.state \in {"WAIT_METHOD", "WAIT_PATH", "WAIT_PROTO", "WAIT_FLAG", "WAIT_INFLAG"}
Ticked(h) ==
  [h EXCEPT !.timeout = (@ + 1) % Word, !.idle = Least(@ + 1, HTTP_SERVER_TIMEOUT + 2)]
(* Mutant: only a count that has just passed the limit closes.             *)
TimedOnce(h) == IF h.timeout = HTTP_SERVER_TIMEOUT + 1 THEN HTTPClose(Ticked(h)) ELSE Ticked(h)
Timed(h)     == IF TimedOut(h) THEN HTTPClose(Ticked(h)) ELSE Ticked(h)

DoHTTPForgets(h, timed, answers) ==
  CASE h.state = "DATA_XFER" /\ TCPCanSend(h) ->
         IF h.is_dynamic THEN HTTPCustomCallback(h, answers) ELSE HTTPHandleInternalCallback(h)
    [] h.state = "DATA_WEBSOCKET" /\ TCPCanSend(h) -> WebSocketTickInternal(h, answers)
    [] Waits(h) /\ timed -> Timed(h)
    [] OTHER -> h
DoHTTP(h, timed, answers) ==
  CASE h.state = "DATA_XFER" /\ TCPCanSend(h) ->
         IF h.is_dynamic THEN HTTPCustomCallback(h, answers) ELSE HTTPHandleInternalCallback(h)
    [] h.state = "WAIT_CLOSE" /\ TCPCanSend(h) ->
         IF h.keep_alive THEN [h EXCEPT !.state = "WAIT_METHOD"] ELSE HTTPClose(h)
    [] h.state = "DATA_WEBSOCKET" /\ TCPCanSend(h) -> WebSocketTickInternal(h, answers)
    [] Waits(h) /\ timed -> Timed(h)
    [] OTHER -> h

HTTPTick(timed) ==
  /\ curhttp = None
  /\ \E answers \in BOOLEAN :
       HTTPConnections' = [i \in Conns |-> DoHTTP(HTTPConnections[i], timed, answers)]
  /\ UNCHANGED <<text, curhttp, curdata, requests, connects>>

(* The first slot that is free.  A connection that finds none is closed.   *)
httpserver_connectcb(kind) ==
  /\ curhttp = None /\ connects < MaxConnects
  /\ \E i \in Conns :
       /\ HTTPConnections[i].state = "NONE"
       /\ \A j \in 1..i-1 : HTTPConnections[j].state # "NONE"
       /\ HTTPConnections' = [HTTPConnections EXCEPT ![i] = Fresh(@, kind)]
       /\ text' = [text EXCEPT ![i] = <<>>]
  /\ connects' = connects + 1
  /\ UNCHANGED <<curhttp, curdata, requests>>

(* The peer ends the connection, or Wi-Fi has ended it.                    *)
Disconnected(i) ==
  /\ curhttp = None /\ HTTPConnections[i].link # "none"
  /\ HTTPConnections' = [HTTPConnections EXCEPT ![i] = http_disconnetcb(@)]
  /\ UNCHANGED <<text, curhttp, curdata, requests, connects>>
-----------------------------------------------------------------------------
(* The client, and TCP under it.                                           *)
Request(p) ==
  <<".", " ", p, " ", ".", "\n">> \o
  (IF p \in WsPaths THEN <<"key", "val", "\r", "\n">> ELSE <<".", "\n">>) \o <<"\r", "\n">>

ClientSends(i) ==
  /\ curhttp = None /\ HTTPConnections[i].link \in {"eth", "wifi"} /\ requests < MaxRequests
  /\ \E t \in {Request(p) : p \in Asked} \cup
              IF HTTPConnections[i].state_deets = 5 THEN {<<"head", "tail">>} ELSE {} :
       text' = [text EXCEPT ![i] = @ \o t]
  /\ requests' = requests + 1
  /\ UNCHANGED <<HTTPConnections, curhttp, curdata, connects>>

Acknowledged(i) ==
  /\ curhttp = None /\ HTTPConnections[i].unsent
  /\ HTTPConnections' = [HTTPConnections EXCEPT ![i].unsent = FALSE]
  /\ UNCHANGED <<text, curhttp, curdata, requests, connects>>

Received(i) == \E n \in 1..Len(text[i]) : http_recvcb(i, n)

Next ==
  \/ HTTPGotData \/ Return
  \/ \E timed \in BOOLEAN : HTTPTick(timed)
  \/ \E kind \in Kinds : httpserver_connectcb(kind)
  \/ \E i \in Conns : Received(i) \/ Disconnected(i) \/ ClientSends(i) \/ Acknowledged(i)

Spec == Init /\ [][Next]_vars

(* The tick goes on, callbacks return, TCP acknowledges what was sent, and *)
(* a disconnect that was asked for happens.                                *)
FairSpec ==
  /\ Spec /\ WF_vars(HTTPGotData \/ Return) /\ WF_vars(HTTPTick(TRUE))
  /\ \A i \in Conns : /\ WF_vars(Acknowledged(i))
                      /\ WF_vars(HTTPConnections[i].link = "closing" /\ Disconnected(i))
-----------------------------------------------------------------------------
Slot ==
  [state : {"NONE", "WAIT_METHOD", "WAIT_PATH", "WAIT_PROTO", "WAIT_FLAG", "WAIT_INFLAG",
            "DATA_XFER", "DATA_WEBSOCKET", "WAIT_CLOSE"},
   state_deets : 0..5, path : Asked \cup {"", "?"}, is_dynamic : BOOLEAN,
   timeout : 0..Word-1, rcb : {"none", "huge", "echo", "issue"},
   rcbDat : {"none", "echo", "eval", "issue"}, bytesleft : {Unknown, Endless} \cup Nat, bytessofar : Nat,
   filelen : Nat, is404 : BOOLEAN, isdone : BOOLEAN, isfirst : BOOLEAN, keep_alive : BOOLEAN,
   link : {"none", "eth", "wifi", "closing"}, unsent : BOOLEAN,
   page : Seq([what : {"200", "404", "101", "data", "huge", "echo", "issue", "frame"},
               from : Nat, to : {Unknown, Endless} \cup Nat]),
   idle : 0..HTTP_SERVER_TIMEOUT+2, last : {"nothing", "data", "closed"}]

(* Every variable has its type.                                            *)
TypeOK ==
  /\ HTTPConnections \in [Conns -> Slot]
  /\ curhttp \in Conns \cup {None}
  /\ requests \in 0..MaxRequests /\ connects \in 0..MaxConnects

(* A page is sent in order and without a gap: its header first, with the   *)
(* length of the file, then the file from its start, whatever page or      *)
(* websocket the slot served before (HTTPHandleInternalCallback).          *)
PageInOrder ==
  \A i \in Conns : LET page == HTTPConnections[i].page IN
    \A k \in DOMAIN page : page[k].what = "data" =>
      /\ k > 1 /\ page[1].what = "200" /\ page[k].to <= page[1].to
      /\ page[k].from = IF k = 2 THEN 0 ELSE page[k-1].to

(* The server ends a connection that asked for a file only when all of the *)
(* file was sent after its header, or the 404                              *)
(* (HTTPHandleInternalCallback, HTTPClose).                                *)
ClosedWhenWhole ==
  [][\A i \in Conns : LET h == HTTPConnections[i]  page == h.page IN
       h.state = "DATA_XFER" /\ ~h.is_dynamic
         /\ HTTPConnections'[i].state # "DATA_XFER" /\ HTTPConnections'[i].last = "closed" =>
           \/ page = <<Packet("404", 0, 0)>>
           \/ /\ Len(page) > 1 /\ page[1].what = "200"
              /\ Last(page).what = "data" /\ Last(page).to = page[1].to]_vars

(* A page or websocket of a known path has the callback of that path, not  *)
(* one that an earlier page of the slot registered (http_custom.c).        *)
OwnCallback ==
  \A i \in Conns : LET h == HTTPConnections[i] IN
    /\ h.state = "DATA_XFER" /\ h.is_dynamic =>
         (h.rcb = "huge" <=> h.path = "/d/huge") /\ (h.rcb = "issue" <=> h.path = "/d/issue?")
    /\ h.state = "DATA_WEBSOCKET" /\ h.state_deets > 0 /\ h.path \in WsPaths \ {"/d/ws/other"} =>
         h.rcb = "none" /\ (h.rcbDat = "issue" <=> h.path = "/d/ws/issue")

(* A connection on which something came is closed for being idle only when *)
(* more than HTTP_SERVER_TIMEOUT ticks found it waiting, counted from the  *)
(* last data (DoHTTP).  Of one on which nothing came yet this is not true: *)
(* the slot keeps the count of the connection before.                      *)
ClosedWhenIdle ==
  [][\A i \in Conns : LET h == HTTPConnections[i] IN
       Waits(h) /\ curhttp = None /\ h.link # "closing" /\ h.last = "data"
         /\ ~Waits(HTTPConnections'[i]) /\ HTTPConnections'[i].last = "closed" =>
           h.idle > HTTP_SERVER_TIMEOUT]_vars

(* A client that falls silent, or never says anything, is closed at the    *)
(* latest by tick HTTP_SERVER_TIMEOUT + 2 that finds it waiting, whatever  *)
(* count its slot was left with, and though the count wraps (DoHTTP).      *)
ClosedInTime ==
  \A i \in Conns : LET h == HTTPConnections[i] IN
    Waits(h) /\ h.link # "closing" => h.idle <= HTTP_SERVER_TIMEOUT + 1

(* Every connection comes to an end, by itself, but for a websocket, an    *)
(* endless page, and an unknown page under /d/, which is answered and      *)
(* never closed (HTTPCustomCallback).                                      *)
ConnectionEnds ==
  \A i \in Conns : LET h == HTTPConnections[i] IN
    h.state # "NONE" ~>
      (h.state \in {"NONE", "DATA_WEBSOCKET"}
       \/ (h.state = "DATA_XFER" /\ h.is_dynamic /\ h.rcb \in {"none", "huge"}))
=============================================================================
