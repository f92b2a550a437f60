------------------------- MODULE ScarletbookOpenProofs -------------------------
(* What the program holds, proved for every disc, file, path and server, and    *)
(* whatever fails: TypeOK and ReleasedAtEnd of ScarletbookOpen.                 *)
(*                                                                              *)
(* The invariant has the handle's shape, that what it points to is allocated,   *)
(* who has asked the input for what, and, as long as there is memory, that      *)
(* everything allocated or open is held by somebody who will release it.        *)
EXTENDS SacdInputProofs

(* The places of the program: while the handle is there, while the reader is,   *)
(* and where the tables of an area are being read and gone through.             *)
BookPcs ==
    {"master", "area 1", "read 1", "blocks 1", "area 2", "read 2", "blocks 2", "ready"}
ReaderPcs == BookPcs \cup {"scarletbook_open", "sacd_close", "free reader"}
First == pc \in {"area 1", "read 1", "blocks 1"}
Second == pc \in {"area 2", "read 2", "blocks 2"}
Reading == pc \in {"read 1", "read 2"}
InBlocks == pc \in {"blocks 1", "blocks 2"}

(* The handle: its fields, how many areas it has, and that it is as new while   *)
(* there is none.                                                               *)
ShapeInv ==
    /\ DOMAIN book = {"area_count", "twoch_area_idx", "mulch_area_idx", "area", "texts",
                      "starts", "sizes", "block"}
    /\ DOMAIN book.area = 0 .. 1
    /\ \A i \in 0 .. 1 : DOMAIN book.area[i]
                           = {"data", "toc", "channels", "texts", "description", "tables"}
    /\ pc \notin BookPcs \ {"master"} => book = NewBook
    /\ book.area_count \in 0 .. 2 /\ book.block \in Nat
    /\ First => book.area_count = 0
    /\ Second => book.area_count <= 1
    /\ InBlocks <=> book.block > 0

(* What the handle points to is allocated.                                      *)
LastRead == IF InBlocks THEN book.area_count ELSE book.area_count - 1
Indices == {book.twoch_area_idx, book.mulch_area_idx} \ {-1}
IndexInv ==
    /\ \A idx \in Indices :
         /\ idx \in 0 .. LastRead
         /\ book.area[idx].toc
         /\ AreaData(book.area[idx].data) \in heap
    /\ has_two_channel(book) => book.area[book.twoch_area_idx].channels = 2
    /\ Reading => AreaData(book.area[book.area_count].data) \in heap
TextsInv ==
    /\ pc \in BookPcs => {Sb, FrameData, MasterData} \subseteq heap
    /\ \A b \in book.texts : b \in heap /\ b[1] = "master text"
    /\ \A i \in 0 .. 1 :
         /\ \A b \in book.area[i].texts : b \in heap /\ b[1] = "track text"
         /\ \A b \in book.area[i].description : b \in heap /\ b[1] = "description"
ResourcesInv ==
    /\ fds \subseteq {"stdin", "socket", "file", "directory", "mount table"}
    /\ sock \in {"zero", "invalid", "fresh", "connected"}

(* Who has asked for what, and what has been asked for when a table is read.    *)
Asked == IF Idle THEN <<ret.op, ret.pos, ret.n>> ELSE <<call.op, call.pos, call.n>>
CallsInv ==
    /\ ~Idle =>
         /\ call.net = Net
         /\ pc = "opening" => call.op = "open" \/ (call.op = "close" /\ call.failed)
         /\ pc \in {"free reader", "end"} => call.op = "close"
         /\ pc = "ready" => call.op \in {"read", "total"}
    /\ pc = "master" => Asked = <<"read", START_OF_MASTER_TOC, MASTER_TOC_LEN>>
    /\ \A k \in 1 .. 2 : pc = ReadPc(k) =>
         book.starts[k] # 0 /\ Asked = <<"read", book.starts[k], book.sizes[k]>>

(* The buffer has room for what has been asked for.                             *)
RoomInv ==
    /\ pc = "master" => DOMAIN buffer = 1 .. 2 * MASTER_TOC_LEN
    /\ \A k \in 1 .. 2 : pc = ReadPc(k) => DOMAIN buffer = 1 .. 2 * book.sizes[k]

(* As long as there is memory: nothing is held of the input outside its use,    *)
(* the two kinds of inputs do not mix, and what is allocated is one of these.   *)
InputFree == {Dev, InputBuffer} \cap heap = {} /\ {"socket", "file"} \cap fds = {}
NoInput ==
    \/ Idle /\ pc \in {"sacd_open", "resolve", "mounts", "free reader", "end"}
    \/ Idle /\ pc = "opening" /\ ~ret.ok
    \/ call.op = "open" /\ call.at = "start"
HeldInv ==
    /\ NoInput => InputFree
    /\ ~Net => InputBuffer \notin heap /\ "socket" \notin fds
    /\ Net => "file" \notin fds
    /\ "socket" \in fds => sock \in {"fresh", "connected"}
    /\ sock = "zero" <=> call.op = "open" /\ call.at = "connect"
    /\ "stdin" \in fds /\ "directory" \notin fds
    /\ "mount table" \in fds => pc = "opening"
AreaKinds == {"area", "description", "track text"}
KindsInv ==
    \A b \in heap :
      \/ b \in {Dev, InputBuffer}
      \/ b = SacdReaderBlock /\ pc \in ReaderPcs
      \/ b \in {Sb, FrameData, MasterData} /\ pc \in BookPcs
      \/ b \in book.texts
      \/ b[1] \in AreaKinds

(* As long as the tables are read as they lie on a sound disc: the areas have   *)
(* an index each, and nothing of an area is allocated that it does not hold.    *)
InHand == IF Reading \/ InBlocks THEN book.area_count ELSE book.area_count - 1
AreasHeld ==
    /\ pc \in BookPcs \ {"master"} =>
         book.starts = MasterToc.starts /\ book.sizes = MasterToc.sizes
    /\ \A b \in heap : b[1] \in AreaKinds =>
         \E i \in 0 .. InHand : b \in free_area(book.area[i]) \cup {AreaData(book.area[i].data)}
    /\ \A i \in 0 .. LastRead : i \in Indices
    /\ \A i \in 0 .. 1 : i > LastRead => book.area[i].texts = {} /\ book.area[i].description = {}
    /\ pc \notin {"blocks 2", "ready"} => book.mulch_area_idx = -1
HeapInv ==
    ~outOfMemory => HeldInv /\ KindsInv /\ (tablesWhole /\ Sound => AreasHeld)

BInv ==
    /\ ShapeInv /\ IndexInv /\ TextsInv /\ ResourcesInv /\ CallsInv /\ RoomInv
    /\ HeapInv
OInv == IInv /\ BInv
-------------------------------------------------------------------------------
(* Names of what is allocated.                                                  *)
LEMMA Kinds ==
    /\ Dev[1] = "dev" /\ InputBuffer[1] = "input_buffer" /\ SacdReaderBlock[1] = "sacd"
    /\ Sb[1] = "sb" /\ FrameData[1] = "frame" /\ MasterData[1] = "master"
    /\ \A k : AreaData(k)[1] = "area"
    /\ \A name : MasterText(name)[1] = "master text"
    /\ \A k, t, name : TrackText(k, t, name)[1] = "track text"
    /\ \A k, n : Description(k, n)[1] = "description"
BY DEF Dev, InputBuffer, SacdReaderBlock, Sb, FrameData, MasterData, AreaData, MasterText,
       TrackText, Description, Block

(* A handle that is new, or none.                                               *)
LEMMA NoHandle ==
    ASSUME book' = NewBook, pc' \notin BookPcs \ {"master"},
           pc' = "master" => {Sb, FrameData, MasterData} \subseteq heap'
    PROVE  ShapeInv' /\ IndexInv' /\ TextsInv'
<1>1. /\ DOMAIN NewBook = {"area_count", "twoch_area_idx", "mulch_area_idx", "area", "texts",
                           "starts", "sizes", "block"}
      /\ NewBook.area = [i \in 0 .. 1 |-> NoArea] /\ NewBook.area_count = 0 /\ NewBook.block = 0
      /\ NewBook.twoch_area_idx = -1 /\ NewBook.mulch_area_idx = -1 /\ NewBook.texts = {}
  BY DEF NewBook
<1>2. /\ DOMAIN NoArea = {"data", "toc", "channels", "texts", "description", "tables"}
      /\ NoArea.texts = {} /\ NoArea.description = {}
  BY DEF NoArea
<1>3. pc' \notin {"area 1", "read 1", "blocks 1", "area 2", "read 2", "blocks 2", "ready"}
  BY DEF BookPcs
<1>4. ShapeInv'
  <2>1. /\ DOMAIN NewBook.area = 0 .. 1
        /\ \A i \in 0 .. 1 : DOMAIN NewBook.area[i]
                                = {"data", "toc", "channels", "texts", "description", "tables"}
    BY <1>1, <1>2
  <2>2. 0 \in 0 .. 2 /\ 0 \in Nat /\ ~(0 > 0)
    OBVIOUS
  <2>3. ~First' /\ ~Second' /\ ~InBlocks'
    BY <1>3 DEF First, Second, InBlocks
  <2>4. /\ book'.area_count \in 0 .. 2 /\ book'.block \in Nat /\ ~(book'.block > 0)
        /\ DOMAIN book' = {"area_count", "twoch_area_idx", "mulch_area_idx", "area", "texts",
                           "starts", "sizes", "block"}
        /\ DOMAIN book'.area = 0 .. 1
        /\ \A i \in 0 .. 1 : DOMAIN book'.area[i]
                                = {"data", "toc", "channels", "texts", "description", "tables"}
    BY <1>1, <2>1, <2>2
  <2> QED BY <2>3, <2>4 DEF ShapeInv
<1>5. IndexInv'
  BY <1>1, <1>3 DEF IndexInv, Indices, has_two_channel, Reading
<1>6. TextsInv'
  <2>1. \A i \in 0 .. 1 : NewBook.area[i].texts = {} /\ NewBook.area[i].description = {}
    BY <1>1, <1>2
  <2>2. pc' \in BookPcs => pc' = "master"
    OBVIOUS
  <2> QED BY <1>1, <2>1, <2>2 DEF TextsInv
<1> QED
  BY <1>4, <1>5, <1>6

(* The handle stays and what is allocated of it too.                            *)
LEMMA HandleKept ==
    ASSUME ShapeInv, IndexInv, TextsInv, UNCHANGED <<book, pc>>,
           \A b : b \notin {Dev, InputBuffer} => (b \in heap' <=> b \in heap)
    PROVE  ShapeInv' /\ IndexInv' /\ TextsInv'
<1>1. /\ First' = First /\ Second' = Second /\ Reading' = Reading /\ InBlocks' = InBlocks
      /\ LastRead' = LastRead /\ Indices' = Indices
  BY DEF First, Second, Reading, InBlocks, LastRead, Indices
<1>2. ShapeInv'
  BY <1>1 DEF ShapeInv
<1>3. \A k : AreaData(k) \in heap => AreaData(k) \in heap'
  BY Kinds, Zenon
<1>4. IndexInv'
  BY <1>1, <1>3 DEF IndexInv, has_two_channel
<1>5. \A b \in {Sb, FrameData, MasterData} : b \in heap => b \in heap'
  BY Kinds
<1>6. TextsInv'
  <2>1. pc' \in BookPcs => {Sb, FrameData, MasterData} \subseteq heap'
    BY <1>5 DEF TextsInv
  <2>2. \A b : b \in heap /\ b[1] \in {"master text", "track text", "description"} => b \in heap'
    BY Kinds
  <2> QED BY <2>1, <2>2 DEF TextsInv
<1> QED
  BY <1>2, <1>4, <1>6
-------------------------------------------------------------------------------
(* The input's side: how a step of it takes a call on.                          *)
Moves ==
    /\ UNCHANGED <<ret, call.op, call.net, call.pos, call.n, call.failed>>
    /\ call.op # "none" /\ call'.at # "start"
    /\ call'.at = "connect" => call.op = "open"
GivesUp ==
    /\ UNCHANGED <<ret, call.net>>
    /\ call.op = "open" /\ call'.op = "close" /\ call'.failed
Returns(ok) ==
    /\ call' = NoCall /\ call.op # "none"
    /\ ret'.op = call.op /\ ret'.pos = call.pos /\ ret'.n = call.n /\ ret'.ok = ok

LEMMA ReturnIs ==
    ASSUME NEW ok, NEW v, Return(ok, v), call.op # "none"
    PROVE  Returns(ok)
BY DEF Return, Returns

LEMMA GoesTo ==
    ASSUME InputInv, call.net, NEW at \in {"connect", "send", "decode", "destroy"}, GoTo(at),
           at = "connect" => call.op = "open"
    PROVE  Moves /\ call'.at = at
<1>1. call.op # "none"
  BY NetCall
<1>2. call \in [op : Ops, at : {"start", "connect", "send", "decode", "destroy", "reading"},
                net : BOOLEAN, pos : Nat, n : Nat, left : Nat, failed : BOOLEAN]
  BY <1>1, UnderWay
<1>3. call'.at = at /\ UNCHANGED <<ret, call.op, call.net, call.pos, call.n, call.failed>>
  BY <1>2 DEF GoTo
<1>4. at # "start"
  OBVIOUS
<1> QED
  BY <1>1, <1>3, <1>4 DEF Moves

LEMMA Closing ==
    ASSUME InputInv, call.net, call.op = "open", CloseAfterError
    PROVE  GivesUp
<1>1. call \in [op : Ops, at : {"start", "connect", "send", "decode", "destroy", "reading"},
                net : BOOLEAN, pos : Nat, n : Nat, left : Nat, failed : BOOLEAN]
  BY UnderWay
<1> QED
  BY <1>1 DEF CloseAfterError, GivesUp

(* Whom the caller will find having been answered.                              *)
LEMMA CallsKept ==
    ASSUME CallsInv, UNCHANGED <<pc, location, book>>,
           Moves \/ GivesUp \/ (\E ok : Returns(ok)) \/ UNCHANGED <<call, ret>>
    PROVE  CallsInv'
<1>1. Net' = Net
  BY DEF Net
<1>2. ASSUME NEW pos, NEW n, Asked = <<"read", pos, n>>
      PROVE  Asked' = <<"read", pos, n>>
  <2>0. IF Idle THEN ret.op = "read" /\ ret.pos = pos /\ ret.n = n
                ELSE call.op = "read" /\ call.pos = pos /\ call.n = n
    BY <1>2 DEF Asked
  <2>1. CASE Moves
    BY <2>0, <2>1 DEF Moves, Asked, Idle
  <2>2. CASE GivesUp
    BY <2>0, <2>2 DEF GivesUp, Idle
  <2>3. CASE \E ok : Returns(ok)
    <3>1. call' = NoCall /\ call.op # "none" /\ ret'.op = call.op /\ ret'.pos = call.pos /\ ret'.n = call.n
      BY <2>3 DEF Returns
    <3>2. Idle' /\ ~Idle
      BY <3>1 DEF Idle, NoCall
    <3> QED BY <2>0, <3>1, <3>2 DEF Asked
  <2>4. CASE UNCHANGED <<call, ret>>
    BY <2>0, <2>4 DEF Asked, Idle
  <2> QED BY <2>1, <2>2, <2>3, <2>4
<1>3. /\ pc' = "master" => Asked' = <<"read", START_OF_MASTER_TOC, MASTER_TOC_LEN>>
      /\ \A k \in 1 .. 2 : pc' = ReadPc(k) =>
           book'.starts[k] # 0 /\ Asked' = <<"read", book'.starts[k], book'.sizes[k]>>
  BY <1>2 DEF CallsInv
<1>4. ~Idle' =>
        /\ call'.net = Net'
        /\ pc' = "opening" => call'.op = "open" \/ (call'.op = "close" /\ call'.failed)
        /\ pc' \in {"free reader", "end"} => call'.op = "close"
        /\ pc' = "ready" => call'.op \in {"read", "total"}
  <2>1. CASE Moves
    BY <1>1, <2>1 DEF Moves, CallsInv, Idle
  <2>2. CASE GivesUp
    BY <1>1, <2>2 DEF GivesUp, CallsInv, Idle
  <2>3. CASE \E ok : Returns(ok)
    <3>1. call' = NoCall
      BY <2>3 DEF Returns
    <3> QED BY <3>1 DEF Idle, NoCall
  <2>4. CASE UNCHANGED <<call, ret>>
    BY <1>1, <2>4 DEF CallsInv, Idle
  <2> QED BY <2>1, <2>2, <2>3, <2>4
<1> QED
  BY <1>3, <1>4 DEF CallsInv

(* What a step of the input keeps: a call goes on, all but the input's own      *)
(* memory stays, and while there is memory the input is held as it is used.     *)
Moved == Moves \/ GivesUp \/ (\E ok : Returns(ok)) \/ UNCHANGED <<call, ret>>
OthersKept == \A b : b \notin {Dev, InputBuffer} => (b \in heap' <=> b \in heap)
HeldKept == ~outOfMemory' => ~outOfMemory /\ (HeldInv => HeldInv')
InputKept == Moved /\ OthersKept /\ ResourcesInv' /\ HeldKept

Connecting == call.op = "open" /\ call.at = "connect"

LEMMA HeldSame ==
    ASSUME HeldInv, UNCHANGED <<heap, fds, sock, location, pc>>, ~NoInput', ~Connecting, ~Connecting'
    PROVE  HeldInv'
<1>1. Net' = Net
  BY DEF Net
<1> QED
  BY <1>1 DEF HeldInv, Connecting

LEMMA NotDone ==
    ASSUME call'.op # "none", call'.at # "start"
    PROVE  ~NoInput'
BY DEF NoInput, Idle

LEMMA NotReturned ==
    ASSUME BookInv, CallsInv, pc' = pc, NEW ok, Returns(ok),
           call.op \in {"read", "total"} \/ (call.op = "open" /\ ok)
    PROVE  ~NoInput' /\ ~Connecting'
<1>1. call'.op = "none" /\ ret'.ok = ok /\ ~Idle
  BY DEF Returns, NoCall, Idle
<1>2. pc \in Waits /\ pc \notin {"free reader", "end"}
  BY <1>1 DEF BookInv, CallsInv
<1>3. pc = "opening" => ok
  BY <1>1 DEF CallsInv
<1> QED
  BY <1>1, <1>2, <1>3 DEF NoInput, Connecting, Waits

LEMMA FinishHeld ==
    ASSUME InputInv, BookInv, CallsInv, ResourcesInv, call.net, call.at \in {"send", "decode"},
           NEW ok \in BOOLEAN, NEW msg, Finish(ok, msg),
           UNCHANGED <<heap, fds, sock, location, pc, outOfMemory>>
    PROVE  InputKept
<1>1. call.op \in Ops /\ call.op # "none"
  <2>1. call.op # "none"
    BY NetCall
  <2> QED BY <2>1, UnderWay
<1>2. OthersKept /\ ResourcesInv'
  BY DEF OthersKept, ResourcesInv
<1>3. ~Connecting
  BY DEF Connecting
<1>4. CASE call.op = "open"
  <2>1. CASE Return(TRUE, 0)
    <3>1. Returns(TRUE)
      BY <1>1, <2>1, ReturnIs
    <3>2. ~NoInput' /\ ~Connecting'
      BY <1>4, <3>1, NotReturned
    <3> QED BY <1>2, <1>3, <3>1, <3>2, HeldSame DEF InputKept, Moved, HeldKept
  <2>2. CASE CloseAfterError
    <3>1. GivesUp
      BY <1>4, <2>2, Closing
    <3>2. call'.at = "send" /\ call'.op = "close"
      BY <1>1, <2>2, UnderWay DEF CloseAfterError
    <3>3. ~NoInput' /\ ~Connecting'
      BY <3>2, NotDone DEF Connecting
    <3> QED BY <1>2, <1>3, <3>1, <3>3, HeldSame DEF InputKept, Moved, HeldKept
  <2> QED BY <1>4, <2>1, <2>2 DEF Finish
<1>5. CASE call.op \in {"total", "read"}
  <2>1. PICK v : Return(TRUE, v)
    BY <1>5 DEF Finish
  <2>2. Returns(TRUE)
    BY <1>1, <2>1, ReturnIs
  <2>3. ~NoInput' /\ ~Connecting'
    BY <1>5, <2>2, NotReturned
  <2> QED BY <1>2, <1>3, <2>2, <2>3, HeldSame DEF InputKept, Moved, HeldKept
<1>6. CASE call.op = "close"
  <2>1. GoTo("destroy")
    BY <1>6 DEF Finish
  <2>2. Moves /\ call'.at = "destroy"
    BY <2>1, GoesTo
  <2>3. ~NoInput' /\ ~Connecting'
    BY <1>1, <2>2, NotDone DEF Moves, Connecting
  <2> QED BY <1>2, <1>3, <2>2, <2>3, HeldSame DEF InputKept, Moved, HeldKept
<1> QED
  BY <1>1, <1>4, <1>5, <1>6 DEF Ops

LEMMA OpenNetHeld ==
    ASSUME InputInv, BookInv, CallsInv, ResourcesInv, sacd_net_input_open, UNCHANGED <<location, pc>>
    PROVE  InputKept
<1>1. /\ call.op = "open" /\ call.net /\ call.at = "start" /\ fds' = fds
      /\ call.net = Net
  BY DEF sacd_net_input_open, At, CallsInv, Idle
<1>2. ResourcesInv'
  BY <1>1 DEF sacd_net_input_open, ResourcesInv
<1>3. OthersKept
  BY DEF sacd_net_input_open, OthersKept
<1>4. CASE Return(FALSE, 0) /\ outOfMemory'
  <2>1. Returns(FALSE)
    BY <1>1, <1>4, ReturnIs
  <2> QED BY <1>2, <1>3, <1>4, <2>1 DEF InputKept, Moved, HeldKept
<1>5. CASE CloseAfterError /\ outOfMemory'
  <2>1. GivesUp
    BY <1>1, <1>5, Closing
  <2> QED BY <1>2, <1>3, <1>5, <2>1 DEF InputKept, Moved, HeldKept
<1>6. CASE /\ heap' = heap \cup {Dev, InputBuffer} /\ sock' = "zero"
           /\ GoTo("connect") /\ UNCHANGED outOfMemory
  <2>1. Moves /\ call'.at = "connect"
    BY <1>1, <1>6, GoesTo
  <2>2. call'.op = "open"
    BY <1>1, <2>1 DEF Moves
  <2>3. ~NoInput'
    BY <2>1, <2>2, NotDone
  <2>4. ASSUME HeldInv PROVE HeldInv'
    <3>1. "socket" \notin fds
      BY <1>1, <2>4 DEF HeldInv, NoInput, InputFree
    <3>2. Net' /\ Net
      BY <1>1 DEF Net
    <3> QED BY <1>1, <1>6, <2>1, <2>2, <2>3, <2>4, <3>1, <3>2 DEF HeldInv
  <2> QED BY <1>2, <1>3, <1>6, <2>1, <2>4 DEF InputKept, Moved, HeldKept
<1> QED
  BY <1>4, <1>5, <1>6 DEF sacd_net_input_open

LEMMA ConnectHeld ==
    ASSUME InputInv, BookInv, CallsInv, ResourcesInv, Connect, UNCHANGED <<location, pc>>
    PROVE  InputKept
<1>1. /\ call.op = "open" /\ call.net /\ call.at = "connect" /\ Connecting
      /\ UNCHANGED <<heap, outOfMemory>>
      /\ call.net = Net
  BY DEF Connect, At, CallsInv, Idle, Connecting
<1>2. PICK ps \in {"invalid", "fresh"} :
        /\ fds' = IF ps = "invalid" THEN fds ELSE fds \cup {"socket"}
        /\ (sock' = "connected" /\ GoTo("send")) \/ (sock' = ps /\ CloseAfterError)
  BY DEF Connect
<1>3. OthersKept /\ ResourcesInv'
  BY <1>1, <1>2 DEF OthersKept, ResourcesInv
<1>4. (Moves \/ GivesUp) /\ call'.at = "send"
  <2>1. CASE GoTo("send")
    BY <1>1, <2>1, GoesTo
  <2>2. CASE CloseAfterError
    BY <1>1, <2>2, Closing, UnderWay DEF CloseAfterError
  <2> QED BY <1>2, <2>1, <2>2
<1>5. ~NoInput' /\ ~Connecting'
  <2>1. call'.op # "none"
    BY <1>1, <1>4 DEF Moves, GivesUp
  <2> QED BY <1>4, <2>1, NotDone DEF Connecting
<1>6. ASSUME HeldInv PROVE HeldInv'
  <2>1. sock = "zero" /\ "socket" \notin fds
    BY <1>1, <1>6 DEF HeldInv
  <2>2. Net' /\ Net
    BY <1>1 DEF Net
  <2>3. sock' # "zero" /\ ("socket" \in fds' => sock' \in {"fresh", "connected"})
    BY <1>2, <2>1
  <2>4. "file" \notin fds' /\ "stdin" \in fds' /\ "directory" \notin fds'
        /\ ("mount table" \in fds' => pc' = "opening")
    BY <1>2, <1>6, <2>2 DEF HeldInv
  <2> QED BY <1>5, <2>2, <2>3, <2>4 DEF HeldInv, Connecting
<1> QED
  BY <1>1, <1>3, <1>4, <1>6 DEF InputKept, Moved, HeldKept

(* The connection is closed and what is held of the input goes.                 *)
LEMMA DestroyHeld ==
    ASSUME InputInv, CallsInv, ResourcesInv, socket_destroy, UNCHANGED <<location, pc>>
    PROVE  InputKept
<1>1. /\ call.op = "close" /\ call.net /\ call.at = "destroy"
      /\ heap' = heap \ {Dev, InputBuffer} /\ sock' = "invalid" /\ outOfMemory' = outOfMemory
      /\ Return(~call.failed, 0)
      /\ call.net = Net
  BY DEF socket_destroy, At, CallsInv, Idle
<1>2. \E ok : Returns(ok)
  BY <1>1, ReturnIs
<1>3. OthersKept
  BY <1>1 DEF OthersKept
<1>4. /\ sock = "zero" => fds' = fds \ {"stdin"}
      /\ sock = "invalid" => fds' = fds
      /\ sock \notin {"zero", "invalid"} => fds' = fds \ {"socket"}
  BY DEF socket_destroy
<1>5. ResourcesInv'
  BY <1>1, <1>4 DEF ResourcesInv
<1>6. ASSUME HeldInv PROVE HeldInv'
  <2>1. sock # "zero"
    BY <1>1, <1>6 DEF HeldInv
  <2>2. "socket" \notin fds' /\ "file" \notin fds' /\ fds' \subseteq fds
        /\ ("stdin" \in fds => "stdin" \in fds')
    BY <1>1, <1>4, <1>6, <2>1 DEF HeldInv
  <2>3. InputFree'
    BY <1>1, <2>2 DEF InputFree
  <2>4. call'.op = "none"
    BY <1>1 DEF Return, NoCall
  <2> QED BY <1>1, <1>6, <2>2, <2>3, <2>4 DEF HeldInv
<1> QED
  BY <1>1, <1>2, <1>3, <1>5, <1>6 DEF InputKept, Moved, HeldKept

LEMMA OpenFileHeld ==
    ASSUME InputInv, BookInv, CallsInv, ResourcesInv, sacd_dev_input_open, UNCHANGED <<location, pc>>
    PROVE  InputKept
<1>1. /\ call.op = "open" /\ ~call.net /\ call.at = "start" /\ sock' = sock
      /\ call.net = Net
  BY DEF sacd_dev_input_open, On, CallsInv, Idle, netVars
<1>2. CASE Return(FALSE, 0) /\ outOfMemory' /\ UNCHANGED <<heap, fds>>
  <2>1. Returns(FALSE)
    BY <1>1, <1>2, ReturnIs
  <2> QED BY <1>1, <1>2, <2>1 DEF InputKept, Moved, HeldKept, OthersKept, ResourcesInv
<1>3. ASSUME NEW opened \in BOOLEAN,
             heap' = IF opened THEN heap \cup {Dev} ELSE heap,
             fds' = IF opened THEN fds \cup {"file"} ELSE fds,
             Return(opened, 0), outOfMemory' = outOfMemory
      PROVE  InputKept
  <2>1. Returns(opened) /\ call'.op = "none"
    <3>1. Returns(opened)
      BY <1>1, <1>3, ReturnIs
    <3> QED BY <3>1 DEF Returns, NoCall
  <2>2. OthersKept /\ ResourcesInv'
    BY <1>1, <1>3 DEF OthersKept, ResourcesInv
  <2>3. ASSUME HeldInv PROVE HeldInv'
    <3>1. InputFree /\ sock # "zero" /\ ~Net /\ ~Net'
      BY <1>1, <2>3 DEF HeldInv, NoInput, Net
    <3>2. CASE opened
      <4>1. ~NoInput'
        BY <1>1, <2>1, <3>2, NotReturned
      <4>2. InputBuffer \notin heap' /\ "socket" \notin fds'
        BY <1>3, <3>1, Kinds DEF InputFree
      <4> QED BY <1>1, <1>3, <2>1, <2>3, <3>1, <4>1, <4>2 DEF HeldInv
    <3>3. CASE ~opened
      <4>1. InputFree'
        BY <1>3, <3>1, <3>3 DEF InputFree
      <4> QED BY <1>1, <1>3, <2>1, <2>3, <3>1, <3>3, <4>1 DEF HeldInv, InputFree
    <3> QED BY <3>2, <3>3
  <2> QED BY <1>3, <2>1, <2>2, <2>3 DEF InputKept, Moved, HeldKept
<1> QED
  BY <1>2, <1>3 DEF sacd_dev_input_open

LEMMA CloseFileHeld ==
    ASSUME InputInv, CallsInv, ResourcesInv, sacd_dev_input_close, UNCHANGED <<location, pc>>
    PROVE  InputKept
<1>1. /\ call.op = "close" /\ ~call.net /\ sock' = sock /\ outOfMemory' = outOfMemory
      /\ fds' = fds \ {"file"} /\ heap' = heap \ {Dev} /\ Return(TRUE, 0)
      /\ call.net = Net
  BY DEF sacd_dev_input_close, On, CallsInv, Idle, unlessReading, netVars
<1>2. Returns(TRUE) /\ call'.op = "none"
  <2>1. Returns(TRUE)
    BY <1>1, ReturnIs
  <2> QED BY <2>1 DEF Returns, NoCall
<1>3. OthersKept /\ ResourcesInv'
  BY <1>1 DEF OthersKept, ResourcesInv
<1>4. ASSUME HeldInv PROVE HeldInv'
  <2>1. ~Net /\ ~Net' /\ InputBuffer \notin heap' /\ "socket" \notin fds' /\ sock' # "zero"
    BY <1>1, <1>4 DEF HeldInv, Net
  <2>2. InputFree'
    BY <1>1, <2>1 DEF InputFree
  <2> QED BY <1>1, <1>2, <1>4, <2>1, <2>2 DEF HeldInv
<1> QED
  BY <1>1, <1>2, <1>3, <1>4 DEF InputKept, Moved, HeldKept

(* The steps that take and give nothing.                                        *)
LEMMA HeldStep ==
    ASSUME InputInv, BookInv, CallsInv, ResourcesInv, InputStep, UNCHANGED <<location, pc>>
    PROVE  InputKept
<1> DEFINE Nothing == UNCHANGED <<heap, fds, sock, outOfMemory>>
<1>1. ASSUME Nothing, Moved, ~NoInput', ~Connecting, ~Connecting'
      PROVE  InputKept
  BY <1>1, HeldSame DEF InputKept, HeldKept, OthersKept, ResourcesInv
<1>2. ASSUME Nothing, NEW v, Return(TRUE, v), call.op \in {"read", "total"}
      PROVE  InputKept
  <2>1. Returns(TRUE)
    BY <1>2, ReturnIs
  <2>2. ~NoInput' /\ ~Connecting' /\ ~Connecting
    BY <1>2, <2>1, NotReturned DEF Connecting
  <2> QED BY <1>1, <1>2, <2>1, <2>2 DEF Moved
<1>3. CASE StartRequest
  <2>1. Nothing /\ call.net /\ call.op # "open" /\ GoTo("send")
    BY <1>3 DEF StartRequest, netVars
  <2>2. Moves /\ call'.at = "send"
    BY <2>1, GoesTo
  <2>3. ~NoInput' /\ ~Connecting' /\ ~Connecting
    BY <2>1, <2>2, NotDone DEF Moves, Connecting
  <2> QED BY <1>1, <2>1, <2>2, <2>3 DEF Moved
<1>4. CASE SendRequest
  <2>1. Nothing /\ call.net /\ call.at = "send"
    BY <1>4 DEF SendRequest
  <2>2. CASE GoTo("decode")
    <3>1. Moves /\ call'.at = "decode"
      BY <2>1, <2>2, GoesTo
    <3>2. ~NoInput' /\ ~Connecting' /\ ~Connecting
      BY <2>1, <3>1, NotDone DEF Moves, Connecting
    <3> QED BY <1>1, <2>1, <3>1, <3>2 DEF Moved
  <2>3. CASE Finish(FALSE, NewDecoder.msg)
    BY <2>1, <2>3, FinishHeld
  <2> QED BY <1>4, <2>2, <2>3 DEF SendRequest
<1>5. CASE HaveAnswer
  <2>1. Nothing /\ call.net /\ call.at = "decode" /\ Finish(decoder.at = "decoded", decoder.msg)
    BY <1>5 DEF HaveAnswer
  <2>2. (decoder.at = "decoded") \in BOOLEAN
    OBVIOUS
  <2> QED BY <2>1, <2>2, FinishHeld
<1>6. CASE ReadUnit \/ ReadBytesAstray \/ ReadAmiss \/ ReadEof
  <2>1. Nothing /\ call.net /\ call.at = "decode" /\ UNCHANGED <<call, ret>>
    BY <1>6 DEF ReadUnit, ReadBytesAstray, ReadAmiss, Arrived, ReadEof, Decoding
  <2>2. call.op # "none"
    BY <2>1, NetCall
  <2>3. ~NoInput' /\ ~Connecting' /\ ~Connecting
    BY <2>1, <2>2, NotDone DEF Connecting
  <2> QED BY <1>1, <2>1, <2>3 DEF Moved
<1>7. CASE sacd_dev_input_read
  <2>1. Nothing /\ call.op = "read"
    BY <1>7 DEF sacd_dev_input_read, On, unlessReading, netVars
  <2>2. CASE Return(TRUE, 0)
    BY <1>2, <2>1, <2>2
  <2>3. CASE call' = [call EXCEPT !.at = "reading", !.left = 2 * call.n] /\ ret' = ret
    <3>1. /\ call'.op = call.op /\ call'.net = call.net /\ call'.pos = call.pos /\ call'.n = call.n
          /\ call'.failed = call.failed /\ call'.at = "reading"
      BY <2>1, <2>3, UnderWay
    <3>2. Moves
      BY <2>1, <2>3, <3>1 DEF Moves
    <3>3. ~NoInput' /\ ~Connecting' /\ ~Connecting
      BY <2>1, <3>1, NotDone DEF Connecting
    <3> QED BY <1>1, <2>1, <3>2, <3>3 DEF Moved
  <2> QED BY <1>7, <2>2, <2>3 DEF sacd_dev_input_read
<1>8. CASE ReadPiece
  <2>1. Nothing /\ call.op = "read" /\ call.at = "reading" /\ ret' = ret
    BY <1>8 DEF ReadPiece, On, netVars
  <2>2. \E k : call' = [call EXCEPT !.left = @ - k]
    BY <1>8 DEF ReadPiece
  <2>3. /\ call'.op = call.op /\ call'.net = call.net /\ call'.pos = call.pos /\ call'.n = call.n
        /\ call'.failed = call.failed /\ call'.at = "reading"
    BY <2>1, <2>2, UnderWay
  <2>4. Moves
    BY <2>1, <2>3 DEF Moves
  <2>5. ~NoInput' /\ ~Connecting' /\ ~Connecting
    BY <2>1, <2>3, NotDone DEF Connecting
  <2> QED BY <1>1, <2>1, <2>4, <2>5 DEF Moved
<1>9. CASE ReadReturns
  <2>1. Nothing /\ call.op = "read" /\ \E v : Return(TRUE, v)
    BY <1>9 DEF ReadReturns, On, unlessReading, netVars
  <2> QED BY <1>2, <2>1
<1>10. CASE sacd_dev_input_total_sectors
  <2>1. Nothing /\ call.op = "total" /\ \E v : Return(TRUE, v)
    BY <1>10 DEF sacd_dev_input_total_sectors, On, unlessReading, netVars
  <2> QED BY <1>2, <2>1
<1> QED
  BY <1>3, <1>4, <1>5, <1>6, <1>7, <1>8, <1>9, <1>10, OpenNetHeld, ConnectHeld, DestroyHeld,
     OpenFileHeld, CloseFileHeld
     DEF InputStep, NetStep

(* What is read goes into the buffer that is there.                             *)
LEMMA RoomStep ==
    ASSUME InputStep
    PROVE  DOMAIN buffer' = DOMAIN buffer
<1>1. \A data : DOMAIN Overlay(data, buffer) = DOMAIN buffer
  BY DEF Overlay
<1>2. CASE NetStep
  BY <1>1, <1>2 DEF NetStep, sacd_net_input_open, Connect, StartRequest, SendRequest, ReadUnit,
                    ReadBytesAstray, ReadAmiss, ReadEof, HaveAnswer, socket_destroy
<1>3. CASE ReadPiece
  BY <1>1, <1>3 DEF ReadPiece
<1>4. CASE \/ sacd_dev_input_open \/ sacd_dev_input_read \/ ReadReturns
           \/ sacd_dev_input_close \/ sacd_dev_input_total_sectors
  BY <1>4 DEF sacd_dev_input_open, sacd_dev_input_read, ReadReturns, sacd_dev_input_close,
              sacd_dev_input_total_sectors
<1> QED
  BY <1>2, <1>3, <1>4 DEF InputStep

LEMMA SameDisc ==
    ASSUME disc' = disc
    PROVE  Sound' = Sound /\ MasterToc' = MasterToc
<1>1. MasterToc' = MasterToc /\ \A k : TocOf(k)' = TocOf(k)
  BY DEF MasterToc, TocOf
<1> QED
  BY <1>1 DEF Sound

(* The rest of what is allocated stays as it is held.                           *)
LEMMA OthersHeld ==
    ASSUME OthersKept, UNCHANGED <<pc, book, disc>>
    PROVE  (KindsInv => KindsInv') /\ (AreasHeld => AreasHeld') /\ Sound' = Sound
<1>1. ASSUME KindsInv PROVE KindsInv'
  BY <1>1 DEF KindsInv, OthersKept
<1>2. ASSUME AreasHeld PROVE AreasHeld'
  <2>1. /\ InHand' = InHand /\ LastRead' = LastRead /\ Indices' = Indices
        /\ MasterToc' = MasterToc
    BY DEF InHand, LastRead, Indices, MasterToc, Reading, InBlocks
  <2>2. \A b \in heap' : b[1] \in AreaKinds => b \in heap
    BY Kinds DEF OthersKept, AreaKinds
  <2> QED BY <1>2, <2>1, <2>2 DEF AreasHeld
<1>3. Sound' = Sound
  BY SameDisc
<1> QED
  BY <1>1, <1>2, <1>3

LEMMA InputHolds ==
    ASSUME OInv, InputStep, UNCHANGED <<readerVars, bookVars>>
    PROVE  BInv'
<1>1. /\ InputInv /\ BookInv /\ BInv /\ ShapeInv /\ IndexInv /\ TextsInv /\ ResourcesInv
      /\ CallsInv /\ RoomInv /\ HeapInv
  BY DEF OInv, IInv, BInv
<1>2. UNCHANGED <<location, pc, disc, book, tablesWhole>>
  BY DEF readerVars, bookVars
<1>3. Moved /\ OthersKept /\ ResourcesInv' /\ HeldKept
  BY <1>1, <1>2, HeldStep DEF InputKept
<1>4. ShapeInv' /\ IndexInv' /\ TextsInv'
  BY <1>1, <1>2, <1>3, HandleKept DEF OthersKept
<1>5. CallsInv'
  BY <1>1, <1>2, <1>3, CallsKept DEF Moved
<1>6. RoomInv'
  BY <1>1, <1>2, RoomStep DEF RoomInv
<1>7. HeapInv'
  BY <1>1, <1>2, <1>3, OthersHeld DEF HeapInv, HeldKept
<1> QED
  BY <1>3, <1>4, <1>5, <1>6, <1>7 DEF BInv

(* A step of the server, or none.                                               *)
LEMMA NothingMoves ==
    ASSUME BInv, UNCHANGED <<call, ret, buffer, heap, fds, sock, outOfMemory, readerVars, bookVars>>
    PROVE  BInv'
<1>1. UNCHANGED <<location, pc, disc, book, tablesWhole>>
  BY DEF readerVars, bookVars
<1>2. ShapeInv' /\ IndexInv' /\ TextsInv'
  BY <1>1, HandleKept DEF BInv
<1>3. CallsInv'
  BY <1>1, CallsKept DEF BInv
<1>4. ResourcesInv' /\ RoomInv'
  BY <1>1 DEF BInv, ResourcesInv, RoomInv
<1>5. ASSUME HeldInv PROVE HeldInv'
  BY <1>1, <1>5 DEF HeldInv, NoInput, InputFree, Idle, Net
<1>6. HeapInv'
  BY <1>1, <1>5, OthersHeld DEF BInv, HeapInv, OthersKept
<1> QED
  BY <1>2, <1>3, <1>4, <1>6 DEF BInv
-------------------------------------------------------------------------------
(* The reader's steps                                                         *)

(* Nobody waits for a table.                                                    *)
LEMMA NoTable ==
    ASSUME pc' \notin {"master", "read 1", "read 2"},
           ~Idle' => /\ call'.net = Net'
                     /\ pc' = "opening" => call'.op = "open"
                     /\ pc' \in {"free reader", "end"} => call'.op = "close"
                     /\ pc' = "ready" => call'.op \in {"read", "total"}
    PROVE  CallsInv' /\ RoomInv'
<1>1. \A k \in 1 .. 2 : pc' # ReadPc(k)
  BY DEF ReadPc
<1> QED
  BY <1>1 DEF CallsInv, RoomInv

(* No book is open before the step and none after it.                           *)
LEMMA NoBook ==
    ASSUME ShapeInv, pc \notin BookPcs, pc' \notin BookPcs, book' = book
    PROVE  ShapeInv' /\ IndexInv' /\ TextsInv'
<1>1. book = NewBook /\ pc' # "master"
  BY DEF ShapeInv, BookPcs
<1> QED
  BY <1>1, NoHandle

LEMMA NewBookHolds ==
    /\ NewBook.texts = {} /\ NewBook.area_count = 0 /\ NewBook.block = 0
    /\ NewBook.twoch_area_idx = -1 /\ NewBook.mulch_area_idx = -1
    /\ \A i \in 0 .. 1 : NewBook.area[i].texts = {} /\ NewBook.area[i].description = {}
BY DEF NewBook, NoArea

LEMMA NoBookHeld ==
    ASSUME ShapeInv, pc \notin BookPcs, pc' \notin BookPcs, UNCHANGED bookVars,
           heap' \subseteq heap \cup {SacdReaderBlock},
           SacdReaderBlock \in heap' => pc' \in ReaderPcs
    PROVE  (KindsInv => KindsInv') /\ (AreasHeld => AreasHeld') /\ Sound' = Sound
<1>1. book = NewBook /\ book' = NewBook /\ disc' = disc /\ NewBook.texts = {}
  BY NewBookHolds DEF ShapeInv, bookVars
<1>2. ASSUME KindsInv PROVE KindsInv'
  <2>1. {Sb, FrameData, MasterData} \cap heap = {}
    BY <1>1, <1>2, Kinds DEF KindsInv, AreaKinds
  <2> QED BY <1>1, <1>2 DEF KindsInv
<1>3. ASSUME AreasHeld PROVE AreasHeld'
  <2>1. ~Reading /\ ~InBlocks /\ ~Reading' /\ ~InBlocks'
        /\ pc \notin {"blocks 2", "ready"} /\ pc' \notin BookPcs \ {"master"}
    BY DEF Reading, InBlocks, BookPcs
  <2>2. InHand = -1 /\ InHand' = -1 /\ LastRead = -1 /\ LastRead' = -1
    <3>1. book.area_count = 0 /\ book'.area_count = 0
      BY <1>1, NewBookHolds
    <3>2. InHand = 0 - 1 /\ LastRead = 0 - 1
      BY <2>1, <3>1 DEF InHand, LastRead
    <3>3. InHand' = 0 - 1 /\ LastRead' = 0 - 1
      BY <2>1, <3>1 DEF InHand, LastRead
    <3>4. 0 - 1 = -1
      OBVIOUS
    <3> QED BY <3>2, <3>3, <3>4
  <2>3. 0 .. (-1) = {}
    OBVIOUS
  <2>4. \A b \in heap : b[1] \notin AreaKinds
    BY <1>3, <2>2, <2>3 DEF AreasHeld
  <2>5. \A b \in heap' : b[1] \notin AreaKinds
    BY <2>4, Kinds DEF AreaKinds
  <2> QED BY <1>1, <2>1, <2>2, <2>3, <2>5, NewBookHolds DEF AreasHeld
<1>4. Sound' = Sound
  BY <1>1, SameDisc
<1> QED
  BY <1>2, <1>3, <1>4

(* A step of the reader keeps it all when it keeps what is held of the input.   *)
LEMMA ReaderHolds ==
    ASSUME BInv, pc \notin BookPcs, pc' \notin BookPcs, UNCHANGED bookVars,
           fds' \subseteq fds \cup {"mount table", "directory"}, sock' = sock,
           ~Idle' => /\ call'.net = Net'
                     /\ pc' = "opening" => call'.op = "open"
                     /\ pc' \in {"free reader", "end"} => call'.op = "close",
           outOfMemory' \/ /\ ~outOfMemory /\ (HeldInv => HeldInv')
                           /\ heap' \subseteq heap \cup {SacdReaderBlock}
                           /\ SacdReaderBlock \in heap' => pc' \in ReaderPcs
    PROVE  BInv'
<1>1. book' = book /\ tablesWhole' = tablesWhole
  BY DEF bookVars
<1>2. ShapeInv' /\ IndexInv' /\ TextsInv'
  BY <1>1, NoBook DEF BInv
<1>3. CallsInv' /\ RoomInv'
  <2>1. pc' \notin {"master", "read 1", "read 2", "ready"}
    BY DEF BookPcs
  <2> QED BY <2>1, NoTable
<1>4. ResourcesInv'
  BY DEF BInv, ResourcesInv
<1>5. HeapInv'
  <2>1. CASE outOfMemory'
    BY <2>1 DEF HeapInv
  <2>2. CASE ~outOfMemory'
    BY <1>1, <2>2, NoBookHeld DEF BInv, HeapInv
  <2> QED BY <2>1, <2>2
<1> QED
  BY <1>2, <1>3, <1>4, <1>5 DEF BInv

LEMMA ReaderThere ==
    ASSUME BInv, ~outOfMemory, SacdReaderBlock \in heap
    PROVE  pc \in ReaderPcs
<1>1. SacdReaderBlock \notin book.texts
  BY Kinds DEF BInv, TextsInv
<1> QED
  BY <1>1, Kinds DEF BInv, HeapInv, KindsInv, AreaKinds

(* While nothing is held of the input.                                          *)
LEMMA FreeHeld ==
    ASSUME HeldInv, InputFree, heap' = heap, sock' = sock, ~Connecting, ~Connecting',
           fds' \subseteq fds \cup {"mount table"}, "stdin" \in fds',
           "mount table" \in fds' => pc' = "opening"
    PROVE  HeldInv'
<1>1. InputFree'
  BY DEF InputFree
<1>2. sock' # "zero" /\ "directory" \notin fds'
  BY DEF HeldInv, Connecting
<1> QED
  BY <1>1, <1>2 DEF HeldInv, InputFree, Connecting

LEMMA OpensImage ==
    ASSUME Idle, NEW path, OpenImage(path)
    PROVE  /\ ~Idle' /\ ~Connecting' /\ pc' = "opening"
           /\ call'.net = Net' /\ call'.op = "open"
<1>1. call' = Call("open", sacd_input_setup(path), 0, 0) /\ location' = path /\ pc' = "opening"
  BY DEF OpenImage, Ask
<1>2. call'.op = "open" /\ call'.at = "start" /\ call'.net = sacd_input_setup(path)
  BY <1>1 DEF Call, NoCall
<1>3. Net' = sacd_input_setup(path)
  BY <1>1 DEF Net
<1> QED
  BY <1>1, <1>2, <1>3 DEF Idle, Connecting

LEMMA ClosesInput ==
    ASSUME NEW then, Ask("close", Net, 0, 0, then), location' = location
    PROVE  /\ ~Idle' /\ ~Connecting' /\ pc' = then /\ ~NoInput'
           /\ call'.net = Net' /\ call'.op = "close"
<1>1. call'.op = "close" /\ call'.at = "start" /\ call'.net = Net /\ pc' = then
  BY DEF Ask, Call, NoCall
<1>2. Net' = Net
  BY DEF Net
<1> QED
  BY <1>1, <1>2 DEF Idle, Connecting, NoInput

LEMMA ReaderStepsHold ==
    ASSUME OInv, ReaderStep, UNCHANGED bookVars
    PROVE  BInv'
<1>1. IInv /\ BInv
  BY DEF OInv
<1>2. HeldInv /\ NoInput => InputFree
  BY DEF HeldInv
<1>3. ~outOfMemory => HeldInv
  BY <1>1 DEF BInv, HeapInv
<1>4. Idle => ~Connecting
  BY DEF Idle, Connecting
<1>5. HeldInv => "stdin" \in fds /\ ("mount table" \in fds => pc = "opening")
  BY DEF HeldInv
<1>6. CASE sacd_open
  <2>1. /\ pc = "sacd_open" /\ Idle /\ heap' = heap /\ fds' = fds /\ sock' = sock
        /\ outOfMemory' \/ outOfMemory' = outOfMemory
    BY <1>6 DEF sacd_open, netVars
  <2>2. /\ pc' \in {"end", "resolve", "opening"} /\ ~Connecting'
        /\ ~Idle' => call'.net = Net' /\ pc' = "opening" /\ call'.op = "open"
    <3>1. CASE OpenImage(location)
      BY <2>1, <3>1, OpensImage
    <3>2. CASE UNCHANGED <<call, ret, location>> /\ pc' \in {"end", "resolve"}
      BY <2>1, <3>2 DEF Idle, Connecting
    <3> QED BY <1>6, <3>1, <3>2 DEF sacd_open, Fails
  <2>3. pc \notin BookPcs /\ pc' \notin BookPcs /\ pc \notin ReaderPcs
    BY <2>1, <2>2 DEF BookPcs, ReaderPcs
  <2>4. NoInput
    BY <2>1 DEF NoInput
  <2>5. ASSUME HeldInv PROVE HeldInv'
    BY <1>2, <1>4, <1>5, <2>1, <2>2, <2>4, <2>5, FreeHeld
  <2>6. ~outOfMemory => SacdReaderBlock \notin heap
    BY <1>1, <2>3, ReaderThere
  <2>7. /\ fds' \subseteq fds \cup {"mount table", "directory"}
        /\ ~Idle' => /\ call'.net = Net'
                     /\ pc' = "opening" => call'.op = "open"
                     /\ pc' \in {"free reader", "end"} => call'.op = "close"
        /\ heap' \subseteq heap \cup {SacdReaderBlock}
    BY <2>1, <2>2
  <2>8. outOfMemory' \/ (~outOfMemory /\ (SacdReaderBlock \in heap' => pc' \in ReaderPcs))
    BY <2>1, <2>6
  <2> QED BY <1>1, <2>1, <2>3, <2>5, <2>7, <2>8, ReaderHolds
<1>7. CASE ResolveDirectory
  <2>1. pc = "resolve" /\ Idle /\ sock' = sock
    BY <1>1, <1>7, Waiting DEF ResolveDirectory, Waits, netVars
  <2>2. UNCHANGED <<call, ret, location>> /\ pc' \in {"end", "mounts"} /\ Idle' /\ ~Connecting'
    BY <1>7, <2>1 DEF ResolveDirectory, Fails, Idle, Connecting
  <2>3. pc \notin BookPcs /\ pc' \notin BookPcs /\ pc \notin ReaderPcs
    BY <2>1, <2>2 DEF BookPcs, ReaderPcs
  <2>4. NoInput
    BY <2>1 DEF NoInput
  <2>5. /\ fds' \subseteq fds \cup {"directory"}
        /\ outOfMemory' \/ UNCHANGED <<heap, fds, outOfMemory>>
    BY <1>7 DEF ResolveDirectory
  <2>6. ~outOfMemory => SacdReaderBlock \notin heap
    BY <1>1, <2>3, ReaderThere
  <2>7. CASE outOfMemory'
    BY <1>1, <2>1, <2>2, <2>3, <2>5, <2>7, ReaderHolds
  <2>8. CASE ~outOfMemory'
    <3>1. UNCHANGED <<heap, fds, outOfMemory>>
      BY <2>5, <2>8
    <3>2. ASSUME HeldInv PROVE HeldInv'
      BY <1>2, <1>4, <1>5, <2>1, <2>2, <2>4, <3>1, <3>2, FreeHeld
    <3> QED BY <1>1, <2>1, <2>2, <2>3, <2>5, <2>6, <2>8, <3>1, <3>2, ReaderHolds
  <2> QED BY <2>7, <2>8
<1>8. CASE LookUpMount
  <2>1. pc = "mounts" /\ Idle /\ sock' = sock /\ heap' = heap /\ outOfMemory' = outOfMemory
    BY <1>1, <1>8, Waiting DEF LookUpMount, Waits, netVars, unlessOpening
  <2>2. /\ pc' \in {"end", "opening"} /\ ~Connecting'
        /\ ~Idle' => call'.net = Net' /\ pc' = "opening" /\ call'.op = "open"
        /\ fds' = fds \/ (fds' = fds \cup {"mount table"} /\ pc' = "opening")
    <3>1. CASE Fails /\ UNCHANGED fds
      BY <2>1, <3>1 DEF Fails, Idle, Connecting
    <3>2. CASE /\ OpenImage([stat |-> "block", dots |-> 0, colon |-> FALSE, mounted |-> FALSE])
               /\ fds' = fds \cup {"mount table"}
      BY <2>1, <3>2, OpensImage
    <3> QED BY <1>8, <3>1, <3>2 DEF LookUpMount
  <2>3. pc \notin BookPcs /\ pc' \notin BookPcs /\ pc \notin ReaderPcs
    BY <2>1, <2>2 DEF BookPcs, ReaderPcs
  <2>4. NoInput
    BY <2>1 DEF NoInput
  <2>5. ASSUME HeldInv PROVE HeldInv'
    <3>1. InputFree /\ ~Connecting
      BY <1>2, <1>4, <2>1, <2>4, <2>5
    <3>2. "stdin" \in fds' /\ ("mount table" \in fds' => pc' = "opening")
      BY <1>5, <2>1, <2>2, <2>5
    <3> QED BY <2>1, <2>2, <2>5, <3>1, <3>2, FreeHeld
  <2>6. ~outOfMemory => SacdReaderBlock \notin heap
    BY <1>1, <2>3, ReaderThere
  <2>7. /\ fds' \subseteq fds \cup {"mount table", "directory"}
        /\ ~Idle' => /\ call'.net = Net'
                     /\ pc' = "opening" => call'.op = "open"
                     /\ pc' \in {"free reader", "end"} => call'.op = "close"
        /\ heap' \subseteq heap \cup {SacdReaderBlock}
    BY <2>1, <2>2
  <2>8. outOfMemory' \/ (~outOfMemory /\ (SacdReaderBlock \in heap' => pc' \in ReaderPcs))
    BY <2>1, <2>6
  <2> QED BY <1>1, <2>1, <2>3, <2>5, <2>7, <2>8, ReaderHolds
<1>9. CASE sacd_open_image_file
  <2>1. /\ pc = "opening" /\ Idle /\ sock' = sock /\ fds' = fds \ {"mount table"}
        /\ pc \notin BookPcs
    BY <1>9 DEF sacd_open_image_file, netVars, BookPcs
  <2>2. CASE ~ret.ok /\ Fails /\ UNCHANGED <<heap, outOfMemory>>
    <3>1. UNCHANGED <<call, ret, location>> /\ pc' = "end" /\ Idle' /\ ~Connecting'
      BY <2>1, <2>2 DEF Fails, Idle, Connecting
    <3>2. pc \notin BookPcs /\ pc' \notin BookPcs /\ pc \notin ReaderPcs
      BY <2>1, <3>1 DEF BookPcs, ReaderPcs
    <3>3. NoInput
      BY <2>1, <2>2 DEF NoInput
    <3>4. ASSUME HeldInv PROVE HeldInv'
      <4>1. "stdin" \in fds' /\ fds' \subseteq fds \cup {"mount table"} /\ "mount table" \notin fds'
        BY <1>5, <2>1, <3>4
      <4> QED BY <1>2, <1>4, <2>1, <2>2, <3>1, <3>3, <3>4, <4>1, FreeHeld
    <3>5. ~outOfMemory => SacdReaderBlock \notin heap
      BY <1>1, <3>2, ReaderThere
    <3>6. fds' \subseteq fds \cup {"mount table", "directory"}
      BY <2>1
    <3> QED BY <1>1, <2>1, <2>2, <3>1, <3>2, <3>4, <3>5, <3>6, ReaderHolds
  <2>3. CASE Ask("close", Net, 0, 0, "end") /\ outOfMemory' = TRUE /\ UNCHANGED <<heap, location>>
    <3>1. /\ ~Idle' /\ pc' = "end" /\ call'.net = Net' /\ call'.op = "close"
      BY <2>3, ClosesInput
    <3>2. pc' \notin BookPcs
      BY <3>1 DEF BookPcs
    <3>3. fds' \subseteq fds \cup {"mount table", "directory"}
      BY <2>1
    <3> QED BY <1>1, <2>1, <2>3, <3>1, <3>2, <3>3, ReaderHolds
  <2>4. CASE /\ pc' = "scarletbook_open" /\ heap' = heap \cup {SacdReaderBlock}
             /\ UNCHANGED <<call, ret, location, outOfMemory>>
    <3>1. Idle' /\ ~Connecting /\ ~Connecting' /\ ~NoInput' /\ Net' = Net
      BY <2>1, <2>4 DEF Idle, Connecting, NoInput, Net
    <3>2. pc' \notin BookPcs /\ pc' \in ReaderPcs
      BY <2>4 DEF BookPcs, ReaderPcs
    <3>3. ASSUME HeldInv PROVE HeldInv'
      <4>1. InputBuffer \in heap' => InputBuffer \in heap
        BY <2>4, Kinds
      <4> QED BY <2>1, <2>4, <3>1, <3>3, <4>1 DEF HeldInv, Connecting
    <3>4. fds' \subseteq fds \cup {"mount table", "directory"}
      BY <2>1
    <3> QED BY <1>1, <2>1, <2>4, <3>1, <3>2, <3>3, <3>4, ReaderHolds
  <2> QED BY <1>9, <2>2, <2>3, <2>4 DEF sacd_open_image_file
<1>10. CASE sacd_close
  <2>1. /\ pc = "sacd_close" /\ Idle
        /\ UNCHANGED <<heap, fds, sock, location, outOfMemory>>
        /\ Ask("close", Net, 0, 0, "free reader")
    BY <1>1, <1>10, Waiting DEF sacd_close, Waits, netVars, unlessOpening
  <2>2. /\ ~Idle' /\ ~Connecting' /\ pc' = "free reader" /\ ~NoInput'
        /\ call'.net = Net' /\ call'.op = "close"
    BY <2>1, ClosesInput
  <2>3. pc \notin BookPcs /\ pc' \notin BookPcs /\ pc' \in ReaderPcs
    BY <2>1, <2>2 DEF BookPcs, ReaderPcs
  <2>4. ASSUME HeldInv PROVE HeldInv'
    <3>1. Net' = Net
      BY <2>1 DEF Net
    <3>2. "mount table" \notin fds
      BY <1>5, <2>1, <2>4
    <3>3. ~Connecting /\ UNCHANGED <<heap, fds, sock>> /\ ~Connecting' /\ ~NoInput'
      BY <1>4, <2>1, <2>2
    <3> QED BY <2>4, <3>1, <3>2, <3>3 DEF HeldInv, Connecting
  <2> QED BY <1>1, <2>1, <2>2, <2>3, <2>4, ReaderHolds
<1>11. CASE FreeReader
  <2>1. /\ pc = "free reader" /\ Idle /\ pc' = "end" /\ heap' = heap \ {SacdReaderBlock}
        /\ UNCHANGED <<call, ret, fds, sock, location, outOfMemory>>
    BY <1>11 DEF FreeReader, netVars, unlessOpening
  <2>2. Idle' /\ ~Connecting /\ ~Connecting' /\ NoInput /\ Net' = Net
    BY <2>1 DEF Idle, Connecting, NoInput, Net
  <2>3. pc \notin BookPcs /\ pc' \notin BookPcs
    BY <2>1 DEF BookPcs
  <2>4. ASSUME HeldInv PROVE HeldInv'
    <3>1. InputFree'
      BY <1>2, <2>1, <2>2, <2>4 DEF InputFree
    <3>2. "mount table" \notin fds
      BY <1>5, <2>1, <2>4
    <3> QED BY <2>1, <2>2, <2>4, <3>1, <3>2 DEF HeldInv, InputFree, Connecting
  <2> QED BY <1>1, <2>1, <2>2, <2>3, <2>4, ReaderHolds
<1> QED
  BY <1>6, <1>7, <1>8, <1>9, <1>10, <1>11 DEF ReaderStep
-------------------------------------------------------------------------------
(* The steps of the book                                                      *)

LEMMA BookHeld ==
    ASSUME HeldInv, Idle, pc # "opening", UNCHANGED <<fds, sock, location>>,
           InputBuffer \in heap' => InputBuffer \in heap,
           Idle' \/ call'.op \in {"read", "total"}, pc' \in BookPcs \cup {"sacd_close"}
    PROVE  HeldInv'
<1>1. ~NoInput' /\ ~Connecting' /\ ~Connecting
  BY DEF NoInput, Connecting, Idle, BookPcs
<1>2. Net' = Net
  BY DEF Net
<1>3. "mount table" \notin fds
  BY DEF HeldInv
<1> QED
  BY <1>1, <1>2, <1>3 DEF HeldInv, Connecting

LEMMA BookHolds ==
    ASSUME BInv, Idle, pc # "opening", UNCHANGED <<fds, sock, location, disc>>,
           InputBuffer \in heap' => InputBuffer \in heap,
           Idle' \/ call'.op \in {"read", "total"}, pc' \in BookPcs \cup {"sacd_close"},
           ShapeInv' /\ IndexInv' /\ TextsInv', CallsInv' /\ RoomInv',
           tablesWhole' => tablesWhole,
           \/ outOfMemory'
           \/ /\ ~outOfMemory /\ (KindsInv => KindsInv')
              /\ KindsInv /\ AreasHeld /\ tablesWhole' /\ Sound => AreasHeld'
    PROVE  BInv'
<1>1. ResourcesInv'
  BY DEF BInv, ResourcesInv
<1>2. Sound' = Sound
  BY SameDisc
<1>3. HeldInv => HeldInv'
  BY BookHeld
<1>4. HeapInv'
  BY <1>2, <1>3 DEF BInv, HeapInv
<1> QED
  BY <1>1, <1>4 DEF BInv

LEMMA AsksForBlocks ==
    ASSUME NEW pos, NEW n, NEW then, sacd_read_block_raw(pos, n, then), location' = location
    PROVE  /\ ~Idle' /\ call'.net = Net' /\ call'.op = "read" /\ pc' = then
           /\ Asked' = <<"read", pos, n>> /\ DOMAIN buffer' = 1 .. 2 * n
<1>1. /\ call'.op = "read" /\ call'.net = Net /\ call'.pos = pos /\ call'.n = n /\ pc' = then
      /\ buffer' = [i \in 1 .. 2 * n |-> Junk]
  BY DEF sacd_read_block_raw, Ask, Call, NoCall
<1>2. Net' = Net
  BY DEF Net
<1> QED
  BY <1>1, <1>2 DEF Idle, Asked

(* No area is in hand.                                                          *)
LEMMA NoneBelow == 0 .. (0 - 1) = {}
OBVIOUS

LEMMA NoAreas ==
    ASSUME AreasHeld, book = NewBook, pc \notin BookPcs \ {"master"}
    PROVE  \A b \in heap : b[1] \notin AreaKinds
<1>1. ~Reading /\ ~InBlocks
  BY DEF Reading, InBlocks, BookPcs
<1>2. book.area_count = 0
  BY NewBookHolds
<1>3. InHand = 0 - 1
  BY <1>1, <1>2 DEF InHand
<1>4. 0 .. InHand = {}
  BY <1>3
<1> QED
  BY <1>4 DEF AreasHeld

LEMMA NoAreasHeld ==
    ASSUME book'.area_count = 0, book'.mulch_area_idx = -1,
           \A i \in 0 .. 1 : book'.area[i].texts = {} /\ book'.area[i].description = {},
           pc' \in {"master", "area 1", "sacd_close"},
           \A b \in heap' : b[1] \notin AreaKinds,
           pc' = "area 1" => book'.starts = MasterToc'.starts /\ book'.sizes = MasterToc'.sizes
    PROVE  AreasHeld'
<1>1. ~InBlocks' /\ pc' \notin {"blocks 2", "ready"}
      /\ (pc' \in BookPcs \ {"master"} => pc' = "area 1")
  BY DEF InBlocks, BookPcs
<1>2. LastRead' = 0 - 1
  BY <1>1 DEF LastRead
<1>3. 0 .. LastRead' = {}
  BY <1>2, NoneBelow, Zenon
<1> QED
  BY <1>1, <1>3 DEF AreasHeld

LEMMA OpensBook ==
    ASSUME OInv, scarletbook_open
    PROVE  BInv'
<1>1. BInv /\ IInv
  BY DEF OInv
<1>2. /\ pc = "scarletbook_open" /\ Idle /\ pc # "opening" /\ pc \notin BookPcs
      /\ UNCHANGED <<fds, sock, location, disc, tablesWhole>>
  BY <1>1, Waiting DEF scarletbook_open, Waits, BookPcs, netVars
<1>3. book = NewBook
  BY <1>1, <1>2 DEF BInv, ShapeInv
<1>4. CASE /\ outOfMemory' = TRUE /\ pc' = "sacd_close"
           /\ heap' \in {heap, heap \cup {Sb}}
           /\ UNCHANGED <<call, ret, buffer, book>>
  <2>1. Idle' /\ pc' \notin BookPcs /\ (InputBuffer \in heap' => InputBuffer \in heap)
    BY <1>2, <1>4, Kinds DEF Idle, BookPcs
  <2>2. ShapeInv' /\ IndexInv' /\ TextsInv'
    BY <1>2, <1>3, <1>4, <2>1, NoHandle
  <2>3. CallsInv' /\ RoomInv'
    BY <1>4, <2>1, NoTable
  <2> QED BY <1>1, <1>2, <1>4, <2>1, <2>2, <2>3, BookHolds
<1>5. CASE /\ book' = NewBook
           /\ heap' = heap \cup {Sb, FrameData, MasterData}
           /\ sacd_read_block_raw(START_OF_MASTER_TOC, MASTER_TOC_LEN, "master")
           /\ UNCHANGED outOfMemory
  <2>1. /\ ~Idle' /\ call'.net = Net' /\ call'.op = "read" /\ pc' = "master"
        /\ Asked' = <<"read", START_OF_MASTER_TOC, MASTER_TOC_LEN>>
        /\ DOMAIN buffer' = 1 .. 2 * MASTER_TOC_LEN
    BY <1>2, <1>5, AsksForBlocks
  <2>2. pc' \in BookPcs /\ pc' \notin BookPcs \ {"master"}
        /\ \A k \in 1 .. 2 : pc' # ReadPc(k)
    BY <2>1 DEF BookPcs, ReadPc
  <2>3. ShapeInv' /\ IndexInv' /\ TextsInv'
    BY <1>5, <2>2, NoHandle
  <2>4. CallsInv' /\ RoomInv'
    BY <2>1, <2>2 DEF CallsInv, RoomInv
  <2>5. InputBuffer \in heap' => InputBuffer \in heap
    BY <1>5, Kinds
  <2>6. KindsInv => KindsInv'
    <3>1. pc \in ReaderPcs /\ pc' \in ReaderPcs
      BY <1>2, <2>2 DEF ReaderPcs
    <3> QED BY <1>2, <1>3, <1>5, <2>2, <3>1, NewBookHolds DEF KindsInv
  <2>7. ASSUME AreasHeld PROVE AreasHeld'
    <3>1. \A b \in heap : b[1] \notin AreaKinds
      BY <1>2, <1>3, <2>7, NoAreas
    <3>2. \A b \in heap' : b[1] \notin AreaKinds
      BY <1>5, <3>1, Kinds DEF AreaKinds
    <3>3. /\ book'.area_count = 0 /\ book'.mulch_area_idx = -1
          /\ \A i \in 0 .. 1 : book'.area[i].texts = {} /\ book'.area[i].description = {}
      BY <1>5, NewBookHolds
    <3> QED BY <2>1, <3>2, <3>3, NoAreasHeld
  <2>8. outOfMemory' \/ ~outOfMemory
    BY <1>5
  <2> QED BY <1>1, <1>2, <2>1, <2>2, <2>3, <2>4, <2>5, <2>6, <2>7, <2>8, BookHolds
<1> QED
  BY <1>4, <1>5 DEF scarletbook_open

(* The book is closed: by itself, or when the master table is not valid or there *)
(* is no memory for an area.                                                    *)
LEMMA ClosesBook ==
    ASSUME BInv, Idle, pc \in BookPcs, CloseBook,
           UNCHANGED <<call, ret, buffer, fds, sock, location, disc>>,
           tablesWhole' => tablesWhole,
           outOfMemory' \/ (~outOfMemory /\ pc \in {"master", "ready"})
    PROVE  BInv'
<1>1. heap' = heap \ Released(book) /\ book' = NewBook /\ pc' = "sacd_close" /\ Idle'
  BY DEF CloseBook, Idle
<1>2. pc' \notin BookPcs /\ pc # "opening" /\ pc' \in ReaderPcs
  BY <1>1 DEF BookPcs, ReaderPcs
<1>3. ShapeInv' /\ IndexInv' /\ TextsInv'
  BY <1>1, <1>2, NoHandle
<1>4. CallsInv' /\ RoomInv'
  BY <1>1, NoTable
<1>5. ASSUME KindsInv PROVE KindsInv'
  <2>1. \A b \in heap' : b \in heap /\ b \notin {Sb, FrameData, MasterData} /\ b \notin book.texts
    BY <1>1 DEF Released
  <2> QED BY <1>2, <1>5, <2>1 DEF KindsInv
<1>6. ASSUME AreasHeld, pc \in {"master", "ready"} PROVE AreasHeld'
  <2>1. ~Reading /\ ~InBlocks
    BY <1>6 DEF Reading, InBlocks
  <2>2. InHand = LastRead
    BY <2>1 DEF InHand, LastRead
  <2>3. ASSUME NEW b \in heap', b[1] \in AreaKinds PROVE FALSE
    <3>1. b \in heap /\ b \notin Released(book)
      BY <1>1
    <3>2. PICK i \in 0 .. LastRead : b \in free_area(book.area[i]) \cup {AreaData(book.area[i].data)}
      BY <1>6, <2>2, <2>3, <3>1 DEF AreasHeld
    <3>3. i \in {book.twoch_area_idx, book.mulch_area_idx} \ {-1}
      BY <1>6 DEF AreasHeld, Indices
    <3> QED BY <3>1, <3>2, <3>3 DEF Released
  <2>4. /\ book'.area_count = 0 /\ book'.mulch_area_idx = -1
        /\ \A i \in 0 .. 1 : book'.area[i].texts = {} /\ book'.area[i].description = {}
    BY <1>1, NewBookHolds
  <2> QED BY <1>1, <2>3, <2>4, NoAreasHeld
<1>7. InputBuffer \in heap' => InputBuffer \in heap
  BY <1>1
<1> QED
  BY <1>1, <1>2, <1>3, <1>4, <1>5, <1>6, <1>7, BookHolds

LEMMA BookCloses ==
    ASSUME OInv, scarletbook_close
    PROVE  BInv'
<1>1. BInv /\ pc = "ready" /\ pc \in BookPcs /\ Idle /\ CloseBook
      /\ UNCHANGED <<call, ret, outOfMemory, buffer, fds, sock, location, disc, tablesWhole>>
  BY DEF OInv, scarletbook_close, unlessBook, netVars, BookPcs
<1>2. CASE outOfMemory
  BY <1>1, <1>2, ClosesBook
<1>3. CASE ~outOfMemory
  BY <1>1, <1>3, ClosesBook
<1> QED
  BY <1>2, <1>3

(* A table that has been read whole is the disc's.                              *)
LEMMA WholeRead ==
    ASSUME InputInv, Idle, ret.op = "read", inStep, ~pieces, ret.v = ret.n,
           ret.pos \in Nat, ret.n \in Nat, ret.n > 0, DOMAIN buffer = 1 .. 2 * ret.n
    PROVE  Content(0) = disc.sectors[ret.pos + 1]
<1> DEFINE n == ret.n
           S == {buffer[i] : i \in 1 .. 2 * n}
<1>1. ret.v > 0 /\ ret.pos + 1 \in 1 .. Sectors
  BY NetAssumption DEF InputInv, ReturnInv
<1>2. SubSeq(buffer, 1, 2 * n) = SectorsFrom(ret.pos, n)
  BY <1>1 DEF InputInv, SectorsDelivered
<1>3. 2 * n \in Nat /\ 2 <= 2 * n
  OBVIOUS
<1>4. buffer \in [1 .. 2 * n -> S]
  BY DEF InputInv, BufferInv
<1> HIDE DEF S
<1>5. buffer \in Seq(S) /\ Len(buffer) = 2 * n
  BY <1>3, <1>4, SeqDef, LenProperties
<1> HIDE DEF n
<1>6. SubSeq(buffer, 1, 2 * n)[1] = buffer[1] /\ SubSeq(buffer, 1, 2 * n)[2] = buffer[2]
  BY <1>3, <1>5, SubSeqProperties
<1>7. SectorsFrom(ret.pos, n)[1] = 2 * ret.pos /\ SectorsFrom(ret.pos, n)[2] = 2 * ret.pos + 1
  BY <1>3 DEF SectorsFrom
<1>8. SubSeq(buffer, 1, 2) = Sector(ret.pos)
  <2>1. SubSeq(buffer, 1, 2) \in Seq(S) /\ Len(SubSeq(buffer, 1, 2)) = 2
        /\ SubSeq(buffer, 1, 2)[1] = buffer[1] /\ SubSeq(buffer, 1, 2)[2] = buffer[2]
    BY <1>3, <1>5, SubSeqProperties
  <2>2. \A s \in Seq(S) : Len(s) = 2 => s = <<s[1], s[2]>>
    OBVIOUS
  <2>3. SubSeq(buffer, 1, 2) = <<buffer[1], buffer[2]>>
    BY <2>1, <2>2, Zenon
  <2> QED BY <1>2, <1>6, <1>7, <2>3 DEF Sector
<1>9. Content(0) = ContentOf(SubSeq(buffer, 1, 2))
  BY <1>3, <1>5 DEF Content
<1>10. ContentOf(Sector(ret.pos)) = disc.sectors[ret.pos + 1]
  <2>1. ret.pos \in 0 .. Sectors - 1 /\ (2 * ret.pos) \div 2 = ret.pos
    BY <1>1, NetAssumption
  <2>2. Sector(ret.pos)[1] = 2 * ret.pos
    BY DEF Sector
  <2> QED BY <2>1, <2>2 DEF ContentOf
<1> QED
  BY <1>8, <1>9, <1>10

LEMMA ReadsMaster ==
    ASSUME OInv, scarletbook_read_master_toc
    PROVE  BInv'
<1>1. BInv /\ InputInv
  BY DEF OInv, IInv
<1>2. /\ pc = "master" /\ Idle /\ pc # "opening" /\ pc \in BookPcs
      /\ UNCHANGED <<call, ret, outOfMemory, buffer, fds, sock, location, disc>>
      /\ tablesWhole' => tablesWhole /\ ret.v = ret.n /\ inStep /\ ~pieces
  BY DEF scarletbook_read_master_toc, TableRead, unlessBook, netVars, BookPcs
<1>3. book = NewBook
  BY <1>1, <1>2 DEF BInv, ShapeInv
<1>4. CASE heap' = heap \ Released(book) /\ book' = NewBook /\ pc' = "sacd_close"
  <2>1. CloseBook
    BY <1>4 DEF CloseBook
  <2>2. CASE outOfMemory
    BY <1>1, <1>2, <2>1, <2>2, ClosesBook
  <2>3. CASE ~outOfMemory
    BY <1>1, <1>2, <2>1, <2>3, ClosesBook
  <2> QED BY <2>2, <2>3
<1>5. CASE /\ book' = [book EXCEPT !.texts = MasterTexts, !.starts = Content(0).starts,
                                   !.sizes = Content(0).sizes]
           /\ heap' = heap \cup MasterTexts
           /\ pc' = "area 1"
  <2>1. /\ DOMAIN book' = DOMAIN book /\ book'.area = book.area /\ book'.block = book.block
        /\ book'.area_count = book.area_count /\ book'.twoch_area_idx = book.twoch_area_idx
        /\ book'.mulch_area_idx = book.mulch_area_idx /\ book'.texts = MasterTexts
        /\ book'.starts = Content(0).starts /\ book'.sizes = Content(0).sizes
    BY <1>1, <1>5 DEF BInv, ShapeInv
  <2>2. /\ book.area_count = 0 /\ book.block = 0 /\ book.twoch_area_idx = -1
        /\ book.mulch_area_idx = -1 /\ book.texts = {}
        /\ \A i \in 0 .. 1 : book.area[i].texts = {} /\ book.area[i].description = {}
    BY <1>3, NewBookHolds
  <2>3. \A b \in MasterTexts : b[1] = "master text" /\ b \in heap'
    BY <1>5, Kinds DEF MasterTexts
  <2>4. Idle' /\ pc' \in BookPcs \ {"master"} /\ ~Second' /\ ~InBlocks' /\ ~Reading'
        /\ pc' \notin {"master", "read 1", "read 2"}
    BY <1>2, <1>5 DEF Idle, BookPcs, Second, InBlocks, Reading
  <2>5. ShapeInv'
    <3>1. 0 \in 0 .. 2 /\ 0 \in Nat /\ ~(0 > 0)
      OBVIOUS
    <3>2. /\ DOMAIN book.area = 0 .. 1
          /\ \A i \in 0 .. 1 : DOMAIN book.area[i]
                           = {"data", "toc", "channels", "texts", "description", "tables"}
          /\ DOMAIN book = {"area_count", "twoch_area_idx", "mulch_area_idx", "area", "texts",
                            "starts", "sizes", "block"}
      BY <1>1 DEF BInv, ShapeInv
    <3> QED BY <2>1, <2>2, <2>4, <3>1, <3>2 DEF ShapeInv
  <2>6. IndexInv'
    BY <2>1, <2>2, <2>4 DEF IndexInv, Indices, has_two_channel
  <2>7. TextsInv'
    <3>1. {Sb, FrameData, MasterData} \subseteq heap'
      BY <1>1, <1>2, <1>5 DEF BInv, TextsInv
    <3> QED BY <2>1, <2>2, <2>3, <3>1 DEF TextsInv
  <2>8. CallsInv' /\ RoomInv'
    BY <2>4, NoTable
  <2>9. KindsInv => KindsInv'
    <3>1. pc \in ReaderPcs /\ pc' \in ReaderPcs /\ pc' \in BookPcs
      BY <1>2, <2>4 DEF ReaderPcs
    <3> QED BY <1>5, <2>1, <2>2, <3>1 DEF KindsInv
  <2>10. ASSUME AreasHeld, tablesWhole' PROVE AreasHeld'
    <3>1. \A b \in heap : b[1] \notin AreaKinds
      BY <1>2, <1>3, <2>10, NoAreas
    <3>2. \A b \in heap' : b[1] \notin AreaKinds
      BY <1>5, <2>3, <3>1 DEF AreaKinds
    <3>3. /\ ret.op = "read" /\ ret.pos = START_OF_MASTER_TOC /\ ret.n = MASTER_TOC_LEN
          /\ DOMAIN buffer = 1 .. 2 * ret.n
      BY <1>1, <1>2 DEF BInv, CallsInv, RoomInv, Asked
    <3>4. START_OF_MASTER_TOC \in Nat /\ MASTER_TOC_LEN \in Nat /\ MASTER_TOC_LEN > 0
      BY BookAssumption DEF MASTER_TOC_LEN
    <3>5. Content(0) = MasterToc
      BY <1>1, <1>2, <2>10, <3>3, <3>4, WholeRead DEF MasterToc
    <3>6. MasterToc' = MasterToc
      BY <1>2, SameDisc
    <3> QED BY <1>5, <2>1, <2>2, <3>2, <3>5, <3>6, NoAreasHeld
  <2>11. InputBuffer \in heap' => InputBuffer \in heap
    BY <1>5, <2>3, Kinds
  <2>12. CASE outOfMemory'
    BY <1>1, <1>2, <2>4, <2>5, <2>6, <2>7, <2>8, <2>11, <2>12, BookHolds
  <2>13. CASE ~outOfMemory'
    BY <1>1, <1>2, <2>4, <2>5, <2>6, <2>7, <2>8, <2>9, <2>10, <2>11, <2>13, BookHolds
  <2> QED BY <2>12, <2>13
<1> QED
  BY <1>4, <1>5 DEF scarletbook_read_master_toc

(* The table of an area goes into the next of the two places there are.         *)
LEMMA AreaInHand ==
    ASSUME ShapeInv, NEW k \in 1 .. 2, pc \in {AreaPc(k), ReadPc(k), BlocksPc(k)}
    PROVE  /\ book.area_count \in 0 .. 1 /\ (k = 1 => book.area_count = 0)
           /\ pc \in BookPcs \ {"master", "ready"} /\ pc # "opening"
           /\ (Reading <=> pc = ReadPc(k)) /\ (InBlocks <=> pc = BlocksPc(k))
<1>1. k = 1 \/ k = 2
  OBVIOUS
<1>2. k = 1 => First
  BY DEF First, AreaPc, ReadPc, BlocksPc
<1>3. k = 2 => Second
  <2>0. k = 2 => k # 1
    OBVIOUS
  <2>1. k = 2 => AreaPc(k) = "area 2" /\ ReadPc(k) = "read 2" /\ BlocksPc(k) = "blocks 2"
    BY <2>0, Zenon DEF AreaPc, ReadPc, BlocksPc
  <2> QED BY <2>1, Zenon DEF Second
<1>4. book.area_count \in 0 .. 1 /\ (k = 1 => book.area_count = 0)
  BY <1>1, <1>2, <1>3 DEF ShapeInv
<1>5. pc \in BookPcs \ {"master", "ready"} /\ pc # "opening"
  BY DEF BookPcs, AreaPc, ReadPc, BlocksPc
<1>6. (Reading <=> pc = ReadPc(k)) /\ (InBlocks <=> pc = BlocksPc(k))
  BY DEF Reading, InBlocks, AreaPc, ReadPc, BlocksPc
<1> QED
  BY <1>4, <1>5, <1>6

(* What follows an area.                                                        *)
LEMMA FollowingIs ==
    ASSUME NEW k \in 1 .. 2, pc' = Following(k)
    PROVE  /\ pc' \in {"area 2", "ready"} /\ pc' \in BookPcs \ {"master"} /\ pc' \in ReaderPcs
           /\ ~First' /\ ~Reading' /\ ~InBlocks' /\ (Second' => k = 1)
           /\ pc' \notin {"master", "read 1", "read 2", "blocks 2"} /\ (pc' # "ready" => k = 1)
BY DEF Following, BookPcs, ReaderPcs, First, Reading, InBlocks, Second

(* The program goes on to the next area or to ripping, the handle as it was but  *)
(* for a place that turns out not to hold tables.                               *)
LEMMA AreaAbsent ==
    ASSUME BInv, Idle, NEW k \in 1 .. 2, pc \in {AreaPc(k), ReadPc(k)}, pc' = Following(k),
           UNCHANGED <<call, ret, outOfMemory, heap, fds, sock, location, disc>>,
           \/ pc = AreaPc(k) /\ UNCHANGED <<book, tablesWhole>>
           \/ /\ book' = [book EXCEPT !.starts[k] = 0]
              /\ tablesWhole' => tablesWhole
              /\ ~(AreasHeld /\ Sound /\ tablesWhole')
    PROVE  BInv'
<1>1. /\ book.area_count \in 0 .. 1 /\ (k = 1 => book.area_count = 0)
      /\ pc \in BookPcs \ {"master", "ready"} /\ pc # "opening" /\ ~InBlocks
  <2>1. AreaPc(k) # BlocksPc(k) /\ ReadPc(k) # BlocksPc(k)
    BY DEF AreaPc, ReadPc, BlocksPc
  <2> QED BY <2>1, AreaInHand DEF BInv
<1>2. /\ pc' \in {"area 2", "ready"} /\ pc' \in BookPcs \ {"master"} /\ pc' \in ReaderPcs
      /\ ~First' /\ ~Reading' /\ ~InBlocks' /\ (Second' => k = 1)
      /\ pc' \notin {"master", "read 1", "read 2", "blocks 2"} /\ (pc' # "ready" => k = 1)
  BY FollowingIs
<1>3. /\ DOMAIN book' = DOMAIN book /\ book'.area = book.area /\ book'.block = book.block
      /\ book'.area_count = book.area_count /\ book'.twoch_area_idx = book.twoch_area_idx
      /\ book'.mulch_area_idx = book.mulch_area_idx /\ book'.texts = book.texts
  <2>1. CASE book' = book
    BY <2>1
  <2>2. CASE book' = [book EXCEPT !.starts[k] = 0]
    BY <2>2 DEF BInv, ShapeInv
  <2> QED BY <2>1, <2>2
<1>4. Indices' = Indices /\ LastRead' = LastRead
  BY <1>1, <1>2, <1>3 DEF Indices, LastRead
<1>5. ShapeInv'
  <2>1. /\ DOMAIN book'.area = 0 .. 1
        /\ \A i \in 0 .. 1 : DOMAIN book'.area[i]
                           = {"data", "toc", "channels", "texts", "description", "tables"}
        /\ DOMAIN book' = {"area_count", "twoch_area_idx", "mulch_area_idx", "area", "texts",
                            "starts", "sizes", "block"}
        /\ book'.area_count \in 0 .. 2 /\ book'.block \in Nat /\ ~(book'.block > 0)
    BY <1>1, <1>3 DEF BInv, ShapeInv
  <2>2. Second' => book'.area_count <= 1
    <3>1. book.area_count <= 1
      BY <1>1
    <3> QED BY <1>3, <3>1
  <2> QED BY <1>2, <2>1, <2>2 DEF ShapeInv
<1>6. IndexInv'
  BY <1>2, <1>3, <1>4 DEF BInv, IndexInv, has_two_channel
<1>7. TextsInv'
  BY <1>1, <1>3 DEF BInv, TextsInv
<1>8. Idle' /\ CallsInv' /\ RoomInv'
  <2>1. Idle'
    BY DEF Idle
  <2> QED BY <1>2, <2>1, NoTable
<1>9. KindsInv => KindsInv'
  <2>1. pc \in ReaderPcs /\ pc \in BookPcs
    BY <1>1 DEF ReaderPcs
  <2> QED BY <1>2, <1>3, <2>1 DEF KindsInv
<1>10. ASSUME AreasHeld, pc = AreaPc(k), book' = book PROVE AreasHeld'
  <2>1. ~Reading /\ pc \notin {"blocks 2", "ready"}
    BY <1>10 DEF Reading, AreaPc
  <2>2. InHand' = InHand
    BY <1>1, <1>2, <1>3, <2>1 DEF InHand
  <2>3. MasterToc' = MasterToc
    BY SameDisc
  <2> QED BY <1>1, <1>2, <1>4, <1>10, <2>1, <2>2, <2>3 DEF AreasHeld
<1>11. tablesWhole' => tablesWhole
  OBVIOUS
<1>12. KindsInv /\ AreasHeld /\ tablesWhole' /\ Sound => AreasHeld'
  BY <1>10
<1> QED
  <2>1. CASE outOfMemory'
    BY <1>1, <1>2, <1>5, <1>6, <1>7, <1>8, <1>11, <2>1, BookHolds
  <2>2. CASE ~outOfMemory'
    BY <1>1, <1>2, <1>5, <1>6, <1>7, <1>8, <1>9, <1>11, <1>12, <2>2, BookHolds
  <2> QED BY <2>1, <2>2

LEMMA AreaGoesOn ==
    ASSUME NEW k \in 1 .. 2, pc' \in {ReadPc(k), BlocksPc(k)}
    PROVE  /\ pc' \in BookPcs \ {"master", "ready"} /\ pc' \in ReaderPcs
           /\ (First' => k = 1) /\ (Reading' <=> pc' = ReadPc(k)) /\ (InBlocks' <=> pc' = BlocksPc(k))
           /\ \A j \in 1 .. 2 : pc' = ReadPc(j) => j = k /\ Reading'
           /\ pc' = "blocks 2" => k = 2 /\ InBlocks'
<1>1. k = 1 \/ k = 2
  OBVIOUS
<1>2. /\ ReadPc(1) = "read 1" /\ BlocksPc(1) = "blocks 1"
      /\ ReadPc(2) = "read 2" /\ BlocksPc(2) = "blocks 2"
  <2>1. 2 # 1
    OBVIOUS
  <2> QED BY <2>1, Zenon DEF ReadPc, BlocksPc
<1>3. \A j \in 1 .. 2 : j = 1 \/ j = 2
  OBVIOUS
<1>4. CASE k = 1
  BY <1>2, <1>3, <1>4, Zenon DEF BookPcs, ReaderPcs, First, Reading, InBlocks
<1>5. CASE k = 2
  BY <1>2, <1>3, <1>5, Zenon DEF BookPcs, ReaderPcs, First, Reading, InBlocks
<1> QED
  BY <1>1, <1>4, <1>5

(* There is memory for the tables of an area, and they are asked for.           *)
LEMMA AreaAsked ==
    ASSUME BInv, Idle, NEW k \in 1 .. 2, pc = AreaPc(k), book.starts[k] # 0,
           heap' = heap \cup {AreaData(k)},
           book' = [book EXCEPT !.area[book.area_count].data = k],
           sacd_read_block_raw(book.starts[k], book.sizes[k], ReadPc(k)),
           UNCHANGED <<outOfMemory, fds, sock, location, disc, tablesWhole>>
    PROVE  BInv'
<1> DEFINE a == book.area_count
<1>1. /\ a \in 0 .. 1 /\ (k = 1 => a = 0)
      /\ pc \in BookPcs \ {"master", "ready"} /\ pc # "opening" /\ ~InBlocks /\ ~Reading
  <2>1. AreaPc(k) # BlocksPc(k) /\ AreaPc(k) # ReadPc(k)
    BY DEF AreaPc, ReadPc, BlocksPc
  <2> QED BY <2>1, AreaInHand DEF BInv
<1>2. /\ ~Idle' /\ call'.net = Net' /\ call'.op = "read" /\ pc' = ReadPc(k)
      /\ Asked' = <<"read", book.starts[k], book.sizes[k]>> /\ DOMAIN buffer' = 1 .. 2 * book.sizes[k]
  BY AsksForBlocks
<1>3. /\ pc' \in BookPcs \ {"master", "ready"} /\ pc' \in ReaderPcs
      /\ (First' => k = 1) /\ Reading' /\ ~InBlocks'
      /\ \A j \in 1 .. 2 : pc' = ReadPc(j) => j = k
      /\ pc' \notin {"opening", "free reader", "end", "ready", "master", "blocks 2"}
  <2>1. ReadPc(k) # BlocksPc(k)
    BY DEF ReadPc, BlocksPc
  <2>2. \A x \in BookPcs : x \notin {"opening", "free reader", "end"}
    BY DEF BookPcs
  <2> QED BY <1>2, <2>1, <2>2, AreaGoesOn
<1>4. /\ DOMAIN book' = DOMAIN book /\ book'.block = book.block
      /\ book'.area_count = a /\ book'.twoch_area_idx = book.twoch_area_idx
      /\ book'.mulch_area_idx = book.mulch_area_idx /\ book'.texts = book.texts
      /\ book'.starts = book.starts /\ book'.sizes = book.sizes
      /\ book'.area = [book.area EXCEPT ![a].data = k]
  BY DEF BInv, ShapeInv
<1>5. /\ DOMAIN book'.area = 0 .. 1
      /\ \A i \in 0 .. 1 :
           /\ DOMAIN book'.area[i] = DOMAIN book.area[i]
           /\ book'.area[i].texts = book.area[i].texts
           /\ book'.area[i].description = book.area[i].description
           /\ i # a => book'.area[i] = book.area[i]
      /\ book'.area[a].data = k
  BY <1>1, <1>4 DEF BInv, ShapeInv
<1> HIDE DEF a
<1>6. Indices' = Indices /\ LastRead = a - 1 /\ LastRead' = a - 1 /\ InHand = a - 1 /\ InHand' = a
  <2>1. Indices' = Indices
    BY <1>4 DEF Indices
  <2>2. LastRead = a - 1 /\ InHand = a - 1
    BY <1>1 DEF LastRead, InHand, a
  <2>3. LastRead' = a - 1 /\ InHand' = a
    BY <1>3, <1>4 DEF LastRead, InHand
  <2> QED BY <2>1, <2>2, <2>3
<1>7. ShapeInv'
  <2>1. /\ a \in 0 .. 2 /\ (First' => a = 0) /\ a <= 1
    <3>1. a \in 0 .. 1
      BY <1>1
    <3>2. First' => a = 0
      BY <1>1, <1>3, Zenon
    <3> QED BY <3>1, <3>2
  <2>2. /\ book'.block \in Nat /\ ~(book'.block > 0)
        /\ DOMAIN book' = {"area_count", "twoch_area_idx", "mulch_area_idx", "area", "texts",
                            "starts", "sizes", "block"}
        /\ \A i \in 0 .. 1 : DOMAIN book'.area[i]
                           = {"data", "toc", "channels", "texts", "description", "tables"}
    BY <1>1, <1>4, <1>5 DEF BInv, ShapeInv
  <2> QED BY <1>3, <1>4, <1>5, <2>1, <2>2 DEF ShapeInv
<1>8. \A idx \in Indices : idx \in 0 .. a - 1 /\ idx \in 0 .. 1 /\ idx # a
  <2>1. \A idx \in 0 .. a - 1 : idx \in 0 .. 1 /\ idx # a
    BY <1>1
  <2> QED BY <1>6, <2>1 DEF BInv, IndexInv
<1>9. IndexInv'
  <2>1. AreaData(book'.area[book'.area_count].data) \in heap'
    BY <1>4, <1>5
  <2>2. \A idx \in Indices' :
          /\ idx \in 0 .. LastRead' /\ book'.area[idx].toc /\ AreaData(book'.area[idx].data) \in heap'
    BY <1>5, <1>6, <1>8 DEF BInv, IndexInv
  <2>3. has_two_channel(book') => book'.area[book'.twoch_area_idx].channels = 2
    BY <1>4, <1>5, <1>8 DEF BInv, IndexInv, has_two_channel, Indices
  <2> QED BY <2>1, <2>2, <2>3 DEF IndexInv, has_two_channel
<1>10. TextsInv'
  BY <1>1, <1>4, <1>5 DEF BInv, TextsInv
<1>11. CallsInv'
  BY <1>2, <1>3, <1>4 DEF CallsInv
<1>12. RoomInv'
  BY <1>2, <1>3, <1>4 DEF RoomInv
<1>13. KindsInv => KindsInv'
  <2>1. AreaData(k)[1] \in AreaKinds
    BY Kinds DEF AreaKinds
  <2>2. pc \in BookPcs /\ pc' \in BookPcs
    BY <1>1, <1>3
  <2> QED BY <1>3, <1>4, <2>1, <2>2 DEF KindsInv
<1>14. ASSUME AreasHeld PROVE AreasHeld'
  <2>1. \A i \in 0 .. a - 1 : i \in 0 .. a /\ i \in 0 .. 1 /\ i # a
    BY <1>1
  <2>2. ASSUME NEW b \in heap', b[1] \in AreaKinds
        PROVE  \E i \in 0 .. InHand' : b \in free_area(book'.area[i]) \cup {AreaData(book'.area[i].data)}
    <3>1. CASE b \in heap
      <4>1. PICK i \in 0 .. a - 1 : b \in free_area(book.area[i]) \cup {AreaData(book.area[i].data)}
        BY <1>6, <1>14, <2>2, <3>1 DEF AreasHeld
      <4> QED BY <1>5, <1>6, <2>1, <4>1
    <3>2. CASE b = AreaData(k)
      <4>1. a \in 0 .. a
        BY <1>1
      <4> QED BY <1>5, <1>6, <3>2, <4>1
    <3> QED BY <2>2, <3>1, <3>2
  <2>3. pc \notin {"blocks 2", "ready"}
    BY <1>1 DEF InBlocks
  <2>4. MasterToc' = MasterToc
    BY SameDisc
  <2>5. \A i \in 0 .. LastRead' : i \in Indices'
    BY <1>6, <1>14 DEF AreasHeld
  <2>6. \A i \in 0 .. 1 : i > LastRead' => book'.area[i].texts = {} /\ book'.area[i].description = {}
    BY <1>5, <1>6, <1>14 DEF AreasHeld
  <2>7. book'.starts = MasterToc'.starts /\ book'.sizes = MasterToc'.sizes /\ book'.mulch_area_idx = -1
    BY <1>1, <1>4, <1>14, <2>3, <2>4 DEF AreasHeld
  <2> QED BY <2>2, <2>5, <2>6, <2>7 DEF AreasHeld
<1>15. InputBuffer \in heap' => InputBuffer \in heap
  BY Kinds
<1> QED
  <2>1. CASE outOfMemory'
    BY <1>1, <1>2, <1>3, <1>7, <1>9, <1>10, <1>11, <1>12, <1>15, <2>1, BookHolds
  <2>2. CASE ~outOfMemory'
    BY <1>1, <1>2, <1>3, <1>7, <1>9, <1>10, <1>11, <1>12, <1>13, <1>14, <1>15, <2>2, BookHolds
  <2> QED BY <2>1, <2>2

LEMMA StartsArea ==
    ASSUME OInv, NEW k \in 1 .. 2, StartArea(k)
    PROVE  BInv'
<1>1. /\ BInv /\ pc = AreaPc(k) /\ Idle
      /\ UNCHANGED <<fds, sock, location, disc, tablesWhole>>
  BY DEF OInv, StartArea, netVars
<1>2. CASE book.starts[k] = 0
  BY <1>1, <1>2, AreaAbsent DEF StartArea
<1>3. CASE CloseBook /\ outOfMemory' = TRUE /\ UNCHANGED <<call, ret, buffer>>
  <2>1. pc \in BookPcs
    BY <1>1 DEF AreaPc, BookPcs
  <2> QED BY <1>1, <1>3, <2>1, ClosesBook
<1>4. CASE /\ book.starts[k] # 0
           /\ heap' = heap \cup {AreaData(k)}
           /\ book' = [book EXCEPT !.area[book.area_count].data = k]
           /\ sacd_read_block_raw(book.starts[k], book.sizes[k], ReadPc(k))
           /\ UNCHANGED outOfMemory
  BY <1>1, <1>4, AreaAsked
<1> QED
  BY <1>2, <1>3, <1>4 DEF StartArea

(* An area's table is read: what it holds of the area's texts,                  *)
LEMMA LastOf ==
    ASSUME disc \in Discs, IsAreaToc(Content(0)), NEW k, NEW before, NEW toc, toc = Content(0)
    PROVE  /\ \A b \in LastDescription(k, toc, before) : b \in before \/ b \in Descriptions(k, toc)
           /\ (\A m, n \in toc.descriptions : m = n) =>
                \A b \in Descriptions(k, toc) : b \in LastDescription(k, toc, before)
<1> DEFINE D == toc.descriptions
           last == CHOOSE n \in D : \A m \in D : m <= n
<1>1. D \subseteq 1 .. 4
  <2>1. Content(0).id \in {"TWOCHTOC", "MULCHTOC"}
    BY DEF IsAreaToc
  <2>2. Content(0) # Unread
    BY <2>1 DEF Unread
  <2>3. PICK j \in 1 .. Sectors : Content(0) = disc.sectors[j]
    BY <2>2, ContentIs
  <2>4. j \in DOMAIN disc.sectors
    BY BookAssumption
  <2> QED BY <2>1, <2>3, <2>4, BookAssumption
<1>2. D = {} => LastDescription(k, toc, before) = before /\ Descriptions(k, toc) = {}
  BY DEF LastDescription, Descriptions
<1>3. D # {} => LastDescription(k, toc, before) = {Description(k, last)}
  BY DEF LastDescription
<1>4. Descriptions(k, toc) = {Description(k, n) : n \in D}
  BY DEF Descriptions
<1> HIDE DEF D
<1>5. D # {} => last \in D
  <2>1. D # {} => \E n \in D : \A m \in D : m <= n
    <3>1. \A m \in D : m \in {1, 2, 3, 4}
      BY <1>1
    <3>2. CASE 4 \in D
      BY <3>1, <3>2
    <3>3. CASE 4 \notin D /\ 3 \in D
      BY <3>1, <3>3
    <3>4. CASE 4 \notin D /\ 3 \notin D /\ 2 \in D
      BY <3>1, <3>4
    <3>5. CASE 4 \notin D /\ 3 \notin D /\ 2 \notin D
      BY <3>1, <3>5
    <3> QED BY <3>2, <3>3, <3>4, <3>5
  <2> QED BY <2>1
<1> HIDE DEF last
<1>6. \A b \in LastDescription(k, toc, before) : b \in before \/ b \in Descriptions(k, toc)
  BY <1>2, <1>3, <1>4, <1>5
<1>7. ASSUME \A m, n \in toc.descriptions : m = n, NEW b \in Descriptions(k, toc)
      PROVE  b \in LastDescription(k, toc, before)
  <2>1. \A m, n \in D : m = n
    BY <1>7 DEF D
  <2> QED BY <1>3, <1>4, <1>5, <1>7, <2>1
<1> QED
  BY <1>6, <1>7

(* ... and the handle's.                                                        *)
LEMMA TocIs ==
    ASSUME ShapeInv, NEW k, NEW a \in 0 .. 1, a = book.area_count, book.block = 0,
           NEW toc, book' = ReadAreaToc(k, a, toc)
    PROVE  /\ DOMAIN book' = DOMAIN book /\ book'.area_count = a /\ book'.texts = book.texts
           /\ book'.starts = book.starts /\ book'.sizes = book.sizes
           /\ DOMAIN book'.area = 0 .. 1
           /\ \A i \in 0 .. 1 :
                /\ DOMAIN book'.area[i] = DOMAIN book.area[i]
                /\ book'.area[i].texts = book.area[i].texts
                /\ book'.area[i].data = book.area[i].data
                /\ i # a => book'.area[i] = book.area[i]
           /\ book'.area[a].toc
           /\ IF IsAreaToc(toc)
              THEN book'.area[a].description = LastDescription(k, toc, book.area[a].description)
              ELSE book'.area[a].description = book.area[a].description
           /\ IF IsAreaToc(toc) /\ toc.supported
              THEN /\ book'.block = 1
                   /\ IF toc.channels = 2 /\ toc.stereo
                      THEN /\ book'.twoch_area_idx = a /\ book'.mulch_area_idx = book.mulch_area_idx
                           /\ book'.area[a].channels = 2
                      ELSE /\ book'.mulch_area_idx = a /\ book'.twoch_area_idx = book.twoch_area_idx
              ELSE /\ book'.block = 0
                   /\ book'.twoch_area_idx = book.twoch_area_idx
                   /\ book'.mulch_area_idx = book.mulch_area_idx
<1>1. CASE ~IsAreaToc(toc)
  <2>1. book' = [book EXCEPT !.area[a].toc = TRUE]
    BY <1>1 DEF ReadAreaToc
  <2> QED BY <1>1, <2>1 DEF ShapeInv
<1> DEFINE described == [book EXCEPT !.area[a].toc = TRUE, !.area[a].channels = toc.channels,
                                     !.area[a].description = LastDescription(k, toc, @)]
<1>2. /\ DOMAIN described = DOMAIN book /\ described.area_count = a /\ described.texts = book.texts
      /\ described.starts = book.starts /\ described.sizes = book.sizes /\ described.block = 0
      /\ described.twoch_area_idx = book.twoch_area_idx /\ described.mulch_area_idx = book.mulch_area_idx
      /\ DOMAIN described.area = 0 .. 1
      /\ \A i \in 0 .. 1 :
           /\ DOMAIN described.area[i] = DOMAIN book.area[i]
           /\ described.area[i].texts = book.area[i].texts
           /\ described.area[i].data = book.area[i].data
           /\ i # a => described.area[i] = book.area[i]
      /\ described.area[a].toc /\ described.area[a].channels = toc.channels
      /\ described.area[a].description = LastDescription(k, toc, book.area[a].description)
  BY DEF ShapeInv
<1>3. ASSUME IsAreaToc(toc)
      PROVE  book' = IF ~toc.supported THEN described
                     ELSE IF toc.channels = 2 /\ toc.stereo
                     THEN [described EXCEPT !.twoch_area_idx = a, !.block = 1]
                     ELSE [described EXCEPT !.mulch_area_idx = a, !.block = 1]
  BY <1>3 DEF ReadAreaToc
<1> HIDE DEF described
<1>4. CASE IsAreaToc(toc) /\ ~toc.supported
  BY <1>2, <1>3, <1>4
<1>5. CASE IsAreaToc(toc) /\ toc.supported /\ (toc.channels = 2 /\ toc.stereo)
  <2>1. book' = [described EXCEPT !.twoch_area_idx = a, !.block = 1]
    BY <1>3, <1>5
  <2>2. /\ "twoch_area_idx" \in DOMAIN described /\ "block" \in DOMAIN described
    BY <1>2 DEF ShapeInv
  <2>3. /\ DOMAIN book' = DOMAIN described /\ book'.area_count = described.area_count
        /\ book'.texts = described.texts /\ book'.starts = described.starts
        /\ book'.sizes = described.sizes /\ book'.area = described.area
        /\ book'.mulch_area_idx = described.mulch_area_idx
        /\ book'.twoch_area_idx = a /\ book'.block = 1
    BY <1>2, <2>1, <2>2 DEF ShapeInv
  <2> QED BY <1>2, <1>5, <2>3
<1>6. CASE IsAreaToc(toc) /\ toc.supported /\ ~(toc.channels = 2 /\ toc.stereo)
  <2>1. book' = [described EXCEPT !.mulch_area_idx = a, !.block = 1]
    BY <1>3, <1>6
  <2>2. /\ "mulch_area_idx" \in DOMAIN described /\ "block" \in DOMAIN described
    BY <1>2 DEF ShapeInv
  <2>3. /\ DOMAIN book' = DOMAIN described /\ book'.area_count = described.area_count
        /\ book'.texts = described.texts /\ book'.starts = described.starts
        /\ book'.sizes = described.sizes /\ book'.area = described.area
        /\ book'.twoch_area_idx = described.twoch_area_idx
        /\ book'.mulch_area_idx = a /\ book'.block = 1
    BY <1>2, <2>1, <2>2 DEF ShapeInv
  <2> QED BY <1>2, <1>6, <2>3
<1> QED
  BY <1>1, <1>4, <1>5, <1>6

(* What is read of a sound disc is the area's table.                            *)
LEMMA AreaWhole ==
    ASSUME InputInv, BookInv, BInv, Idle, NEW k \in 1 .. 2, pc = ReadPc(k),
           AreasHeld, Sound, ret.v = ret.n, inStep, ~pieces
    PROVE  /\ Content(0) = TocOf(k) /\ ret.v # 0
           /\ IsAreaToc(TocOf(k)) /\ TocOf(k).supported
           /\ (TocOf(k).channels = 2 /\ TocOf(k).stereo) = (k = 1)
           /\ \A m, n \in TocOf(k).descriptions : m = n
<1>1. /\ ret.op = "read" /\ ret.pos = book.starts[k] /\ ret.n = book.sizes[k]
      /\ book.starts[k] # 0 /\ DOMAIN buffer = 1 .. 2 * ret.n
  BY DEF BInv, CallsInv, RoomInv, Asked
<1>2. pc \in BookPcs \ {"master"}
  BY DEF ReadPc, BookPcs
<1>3. book.starts = MasterToc.starts /\ book.sizes = MasterToc.sizes
  BY <1>2 DEF AreasHeld
<1>4. /\ MasterToc.sizes[k] > 0
      /\ IsAreaToc(TocOf(k)) /\ TocOf(k).supported
      /\ (TocOf(k).channels = 2 /\ TocOf(k).stereo) = (k = 1)
      /\ \A m, n \in TocOf(k).descriptions : m = n
  BY <1>1, <1>3 DEF Sound
<1>5. ret.pos \in Nat /\ ret.n \in Nat
  BY <1>1 DEF BookInv, HasTables
<1>6. ret.n > 0
  BY <1>1, <1>3, <1>4
<1>7. Content(0) = disc.sectors[ret.pos + 1]
  BY <1>1, <1>5, <1>6, WholeRead
<1>8. ret.v # 0
  BY <1>5, <1>6
<1> QED
  BY <1>1, <1>3, <1>4, <1>7, <1>8 DEF TocOf

LEMMA AreaRead ==
    ASSUME OInv, Idle, NEW k \in 1 .. 2, pc = ReadPc(k), NEW toc, toc = Content(0),
           NEW a, a = book.area_count, book' = ReadAreaToc(k, a, toc),
           heap' = IF IsAreaToc(toc) THEN heap \cup Descriptions(k, toc) ELSE heap,
           pc' = IF IsAreaToc(toc) /\ toc.supported THEN BlocksPc(k) ELSE Following(k),
           UNCHANGED <<call, ret, outOfMemory, fds, sock, location, disc>>,
           tablesWhole' => tablesWhole /\ ret.v = ret.n /\ inStep /\ ~pieces
    PROVE  BInv'
<1> DEFINE good == IsAreaToc(toc) /\ toc.supported
           described == book'.area[a].description
<1>0. BInv /\ InputInv /\ BookInv /\ ShapeInv /\ IndexInv /\ TextsInv
  BY DEF OInv, IInv, BInv
<1>1. /\ a \in 0 .. 1 /\ (k = 1 => a = 0)
      /\ pc \in BookPcs \ {"master", "ready"} /\ pc # "opening" /\ ~InBlocks /\ Reading
  <2>1. ReadPc(k) # BlocksPc(k)
    BY DEF ReadPc, BlocksPc
  <2> QED BY <1>0, <2>1, AreaInHand
<1>2. book.block = 0
  <2>1. book.block \in Nat /\ ~(book.block > 0)
    BY <1>0, <1>1 DEF ShapeInv
  <2> QED BY <2>1
<1>3. /\ DOMAIN book' = DOMAIN book /\ book'.area_count = a /\ book'.texts = book.texts
      /\ book'.starts = book.starts /\ book'.sizes = book.sizes
      /\ DOMAIN book'.area = 0 .. 1
      /\ \A i \in 0 .. 1 :
           /\ DOMAIN book'.area[i] = DOMAIN book.area[i]
           /\ book'.area[i].texts = book.area[i].texts
           /\ book'.area[i].data = book.area[i].data
           /\ i # a => book'.area[i] = book.area[i]
      /\ book'.area[a].toc
  BY <1>0, <1>1, <1>2, TocIs
<1>4. IF IsAreaToc(toc) THEN described = LastDescription(k, toc, book.area[a].description)
                        ELSE described = book.area[a].description
  BY <1>0, <1>1, <1>2, TocIs
<1>5. IF good
      THEN /\ book'.block = 1
           /\ IF toc.channels = 2 /\ toc.stereo
              THEN /\ book'.twoch_area_idx = a /\ book'.mulch_area_idx = book.mulch_area_idx
                   /\ book'.area[a].channels = 2
              ELSE /\ book'.mulch_area_idx = a /\ book'.twoch_area_idx = book.twoch_area_idx
      ELSE /\ book'.block = 0
           /\ book'.twoch_area_idx = book.twoch_area_idx
           /\ book'.mulch_area_idx = book.mulch_area_idx
  BY <1>0, <1>1, <1>2, TocIs
<1>6. /\ pc' \in BookPcs \ {"master"} /\ pc' \in ReaderPcs
      /\ (First' => k = 1) /\ ~Reading' /\ (InBlocks' <=> good)
      /\ pc' \notin {"master", "read 1", "read 2"} /\ (pc' = "blocks 2" => k = 2)
      /\ (~good => (pc' # "ready" => k = 1) /\ pc' # "blocks 2")
  <2>1. CASE good
    <3>1. pc' = BlocksPc(k) /\ BlocksPc(k) # ReadPc(k) /\ BlocksPc(k) \notin {"master", "read 1", "read 2"}
      BY <2>1 DEF BlocksPc, ReadPc
    <3> QED BY <2>1, <3>1, AreaGoesOn
  <2>2. CASE ~good
    <3>1. pc' = Following(k)
      BY <2>2
    <3> QED BY <2>2, <3>1, FollowingIs
  <2> QED BY <2>1, <2>2
<1>7. \A b \in Descriptions(k, toc) : b[1] = "description"
  BY Kinds DEF Descriptions
<1>8. \A b \in heap : b \in heap'
  OBVIOUS
<1>9. \A b \in heap' : b \in heap \/ (IsAreaToc(toc) /\ b \in Descriptions(k, toc))
  OBVIOUS
<1> HIDE DEF described, good
<1>10. LastRead = a - 1 /\ LastRead' = (IF good THEN a ELSE a - 1)
  <2>1. LastRead = a - 1
    BY <1>1 DEF LastRead
  <2>2. book'.area_count = a /\ (InBlocks' <=> good)
    BY <1>3, <1>6
  <2>3. LastRead' = (IF good THEN a ELSE a - 1)
    BY <2>2 DEF LastRead
  <2> QED BY <2>1, <2>3
<1>11. \A idx \in Indices : idx \in 0 .. a - 1 /\ idx \in 0 .. 1 /\ idx # a
  <2>1. \A idx \in 0 .. a - 1 : idx \in 0 .. 1 /\ idx # a
    BY <1>1
  <2> QED BY <1>0, <1>10, <2>1 DEF IndexInv
<1>12. ShapeInv'
  <2>1. a \in 0 .. 2 /\ a <= 1 /\ (First' => a = 0)
    <3>1. a \in 0 .. 1
      BY <1>1
    <3>2. First' => a = 0
      BY <1>1, <1>6, Zenon
    <3> QED BY <3>1, <3>2
  <2>2. book'.block \in Nat /\ (book'.block > 0 <=> good)
    BY <1>5
  <2>3. /\ DOMAIN book' = {"area_count", "twoch_area_idx", "mulch_area_idx", "area", "texts",
                            "starts", "sizes", "block"}
        /\ \A i \in 0 .. 1 : DOMAIN book'.area[i]
                           = {"data", "toc", "channels", "texts", "description", "tables"}
    BY <1>0, <1>3 DEF ShapeInv
  <2> QED BY <1>3, <1>6, <2>1, <2>2, <2>3 DEF ShapeInv
<1>13. \A idx \in Indices' : idx \in Indices \/ (good /\ idx = a)
  BY <1>5 DEF Indices
<1>14. IndexInv'
  <2>1. ASSUME NEW idx \in Indices'
        PROVE  idx \in 0 .. LastRead' /\ book'.area[idx].toc /\ AreaData(book'.area[idx].data) \in heap'
    <3>1. CASE idx \in Indices
      <4>1. idx \in 0 .. LastRead'
        BY <1>1, <1>10, <1>11, <3>1
      <4>2. book'.area[idx] = book.area[idx]
        BY <1>3, <1>11, <3>1
      <4>3. book.area[idx].toc /\ AreaData(book.area[idx].data) \in heap
        BY <1>0, <3>1 DEF IndexInv
      <4> QED BY <1>8, <4>1, <4>2, <4>3
    <3>2. CASE good /\ idx = a
      <4>1. idx \in 0 .. LastRead'
        BY <1>1, <1>10, <3>2
      <4>2. AreaData(book.area[a].data) \in heap
        BY <1>0, <1>1 DEF IndexInv
      <4> QED BY <1>1, <1>3, <1>8, <3>2, <4>1, <4>2
    <3> QED BY <1>13, <3>1, <3>2
  <2>2. ASSUME has_two_channel(book')
        PROVE  book'.area[book'.twoch_area_idx].channels = 2
    <3>1. CASE book'.twoch_area_idx = book.twoch_area_idx
      <4>1. has_two_channel(book) /\ book.twoch_area_idx \in Indices
        BY <2>2, <3>1 DEF has_two_channel, Indices
      <4>2. book'.area[book.twoch_area_idx] = book.area[book.twoch_area_idx]
        BY <1>3, <1>11, <4>1
      <4> QED BY <1>0, <3>1, <4>1, <4>2 DEF IndexInv
    <3>2. CASE book'.twoch_area_idx # book.twoch_area_idx
      BY <1>5, <3>2
    <3> QED BY <3>1, <3>2
  <2> QED BY <1>6, <2>1, <2>2 DEF IndexInv
<1>15. IsAreaToc(toc) => \A b \in described : b \in book.area[a].description \/ b \in Descriptions(k, toc)
  <2>1. disc \in Discs
    BY <1>0 DEF BookInv
  <2> QED BY <1>4, <2>1, LastOf
<1>16. TextsInv'
  <2>1. {Sb, FrameData, MasterData} \subseteq heap'
    BY <1>0, <1>1, <1>8 DEF TextsInv
  <2>2. \A b \in book'.texts : b \in heap' /\ b[1] = "master text"
    BY <1>0, <1>3, <1>8 DEF TextsInv
  <2>3. \A i \in 0 .. 1 : \A b \in book'.area[i].texts : b \in heap' /\ b[1] = "track text"
    BY <1>0, <1>3, <1>8 DEF TextsInv
  <2>4. \A b \in described : b \in heap' /\ b[1] = "description"
    <3>1. \A b \in book.area[a].description : b \in heap' /\ b[1] = "description"
      BY <1>0, <1>1, <1>8 DEF TextsInv
    <3>2. IsAreaToc(toc) => \A b \in Descriptions(k, toc) : b \in heap' /\ b[1] = "description"
      BY <1>7
    <3> QED BY <1>4, <1>15, <3>1, <3>2
  <2>5. \A i \in 0 .. 1 : \A b \in book'.area[i].description : b \in heap' /\ b[1] = "description"
    BY <1>0, <1>3, <1>8, <2>4 DEF TextsInv, described
  <2> QED BY <2>1, <2>2, <2>3, <2>5 DEF TextsInv
<1>17. Idle' /\ CallsInv' /\ RoomInv'
  <2>1. Idle'
    BY DEF Idle
  <2> QED BY <1>6, <2>1, NoTable
<1>18. KindsInv => KindsInv'
  BY <1>1, <1>3, <1>6, <1>7, <1>9 DEF KindsInv, AreaKinds
<1>19. ASSUME AreasHeld, Sound, tablesWhole' PROVE AreasHeld'
  <2>1. /\ toc = TocOf(k) /\ good
        /\ (toc.channels = 2 /\ toc.stereo) = (k = 1)
        /\ \A m, n \in toc.descriptions : m = n
    BY <1>0, <1>19, AreaWhole DEF good
  <2>2. InHand = a /\ InHand' = a
    BY <1>1, <1>3, <1>6, <2>1 DEF InHand
  <2>3. a \in 0 .. a /\ (a > a - 1) /\ \A i \in 0 .. a : (i = a \/ i \in 0 .. a - 1) /\ i \in 0 .. 1
    BY <1>1
  <2>4. book.area[a].texts = {} /\ book.area[a].description = {}
    BY <1>1, <1>10, <1>19, <2>3 DEF AreasHeld
  <2>5. ASSUME NEW b \in heap', b[1] \in AreaKinds
        PROVE  \E i \in 0 .. InHand' : b \in free_area(book'.area[i]) \cup {AreaData(book'.area[i].data)}
    <3>1. CASE b \in heap
      <4>1. PICK i \in 0 .. a : b \in free_area(book.area[i]) \cup {AreaData(book.area[i].data)}
        BY <1>19, <2>2, <2>5, <3>1 DEF AreasHeld
      <4>2. CASE i = a
        <5>1. free_area(book.area[i]) = {}
          BY <2>4, <4>2 DEF free_area
        <5>2. book'.area[i].data = book.area[i].data
          BY <1>1, <1>3, <4>2
        <5> QED BY <2>2, <4>1, <5>1, <5>2
      <4>3. CASE i # a
        <5>1. book'.area[i] = book.area[i]
          BY <1>3, <2>3, <4>3
        <5> QED BY <2>2, <4>1, <5>1
      <4> QED BY <4>2, <4>3
    <3>2. CASE b \in Descriptions(k, toc)
      <4>1. disc \in Discs /\ IsAreaToc(toc)
        BY <1>0, <2>1 DEF BookInv, good
      <4>2. b \in LastDescription(k, toc, book.area[a].description)
        BY <2>1, <3>2, <4>1, LastOf
      <4>3. b \in described
        BY <1>4, <4>1, <4>2
      <4> QED BY <2>2, <2>3, <4>3 DEF free_area, described
    <3> QED BY <1>9, <2>5, <3>1, <3>2
  <2>6. book.mulch_area_idx = -1
    <3>1. pc \notin {"blocks 2", "ready"}
      BY <1>1 DEF InBlocks
    <3> QED BY <1>19, <3>1 DEF AreasHeld
  <2>7. \A i \in 0 .. a - 1 : i \in Indices
    BY <1>10, <1>19 DEF AreasHeld
  <2>8. \A i \in 0 .. LastRead' : i \in Indices'
    <3>1. a \in Indices'
      <4>1. a # -1
        BY <1>1
      <4> QED BY <1>5, <2>1, <4>1 DEF Indices
    <3>2. \A i \in 0 .. a - 1 : i \in Indices'
      <4>1. CASE k = 1
        <5>1. 0 .. a - 1 = {}
          BY <1>1, <4>1
        <5> QED BY <5>1
      <4>2. CASE k # 1
        <5>1. book'.twoch_area_idx = book.twoch_area_idx
          BY <1>5, <2>1, <4>2
        <5> QED BY <2>6, <2>7, <5>1 DEF Indices
      <4> QED BY <4>1, <4>2
    <3>3. LastRead' = a
      BY <1>10, <2>1
    <3> QED BY <2>3, <3>1, <3>2, <3>3
  <2>9. \A i \in 0 .. 1 : i > LastRead' => book'.area[i].texts = {} /\ book'.area[i].description = {}
    <3>1. LastRead' = a
      BY <1>10, <2>1
    <3>2. \A i \in 0 .. 1 : i > a => i > a - 1 /\ i # a
      BY <1>1
    <3>3. \A i \in 0 .. 1 : i > a - 1 => book.area[i].texts = {} /\ book.area[i].description = {}
      BY <1>10, <1>19 DEF AreasHeld
    <3> QED BY <1>3, <3>1, <3>2, <3>3
  <2>10. pc' \notin {"blocks 2", "ready"} => book'.mulch_area_idx = -1
    <3>1. CASE k = 1
      BY <1>5, <2>1, <2>6, <3>1
    <3>2. CASE k # 1
      <4>1. k = 2 /\ pc' = BlocksPc(k)
        BY <2>1, <3>2 DEF good
      <4>2. BlocksPc(k) = "blocks 2"
        BY <3>2, Zenon DEF BlocksPc
      <4> QED BY <4>1, <4>2
    <3> QED BY <3>1, <3>2
  <2>11. book'.starts = MasterToc'.starts /\ book'.sizes = MasterToc'.sizes
    <3>1. MasterToc' = MasterToc
      BY SameDisc
    <3> QED BY <1>1, <1>3, <1>19, <3>1 DEF AreasHeld
  <2> QED BY <2>5, <2>8, <2>9, <2>10, <2>11 DEF AreasHeld
<1>20. InputBuffer \in heap' => InputBuffer \in heap
  BY <1>7, <1>9, Kinds
<1> QED
  <2>1. CASE outOfMemory'
    BY <1>0, <1>1, <1>6, <1>12, <1>14, <1>16, <1>17, <1>20, <2>1, BookHolds
  <2>2. CASE ~outOfMemory'
    BY <1>0, <1>1, <1>6, <1>12, <1>14, <1>16, <1>17, <1>18, <1>19, <1>20, <2>2, BookHolds
  <2> QED BY <2>1, <2>2

LEMMA ReadsArea ==
    ASSUME OInv, NEW k \in 1 .. 2, ReadArea(k)
    PROVE  BInv'
<1>1. /\ BInv /\ pc = ReadPc(k) /\ Idle
      /\ UNCHANGED <<call, ret, outOfMemory, fds, sock, location, disc>>
      /\ tablesWhole' => tablesWhole /\ ret.v = ret.n /\ inStep /\ ~pieces
  BY DEF OInv, ReadArea, TableRead, unlessBook, netVars
<1>2. CASE ret.v = 0
  <2>1. /\ book' = [book EXCEPT !.starts[k] = 0] /\ pc' = Following(k) /\ heap' = heap
    BY <1>2 DEF ReadArea
  <2>2. CASE ~(AreasHeld /\ Sound /\ tablesWhole')
    BY <1>1, <2>1, <2>2, AreaAbsent
  <2>3. CASE AreasHeld /\ Sound /\ tablesWhole'
    BY <1>1, <1>2, <2>3, AreaWhole DEF OInv, IInv
  <2> QED BY <2>2, <2>3
<1>3. CASE ret.v # 0
  BY <1>1, <1>3, AreaRead DEF ReadArea
<1> QED
  BY <1>2, <1>3

(* A block of an area's tables is taken, with the texts of the tracks it may hold. *)
OfTracks(texts) == \A b \in texts : b[1] = "track text"
Taken(a, length, id, texts) ==
    [book EXCEPT !.block = @ + length, !.area[a].tables = @ \cup {id}, !.area[a].texts = @ \cup texts]
Counted == [book EXCEPT !.area_count = @ + 1, !.block = 0]

LEMMA BlockTaken ==
    ASSUME BInv, Idle, NEW k \in 1 .. 2, pc = BlocksPc(k), pc' = pc, NEW a, a = book.area_count,
           NEW length \in Nat, NEW id, NEW texts, OfTracks(texts),
           book' = Taken(a, length, id, texts),
           heap' = heap \cup texts,
           UNCHANGED <<call, ret, outOfMemory, fds, sock, location, disc, tablesWhole>>
    PROVE  BInv'
<1>0. BInv /\ ShapeInv /\ IndexInv /\ TextsInv
  BY DEF BInv
<1>1. /\ a \in 0 .. 1 /\ pc \in BookPcs \ {"master", "ready"} /\ pc # "opening" /\ InBlocks /\ ~Reading
  <2>1. ReadPc(k) # BlocksPc(k)
    BY DEF ReadPc, BlocksPc
  <2> QED BY <1>0, <2>1, AreaInHand
<1>2. /\ DOMAIN book' = DOMAIN book /\ book'.area_count = a /\ book'.block = book.block + length
      /\ book'.twoch_area_idx = book.twoch_area_idx
      /\ book'.mulch_area_idx = book.mulch_area_idx /\ book'.texts = book.texts
      /\ book'.starts = book.starts /\ book'.sizes = book.sizes
      /\ DOMAIN book'.area = 0 .. 1
      /\ \A i \in 0 .. 1 :
           /\ DOMAIN book'.area[i] = DOMAIN book.area[i]
           /\ book'.area[i].data = book.area[i].data
           /\ book'.area[i].toc = book.area[i].toc
           /\ book'.area[i].channels = book.area[i].channels
           /\ book'.area[i].description = book.area[i].description
           /\ book'.area[i].texts = IF i = a THEN book.area[i].texts \cup texts ELSE book.area[i].texts
  <2>1. /\ DOMAIN book' = DOMAIN book /\ book'.area_count = book.area_count
        /\ book'.block = book.block + length
        /\ book'.twoch_area_idx = book.twoch_area_idx
        /\ book'.mulch_area_idx = book.mulch_area_idx /\ book'.texts = book.texts
        /\ book'.starts = book.starts /\ book'.sizes = book.sizes
        /\ book'.area = [book.area EXCEPT ![a] = [book.area[a] EXCEPT
                                                  !.tables = @ \cup {id}, !.texts = @ \cup texts]]
    BY <1>0, <1>1 DEF ShapeInv, Taken
  <2> DEFINE area == [book.area[a] EXCEPT !.tables = @ \cup {id}, !.texts = @ \cup texts]
  <2>2. /\ DOMAIN area = DOMAIN book.area[a] /\ area.data = book.area[a].data
        /\ area.toc = book.area[a].toc /\ area.channels = book.area[a].channels
        /\ area.description = book.area[a].description
        /\ area.texts = book.area[a].texts \cup texts
    BY <1>0, <1>1 DEF ShapeInv
  <2> HIDE DEF area
  <2>3. /\ DOMAIN book'.area = 0 .. 1
        /\ \A i \in 0 .. 1 : book'.area[i] = IF i = a THEN area ELSE book.area[i]
    BY <1>0, <2>1 DEF ShapeInv, area
  <2> QED BY <2>1, <2>2, <2>3
<1>3. /\ Indices' = Indices /\ First' = First /\ Second' = Second /\ InBlocks' /\ ~Reading'
  BY <1>1, <1>2 DEF Indices, First, Second, InBlocks, Reading
<1>4. LastRead = a /\ LastRead' = a /\ InHand = a /\ InHand' = a
  BY <1>1, <1>2, <1>3 DEF LastRead, InHand
<1>5. \A idx \in Indices : idx \in 0 .. a /\ idx \in 0 .. 1
  <2>1. \A idx \in 0 .. a : idx \in 0 .. 1
    BY <1>1
  <2> QED BY <1>0, <1>4, <2>1 DEF IndexInv
<1>6. ShapeInv'
  <2>1. book'.block \in Nat /\ book'.block > 0
    <3>1. book.block \in Nat /\ book.block > 0
      BY <1>0, <1>1 DEF ShapeInv
    <3> QED BY <1>2, <3>1
  <2>2. pc' \in BookPcs \ {"master"}
    BY <1>1
  <2>3. \A i \in 0 .. 1 : DOMAIN book'.area[i]
                           = {"data", "toc", "channels", "texts", "description", "tables"}
    BY <1>0, <1>2 DEF ShapeInv
  <2>4. DOMAIN book' = {"area_count", "twoch_area_idx", "mulch_area_idx", "area", "texts",
                        "starts", "sizes", "block"}
        /\ book'.area_count \in 0 .. 2
    BY <1>0, <1>2 DEF ShapeInv
  <2>5. (First' => book'.area_count = 0) /\ (Second' => book'.area_count <= 1)
    <3>1. book'.area_count = book.area_count
      BY <1>2
    <3> QED BY <1>0, <1>3, <3>1, Zenon DEF ShapeInv
  <2> QED BY <1>2, <1>3, <2>1, <2>2, <2>3, <2>4, <2>5 DEF ShapeInv
<1>7. IndexInv'
  <2>1. ASSUME NEW idx \in Indices'
        PROVE  idx \in 0 .. LastRead' /\ book'.area[idx].toc /\ AreaData(book'.area[idx].data) \in heap'
    <3>1. idx \in Indices /\ idx \in 0 .. a /\ idx \in 0 .. 1
      BY <1>3, <1>5, <2>1
    <3>2. book.area[idx].toc /\ AreaData(book.area[idx].data) \in heap
      BY <1>0, <3>1 DEF IndexInv
    <3> QED BY <1>2, <1>4, <3>1, <3>2
  <2>2. ASSUME has_two_channel(book')
        PROVE  book'.area[book'.twoch_area_idx].channels = 2
    <3>1. has_two_channel(book) /\ book.twoch_area_idx \in Indices
      BY <1>2, <2>2 DEF has_two_channel, Indices
    <3>2. book'.area[book.twoch_area_idx].channels = book.area[book.twoch_area_idx].channels
      BY <1>2, <1>5, <3>1
    <3> QED BY <1>0, <1>2, <3>1, <3>2 DEF IndexInv
  <2> QED BY <1>3, <2>1, <2>2 DEF IndexInv
<1>8. TextsInv'
  <2>1. \A i \in 0 .. 1 : \A b \in book'.area[i].texts : b \in heap' /\ b[1] = "track text"
    BY <1>0, <1>2 DEF TextsInv, OfTracks
  <2> QED BY <1>0, <1>2, <2>1 DEF TextsInv
<1>9. Idle' /\ CallsInv' /\ RoomInv'
  <2>1. pc' \notin {"master", "read 1", "read 2", "opening", "ready", "free reader", "end"} /\ Idle'
    BY <1>1, <1>3 DEF Idle, BookPcs, Reading
  <2> QED BY <2>1, NoTable
<1>10. KindsInv => KindsInv'
  BY <1>1, <1>2 DEF KindsInv, AreaKinds, OfTracks
<1>11. ASSUME AreasHeld PROVE AreasHeld'
  <2>1. \A i \in 0 .. a : i \in 0 .. 1
    BY <1>1
  <2>2. ASSUME NEW b \in heap', b[1] \in AreaKinds
        PROVE  \E i \in 0 .. InHand' : b \in free_area(book'.area[i]) \cup {AreaData(book'.area[i].data)}
    <3>1. CASE b \in heap
      <4>1. PICK i \in 0 .. a : b \in free_area(book.area[i]) \cup {AreaData(book.area[i].data)}
        BY <1>4, <1>11, <2>2, <3>1 DEF AreasHeld
      <4>2. b \in free_area(book'.area[i]) \cup {AreaData(book'.area[i].data)}
        BY <1>2, <2>1, <4>1 DEF free_area
      <4> QED BY <1>4, <4>1, <4>2
    <3>2. CASE b \in texts
      <4>1. a \in 0 .. a
        BY <1>1
      <4>2. b \in free_area(book'.area[a])
        BY <1>1, <1>2, <3>2 DEF free_area
      <4> QED BY <1>4, <4>1, <4>2
    <3> QED BY <2>2, <3>1, <3>2
  <2>3. MasterToc' = MasterToc
    BY SameDisc
  <2>4. \A i \in 0 .. 1 : i > a => i # a
    BY <1>1
  <2>5. \A i \in 0 .. 1 : i > LastRead' => book'.area[i].texts = {} /\ book'.area[i].description = {}
    BY <1>2, <1>4, <1>11, <2>4 DEF AreasHeld
  <2>6. \A i \in 0 .. LastRead' : i \in Indices'
    BY <1>3, <1>4, <1>11 DEF AreasHeld
  <2>7. /\ book'.starts = MasterToc'.starts /\ book'.sizes = MasterToc'.sizes
        /\ pc' \notin {"blocks 2", "ready"} => book'.mulch_area_idx = -1
    BY <1>1, <1>2, <1>11, <2>3 DEF AreasHeld
  <2> QED BY <2>2, <2>5, <2>6, <2>7 DEF AreasHeld
<1>12. InputBuffer \in heap' => InputBuffer \in heap
  BY Kinds DEF OfTracks
<1> QED
  <2>1. CASE outOfMemory'
    BY <1>0, <1>1, <1>6, <1>7, <1>8, <1>9, <1>12, <2>1, BookHolds
  <2>2. CASE ~outOfMemory'
    BY <1>0, <1>1, <1>6, <1>7, <1>8, <1>9, <1>10, <1>11, <1>12, <2>2, BookHolds
  <2> QED BY <2>1, <2>2

(* The tables of an area are at their end.                                      *)
LEMMA AreaDone ==
    ASSUME BInv, Idle, NEW k \in 1 .. 2, pc = BlocksPc(k), pc' = Following(k),
           book' = Counted, heap' = heap,
           UNCHANGED <<call, ret, outOfMemory, fds, sock, location, disc, tablesWhole>>
    PROVE  BInv'
<1> DEFINE a == book.area_count
<1>0. BInv /\ ShapeInv /\ IndexInv /\ TextsInv
  BY DEF BInv
<1>1. /\ a \in 0 .. 1 /\ (k = 1 => a = 0)
      /\ pc \in BookPcs \ {"master", "ready"} /\ pc # "opening" /\ InBlocks /\ ~Reading
  <2>1. ReadPc(k) # BlocksPc(k)
    BY DEF ReadPc, BlocksPc
  <2> QED BY <1>0, <2>1, AreaInHand
<1>2. /\ pc' \in {"area 2", "ready"} /\ pc' \in BookPcs \ {"master"} /\ pc' \in ReaderPcs
      /\ ~First' /\ ~Reading' /\ ~InBlocks' /\ (Second' => k = 1)
      /\ pc' \notin {"master", "read 1", "read 2", "blocks 2"} /\ (pc' # "ready" => k = 1)
  BY FollowingIs
<1>3. /\ DOMAIN book' = DOMAIN book /\ book'.area_count = a + 1 /\ book'.block = 0
      /\ book'.twoch_area_idx = book.twoch_area_idx
      /\ book'.mulch_area_idx = book.mulch_area_idx /\ book'.texts = book.texts
      /\ book'.starts = book.starts /\ book'.sizes = book.sizes /\ book'.area = book.area
  BY <1>0 DEF ShapeInv, Counted
<1> HIDE DEF a
<1>4. Indices' = Indices /\ LastRead = a /\ LastRead' = a /\ InHand = a /\ InHand' = a
  <2>1. Indices' = Indices
    BY <1>3 DEF Indices
  <2>2. LastRead = a /\ InHand = a
    BY <1>1 DEF LastRead, InHand, a
  <2>3. LastRead' = (a + 1) - 1 /\ InHand' = (a + 1) - 1
    <3>1. book'.area_count = a + 1 /\ ~InBlocks' /\ ~Reading'
      BY <1>2, <1>3
    <3> QED BY <3>1, Zenon DEF LastRead, InHand
  <2>4. (a + 1) - 1 = a
    BY <1>1
  <2> QED BY <2>1, <2>2, <2>3, <2>4
<1>5. ShapeInv'
  <2>1. a + 1 \in 0 .. 2 /\ 0 \in Nat /\ ~(0 > 0)
    BY <1>1
  <2>2. Second' => a + 1 <= 1
    <3>1. CASE k = 1
      BY <1>1, <3>1
    <3> QED BY <1>2, <3>1
  <2>3. /\ DOMAIN book' = {"area_count", "twoch_area_idx", "mulch_area_idx", "area", "texts",
                            "starts", "sizes", "block"}
        /\ DOMAIN book'.area = 0 .. 1
        /\ \A i \in 0 .. 1 : DOMAIN book'.area[i]
                           = {"data", "toc", "channels", "texts", "description", "tables"}
    BY <1>0, <1>3 DEF ShapeInv
  <2> QED BY <1>2, <1>3, <2>1, <2>2, <2>3 DEF ShapeInv
<1>6. IndexInv'
  BY <1>0, <1>2, <1>3, <1>4 DEF IndexInv, has_two_channel
<1>7. TextsInv'
  <2>1. pc \in BookPcs
    BY <1>1
  <2>2. book'.texts = book.texts /\ book'.area = book.area
    BY <1>3
  <2> QED BY <1>0, <2>1, <2>2, Zenon DEF TextsInv
<1>8. Idle' /\ CallsInv' /\ RoomInv'
  <2>1. Idle'
    BY DEF Idle
  <2> QED BY <1>2, <2>1, NoTable
<1>9. KindsInv => KindsInv'
  BY <1>1, <1>2, <1>3 DEF KindsInv
<1>10. ASSUME AreasHeld PROVE AreasHeld'
  <2>1. MasterToc' = MasterToc
    BY SameDisc
  <2>2. pc' # "ready" => book.mulch_area_idx = -1
    <3>1. CASE k = 1
      <4>1. pc \notin {"blocks 2", "ready"}
        BY <3>1 DEF BlocksPc
      <4> QED BY <1>10, <4>1 DEF AreasHeld
    <3> QED BY <1>2, <3>1
  <2>3. pc \in BookPcs \ {"master"}
    BY <1>1
  <2> QED BY <1>2, <1>3, <1>4, <1>10, <2>1, <2>2, <2>3 DEF AreasHeld
<1> QED
  <2>1. CASE outOfMemory'
    BY <1>0, <1>1, <1>2, <1>5, <1>6, <1>7, <1>8, <2>1, BookHolds
  <2>2. CASE ~outOfMemory'
    BY <1>0, <1>1, <1>2, <1>5, <1>6, <1>7, <1>8, <1>9, <1>10, <2>2, BookHolds
  <2> QED BY <2>1, <2>2

LEMMA ReadsBlock ==
    ASSUME OInv, NEW k \in 1 .. 2, ReadBlock(k)
    PROVE  BInv'
<1>1. IInv /\ BInv /\ pc = BlocksPc(k)
  BY DEF OInv, ReadBlock
<1>2. Idle
  BY <1>1, Waiting DEF BlocksPc, Waits
<1>3. UNCHANGED <<call, ret, outOfMemory, fds, sock, location, disc, tablesWhole>>
  BY DEF ReadBlock, unlessBook, netVars
<1> DEFINE a == book.area_count
           block == Content(book.block)
           length == BlockLength(block.id)
           texts == IF block.id = "SACDTTxt" /\ "SACDTTxt" \notin book.area[a].tables
                    THEN TrackTexts(k, Content(0), block) ELSE {}
<1>4. length \in Nat
  BY BookAssumption DEF BlockLength
<1>5. OfTracks(texts)
  <2>1. ASSUME NEW b \in TrackTexts(k, Content(0), block) PROVE b[1] = "track text"
    <3>1. PICK t \in 1 .. Content(0).track_count : b \in {TrackText(k, t, name) : name \in block.tracks[t]}
      BY <2>1, Zenon DEF TrackTexts
    <3>2. PICK name \in block.tracks[t] : b = TrackText(k, t, name)
      BY <3>1
    <3> QED BY <3>2, Kinds
  <2> QED BY <2>1 DEF OfTracks
<1>6. CASE /\ book' = [book EXCEPT !.block = @ + length, !.area[a].tables = @ \cup {block.id},
                                    !.area[a].texts = @ \cup texts]
           /\ heap' = heap \cup texts
           /\ pc' = pc
  <2> HIDE DEF length, texts, block
  <2>1. book' = Taken(a, length, block.id, texts)
    BY <1>6 DEF Taken
  <2> QED BY <1>1, <1>2, <1>3, <1>4, <1>5, <1>6, <2>1, BlockTaken
<1>7. CASE /\ book' = [book EXCEPT !.area_count = @ + 1, !.block = 0]
           /\ pc' = Following(k) /\ heap' = heap
  <2>1. book' = Counted
    BY <1>7 DEF Counted
  <2> QED BY <1>1, <1>2, <1>3, <1>7, <2>1, AreaDone
<1> QED
  BY <1>6, <1>7 DEF ReadBlock

LEMMA Rips ==
    ASSUME OInv, Rip
    PROVE  BInv'
<1>1. /\ BInv /\ pc = "ready" /\ Idle /\ pc # "opening"
      /\ UNCHANGED <<heap, outOfMemory, fds, sock, location, disc, book, tablesWhole>>
  BY DEF OInv, Rip, netVars
<1>2. ~Idle' /\ call'.net = Net' /\ call'.op \in {"read", "total"} /\ pc' = "ready"
  <2>1. CASE \E pos \in RipSectors, n \in 1 .. 2 : sacd_read_block_raw(pos, n, "ready")
    BY <1>1, <2>1, AsksForBlocks
  <2>2. CASE sacd_get_total_sectors("ready")
    <3>1. call' = Call("total", Net, 0, 0) /\ pc' = "ready"
      BY <2>2 DEF sacd_get_total_sectors, Ask
    <3>2. call'.op = "total" /\ call'.net = Net
      BY <3>1 DEF Call, NoCall
    <3>3. Net' = Net
      BY <1>1 DEF Net
    <3> QED BY <3>1, <3>2, <3>3 DEF Idle
  <2> QED BY <2>1, <2>2 DEF Rip
<1>3. ShapeInv' /\ IndexInv' /\ TextsInv'
  BY <1>1, <1>2, HandleKept DEF BInv
<1>4. CallsInv' /\ RoomInv'
  BY <1>2, NoTable
<1>5. OthersKept /\ pc' = pc
  BY <1>1, <1>2 DEF OthersKept
<1>6. (KindsInv => KindsInv') /\ (AreasHeld => AreasHeld')
  BY <1>1, <1>5, OthersHeld
<1>7. pc' \in BookPcs
  BY <1>2 DEF BookPcs
<1>8. CASE outOfMemory'
  BY <1>1, <1>2, <1>3, <1>4, <1>7, <1>8, BookHolds
<1>9. CASE ~outOfMemory'
  BY <1>1, <1>2, <1>3, <1>4, <1>6, <1>7, <1>9, BookHolds
<1> QED
  BY <1>8, <1>9
-------------------------------------------------------------------------------
LEMMA InitiallyHeld ==
    ASSUME Init
    PROVE  OInv
<1>1. /\ pc = "sacd_open" /\ book = NewBook /\ heap = {} /\ fds = {"stdin"} /\ sock = "invalid"
      /\ Idle /\ call = NoCall
  BY DEF Init, InputInit, Idle, NoCall
<1>2. pc \notin ReaderPcs /\ pc \notin BookPcs
  BY <1>1 DEF ReaderPcs, BookPcs
<1>3. ShapeInv
  <2>1. /\ DOMAIN book = {"area_count", "twoch_area_idx", "mulch_area_idx", "area", "texts",
                           "starts", "sizes", "block"}
        /\ book.area = [i \in 0 .. 1 |-> NoArea] /\ book.area_count = 0 /\ book.block = 0
    BY <1>1 DEF NewBook
  <2>2. DOMAIN NoArea = {"data", "toc", "channels", "texts", "description", "tables"}
    BY DEF NoArea
  <2>3. /\ DOMAIN book.area = 0 .. 1
        /\ \A i \in 0 .. 1 : DOMAIN book.area[i]
                               = {"data", "toc", "channels", "texts", "description", "tables"}
    BY <2>1, <2>2
  <2>4. ~First /\ ~Second /\ ~InBlocks
    BY <1>1 DEF First, Second, InBlocks
  <2>5. 0 \in 0 .. 2 /\ 0 \in Nat /\ ~(0 > 0)
    OBVIOUS
  <2>6. book.area_count \in 0 .. 2 /\ book.block \in Nat /\ ~(book.block > 0)
    BY <2>1, <2>5
  <2> QED BY <1>1, <2>1, <2>3, <2>4, <2>6 DEF ShapeInv
<1>4. IndexInv
  BY <1>1, NewBookHolds DEF IndexInv, Indices, has_two_channel, Reading
<1>5. TextsInv
  BY <1>1, <1>2, NewBookHolds DEF TextsInv
<1>6. ResourcesInv
  BY <1>1 DEF ResourcesInv
<1>7. CallsInv /\ RoomInv
  <2>1. \A k \in 1 .. 2 : pc # ReadPc(k)
    BY <1>1 DEF ReadPc
  <2> QED BY <1>1, <2>1 DEF CallsInv, RoomInv
<1>8. HeldInv
  BY <1>1 DEF HeldInv, InputFree, Idle
<1>9. KindsInv
  BY <1>1 DEF KindsInv
<1>10. AreasHeld
  <2>1. ~InBlocks
    BY <1>1 DEF InBlocks
  <2>2. book.area_count = 0 /\ book.mulch_area_idx = -1
        /\ \A i \in 0 .. 1 : book.area[i].texts = {} /\ book.area[i].description = {}
    BY <1>1, NewBookHolds
  <2>3. LastRead = 0 - 1
    BY <2>1, <2>2 DEF LastRead
  <2>4. 0 .. LastRead = {}
    BY <2>3, NoneBelow, Zenon
  <2> QED BY <1>1, <1>2, <2>2, <2>4 DEF AreasHeld
<1>11. BInv
  BY <1>3, <1>4, <1>5, <1>6, <1>7, <1>8, <1>9, <1>10 DEF BInv, HeapInv
<1> QED
  BY <1>11, Initial DEF OInv

LEMMA HeldOn ==
    ASSUME OInv, [Next]_vars
    PROVE  OInv'
<1>1. IInv'
  BY Steps DEF OInv
<1>2. BInv'
  <2>1. CASE InputStep /\ UNCHANGED <<readerVars, bookVars>>
    BY <2>1, InputHolds
  <2>2. CASE ReaderStep /\ UNCHANGED bookVars
    BY <2>2, ReaderStepsHold
  <2>3. CASE BookStep
    BY <2>3, OpensBook, ReadsMaster, BookCloses, Rips, StartsArea, ReadsArea, ReadsBlock DEF BookStep
  <2>4. CASE (ServerStep \/ Break) /\ UNCHANGED <<readerVars, bookVars>>
    <3>1. UNCHANGED <<call, ret, buffer, heap, fds, sock, outOfMemory>>
      BY <2>4 DEF ServerStep, Break, ServerAnswers, ServerSends, ConnectionBreaks
    <3> QED BY <2>4, <3>1, NothingMoves DEF OInv
  <2>5. CASE UNCHANGED vars
    <3>1. UNCHANGED <<call, ret, buffer, heap, fds, sock, outOfMemory, readerVars, bookVars>>
      BY <2>5 DEF vars, inputVars, netVars
    <3> QED BY <3>1, NothingMoves DEF OInv
  <2> QED BY <2>1, <2>2, <2>3, <2>4, <2>5 DEF Next, Program, Server
<1> QED
  BY <1>1, <1>2 DEF OInv

THEOREM HeldInvariance == Spec => []OInv
<1>1. Init => OInv
  BY InitiallyHeld
<1>2. OInv /\ [Next]_vars => OInv'
  BY HeldOn
<1> QED
  BY <1>1, <1>2, PTL DEF Spec

LEMMA HandleRight ==
    ASSUME OInv
    PROVE  TypeOK
<1>1. ShapeInv /\ IndexInv /\ TextsInv /\ ResourcesInv
  BY DEF OInv, BInv
<1>2. inStep => ret.v \in -1 .. Sectors
  BY DEF OInv, IInv, InputInv, ReturnInv
<1>3. book.area_count - (IF book.block > 0 THEN 0 ELSE 1) = LastRead
  <2>1. book.area_count \in 0 .. 2 /\ (InBlocks <=> book.block > 0)
    BY <1>1 DEF ShapeInv
  <2> QED BY <2>1 DEF LastRead
<1>4. \A idx \in {book.twoch_area_idx, book.mulch_area_idx} \ {-1} :
        /\ idx \in 0 .. LastRead /\ book.area[idx].toc
        /\ AreaData(book.area[idx].data) \in heap /\ free_area(book.area[idx]) \subseteq heap
  <2>1. ASSUME NEW idx \in Indices
        PROVE  /\ idx \in 0 .. LastRead /\ book.area[idx].toc
               /\ AreaData(book.area[idx].data) \in heap /\ free_area(book.area[idx]) \subseteq heap
    <3>1. idx \in 0 .. LastRead /\ book.area[idx].toc /\ AreaData(book.area[idx].data) \in heap
      BY <1>1, <2>1 DEF IndexInv
    <3>2. idx \in 0 .. 1
      <4>0. InBlocks => First \/ Second
        BY DEF InBlocks, First, Second
      <4>1. book.area_count \in 0 .. 2 /\ (InBlocks => book.area_count \in 0 .. 1)
        BY <1>1, <4>0 DEF ShapeInv
      <4> QED BY <3>1, <4>1 DEF LastRead
    <3>3. free_area(book.area[idx]) \subseteq heap
      BY <1>1, <3>2 DEF TextsInv, free_area
    <3> QED BY <3>1, <3>3
  <2> QED BY <2>1 DEF Indices
<1>5. pc = "ready" => {Sb, FrameData, MasterData} \cup book.texts \subseteq heap
  BY <1>1 DEF TextsInv, BookPcs
<1>6. fds \subseteq {"stdin", "socket", "file", "directory", "mount table"}
      /\ sock \in {"zero", "invalid", "fresh", "connected"} /\ book.area_count \in 0 .. 2
      /\ (has_two_channel(book) => book.area[book.twoch_area_idx].channels = 2)
  BY <1>1 DEF ResourcesInv, ShapeInv, IndexInv
<1> QED
  BY <1>2, <1>3, <1>4, <1>5, <1>6 DEF TypeOK

LEMMA NothingHeldAtEnd ==
    ASSUME OInv
    PROVE  ReleasedAtEnd
<1> SUFFICES ASSUME pc = "end", Idle, ~outOfMemory
             PROVE  /\ fds = {"stdin"}
                    /\ \A b \in heap : b[1] \in {"area", "description", "track text"}
                    /\ tablesWhole /\ Sound => heap = {}
  BY DEF ReleasedAtEnd
<1>1. /\ ShapeInv /\ TextsInv /\ ResourcesInv /\ HeldInv /\ KindsInv
      /\ tablesWhole /\ Sound => AreasHeld
  BY DEF OInv, BInv, HeapInv
<1>2. NoInput /\ pc \notin ReaderPcs /\ pc \notin BookPcs
  BY DEF NoInput, ReaderPcs, BookPcs
<1>3. InputFree /\ "stdin" \in fds /\ "directory" \notin fds /\ "mount table" \notin fds
  BY <1>1, <1>2 DEF HeldInv
<1>4. fds = {"stdin"}
  BY <1>1, <1>3 DEF InputFree, ResourcesInv
<1>5. book = NewBook /\ book.texts = {}
  BY <1>1, <1>2, NewBookHolds DEF ShapeInv
<1>6. \A b \in heap : b[1] \in AreaKinds
  BY <1>1, <1>2, <1>3, <1>5 DEF KindsInv, InputFree
<1>7. tablesWhole /\ Sound => \A b \in heap : b[1] \notin AreaKinds
  BY <1>1, <1>2, <1>5, NoAreas
<1> QED
  BY <1>4, <1>6, <1>7 DEF AreaKinds

(* The areas' indices point to areas that are there, of the kind they stand     *)
(* for, and nothing the handle points to has been released:                     *)
(* scarletbook_open, read_area_toc and scarletbook_close.                       *)
THEOREM HandleSound == Spec => []TypeOK
<1>1. OInv => TypeOK
  BY HandleRight
<1> QED
  BY <1>1, HeldInvariance, PTL

(* What the program has opened and allocated is closed and released when it is  *)
(* done: sacd_open to sacd_close, with the input under them.                    *)
THEOREM AllReleased == Spec => []ReleasedAtEnd
<1>1. OInv => ReleasedAtEnd
  BY NothingHeldAtEnd
<1> QED
  BY <1>1, HeldInvariance, PTL
=============================================================================
