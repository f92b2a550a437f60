---------------------------- MODULE ScarletbookOpen ----------------------------
(* How the structure of a disc is read and released (scarletbook_read.c):      *)
(* the master table with its texts, then the tables of one or two areas, each  *)
(* over the reader of SacdReader.  A sector is the record of what the code     *)
(* looks at in it; a sector that has not been read whole is Unread.            *)
EXTENDS SacdReader

CONSTANTS Discs,                 \* [sectors: the contents of each]
          START_OF_MASTER_TOC, MAX_LANGUAGE_COUNT, ACCESS_LIST_LEN,
          MaxRips, RipSectors    \* reads of the disc once it is open: how many, and where

\* A master table has the place and the size of two areas' tables; an area's
\* table has up to four texts.
ASSUME BookAssumption ==
  /\ {START_OF_MASTER_TOC, MAX_LANGUAGE_COUNT, ACCESS_LIST_LEN, MaxRips} \subseteq Nat
  /\ RipSectors \subseteq Nat
  /\ \A d \in Discs :
       /\ DOMAIN d.sectors = 1..Sectors
       /\ \A i \in DOMAIN d.sectors :
            /\ d.sectors[i].id = "SACDMTOC" => {d.sectors[i].starts, d.sectors[i].sizes} \subseteq [1..2 -> Nat]
            /\ d.sectors[i].id \in {"TWOCHTOC", "MULCHTOC"} => d.sectors[i].descriptions \subseteq 1..4

VARIABLES disc, book, rips,
          tablesWhole   \* every table has been read as it lies on the disc

bookVars == <<disc, book, rips, tablesWhole>>
vars == <<inputVars, readerVars, bookVars>>

MASTER_TOC_LEN == 1 + MAX_LANGUAGE_COUNT + 1

Unread == [id |-> "junk"]
ContentOf(halves) == IF \E s \in 0..(Sectors - 1) : halves = Sector(s)
                     THEN disc.sectors[halves[1] \div 2 + 1] ELSE Unread
\* The i-th sector of the buffer, from 0; there is nothing behind its end.
Content(i) == IF 2 * i + 2 <= Len(buffer) THEN ContentOf(SubSeq(buffer, 2 * i + 1, 2 * i + 2)) ELSE Unread

NoArea == [data |-> 0, toc |-> FALSE, channels |-> 0, texts |-> {}, description |-> {}, tables |-> {}]
NewBook == [area_count |-> 0, twoch_area_idx |-> -1, mulch_area_idx |-> -1,
            area |-> [i \in 0..1 |-> NoArea], texts |-> {}, starts |-> <<0, 0>>, sizes |-> <<0, 0>>, block |-> 0]

Sb == Block("sb", 0, "")
FrameData == Block("frame", 0, "")
MasterData == Block("master", 0, "")
AreaData(k) == Block("area", k, "")
MasterText(name) == Block("master text", 0, name)
TrackText(k, t, name) == Block("track text", 10 * k + t, name)
Description(k, n) == Block("description", 10 * k + n, "")

has_two_channel(b) == b.twoch_area_idx # -1
has_multi_channel(b) == b.mulch_area_idx # -1

------------------------------------------------------------------------------
(* scarletbook_close                                                          *)

\* A mutant: the texts of the tracks are forgotten.
free_description(area) == area.description

\* The strings of the tracks there are, and the one the area points to.
free_area(area) == area.texts \cup area.description

\* Only the areas that an index points to are released.
Released(b) ==
  {Sb, FrameData, MasterData} \cup b.texts
    \cup UNION {free_area(b.area[i]) \cup {AreaData(b.area[i].data)} :
                  i \in {b.twoch_area_idx, b.mulch_area_idx} \ {-1}}

unlessBook == <<buffer, fds, netVars, fileSize, pieces, location, disc>>
TableRead == tablesWhole' = (tablesWhole /\ ret.v = ret.n /\ inStep /\ ~pieces)

CloseBook ==
  /\ heap' = heap \ Released(book)
  /\ book' = NewBook
  /\ pc' = "sacd_close"

scarletbook_close ==
  /\ pc = "ready" /\ Idle
  /\ CloseBook
  /\ UNCHANGED <<call, ret, outOfMemory, rips, tablesWhole, unlessBook>>

------------------------------------------------------------------------------
(* scarletbook_open                                                           *)

\* Without memory for a frame the handle itself is left behind; without memory for
\* the master table all is released.
scarletbook_open ==
  /\ pc = "scarletbook_open"
  /\ UNCHANGED <<fds, netVars, fileSize, pieces, location, disc, rips, tablesWhole>>
  /\ \/ /\ outOfMemory' = TRUE /\ pc' = "sacd_close"
        /\ heap' \in {heap, heap \cup {Sb}}
        /\ UNCHANGED <<call, ret, buffer, book>>
     \/ /\ book' = NewBook
        /\ heap' = heap \cup {Sb, FrameData, MasterData}
        /\ sacd_read_block_raw(START_OF_MASTER_TOC, MASTER_TOC_LEN, "master")
        /\ UNCHANGED outOfMemory

\* The first text of the master table is taken before the others are looked at; it
\* is released again when one of those is not valid.
MasterTexts == IF Content(0).id = "SACDMTOC" /\ Content(0).supported /\ Content(1).id = "SACDText"
               THEN {MasterText(name) : name \in Content(1).texts} ELSE {}

MasterTocValid ==
  /\ Content(0).id = "SACDMTOC" /\ Content(0).supported
  /\ \A i \in 1..MAX_LANGUAGE_COUNT : Content(i).id = "SACDText"
  /\ Content(MAX_LANGUAGE_COUNT + 1).id = "SACD_Man"

\* Any answer but 0 counts as read: an error is told from its content only.
scarletbook_read_master_toc ==
  /\ pc = "master" /\ Idle
  /\ TableRead
  /\ UNCHANGED <<call, ret, outOfMemory, rips, unlessBook>>
  /\ IF ret.v # 0 /\ MasterTocValid
     THEN /\ book' = [book EXCEPT !.texts = MasterTexts, !.starts = Content(0).starts,
                                  !.sizes = Content(0).sizes]
          /\ heap' = heap \cup MasterTexts
          /\ pc' = "area 1"
     ELSE /\ heap' = heap \ Released(book)
          /\ book' = NewBook
          /\ pc' = "sacd_close"

AreaPc(k) == IF k = 1 THEN "area 1" ELSE "area 2"
ReadPc(k) == IF k = 1 THEN "read 1" ELSE "read 2"
BlocksPc(k) == IF k = 1 THEN "blocks 1" ELSE "blocks 2"
Following(k) == IF k = 1 THEN "area 2" ELSE "ready"

StartArea(k) ==
  /\ pc = AreaPc(k) /\ Idle
  /\ UNCHANGED <<fds, netVars, fileSize, pieces, location, disc, rips, tablesWhole>>
  /\ IF book.starts[k] = 0
     THEN pc' = Following(k) /\ UNCHANGED <<call, ret, buffer, heap, book, outOfMemory>>
     ELSE \/ /\ CloseBook /\ outOfMemory' = TRUE
             /\ UNCHANGED <<call, ret, buffer>>
          \/ /\ heap' = heap \cup {AreaData(k)}
             /\ book' = [book EXCEPT !.area[book.area_count].data = k]
             /\ sacd_read_block_raw(book.starts[k], book.sizes[k], ReadPc(k))
             /\ UNCHANGED outOfMemory

(* scarletbook_read_area_toc                                                  *)

\* The four texts of an area all go to the same pointer, the last one stays.
Descriptions(k, toc) == {Description(k, n) : n \in toc.descriptions}
LastDescription(k, toc, before) ==
  IF toc.descriptions = {} THEN before
  ELSE {Description(k, CHOOSE n \in toc.descriptions : \A m \in toc.descriptions : m <= n)}

IsAreaToc(toc) == toc.id \in {"TWOCHTOC", "MULCHTOC"}

\* A mutant: the index is set whatever the version.
SetsIndexFirst(k, idx, toc) ==
  IF ~IsAreaToc(toc) THEN [book EXCEPT !.area[idx].toc = TRUE]
  ELSE [book EXCEPT !.area[idx].toc = TRUE, !.area[idx].channels = toc.channels,
                    !.twoch_area_idx = IF toc.channels = 2 THEN idx ELSE @,
                    !.mulch_area_idx = IF toc.channels = 2 THEN @ ELSE idx,
                    !.block = IF toc.supported THEN 1 ELSE 0]

\* The index of the area is set once its version is known to be supported.
ReadAreaToc(k, idx, toc) ==
  IF ~IsAreaToc(toc) THEN [book EXCEPT !.area[idx].toc = TRUE]
  ELSE LET described == [book EXCEPT !.area[idx].toc = TRUE, !.area[idx].channels = toc.channels,
                                     !.area[idx].description = LastDescription(k, toc, @)]
       IN IF ~toc.supported THEN described
          ELSE IF toc.channels = 2 /\ toc.stereo
          THEN [described EXCEPT !.twoch_area_idx = idx, !.block = 1]
          ELSE [described EXCEPT !.mulch_area_idx = idx, !.block = 1]

ReadArea(k) ==
  /\ pc = ReadPc(k) /\ Idle
  /\ TableRead
  /\ IF ret.v = 0
     THEN /\ book' = [book EXCEPT !.starts[k] = 0]
          /\ pc' = Following(k)
          /\ UNCHANGED heap
     ELSE /\ book' = ReadAreaToc(k, book.area_count, Content(0))
          /\ heap' = IF IsAreaToc(Content(0)) THEN heap \cup Descriptions(k, Content(0)) ELSE heap
          /\ pc' = IF IsAreaToc(Content(0)) /\ Content(0).supported THEN BlocksPc(k) ELSE Following(k)
  /\ UNCHANGED <<call, ret, outOfMemory, rips, unlessBook>>

\* The sectors each block takes; anything else ends the area.
BlockLength(id) ==
  CASE id \in {"SACDTTxt", "SACDTRL1", "SACDTRL2"} -> 1
    [] id = "SACD_IGL" -> 2
    [] id = "SACD_ACC" -> ACCESS_LIST_LEN
    [] OTHER -> 0

\* Only the first block of texts is used.
TrackTexts(k, toc, block) ==
  UNION {{TrackText(k, t, name) : name \in block.tracks[t]} : t \in 1..toc.track_count}

ReadBlock(k) ==
  /\ pc = BlocksPc(k)
  /\ LET idx == book.area_count
         toc == Content(0)
         block == Content(book.block)
         texts == IF block.id = "SACDTTxt" /\ "SACDTTxt" \notin book.area[idx].tables
                  THEN TrackTexts(k, toc, block) ELSE {}
     IN IF book.block < toc.size /\ BlockLength(block.id) > 0
        THEN /\ book' = [book EXCEPT !.block = @ + BlockLength(block.id),
                                     !.area[idx].tables = @ \cup {block.id},
                                     !.area[idx].texts = @ \cup texts]
             /\ heap' = heap \cup texts
             /\ UNCHANGED pc
        ELSE /\ book' = [book EXCEPT !.area_count = @ + 1, !.block = 0]
             /\ pc' = Following(k)
             /\ UNCHANGED heap
  /\ UNCHANGED <<call, ret, outOfMemory, rips, tablesWhole, unlessBook>>

\* Ripping, as far as the disc is concerned: blocks are read and the size asked.
Rip ==
  /\ pc = "ready" /\ Idle /\ rips < MaxRips
  /\ rips' = rips + 1
  /\ \/ \E pos \in RipSectors, n \in 1..2 : sacd_read_block_raw(pos, n, "ready")
     \/ sacd_get_total_sectors("ready")
  /\ UNCHANGED <<heap, fds, outOfMemory, netVars, fileSize, pieces, location, disc, book, tablesWhole>>

BookStep ==
  \/ scarletbook_open \/ scarletbook_read_master_toc \/ scarletbook_close \/ Rip
  \/ \E k \in 1..2 : StartArea(k) \/ ReadArea(k) \/ ReadBlock(k)

Init ==
  /\ InputInit
  /\ location \in Locations
  /\ fileSize \in FileSizes /\ (Net => fileSize = 2 * Sectors)
  /\ pc = "sacd_open"
  /\ disc \in Discs
  /\ book = NewBook
  /\ rips = 0
  /\ tablesWhole = TRUE

Program ==
  \/ InputStep /\ UNCHANGED <<readerVars, bookVars>>
  \/ ReaderStep /\ UNCHANGED bookVars
  \/ BookStep

Server == ServerStep /\ UNCHANGED <<readerVars, bookVars>>

Next == Program \/ Server \/ (Break /\ UNCHANGED <<readerVars, bookVars>>)

------------------------------------------------------------------------------
\* The indices of the areas point to areas that have been read to the end, or are
\* being read, of the kind they stand for; a disc whose handle is there is never without its master
\* table, and nothing the handle points to has been released.
TypeOK ==
  /\ fds \subseteq {"stdin", "socket", "file", "directory", "mount table"}
  /\ sock \in {"zero", "invalid", "fresh", "connected"}
  /\ inStep => ret.v \in -1..Sectors
  /\ book.area_count \in 0..2
  /\ \A idx \in {book.twoch_area_idx, book.mulch_area_idx} \ {-1} :
       /\ idx \in 0..(book.area_count - (IF book.block > 0 THEN 0 ELSE 1))
       /\ book.area[idx].toc
       /\ AreaData(book.area[idx].data) \in heap
       /\ free_area(book.area[idx]) \subseteq heap
  /\ has_two_channel(book) => book.area[book.twoch_area_idx].channels = 2
  /\ pc = "ready" => {Sb, FrameData, MasterData} \cup book.texts \subseteq heap

\* A disc whose areas are found: each has a table of its own kind that the
\* program supports, with no more than one description.
MasterToc == disc.sectors[START_OF_MASTER_TOC + 1]
TocOf(k) == disc.sectors[MasterToc.starts[k] + 1]
Sound ==
  \A k \in {k \in 1..2 : MasterToc.starts[k] # 0} :
    /\ MasterToc.sizes[k] > 0
    /\ IsAreaToc(TocOf(k)) /\ TocOf(k).supported
    /\ (TocOf(k).channels = 2 /\ TocOf(k).stereo) = (k = 1)
    /\ \A m, n \in TocOf(k).descriptions : m = n

\* When the program is done it has closed whatever it opened and left standard
\* input alone.  It has released what it allocated but for the areas that no
\* index points to and texts whose pointer has been used again; nothing at all is
\* left of a sound disc whose tables have been read as they are.
\* Nothing is said of a run that ran out of memory: some of the error paths of
\* sacd_open, scarletbook_open and the network's open do leave things behind.
ReleasedAtEnd ==
  (pc = "end" /\ Idle /\ ~outOfMemory) =>
     /\ fds = {"stdin"}
     /\ \A b \in heap : b[1] \in {"area", "description", "track text"}
     /\ tablesWhole /\ Sound => heap = {}

\* Every run of the program ends.
RunEnds == <>(pc = "end" /\ Idle)

\* The program goes on by itself; it has no time limits, so that the other end
\* either answers or goes away is an assumption about that end.
Spec == Init /\ [][Next]_vars /\ WF_vars(Program) /\ WF_vars(Server)
==============================================================================
