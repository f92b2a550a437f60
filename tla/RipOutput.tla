------------------------------ MODULE RipOutput ------------------------------
(***************************************************************************)
(* libsacd/scarletbook_output.c as tools/sacd_extract/main.c drives it: a  *)
(* queue of output files, the processing thread that reads the disc block  *)
(* by block for one file after the other, and the thread that it starts    *)
(* for each block to take the audio frames out of read_buffer while the    *)
(* next block is being read.  An ISO may carry a sub queue of track files  *)
(* that are made from the same blocks (concurrent mode).                   *)
(*                                                                         *)
(* The processing thread's steps are what it does between two points where *)
(* another thread can see or change its state: the flag stop_processing,   *)
(* read_buffer, and the creation, joining and end of a frame thread.       *)
(* A sector is its number with the fact whether it has been decrypted; the *)
(* decoder is what module DstDecoder shows of it: open between create and  *)
(* destroy, with every frame delivered when destroy returns.               *)
(***************************************************************************)
EXTENDS Integers, Sequences, FiniteSets, FiniteSetsExt, SequencesExt

CONSTANTS Discs,     \* the discs, see DiscAssumption
          Requests,  \* what the user may ask for, see RequestAssumption
          MaxBlock   \* MAX_PROCESSING_BLOCK_SIZE

(* A disc has one or two areas, in the order of their sectors; the tracks  *)
(* of an area start at sectors tracks[1], tracks[2], ... and the first     *)
(* area starts after the file system.  total is what the drive or the size *)
(* of the image says, less than the last track's end for a truncated one.  *)
(* plain: all DSD and not encrypted, as the first bytes of an area show.   *)
Area == [start : Nat \ {0}, end : Nat, tracks : Seq(Nat), dst : BOOLEAN]
Disc == [areas : Seq(Area), total : Nat \ {0}, plain : BOOLEAN]

DiscAssumption(disc) ==
    /\ disc \in Disc
    /\ Len(disc.areas) \in 1 .. 2
    /\ disc.plain => \A a \in DOMAIN disc.areas : ~disc.areas[a].dst
    /\ \A a \in DOMAIN disc.areas :
         LET area == disc.areas[a]
         IN /\ area.tracks # <<>> /\ area.tracks[1] = area.start
            /\ \A t \in 1 .. Len(area.tracks) - 1 :
                    area.tracks[t] < area.tracks[t + 1]
            /\ Last(area.tracks) < area.end
            /\ a = 2 => disc.areas[1].end < area.start

(* mode is "iso", "concurrent", "edit" or "tracks"; areas the areas asked  *)
(* for; pick the tracks selected; dsf or else DSDIFF; convert: -c, decode  *)
(* DST for DSDIFF.                                                         *)
RequestAssumption(r) ==
    /\ r \in [mode : {"iso", "concurrent", "edit", "tracks"},
              areas : SUBSET (1 .. 2), pick : SUBSET Nat,
              dsf : BOOLEAN, convert : BOOLEAN]
    /\ r.areas # {}

ASSUME RipAssumption ==
    /\ MaxBlock \in Nat \ {0}
    /\ \A disc \in Discs : DiscAssumption(disc)
    /\ \A r \in Requests : RequestAssumption(r)

VARIABLES
    disc, request,
    mpc,             \* main: "enqueue", "start", "destroy", "join", "done"
    queue,           \* output->ripping_queue
    stop_processing, processing,
    ppc,             \* where the processing thread is
    ft, ft_sub,      \* the file being made, the track file made with it
    current_lsn, end_lsn,
    buf, encrypted,  \* the block just read, and whether it has to be decrypted
    read_buffer,
    running,         \* processing_thread_run
    checked, non_encrypted_disc,
    fpc, fargs,      \* the frame thread: "none", "running" or "done", and
                     \* the file it works for and the sectors it has left
    file,            \* each output file: whether it is open, what it holds
    decoder,         \* each file's DST decoder
    interrupted      \* whether the user has pressed ^C

control == <<mpc, disc, request>>
flags   == <<stop_processing, processing, interrupted>>
place   == <<current_lsn, end_lsn, ft, ft_sub, queue>>
block   == <<buf, encrypted, read_buffer, checked, non_encrypted_disc>>
frames  == <<running, fpc, fargs>>
outputs == <<file, decoder>>
vars == <<control, flags, place, block, frames, outputs, ppc>>
-----------------------------------------------------------------------------
IsoName         == <<"iso", 0, 0>>
EditName(a)     == <<"edit", a, 0>>
TrackName(a, t) == <<"track", a, t>>
Names ==
    {IsoName} \cup {EditName(a) : a \in DOMAIN disc.areas}
        \cup UNION {{TrackName(a, t) : t \in DOMAIN disc.areas[a].tracks} :
                    a \in DOMAIN disc.areas}

NoItem == [name |-> <<"none", 0, 0>>, start |-> 0, length |-> 0,
           raw |-> FALSE, dsf |-> FALSE, decode |-> FALSE, subs |-> <<>>]

(* scarletbook_output_enqueue_raw_sectors(output, 0, total_sectors, "iso") *)
RawItem(subs) ==
    [NoItem EXCEPT !.name = IsoName, !.length = disc.total, !.raw = TRUE,
                   !.subs = subs]

(* scarletbook_output_enqueue_track for an edit master: the whole area     *)
EditItem(a) ==
    LET area == disc.areas[a]
    IN [NoItem EXCEPT !.name = EditName(a), !.start = area.start,
                      !.length = area.end - area.start + 1,
                      !.decode = area.dst /\ request.convert]

(* ... and for track t (counted from 1): the sector where the next track   *)
(* starts belongs to both, the last track stops short of track_end         *)
TrackItem(a, t) ==
    LET area  == disc.areas[a]
        start == IF t > 1 THEN area.tracks[t] ELSE area.start
    IN [NoItem EXCEPT !.name = TrackName(a, t), !.start = start,
                      !.length = IF t < Len(area.tracks)
                                 THEN area.tracks[t + 1] - start + 1
                                 ELSE area.end - start,
                      !.dsf = request.dsf,
                      !.decode = area.dst /\ (request.dsf \/ request.convert)]

(* the elements of a finite set of numbers, the smallest first             *)
Ascending(S) ==
    CHOOSE s \in [1 .. Cardinality(S) -> S] :
        \A i, j \in DOMAIN s : i < j => s[i] < s[j]

Areas == Ascending(request.areas \cap DOMAIN disc.areas)

AreaTracks(a) ==
    LET picked == Ascending(request.pick \cap DOMAIN disc.areas[a].tracks)
    IN [i \in DOMAIN picked |-> TrackItem(a, picked[i])]

AllTracks == FlattenSeq([i \in DOMAIN Areas |-> AreaTracks(Areas[i])])

(* what main.c enqueues for each mode                                      *)
Enqueued ==
    CASE request.mode = "iso"        -> <<RawItem(<<>>)>>
      [] request.mode = "concurrent" -> <<RawItem(AllTracks)>>
      [] request.mode = "edit"       -> [i \in DOMAIN Areas |->
                                                EditItem(Areas[i])]
      [] request.mode = "tracks"     -> AllTracks
-----------------------------------------------------------------------------
Init ==
    /\ disc \in Discs
    /\ request \in Requests
    /\ mpc = "enqueue"
    /\ queue = <<>>
    /\ stop_processing = 0
    /\ processing = 0
    /\ ppc = "none"
    /\ ft = NoItem
    /\ ft_sub = NoItem
    /\ current_lsn = 0
    /\ end_lsn = 0
    /\ buf = <<>>
    /\ encrypted = FALSE
    /\ read_buffer = <<>>
    /\ running = FALSE
    /\ checked = FALSE
    /\ non_encrypted_disc = FALSE
    /\ fpc = "none"
    /\ fargs = [name |-> NoItem.name, left |-> 0]
    /\ file = [n \in Names |-> [state |-> "none", sectors |-> <<>>]]
    /\ decoder = [n \in Names |-> "none"]
    /\ interrupted = FALSE
-----------------------------------------------------------------------------
(* main(): enqueue, scarletbook_output_start, scarletbook_output_destroy   *)
Enqueue ==
    /\ mpc = "enqueue"
    /\ queue' = Enqueued
    /\ mpc' = "start"
    /\ UNCHANGED <<disc, request, flags, current_lsn, end_lsn, ft, ft_sub,
                   block, frames, outputs, ppc>>

scarletbook_output_start ==
    /\ mpc = "start"
    /\ ppc' = "begin"
    /\ mpc' = "destroy"
    /\ UNCHANGED <<disc, request, flags, place, block, frames, outputs>>

(* destroy begins with scarletbook_output_interrupt, then joins the thread *)
DestroyInterrupts ==
    /\ mpc = "destroy"
    /\ ppc # "crashed"
    /\ stop_processing' = 1
    /\ mpc' = "join"
    /\ UNCHANGED <<disc, request, processing, interrupted, place, block,
                   frames, outputs, ppc>>

DestroyJoins ==
    /\ mpc = "join"
    /\ ppc = "exited"
    /\ read_buffer' = <<>>
    /\ mpc' = "done"
    /\ UNCHANGED <<disc, request, flags, place, buf, encrypted, checked,
                   non_encrypted_disc, frames, outputs, ppc>>

(* the SIGINT handler, while there is an output to interrupt               *)
handle_sigint ==
    /\ mpc # "done"
    /\ ppc # "crashed"
    /\ ~interrupted
    /\ interrupted' = TRUE
    /\ stop_processing' = 1
    /\ UNCHANGED <<control, processing, place, block, frames, outputs, ppc>>
-----------------------------------------------------------------------------
(* processing_thread: take the next item off the queue                     *)
Begin ==
    /\ ppc = "begin"
    /\ processing' = 1
    /\ ppc' = "next"
    /\ UNCHANGED <<control, stop_processing, interrupted, place, block,
                   frames, outputs>>

NextItem ==
    /\ ppc = "next"
    /\ queue # <<>>
    /\ ft' = Head(queue)
    /\ queue' = Tail(queue)
    /\ decoder' = IF ft'.decode THEN [decoder EXCEPT ![ft'.name] = "open"]
                                ELSE decoder
    /\ ppc' = "create"
    /\ UNCHANGED <<control, flags, current_lsn, end_lsn, ft_sub, block,
                   frames, file>>

QueueEmpty ==
    /\ ppc = "next"
    /\ queue = <<>>
    /\ processing' = 0
    /\ ppc' = "exited"
    /\ UNCHANGED <<control, stop_processing, interrupted, place, block,
                   frames, outputs>>

(* create_output_file, and where the first block starts.  An ISO starts    *)
(* before the first track, so it is read up to it without a sub item       *)
CreateFile ==
    /\ ppc = "create"
    /\ file' = [file EXCEPT ![ft.name].state = "open"]
    /\ current_lsn' = ft.start
    /\ end_lsn' = IF ft.subs = <<>> THEN ft.start + ft.length
                                    ELSE ft.subs[1].start
    /\ ppc' = "reset"
    /\ UNCHANGED <<control, flags, ft, ft_sub, queue, block, frames, decoder>>

(* fopen fails                                                             *)
CreateFails ==
    /\ ppc = "create"
    /\ file' = [file EXCEPT ![ft.name].state = "failed"]
    /\ ppc' = "check"
    /\ UNCHANGED <<control, flags, place, block, frames, decoder>>

(* sysAtomicSet(&output->stop_processing, 0)                               *)
ResetStop ==
    /\ ppc = "reset"
    /\ stop_processing' = 0
    /\ ppc' = "loop"
    /\ UNCHANGED <<control, processing, interrupted, place, block, frames,
                   outputs>>

LoopStops ==
    /\ ppc = "loop"
    /\ stop_processing # 0
    /\ ppc' = "check"
    /\ UNCHANGED <<control, flags, place, block, frames, outputs>>

LoopAtEnd ==
    /\ ppc = "loop"
    /\ stop_processing = 0
    /\ current_lsn >= end_lsn
    /\ ppc' = "joinEnd"
    /\ UNCHANGED <<control, flags, place, block, frames, outputs>>

Smaller(a, b) == IF a < b THEN a ELSE b

(* Variant with a fault: the last sector of an area is not decrypted       *)
ExtentShort(lsn) ==
    LET s1 == disc.areas[1].start
        e1 == disc.areas[1].end
        s2 == IF Len(disc.areas) = 2 THEN disc.areas[2].start ELSE 0
        e2 == IF Len(disc.areas) = 2 THEN disc.areas[2].end ELSE 0
    IN CASE lsn < s1                -> [size |-> s1 - lsn, enc |-> FALSE]
         [] lsn >= s1 /\ lsn < e1   -> [size |-> e1 - lsn, enc |-> TRUE]
         [] lsn >= e1 /\ lsn < s2   -> [size |-> s2 - lsn, enc |-> FALSE]
         [] lsn >= s2 /\ lsn < e2   -> [size |-> e2 - lsn, enc |-> TRUE]
         [] OTHER                   -> [size |-> MaxBlock, enc |-> FALSE]

(* which sectors are encrypted, and how far on that is the same; an area   *)
(* that is not there starts and ends at 0                                  *)
Extent(lsn) ==
    LET s1 == disc.areas[1].start
        e1 == disc.areas[1].end
        s2 == IF Len(disc.areas) = 2 THEN disc.areas[2].start ELSE 0
        e2 == IF Len(disc.areas) = 2 THEN disc.areas[2].end ELSE 0
    IN CASE lsn < s1                 -> [size |-> s1 - lsn, enc |-> FALSE]
         [] lsn >= s1 /\ lsn <= e1   -> [size |-> e1 + 1 - lsn, enc |-> TRUE]
         [] lsn > e1 /\ lsn < s2     -> [size |-> s2 - lsn, enc |-> FALSE]
         [] lsn > e1 /\ lsn >= s2 /\ lsn <= e2
                                     -> [size |-> e2 + 1 - lsn, enc |-> TRUE]
         [] OTHER                    -> [size |-> MaxBlock, enc |-> FALSE]

(* What sacd_read_block_raw may return for so many sectors: none beyond    *)
(* the end of the disc, or when a seek or a request to the server fails    *)
Readable(lsn, size) ==
    0 .. Smaller(size, IF lsn < disc.total THEN disc.total - lsn ELSE 0)

Sectors(lsn, size) == [i \in 1 .. size |-> [lsn |-> lsn + i - 1,
                                            clear |-> FALSE]]

(* Variant with a fault: the size of the buffer is not looked at           *)
UncappedSize(extent) == Smaller(end_lsn - current_lsn, extent.size)

(* read a block into the local buffer, as large as the loop chooses        *)
BlockSize(extent) ==
    Smaller(end_lsn - current_lsn, Smaller(extent.size, MaxBlock))

ReadBlock ==
    /\ ppc = "loop"
    /\ stop_processing = 0
    /\ current_lsn < end_lsn
    /\ LET extent == Extent(current_lsn)
       IN /\ \E n \in Readable(current_lsn, BlockSize(extent)) :
                buf' = Sectors(current_lsn, n)
          /\ encrypted' = extent.enc
    /\ ppc' = "joinRead"
    /\ UNCHANGED <<control, flags, place, read_buffer, checked,
                   non_encrypted_disc, frames, outputs>>

(* the read fails: -1 becomes the number of sectors that memcpy copies     *)
ReadError ==
    /\ ppc = "loop"
    /\ stop_processing = 0
    /\ current_lsn < end_lsn
    /\ ppc' = "crashed"
    /\ UNCHANGED <<control, flags, place, block, frames, outputs>>

(* Variants with a fault: no join, and a join although nothing runs        *)
NeverJoined  == TRUE
AlwaysJoined == fpc = "done"

(* pthread_join on the last frame thread, if there is one                  *)
Joined == running => fpc = "done"

(* What the first encrypted block says of the disc: nothing when its area  *)
(* is DST.  When nothing was read the test looks at what read_buffer held  *)
(* before, or at what malloc returned, and may come out either way.        *)
Verdicts ==
    LET area == disc.areas[IF ft.raw THEN 1 ELSE ft.name[2]]
    IN CASE area.dst                  -> {non_encrypted_disc}
         [] ~area.dst /\ buf # <<>>   -> {disc.plain}
         [] ~area.dst /\ buf = <<>>   -> BOOLEAN

(* wait for the frame thread before its buffer is overwritten, find out    *)
(* whether the disc is encrypted at all, and decrypt the block             *)
CopyBlock ==
    /\ ppc = "joinRead"
    /\ Joined
    /\ running' = FALSE
    /\ fpc' = "none"
    /\ current_lsn' = current_lsn + Len(buf)
    /\ checked' = (checked \/ encrypted)
    /\ non_encrypted_disc' \in IF encrypted /\ ~checked
                               THEN Verdicts ELSE {non_encrypted_disc}
    /\ read_buffer' = [i \in DOMAIN buf |->
           [buf[i] EXCEPT !.clear = encrypted /\ ~non_encrypted_disc']]
    /\ buf' = <<>>
    /\ ppc' = "process"
    /\ UNCHANGED <<control, flags, end_lsn, ft, ft_sub, queue, encrypted,
                   fargs, outputs>>

(* write the block to the ISO, or start a frame thread for the file; start *)
(* one for the track file that is made at the same time                    *)
StartFrameThread(name) ==
    /\ running' = TRUE
    /\ fpc' = "running"
    /\ fargs' = [name |-> name, left |-> Len(read_buffer)]

ProcessBlock ==
    /\ ppc = "process"
    /\ IF ft.raw
       THEN /\ file' = [file EXCEPT ![ft.name].sectors = @ \o read_buffer]
            /\ IF ft_sub # NoItem THEN StartFrameThread(ft_sub.name)
                                  ELSE UNCHANGED frames
       ELSE /\ StartFrameThread(ft.name)
            /\ UNCHANGED file
    /\ ppc' = "loop"
    /\ UNCHANGED <<control, flags, place, block, decoder>>

(* scarletbook_process_frames: the frame thread takes a sector out of      *)
(* read_buffer and hands its frames to the decoder or to the file          *)
ProcessSector ==
    /\ fpc = "running"
    /\ fargs.left > 0
    /\ LET i == Len(read_buffer) - fargs.left + 1
       IN file' = [file EXCEPT ![fargs.name].sectors =
                        Append(@, read_buffer[i])]
    /\ fargs' = [fargs EXCEPT !.left = @ - 1]
    /\ UNCHANGED <<control, flags, place, block, running, fpc, decoder, ppc>>

FrameThreadEnds ==
    /\ fpc = "running"
    /\ fargs.left = 0
    /\ fpc' = "done"
    /\ UNCHANGED <<control, flags, place, block, running, fargs, outputs, ppc>>
-----------------------------------------------------------------------------
(* close_output_file of a file whose fopen failed: dsf_close follows a     *)
(* null pointer, the DSDIFF and ISO writers do not                         *)
CloseCrashes(item) == file[item.name].state = "failed" /\ item.dsf

Closed(files, item, state) ==
    IF files[item.name].state = "open"
    THEN [files EXCEPT ![item.name].state = state]
    ELSE files

(* Variant with a fault: decoders are not destroyed                        *)
NotDestroyed(decoders, item) == decoders

Destroyed(decoders, item) ==
    IF item.decode THEN [decoders EXCEPT ![item.name] = "destroyed"]
                   ELSE decoders

(* the end of the range is reached: close the track file made with it, and *)
(* go on to the next one, to the gap before it, or to the end of the ISO   *)
FinishSub ==
    /\ ppc = "joinEnd"
    /\ Joined
    /\ running' = FALSE
    /\ fpc' = "none"
    /\ IF ft_sub # NoItem
       THEN /\ file' = Closed(file, ft_sub, "closed")
            /\ decoder' = Destroyed(decoder, ft_sub)
       ELSE UNCHANGED outputs
    /\ ft_sub' = NoItem
    /\ ppc' = "nextSub"
    /\ UNCHANGED <<control, flags, current_lsn, end_lsn, ft, queue, block,
                   fargs>>

GapBeforeSub ==
    /\ ppc = "nextSub"
    /\ ft.subs # <<>>
    /\ current_lsn < ft.subs[1].start
    /\ end_lsn' = ft.subs[1].start
    /\ ppc' = "loop"
    /\ UNCHANGED <<control, flags, current_lsn, ft, ft_sub, queue, block,
                   frames, outputs>>

StartSub ==
    /\ ppc = "nextSub"
    /\ ft.subs # <<>>
    /\ current_lsn >= ft.subs[1].start
    /\ ft_sub' = Head(ft.subs)
    /\ ft' = [ft EXCEPT !.subs = Tail(@)]
    /\ end_lsn' = ft_sub'.start + ft_sub'.length
    /\ file' = [file EXCEPT ![ft_sub'.name].state = "open"]
    /\ decoder' = IF ft_sub'.decode
                  THEN [decoder EXCEPT ![ft_sub'.name] = "open"]
                  ELSE decoder
    /\ ppc' = "loop"
    /\ UNCHANGED <<control, flags, current_lsn, queue, block, frames>>

(* create_output_file(ft_sub) fails: leave the loop, the item still queued *)
StartSubFails ==
    /\ ppc = "nextSub"
    /\ ft.subs # <<>>
    /\ current_lsn >= ft.subs[1].start
    /\ ft_sub' = Head(ft.subs)
    /\ file' = [file EXCEPT ![ft_sub'.name].state = "failed"]
    /\ ppc' = "check"
    /\ UNCHANGED <<control, flags, current_lsn, end_lsn, ft, queue, block,
                   frames, decoder>>

NoMoreSubs ==
    /\ ppc = "nextSub"
    /\ ft.subs = <<>>
    /\ end_lsn' = ft.start + ft.length
    /\ ppc' = IF current_lsn < end_lsn' THEN "loop" ELSE "check"
    /\ UNCHANGED <<control, flags, current_lsn, ft, ft_sub, queue, block,
                   frames, outputs>>
-----------------------------------------------------------------------------
(* Variant with a fault: a file that was stopped counts as done            *)
NeverStopped == FALSE

Stopped == stop_processing = 1

(* stop_processing is set: end the frame thread, close and remove the      *)
(* files being made, forget the queue, end the thread                      *)
Cancel ==
    /\ ppc = "check"
    /\ Stopped
    /\ Joined
    /\ running' = FALSE
    /\ fpc' = "none"
    /\ IF \/ ft_sub # NoItem
             /\ \/ CloseCrashes(ft_sub)
                \/ ft_sub.decode /\ decoder[ft_sub.name] # "open"
          \/ CloseCrashes(ft)
       THEN /\ ppc' = "crashed"
            /\ UNCHANGED <<processing, place, outputs>>
       ELSE /\ file' = LET files == IF ft_sub = NoItem THEN file
                                    ELSE Closed(file, ft_sub, "removed")
                       IN Closed(files, ft, "removed")
            /\ decoder' = Destroyed(Destroyed(decoder, ft_sub), ft)
            /\ processing' = 0
            /\ queue' = <<>>
            /\ ppc' = "exited"
            /\ UNCHANGED <<current_lsn, end_lsn, ft, ft_sub>>
    /\ UNCHANGED <<control, stop_processing, interrupted, block, fargs>>

(* the item is done: destroy its decoder, close its file                   *)
FinishItem ==
    /\ ppc = "check"
    /\ ~Stopped
    /\ IF CloseCrashes(ft)
       THEN /\ ppc' = "crashed"
            /\ UNCHANGED outputs
       ELSE /\ file' = Closed(file, ft, "closed")
            /\ decoder' = Destroyed(decoder, ft)
            /\ ppc' = "next"
    /\ UNCHANGED <<control, flags, place, block, frames>>
-----------------------------------------------------------------------------
Main == Enqueue \/ scarletbook_output_start \/ DestroyInterrupts \/ DestroyJoins

ProcessingThread ==
    \/ Begin \/ NextItem \/ QueueEmpty \/ CreateFile \/ CreateFails
    \/ ResetStop \/ LoopStops \/ LoopAtEnd \/ ReadBlock \/ ReadError
    \/ CopyBlock \/ ProcessBlock \/ FinishSub \/ GapBeforeSub \/ StartSub
    \/ StartSubFails \/ NoMoreSubs \/ Cancel \/ FinishItem

FrameThread == ppc # "crashed" /\ (ProcessSector \/ FrameThreadEnds)

Next == Main \/ handle_sigint \/ ProcessingThread \/ FrameThread

Spec == Init /\ [][Next]_vars

(* No thread stops while it can run; nobody has to press ^C.               *)
FairSpec ==
    /\ Spec
    /\ WF_vars(Main)
    /\ WF_vars(ProcessingThread)
    /\ WF_vars(FrameThread)
-----------------------------------------------------------------------------
Items  == ToSet(Enqueued) \cup UNION {ToSet(i.subs) : i \in ToSet(Enqueued)}
Sector == [lsn : Nat, clear : BOOLEAN]
Item   == [name : Names \cup {NoItem.name}, start : Nat, length : Nat,
           raw : BOOLEAN, dsf : BOOLEAN, decode : BOOLEAN,
           subs : Seq(Items)]

(* The range of every variable.                                            *)
TypeOK ==
    /\ mpc \in {"enqueue", "start", "destroy", "join", "done"}
    /\ queue \in Seq(Items)
    /\ stop_processing \in 0 .. 1
    /\ processing \in 0 .. 1
    /\ ppc \in {"none", "begin", "next", "create", "reset", "loop", "joinRead",
                "process", "joinEnd", "nextSub", "check", "exited", "crashed"}
    /\ ft \in Item /\ ft_sub \in Item
    /\ current_lsn \in Nat /\ end_lsn \in Nat
    /\ buf \in Seq(Sector) /\ Len(buf) <= MaxBlock
    /\ read_buffer \in Seq(Sector) /\ Len(read_buffer) <= MaxBlock
    /\ {encrypted, running, checked, non_encrypted_disc, interrupted}
            \subseteq BOOLEAN
    /\ fpc \in {"none", "running", "done"}
    /\ fargs \in [name : Names \cup {NoItem.name}, left : 0 .. MaxBlock]
    /\ file \in [Names -> [state : {"none", "open", "closed", "removed",
                                    "failed"},
                           sectors : Seq(Sector)]]
    /\ decoder \in [Names -> {"none", "open", "destroyed"}]

InArea(lsn) ==
    \E a \in DOMAIN disc.areas :
        lsn >= disc.areas[a].start /\ lsn <= disc.areas[a].end

(* What a file holds is a run of consecutive sectors, none lost, doubled   *)
(* or out of order although reading and frame processing overlap, each     *)
(* decrypted exactly when it lies in an area and the disc has been found   *)
(* to be encrypted: no block straddles the edge of an encrypted range, and *)
(* the verdict stands for all files (lines 475-578).  A file starts at its *)
(* own first sector, a track made with an ISO at the next one if the track *)
(* before it took that sector.                                             *)
SectorsInOrder ==
    \A item \in Items :
        LET s == file[item.name].sectors
        IN s # <<>> =>
             /\ s[1].lsn - item.start \in
                    IF request.mode = "concurrent" /\ ~item.raw THEN 0 .. 1
                                                                ELSE {0}
             /\ \A i \in DOMAIN s :
                  s[i] = [lsn   |-> s[1].lsn + i - 1,
                          clear |-> InArea(s[i].lsn) /\ ~non_encrypted_disc]

(* A file that is closed and kept is whole: it holds every sector up to    *)
(* its last one.  The exceptions are an ISO one of whose tracks could not  *)
(* be created, which StartSubFails ends early, and a last track of a       *)
(* single sector made with an ISO: the track before it took that sector.   *)
KeptFilesWhole ==
    \A item \in Items :
        file[item.name].state = "closed" =>
            \/ /\ file[item.name].sectors # <<>>
               /\ Last(file[item.name].sectors).lsn
                      = item.start + item.length - 1
            \/ \E sub \in ToSet(item.subs) : file[sub.name].state = "failed"
            \/ request.mode = "concurrent" /\ ~item.raw /\ item.length = 1

(* Whichever way the processing thread ends, it leaves no file open and no *)
(* decoder alive, and a rip that was stopped leaves no partial file: what  *)
(* it was working on is removed.                                           *)
NothingLeftBehind ==
    ppc = "exited" =>
        /\ \A n \in Names : file[n].state # "open" /\ decoder[n] # "open"
        /\ fpc # "running"

(* There is at most one DST decoder at a time: dst_decoder_destroy joins   *)
(* every thread yarn has launched (join_all), so a second decoder's        *)
(* threads would be joined, and waited for, with the first one's.          *)
OneDecoder == Cardinality({n \in Names : decoder[n] = "open"}) <= 1

(* While a frame thread runs nobody changes the buffer it reads, closes    *)
(* the file or destroys the decoder it hands frames to, or starts another. *)
FrameThreadUndisturbed ==
    [][fpc = "running" =>
          /\ read_buffer' = read_buffer
          /\ file'[fargs.name].state = "open"
          /\ decoder'[fargs.name] = decoder[fargs.name]
          /\ fpc' \in {"running", "done"}
          /\ fargs'.left <= fargs.left]_vars

(* A rip comes to an end and main returns, unless reads return nothing     *)
(* again and again, as they do beyond the end of a truncated image: no     *)
(* join, sub item or gap between tracks keeps the loop (471-638) going.    *)
RipEnds ==
    \/ (mpc = "start") ~> (mpc = "done" \/ ppc = "crashed")
    \/ []<>(ppc = "joinRead" /\ buf = <<>>)

(* A stop that reaches the processing thread in its loop ends it, even     *)
(* when reads return nothing any more, as beyond the end of a truncated    *)
(* image, where the loop does not end by itself.                           *)
StopEnds == (ppc = "loop" /\ stop_processing = 1)
                ~> (ppc = "exited" \/ ppc = "crashed")

(* What lines 667, 691 and 795 of scarletbook_output.c say: files are      *)
(* removed because the user cancelled.                                     *)
CancelledByUser ==
    (\E n \in Names : file[n].state = "removed") => interrupted

(* What the handler tells the user (main.c:280) and line 88 says of the    *)
(* flag: once the user has interrupted, a thread that has had a file in    *)
(* hand does not begin another.                                            *)
NoFileAfterInterrupt == [][interrupted /\ ft # NoItem => ~NextItem]_vars

(* What readme.rst:25 says of concurrent mode: the tracks it makes are     *)
(* those that would be made one after the other.                           *)
ConcurrentLikeSequential ==
    \A item \in Items :
        file[item.name].sectors # <<>> =>
            file[item.name].sectors[1].lsn = item.start
=============================================================================
