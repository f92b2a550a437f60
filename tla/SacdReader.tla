------------------------------- MODULE SacdReader ------------------------------
(* How a disc is found by its path (sacd_reader.c): an image or a device is    *)
(* opened as it is, a path that does not exist may be an address, and a        *)
(* directory may be the place where a disc is mounted.                         *)
EXTENDS SacdInput

CONSTANT Locations    \* [stat, dots, colon, mounted]

VARIABLES location, pc

readerVars == <<location, pc>>

SacdReaderBlock == Block("sacd", 0, "")

\* Once the input has answered, the program goes on at pc.
Ask(op, net, pos, n, then) ==
  /\ call' = Call(op, net, pos, n)
  /\ pc' = then
  /\ UNCHANGED ret

Net == sacd_input_setup(location)

\* The first half of sacd_open_image_file: the input is chosen by the path.
OpenImage(path) ==
  /\ location' = path
  /\ Ask("open", sacd_input_setup(path), 0, 0, "opening")

unlessOpening == <<buffer, outOfMemory, netVars, fileSize, pieces>>

Fails == pc' = "end" /\ UNCHANGED <<call, ret, location>>

sacd_open ==
  /\ pc = "sacd_open" /\ Idle
  /\ \/ Fails /\ outOfMemory' = TRUE
     \/ /\ \/ location.stat \in {"block", "char", "regular"} /\ OpenImage(location)
           \/ location.stat = "missing" /\ location.colon /\ OpenImage(location)
           \/ location.stat = "missing" /\ ~location.colon /\ Fails
           \/ location.stat = "other" /\ Fails
           \/ location.stat = "directory" /\ pc' = "resolve" /\ UNCHANGED <<call, ret, location>>
        /\ UNCHANGED outOfMemory
  /\ UNCHANGED <<buffer, heap, fds, netVars, fileSize, pieces>>

\* A directory: its real path is where a change to it leads.  Without memory for
\* that path the copy of the first one and the descriptor of the old directory
\* stay, and the program is in the new one.
ResolveDirectory ==
  /\ pc = "resolve"
  /\ \/ Fails /\ outOfMemory' = TRUE /\ UNCHANGED <<heap, fds>>
     \/ /\ Fails /\ outOfMemory' = TRUE
        /\ heap' = heap \cup {Block("path_copy", 0, "")}
        /\ fds' = fds \cup {"directory"}
     \/ /\ pc' = "mounts"
        /\ UNCHANGED <<call, ret, location, heap, fds, outOfMemory>>
  /\ UNCHANGED <<buffer, netVars, fileSize, pieces>>

\* The first entry of the table of mounts for that path; the table stays open
\* while its device is opened.
LookUpMount ==
  /\ pc = "mounts"
  /\ \/ Fails /\ UNCHANGED fds
     \/ /\ location.mounted
        /\ OpenImage([stat |-> "block", dots |-> 0, colon |-> FALSE, mounted |-> FALSE])
        /\ fds' = fds \cup {"mount table"}
  /\ UNCHANGED <<heap, unlessOpening>>

\* The second half of sacd_open_image_file.
sacd_open_image_file ==
  /\ pc = "opening" /\ Idle
  /\ fds' = fds \ {"mount table"}
  /\ \/ ~ret.ok /\ Fails /\ UNCHANGED <<heap, outOfMemory>>
     \/ ret.ok /\ Ask("close", Net, 0, 0, "end") /\ outOfMemory' = TRUE /\ UNCHANGED <<heap, location>>
     \/ /\ ret.ok /\ pc' = "scarletbook_open"
        /\ heap' = heap \cup {SacdReaderBlock}
        /\ UNCHANGED <<call, ret, location, outOfMemory>>
  /\ UNCHANGED <<buffer, netVars, fileSize, pieces>>

sacd_close ==
  /\ pc = "sacd_close"
  /\ Ask("close", Net, 0, 0, "free reader")
  /\ UNCHANGED <<heap, fds, location, unlessOpening>>

FreeReader ==
  /\ pc = "free reader" /\ Idle
  /\ heap' = heap \ {SacdReaderBlock}
  /\ pc' = "end"
  /\ UNCHANGED <<call, ret, fds, location, unlessOpening>>

\* sacd_read_block_raw: the buffer is the block of memory the caller gives.
sacd_read_block_raw(pos, n, then) ==
  /\ Ask("read", Net, pos, n, then)
  /\ buffer' = [i \in 1..(2 * n) |-> Junk]

sacd_get_total_sectors(then) == Ask("total", Net, 0, 0, then) /\ UNCHANGED buffer

ReaderStep ==
  sacd_open \/ ResolveDirectory \/ LookUpMount \/ sacd_open_image_file \/ sacd_close \/ FreeReader
==============================================================================
