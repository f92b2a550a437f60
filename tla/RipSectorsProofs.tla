-------------------------- MODULE RipSectorsProofs --------------------------
(***************************************************************************)
(* What the files hold, proved for every disc, request and size of the     *)
(* blocks: SectorsInOrder and KeptFilesWhole of RipOutput.                 *)
(***************************************************************************)
EXTENDS RipOutputProofs

(* Sequences of sectors that follow each other on the disc, decrypted      *)
(* where they must be, and sequences of sectors outside the areas.         *)
Runs ==
    {s \in Seq(Sector) :
        \A i \in DOMAIN s :
            /\ s[i].lsn = s[1].lsn + i - 1
            /\ s[i].clear <=> InArea(s[i].lsn) /\ ~non_encrypted_disc}
Outside == {s \in Seq(Sector) : \A i \in DOMAIN s : ~InArea(s[i].lsn)}

(* The sectors that have been read and that the frame thread, or the ISO,  *)
(* has still to write.                                                     *)
Pending ==
    IF ppc = "process" THEN Len(read_buffer)
    ELSE IF fpc = "running" THEN fargs.left ELSE 0
Behind ==
    IF ~ft.raw THEN Pending
    ELSE IF ppc = "process" THEN Len(read_buffer) ELSE 0

(* The files of what waits in the queue, or in the ISO's, are untouched.   *)
Untouched == \A n \in Names : file[n].state = "none"

UnusedInv ==
    /\ mpc = "enqueue" => Untouched
    /\ \A i \in DOMAIN queue :
         /\ file[queue[i].name].state = "none"
         /\ queue[i].raw => Untouched
    /\ ppc = "create" =>
         /\ file[ft.name].state = "none"
         /\ ft.raw => Untouched
         /\ \A i \in DOMAIN queue : /\ queue[i].name # ft.name
                                   /\ ~queue[i].raw
    /\ ppc \in Making =>
         \A j \in DOMAIN ft.subs : file[ft.subs[j].name].state = "none"

(* What any file holds, and where it starts.  Until an encrypted block has *)
(* been checked no file holds a sector that the verdict would be about.    *)
RunsInv ==
    \A n \in Names :
        /\ file[n].sectors \in Runs
        /\ ~checked => file[n].sectors \in Outside
        /\ file[n].state \in {"none", "failed"} => file[n].sectors = <<>>

StartsInv ==
    \A x \in Items :
        file[x.name].sectors # <<>> =>
            file[x.name].sectors[1].lsn - x.start \in
                IF request.mode = "concurrent" /\ ~x.raw THEN 0 .. 1 ELSE {0}

(* The block that has been read, and the one that is being written.        *)
BlockInv ==
    IF ppc = "joinRead"
    THEN /\ \A i \in DOMAIN buf : /\ buf[i].lsn = current_lsn + i - 1
                                  /\ InArea(buf[i].lsn) <=> encrypted
         /\ current_lsn + Len(buf) <= end_lsn
         /\ current_lsn + Len(buf) <= ft.start + ft.length
    ELSE buf = <<>>

BufferInv ==
    ppc = "process" \/ fpc # "none" =>
        /\ read_buffer \in Runs
        /\ ~checked => read_buffer \in Outside
        /\ read_buffer # <<>> =>
             read_buffer[1].lsn = current_lsn - Len(read_buffer)

(* How far the processing thread has read, and how far it will.  A track   *)
(* file starts no more than one sector late, because the one before it     *)
(* ends no more than one sector after its start.                           *)
PlaceInv ==
    /\ ppc \in Making =>
         /\ current_lsn <= end_lsn
         /\ current_lsn <= ft.start + ft.length
         /\ ~ft.raw => end_lsn = ft.start + ft.length
         /\ ft_sub # NoItem => end_lsn = ft_sub.start + ft_sub.length
         /\ ft.subs # <<>> => end_lsn <= ft.subs[1].start + 1
    /\ ppc \in {"joinEnd", "nextSub"} => current_lsn = end_lsn

SubFailed ==
    /\ ft.raw /\ request.mode = "concurrent"
    /\ \E x \in Tracks : file[x.name].state = "failed"

DoneInv ==
    ppc = "check" /\ stop_processing # 1 /\ file[ft.name].state = "open" =>
        current_lsn = ft.start + ft.length \/ SubFailed

(* What the files being made hold: everything up to current_lsn that is    *)
(* not pending.                                                            *)
HeldInv ==
    /\ ft # NoItem /\ file[ft.name].state = "open" =>
         LET s == file[ft.name].sectors
         IN /\ Len(s) + Behind = current_lsn - ft.start
            /\ s # <<>> => s[1].lsn = ft.start
    /\ ft_sub # NoItem /\ file[ft_sub.name].state = "open" =>
         LET s == file[ft_sub.name].sectors
             first == current_lsn - Pending - Len(s)
         IN /\ first \in ft_sub.start .. ft_sub.start + 1
            /\ s # <<>> => s[1].lsn = first

SectorsInv ==
    /\ UnusedInv /\ RunsInv /\ StartsInv /\ BlockInv /\ BufferInv
    /\ PlaceInv /\ DoneInv /\ HeldInv /\ KeptFilesWhole

(* What Runs and Outside are made of changes only with the verdict.        *)
LEMMA RunsFixed ==
    ASSUME UNCHANGED disc
    PROVE  /\ Outside' = Outside
           /\ non_encrypted_disc' = non_encrypted_disc => Runs' = Runs
<1>1. ASSUME NEW l PROVE InArea(l)' <=> InArea(l)
  BY DEF InArea
<1>2. Outside' = Outside
  BY DEF Outside, InArea, Sector
<1>3. non_encrypted_disc' = non_encrypted_disc => Runs' = Runs
  BY DEF Runs, InArea, Sector
<1> QED
  BY <1>2, <1>3

LEMMA NewVerdict ==
    ASSUME UNCHANGED disc, NEW s \in Runs, s \in Outside
    PROVE  s \in Runs'
<1>1. \A i \in DOMAIN s : ~InArea(s[i].lsn)
  BY DEF Outside
<1>2. \A i \in DOMAIN s : s[i].lsn = s[1].lsn + i - 1 /\ ~s[i].clear
  BY <1>1 DEF Runs
<1>3. s \in Seq(Sector)
  BY DEF Runs
<1> QED
  BY <1>1, <1>2, <1>3 DEF Runs, InArea, Sector

LEMMA RunFacts ==
    ASSUME NEW s \in Runs
    PROVE  /\ s \in Seq(Sector) /\ Len(s) \in Nat
           /\ s # <<>> => 1 \in DOMAIN s
           /\ \A i \in DOMAIN s : /\ s[i] \in Sector /\ s[i].lsn \in Nat
                                  /\ s[i].lsn = s[1].lsn + i - 1
<1>1. s \in Seq(Sector)
  BY DEF Runs
<1>2. \A i \in DOMAIN s : s[i] \in Sector
  BY <1>1
<1>3. \A i \in DOMAIN s : s[i].lsn \in Nat
  BY <1>2 DEF Sector
<1>4. \A i \in DOMAIN s : s[i].lsn = s[1].lsn + i - 1
  BY DEF Runs
<1> QED
  BY <1>1, <1>2, <1>3, <1>4

(* Two runs, one where the other ends.                                     *)
LEMMA RunsMeet ==
    ASSUME NEW s \in Runs, NEW t \in Runs,
           s # <<>> /\ t # <<>> => t[1].lsn = s[1].lsn + Len(s)
    PROVE  /\ s \o t \in Runs
           /\ s \in Outside /\ t \in Outside => s \o t \in Outside
           /\ s \o t # <<>> =>
                (s \o t)[1] = IF s = <<>> THEN t[1] ELSE s[1]
<1>1. s \in Seq(Sector) /\ t \in Seq(Sector)
  BY DEF Runs
<1> DEFINE u == s \o t
<1>2. /\ u \in Seq(Sector) /\ Len(u) = Len(s) + Len(t)
      /\ \A i \in 1 .. Len(s) : u[i] = s[i]
      /\ \A i \in Len(s) + 1 .. Len(u) : u[i] = t[i - Len(s)]
      /\ Len(s) \in Nat /\ Len(t) \in Nat
  BY <1>1
<1>3. \A i \in DOMAIN u :
        \/ i \in DOMAIN s /\ u[i] = s[i]
        \/ i - Len(s) \in DOMAIN t /\ u[i] = t[i - Len(s)]
  BY <1>1, <1>2
<1>4. u # <<>> => u[1] = IF s = <<>> THEN t[1] ELSE s[1]
  BY <1>1, <1>2
<1>5. \A i \in DOMAIN u : u[i].lsn = u[1].lsn + i - 1
  <2> SUFFICES ASSUME NEW i \in DOMAIN u PROVE u[i].lsn = u[1].lsn + i - 1
    OBVIOUS
  <2>1. \A j \in DOMAIN s : s[j].lsn = s[1].lsn + j - 1 /\ s[j].lsn \in Nat
    BY RunFacts
  <2>2. \A j \in DOMAIN t : t[j].lsn = t[1].lsn + j - 1 /\ t[j].lsn \in Nat
    BY RunFacts
  <2>3. i \in Nat /\ u # <<>>
    BY <1>2
  <2>4. CASE i \in DOMAIN s /\ u[i] = s[i]
    <3>1. s # <<>>
      BY <1>1, <2>4
    <3> QED BY <1>4, <2>1, <2>3, <2>4, <3>1
  <2>5. CASE i - Len(s) \in DOMAIN t /\ u[i] = t[i - Len(s)]
    <3>1. t # <<>> /\ 1 \in DOMAIN t
      BY <1>1, <2>5
    <3>2. CASE s = <<>>
      <4>1. Len(s) = 0 /\ u[1] = t[1]
        BY <1>4, <2>3, <3>2
      <4> HIDE DEF u
      <4> QED BY <2>2, <2>3, <2>5, <4>1
    <3>3. CASE s # <<>>
      <4>1. u[1] = s[1] /\ 1 \in DOMAIN s
        BY <1>1, <1>4, <2>3, <3>3
      <4>2. t[1].lsn = s[1].lsn + Len(s)
        BY <3>1, <3>3
      <4>3. u[i].lsn = t[1].lsn + (i - Len(s)) - 1
        BY <2>2, <2>5
      <4>4. t[1].lsn \in Nat /\ s[1].lsn \in Nat /\ Len(s) \in Nat
        BY <1>2, <2>1, <2>2, <3>1, <4>1
      <4>5. u[1].lsn = s[1].lsn
        BY <4>1
      <4>6. t[1].lsn + (i - Len(s)) - 1 = s[1].lsn + i - 1
        <5> DEFINE x == s[1].lsn
                   y == t[1].lsn
                   l == Len(s)
        <5>1. x \in Nat /\ y \in Nat /\ l \in Nat /\ i \in Nat /\ y = x + l
          BY <2>3, <4>2, <4>4
        <5> HIDE DEF x, y, l
        <5>2. y + (i - l) - 1 = x + i - 1
          BY <5>1
        <5> QED BY <5>2 DEF x, y, l
      <4> HIDE DEF u
      <4> QED BY <4>3, <4>5, <4>6
    <3> QED BY <3>2, <3>3
  <2> QED BY <1>3, <2>4, <2>5
<1>6. \A i \in DOMAIN u : u[i].clear <=> InArea(u[i].lsn) /\ ~non_encrypted_disc
  BY <1>3 DEF Runs
<1>7. s \in Outside /\ t \in Outside => u \in Outside
  BY <1>2, <1>3 DEF Outside
<1> QED
  BY <1>2, <1>4, <1>5, <1>6, <1>7 DEF Runs

LEMMA OneOfRun ==
    ASSUME NEW s \in Runs, NEW i \in DOMAIN s
    PROVE  /\ <<s[i]>> \in Runs
           /\ s \in Outside => <<s[i]>> \in Outside
           /\ s[i] \in Sector
<1>1. s \in Seq(Sector) /\ s[i] \in Sector
  BY DEF Runs
<1>2. <<s[i]>> \in Seq(Sector) /\ DOMAIN <<s[i]>> = {1} /\ <<s[i]>>[1] = s[i]
  BY <1>1
<1>3. s[i].lsn \in Nat
  BY <1>1 DEF Sector
<1> QED
  BY <1>1, <1>2, <1>3 DEF Runs, Outside

LEMMA SameTriple ==
    ASSUME NEW p, NEW a, NEW t, NEW b, NEW u, <<p, a, t>> = <<p, b, u>>
    PROVE  a = b /\ t = u
<1>1. <<p, a, t>>[2] = a /\ <<p, b, u>>[2] = b
  OBVIOUS
<1>2. <<p, a, t>>[3] = t /\ <<p, b, u>>[3] = u
  OBVIOUS
<1> QED
  BY <1>1, <1>2

(* The name of an item tells which one it is.                              *)
LEMMA NameTells ==
    ASSUME Chosen, NEW x \in Items, NEW y \in Wholes \cup Isos,
           x.name = y.name
    PROVE  x.start = y.start /\ x.length = y.length /\ x.raw = y.raw
<1>1. x \in Wholes \cup Isos
  BY ItemShape
<1>2. CASE y \in Isos
  <2>1. x \in Isos
    BY <1>1, <1>2, ItemShape
  <2> QED BY <1>2, <2>1 DEF Isos
<1>3. CASE y \in Wholes
  <2>1. x \in Wholes
    BY <1>1, <1>3, ItemShape
  <2>2. CASE x \in TrackSet /\ y \in TrackSet
    <3>5. PICK a \in DOMAIN disc.areas : x \in TracksOf(a)
      BY <2>2 DEF TrackSet
    <3>1. PICK t \in DOMAIN disc.areas[a].tracks : x = TrackItem(a, t)
      BY <3>5 DEF TracksOf
    <3>6. PICK b \in DOMAIN disc.areas : y \in TracksOf(b)
      BY <2>2 DEF TrackSet
    <3>2. PICK u \in DOMAIN disc.areas[b].tracks : y = TrackItem(b, u)
      BY <3>6 DEF TracksOf
    <3>3. x.name = TrackName(a, t) /\ y.name = TrackName(b, u)
      BY <3>1, <3>2, TrackShape
    <3>7. TrackName(a, t) = TrackName(b, u)
      BY <3>3
    <3>4. a = b /\ t = u
      BY <3>7, SameTriple DEF TrackName
    <3> QED BY <3>1, <3>2, <3>4
  <2>3. CASE x \in EditSet /\ y \in EditSet
    <3>1. PICK a \in DOMAIN disc.areas : x = EditItem(a)
      BY <2>3 DEF EditSet
    <3>2. PICK b \in DOMAIN disc.areas : y = EditItem(b)
      BY <2>3 DEF EditSet
    <3>3. x.name = EditName(a) /\ y.name = EditName(b)
      BY <3>1, <3>2, EditShape
    <3>5. EditName(a) = EditName(b)
      BY <3>3
    <3>4. a = b
      BY <3>5, SameTriple DEF EditName
    <3> QED BY <3>1, <3>2, <3>4
  <2>4. ASSUME NEW v \in TrackSet, NEW w \in EditSet PROVE v.name # w.name
    <3>4. PICK a \in DOMAIN disc.areas : v \in TracksOf(a)
      BY DEF TrackSet
    <3>1. PICK t \in DOMAIN disc.areas[a].tracks : v = TrackItem(a, t)
      BY <3>4 DEF TracksOf
    <3>2. PICK b \in DOMAIN disc.areas : w = EditItem(b)
      BY DEF EditSet
    <3>3. v.name = TrackName(a, t) /\ w.name = EditName(b)
      BY <3>1, <3>2, TrackShape, EditShape
    <3> QED BY <3>3 DEF TrackName, EditName
  <2> QED BY <1>3, <2>1, <2>2, <2>3, <2>4 DEF Wholes
<1> QED
  BY <1>2, <1>3

LEMMA KnownNames ==
    ASSUME Chosen
    PROVE  /\ \A x \in Items : x.name \in Names
           /\ \A x \in Items : \A sub \in ToSet(x.subs) : sub.name \in Names
<1>1. \A x \in Items : x.name \in Names
  BY ItemShape
<1>2. ASSUME NEW x \in Items, NEW sub \in ToSet(x.subs) PROVE sub.name \in Names
  <2>1. x \in Isos
    <3>1. x \in Wholes => x.subs = <<>>
      BY ItemShape
    <3>2. x.subs # <<>>
      BY DEF ToSet
    <3> QED BY <3>1, <3>2, ItemShape
  <2>2. x.subs \in Seq(Tracks)
    BY <2>1, ItemShape DEF SubQueues
  <2>3. sub \in Tracks
    BY <2>2 DEF ToSet
  <2> QED BY <2>3, ItemShape
<1> QED
  BY <1>1, <1>2

(* Steps that change no more than the states of the files.                 *)
LEMMA RunsAlike ==
    ASSUME RipInv, SectorsInv,
           UNCHANGED <<disc, request, checked, non_encrypted_disc>>,
           \A n \in Names : file'[n].sectors = file[n].sectors,
           \A n \in Names : file'[n].state \in {"none", "failed"}
                               => file[n].state \in {"none", "failed"}
    PROVE  RunsInv' /\ StartsInv'
<1>1. Names' = Names /\ Items' = Items
  BY Fixed
<1>2. Runs' = Runs /\ Outside' = Outside
  BY RunsFixed
<1>3. RunsInv'
  BY <1>1, <1>2 DEF SectorsInv, RunsInv
<1>4. \A x \in Items : x.name \in Names
  BY KnownNames DEF RipInv, ItemsInv
<1>5. StartsInv'
  BY <1>1, <1>4 DEF SectorsInv, StartsInv
<1> QED
  BY <1>3, <1>5

LEMMA KeptAlike ==
    ASSUME RipInv, SectorsInv, UNCHANGED <<disc, request>>,
           \A n \in Names :
              /\ file'[n].state = "closed" => file'[n] = file[n]
              /\ file[n].state = "failed" => file'[n].state = "failed"
    PROVE  KeptFilesWhole'
<1>1. Names' = Names /\ Items' = Items
  BY Fixed
<1>2. SUFFICES ASSUME NEW item \in Items, file'[item.name].state = "closed"
      PROVE  \/ /\ file'[item.name].sectors # <<>>
                /\ Last(file'[item.name].sectors).lsn
                       = item.start + item.length - 1
             \/ \E sub \in ToSet(item.subs) : file'[sub.name].state = "failed"
             \/ request.mode = "concurrent" /\ ~item.raw /\ item.length = 1
  BY <1>1 DEF KeptFilesWhole
<1>3. Chosen
  BY DEF RipInv, ItemsInv
<1>4. file'[item.name] = file[item.name]
  BY <1>2, <1>3, KnownNames
<1>5. \A sub \in ToSet(item.subs) :
         file[sub.name].state = "failed" => file'[sub.name].state = "failed"
  BY <1>3, KnownNames
<1> QED
  BY <1>2, <1>4, <1>5 DEF SectorsInv, KeptFilesWhole

(* Steps that leave the items, the files and the place alone, except for   *)
(* the end of the range.                                                   *)
Quiet ==
    /\ UNCHANGED <<disc, request, ft, ft_sub, queue, file, checked,
                   non_encrypted_disc, current_lsn>>
    /\ mpc' = "enqueue" => mpc = "enqueue"
    /\ ppc' = "create" => ppc = "create"
    /\ ppc' \in Making => ppc \in Making
    /\ ppc' = "process" <=> ppc = "process"
    /\ ppc' = "process" \/ fpc' # "none" =>
         /\ ppc = "process" \/ fpc # "none"
         /\ read_buffer' = read_buffer
    /\ ppc' = "check" /\ stop_processing' # 1 =>
         \/ ppc = "check" /\ stop_processing # 1
         \/ current_lsn = ft.start + ft.length

LEMMA QuietSteps ==
    ASSUME RipInv, SectorsInv, Quiet, Pending' = Pending, BlockInv', PlaceInv'
    PROVE  SectorsInv'
<1> USE DEF Quiet
<1>1. Names' = Names /\ Items' = Items /\ Tracks' = Tracks
  BY Fixed, FixedSets
<1>2. Runs' = Runs /\ Outside' = Outside
  BY RunsFixed
<1>3. UnusedInv'
  <2>1. Untouched' = Untouched
    BY <1>1 DEF Untouched
  <2> QED BY <2>1 DEF SectorsInv, UnusedInv
<1>4. RunsInv' /\ StartsInv'
  BY RunsAlike
<1>5. BufferInv'
  BY <1>2 DEF SectorsInv, BufferInv
<1>6. DoneInv'
  <2>1. SubFailed' = SubFailed
    BY <1>1 DEF SubFailed
  <2> QED BY <2>1 DEF SectorsInv, DoneInv
<1>7. HeldInv'
  <2>1. Behind' = Behind
    BY DEF Behind, Pending
  <2> QED BY <2>1 DEF SectorsInv, HeldInv
<1>8. KeptFilesWhole'
  BY KeptAlike
<1> QED
  BY <1>3, <1>4, <1>5, <1>6, <1>7, <1>8 DEF SectorsInv

(* ... which most of them do not change either.                            *)
LEMMA QuieterSteps ==
    ASSUME RipInv, SectorsInv, Quiet, Pending' = Pending,
           UNCHANGED <<buf, encrypted, end_lsn>>,
           ppc' = "joinRead" <=> ppc = "joinRead",
           ppc' \in {"joinEnd", "nextSub"} => ppc \in {"joinEnd", "nextSub"}
    PROVE  SectorsInv'
<1> USE DEF Quiet
<1>1. BlockInv'
  BY DEF SectorsInv, BlockInv, InArea
<1>2. PlaceInv'
  BY DEF SectorsInv, PlaceInv
<1> QED
  BY <1>1, <1>2, QuietSteps

LEMMA WaitingSectors ==
    ASSUME RipInv, SectorsInv,
           \/ scarletbook_output_start \/ DestroyInterrupts \/ DestroyJoins
           \/ handle_sigint \/ Begin \/ QueueEmpty \/ ResetStop \/ LoopStops
           \/ ReadError \/ FrameThreadEnds \/ UNCHANGED vars
    PROVE  SectorsInv'
<1> USE DEF vars, control, flags, place, block, frames, outputs
<1>1. ppc = "exited" => fpc = "none"
  BY DEF RipInv, FramesInv
<1> DEFINE Rest ==
             /\ UNCHANGED <<disc, request, ft, ft_sub, queue, file, checked,
                            non_encrypted_disc, current_lsn, end_lsn, buf,
                            encrypted, read_buffer, fpc, fargs>>
             /\ mpc' = "enqueue" => mpc = "enqueue"
             /\ ppc' = "create" => ppc = "create"
             /\ ppc' \in Making => ppc \in Making
             /\ ppc' = "process" <=> ppc = "process"
             /\ ppc' = "joinRead" <=> ppc = "joinRead"
             /\ ppc' \in {"joinEnd", "nextSub"} => ppc = ppc'
             /\ ppc' = "check" /\ stop_processing' # 1 =>
                  ppc = "check" /\ stop_processing # 1
<1>2. Rest => SectorsInv'
  <2> SUFFICES ASSUME Rest PROVE SectorsInv'
    OBVIOUS
  <2>1. Quiet
    BY DEF Quiet
  <2>2. Pending' = Pending
    BY DEF Pending
  <2> QED BY <2>1, <2>2, QuieterSteps
<1>5. CASE scarletbook_output_start \/ DestroyInterrupts \/ handle_sigint
  <2>1. mpc = "start" => ppc = "none"
    BY DEF RipInv, ItemsInv
  <2>2. Rest
    BY <1>5, <2>1 DEF scarletbook_output_start, DestroyInterrupts,
                      handle_sigint, Making
  <2> QED BY <1>2, <2>2
<1>6. CASE Begin \/ QueueEmpty \/ ResetStop \/ ReadError
  <2>1. Rest
    BY <1>6 DEF Begin, QueueEmpty, ResetStop, ReadError, Making
  <2> QED BY <1>2, <2>1
<1>7. CASE LoopStops \/ UNCHANGED vars
  <2>1. stop_processing \in {0, 1}
    BY DEF RipInv, TypeOK
  <2>2. Rest
    BY <1>7, <2>1 DEF LoopStops, Making
  <2> QED BY <1>2, <2>2
<1>3. CASE DestroyJoins
  <2>1. Quiet /\ Pending' = Pending
    BY <1>1, <1>3 DEF DestroyJoins, Quiet, Pending
  <2> QED BY <1>3, <2>1, QuieterSteps DEF DestroyJoins
<1>4. CASE FrameThreadEnds
  <2>1. Quiet /\ Pending' = Pending
    BY <1>4 DEF FrameThreadEnds, Quiet, Pending
  <2> QED BY <1>4, <2>1, QuieterSteps DEF FrameThreadEnds
<1> QED
  BY <1>3, <1>4, <1>5, <1>6, <1>7

LEMMA LoopAtEndSectors ==
    ASSUME RipInv, SectorsInv, LoopAtEnd PROVE SectorsInv'
<1> USE DEF LoopAtEnd, control, flags, place, block, frames, outputs
<1>1. Quiet /\ Pending' = Pending
  BY DEF Quiet, Pending, Making
<1>2. current_lsn \in Nat /\ end_lsn \in Nat
  BY DEF RipInv, TypeOK
<1>3. BlockInv'
  BY DEF SectorsInv, BlockInv
<1>4. PlaceInv'
  BY <1>2 DEF SectorsInv, PlaceInv, Making
<1> QED
  BY <1>1, <1>3, <1>4, QuietSteps

LEMMA GapBeforeSubSectors ==
    ASSUME RipInv, SectorsInv, GapBeforeSub PROVE SectorsInv'
<1> USE DEF GapBeforeSub, control, flags, block, frames, outputs
<1>1. Quiet /\ Pending' = Pending
  BY DEF Quiet, Pending, Making
<1>2. /\ current_lsn \in Nat /\ ft.subs[1].start \in Nat
      /\ ft.raw = TRUE /\ ft_sub = NoItem
  <2>1. /\ ft \in Isos /\ ft_sub = NoItem
        /\ ft.subs \in Seq(Tracks) /\ ft.subs # <<>>
        /\ Head(ft.subs).start \in Nat
    BY NextSub
  <2>2. Head(ft.subs) = ft.subs[1]
    BY <2>1
  <2>3. ft.raw = TRUE
    BY <2>1 DEF Isos
  <2>4. current_lsn \in Nat
    BY DEF RipInv, TypeOK
  <2> QED BY <2>1, <2>2, <2>3, <2>4
<1>3. BlockInv'
  BY DEF SectorsInv, BlockInv
<1>4. PlaceInv'
  BY <1>2 DEF SectorsInv, PlaceInv, Making
<1> QED
  BY <1>1, <1>3, <1>4, QuietSteps

LEMMA NoMoreSubsSectors ==
    ASSUME RipInv, SectorsInv, NoMoreSubs PROVE SectorsInv'
<1> USE DEF NoMoreSubs, control, flags, block, frames, outputs
<1>1. /\ current_lsn \in Nat /\ ft.start \in Nat /\ ft.length \in Nat
      /\ ft_sub = NoItem
  <2>1. ft \in Item
    BY DEF RipInv, TypeOK
  <2> QED BY <2>1 DEF Item, RipInv, TypeOK, ItemsInv
<1>2. current_lsn <= ft.start + ft.length
  BY DEF SectorsInv, PlaceInv, Making
<1>3. Quiet /\ Pending' = Pending
  BY <1>1, <1>2 DEF Quiet, Pending, Making
<1>4. BlockInv'
  BY DEF SectorsInv, BlockInv
<1>5. PlaceInv'
  BY <1>1, <1>2 DEF PlaceInv, Making
<1> QED
  BY <1>3, <1>4, <1>5, QuietSteps

(* The block that is read lies in one extent, so that it is decrypted as a *)
(* whole or not at all.                                                    *)
LEMMA ReadBlockSectors ==
    ASSUME RipInv, SectorsInv, ReadBlock PROVE SectorsInv'
<1> USE DEF ReadBlock, control, flags, place, frames, outputs
<1> DEFINE extent == Extent(current_lsn)
<1>1. PICK n \in Readable(current_lsn, BlockSize(extent)) :
        buf' = Sectors(current_lsn, n)
  OBVIOUS
<1>2. encrypted' = extent.enc
  OBVIOUS
<1>3. /\ n \in Nat /\ n <= end_lsn - current_lsn /\ n <= extent.size
      /\ current_lsn <= disc.total => current_lsn + n <= disc.total
      /\ Len(buf') = n
  BY <1>1, BlockFits
<1>4. /\ current_lsn \in Nat /\ end_lsn \in Nat /\ Chosen
      /\ ft.start \in Nat /\ ft.length \in Nat /\ ft # NoItem
  <2>1. ft \in Item
    BY DEF RipInv, TypeOK
  <2> QED BY <2>1 DEF Item, RipInv, TypeOK, ItemsInv
<1>5. /\ extent.enc \in BOOLEAN
      /\ \A k \in Nat : k < extent.size =>
           (InArea(current_lsn + k) <=> extent.enc)
      /\ extent.size \in Nat
  BY <1>4, ExtentAlike
<1> HIDE DEF extent
<1>6. \A i \in DOMAIN buf' : /\ buf'[i].lsn = current_lsn + i - 1
                             /\ InArea(buf'[i].lsn) <=> encrypted'
  <2> SUFFICES ASSUME NEW i \in 1 .. n
               PROVE  /\ buf'[i].lsn = current_lsn + i - 1
                      /\ InArea(buf'[i].lsn) <=> encrypted'
    BY <1>1 DEF Sectors
  <2>1. buf'[i].lsn = current_lsn + i - 1
    BY <1>1 DEF Sectors
  <2>2. i - 1 \in Nat /\ i - 1 < extent.size
    BY <1>3, <1>5
  <2>3. current_lsn + (i - 1) = current_lsn + i - 1
    BY <1>4
  <2>4. InArea(current_lsn + (i - 1)) <=> extent.enc
    BY <1>5, <2>2
  <2> QED BY <1>2, <2>1, <2>3, <2>4
<1>7. /\ current_lsn + n <= end_lsn
      /\ current_lsn + n <= ft.start + ft.length
  <2>1. current_lsn + n <= end_lsn
    BY <1>3, <1>4
  <2>2. CASE ~ft.raw
    BY <2>1, <2>2 DEF SectorsInv, PlaceInv, Making
  <2>3. CASE ft.raw
    <3>1. ft.start = 0 /\ ft.length = disc.total
      BY <1>4, <2>3, InHand DEF RipInv, Isos
    <3>2. current_lsn <= disc.total
      BY <1>4, <3>1 DEF SectorsInv, PlaceInv, Making
    <3> QED BY <1>3, <1>4, <2>1, <3>1, <3>2
  <2> QED BY <2>2, <2>3
<1>8. Quiet /\ Pending' = Pending
  BY DEF Quiet, Pending, Making
<1>9. BlockInv'
  <2>1. \A l : InArea(l)' <=> InArea(l)
    BY DEF InArea
  <2> QED BY <1>3, <1>6, <1>7 DEF BlockInv, InArea
<1>10. PlaceInv'
  BY DEF SectorsInv, PlaceInv, Making
<1> QED
  BY <1>8, <1>9, <1>10, QuietSteps

(* Steps that start a file, or fail to, or change the queue.               *)
LEMMA EnqueueSectors ==
    ASSUME RipInv, SectorsInv, Enqueue PROVE SectorsInv'
<1> USE DEF Enqueue, flags, block, frames, outputs
<1>1. /\ Names' = Names /\ Items' = Items /\ Tracks' = Tracks
      /\ Runs' = Runs /\ Outside' = Outside
  BY Fixed, FixedSets, RunsFixed
<1>2. ppc = "none" /\ ppc' = "none" /\ fpc = "none" /\ Chosen
  BY DEF RipInv, ItemsInv, FramesInv
<1>3. UnusedInv'
  <2>1. Untouched /\ Untouched' = Untouched
    BY <1>1 DEF Untouched, SectorsInv, UnusedInv
  <2>2. queue' \in Seq(Items)
    BY <1>2, EnqueuedOrder
  <2>3. \A i \in DOMAIN queue' : queue'[i].name \in Names
    BY <1>2, <2>2, KnownNames
  <2> QED BY <1>1, <1>2, <2>1, <2>3 DEF UnusedInv, Untouched, Making
<1>4. RunsInv' /\ StartsInv' /\ KeptFilesWhole'
  BY RunsAlike, KeptAlike
<1>5. BlockInv' /\ BufferInv' /\ PlaceInv' /\ DoneInv'
  BY <1>2 DEF SectorsInv, BlockInv, BufferInv, PlaceInv, DoneInv, Making
<1>6. HeldInv'
  <2>1. Pending' = Pending /\ Behind' = Behind
    BY DEF Pending, Behind
  <2> QED BY <2>1 DEF SectorsInv, HeldInv
<1> QED
  BY <1>3, <1>4, <1>5, <1>6 DEF SectorsInv

LEMMA NothingOpen ==
    ASSUME RipInv, ppc \notin Making \cup {"check", "crashed"}
    PROVE  /\ \A n \in Names : file[n].state # "open"
           /\ ppc # "none" => fpc = "none"
  BY DEF RipInv, FilesInv, FramesInv, Making

(* Items that follow each other have different names.                      *)
LEMMA OtherNames ==
    ASSUME Chosen, NEW x \in Items, NEW y \in Items, Before(x, y)
    PROVE  x.name # y.name
<1>1. y \in Wholes \cup Isos
  BY ItemShape
<1>2. x.start \in Nat /\ y.start \in Nat
  BY ItemStart
<1>3. x.start # y.start
  BY <1>2 DEF Before
<1> QED
  BY <1>1, <1>3, NameTells

LEMMA NextItemSectors ==
    ASSUME RipInv, SectorsInv, NextItem PROVE SectorsInv'
<1> USE DEF NextItem, control, flags, block, frames
<1>1. /\ Names' = Names /\ Items' = Items /\ Tracks' = Tracks
      /\ Runs' = Runs /\ Outside' = Outside
  BY Fixed, FixedSets, RunsFixed
<1>2. /\ ppc = "next" /\ ppc' = "create" /\ fpc = "none" /\ Chosen
      /\ \A n \in Names : file[n].state # "open"
      /\ mpc # "enqueue"
  BY NothingOpen DEF Making, RipInv, ItemsInv
<1>3. /\ queue \in Seq(Items) /\ queue # <<>> /\ InTurn(queue)
      /\ ft' = Head(queue) /\ queue' = Tail(queue)
      /\ \A i \in DOMAIN queue : queue[i].raw => Len(queue) = 1
  BY DEF RipInv, TypeOK, ItemsInv
<1>4. /\ Head(queue) \in Items /\ Head(queue) = queue[1]
      /\ Tail(queue) \in Seq(Items)
      /\ \A i \in DOMAIN Tail(queue) : /\ Tail(queue)[i] \in Items
                                       /\ Before(Head(queue), Tail(queue)[i])
  BY <1>3, TailInTurn
<1>5. \A i \in DOMAIN Tail(queue) :
        i + 1 \in DOMAIN queue /\ Tail(queue)[i] = queue[i + 1]
  BY <1>3
<1>6. UnusedInv'
  <2>1. Untouched' = Untouched
    BY <1>1 DEF Untouched
  <2>2. 1 \in DOMAIN queue
    BY <1>3
  <2>3. /\ file[ft'.name].state = "none"
        /\ ft'.raw => Untouched
    BY <1>3, <1>4, <2>2 DEF SectorsInv, UnusedInv
  <2>4. ASSUME NEW i \in DOMAIN Tail(queue)
        PROVE  /\ file[Tail(queue)[i].name].state = "none"
               /\ Tail(queue)[i].name # ft'.name
               /\ ~Tail(queue)[i].raw
    <3>1. Tail(queue)[i].name # ft'.name
      BY <1>2, <1>3, <1>4, OtherNames
    <3>2. Len(queue) # 1
      BY <1>3
    <3> QED BY <1>3, <1>5, <3>1, <3>2 DEF SectorsInv, UnusedInv
  <2> QED BY <1>2, <1>3, <2>1, <2>3, <2>4 DEF UnusedInv, Making
<1>7. RunsInv' /\ StartsInv' /\ KeptFilesWhole'
  BY RunsAlike, KeptAlike
<1>8. BlockInv' /\ BufferInv' /\ PlaceInv' /\ DoneInv'
  BY <1>2 DEF SectorsInv, BlockInv, BufferInv, PlaceInv, DoneInv, Making
<1>9. HeldInv'
  <2>1. ft'.name \in Names
    BY <1>2, <1>3, <1>4, KnownNames
  <2>2. ft_sub # NoItem => ft_sub.name \in Names
    BY InHand DEF RipInv
  <2> QED BY <1>2, <2>1, <2>2 DEF HeldInv
<1> QED
  BY <1>6, <1>7, <1>8, <1>9 DEF SectorsInv

LEMMA StateSet ==
    ASSUME RipInv, NEW n \in Names,
           NEW t \in {"none", "open", "closed", "removed", "failed"},
           file' = [file EXCEPT ![n].state = t]
    PROVE  /\ file'[n].state = t
           /\ \A m \in Names : file'[m].sectors = file[m].sectors
           /\ \A m \in Names : m # n => file'[m] = file[m]
<1> DEFINE g == [file EXCEPT ![n].state = t]
<1>1. file \in [Names -> [state : {"none", "open", "closed", "removed",
                                   "failed"},
                          sectors : Seq(Sector)]]
  BY DEF RipInv, TypeOK
<1>2. /\ g[n].state = t
      /\ \A m \in Names : g[m].sectors = file[m].sectors
      /\ \A m \in Names : m # n => g[m] = file[m]
  BY <1>1, Marked
<1> QED
  BY <1>2

(* Making the file ft: neither the queue nor the track files that are made *)
(* with it hold its name.                                                  *)
LEMMA FirstTouch ==
    ASSUME RipInv, SectorsInv, ppc = "create", UNCHANGED <<queue, ft>>,
           UNCHANGED <<disc, request, mpc>>,
           NEW t \in {"open", "failed"},
           file' = [file EXCEPT ![ft.name].state = t],
           UNCHANGED <<checked, non_encrypted_disc>>, ppc' # "create"
    PROVE  /\ UnusedInv' /\ RunsInv' /\ StartsInv' /\ KeptFilesWhole'
           /\ file'[ft.name].state = t
           /\ file'[ft.name].sectors = <<>>
<1>1. /\ Names' = Names /\ Items' = Items
  BY Fixed
<1>2. /\ ft # NoItem /\ Chosen /\ mpc # "enqueue"
      /\ ft.name \in Names
      /\ queue \in Seq(Items)
  BY InHand DEF RipInv, TypeOK, ItemsInv
<1>3. /\ file'[ft.name].state = t
      /\ \A m \in Names : file'[m].sectors = file[m].sectors
      /\ \A m \in Names : m # ft.name => file'[m] = file[m]
  BY <1>2, StateSet
<1>4. /\ file[ft.name].state = "none"
      /\ ft.raw => Untouched
      /\ \A i \in DOMAIN queue : /\ queue[i].name # ft.name
                                /\ ~queue[i].raw
                                /\ file[queue[i].name].state = "none"
  BY DEF SectorsInv, UnusedInv
<1>5. file'[ft.name].sectors = <<>>
  BY <1>2, <1>3, <1>4 DEF SectorsInv, RunsInv
<1>6. UnusedInv'
  <2>1. \A i \in DOMAIN queue : file'[queue[i].name].state = "none"
    BY <1>2, <1>3, <1>4, KnownNames
  <2>2. ASSUME NEW j \in DOMAIN ft.subs
        PROVE  file'[ft.subs[j].name].state = "none"
    <3>1. ft \in Isos /\ ft.raw = TRUE
      <4>1. ft \in Wholes => ft.subs = <<>>
        BY <1>2, ItemShape
      <4>2. ft \in Isos
        BY <1>2, <2>2, <4>1, InHand DEF RipInv
      <4> QED BY <4>2 DEF Isos
    <3>2. ft.subs \in Seq(Tracks)
      BY <1>2, <3>1, ItemShape DEF SubQueues
    <3>3. ft.subs[j] \in Wholes
      BY <1>2, <3>2, ItemShape
    <3>4. ft.subs[j].name \in Names /\ ft.subs[j].name # ft.name
      BY <1>2, <3>1, <3>3, ItemShape
    <3> QED BY <1>3, <1>4, <3>1, <3>4 DEF Untouched
  <2> QED BY <1>2, <1>4, <2>1, <2>2 DEF UnusedInv
<1>7. RunsInv' /\ StartsInv'
  <2>1. \A n \in Names : file'[n].state \in {"none", "failed"}
                            => file[n].state \in {"none", "failed"}
    BY <1>3, <1>4
  <2> QED BY <1>3, <2>1, RunsAlike
<1>8. KeptFilesWhole'
  <2>1. \A n \in Names :
           /\ file'[n].state = "closed" => file'[n] = file[n]
           /\ file[n].state = "failed" => file'[n].state = "failed"
    BY <1>3, <1>4
  <2> QED BY <2>1, KeptAlike
<1> QED
  BY <1>3, <1>5, <1>6, <1>7, <1>8

LEMMA CreateFileSectors ==
    ASSUME RipInv, SectorsInv, CreateFile PROVE SectorsInv'
<1>1. /\ ppc = "create" /\ ppc' = "reset" /\ current_lsn' = ft.start
      /\ end_lsn' = IF ft.subs = <<>> THEN ft.start + ft.length
                                      ELSE ft.subs[1].start
      /\ UNCHANGED <<disc, request, mpc, ft, ft_sub, queue, buf, encrypted,
                     read_buffer, checked, non_encrypted_disc, running, fpc,
                     fargs>>
      /\ file' = [file EXCEPT ![ft.name].state = "open"]
  BY DEF CreateFile, control, flags, block, frames
<1>2. /\ UnusedInv' /\ RunsInv' /\ StartsInv' /\ KeptFilesWhole'
      /\ file'[ft.name].sectors = <<>>
  BY <1>1, FirstTouch
<1>3. /\ fpc = "none" /\ ft_sub = NoItem /\ ft # NoItem /\ Chosen
  BY <1>1, NothingOpen DEF Making, RipInv, ItemsInv
<1>4. ft.start \in Nat /\ ft.length \in Nat
  <2>1. ft \in Item
    BY DEF RipInv, TypeOK
  <2> QED BY <2>1 DEF Item
<1>5. ft.raw => ft.start = 0
  BY <1>3, InHand DEF RipInv, Isos
<1>6. ft.subs # <<>> => ft.raw /\ ft.subs[1].start \in Nat
  <2> SUFFICES ASSUME ft.subs # <<>>
               PROVE  ft.raw /\ ft.subs[1].start \in Nat
    OBVIOUS
  <2>1. ft \in Isos
    <3>1. ft \in Wholes => ft.subs = <<>>
      BY <1>3, ItemShape
    <3> QED BY <1>3, <3>1, InHand DEF RipInv
  <2>2. ft.raw = TRUE /\ ft.subs \in Seq(Tracks)
    BY <1>3, <2>1, ItemShape DEF SubQueues
  <2>3. ft.subs[1] \in Items
    BY <2>2 DEF Tracks
  <2> QED BY <1>3, <2>2, <2>3, ItemStart
<1>7. PlaceInv'
  BY <1>1, <1>3, <1>4, <1>5, <1>6 DEF PlaceInv, Making
<1>8. BlockInv' /\ BufferInv' /\ DoneInv'
  BY <1>1, <1>3 DEF SectorsInv, BlockInv, BufferInv, DoneInv
<1>9. HeldInv'
  <2>1. Pending' = 0 /\ Behind' = 0
    BY <1>1, <1>3 DEF Pending, Behind
  <2> QED BY <1>1, <1>2, <1>3, <1>4, <2>1 DEF HeldInv
<1> QED
  BY <1>2, <1>7, <1>8, <1>9 DEF SectorsInv

LEMMA CreateFailsSectors ==
    ASSUME RipInv, SectorsInv, CreateFails PROVE SectorsInv'
<1>1. /\ ppc = "create" /\ ppc' = "check"
      /\ UNCHANGED <<disc, request, mpc, ft, ft_sub, queue, buf, encrypted,
                     read_buffer, checked, non_encrypted_disc, running, fpc,
                     fargs, current_lsn, end_lsn>>
      /\ file' = [file EXCEPT ![ft.name].state = "failed"]
  BY DEF CreateFails, control, flags, place, block, frames
<1>2. /\ UnusedInv' /\ RunsInv' /\ StartsInv' /\ KeptFilesWhole'
      /\ file'[ft.name].state = "failed"
  BY <1>1, FirstTouch
<1>3. fpc = "none" /\ ft_sub = NoItem
  BY <1>1, NothingOpen DEF Making, RipInv, ItemsInv
<1>4. BlockInv' /\ BufferInv' /\ DoneInv' /\ PlaceInv' /\ HeldInv'
  BY <1>1, <1>2, <1>3
     DEF SectorsInv, BlockInv, BufferInv, DoneInv, PlaceInv, HeldInv, Making
<1> QED
  BY <1>2, <1>4 DEF SectorsInv

LEMMA TrackLength == ASSUME Chosen, NEW x \in Tracks PROVE x.length > 0
<1>1. PICK a \in DOMAIN disc.areas : x \in TracksOf(a)
  BY DEF Tracks, TrackSet
<1>2. PICK t \in DOMAIN disc.areas[a].tracks : x = TrackItem(a, t)
  BY <1>1 DEF TracksOf
<1> QED
  BY <1>2, TrackShape

(* The next track file of an ISO: its first sector may have gone to the    *)
(* track before it.                                                        *)
LEMMA SubTouch ==
    ASSUME RipInv, SectorsInv, ppc = "nextSub", ft.subs # <<>>,
           UNCHANGED <<disc, request, mpc, queue, checked,
                       non_encrypted_disc>>,
           NEW t \in {"open", "failed"},
           file' = [file EXCEPT ![Head(ft.subs).name].state = t],
           ppc' # "create"
    PROVE  /\ RunsInv' /\ StartsInv' /\ KeptFilesWhole'
           /\ file'[Head(ft.subs).name].state = t
           /\ file'[Head(ft.subs).name].sectors = <<>>
           /\ file'[ft.name] = file[ft.name]
           /\ \A n \in Names : n # Head(ft.subs).name => file'[n] = file[n]
<1>1. Head(ft.subs).name \in Names /\ Head(ft.subs).name # ft.name
      /\ ft.name \in Names
  BY NextSub
<1>2. /\ file'[Head(ft.subs).name].state = t
      /\ \A m \in Names : file'[m].sectors = file[m].sectors
      /\ \A m \in Names : m # Head(ft.subs).name => file'[m] = file[m]
  BY <1>1, StateSet
<1>3. file[Head(ft.subs).name].state = "none"
  <2>1. ft.subs \in Seq(Tracks)
    BY NextSub
  <2>2. Head(ft.subs) = ft.subs[1] /\ 1 \in DOMAIN ft.subs
    BY <2>1
  <2> QED BY <2>2 DEF SectorsInv, UnusedInv, Making
<1>4. file'[Head(ft.subs).name].sectors = <<>>
  BY <1>1, <1>2, <1>3 DEF SectorsInv, RunsInv
<1>5. RunsInv' /\ StartsInv'
  <2>1. \A n \in Names : file'[n].state \in {"none", "failed"}
                            => file[n].state \in {"none", "failed"}
    BY <1>2, <1>3
  <2> QED BY <1>2, <2>1, RunsAlike
<1>6. KeptFilesWhole'
  <2>1. \A n \in Names :
           /\ file'[n].state = "closed" => file'[n] = file[n]
           /\ file[n].state = "failed" => file'[n].state = "failed"
    BY <1>2, <1>3
  <2> QED BY <2>1, KeptAlike
<1> QED
  BY <1>1, <1>2, <1>4, <1>5, <1>6

LEMMA StartSubSectors ==
    ASSUME RipInv, SectorsInv, StartSub PROVE SectorsInv'
<1> DEFINE sub == Head(ft.subs)
           rest == Tail(ft.subs)
<1>1. /\ ppc = "nextSub" /\ ft.subs # <<>> /\ current_lsn >= ft.subs[1].start
      /\ ft_sub' = sub /\ ft' = [ft EXCEPT !.subs = rest]
      /\ end_lsn' = sub.start + sub.length
      /\ file' = [file EXCEPT ![sub.name].state = "open"]
      /\ ppc' = "loop"
      /\ UNCHANGED <<disc, request, mpc, current_lsn, queue, buf, encrypted,
                     read_buffer, checked, non_encrypted_disc, running, fpc,
                     fargs>>
  BY DEF StartSub, control, flags, block, frames
<1>2. /\ RunsInv' /\ StartsInv' /\ KeptFilesWhole'
      /\ file'[sub.name].state = "open"
      /\ file'[sub.name].sectors = <<>>
      /\ file'[ft.name] = file[ft.name]
      /\ \A n \in Names : n # sub.name => file'[n] = file[n]
  BY <1>1, SubTouch
<1>3. /\ ft \in Isos /\ queue = <<>> /\ fpc = "none" /\ mpc # "enqueue"
      /\ ft.subs \in Seq(Tracks) /\ InTurn(ft.subs)
      /\ sub \in Tracks /\ sub # NoItem /\ sub.name \in Names
      /\ sub.start \in Nat /\ sub.length \in Nat /\ ft # NoItem
  BY <1>1, NextSub
<1>4. Chosen /\ current_lsn \in Nat
  BY DEF RipInv, TypeOK, ItemsInv
<1>5. sub = ft.subs[1] /\ sub.length > 0
  BY <1>3, <1>4, TrackLength
<1>6. /\ rest \in Seq(Tracks)
      /\ \A i \in DOMAIN rest : rest[i] \in Tracks /\ Before(sub, rest[i])
      /\ \A i \in DOMAIN rest : i + 1 \in DOMAIN ft.subs
                                /\ rest[i] = ft.subs[i + 1]
  BY <1>1, <1>3, TailInTurn
<1>7. ft'.name = ft.name /\ ft'.start = ft.start /\ ft'.length = ft.length
      /\ ft'.raw = ft.raw /\ ft'.subs = rest /\ ft.raw = TRUE
  BY <1>1, <1>3 DEF Isos
<1> HIDE DEF sub, rest
<1>8. UnusedInv'
  <2>1. ASSUME NEW j \in DOMAIN rest
        PROVE  file'[rest[j].name].state = "none"
    <3>1. rest[j].name # sub.name /\ rest[j].name \in Names
      BY <1>3, <1>4, <1>6, OtherNames, KnownNames DEF Tracks
    <3>2. file[rest[j].name].state = "none"
      BY <1>1, <1>6 DEF SectorsInv, UnusedInv, Making
    <3> QED BY <1>2, <3>1, <3>2
  <2> QED BY <1>1, <1>3, <1>7, <2>1 DEF UnusedInv
<1>9. current_lsn = end_lsn /\ end_lsn <= sub.start + 1
  BY <1>1, <1>5 DEF SectorsInv, PlaceInv, Making
<1>10. PlaceInv'
  <2>1. current_lsn <= end_lsn'
    BY <1>1, <1>3, <1>4, <1>5, <1>9
  <2>2. rest # <<>> => end_lsn' <= rest[1].start + 1
    <3>1. rest # <<>> => 1 \in DOMAIN rest
      BY <1>6
    <3> QED BY <1>1, <1>6, <3>1 DEF Before
  <2>3. current_lsn <= ft.start + ft.length
    BY <1>1 DEF SectorsInv, PlaceInv, Making
  <2> QED BY <1>1, <1>7, <2>1, <2>2, <2>3 DEF PlaceInv, Making
<1>11. BlockInv' /\ BufferInv' /\ DoneInv'
  BY <1>1, <1>3 DEF SectorsInv, BlockInv, BufferInv, DoneInv
<1>12. HeldInv'
  <2>1. Pending' = 0 /\ Behind' = 0 /\ Behind = 0
    BY <1>1, <1>3, <1>7 DEF Pending, Behind
  <2>2. ft'.name = ft.name /\ file'[ft'.name] = file[ft.name]
    BY <1>2, <1>7
  <2>3. file[ft.name].state = "open" =>
          LET s == file[ft.name].sectors
          IN /\ Len(s) + Behind = current_lsn - ft.start
             /\ s # <<>> => s[1].lsn = ft.start
    BY <1>3 DEF SectorsInv, HeldInv
  <2>4. current_lsn - 0 - 0 \in sub.start .. sub.start + 1
    BY <1>1, <1>3, <1>4, <1>5, <1>9
  <2>5. ft' # NoItem /\ file'[ft'.name].state = "open" =>
          LET s == file'[ft'.name].sectors
          IN /\ Len(s) + Behind' = current_lsn' - ft'.start
             /\ s # <<>> => s[1].lsn = ft'.start
    BY <1>1, <1>7, <2>1, <2>2, <2>3
  <2>6. /\ current_lsn' - Pending' - Len(file'[ft_sub'.name].sectors)
              \in ft_sub'.start .. ft_sub'.start + 1
        /\ file'[ft_sub'.name].sectors = <<>>
    <3>1. Len(file'[ft_sub'.name].sectors) = 0
      BY <1>1, <1>2
    <3> QED BY <1>1, <1>2, <2>1, <2>4, <3>1
  <2> QED BY <2>5, <2>6 DEF HeldInv
<1> QED
  BY <1>2, <1>8, <1>10, <1>11, <1>12 DEF SectorsInv

LEMMA StartSubFailsSectors ==
    ASSUME RipInv, SectorsInv, StartSubFails PROVE SectorsInv'
<1> DEFINE sub == Head(ft.subs)
<1>1. /\ ppc = "nextSub" /\ ft.subs # <<>> /\ ft_sub' = sub
      /\ file' = [file EXCEPT ![sub.name].state = "failed"]
      /\ ppc' = "check"
      /\ UNCHANGED <<disc, request, mpc, current_lsn, end_lsn, ft, queue, buf,
                     encrypted, read_buffer, checked, non_encrypted_disc,
                     running, fpc, fargs>>
  BY DEF StartSubFails, control, flags, block, frames
<1>2. /\ RunsInv' /\ StartsInv' /\ KeptFilesWhole'
      /\ file'[sub.name].state = "failed"
      /\ file'[ft.name] = file[ft.name]
  BY <1>1, SubTouch
<1>3. /\ ft \in Isos /\ queue = <<>> /\ fpc = "none" /\ mpc # "enqueue"
      /\ sub \in Tracks /\ request.mode = "concurrent" /\ ft # NoItem
  BY <1>1, NextSub
<1>4. ft.raw = TRUE
  BY <1>3 DEF Isos
<1>5. Tracks' = Tracks
  BY <1>1, FixedSets
<1> HIDE DEF sub
<1>6. UnusedInv' /\ PlaceInv' /\ BlockInv' /\ BufferInv'
  BY <1>1, <1>3
     DEF SectorsInv, UnusedInv, PlaceInv, BlockInv, BufferInv, Making
<1>7. DoneInv'
  BY <1>1, <1>2, <1>3, <1>4, <1>5 DEF DoneInv, SubFailed
<1>8. HeldInv'
  <2>1. Behind' = 0 /\ Behind = 0
    BY <1>1, <1>3, <1>4 DEF Pending, Behind
  <2> QED BY <1>1, <1>2, <1>3, <2>1 DEF SectorsInv, HeldInv
<1> QED
  BY <1>2, <1>6, <1>7, <1>8 DEF SectorsInv

(* Steps that go on with the files in hand, or end them.                   *)
LEMMA UnusedKept ==
    ASSUME RipInv, SectorsInv, UNCHANGED <<disc, request, mpc, ft, queue>>,
           ppc # "none", ppc' # "create", ppc' \in Making => ppc \in Making,
           \A n \in Names : file[n].state = "none" => file'[n].state = "none"
    PROVE  UnusedInv'
<1>1. Names' = Names
  BY Fixed
<1>2. Chosen /\ mpc # "enqueue" /\ queue \in Seq(Items) /\ ft \in Item
  BY DEF RipInv, TypeOK, ItemsInv
<1>3. Untouched => Untouched'
  BY <1>1 DEF Untouched
<1>4. \A i \in DOMAIN queue : queue[i].name \in Names
  BY <1>2, KnownNames
<1>5. \A j \in DOMAIN ft.subs : ft.subs[j].name \in Names
  <2>1. ft.subs \in Seq(Items)
    BY <1>2 DEF Item
  <2> QED BY <1>2, <2>1, KnownNames
<1> QED
  BY <1>2, <1>3, <1>4, <1>5 DEF SectorsInv, UnusedInv

LEMMA IsoSubs ==
    ASSUME Chosen, request.mode = "concurrent", NEW x \in Items, x.raw = TRUE,
           NEW y \in Tracks
    PROVE  y \in ToSet(x.subs)
<1>1. Enqueued = <<RawItem(AllTracks)>>
  BY DEF Enqueued
<1>2. ToSet(Enqueued) = {RawItem(AllTracks)}
  BY <1>1 DEF ToSet
<1>3. AllTracks \in Seq(TrackSet) /\ InTurn(AllTracks)
  BY AllTracksOrder
<1>4. RawItem(AllTracks).subs = AllTracks /\ RawItem(AllTracks).raw = TRUE
  BY <1>3, RawShape DEF IsIso
<1>5. Items = {RawItem(AllTracks)} \cup ToSet(AllTracks)
  BY <1>2, <1>4 DEF Items
<1>6. \A z \in Tracks : z.raw = FALSE
  BY ItemShape
<1>7. ToSet(AllTracks) \subseteq Tracks
  BY <1>3, <1>5 DEF ToSet, Tracks
<1>8. x = RawItem(AllTracks)
  BY <1>5, <1>6, <1>7
<1>9. y # RawItem(AllTracks)
  BY <1>4, <1>6
<1> QED
  BY <1>4, <1>5, <1>8, <1>9 DEF Tracks

LEMMA ItemLength ==
    ASSUME Chosen, NEW x \in Wholes \cup Isos
    PROVE  x.start \in Nat /\ x.length \in Nat /\ x.length > 0
<1>1. CASE x \in Isos
  <2>1. disc.total \in Nat /\ disc.total > 0
    BY RipAssumption DEF Chosen, DiscAssumption, Disc
  <2> QED BY <1>1, <2>1 DEF Isos
<1>2. CASE x \in TrackSet
  <2>1. PICK a \in DOMAIN disc.areas : x \in TracksOf(a)
    BY <1>2 DEF TrackSet
  <2>2. PICK t \in DOMAIN disc.areas[a].tracks : x = TrackItem(a, t)
    BY <2>1 DEF TracksOf
  <2> QED BY <2>2, TrackShape
<1>3. CASE x \in EditSet
  <2>1. PICK a \in DOMAIN disc.areas : x = EditItem(a)
    BY <1>3 DEF EditSet
  <2>2. x.start \in Nat /\ x.length \in Nat
    BY <2>1, EditShape
  <2>3. x.length > 1
    BY <2>1, EditShape
  <2> QED BY <2>2, <2>3
<1> QED
  BY <1>1, <1>2, <1>3 DEF Wholes

(* Closing one file that is whole.                                         *)
LEMMA KeptNow ==
    ASSUME RipInv, SectorsInv, UNCHANGED <<disc, request>>,
           NEW n \in Names, file[n].state # "failed",
           \A m \in Names : m # n => file'[m] = file[m],
           file'[n].sectors = file[n].sectors,
           \A x \in Items : x.name = n =>
              \/ /\ file[n].sectors # <<>>
                 /\ Last(file[n].sectors).lsn = x.start + x.length - 1
              \/ \E sub \in ToSet(x.subs) : file[sub.name].state = "failed"
              \/ request.mode = "concurrent" /\ ~x.raw /\ x.length = 1
    PROVE  KeptFilesWhole'
<1>1. Names' = Names /\ Items' = Items
  BY Fixed
<1>2. SUFFICES ASSUME NEW item \in Items, file'[item.name].state = "closed"
      PROVE  \/ /\ file'[item.name].sectors # <<>>
                /\ Last(file'[item.name].sectors).lsn
                       = item.start + item.length - 1
             \/ \E sub \in ToSet(item.subs) : file'[sub.name].state = "failed"
             \/ request.mode = "concurrent" /\ ~item.raw /\ item.length = 1
  BY <1>1 DEF KeptFilesWhole
<1>3. Chosen
  BY DEF RipInv, ItemsInv
<1>4. item.name \in Names
  BY <1>3, KnownNames
<1>5. \A sub \in ToSet(item.subs) :
         file[sub.name].state = "failed" => file'[sub.name].state = "failed"
  BY <1>3, KnownNames
<1>6. file'[item.name].sectors = file[item.name].sectors
  BY <1>4
<1>7. item.name # n => file[item.name].state = "closed"
  BY <1>2, <1>4
<1>8. \/ /\ file[item.name].sectors # <<>>
         /\ Last(file[item.name].sectors).lsn = item.start + item.length - 1
      \/ \E sub \in ToSet(item.subs) : file[sub.name].state = "failed"
      \/ request.mode = "concurrent" /\ ~item.raw /\ item.length = 1
  BY <1>7 DEF SectorsInv, KeptFilesWhole
<1> QED
  BY <1>5, <1>6, <1>8

(* The last sector of a file, and where the next would be.                 *)
LEMMA LastOfRun ==
    ASSUME NEW s \in Runs, s # <<>>
    PROVE  Last(s).lsn = s[1].lsn + Len(s) - 1
<1>1. Len(s) \in DOMAIN s
  BY RunFacts
<1> QED
  BY <1>1, RunFacts DEF Last

LEMMA FinishSubSectors ==
    ASSUME RipInv, SectorsInv, FinishSub PROVE SectorsInv'
<1>1. /\ ppc = "joinEnd" /\ ppc' = "nextSub" /\ fpc' = "none"
      /\ running => fpc = "done"
      /\ ft_sub' = NoItem
      /\ file' = IF ft_sub # NoItem THEN Closed(file, ft_sub, "closed")
                                    ELSE file
      /\ UNCHANGED <<disc, request, mpc, stop_processing, current_lsn,
                     end_lsn, ft, queue, buf, encrypted, read_buffer,
                     checked, non_encrypted_disc, fargs>>
  BY DEF FinishSub, control, flags, block, outputs, Joined
<1>2. /\ Chosen /\ ft # NoItem /\ ft.name \in Names
      /\ ft_sub # NoItem => /\ ft_sub \in Tracks /\ ft_sub \in Wholes
                            /\ ft_sub.name \in Names
                            /\ ft_sub.name # ft.name
                            /\ file[ft_sub.name].state = "open"
                            /\ request.mode = "concurrent"
                            /\ ft_sub.raw = FALSE
      /\ file \in Files
      /\ file[ft.name].state = "open"
  BY <1>1, InHand DEF RipInv, ItemsInv, FilesInv, TypeOK, Making, Files
<1>3. fpc \in {"none", "done"}
  BY <1>1 DEF RipInv, TypeOK, FramesInv
<1>4. /\ \A n \in Names : file'[n].sectors = file[n].sectors
      /\ \A n \in Names : file'[n] = file[n] \/ file[n].state = "open"
      /\ \A n \in Names :
           file'[n] = file[n] \/ (ft_sub # NoItem /\ n = ft_sub.name)
      /\ \A n \in Names :
           file'[n] = file[n] \/ file'[n].state = "closed"
      /\ file'[ft.name] = file[ft.name]
  <2>1. CASE ft_sub = NoItem
    BY <1>1, <2>1
  <2>2. CASE ft_sub # NoItem
    <3>1. "closed" \in {"closed", "removed"}
      OBVIOUS
    <3>2. file' = Closed(file, ft_sub, "closed")
      BY <1>1, <2>2
    <3>3. \A n \in Names :
            /\ Closed(file, ft_sub, "closed")[n].sectors = file[n].sectors
            /\ n # ft_sub.name =>
                 Closed(file, ft_sub, "closed")[n] = file[n]
            /\ \/ Closed(file, ft_sub, "closed")[n] = file[n]
               \/ /\ file[n].state = "open"
                  /\ Closed(file, ft_sub, "closed")[n].state = "closed"
      BY <1>2, <2>2, <3>1, ClosedFiles
    <3> QED BY <1>2, <2>2, <3>2, <3>3
  <2> QED BY <2>1, <2>2
<1>5. UnusedInv'
  <2>1. \A n \in Names : file[n].state = "none" => file'[n].state = "none"
    BY <1>4
  <2> QED BY <1>1, <2>1, UnusedKept DEF Making
<1>6. RunsInv' /\ StartsInv'
  <2>1. \A n \in Names : file'[n].state \in {"none", "failed"}
                            => file[n].state \in {"none", "failed"}
    BY <1>4
  <2> QED BY <1>1, <1>4, <2>1, RunsAlike
<1>7. BlockInv' /\ BufferInv' /\ PlaceInv' /\ DoneInv'
  BY <1>1 DEF SectorsInv, BlockInv, BufferInv, PlaceInv, DoneInv, Making
<1>8. HeldInv'
  <2>1. Behind' = Behind
    BY <1>1, <1>3 DEF Pending, Behind
  <2> QED BY <1>1, <1>2, <1>4, <2>1 DEF SectorsInv, HeldInv
<1>9. KeptFilesWhole'
  <2>1. CASE ft_sub = NoItem
    <3>1. \A n \in Names : file'[n] = file[n]
      BY <1>4, <2>1
    <3> QED BY <1>1, <3>1, KeptAlike
  <2>2. CASE ft_sub # NoItem
    <3> DEFINE s == file[ft_sub.name].sectors
    <3>1. Pending = 0
      BY <1>1, <1>3 DEF Pending
    <3>2. /\ current_lsn - Pending - Len(s)
                \in ft_sub.start .. ft_sub.start + 1
          /\ s # <<>> => s[1].lsn = current_lsn - Pending - Len(s)
      BY <1>2, <2>2 DEF SectorsInv, HeldInv
    <3>3. current_lsn = ft_sub.start + ft_sub.length
      BY <1>1, <2>2 DEF SectorsInv, PlaceInv, Making
    <3>4. s \in Runs /\ Len(s) \in Nat
      BY <1>2, <2>2, RunFacts DEF SectorsInv, RunsInv
    <3>5. /\ ft_sub.start \in Nat /\ ft_sub.length \in Nat
          /\ ft_sub.length > 0 /\ current_lsn \in Nat
      BY <1>2, <2>2, ItemLength DEF RipInv, TypeOK
    <3>6. s = <<>> => ft_sub.length = 1
      <4> SUFFICES ASSUME Len(s) = 0 PROVE ft_sub.length = 1
        OBVIOUS
      <4> HIDE DEF s
      <4> QED BY <3>1, <3>2, <3>3, <3>5
    <3>7. s # <<>> => Last(s).lsn = ft_sub.start + ft_sub.length - 1
      <4> SUFFICES ASSUME s # <<>>
                   PROVE  Last(s).lsn = ft_sub.start + ft_sub.length - 1
        OBVIOUS
      <4>1. Last(s).lsn = s[1].lsn + Len(s) - 1
        BY <3>4, LastOfRun
      <4>2. s[1].lsn = current_lsn - Len(s)
        BY <3>1, <3>2, <3>4, <3>5
      <4> HIDE DEF s
      <4> QED BY <3>3, <3>4, <3>5, <4>1, <4>2
    <3>8. ASSUME NEW x \in Items, x.name = ft_sub.name
          PROVE  \/ s # <<>> /\ Last(s).lsn = x.start + x.length - 1
                 \/ request.mode = "concurrent" /\ ~x.raw /\ x.length = 1
      <4>1. /\ x.start = ft_sub.start /\ x.length = ft_sub.length
            /\ x.raw = FALSE
        BY <1>2, <2>2, <3>8, NameTells
      <4> QED BY <1>2, <2>2, <3>6, <3>7, <4>1
    <3>9. \A m \in Names : m # ft_sub.name => file'[m] = file[m]
      BY <1>4
    <3> QED BY <1>1, <1>2, <1>4, <2>2, <3>8, <3>9, KeptNow
  <2> QED BY <2>1, <2>2
<1> QED
  BY <1>5, <1>6, <1>7, <1>8, <1>9 DEF SectorsInv

LEMMA FinishItemSectors ==
    ASSUME RipInv, SectorsInv, FinishItem PROVE SectorsInv'
<1>1. /\ ppc = "check" /\ stop_processing # 1
      /\ UNCHANGED <<disc, request, mpc, stop_processing, current_lsn,
                     end_lsn, ft, ft_sub, queue, buf, encrypted, read_buffer,
                     checked, non_encrypted_disc, running, fpc, fargs>>
  BY DEF FinishItem, Stopped, control, flags, place, block, frames
<1>2. /\ Chosen /\ ft # NoItem /\ ft.name \in Names /\ file \in Files
      /\ ft \in Wholes \cup Isos
      /\ ft_sub # NoItem => /\ ft_sub.name \in Names
                            /\ ft_sub.name # ft.name
                            /\ file[ft_sub.name].state # "open"
  BY <1>1, InHand DEF RipInv, ItemsInv, FilesInv, TypeOK, Files
<1>3. fpc = "none"
  BY <1>1 DEF RipInv, FramesInv
<1>4. CASE ppc' = "crashed" /\ file' = file
  <2>1. Quiet /\ Pending' = Pending
    BY <1>1, <1>3, <1>4 DEF Quiet, Pending, Making
  <2> QED BY <1>1, <1>4, <2>1, QuieterSteps
<1>5. CASE ppc' = "next" /\ file' = Closed(file, ft, "closed")
  <2>1. "closed" \in {"closed", "removed"}
    OBVIOUS
  <2>2. /\ Closed(file, ft, "closed")[ft.name].state # "open"
        /\ \A n \in Names :
             /\ Closed(file, ft, "closed")[n].sectors = file[n].sectors
             /\ n # ft.name => Closed(file, ft, "closed")[n] = file[n]
             /\ \/ Closed(file, ft, "closed")[n] = file[n]
                \/ /\ file[n].state = "open"
                   /\ Closed(file, ft, "closed")[n].state = "closed"
    BY <1>2, <2>1, ClosedFiles
  <2>3. /\ file'[ft.name].state # "open"
        /\ \A n \in Names : file'[n].sectors = file[n].sectors
        /\ \A n \in Names : n # ft.name => file'[n] = file[n]
        /\ \A n \in Names :
             file'[n] = file[n] \/ (file[n].state = "open"
                                    /\ file'[n].state = "closed")
    BY <1>5, <2>2
  <2>4. UnusedInv'
    <3>1. \A n \in Names : file[n].state = "none" => file'[n].state = "none"
      BY <2>3
    <3> QED BY <1>1, <1>5, <3>1, UnusedKept DEF Making
  <2>5. RunsInv' /\ StartsInv'
    <3>1. \A n \in Names : file'[n].state \in {"none", "failed"}
                              => file[n].state \in {"none", "failed"}
      BY <2>3
    <3> QED BY <1>1, <2>3, <3>1, RunsAlike
  <2>6. BlockInv' /\ BufferInv' /\ PlaceInv' /\ DoneInv'
    BY <1>1, <1>3, <1>5
       DEF SectorsInv, BlockInv, BufferInv, PlaceInv, DoneInv, Making
  <2>7. HeldInv'
    BY <1>1, <1>2, <2>3 DEF HeldInv
  <2>8. KeptFilesWhole'
    <3>1. CASE file[ft.name].state # "open"
      <4>1. \A n \in Names : file'[n] = file[n]
        BY <2>3, <3>1
      <4> QED BY <1>1, <4>1, KeptAlike
    <3>2. CASE file[ft.name].state = "open"
      <4> DEFINE s == file[ft.name].sectors
      <4>1. Behind = 0
        BY <1>1, <1>3 DEF Pending, Behind
      <4>2. /\ Len(s) + Behind = current_lsn - ft.start
            /\ s # <<>> => s[1].lsn = ft.start
        BY <1>2, <3>2 DEF SectorsInv, HeldInv
      <4>3. s \in Runs /\ Len(s) \in Nat /\ s \in Seq(Sector)
        BY <1>2, RunFacts DEF SectorsInv, RunsInv
      <4>4. /\ ft.start \in Nat /\ ft.length \in Nat /\ ft.length > 0
            /\ current_lsn \in Nat
        BY <1>2, ItemLength DEF RipInv, TypeOK
      <4>5. current_lsn = ft.start + ft.length
              => s # <<>> /\ Last(s).lsn = ft.start + ft.length - 1
        <5> SUFFICES ASSUME current_lsn = ft.start + ft.length
                     PROVE  s # <<>> /\ Last(s).lsn = ft.start + ft.length - 1
          OBVIOUS
        <5> HIDE DEF s
        <5>1. Len(s) = ft.length
          BY <4>1, <4>2, <4>3, <4>4
        <5>2. s # <<>>
          BY <4>4, <5>1
        <5>3. Last(s).lsn = s[1].lsn + Len(s) - 1
          BY <4>3, <5>2, LastOfRun
        <5> QED BY <4>2, <4>4, <5>1, <5>2, <5>3
      <4>6. current_lsn = ft.start + ft.length \/ SubFailed
        BY <1>1, <3>2 DEF SectorsInv, DoneInv
      <4>7. ASSUME NEW x \in Items, x.name = ft.name
            PROVE  \/ s # <<>> /\ Last(s).lsn = x.start + x.length - 1
                   \/ \E sub \in ToSet(x.subs) :
                        file[sub.name].state = "failed"
        <5>1. x.start = ft.start /\ x.length = ft.length /\ x.raw = ft.raw
          BY <1>2, <4>7, NameTells
        <5>2. CASE current_lsn = ft.start + ft.length
          BY <4>5, <5>1, <5>2
        <5>3. CASE SubFailed
          <6>1. PICK y \in Tracks : file[y.name].state = "failed"
            BY <5>3 DEF SubFailed
          <6>2. x.raw = TRUE
            <7>1. x \in Wholes => x.raw = FALSE
              BY <1>2, ItemShape
            <7>2. x \in Isos => x.raw = TRUE
              BY DEF Isos
            <7> QED BY <1>2, <5>1, <5>3, <7>1, <7>2, ItemShape DEF SubFailed
          <6>3. y \in ToSet(x.subs)
            BY <1>2, <5>3, <6>2, IsoSubs DEF SubFailed
          <6> QED BY <6>1, <6>3
        <5> QED BY <4>6, <5>2, <5>3
      <4> QED BY <1>1, <1>2, <2>3, <3>2, <4>7, KeptNow
    <3> QED BY <3>1, <3>2
  <2> QED BY <2>4, <2>5, <2>6, <2>7, <2>8 DEF SectorsInv
<1>6. \/ ppc' = "crashed" /\ file' = file
      \/ ppc' = "next" /\ file' = Closed(file, ft, "closed")
  BY DEF FinishItem, outputs
<1> QED
  BY <1>4, <1>5, <1>6

LEMMA CancelSectors ==
    ASSUME RipInv, SectorsInv, Cancel PROVE SectorsInv'
<1>1. /\ ppc = "check" /\ stop_processing = 1 /\ fpc' = "none"
      /\ running => fpc = "done"
      /\ UNCHANGED <<disc, request, mpc, stop_processing, current_lsn,
                     end_lsn, ft, ft_sub, buf, encrypted, read_buffer,
                     checked, non_encrypted_disc, fargs>>
  BY DEF Cancel, Stopped, Joined, control, flags, place, block
<1>2. /\ Chosen /\ ft # NoItem /\ ft.name \in Names /\ file \in Files
      /\ ft_sub # NoItem => ft_sub.name \in Names
      /\ mpc # "enqueue"
  BY <1>1, InHand DEF RipInv, ItemsInv, TypeOK, Files
<1>3. fpc \in {"none", "done"}
  BY <1>1 DEF RipInv, TypeOK, FramesInv
<1>4. CASE ppc' = "crashed" /\ file' = file /\ queue' = queue
  <2>1. Quiet /\ Pending' = Pending
    BY <1>1, <1>3, <1>4 DEF Quiet, Pending, Making
  <2> QED BY <1>1, <1>4, <2>1, QuieterSteps
<1> DEFINE files == IF ft_sub = NoItem THEN file
                    ELSE Closed(file, ft_sub, "removed")
<1>5. CASE ppc' = "exited" /\ file' = Closed(files, ft, "removed")
           /\ queue' = <<>>
  <2>1. "removed" \in {"closed", "removed"}
    OBVIOUS
  <2>2. /\ files \in Files
        /\ \A n \in Names :
             /\ files[n].sectors = file[n].sectors
             /\ \/ files[n] = file[n]
                \/ /\ file[n].state = "open"
                   /\ files[n].state = "removed"
    <3>1. CASE ft_sub = NoItem
      BY <1>2, <3>1
    <3>2. CASE ft_sub # NoItem
      BY <1>2, <2>1, <3>2, ClosedFiles
    <3> QED BY <3>1, <3>2
  <2> HIDE DEF files
  <2>3. \A n \in Names :
             /\ Closed(files, ft, "removed")[n].sectors = files[n].sectors
             /\ \/ Closed(files, ft, "removed")[n] = files[n]
                \/ /\ files[n].state = "open"
                   /\ Closed(files, ft, "removed")[n].state = "removed"
    <3>1. files \in Files /\ ft.name \in Names
      BY <1>2, <2>2
    <3> QED BY <2>1, <3>1, ClosedFiles
  <2>4. \A n \in Names :
             /\ file'[n].sectors = file[n].sectors
             /\ \/ file'[n] = file[n]
                \/ /\ file[n].state = "open"
                   /\ file'[n].state = "removed"
    BY <1>5, <2>2, <2>3
  <2>5. UnusedInv'
    BY <1>1, <1>2, <1>5 DEF UnusedInv, Making
  <2>6. RunsInv' /\ StartsInv'
    <3>1. \A n \in Names : file'[n].state \in {"none", "failed"}
                              => file[n].state \in {"none", "failed"}
      BY <2>4
    <3>2. \A n \in Names : file'[n].sectors = file[n].sectors
      BY <2>4
    <3> QED BY <1>1, <3>1, <3>2, RunsAlike
  <2>7. KeptFilesWhole'
    <3>1. \A n \in Names :
             /\ file'[n].state = "closed" => file'[n] = file[n]
             /\ file[n].state = "failed" => file'[n].state = "failed"
      BY <2>4
    <3> QED BY <1>1, <3>1, KeptAlike
  <2>8. BlockInv' /\ BufferInv' /\ PlaceInv' /\ DoneInv'
    BY <1>1, <1>3, <1>5
       DEF SectorsInv, BlockInv, BufferInv, PlaceInv, DoneInv, Making
  <2>9. HeldInv'
    <3>1. RipInv'
      BY CancelInv
    <3>2. \A n \in Names : file'[n].state # "open"
      <4>1. Names' = Names
        BY <1>1, Fixed
      <4> QED BY <1>5, <3>1, <4>1 DEF RipInv, FilesInv, Making
    <3> QED BY <1>1, <1>2, <3>2 DEF HeldInv
  <2> QED BY <2>5, <2>6, <2>7, <2>8, <2>9 DEF SectorsInv
<1>6. \/ ppc' = "crashed" /\ file' = file /\ queue' = queue
      \/ ppc' = "exited" /\ file' = Closed(files, ft, "removed")
         /\ queue' = <<>>
  BY DEF Cancel, outputs, place
<1> QED
  BY <1>4, <1>5, <1>6

(* The copied block follows what has been written, and the verdict that it *)
(* may bring concerns no sector that any file holds already.               *)
LEMMA CopyBlockSectors ==
    ASSUME RipInv, SectorsInv, CopyBlock PROVE SectorsInv'
<1>1. /\ ppc = "joinRead" /\ ppc' = "process" /\ fpc' = "none" /\ buf' = <<>>
      /\ running => fpc = "done"
      /\ current_lsn' = current_lsn + Len(buf)
      /\ UNCHANGED <<disc, request, mpc, stop_processing, end_lsn, ft,
                     ft_sub, queue, file>>
  BY DEF CopyBlock, control, flags, outputs, Joined
<1>2. /\ checked' <=> checked \/ encrypted
      /\ (encrypted /\ ~checked) \/ non_encrypted_disc' = non_encrypted_disc
  BY DEF CopyBlock
<1>3. Chosen /\ ft # NoItem /\ buf \in Seq(Sector) /\ current_lsn \in Nat
  BY <1>1 DEF RipInv, ItemsInv, TypeOK
<1>4. fpc \in {"none", "done"}
  BY <1>1 DEF RipInv, TypeOK, FramesInv
<1>5. /\ Names' = Names /\ Items' = Items /\ Outside' = Outside
      /\ non_encrypted_disc' = non_encrypted_disc => Runs' = Runs
  BY <1>1, Fixed, RunsFixed
<1>6. read_buffer' \in Seq(Sector) /\ non_encrypted_disc' \in BOOLEAN
  <2>1. RipInv'
    BY CopyBlockInv
  <2> QED BY <2>1 DEF RipInv, TypeOK, Sector
<1>7. /\ Len(read_buffer') = Len(buf) /\ Len(buf) \in Nat
      /\ \A i \in DOMAIN read_buffer' :
           /\ i \in DOMAIN buf
           /\ read_buffer'[i].lsn = buf[i].lsn
           /\ read_buffer'[i].clear <=> encrypted /\ ~non_encrypted_disc'
  <2> DEFINE clear == encrypted /\ ~non_encrypted_disc'
  <2>1. read_buffer' = [i \in DOMAIN buf |-> [buf[i] EXCEPT !.clear = clear]]
    BY DEF CopyBlock
  <2>2. clear \in BOOLEAN
    OBVIOUS
  <2> HIDE DEF clear
  <2>3. DOMAIN buf = 1 .. Len(buf) /\ Len(buf) \in Nat
    BY <1>3
  <2>4. Len(read_buffer') = Len(buf)
    BY <1>6, <2>1, <2>3
  <2>5. \A i \in DOMAIN buf : /\ [buf[i] EXCEPT !.clear = clear].lsn = buf[i].lsn
                              /\ [buf[i] EXCEPT !.clear = clear].clear = clear
    <3>1. \A i \in DOMAIN buf : buf[i] \in Sector
      BY <1>3
    <3> QED BY <2>2, <3>1, Cleared
  <2>6. \A i \in DOMAIN read_buffer' :
           /\ i \in DOMAIN buf
           /\ read_buffer'[i].lsn = buf[i].lsn
           /\ read_buffer'[i].clear = clear
    BY <2>1, <2>5
  <2> QED BY <2>3, <2>4, <2>6 DEF clear
<1>8. /\ \A i \in DOMAIN buf : /\ buf[i].lsn = current_lsn + i - 1
                               /\ InArea(buf[i].lsn) <=> encrypted
      /\ current_lsn + Len(buf) <= end_lsn
      /\ current_lsn + Len(buf) <= ft.start + ft.length
  BY <1>1 DEF SectorsInv, BlockInv
<1>9. UnusedInv'
  BY <1>1, UnusedKept DEF Making
<1>10. RunsInv'
  <2>1. ASSUME NEW n \in Names
        PROVE  /\ file[n].sectors \in Runs'
               /\ ~checked' => file[n].sectors \in Outside
    <3>1. /\ file[n].sectors \in Runs
          /\ ~checked => file[n].sectors \in Outside
      BY DEF SectorsInv, RunsInv
    <3>2. ~checked => file[n].sectors \in Runs'
      BY <1>1, <3>1, NewVerdict
    <3> QED BY <1>2, <1>5, <3>1, <3>2
  <2> QED BY <1>1, <1>5, <2>1 DEF SectorsInv, RunsInv
<1>11. StartsInv'
  BY <1>1, <1>5 DEF SectorsInv, StartsInv
<1>12. BlockInv' /\ PlaceInv' /\ DoneInv'
  BY <1>1, <1>8 DEF SectorsInv, BlockInv, PlaceInv, DoneInv, Making
<1>13. BufferInv'
  <2>1. \A i \in DOMAIN read_buffer' :
          /\ read_buffer'[i].lsn = current_lsn + i - 1
          /\ InArea(read_buffer'[i].lsn) <=> encrypted
          /\ read_buffer'[i].clear <=> encrypted /\ ~non_encrypted_disc'
    BY <1>7, <1>8
  <2>2. read_buffer' # <<>> =>
          1 \in DOMAIN read_buffer' /\ read_buffer'[1].lsn = current_lsn
    <3>1. read_buffer' # <<>> => 1 \in DOMAIN read_buffer'
      BY <1>6
    <3>2. current_lsn + 1 - 1 = current_lsn
      BY <1>3
    <3> QED BY <2>1, <3>1, <3>2
  <2>3. \A i \in DOMAIN read_buffer' :
          read_buffer'[i].lsn = read_buffer'[1].lsn + i - 1
    <3>1. ASSUME NEW i \in DOMAIN read_buffer' PROVE read_buffer' # <<>>
      BY <1>6
    <3> QED BY <2>1, <2>2, <3>1
  <2>4. read_buffer' \in Runs'
    <3>1. \A l : InArea(l)' <=> InArea(l)
      BY <1>1 DEF InArea
    <3> QED BY <1>1, <1>6, <2>1, <2>3 DEF Runs, InArea, Sector
  <2>5. ~checked' => read_buffer' \in Outside
    BY <1>2, <1>6, <2>1 DEF Outside
  <2>6. current_lsn' - Len(read_buffer') = current_lsn
    BY <1>1, <1>3, <1>7
  <2> QED BY <1>5, <2>2, <2>4, <2>5, <2>6 DEF BufferInv
<1>14. HeldInv'
  <2>1. Pending = 0 /\ Behind = 0
    BY <1>1, <1>4 DEF Pending, Behind
  <2>2. Pending' = Len(buf) /\ Behind' = Len(buf)
    BY <1>1, <1>7 DEF Pending, Behind
  <2>3. ft # NoItem /\ file[ft.name].state = "open" =>
          LET s == file[ft.name].sectors
          IN /\ Len(s) + Len(buf) = current_lsn' - ft.start
             /\ s # <<>> => s[1].lsn = ft.start
    <3> SUFFICES ASSUME ft # NoItem, file[ft.name].state = "open"
                 PROVE  LET s == file[ft.name].sectors
                        IN /\ Len(s) + Len(buf) = current_lsn' - ft.start
                           /\ s # <<>> => s[1].lsn = ft.start
      OBVIOUS
    <3> DEFINE s == file[ft.name].sectors
    <3>1. /\ Len(s) + Behind = current_lsn - ft.start
          /\ s # <<>> => s[1].lsn = ft.start
      BY DEF SectorsInv, HeldInv
    <3>2. Len(s) \in Nat /\ ft.start \in Nat
      <4>1. ft.name \in Names /\ ft \in Item
        BY InHand DEF RipInv, TypeOK
      <4> QED BY <4>1, RunFacts DEF SectorsInv, RunsInv, Item
    <3> HIDE DEF s
    <3>3. Len(s) + Len(buf) = current_lsn' - ft.start
      <4>1. Len(s) + 0 = current_lsn - ft.start
        BY <2>1, <3>1
      <4>2. /\ Len(s) \in Nat /\ Len(buf) \in Nat
            /\ current_lsn \in Nat /\ ft.start \in Nat
        BY <1>3, <1>7, <3>2
      <4>3. Len(s) + Len(buf) = (current_lsn + Len(buf)) - ft.start
        BY <4>1, <4>2
      <4>4. current_lsn' = current_lsn + Len(buf)
        BY <1>1
      <4> QED BY <4>3, <4>4
    <3> QED BY <3>1, <3>3 DEF s
  <2>4. ft_sub # NoItem /\ file[ft_sub.name].state = "open" =>
          LET s == file[ft_sub.name].sectors
              first == current_lsn' - Len(buf) - Len(s)
          IN /\ first \in ft_sub.start .. ft_sub.start + 1
             /\ s # <<>> => s[1].lsn = first
    <3> SUFFICES ASSUME ft_sub # NoItem, file[ft_sub.name].state = "open"
                 PROVE  LET s == file[ft_sub.name].sectors
                            first == current_lsn' - Len(buf) - Len(s)
                        IN /\ first \in ft_sub.start .. ft_sub.start + 1
                           /\ s # <<>> => s[1].lsn = first
      OBVIOUS
    <3> DEFINE s == file[ft_sub.name].sectors
    <3>1. /\ current_lsn - Pending - Len(s)
               \in ft_sub.start .. ft_sub.start + 1
          /\ s # <<>> => s[1].lsn = current_lsn - Pending - Len(s)
      BY DEF SectorsInv, HeldInv
    <3>2. Len(s) \in Nat
      <4>1. ft_sub.name \in Names
        BY InHand DEF RipInv
      <4> QED BY <4>1, RunFacts DEF SectorsInv, RunsInv
    <3> HIDE DEF s
    <3>3. current_lsn - Pending - Len(s) = current_lsn' - Len(buf) - Len(s)
      BY <1>1, <1>3, <1>7, <2>1, <3>2
    <3> QED BY <3>1, <3>3 DEF s
  <2> QED BY <1>1, <2>2, <2>3, <2>4 DEF HeldInv
<1>15. KeptFilesWhole'
  BY <1>1, KeptAlike
<1> QED
  BY <1>9, <1>10, <1>11, <1>12, <1>13, <1>14, <1>15 DEF SectorsInv

(* Sectors are added to a file that is being made.                         *)
LEMMA Grown ==
    ASSUME RipInv, SectorsInv,
           UNCHANGED <<disc, request, checked, non_encrypted_disc>>,
           NEW n \in Names, file[n].state = "open", NEW t \in Runs,
           ~checked => t \in Outside,
           file' = [file EXCEPT ![n].sectors = t],
           NEW first, t # <<>> => t[1].lsn = first,
           \/ ft # NoItem /\ n = ft.name /\ first = ft.start
           \/ ft_sub # NoItem /\ n = ft_sub.name
                /\ first \in ft_sub.start .. ft_sub.start + 1
    PROVE  /\ RunsInv' /\ StartsInv' /\ KeptFilesWhole'
           /\ file'[n].sectors = t
           /\ \A m \in Names : file'[m].state = file[m].state
           /\ \A m \in Names : m # n => file'[m] = file[m]
<1>1. /\ Names' = Names /\ Items' = Items
      /\ Runs' = Runs /\ Outside' = Outside
  BY Fixed, RunsFixed
<1>2. /\ file'[n].sectors = t
      /\ \A m \in Names : file'[m].state = file[m].state
      /\ \A m \in Names : m # n => file'[m] = file[m]
  <2>1. file \in [Names -> [state : {"none", "open", "closed", "removed",
                                     "failed"},
                            sectors : Seq(Sector)]]
    BY DEF RipInv, TypeOK
  <2>2. t \in Seq(Sector)
    BY RunFacts
  <2>3. /\ [file EXCEPT ![n].sectors = t][n].sectors = t
        /\ \A m \in Names :
             [file EXCEPT ![n].sectors = t][m].state = file[m].state
        /\ \A m \in Names :
             m # n => [file EXCEPT ![n].sectors = t][m] = file[m]
    BY <2>1, <2>2, Written
  <2> QED BY <2>3
<1>3. RunsInv'
  BY <1>1, <1>2 DEF SectorsInv, RunsInv
<1>4. Chosen
  BY DEF RipInv, ItemsInv
<1>5. StartsInv'
  <2>1. ASSUME NEW x \in Items, file'[x.name].sectors # <<>>
        PROVE  file'[x.name].sectors[1].lsn - x.start \in
                 IF request.mode = "concurrent" /\ ~x.raw THEN 0 .. 1 ELSE {0}
    <3>1. x.name \in Names
      BY <1>4, KnownNames
    <3>2. CASE x.name # n
      <4>1. file'[x.name] = file[x.name]
        BY <1>2, <3>1, <3>2
      <4> QED BY <2>1, <4>1 DEF SectorsInv, StartsInv
    <3>3. CASE x.name = n
      <4>1. file'[x.name].sectors[1].lsn = first
        BY <1>2, <2>1, <3>3
      <4>2. CASE ft # NoItem /\ n = ft.name /\ first = ft.start
        <5>1. x.start = ft.start
          BY <1>4, <3>3, <4>2, InHand, NameTells DEF RipInv
        <5>2. ft.start \in Nat
          BY <1>4, <4>2, InHand, ItemLength DEF RipInv
        <5>3. file'[x.name].sectors[1].lsn - x.start = 0
          BY <4>1, <4>2, <5>1, <5>2
        <5> QED BY <5>3
      <4>3. CASE ft_sub # NoItem /\ n = ft_sub.name
                   /\ first \in ft_sub.start .. ft_sub.start + 1
        <5>1. ft_sub \in Wholes /\ request.mode = "concurrent"
              /\ ft_sub.raw = FALSE
          BY <4>3, InHand DEF RipInv, ItemsInv
        <5>2. x.start = ft_sub.start /\ x.raw = FALSE
          BY <1>4, <3>3, <4>3, <5>1, NameTells
        <5>3. ft_sub.start \in Nat
          BY <1>4, <5>1, ItemLength
        <5>4. file'[x.name].sectors[1].lsn - x.start \in 0 .. 1
          BY <4>1, <4>3, <5>2, <5>3
        <5> QED BY <5>1, <5>2, <5>4
      <4> QED BY <4>2, <4>3
    <3> QED BY <3>2, <3>3
  <2> QED BY <1>1, <2>1 DEF StartsInv
<1>6. KeptFilesWhole'
  <2>1. \A m \in Names :
           /\ file'[m].state = "closed" => file'[m] = file[m]
           /\ file[m].state = "failed" => file'[m].state = "failed"
    BY <1>2
  <2> QED BY <2>1, KeptAlike
<1> QED
  BY <1>2, <1>3, <1>5, <1>6

(* A block goes to the ISO as a whole, to any other file by way of a frame *)
(* thread.                                                                 *)
LEMMA ProcessBlockSectors ==
    ASSUME RipInv, SectorsInv, ProcessBlock PROVE SectorsInv'
<1> DEFINE n == Len(read_buffer)
           s == file[ft.name].sectors
<1>1. /\ ppc = "process" /\ ppc' = "loop"
      /\ UNCHANGED <<disc, request, mpc, stop_processing, current_lsn,
                     end_lsn, ft, ft_sub, queue, buf, encrypted, read_buffer,
                     checked, non_encrypted_disc>>
  BY DEF ProcessBlock, control, flags, place, block
<1>2. /\ ft.raw => file' = [file EXCEPT ![ft.name].sectors = s \o read_buffer]
      /\ ~ft.raw => file' = file
  BY DEF ProcessBlock
<1>3. /\ fpc = "none" /\ Chosen /\ ft # NoItem /\ ft.name \in Names
      /\ ft.raw \in BOOLEAN /\ (ft.raw = FALSE => ft_sub = NoItem)
      /\ file[ft.name].state = "open"
      /\ ft_sub # NoItem => ft_sub.name \in Names /\ ft_sub.name # ft.name
      /\ ft \in Wholes \cup Isos
  BY <1>1, InHand DEF RipInv, ItemsInv, FramesInv, FilesInv, Making
<1>4. /\ fpc' = "running" => fargs'.left = n
      /\ ~ft.raw \/ ft_sub # NoItem => fpc' = "running"
      /\ ft.raw /\ ft_sub = NoItem => fpc' = "none"
  BY <1>3 DEF ProcessBlock, StartFrameThread, frames
<1>5. /\ read_buffer \in Runs
      /\ ~checked => read_buffer \in Outside
      /\ read_buffer # <<>> => read_buffer[1].lsn = current_lsn - n
  BY <1>1 DEF SectorsInv, BufferInv
<1>6. s \in Runs /\ (~checked => s \in Outside)
  BY <1>3 DEF SectorsInv, RunsInv
<1>7. /\ Len(s) \in Nat /\ n \in Nat /\ s \in Seq(Sector)
      /\ read_buffer \in Seq(Sector)
  BY <1>5, <1>6, RunFacts
<1>8. ft.start \in Nat /\ current_lsn \in Nat
  BY <1>3, ItemLength DEF RipInv, TypeOK
<1>9. /\ Len(s) + n = current_lsn - ft.start
      /\ s # <<>> => s[1].lsn = ft.start
  <2>1. Behind = n
    BY <1>1 DEF Behind, Pending
  <2> QED BY <1>3, <2>1 DEF SectorsInv, HeldInv
<1>10. BlockInv' /\ BufferInv' /\ PlaceInv' /\ DoneInv'
  <2>1. Runs' = Runs /\ Outside' = Outside
    BY <1>1, RunsFixed
  <2> QED BY <1>1, <2>1 DEF SectorsInv, BlockInv, BufferInv, PlaceInv,
                            DoneInv, Making
<1>11. ASSUME ft.raw
       PROVE  /\ RunsInv' /\ StartsInv' /\ KeptFilesWhole'
              /\ file'[ft.name].sectors = s \o read_buffer
              /\ \A m \in Names : file'[m].state = file[m].state
              /\ \A m \in Names : m # ft.name => file'[m] = file[m]
              /\ s \o read_buffer # <<>> =>
                   (s \o read_buffer)[1].lsn = ft.start
  <2> DEFINE t == s \o read_buffer
  <2>1. s # <<>> /\ read_buffer # <<>> =>
          read_buffer[1].lsn = s[1].lsn + Len(s)
    <3>1. /\ Len(s) \in Nat /\ n \in Nat /\ ft.start \in Nat
          /\ current_lsn \in Nat /\ Len(s) + n = current_lsn - ft.start
      BY <1>7, <1>8, <1>9
    <3>2. current_lsn - n = ft.start + Len(s)
      <4> HIDE DEF s, n
      <4> QED BY <3>1
    <3> QED BY <1>5, <1>9, <3>2
  <2>2. /\ t \in Runs /\ (~checked => t \in Outside)
        /\ t # <<>> => t[1] = IF s = <<>> THEN read_buffer[1] ELSE s[1]
    BY <1>5, <1>6, <2>1, RunsMeet
  <2>3. t # <<>> => t[1].lsn = ft.start
    <3>1. CASE s = <<>>
      <4>1. Len(s) = 0
        BY <3>1
      <4>2. t # <<>> => read_buffer # <<>>
        BY <1>7, <3>1
      <4>3. current_lsn - n = ft.start
        BY <1>7, <1>8, <1>9, <4>1
      <4> QED BY <1>5, <2>2, <3>1, <4>2, <4>3
    <3>2. CASE s # <<>>
      BY <1>9, <2>2, <3>2
    <3> QED BY <3>1, <3>2
  <2>4. file' = [file EXCEPT ![ft.name].sectors = t]
    BY <1>2, <1>11
  <2> HIDE DEF t
  <2>5. /\ RunsInv' /\ StartsInv' /\ KeptFilesWhole'
        /\ file'[ft.name].sectors = t
        /\ \A m \in Names : file'[m].state = file[m].state
        /\ \A m \in Names : m # ft.name => file'[m] = file[m]
    BY <1>1, <1>3, <2>2, <2>3, <2>4, Grown
  <2> QED BY <2>3, <2>5 DEF t
<1>12. ASSUME ~ft.raw
       PROVE  RunsInv' /\ StartsInv' /\ KeptFilesWhole'
  <2>1. file' = file
    BY <1>2, <1>12
  <2> QED BY <1>1, <2>1, RunsAlike, KeptAlike
<1>13. UnusedInv'
  <2>1. \A m \in Names : file'[m].state = file[m].state
    BY <1>2, <1>11
  <2> QED BY <1>1, <2>1, UnusedKept DEF Making
<1>14. HeldInv'
  <2>1. CASE ~ft.raw
    <3>1. Behind' = n
      BY <1>1, <1>4, <2>1 DEF Behind, Pending
    <3> QED BY <1>1, <1>2, <1>3, <1>9, <2>1, <3>1 DEF HeldInv
  <2>2. CASE ft.raw
    <3>1. Behind' = 0
      BY <1>1, <2>2 DEF Behind
    <3>2. Len(s \o read_buffer) + 0 = current_lsn - ft.start
      BY <1>7, <1>9
    <3>3. ft' # NoItem /\ file'[ft'.name].state = "open" =>
            LET r == file'[ft'.name].sectors
            IN /\ Len(r) + Behind' = current_lsn' - ft'.start
               /\ r # <<>> => r[1].lsn = ft'.start
      BY <1>1, <1>11, <2>2, <3>1, <3>2
    <3>4. ft_sub # NoItem => file'[ft_sub.name] = file[ft_sub.name]
      BY <1>3, <1>11, <2>2
    <3>5. ft_sub # NoItem => Pending' = Pending
      BY <1>1, <1>4 DEF Pending
    <3> QED BY <1>1, <3>3, <3>4, <3>5 DEF SectorsInv, HeldInv
  <2> QED BY <2>1, <2>2
<1> QED
  BY <1>10, <1>11, <1>12, <1>13, <1>14 DEF SectorsInv

(* The frame thread writes the next sector of the block.                   *)
LEMMA ProcessSectorSectors ==
    ASSUME RipInv, SectorsInv, ppc # "crashed", ProcessSector
    PROVE  SectorsInv'
<1> DEFINE n == fargs.name
           k == Len(read_buffer) - fargs.left + 1
           s == file[n].sectors
           t == s \o <<read_buffer[k]>>
<1>1. /\ fpc = "running" /\ fargs.left > 0 /\ fpc' = "running"
      /\ fargs' = [fargs EXCEPT !.left = @ - 1]
      /\ UNCHANGED <<disc, request, mpc, stop_processing, current_lsn,
                     end_lsn, ft, ft_sub, queue, buf, encrypted, read_buffer,
                     checked, non_encrypted_disc, ppc>>
  BY DEF ProcessSector, control, flags, place, block
<1>2. /\ n = FrameFile /\ fargs.left <= Len(read_buffer)
      /\ file[n].state = "open" /\ (ft.raw => ft_sub # NoItem)
      /\ ppc \in {"loop", "joinRead", "joinEnd", "check"}
  BY <1>1 DEF RipInv, FramesInv
<1>3. /\ fargs.left \in Nat /\ fargs'.left = fargs.left - 1
      /\ current_lsn \in Nat /\ Chosen /\ ft # NoItem
  <2>1. fargs \in [name : Names \cup {NoItem.name}, left : 0 .. MaxBlock]
        /\ MaxBlock \in Nat
    BY RipAssumption DEF RipInv, TypeOK
  <2> QED BY <1>1, <1>2, <2>1 DEF RipInv, TypeOK, ItemsInv
<1>4. /\ n \in Names /\ ft.name \in Names
      /\ ft_sub # NoItem => ft_sub.name \in Names /\ ft_sub.name # ft.name
                            /\ ft_sub \in Wholes
      /\ ft.raw \in BOOLEAN /\ (ft.raw = FALSE => ft_sub = NoItem)
      /\ ft \in Wholes \cup Isos
  BY <1>2, <1>3, InHand DEF RipInv, FrameFile
<1>5. /\ read_buffer \in Runs
      /\ ~checked => read_buffer \in Outside
      /\ read_buffer # <<>> =>
           read_buffer[1].lsn = current_lsn - Len(read_buffer)
  BY <1>1 DEF SectorsInv, BufferInv
<1>6. k \in DOMAIN read_buffer
  BY <1>1, <1>2, <1>3, <1>5, RunFacts
<1>7. read_buffer[k].lsn = current_lsn - fargs.left
  <2>1. /\ read_buffer[k].lsn = read_buffer[1].lsn + k - 1
        /\ Len(read_buffer) \in Nat /\ read_buffer # <<>>
    BY <1>5, <1>6, RunFacts
  <2>2. read_buffer[1].lsn = current_lsn - Len(read_buffer)
    BY <1>5, <2>1
  <2>3. (current_lsn - Len(read_buffer)) + k - 1 = current_lsn - fargs.left
    BY <1>3, <2>1
  <2> HIDE DEF k
  <2> QED BY <2>1, <2>2, <2>3
<1>8. s \in Runs /\ (~checked => s \in Outside)
  BY <1>4 DEF SectorsInv, RunsInv
<1>9. /\ <<read_buffer[k]>> \in Runs
      /\ ~checked => <<read_buffer[k]>> \in Outside
      /\ <<read_buffer[k]>> # <<>> /\ <<read_buffer[k]>>[1] = read_buffer[k]
  BY <1>5, <1>6, OneOfRun
<1>10. Pending = fargs.left /\ Pending' = fargs.left - 1
  BY <1>1, <1>2, <1>3 DEF Pending
<1>11. file' = [file EXCEPT ![n].sectors = t]
  <2>1. file' = [file EXCEPT ![n].sectors = Append(s, read_buffer[k])]
    BY DEF ProcessSector
  <2>2. s \in Seq(Sector) /\ read_buffer[k] \in Sector
    BY <1>5, <1>6, <1>8, RunFacts
  <2>3. Append(s, read_buffer[k]) = t
    <3> HIDE DEF s, k
    <3> QED BY <2>2
  <2> QED BY <2>1, <2>3
<1>12. Len(s) \in Nat /\ Len(t) = Len(s) + 1
  <2>1. s \in Seq(Sector) /\ read_buffer[k] \in Sector
    BY <1>5, <1>6, <1>8, RunFacts
  <2> HIDE DEF s, k
  <2> QED BY <2>1
<1> DEFINE first == current_lsn - Pending - Len(s)
<1>13. /\ s # <<>> => s[1].lsn = first
       /\ \/ n = ft.name /\ first = ft.start /\ ~ft.raw
          \/ ft_sub # NoItem /\ n = ft_sub.name
               /\ first \in ft_sub.start .. ft_sub.start + 1
  <2>1. CASE ~ft.raw
    <3>1. n = ft.name
      BY <1>2, <2>1 DEF FrameFile
    <3>2. Behind = Pending /\ ft.start \in Nat
      BY <1>3, <1>4, <2>1, ItemLength DEF Behind
    <3>3. /\ Len(s) + Pending = current_lsn - ft.start
          /\ s # <<>> => s[1].lsn = ft.start
      BY <1>2, <1>3, <3>1, <3>2 DEF SectorsInv, HeldInv
    <3>4. first = ft.start
      <4>1. /\ Len(s) \in Nat /\ Pending \in Nat /\ ft.start \in Nat
            /\ current_lsn \in Nat /\ Len(s) + Pending = current_lsn - ft.start
        BY <1>3, <1>10, <1>12, <3>2, <3>3
      <4> HIDE DEF s
      <4> QED BY <4>1
    <3> QED BY <2>1, <3>1, <3>3, <3>4
  <2>2. CASE ft.raw
    <3>1. n = ft_sub.name /\ ft_sub # NoItem
      BY <1>2, <2>2 DEF FrameFile
    <3> QED BY <1>2, <3>1 DEF SectorsInv, HeldInv
  <2> QED BY <2>1, <2>2
<1>14. /\ t \in Runs /\ (~checked => t \in Outside)
       /\ t[1].lsn = first
  <2>1. s # <<>> => read_buffer[k].lsn = s[1].lsn + Len(s)
    <3>1. first + Len(s) = current_lsn - fargs.left
      <4> HIDE DEF s
      <4> QED BY <1>3, <1>10, <1>12
    <3> QED BY <1>7, <1>13, <3>1
  <2>2. /\ t \in Runs /\ (~checked => t \in Outside)
        /\ t # <<>> => t[1] = IF s = <<>> THEN read_buffer[k] ELSE s[1]
    BY <1>8, <1>9, <2>1, RunsMeet
  <2>3. t # <<>>
    BY <1>12
  <2>4. s = <<>> => read_buffer[k].lsn = first
    <3> SUFFICES ASSUME s = <<>> PROVE read_buffer[k].lsn = first
      OBVIOUS
    <3>1. Len(s) = 0
      OBVIOUS
    <3>2. current_lsn - Pending - 0 = current_lsn - fargs.left
      BY <1>3, <1>10
    <3> QED BY <1>7, <3>1, <3>2
  <2> QED BY <1>13, <2>2, <2>3, <2>4
<1> HIDE DEF t, first
<1>15. /\ RunsInv' /\ StartsInv' /\ KeptFilesWhole'
       /\ file'[n].sectors = t
       /\ \A m \in Names : file'[m].state = file[m].state
       /\ \A m \in Names : m # n => file'[m] = file[m]
  BY <1>1, <1>2, <1>3, <1>4, <1>11, <1>13, <1>14, Grown
<1>16. UnusedInv'
  BY <1>1, <1>2, <1>15, UnusedKept
<1>17. BlockInv' /\ BufferInv' /\ PlaceInv'
  <2>1. Runs' = Runs /\ Outside' = Outside
    BY <1>1, RunsFixed
  <2> QED BY <1>1, <2>1 DEF SectorsInv, BlockInv, BufferInv, PlaceInv, InArea
<1>18. DoneInv'
  <2>1. ppc = "check" => stop_processing = 1
    BY <1>1 DEF RipInv, FramesInv
  <2> QED BY <1>1, <2>1 DEF DoneInv
<1>19. current_lsn' - Pending' - Len(t) = first
  <2>1. current_lsn - (fargs.left - 1) - (Len(s) + 1)
          = current_lsn - fargs.left - Len(s)
    <3> HIDE DEF s
    <3> QED BY <1>3, <1>12
  <2> QED BY <1>1, <1>10, <1>12, <2>1 DEF first
<1>20. HeldInv'
  <2>1. CASE n = ft.name /\ first = ft.start /\ ~ft.raw
    <3>1. Behind' = Pending' /\ ft_sub = NoItem
      BY <1>1, <1>4, <2>1 DEF Behind
    <3>2. Len(t) + Pending' = current_lsn' - ft.start
      <4>1. ft.start \in Nat
        BY <1>3, <1>4, ItemLength
      <4>2. Len(t) + (fargs.left - 1) = current_lsn - ft.start
        <5>1. current_lsn - (fargs.left - 1) - Len(t) = ft.start
          BY <1>1, <1>10, <1>19, <2>1
        <5>2. Len(t) \in Nat
          BY <1>12
        <5> QED BY <1>3, <4>1, <5>1, <5>2
      <4> QED BY <1>1, <1>10, <4>2
    <3> QED BY <1>1, <1>14, <1>15, <2>1, <3>1, <3>2 DEF HeldInv
  <2>2. CASE ft_sub # NoItem /\ n = ft_sub.name
               /\ first \in ft_sub.start .. ft_sub.start + 1
    <3>1. ft.raw /\ ppc # "process"
      BY <1>2, <1>4, <2>2
    <3>2. Behind' = Behind
      BY <1>1, <3>1 DEF Behind
    <3>3. file'[ft.name] = file[ft.name]
      BY <1>4, <1>15, <2>2
    <3> QED BY <1>1, <1>14, <1>15, <1>19, <2>2, <3>2, <3>3
            DEF SectorsInv, HeldInv
  <2> QED BY <1>13, <2>1, <2>2
<1> QED
  BY <1>15, <1>16, <1>17, <1>18, <1>20 DEF SectorsInv

LEMMA InitSectors == Init => SectorsInv
<1> SUFFICES ASSUME Init PROVE SectorsInv
  OBVIOUS
<1>1. RipInv
  BY InitInv
<1>2. /\ mpc = "enqueue" /\ queue = <<>> /\ ppc = "none" /\ fpc = "none"
      /\ ft = NoItem /\ ft_sub = NoItem /\ buf = <<>>
      /\ file = [n \in Names |-> [state |-> "none", sectors |-> <<>>]]
  BY DEF Init
<1>3. \A n \in Names : file[n].state = "none" /\ file[n].sectors = <<>>
  BY <1>2
<1>4. <<>> \in Runs /\ <<>> \in Outside
  BY DEF Runs, Outside
<1>5. \A x \in Items : x.name \in Names
  BY <1>1, KnownNames DEF RipInv, ItemsInv
<1>6. UnusedInv /\ RunsInv /\ StartsInv /\ KeptFilesWhole
  BY <1>2, <1>3, <1>4, <1>5
     DEF UnusedInv, Untouched, RunsInv, StartsInv, KeptFilesWhole, Making
<1>7. BlockInv /\ BufferInv /\ PlaceInv /\ DoneInv /\ HeldInv
  BY <1>2 DEF BlockInv, BufferInv, PlaceInv, DoneInv, HeldInv, Making
<1> QED
  BY <1>6, <1>7 DEF SectorsInv

(* Whatever the disc, the request and the size of the blocks, and however  *)
(* reading, writing and ^C fall together: files, buffers and the place are *)
(* as SectorsInv says.                                                     *)
THEOREM SectorsInvariance == Spec => []SectorsInv
<1>1. RipInv /\ SectorsInv /\ [Next]_vars => SectorsInv'
  <2> SUFFICES ASSUME RipInv, SectorsInv, [Next]_vars PROVE SectorsInv'
    OBVIOUS
  <2>1. CASE Main
    BY <2>1, EnqueueSectors, WaitingSectors DEF Main
  <2>2. CASE handle_sigint
    BY <2>2, WaitingSectors
  <2>3. CASE ProcessingThread
    BY <2>3, WaitingSectors, NextItemSectors, CreateFileSectors,
       CreateFailsSectors, LoopAtEndSectors, ReadBlockSectors,
       CopyBlockSectors, ProcessBlockSectors, FinishSubSectors,
       GapBeforeSubSectors, StartSubSectors, StartSubFailsSectors,
       NoMoreSubsSectors, CancelSectors, FinishItemSectors
       DEF ProcessingThread
  <2>4. CASE FrameThread
    BY <2>4, ProcessSectorSectors, WaitingSectors DEF FrameThread
  <2>5. CASE UNCHANGED vars
    BY <2>5, WaitingSectors
  <2> QED BY <2>1, <2>2, <2>3, <2>4, <2>5 DEF Next
<1> QED
  BY InitSectors, <1>1, RipInvariance, PTL DEF Spec

LEMMA SectorIs ==
    ASSUME NEW x \in Sector, NEW l, NEW c \in BOOLEAN, x.lsn = l, x.clear = c
    PROVE  x = [lsn |-> l, clear |-> c]
  BY DEF Sector

(* What a file holds is a run of consecutive sectors from its first one    *)
(* on, each decrypted exactly when it must be, for every disc, request and *)
(* size of the blocks: overlapping reading and frame processing loses,     *)
(* doubles and swaps none, and no verdict comes too late.                  *)
THEOREM InOrderOnDisk == Spec => []SectorsInOrder
<1>1. RipInv /\ SectorsInv => SectorsInOrder
  <2> SUFFICES ASSUME RipInv, SectorsInv, NEW item \in Items,
                      file[item.name].sectors # <<>>
               PROVE  LET s == file[item.name].sectors
                      IN /\ s[1].lsn - item.start \in
                              IF request.mode = "concurrent" /\ ~item.raw
                              THEN 0 .. 1 ELSE {0}
                         /\ \A i \in DOMAIN s :
                              s[i] = [lsn   |-> s[1].lsn + i - 1,
                                      clear |-> InArea(s[i].lsn)
                                                  /\ ~non_encrypted_disc]
    BY DEF SectorsInOrder
  <2> DEFINE s == file[item.name].sectors
  <2>1. s \in Runs
    BY KnownNames DEF RipInv, ItemsInv, SectorsInv, RunsInv
  <2>2. ASSUME NEW i \in DOMAIN s
        PROVE  s[i] = [lsn   |-> s[1].lsn + i - 1,
                       clear |-> InArea(s[i].lsn) /\ ~non_encrypted_disc]
    <3> DEFINE c == InArea(s[i].lsn) /\ ~non_encrypted_disc
    <3>1. s[i] \in Sector /\ s[i].lsn = s[1].lsn + i - 1
      BY <2>1, RunFacts
    <3>2. s[i].clear = c
      <4>1. s[i].clear \in BOOLEAN
        BY <3>1 DEF Sector
      <4>2. s[i].clear <=> c
        BY <2>1 DEF Runs
      <4> QED BY <4>1, <4>2
    <3>3. c \in BOOLEAN
      OBVIOUS
    <3> HIDE DEF c
    <3>4. s[i] = [lsn |-> s[1].lsn + i - 1, clear |-> c]
      BY <3>1, <3>2, <3>3, SectorIs
    <3> QED BY <3>4 DEF c
  <2> QED BY <2>2 DEF SectorsInv, StartsInv
<1> QED
  BY RipInvariance, SectorsInvariance, <1>1, PTL

(* A file that is closed and kept holds every sector up to its last one,   *)
(* with the two exceptions that KeptFilesWhole names, for every disc,      *)
(* request and size of the blocks.                                         *)
THEOREM KeptWhole == Spec => []KeptFilesWhole
<1>1. SectorsInv => KeptFilesWhole
  BY DEF SectorsInv
<1> QED
  BY SectorsInvariance, <1>1, PTL
=============================================================================
