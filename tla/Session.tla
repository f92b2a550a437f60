-------------------------------- MODULE Session --------------------------------
(* One run of sacd_extract (main.c): the options, the disc, the names of the   *)
(* files and the queue with what is to be written; then the files as the rip   *)
(* makes them.  How the sectors get there is RipOutput's and TrackFiles'       *)
(* subject; here it counts which file is made, under which name, with which tag.*)
EXTENDS CueSheet, Id3Tag

CONSTANTS Argvs,        \* what is typed: sequences of [opt, arg]
          Discs, FileSystems,
          Numbers,      \* for an argument of -t the numbers in it
          Spelled,      \* the characters of an output file's name
          SELECTABLE    \* the tracks that can be selected, 256

VARIABLES argv, optind, opts,
          phase,        \* where main is; "over" and "crashed" are the ends
          disc, files, dirs,
          area_idx, albumdir,
          j,            \* the area that is next
          queue,        \* output->ripping_queue
          next,         \* the item whose file is made next, and which of its subs
          made          \* the files that were made, in their order

inputVars == <<argv, disc>>
fsVars == <<files, dirs, made>>
vars == <<inputVars, optind, opts, phase, fsVars, area_idx, albumdir, j, queue, next>>

NoPath == NoText

-----------------------------------------------------------------------------
(* Options                                                                     *)

NewOpts ==
  [two_channel |-> FALSE, multi_channel |-> FALSE, output_dsf |-> FALSE, output_iso |-> FALSE,
   output_dir |-> NoPath, output_dir_conc |-> NoPath, concurrent |-> FALSE, output_dsdiff |-> FALSE,
   output_dsdiff_em |-> FALSE, convert_dst |-> FALSE, export_cue_sheet |-> FALSE, print |-> FALSE,
   dsf_nopad |-> FALSE, version |-> FALSE, select_tracks |-> FALSE, selected_tracks |-> {},
   output_file |-> <<>>]

\* Numbers are counted from 1, and 0 is none.
Select(o, numbers) ==
  LET named == {n \in Range(numbers) : n # 0}
  IN [o EXCEPT !.selected_tracks = @ \cup {(n - 1) % SELECTABLE : n \in named},
               !.select_tracks = named # {}]

\* One of the ways to write tracks, and no edit master.
ByTrack(o, dsf) ==
  [o EXCEPT !.output_dsdiff_em = FALSE, !.output_dsdiff = ~dsf, !.output_dsf = dsf]

\* A mutant: -I stays when an edit master is asked for later.
KeepsImage(o) ==
  [o EXCEPT !.output_dsdiff_em = TRUE, !.output_dsdiff = FALSE, !.output_dsf = FALSE,
            !.export_cue_sheet = TRUE]

EditMaster(o) ==
  [o EXCEPT !.output_dsdiff_em = TRUE, !.output_dsdiff = FALSE, !.output_dsf = FALSE,
            !.output_iso = FALSE, !.export_cue_sheet = TRUE]

parse_option(o, option) ==
  CASE option.opt = "2" -> [o EXCEPT !.two_channel = TRUE]
    [] option.opt = "m" -> [o EXCEPT !.multi_channel = TRUE]
    [] option.opt = "e" -> EditMaster(o)
    [] option.opt = "p" -> ByTrack(o, FALSE)
    [] option.opt = "s" -> ByTrack(o, TRUE)
    [] option.opt = "t" -> Select(o, Numbers[option.arg])
    [] option.opt = "z" -> [o EXCEPT !.dsf_nopad = TRUE]
    [] option.opt = "I" -> [o EXCEPT !.output_dsdiff_em = FALSE, !.output_iso = TRUE]
    [] option.opt = "w" -> [o EXCEPT !.concurrent = TRUE]
    [] option.opt = "c" -> [o EXCEPT !.convert_dst = TRUE]
    [] option.opt = "C" -> [o EXCEPT !.export_cue_sheet = TRUE]
    [] option.opt = "o" -> [o EXCEPT !.output_dir = <<option.arg>>]
    [] option.opt = "y" -> [o EXCEPT !.output_dir_conc = <<option.arg>>]
    [] option.opt = "P" -> [o EXCEPT !.print = TRUE]
    [] option.opt = "v" -> [o EXCEPT !.version = TRUE]
    [] option.opt = "outfile" ->
         [o EXCEPT !.output_file = IF @ = <<>> THEN Spelled[option.arg] ELSE @]
    [] OTHER -> o

ByTracks(o) == o.output_dsf \/ o.output_dsdiff

Init ==
  /\ argv \in Argvs
  /\ optind = 1
  /\ opts = NewOpts
  /\ phase = "options"
  /\ disc \in Discs
  /\ \E fs \in FileSystems[disc] : files = fs.files /\ dirs = fs.dirs
  /\ area_idx = <<>>
  /\ albumdir = <<>>
  /\ j = 1
  /\ queue = <<>>
  /\ next = [item |-> 1, sub |-> 0]
  /\ made = <<>>

\* -? and --usage end the program.
parse_options ==
  /\ phase = "options"
  /\ optind <= Len(argv)
  /\ opts' = parse_option(opts, argv[optind])
  /\ optind' = optind + 1
  /\ phase' = IF argv[optind].opt \in {"?", "u"} THEN "over" ELSE phase
  /\ UNCHANGED <<inputVars, fsVars, area_idx, albumdir, j, queue, next>>

\* The directories have to be there before anything is opened.
nogo(o) ==
  \/ o.version
  \/ o.output_dir # NoPath /\ o.output_dir \notin dirs
  \/ o.output_dir_conc # NoPath /\ o.concurrent /\ ByTracks(o) /\ o.output_dir_conc \notin dirs

CheckOptions ==
  /\ phase = "options"
  /\ optind > Len(argv)
  /\ opts' = [opts EXCEPT !.two_channel = @ \/ ~opts.multi_channel]
  /\ phase' = IF nogo(opts') THEN "over" ELSE "open"
  /\ UNCHANGED <<inputVars, optind, fsVars, area_idx, albumdir, j, queue, next>>

OpenFails ==
  /\ phase = "open"
  /\ phase' = "over"
  /\ UNCHANGED <<inputVars, optind, opts, fsVars, area_idx, albumdir, j, queue, next>>

\* The area of the disc that has these channels, if it has one.
IndexOf(kind) == SelectSeq([k \in DOMAIN disc.areas |-> k], LAMBDA k : disc.areas[k].kind = kind)

WantsOutput(o) == ByTracks(o) \/ o.output_iso \/ o.output_dsdiff_em \/ o.export_cue_sheet

OpenDisc ==
  /\ phase = "open"
  /\ phase' = IF WantsOutput(opts) THEN "cue" ELSE "over"
  /\ area_idx' = (IF opts.two_channel THEN IndexOf("stereo") ELSE <<>>)
                   \o (IF opts.multi_channel THEN IndexOf("multi") ELSE <<>>)
  /\ albumdir' = IF opts.output_file # <<>> THEN opts.output_file ELSE get_album_dir(disc.text)
  /\ UNCHANGED <<inputVars, optind, opts, fsVars, j, queue, next>>

-----------------------------------------------------------------------------
(* Names, directories and files                                                *)

n_areas == Len(area_idx)
Area(k) == disc.areas[area_idx[k]]

\* A mutant: both areas get the same name.
PlainName(k) == albumdir

\* Two areas get names of their own.
albumdir_loc(k) ==
  albumdir \o (IF n_areas = 1 THEN <<>> ELSE IF k = 1 THEN <<" ", "[stereo]">> ELSE <<" ", "[multi]">>)

Parent(path) ==
  LET slashes == {k \in DOMAIN path : path[k] = "/"}
  IN IF slashes = {} THEN <<>> ELSE SubSeq(path, 1, Max(slashes) - 1)

\* Only one directory is made, never those above it.
CanMakeDir(path) == Parent(path) \in dirs /\ path \notin dirs \cup files
mkdir_wrap(path) == dirs' = IF CanMakeDir(path) THEN dirs \cup {path} ELSE dirs

\* fopen with "wb": a file that is there is emptied.
CanCreate(path) == Parent(path) \in dirs /\ path \notin dirs
Create(path, what) ==
  /\ files' = files \cup {path}
  /\ made' = Append(made, [path |-> path] @@ what)

UniquePath(k, ext) == get_unique_path(files \cup dirs, opts.output_dir, albumdir_loc(k), ext)

\* main goes on with the path although there is none.
Crash ==
  /\ phase' = "crashed"
  /\ UNCHANGED <<inputVars, optind, opts, fsVars, area_idx, albumdir, j, queue, next>>

CueAreas == IF opts.export_cue_sheet THEN n_areas ELSE 0

\* The sheet is written before anything is queued.
ExportCue ==
  /\ phase = "cue"
  /\ j <= CueAreas
  /\ LET path == UniquePath(j, <<"cue">>)
     IN IF path = NoText THEN Crash
        ELSE /\ IF CanCreate(path)
                THEN Create(path, [handler |-> "cue", area |-> area_idx[j],
                                   sheet |-> write_cue_sheet(disc, Area(j), path)])
                ELSE UNCHANGED <<files, made>>
             /\ j' = j + 1
             /\ UNCHANGED <<inputVars, optind, opts, phase, dirs, area_idx, albumdir, queue, next>>

\* An image before an edit master, and tracks only when neither is written.
QueuePhase(o) ==
  CASE o.output_iso -> "image"
    [] ~o.output_iso /\ o.output_dsdiff_em -> "edit"
    [] ~o.output_iso /\ ~o.output_dsdiff_em /\ ByTracks(o) -> "tracks"
    [] OTHER -> "rip"

CuesDone ==
  /\ phase = "cue"
  /\ j > CueAreas
  /\ j' = 1
  /\ phase' = QueuePhase(opts)
  /\ UNCHANGED <<inputVars, optind, opts, fsVars, area_idx, albumdir, queue, next>>

-----------------------------------------------------------------------------
(* The queue                                                                   *)

\* The name in the argument is the name of a handler, or nothing is queued.
find_output_format(name) == name \in {"dsdiff", "dsdiff_edit_master", "dsf", "iso"}

Item(handler, area, track, path, dsd, nopad) ==
  [handler |-> handler, area |-> area, track |-> track, path |-> path,
   dsd_encoded_export |-> dsd, dsf_nopad |-> nopad, subs |-> <<>>]

scarletbook_output_enqueue(item) ==
  queue' = IF find_output_format(item.handler) THEN Append(queue, item) ELSE queue

QueueImage ==
  /\ phase = "image"
  /\ LET path == get_unique_path(files \cup dirs, opts.output_dir, albumdir, <<"iso">>)
     IN IF path = NoText THEN Crash
        ELSE /\ scarletbook_output_enqueue(Item("iso", 0, 0, path, FALSE, FALSE))
             /\ phase' = IF opts.concurrent /\ ByTracks(opts) THEN "tracks" ELSE "rip"
             /\ UNCHANGED <<inputVars, optind, opts, fsVars, area_idx, albumdir, j, next>>

\* DST stays as it is on the disc unless it has to become DSD.
ExportsDsd(area) == opts.convert_dst \/ ~disc.areas[area].dst

QueueEditMaster ==
  /\ phase = "edit"
  /\ j <= n_areas
  /\ LET path == UniquePath(j, <<"dff">>)
     IN IF path = NoText THEN Crash
        ELSE /\ scarletbook_output_enqueue(
                  Item("dsdiff_edit_master", area_idx[j], 0, path, ExportsDsd(area_idx[j]), FALSE))
             /\ j' = j + 1
             /\ UNCHANGED <<inputVars, optind, opts, phase, fsVars, area_idx, albumdir, next>>

\* A mutant: a list of tracks is only looked at for the first area.
SelectsFirst(area) ==
  SelectSeq([k \in DOMAIN disc.areas[area].tracks |-> k - 1],
            LAMBDA i : ~opts.select_tracks \/ i \in opts.selected_tracks \/ area # area_idx[1])

Selected(area) ==
  SelectSeq([k \in DOMAIN disc.areas[area].tracks |-> k - 1],
            LAMBDA i : ~opts.select_tracks \/ i \in opts.selected_tracks)

TrackItem(dir, area, i) ==
  LET name == get_music_filename(disc.text, disc.areas[area].tracks[i + 1], i, opts.output_file)
  IN IF opts.output_dsf
     THEN Item("dsf", area, i, make_filename(dir, NoText, name, <<"dsf">>), TRUE,
               opts.dsf_nopad /\ ~opts.select_tracks)
     ELSE Item("dsdiff", area, i, make_filename(dir, NoText, name, <<"dff">>),
               ExportsDsd(area), FALSE)

\* With an image in the queue the tracks are written beside it.
QueueTracks ==
  /\ phase = "tracks"
  /\ j <= n_areas
  /\ LET device == IF opts.output_iso THEN opts.output_dir_conc ELSE opts.output_dir
         dir == get_unique_dir(dirs, files, device, albumdir_loc(j))
         items == [k \in DOMAIN Selected(area_idx[j]) |->
                     TrackItem(dir, area_idx[j], Selected(area_idx[j])[k])]
     IN /\ mkdir_wrap(dir)
        /\ queue' = IF opts.output_iso THEN [queue EXCEPT ![1].subs = @ \o items] ELSE queue \o items
  /\ j' = j + 1
  /\ UNCHANGED <<inputVars, optind, opts, phase, files, made, area_idx, albumdir, next>>

AllQueued ==
  /\ phase \in {"edit", "tracks"}
  /\ j > n_areas
  /\ phase' = "rip"
  /\ UNCHANGED <<inputVars, optind, opts, fsVars, area_idx, albumdir, j, queue, next>>

-----------------------------------------------------------------------------
(* The rip                                                                     *)

Head0 == queue[next.item]
Next0 == IF next.sub = 0 THEN Head0 ELSE Head0.subs[next.sub]

\* The files made beside an image follow it; one that cannot be made ends them.
create_output_file ==
  /\ phase = "rip"
  /\ next.item <= Len(queue)
  /\ IF CanCreate(Next0.path)
     THEN Create(Next0.path, [handler |-> Next0.handler, area |-> Next0.area, track |-> Next0.track])
     ELSE UNCHANGED <<files, made>>
  /\ next' = IF CanCreate(Next0.path) /\ next.sub < Len(Head0.subs)
             THEN [next EXCEPT !.sub = @ + 1] ELSE [item |-> next.item + 1, sub |-> 0]
  /\ UNCHANGED <<inputVars, optind, opts, phase, dirs, area_idx, albumdir, j, queue>>

scarletbook_output_destroy ==
  /\ phase = "rip"
  /\ next.item > Len(queue)
  /\ phase' = "over"
  /\ UNCHANGED <<inputVars, optind, opts, fsVars, area_idx, albumdir, j, queue, next>>

Ended == phase \in {"over", "crashed"} /\ UNCHANGED vars

Next ==
  \/ parse_options \/ CheckOptions \/ OpenFails \/ OpenDisc \/ ExportCue \/ CuesDone
  \/ QueueImage \/ QueueEditMaster \/ QueueTracks \/ AllQueued
  \/ create_output_file \/ scarletbook_output_destroy \/ Ended

Spec == Init /\ [][Next]_vars
-----------------------------------------------------------------------------
(* Properties                                                                  *)

(* Whether a name is free is asked when a file is queued, and the file is made *)
(* during the rip, when others have been made (get_unique_path, get_unique_dir,*)
(* create_output_file): no file that is made empties one that is there, be it  *)
(* from before or of this run.                                                 *)
NothingOverwritten == [][made' # made => Last(made').path \notin files]_vars

(* What is asked for, read from the command line alone. *)
LastOf(S) ==
  LET given == {k \in DOMAIN argv : argv[k].opt \in S}
  IN IF given = {} THEN "none" ELSE argv[Max(given)].opt
Given(opt) == LastOf({opt}) = opt

AskedImage == LastOf({"I", "e"}) = "I"
AskedEdit == LastOf({"e", "p", "s", "I"}) = "e"
AskedTracks == LastOf({"e", "p", "s"}) \in {"p", "s"}
AskedKinds ==
  SelectSeq(<<"stereo", "multi">>,
            LAMBDA kind : IF kind = "multi" THEN Given("m") ELSE Given("2") \/ ~Given("m"))
AskedAreas == FlattenSeq([k \in DOMAIN AskedKinds |-> IndexOf(AskedKinds[k])])
AskedNumbers == UNION {Range(Numbers[argv[k].arg]) : k \in {k \in DOMAIN argv : argv[k].opt = "t"}} \ {0}

(* An empty list after one that names tracks takes the selection back. *)
SensibleSelection ==
  AskedNumbers # {} =>
    LET k == Max({k \in DOMAIN argv : argv[k].opt = "t"})
    IN \E n \in Range(Numbers[argv[k].arg]) : n # 0

Outline(item) ==
  <<item.handler, item.area, item.track, item.dsd_encoded_export, item.dsf_nopad>>
AskedDsd(a) == ~disc.areas[a].dst \/ Given("c")
AskedItems(a) ==
  LET wanted == {n \in 1..Len(disc.areas[a].tracks) : AskedNumbers = {} \/ n \in AskedNumbers}
      numbers == SetToSortSeq(wanted, <)
  IN [k \in DOMAIN numbers |->
        IF LastOf({"p", "s"}) = "s"
        THEN <<"dsf", a, numbers[k] - 1, TRUE, Given("z") /\ AskedNumbers = {}>>
        ELSE <<"dsdiff", a, numbers[k] - 1, AskedDsd(a), FALSE>>]
AskedFiles ==
  (IF AskedImage THEN << <<"iso", 0, 0, FALSE, FALSE>> >> ELSE <<>>)
    \o (IF AskedEdit THEN [k \in DOMAIN AskedAreas |->
                             <<"dsdiff_edit_master", AskedAreas[k], 0, AskedDsd(AskedAreas[k]), FALSE>>]
        ELSE <<>>)
    \o (IF AskedTracks THEN FlattenSeq([k \in DOMAIN AskedAreas |-> AskedItems(AskedAreas[k])]) ELSE <<>>)

(* An image and what is written beside it, one after the other. *)
QueuedFiles == FlattenSeq([k \in DOMAIN queue |-> <<queue[k]>> \o queue[k].subs])

(* An image is written alone unless -w is given, whatever else is asked for:   *)
(* main drops the tracks of -s and -p then, and says nothing (main.c:475, :556). *)
LeftOut == AskedImage /\ ~Given("w")

(* Every file is queued that the options ask for, once and in the order of the *)
(* areas and their tracks, but for the tracks that an image without -w leaves  *)
(* out; those made with one image hang on it (parse_options and main).         *)
QueueAsAsked ==
  phase = "rip" /\ SensibleSelection =>
    /\ [k \in DOMAIN QueuedFiles |-> Outline(QueuedFiles[k])]
         = IF LeftOut THEN SubSeq(AskedFiles, 1, 1) ELSE AskedFiles
    /\ AskedImage => Len(queue) = 1

SheetsMade == SelectSeq(made, LAMBDA f : f.handler = "cue")
InFrames(index) == TIME_FRAMECOUNT(index)

(* A sheet is made only where it is asked for.  Its FILE line has the name of  *)
(* the sheet, which main passes for the sound too (main.c:438); an INDEX 00    *)
(* fills the gap after the track before.                                       *)
SheetsRight ==
  \A f \in Range(SheetsMade) :
    LET tracks == disc.areas[f.area].tracks
    IN /\ Given("C") \/ Given("e")
       /\ f.sheet.file = cue_escape(f.path)
       /\ \A k \in DOMAIN f.sheet.tracks :
            LET line == f.sheet.tracks[k]
            IN line.index_00.given =>
                 /\ InFrames(line.index_00) < InFrames(line.index_01)
                 /\ k > 1 => InFrames(line.index_00) - InFrames(f.sheet.tracks[k - 1].index_01)
                               = InFrames(tracks[k - 1].duration)

(* What a reader finds in a tag.  *)
TextOf(tag, id) ==
  LET found == {k \in DOMAIN tag.frames : tag.frames[k].id = id}
  IN IF Cardinality(found) # 1 THEN NoText ELSE Tail(tag.frames[CHOOSE k \in found : TRUE].data)
Shown(text) == IF text = NoText THEN NoText ELSE charset_convert(text)

(* The library reads from the tag of a file what the disc says of its track,   *)
(* to the last byte, unless a frame is longer than its buffer: then it refuses *)
(* the tag that it has written (id3_write_tag, id3_read_tag, id3_read_mem).    *)
TagReadsBack(area, track) ==
  LET mem == scarletbook_id3_tag_render(disc, disc.areas[area], track)
      tag == id3_open_mem(mem)
      long == \E frame \in Range(TagOf(disc, disc.areas[area], track).frames) :
                Len(frame.data) > ID3_FD_BUFSIZE
      t == disc.areas[area].tracks[track + 1]
      album == {text \in {disc.text.album_title, disc.text.disc_title} : text # NoText}
  IN /\ tag.failed <=> long
     /\ ~long =>
          /\ tag.ptr = Len(mem)
          /\ TextOf(tag, "TRCK") = Of(track + 1, Len(disc.areas[area].tracks))
          /\ TextOf(tag, "TSRC") = t.isrc
          /\ TextOf(tag, "TCOM") = Shown(t.composer)
          /\ TextOf(tag, "TIT2") \in
               IF t.title # NoText THEN {Shown(t.title)}
               ELSE IF album # {} THEN {Shown(text) : text \in album} ELSE {NoText}
          /\ t.performer # NoText => TextOf(tag, "TPE1") = Shown(t.performer)

TagsReadBack ==
  \A f \in Range(made) :
    /\ f.handler \in {"dsf", "dsdiff"} => TagReadsBack(f.area, f.track)
    /\ f.handler = "dsdiff_edit_master" =>
         \A k \in DOMAIN disc.areas[f.area].tracks : TagReadsBack(f.area, k - 1)

(* The tracks of two areas are never in one directory. *)
AreasApart ==
  \A f, g \in Range(made) :
    {f.handler, g.handler} \subseteq {"dsf", "dsdiff"} /\ f.area # g.area => Parent(f.path) # Parent(g.path)

(* A run in which no name was used up ends with what its options ask for.      *)
OptionsHonoured ==
  /\ QueueAsAsked
  /\ phase = "over" => SheetsRight /\ TagsReadBack /\ AreasApart
===============================================================================
