------------------------------- MODULE CueSheet -------------------------------
(* What a cue sheet says of the tracks of an area (cuesheet.c): the lines are   *)
(* records, a line that is left out is NoText.                                 *)
EXTENDS FileNames

SACD_FRAME_RATE == 75
TIME_FRAMECOUNT(m) == m.minutes * 60 * SACD_FRAME_RATE + m.seconds * SACD_FRAME_RATE + m.frames

NoIndex == [minutes |-> 0, seconds |-> 0, frames |-> 0, given |-> FALSE]
Index(m) == [minutes |-> m.minutes, seconds |-> m.seconds, frames |-> m.frames, given |-> TRUE]

cue_escape(src) ==
  IF src = NoText THEN NoText ELSE trim_whitespace(str_replace(src, <<"\"">>, <<"\\", "\"">>))

\* INDEX 00 is where the track before has ended.
PrevIndex(prev_abs_end) ==
  LET prev_sec == prev_abs_end \div SACD_FRAME_RATE
  IN Index([minutes |-> prev_sec \div 60, seconds |-> prev_sec % 60,
            frames |-> prev_abs_end % SACD_FRAME_RATE])

\* A mutant: the end of the track before is taken to be its length.
EndIsLength(tracks, k) == IF k = 1 THEN 0 ELSE TIME_FRAMECOUNT(tracks[k - 1].duration)

prev_abs_end(tracks, k) ==
  IF k = 1 THEN 0
  ELSE TIME_FRAMECOUNT(tracks[k - 1].start) + TIME_FRAMECOUNT(tracks[k - 1].duration)

CueTrack(tracks, k) ==
  [track |-> k, title |-> cue_escape(tracks[k].title), performer |-> cue_escape(tracks[k].performer),
   isrc |-> tracks[k].isrc, index_01 |-> Index(tracks[k].start),
   index_00 |-> IF TIME_FRAMECOUNT(tracks[k].start) > prev_abs_end(tracks, k)
                THEN PrevIndex(prev_abs_end(tracks, k)) ELSE NoIndex]

\* main gives the path of the sheet itself as the file that it describes.
write_cue_sheet(disc, area, filename) ==
  [genre |-> disc.genre, year |-> disc.year, month |-> disc.month, day |-> disc.day,
   performer |-> cue_escape(disc.text.disc_artist), title |-> cue_escape(disc.text.disc_title),
   catalog |-> disc.catalog, file |-> cue_escape(filename),
   tracks |-> [k \in DOMAIN area.tracks |-> CueTrack(area.tracks, k)]]
===============================================================================
