------------------------------ MODULE FileNames ------------------------------
(* How the names of directories and files are made from the texts of a disc   *)
(* (utils.c, fileutils.c, scarletbook_helpers.c).  A name is a sequence of     *)
(* characters; a character is as many bytes of UTF-8 as Width says.  A text    *)
(* that the disc does not have is NoText.                                      *)
EXTENDS Naturals, Sequences, SequencesExt, FiniteSets, FiniteSetsExt

CONSTANTS Width(_),      \* the bytes of a character
          Invalid,       \* bytes that begin no character of UTF-8
          UnsafeInPath,  \* what no path may have, but for "/"
          NoText,
          MAX_NAME,      \* MAX_DISC_ARTIST_LEN and the others, which are the same
          NUMBERED,      \* the last track whose number has two digits
          TRIES          \* how many names get_unique_path tries

-----------------------------------------------------------------------------
(* utils.c                                                                     *)

\* Each occurrence of from, the first one first, becomes to.
RECURSIVE str_replace(_, _, _)
str_replace(src, from, to) ==
  LET matches == {k \in 1..(Len(src) + 1 - Len(from)) : SubSeq(src, k, k + Len(from) - 1) = from}
  IN IF matches = {} THEN src
     ELSE LET k == Min(matches)
          IN SubSeq(src, 1, k - 1) \o to
               \o str_replace(SubSeq(src, k + Len(from), Len(src)), from, to)

TwoSpaces == <<" ", " ">>
RECURSIVE replace_double_space_with_single(_)
replace_double_space_with_single(str) ==
  LET once == str_replace(str, TwoSpaces, <<" ">>)
  IN IF \E k \in 1..(Len(once) - 1) : SubSeq(once, k, k + 1) = TwoSpaces
     THEN replace_double_space_with_single(once) ELSE once

\* Neither end of what is left is c.
Trimmed(s, c) ==
  LET kept == {k \in DOMAIN s : s[k] # c}
  IN IF kept = {} THEN <<>> ELSE SubSeq(s, Min(kept), Max(kept))
trim_whitespace(s) == Trimmed(s, " ")

-----------------------------------------------------------------------------
(* fileutils.c                                                                 *)

Blanked(f, unsafe) == [k \in DOMAIN f |-> IF f[k] \in unsafe THEN " " ELSE f[k]]

sanitize_filename(f) ==
  trim_whitespace(replace_double_space_with_single(Blanked(f, UnsafeInPath \cup {"/"})))

trim_dots(s) == Trimmed(s, ".")

sanitize_filepath(f) ==
  trim_whitespace(trim_dots(trim_whitespace(
    replace_double_space_with_single(Blanked(f, UnsafeInPath)))))

\* Parameters that are NULL add nothing.
make_filename(path, dir, file, extension) ==
  (IF path = NoText THEN <<>> ELSE Append(path, "/"))
    \o (IF dir = NoText THEN <<>> ELSE Append(sanitize_filepath(dir), "/"))
    \o (IF file = NoText THEN <<>> ELSE sanitize_filename(file))
    \o (IF extension = NoText THEN <<>> ELSE <<".">> \o extension)

\* f has what the letters stand for; a track after NUMBERED leaves nothing.
parse_format(format, f) ==
  LET part(c) ==
        CASE c = "%A" -> f.artist
          [] c = "%L" -> f.album
          [] c = "%N" -> IF f.tracknum \in 1..NUMBERED THEN <<ToString(f.tracknum)>> ELSE <<>>
          [] c = "%T" -> f.title
          [] OTHER -> <<c>>
  IN FlattenSeq([k \in DOMAIN format |-> part(format[k])])

\* The i-th name that is tried.
Try(name, i) == IF i = 0 THEN name ELSE name \o <<" ", "(" \o ToString(i) \o ")">>

get_unique_path(exists, dir, file, ext) ==
  LET path(i) == make_filename(dir, NoText, Try(file, i), ext)
      free == {i \in 0..(TRIES - 1) : path(i) \notin exists}
  IN IF free = {} THEN NoText ELSE path(Min(free))

\* With a device the path that is tested ends in "/", so that only a directory
\* is found; without one the name is taken as it is, and a file is found too.
get_unique_dir(dirs, files, device, dir) ==
  LET path(i) == IF device = NoText THEN Try(dir, i)
                 ELSE Front(make_filename(device, Try(dir, i), NoText, NoText))
      taken == IF device = NoText THEN dirs \cup files ELSE dirs
      free == {i \in 0..Cardinality(taken) : path(i) \notin taken}
  IN path(Min(free))

-----------------------------------------------------------------------------
(* scarletbook_helpers.c                                                       *)

Bytes(s) == FoldSeq(LAMBDA c, n : n + Width(c), 0, s)

\* Whole characters as long as they fit in n bytes; an invalid one ends it.
utf8cpy(src, n) ==
  SubSeq(src, 1, Max({k \in 0..Len(src) :
    LET s == SubSeq(src, 1, k) IN Bytes(s) <= n /\ Range(s) \cap Invalid = {}}))

First(texts) == IF \A k \in DOMAIN texts : texts[k] = NoText THEN NoText
                ELSE texts[Min({k \in DOMAIN texts : texts[k] # NoText})]
Artist(t) == First(<<t.album_artist, t.album_artist_phonetic, t.disc_artist, t.disc_artist_phonetic>>)
AlbumTitle(t) == First(<<t.album_title, t.album_title_phonetic, t.disc_title, t.disc_title_phonetic>>)

\* What comes before the first ";" and fits.
Leading(text) ==
  IF text = NoText THEN <<>>
  ELSE LET ends == {k \in DOMAIN text : text[k] = ";"}
           before == IF ends = {} THEN text ELSE SubSeq(text, 1, Min(ends) - 1)
       IN sanitize_filename(utf8cpy(before, MAX_NAME))
Cut(text) == IF text = NoText THEN <<>> ELSE sanitize_filename(utf8cpy(text, MAX_NAME))

Dash == <<" ", "-", " ">>

get_album_dir(t) ==
  LET artist == Leading(Artist(t))
      album == Leading(AlbumTitle(t))
      format == CASE artist # <<>> /\ album # <<>> -> <<"%A">> \o Dash \o <<"%L">>
                  [] artist # <<>> /\ album = <<>> -> <<"%A">>
                  [] artist = <<>> /\ album # <<>> -> <<"%L">>
                  [] OTHER -> <<"Unknown Album">>
  IN sanitize_filepath(parse_format(format,
       [artist |-> artist, album |-> album, tracknum |-> 0, title |-> <<>>]))

\* track is the text of a track whose number, from 0, is n.
get_music_filename(t, track, n, override_title) ==
  LET artist == Cut(track.performer)
      title == Cut(track.title)
      album == Leading(AlbumTitle(t))
      rest == CASE override_title # <<>> -> <<"%T">>
                [] override_title = <<>> /\ artist # <<>> /\ title # <<>> -> <<"%A">> \o Dash \o <<"%T">>
                [] override_title = <<>> /\ artist # <<>> /\ title = <<>> -> <<"%A">>
                [] override_title = <<>> /\ artist = <<>> /\ title # <<>> -> <<"%T">>
                [] override_title = <<>> /\ artist = <<>> /\ title = <<>> /\ album # <<>> -> <<"%L">>
                [] OTHER -> <<"Unknown Artist">>
  IN parse_format(<<"%N">> \o Dash \o rest,
       [artist |-> artist, album |-> album, tracknum |-> n + 1,
        title |-> IF override_title # <<>> THEN override_title ELSE title])
===============================================================================
