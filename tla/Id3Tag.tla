-------------------------------- MODULE Id3Tag --------------------------------
(* The tags of the files (scarletbook_id3.c) and the library that writes and   *)
(* reads them (libid3): a tag is a list of frames, and in memory a sequence of *)
(* bytes.  A text becomes the bytes that its characters have in ISO-8859-1.    *)
EXTENDS FileNames, Integers

CONSTANTS ID3_FD_BUFSIZE, \* the most that is read into a buffer at once, 8192
          Latin1,     \* the byte of each character that ISO-8859-1 has
          GenreNames  \* for each genre of a disc the text of genre_table

ID3_TAGHDR_SIZE == 7
ID3_FRAMEHDR_SIZE == 10
MAX_RAW_SIZE == 1000000

FRAME_ID(id) == [TIT2 |-> <<84, 73, 84, 50>>, TPE2 |-> <<84, 80, 69, 50>>, TSRC |-> <<84, 83, 82, 67>>,
                 TPUB |-> <<84, 80, 85, 66>>, TCOP |-> <<84, 67, 79, 80>>, TPOS |-> <<84, 80, 79, 83>>,
                 TCOM |-> <<84, 67, 79, 77>>, TPE1 |-> <<84, 80, 69, 49>>, TALB |-> <<84, 65, 76, 66>>,
                 TCON |-> <<84, 67, 79, 78>>, TYER |-> <<84, 89, 69, 82>>, TDAT |-> <<84, 68, 65, 84>>,
                 TRCK |-> <<84, 82, 67, 75>>][id]
\* Of the table those that are written.
framedesc == {"TIT2", "TPE2", "TSRC", "TPUB", "TCOP", "TPOS", "TCOM", "TPE1", "TALB", "TCON", "TYER",
              "TDAT", "TRCK"}

\* The code puts 8 bits into each byte where a reader expects 7.
SET_SIZE28(size) ==
  <<(size \div 8388608) % 256, (size \div 32768) % 256, (size \div 128) % 256, size % 128>>
GET_SIZE28(b) == (b[1] % 128) * 2097152 + (b[2] % 128) * 16384 + (b[3] % 128) * 128 + (b[4] % 128)
SizeBytes(n) == <<n \div 16777216, (n \div 65536) % 256, (n \div 256) % 256, n % 256>>
SizeOf(b) == b[1] * 16777216 + b[2] * 65536 + b[3] * 256 + b[4]

-----------------------------------------------------------------------------
(* Writing                                                                     *)

id3_init_tag == [version |-> 3, revision |-> 0, flags |-> 0, tagsize |-> 0, pos |-> 0, frames |-> <<>>]

id3_add_frame(tag, id) ==
  [tag EXCEPT !.frames = Append(@, [id |-> id, flags |-> 0, data |-> <<>>])]

\* The text of the last frame, behind the byte of its encoding.
id3_set_text(tag, text) == [tag EXCEPT !.frames[Len(tag.frames)].data = <<0>> \o text]

WithText(tag, id, text) == id3_set_text(id3_add_frame(tag, id), text)

FrameBytes(version, frame) ==
  FRAME_ID(frame.id)
    \o (IF version = 4 THEN SET_SIZE28(Len(frame.data)) ELSE SizeBytes(Len(frame.data)))
    \o <<frame.flags \div 256, frame.flags % 256>> \o frame.data

TagSize(frames) == FoldSeq(LAMBDA f, n : n + Len(f.data) + ID3_FRAMEHDR_SIZE, 0, frames)

id3_write_tag(tag) ==
  <<73, 68, 51, tag.version, tag.revision, tag.flags>> \o SET_SIZE28(TagSize(tag.frames))
    \o FlattenSeq([k \in DOMAIN tag.frames |-> FrameBytes(tag.version, tag.frames[k])])

-----------------------------------------------------------------------------
(* Reading: a tag that is open has the memory and where in it the next byte is *)

Failed(tag) == [tag EXCEPT !.failed = TRUE]

\* Nothing is read over the end of the tag.
CanRead(tag, size) == tag.pos + size <= tag.tagsize /\ tag.mem # <<>>
\* A mutant: what does not fit in a buffer is read all the same.
CopiesAll(tag, size) == CanRead(tag, size)
\* Into a buffer no more than a buffer of libid3 holds.
CanCopy(tag, size) == CanRead(tag, size) /\ size <= ID3_FD_BUFSIZE
Peek(tag, size) == SubSeq(tag.mem, tag.ptr + 1, tag.ptr + size)
id3_read_mem(tag, size) == [tag EXCEPT !.ptr = @ + size, !.pos = @ + size]
id3_seek_mem(tag, offset) ==
  IF tag.pos + offset \in 0..tag.tagsize THEN [tag EXCEPT !.ptr = @ + offset, !.pos = @ + offset]
  ELSE Failed(tag)

id3_read_frame(tag) ==
  IF ~CanRead(tag, ID3_FRAMEHDR_SIZE) THEN Failed(tag)
  ELSE
    LET header == Peek(tag, ID3_FRAMEHDR_SIZE)
        behind == id3_read_mem(tag, ID3_FRAMEHDR_SIZE)
        size == IF tag.version = 4 THEN GET_SIZE28(SubSeq(header, 5, 8)) ELSE SizeOf(SubSeq(header, 5, 8))
        ids == {id \in framedesc : FRAME_ID(id) = SubSeq(header, 1, 4)}
    IN CASE header[1] \notin 48..57 \cup 65..90 -> id3_seek_mem(behind, behind.tagsize - behind.pos)
         [] size > MAX_RAW_SIZE -> Failed(behind)
         [] ids = {} -> id3_seek_mem(behind, size)
         [] ~CanCopy(behind, size) -> Failed(behind)
         [] OTHER ->
              [id3_read_mem(behind, size) EXCEPT
                 !.frames = Append(@, [id |-> CHOOSE id \in ids : TRUE,
                                       flags |-> header[9] * 256 + header[10],
                                       data |-> Peek(behind, size)])]

RECURSIVE ReadFrames(_)
ReadFrames(tag) ==
  IF tag.failed \/ tag.pos >= tag.tagsize THEN tag ELSE ReadFrames(id3_read_frame(tag))

id3_read_tag(tag) ==
  LET sized == [tag EXCEPT !.tagsize = ID3_TAGHDR_SIZE + 3]
      behind == id3_read_mem(sized, 3)
      h == Peek(behind, ID3_TAGHDR_SIZE)
      opened == [id3_read_mem(behind, ID3_TAGHDR_SIZE) EXCEPT
                   !.version = h[1], !.revision = h[2], !.flags = h[3],
                   !.tagsize = GET_SIZE28(SubSeq(h, 4, 7)), !.pos = 0]
  IN CASE ~CanRead(sized, 3) -> Failed(sized)
       [] CanRead(sized, 3) /\ Peek(sized, 3) # <<73, 68, 51>> -> Failed(id3_seek_mem(behind, -3))
       [] OTHER -> IF opened.version \notin 2..4 THEN Failed(opened) ELSE ReadFrames(opened)

\* A tag for memory in which there is none is empty.
id3_open_mem(mem) ==
  LET tag == id3_read_tag([failed |-> FALSE, mem |-> mem, ptr |-> 0] @@ id3_init_tag)
  IN IF tag.failed THEN [failed |-> TRUE, mem |-> mem, ptr |-> 0] @@ id3_init_tag ELSE tag

-----------------------------------------------------------------------------
(* scarletbook_id3.c                                                           *)

\* Characters that ISO-8859-1 does not have are left out.
charset_convert(text) ==
  LET kept == SelectSeq(text, LAMBDA c : c \in DOMAIN Latin1)
  IN [k \in DOMAIN kept |-> Latin1[kept[k]]]

Two(n) == <<48 + ((n \div 10) % 10), 48 + (n % 10)>>
Four(n) == Two((n \div 100) % 100) \o Two(n % 100)
RECURSIVE Decimal(_)
Decimal(n) == IF n < 10 THEN <<48 + n>> ELSE Decimal(n \div 10) \o <<48 + (n % 10)>>
Of(k, n) == Decimal(k) \o <<47>> \o Decimal(n)

\* No frame for a text that the disc does not have.
IfThere(tag, id, text) == IF text = NoText THEN tag ELSE WithText(tag, id, charset_convert(text))

TitleFrame(tag, t, track) ==
  IfThere(tag, "TIT2", IF track.title # NoText THEN track.title ELSE AlbumTitle(t))

AlbumFrames(tag, disc, isrc) ==
  LET artist == IfThere(tag, "TPE2", disc.text.album_artist)
      publisher == IfThere(WithText(artist, "TSRC", isrc), "TPUB", disc.text.album_publisher)
      copyright == IfThere(publisher, "TCOP", disc.text.album_copyright)
  IN WithText(copyright, "TPOS", Of(disc.album_sequence_number, disc.album_set_size))

\* Rather the title of the album than its artist.
ArtistFrames(tag, t, track) ==
  LET artist == First(<<AlbumTitle(t), Artist(t)>>)
      composer == IfThere(tag, "TCOM", track.composer)
  IN IfThere(composer, "TPE1", IF track.performer # NoText THEN track.performer ELSE artist)

DateFrames(tag, disc, genre) ==
  LET titled == IfThere(tag, "TALB", AlbumTitle(disc.text))
      dated == WithText(WithText(titled, "TCON", GenreNames[genre]), "TYER", Four(disc.year))
  IN WithText(dated, "TDAT", Two(disc.month) \o Two(disc.day))

\* The tag of a track, from 0, of an area, and the bytes that are put in its file.
TagOf(disc, area, track) ==
  LET t == area.tracks[track + 1]
      titled == TitleFrame(id3_open_mem(<<>>), disc.text, t)
      artists == ArtistFrames(AlbumFrames(titled, disc, t.isrc), disc.text, t)
      dated == DateFrames(artists, disc, t.genre)
  IN WithText(dated, "TRCK", Of(track + 1, Len(area.tracks)))
scarletbook_id3_tag_render(disc, area, track) == id3_write_tag(TagOf(disc, area, track))
===============================================================================
