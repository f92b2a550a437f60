------------------------------ MODULE MCSession ------------------------------
(* Discs with few tracks and short texts, and every command line that adds two *)
(* options to one of a few to begin with.                                      *)
EXTENDS Session

MCWidth(c) == IF c \in {"e2", "w2"} THEN 2 ELSE 1
\* e2 is a letter of ISO-8859-1 with two bytes in UTF-8, w2 one it does not have;
\* x8 is no character.
MCLatin1 == [c \in {"a", "b", "*", "/", ".", " ", ";", "e2"} |->
               CASE c = "a" -> 97 [] c = "b" -> 98 [] c = "*" -> 42 [] c = "/" -> 47 [] c = "." -> 46
                 [] c = " " -> 32 [] c = ";" -> 59 [] c = "e2" -> 233]
MCGenreNames == <<<<82, 111, 99, 107>>, <<>>>>

Time(f) == [minutes |-> f \div 4500, seconds |-> (f \div 75) % 60, frames |-> f % 75]
Track(title, performer, start, duration) ==
  [title |-> title, performer |-> performer, composer |-> title, isrc |-> <<68, 69>>, genre |-> 1,
   start |-> Time(start), duration |-> Time(duration)]
Titles(artist, title) ==
  [album_artist |-> artist, album_artist_phonetic |-> NoText, disc_artist |-> artist,
   disc_artist_phonetic |-> <<"b">>, album_title |-> title, album_title_phonetic |-> NoText,
   disc_title |-> NoText, disc_title_phonetic |-> title,
   album_publisher |-> artist, album_copyright |-> title]
Disc(text, areas) ==
  [text |-> text, areas |-> areas, album_sequence_number |-> 1, album_set_size |-> 12, year |-> 2004,
   month |-> 3, day |-> 14, genre |-> 1, catalog |-> <<>>]
AreaOf(kind, dst, tracks) == [kind |-> kind, dst |-> dst, tracks |-> tracks]


Silent == [Titles(NoText, NoText) EXCEPT !.disc_artist_phonetic = NoText]
Stereo == AreaOf("stereo", FALSE, <<Track(NoText, NoText, 150, 75), Track(NoText, NoText, 300, 80),
                                    Track(NoText, NoText, 380, 75)>>)
Multi == AreaOf("multi", TRUE, <<Track(<<"a", "/", "b">>, <<"e2", "w2">>, 0, 75),
                                 Track(<<"*">>, <<"a", " ", "*", "x8", "b">>, 4600, 80)>>)
Odd == Titles(<<"*", "a", " ", " ", "e2", "e2">>, <<".", "b", ";", "a">>)

MCDiscs == {Disc(Silent, <<Stereo>>), Disc(Titles(NoText, <<"a">>), <<Multi, Stereo>>), Disc(Odd, <<Multi>>)}

Empty == {<<>>, <<"out">>, <<"conc">>}
\* Nothing; what an earlier run of each kind has left; a file with the album's
\* name; names used up.
Left(name) ==
  [files |-> {name \o <<".">> \o <<ext>> : ext \in {"cue", "iso", "dff"}},
   dirs |-> Empty \cup {name, name \o <<" ", "[stereo]">>, <<"conc", "/">> \o name}]
UsedUp(name) ==
  [files |-> {Try(name, i) \o <<".">> \o <<ext>> : i \in 0..(TRIES - 1), ext \in {"cue", "iso", "dff"}},
   dirs |-> Empty]
MCFileSystems ==
  [d \in MCDiscs |->
     LET name == get_album_dir(d.text)
     IN {[files |-> {}, dirs |-> Empty], Left(name), UsedUp(name),
         [files |-> {name, <<"out", "/">> \o name}, dirs |-> Empty]}]

MCNumbers == [arg \in {"0", "2", "3,1"} |-> CASE arg = "0" -> <<0>> [] arg = "2" -> <<2>> [] arg = "3,1" -> <<3, 1>>]
MCSpelled == [arg \in {"name", "path"} |-> IF arg = "name" THEN <<"b", ".">> ELSE <<"s", "/", "a">>]

Opt(letter) == [opt |-> letter, arg |-> ""]
Options ==
  {Opt(letter) : letter \in {"2", "m", "e", "p", "s", "z", "I", "w", "c", "C", "v", "P", "?"}}
    \cup {[opt |-> "t", arg |-> arg] : arg \in DOMAIN MCNumbers}
    \cup {[opt |-> "o", arg |-> arg] : arg \in {"out", "missing"}}
    \cup {[opt |-> "y", arg |-> arg] : arg \in {"conc", "missing"}}
    \cup {[opt |-> "outfile", arg |-> arg] : arg \in DOMAIN MCSpelled}
Begun == {<<>>, <<Opt("2"), Opt("m")>>, <<Opt("2"), Opt("m"), Opt("s")>>,
          <<Opt("2"), Opt("m"), Opt("I"), Opt("w")>>, <<Opt("p"), Opt("I")>>, <<Opt("m"), Opt("e")>>}
MCArgvs == {b \o o : b \in Begun, o \in {<<>>} \cup {<<x>> : x \in Options} \cup {<<x, y>> : x, y \in Options}}
===============================================================================
