-------------------------------- MODULE MCDisc --------------------------------
(* Discs of twelve sectors: the master table, a text and the end of the table, *)
(* then two areas.  They are whole or differ in one thing from a whole one.    *)
EXTENDS ScarletbookOpen

Master(starts) == [id |-> "SACDMTOC", supported |-> TRUE, starts |-> starts, sizes |-> <<5, 4>>]
Text == [id |-> "SACDText", texts |-> {"album_title", "disc_artist"}]
Man == [id |-> "SACD_Man"]
AreaToc(id, size, channels, stereo, descriptions) ==
  [id |-> id, supported |-> TRUE, size |-> size, channels |-> channels, stereo |-> stereo,
   descriptions |-> descriptions, track_count |-> 2]
TrackTable == [id |-> "SACDTTxt", tracks |-> <<{"title"}, {"title", "performer"}>>]
Plain(id) == [id |-> id]

WholeSectors ==
  <<Master(<<3, 8>>), Text, Man,
    AreaToc("TWOCHTOC", 5, 2, TRUE, {1}), TrackTable, Plain("SACD_IGL"), Plain("rest"), Plain("SACDTRL1"),
    AreaToc("MULCHTOC", 4, 6, FALSE, {3}), Plain("SACD_ACC"), Plain("rest"), Plain("SACDTRL2")>>

Disc(sectors) == [sectors |-> sectors]

MCDiscs ==
  {Disc(WholeSectors),
   Disc([WholeSectors EXCEPT ![1].starts = <<3, 0>>]),
   Disc([WholeSectors EXCEPT ![1].supported = FALSE]),
   Disc([WholeSectors EXCEPT ![2].id = "other"]),
   Disc([WholeSectors EXCEPT ![3].id = "other"]),
   Disc([WholeSectors EXCEPT ![4].id = "other"]),
   Disc([WholeSectors EXCEPT ![4].supported = FALSE]),
   Disc([WholeSectors EXCEPT ![4].descriptions = {1, 2, 4}]),
   Disc([WholeSectors EXCEPT ![9].channels = 2, ![9].stereo = TRUE])}

\* Whole; without the end of its last sector; cut in the first area; empty.
MCFileSizes == {24, 23, 9, 0}

Location(stat, dots, colon, mounted) ==
  [stat |-> stat, dots |-> dots, colon |-> colon, mounted |-> mounted]
MCLocations ==
  {Location("regular", 1, FALSE, FALSE), Location("missing", 3, TRUE, FALSE),
   Location("missing", 0, FALSE, FALSE), Location("directory", 0, FALSE, TRUE),
   Location("other", 0, FALSE, FALSE)}
\* Inside the file, over its end and behind it.
MCRipSectors == {4, 11, 12}
MCNewFields == {PB_WT_VARINT, PB_WT_STRING, PB_WT_32BIT}
===============================================================================
