-------------------------- MODULE ScarletbookLayout --------------------------
(* The packed structures of a Scarlet Book disc (scarletbook.h), each as the  *)
(* sequence of the widths in bytes of its fields, bit fields taken by the     *)
(* byte they share.  The reader lays these structures over sectors it has     *)
(* read, so a structure that is one field short silently moves every field    *)
(* that follows it.                                                           *)
EXTENDS Naturals, Sequences, SequencesExt

SACD_LSN_SIZE == 2048
SACD_FRAME_RATE == 75
SAMPLES_PER_FRAME == 588
MAX_LANGUAGE_COUNT == 8
MASTER_TOC_LEN == 10

\* n fields of the same width, counted as one.
Times(n, width) == <<n * width>>

SizeOf(widths) == FoldLeft(LAMBDA total, width : total + width, 0, widths)

\* The place of a field that starts after the first n.
OffsetOf(widths, n) == SizeOf(SubSeq(widths, 1, n))

genre_table_t == <<1, 2, 1>>
locale_table_t == <<2, 1, 1>>

master_toc_t ==
  <<8, 1, 1, 6, 2, 2, 4, 16>> \o Times(4, SizeOf(genre_table_t))
    \o <<8, 4, 4, 4, 4, 1, 3, 2, 2, 16>> \o Times(4, SizeOf(genre_table_t))
    \o <<2, 1, 1, 4, 1, 7>> \o Times(MAX_LANGUAGE_COUNT, SizeOf(locale_table_t))

master_sacd_text_t == <<8, 8>> \o Times(16, 2) \o <<2000>>
master_man_t == <<8, 2040>>

area_toc_t ==
  <<8, 1, 1, 2, 4, 4, 1, 1, 10, 1, 1, 1, 1, 12, 1, 15, 1, 1, 1, 1, 1, 1, 2, 4, 4, 1, 7>>
    \o Times(10, SizeOf(locale_table_t)) \o <<2, 2, 2, 10, 2, 2, 2, 2, 1896>>

isrc_t == <<2, 3, 2, 5>>
area_isrc_genre_t ==
  <<8>> \o Times(255, SizeOf(isrc_t)) \o <<4>> \o Times(255, SizeOf(genre_table_t))
area_access_list_t == <<8, 2, 1, 5>> \o Times(6550, 5) \o <<2, 32768>>
area_tracklist_offset_t == <<8>> \o Times(255, 4) \o Times(255, 4)
area_tracklist_time_t == <<1, 1, 1, 1>>
area_tracklist_t ==
  <<8>> \o Times(255, SizeOf(area_tracklist_time_t))
    \o Times(255, SizeOf(area_tracklist_time_t))

audio_packet_info_t == <<2>>
audio_frame_info_t == <<1, 1, 1, 1>>
audio_frame_header_t == <<1>>

\* The header of an audio sector that describes np packets and nf frames: only
\* DST frames have the fourth byte of their frame information.
SectorHeader(dst, np, nf) ==
  SizeOf(audio_frame_header_t) + np * SizeOf(audio_packet_info_t)
    + nf * (IF dst THEN SizeOf(audio_frame_info_t) ELSE SizeOf(audio_frame_info_t) - 1)

TIME_FRAMECOUNT(t) ==
  t.minutes * 60 * SACD_FRAME_RATE + t.seconds * SACD_FRAME_RATE + t.frames

\* The tables that the reader steps over in whole sectors fit in the sectors it
\* steps over: 10 for the master table, 1 for an area's own, 2 for the list of
\* codes and genres, 32 for the access list, 1 for each list of tracks.
ASSUME TablesFillTheirSectors ==
  /\ SizeOf(master_toc_t) <= SACD_LSN_SIZE
  /\ SizeOf(master_sacd_text_t) = SACD_LSN_SIZE
  /\ SizeOf(master_man_t) = SACD_LSN_SIZE
  /\ 1 + MAX_LANGUAGE_COUNT + 1 = MASTER_TOC_LEN
  /\ SizeOf(area_toc_t) = SACD_LSN_SIZE
  /\ SizeOf(area_isrc_genre_t) \in (SACD_LSN_SIZE + 1)..(2 * SACD_LSN_SIZE)
  /\ SizeOf(area_access_list_t) = 32 * SACD_LSN_SIZE
  /\ SizeOf(area_tracklist_offset_t) = SACD_LSN_SIZE
  /\ SizeOf(area_tracklist_t) = SACD_LSN_SIZE
=============================================================================
