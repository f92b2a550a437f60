---------------------------- MODULE DsdiffLayout ----------------------------
(* The chunks of a DSDIFF file (dsdiff.h) and of a DSF file (dsf.h): the      *)
(* widths of the fields that are there before a chunk's data or its text.     *)
EXTENDS ScarletbookLayout

\* An identifier and the size of the data.
chunk_header_t == <<4, 8>>
form_dsd_chunk_t == chunk_header_t \o <<4>>
format_version_chunk_t == chunk_header_t \o <<4>>
property_chunk_t == chunk_header_t \o <<4>>
sample_rate_chunk_t == chunk_header_t \o <<4>>
channels_chunk_t == chunk_header_t \o <<2>>
compression_type_chunk_t == chunk_header_t \o <<4, 1>>
loudspeaker_config_chunk_t == chunk_header_t \o <<2>>
dsd_sound_data_chunk_t == chunk_header_t
dst_sound_data_chunk_t == chunk_header_t
dst_frame_information_chunk_t == chunk_header_t \o <<4, 2>>
dst_frame_data_chunk_t == chunk_header_t
dst_frame_index_t == <<8, 4>>
dst_sound_index_chunk_t == chunk_header_t
comment_t == <<2, 1, 1, 1, 1, 2, 2, 4>>
comments_chunk_t == chunk_header_t \o <<2>>
edited_master_information_chunk_t == chunk_header_t
edited_master_id_chunk_t == chunk_header_t
marker_chunk_t == chunk_header_t \o <<2, 1, 1, 4, 4, 2, 2, 2, 4>>
artist_chunk_t == chunk_header_t \o <<4>>
title_chunk_t == chunk_header_t \o <<4>>

CEIL_ODD_NUMBER(x) == IF x % 2 = 1 THEN x + 1 ELSE x

\* What is stored as the size of a chunk's data: the pad byte is counted in it.
CALC_CHUNK_SIZE(x) == CEIL_ODD_NUMBER(x)

\* The loudspeaker configurations and the places of a marker.
LS_CONFIG(channels) ==
  CASE channels = 2 -> 0 [] channels = 5 -> 3 [] channels = 6 -> 4 [] OTHER -> 65535
MARK_MARKER_TYPE == [TRACKSTART |-> 0, TRACKSTOP |-> 1, PROGRAMSTART |-> 2, INDEX_ENTRY |-> 4]

\* The three chunks that a DSF file starts with.
dsd_chunk_header_t == <<4, 8, 8, 8>>
fmt_chunk_t == <<4, 8, 4, 4, 4, 4, 4, 4, 8, 4, 4>>
data_chunk_t == <<4, 8>>

\* The sizes the writers use (the *_SIZE macros, each beside its structure) are
\* the sizes of the structures.
ASSUME SizesOfChunks ==
  /\ SizeOf(chunk_header_t) = 12 /\ SizeOf(form_dsd_chunk_t) = 16
  /\ SizeOf(channels_chunk_t) = 14 /\ SizeOf(compression_type_chunk_t) = 17
  /\ SizeOf(dst_frame_information_chunk_t) = 18 /\ SizeOf(dst_frame_index_t) = 12
  /\ SizeOf(comment_t) = 14 /\ SizeOf(comments_chunk_t) = 14
  /\ SizeOf(marker_chunk_t) = 34 /\ SizeOf(artist_chunk_t) = 16
  /\ SizeOf(dsd_chunk_header_t) = 28 /\ SizeOf(fmt_chunk_t) = 52
=============================================================================
