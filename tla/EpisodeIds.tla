---------------------------- MODULE EpisodeIds -----------------------------
(***************************************************************************)
(* Episode ids (episodes.py).  A path part is the tuple of words "__"      *)
(* separates in it, so flattening a relative path with "__" is the         *)
(* concatenation of its parts.                                             *)
(***************************************************************************)
EXTENDS SequencesExt

\* _episode_id: the path relative to the watch root, flattened.  The root
\* itself does not enter the id.
EpisodeId(root, relative) == FlattenSeq(relative)
=============================================================================
