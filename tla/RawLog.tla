------------------------------- MODULE RawLog -------------------------------
(***************************************************************************)
(* Capture log files as internal/rawlog reads them.  A file is the frames  *)
(* that were written whole, each a sequence of events, and how the file    *)
(* ends.  The writer appends a frame at a time, so a server killed while   *)
(* it writes leaves the last frame cut ("mid_frame"), and a disk that lost *)
(* its power may leave zeros behind the last whole frame ("zeros", a frame *)
(* length of 0); else the tail is "clean".  Bytes, compression and the     *)
(* frame header are left out.                                              *)
(***************************************************************************)
EXTENDS Naturals, Sequences, SequencesExt

\* rawlog.Stream: deliver every event of the whole frames, then report how the
\* file ended.  Only a cut frame is ErrTruncated; a length of 0 is an error.
Stream(file) ==
    [events |-> FlattenSeq(file.frames),
     err    |-> CASE file.tail = "clean"     -> "none"
                  [] file.tail = "mid_frame" -> "ErrTruncated"
                  [] file.tail = "zeros"     -> "invalid length"]

\* rawlog.StreamDir: the files in name order; a truncated file is kept and the
\* next one read, any other error ends the whole reading, and so does a
\* directory without files.
StreamDir(files) ==
    [events |-> FlattenSeq([i \in DOMAIN files |-> Stream(files[i]).events]),
     ok     |-> /\ files # <<>>
                /\ \A i \in DOMAIN files :
                      Stream(files[i]).err \in {"none", "ErrTruncated"}]

=============================================================================
