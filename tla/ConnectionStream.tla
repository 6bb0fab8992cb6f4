--------------------------- MODULE ConnectionStream ---------------------------
(***************************************************************************)
(* The connection, with its two buffers, its conversion and its polls,     *)
(* implements the stream.                                                  *)
(***************************************************************************)
EXTENDS Connection

\* The buffers and the pipe are not seen: R sees what it got, and is_incomplete().
S == INSTANCE Stream WITH
       text <- Meaning(sent),
       writing <- wopen,
       delivered <- got,
       reader <- IF con.is_closed THEN "closed"
                 ELSE IF con.is_eof THEN "eof" ELSE "reading"

\* Every step of the connection is one of the stream, or is not visible: a call
\* of read_chars(), read_bytes() or read_lines() only ever appends the next piece
\* of the text to what R got, no call both delivers data and sets is_eof_, and
\* after is_eof_ nothing is delivered, nothing more can be written and is_eof_
\* stays set.
ImplementsStream == S!Spec
================================================================================
