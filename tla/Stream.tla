-------------------------------- MODULE Stream --------------------------------
(***************************************************************************)
(* What a connection promises its reader, without buffers, conversion,     *)
(* polling or partial reads: the text the other process wrote is delivered *)
(* once, in order, in pieces of any size, and the end of file is only      *)
(* announced, and then for good, when all of it was delivered and no more  *)
(* can come.                                                               *)
(***************************************************************************)
EXTENDS Naturals, Sequences

VARIABLES
    text,       \* what the other process has written, in UTF-8
    writing,    \* the other process may still write
    delivered,  \* what the reader has got
    reader      \* "reading", "eof" or "closed"

vars == <<reader, writing, delivered, text>>

IsInitialPart(s, t) == Len(s) <= Len(t) /\ s = SubSeq(t, 1, Len(s))

Init ==
    /\ text = <<>> /\ delivered = <<>>
    /\ writing = TRUE
    /\ reader = "reading"

\* The text grows at its end: by nothing, if the bytes are not valid.
Write ==
    /\ writing
    /\ UNCHANGED <<writing, delivered, reader>>
    /\ IsInitialPart(text, text')

Finish ==
    /\ writing /\ writing' = FALSE
    /\ UNCHANGED <<text, delivered, reader>>

\* The reader gets the next piece of the text.
Deliver ==
    /\ reader = "reading"
    /\ UNCHANGED <<writing, reader>>
    /\ IsInitialPart(delivered, delivered')
    /\ IsInitialPart(delivered', text)
    /\ UNCHANGED text

\* is_incomplete() becomes FALSE, in a step that delivers nothing.
End ==
    /\ reader = "reading"
    /\ ~writing /\ delivered = text
    /\ reader' = "eof"
    /\ UNCHANGED <<text, writing, delivered>>

Close ==
    /\ reader' = "closed"
    /\ UNCHANGED <<text, writing, delivered>>

Next == Write \/ Finish \/ Deliver \/ End \/ Close

Spec == Init /\ [][Next]_vars
================================================================================
