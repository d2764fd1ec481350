----------------------------- MODULE ChunkStream -----------------------------
(***************************************************************************)
(* What the tunnel promises of a body, with no mention of frames, pipes or *)
(* websockets: a writer writes chunks, numbered from one, and a reader     *)
(* reads them in order, each once.  The reader takes the body for a whole  *)
(* one only when the writer has declared its end and all of it was read;   *)
(* and what either end has finished with, it never comes back to.          *)
(***************************************************************************)
EXTENDS Naturals, Sequences

VARIABLES
    writer,     \* open, done (it has declared the end) or broken
    written,    \* chunks written
    reader,     \* open, whole (it has been told of the end) or cut
    read        \* the chunks read

vars == <<writer, written, reader, read>>

Init == writer = "open" /\ written = 0 /\ reader = "open" /\ read = <<>>

Write ==
    /\ writer = "open"
    /\ written' = written + 1
    /\ UNCHANGED <<writer, reader, read>>

Declare ==
    /\ writer = "open" /\ writer' = "done"
    /\ UNCHANGED <<written, reader, read>>

\* also after the end was declared: the reader may not get to know of it
Break ==
    /\ writer' = "broken"
    /\ UNCHANGED <<written, reader, read>>

Read ==
    /\ reader = "open" /\ Len(read) < written
    /\ read' = Append(read, Len(read) + 1)
    /\ UNCHANGED <<writer, written, reader>>

Finish ==
    /\ reader = "open" /\ writer = "done" /\ Len(read) = written
    /\ reader' = "whole"
    /\ UNCHANGED <<writer, written, read>>

Cut ==
    /\ reader = "open" /\ reader' = "cut"
    /\ UNCHANGED <<writer, written, read>>

Next == Write \/ Declare \/ Break \/ Read \/ Finish \/ Cut

Spec == Init /\ [][Next]_vars
=============================================================================
