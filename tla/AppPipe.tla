------------------------------- MODULE AppPipe -------------------------------
(***************************************************************************)
(* class AppPipe, which several programs carry a copy of: one end of an    *)
(* in-process pipe.  An end is the sequence of pieces that were written to *)
(* it and not read yet: the ring buffer m_buf behind the buffer that       *)
(* QIODevice reads ahead into.  A piece is one text, or a line end.        *)
(***************************************************************************)
EXTENDS Naturals, Sequences, SequencesExt

NL == "\n"

(* _a_write: what the other end has written is appended. *)
write(buf, piece) == Append(buf, piece)

(* canReadLine() that is satisfied with anything to read. *)
canReadAny(buf) == buf # <<>>

(* canReadLine() looks at both buffers, so a line that is split between    *)
(* them counts.                                                            *)
canReadLine(buf) == Contains(buf, NL)

(* readLine(): up to and with the first line end, or all there is.         *)
LineLength(buf) == IF canReadLine(buf) THEN SelectInSeq(buf, LAMBDA p : p = NL) ELSE Len(buf)
readLine(buf) == SubSeq(buf, 1, LineLength(buf))
afterLine(buf) == SubSeq(buf, LineLength(buf) + 1, Len(buf))
=============================================================================
