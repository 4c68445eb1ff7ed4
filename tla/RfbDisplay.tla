----------------------------- MODULE RfbDisplay -----------------------------
(***************************************************************************)
(* The screen of the noVNC client (display.js).  Drawing goes to a back    *)
(* buffer and flip copies the buffer to the canvas the operator sees.  A   *)
(* picture is decoded by the browser in the background; while one is       *)
(* awaited, everything after it waits behind it in the render queue.       *)
(*                                                                         *)
(* The back buffer is the sequence of what was drawn on it, each piece     *)
(* named by the rectangle it belongs to; what is visible is a prefix.      *)
(***************************************************************************)
EXTENDS Naturals, Sequences, SequencesExt

\* An entry of _renderQ.  "state" is that of its picture, "good" what will
\* become of it, "heard" whether a load listener or a promise will rescan.
\* A copy of something drawn from a view has the colours of other bytes.
Op(type, piece) ==
  [type |-> type, piece |-> piece, state |-> "ready", good |-> TRUE, heard |-> FALSE,
   smeared |-> FALSE]

Picture(type, piece, good) == [Op(type, piece) EXCEPT !.state = "loading", !.good = good]
Flip == Op("flip", <<>>)

\* smeared: history, the pieces whose colours are not those the server sent.
NewDisplay(size) ==
  [size |-> size, queue |-> <<>>, drawn |-> <<>>, visible |-> 0, flushing |-> FALSE,
   smeared |-> {}]

Pending(d) == d.queue # <<>>

Perform(d, op) ==
  IF op.type = "flip" THEN [d EXCEPT !.visible = Len(d.drawn)]
  ELSE [d EXCEPT !.drawn = Append(@, op.piece),
                 !.smeared = @ \cup (IF op.smeared THEN {op.piece} ELSE {})]

\* flip, fillRect, copyImage and blitImage: at once, or behind the queue.
Submit(d, op) ==
  IF Pending(d) THEN [d EXCEPT !.queue = Append(@, op)] ELSE Perform(d, op)

\* blitImage copies arr.buffer from its start, so a queued blit of a subarray
\* shows what is at the front of the receive buffer.
Blit(d, piece, view) ==
  Submit(d, [Op("blit", piece) EXCEPT !.smeared = view /\ Pending(d)])

\* _scanRenderQ: perform what is ready, listen for the first that is not.
\* A picture that is broken or of the wrong size is neither drawn nor dropped.
Scan(d) ==
  LET waiting == {i \in DOMAIN d.queue : d.queue[i].state # "ready"}
      first == IF waiting = {} THEN Len(d.queue) + 1
               ELSE CHOOSE i \in waiting : \A j \in waiting : i <= j
      done == FoldLeft(Perform, d, SubSeq(d.queue, 1, first - 1))
      rest == SubSeq(d.queue, first, Len(d.queue))
  IN [done EXCEPT !.queue =
        IF rest # <<>> /\ rest[1].state = "loading" THEN [rest EXCEPT ![1].heard = TRUE]
        ELSE rest]

Push(d, op) ==
  LET pushed == [d EXCEPT !.queue = Append(@, op)]
  IN IF Len(pushed.queue) = 1 THEN Scan(pushed) ELSE pushed

ImageRect(d, piece, empty, good) ==
  IF empty THEN d ELSE Push(d, Picture("img", piece, good))

VideoFrame(d, piece, good) == Push(d, Picture("frame", piece, good))

\* resize, unclipped: the back buffer keeps its contents, the canvas loses them.
Resize(d, size) ==
  IF d.size = size THEN d ELSE Submit([d EXCEPT !.size = size, !.visible = 0], Flip)

\* The browser is done with the picture of entry i.  Only "load" is heard,
\* "error" is not.
Decoded(d, i) ==
  LET op == d.queue[i]
      known == [d EXCEPT !.queue[i].state = IF op.good THEN "ready" ELSE "broken"]
  IN IF op.good /\ op.heard THEN Scan(known) ELSE known

\* The promise of flush() is resolved.
Flushed(d) == d.flushing /\ ~Pending(d)
=============================================================================
