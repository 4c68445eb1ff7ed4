---------------------------- MODULE MCRfbStream -----------------------------
(***************************************************************************)
(* Small servers for RfbStream: rectangles of a few pixels, two or three   *)
(* messages, every way to cut the bytes into websocket messages.           *)
(***************************************************************************)
EXTENDS RfbStream

Rect(enc, w, h) == [enc |-> enc, w |-> w, h |-> h]
Updates(rects) == [type |-> "update", rects |-> rects, count |-> Len(rects)]
Unbounded(rects) == [type |-> "update", rects |-> rects, count |-> AnyNumber]
Msg(type) == [type |-> type]

TightRect(control, w, h) == Rect("tight", w, h) @@
  [control |-> control, good |-> TRUE, lenBytes |-> 1, len |-> 3]
TightPng == [TightRect("png", 1, 1) EXCEPT !.enc = "tightpng"]
Basic(filter, w, h, colours) == TightRect("basic", w, h) @@
  [explicit |-> filter # "copy", filter |-> filter, colours |-> colours]

RawRect == Rect("raw", 1, 2)
CopyRectangle == Rect("copyrect", 1, 1)
RRE == Rect("rre", 2, 2) @@ [subrects |-> 1]

Tile(raw, background, any) ==
  [raw |-> raw, background |-> background, foreground |-> FALSE, any |-> any,
   subrects |-> 1, coloured |-> TRUE]
HextileRect == Rect("hextile", 33, 1) @@
  [tiles |-> <<Tile(FALSE, TRUE, TRUE), Tile(FALSE, FALSE, FALSE), Tile(TRUE, FALSE, FALSE)>>]

ZlibRect == Rect("zlib", 1, 1) @@ [len |-> 2, good |-> TRUE]
ZrleRect == Rect("zrle", 65, 1) @@ [len |-> 2, good |-> TRUE, tiles |-> 2]

Segment(type, len, scan) == [type |-> type, len |-> len, scan |-> scan]
JpegRect(tables) == Rect("jpeg", 1, 1) @@
  [good |-> TRUE,
   segments |-> <<Segment("start", 0, 0)>>
                \o (IF tables THEN <<Segment("tables", 3, 0)>> ELSE <<>>)
                \o <<Segment("frame", 3, 0), Segment("scan", 2, 2), Segment("end", 0, 0)>>]
H264Rect(key, reset) == Rect("h264", 1, 1) @@
  [len |-> 2, frames |-> 1, key |-> key, reset |-> reset, place |-> 1, good |-> TRUE]

NameRect == Rect("name", 0, 0) @@ [len |-> 5]
VMware(classic) == Rect("vmwarecursor", 1, 1) @@ [classic |-> classic]
Screens(w, screens) == Rect("extsize", w, 1) @@ [screens |-> screens, refused |-> FALSE]
SameScreens(w) == [Screens(w, 1) EXCEPT !.refused = TRUE]

Cut(action, len, text) ==
  [type |-> "cut", action |-> action, len |-> len, text |-> text, formats |-> 1,
   offers |-> {"request", "notify"}]
FenceMessage(len, request) == [type |-> "fence", len |-> len, request |-> request]
XvpMessage(op) == [type |-> "xvp", op |-> op]

Server(menu, max, viewOnly) ==
  [menu |-> menu, max |-> max, size |-> <<1, 1>>, viewOnly |-> viewOnly]

\* Pictures, what is drawn behind them, empty updates, continuous updates.
Pictures ==
  Server({Updates(<<TightRect("jpeg", 1, 1), CopyRectangle>>), Updates(<<>>),
          Msg("endofcontinuous")}, 3, FALSE)
Resized ==
  Server({Unbounded(<<TightPng, Rect("size", 2, 2), Rect("lastrect", 0, 0)>>),
          Updates(<<RawRect>>)}, 2, FALSE)

\* A picture that is decoded and one that is not.
Broken ==
  Server({Updates(<<[TightRect("jpeg", 1, 1) EXCEPT !.good = FALSE], RawRect>>)}, 2, FALSE)

\* Updates of one rectangle each.
Encodings(rects, max) == Server({Updates(<<r>>) : r \in rects}, max, FALSE)
Old == Encodings({RRE, HextileRect, ZrleRect}, 2)
Older == Encodings({RawRect, ZlibRect, Rect("raw", 0, 1)}, 2)
Tights ==
  Encodings({TightRect("fill", 1, 1), Basic("copy", 0, 1, 0), Basic("copy", 1, 1, 0),
             Basic("copy", 2, 2, 0),
             Basic("palette", 1, 1, 2), Basic("palette", 12, 1, 3)}, 2)
Videos ==
  Encodings({JpegRect(TRUE), JpegRect(FALSE), H264Rect(TRUE, "this"), H264Rect(TRUE, "none")}, 2)

\* Rectangles that are no picture.
Pseudo ==
  Server({Updates(<<VMware(TRUE), NameRect>>), Updates(<<VMware(FALSE), Rect("cursor", 1, 1)>>),
          Updates(<<Rect("led", 0, 0), Screens(2, 2), Rect("mousebuttons", 0, 0)>>),
          Updates(<<SameScreens(2), Rect("qemukeys", 0, 0)>>)}, 1, FALSE)

\* Rectangles that end the session.
Errors ==
  Server({Updates(<<r>>) : r \in
            {Rect("unknown", 1, 1), TightRect("illegal", 1, 1), TightRect("png", 1, 1),
             [ZlibRect EXCEPT !.good = FALSE], [ZrleRect EXCEPT !.good = FALSE],
             [Basic("copy", 2, 2, 0) EXCEPT !.good = FALSE],
             [Basic("copy", 2, 2, 0) EXCEPT !.enc = "tightpng"]}}, 1, FALSE)

Clipboard(viewOnly) ==
  Server({Cut("plain", 2, TRUE), Cut("caps", 8, TRUE), Cut("request", 4, TRUE),
          Cut("peek", 4, TRUE), Cut("notify", 4, TRUE), Cut("provide", 6, TRUE),
          Cut("unknown", 4, TRUE)}, 2, viewOnly)

Control ==
  Server({Msg("bell"), FenceMessage(2, TRUE), FenceMessage(0, FALSE), XvpMessage("init"),
          XvpMessage("fail"), XvpMessage("other"), Msg("unknown"), Msg("colourmap")}, 2, FALSE)

LongFence == Server({FenceMessage(65, TRUE)}, 1, FALSE)

MCServers ==
  [pictures |-> Pictures, resized |-> Resized, broken |-> Broken, old |-> Old,
   older |-> Older, tight |-> Tights, video |-> Videos, pseudo |-> Pseudo,
   errors |-> Errors, clipboard |-> Clipboard(FALSE),
   viewonly |-> Clipboard(TRUE), control |-> Control, longfence |-> LongFence]
=============================================================================
