----------------------------- MODULE RfbStream ------------------------------
(***************************************************************************)
(* What the noVNC client does with the bytes a VNC server sends after the  *)
(* handshake: the receive queue (websock.js), the messages and rectangles  *)
(* (rfb.js), the decoders (decoders/*.js) and the screen (RfbDisplay).     *)
(*                                                                         *)
(* The bytes come in pieces the network chooses.  A handler that lacks     *)
(* some returns, having put back what it read, and is called again with    *)
(* the next piece.  A byte of a field is a cell; the first cell of a field *)
(* carries what the field says.  The server lays its messages out by the   *)
(* protocol (Body, Bytes), the client consumes what its code counts, and   *)
(* the two must meet at every field the client goes on from.               *)
(*                                                                         *)
(* pc is where the handler of a websocket message stands: "idle" lets the  *)
(* browser deliver the next event, anything else runs to the end first.    *)
(***************************************************************************)
EXTENDS RfbDisplay, Integers, FiniteSets

CONSTANT Servers   \* by name: what a server may send, how much, its size, and view-only

VARIABLES
  server,    \* the name of the server, fixed
  wire,      \* bytes on their way to the browser
  sent,      \* messages sent
  meant,     \* history: the messages and rectangles sent, in order
  due,       \* history: the pieces of picture sent, in order
  owed,      \* update requests the server has not answered
  rQ,        \* the receive queue
  rQi,       \* what is before it has been read
  rfb,       \* the RFB object and its decoders
  display,   \* see RfbDisplay
  handled    \* history: the messages and rectangles handled, in order

net == <<server, wire, sent, meant, due>>
outside == <<net, rQ>>      \* what no handler changes
vars == <<server, wire, sent, meant, due, owed, rQ, rQi, rfb, display, handled>>

None == "none"
NoRect == [of |-> <<>>, r |-> [enc |-> None]]
AnyNumber == 65535     \* of rectangles, until a LastRect
Small == 12            \* the smallest pixel data tight compresses

-----------------------------------------------------------------------------
(* The protocol: how long a server makes things.                           *)

CeilDiv(a, b) == (a + b - 1) \div b

Rest == [kind |-> "rest"]
Field(cell, n) == [i \in 1 .. n |-> IF i = 1 THEN cell ELSE Rest]
Plain(kind, n) == Field([kind |-> kind], n)
Repeat(field, n) == FlattenSeq([i \in 1 .. n |-> field])

\* A hextile tile is 16 by 16, less at the right and the bottom.
TilesX(r) == CeilDiv(r.w, 16)
TileTotal(r) == TilesX(r) * CeilDiv(r.h, 16)
TileArea(r, k) ==
  LET x == ((k - 1) % TilesX(r)) * 16
      y == ((k - 1) \div TilesX(r)) * 16
      Side(room) == IF room < 16 THEN room ELSE 16
  IN Side(r.w - x) * Side(r.h - y)

TileBytes(t, area) ==
  1 + IF t.raw THEN area * 4
      ELSE (IF t.background THEN 4 ELSE 0) + (IF t.foreground THEN 4 ELSE 0)
           + (IF t.any THEN 1 + t.subrects * (IF t.coloured THEN 6 ELSE 2) ELSE 0)

\* Pixels of tight's basic compression before zlib, by filter.
PixelBytes(r, filter, colours) ==
  IF filter = "palette"
  THEN ((r.w * (IF colours <= 2 THEN 1 ELSE 8) + 7) \div 8) * r.h
  ELSE r.w * r.h * 3

Compact(r) == Plain("length", r.lenBytes) \o Plain("data", r.len)
TightData(r, size) ==
  IF size < Small THEN Plain("data", size) ELSE Compact(r)

TightBody(r) ==
  Plain("control", 1) \o
  CASE r.control = "fill" -> Plain("colour", 3)
    [] r.control \in {"jpeg", "png"} -> Compact(r)
    [] r.control = "basic" ->
         (IF r.explicit THEN Plain("filter", 1) ELSE <<>>)
         \o (IF r.filter = "palette" THEN Plain("palette", 1 + 3 * r.colours) ELSE <<>>)
         \o TightData(r, PixelBytes(r, r.filter, r.colours))
    [] OTHER -> <<>>

\* A JPEG file: markers, some with a length that counts itself; the scan is
\* followed by as many bytes as it takes to the next marker.
Markers == {"start", "end"}
SegmentBytes(s) ==
  IF s.type \in Markers THEN 2 ELSE 2 + s.len + s.scan

Body(r) ==
  CASE r.enc = "raw" -> Repeat(Plain("line", 4 * r.w), r.h)
    [] r.enc = "copyrect" -> Plain("source", 4)
    [] r.enc = "rre" -> Plain("rre", 8) \o Repeat(Plain("subrect", 12), r.subrects)
    [] r.enc = "hextile" ->
         FlattenSeq([k \in 1 .. TileTotal(r) |->
                       Plain("tile", TileBytes(r.tiles[k], TileArea(r, k)))])
    [] r.enc \in {"zlib", "zrle"} -> Plain("length", 4) \o Plain("data", r.len)
    [] r.enc \in {"tight", "tightpng"} -> TightBody(r)
    [] r.enc = "jpeg" ->
         FlattenSeq([k \in 1 .. Len(r.segments) |->
                       Field([kind |-> "segment", s |-> r.segments[k]],
                             SegmentBytes(r.segments[k]))])
    [] r.enc = "h264" -> Plain("h264", 8) \o Plain("data", r.len)
    [] r.enc = "cursor" ->
         Plain("pixels", 4 * r.w * r.h) \o Plain("mask", CeilDiv(r.w, 8) * r.h)
    [] r.enc = "vmwarecursor" ->
         Plain("vmware", 2)
         \o Plain("pixels", (IF r.classic THEN 8 ELSE 4) * r.w * r.h)
    [] r.enc = "name" -> Plain("length", 4) \o Plain("name", r.len)
    [] r.enc = "led" -> Plain("led", 1)
    [] r.enc = "extsize" -> Plain("screens", 4) \o Repeat(Plain("screen", 16), r.screens)
    [] OTHER -> <<>>       \* lastrect, size, qemukeys, mousebuttons

RectBytes(of, r) == Field([kind |-> "rect", of |-> of, r |-> r], 12) \o Body(r)

\* The whole of message number n.
Bytes(n, m) ==
  LET First(size) == Field([kind |-> "message", n |-> n, m |-> m], size)
  IN CASE m.type = "update" ->
            First(4) \o FlattenSeq([j \in 1 .. Len(m.rects) |-> RectBytes(<<n, j>>, m.rects[j])])
       [] m.type = "cut" -> First(8) \o Plain("text", m.len)
       [] m.type = "fence" -> First(9) \o Plain("payload", m.len)
       [] m.type = "xvp" -> First(4)
       [] OTHER -> First(1)     \* bell, endofcontinuous, unknown, colourmap

\* The pieces of picture rectangle r stands for.
PieceCount(r) ==
  CASE r.enc = "raw" -> IF r.w = 0 THEN 0 ELSE r.h
    [] r.enc = "rre" -> 1 + r.subrects
    [] r.enc = "hextile" -> TileTotal(r)
    [] r.enc = "zrle" -> r.tiles
    [] r.enc = "h264" -> IF r.frames > 0 THEN 1 ELSE 0
    [] r.enc \in {"copyrect", "zlib", "tight", "tightpng", "jpeg"} ->
         IF r.w * r.h = 0 THEN 0 ELSE 1
    [] OTHER -> 0

Pieces(n, m) ==
  IF m.type # "update" THEN <<>>
  ELSE FlattenSeq([j \in 1 .. Len(m.rects) |->
                     [p \in 1 .. PieceCount(m.rects[j]) |-> <<n, j, p>>]])

Parts(n, m) ==
  IF m.type = "update" THEN [j \in 1 .. Len(m.rects) |-> <<n, j>>] \o << <<n, 0>> >>
  ELSE << <<n, 0>> >>

-----------------------------------------------------------------------------
(* What a server keeps to that follows the protocol.                       *)

Positive == Nat \ {0}

\* Compressed data is never empty; without a filter byte pixels are copied;
\* no palette without pixels.
TightOK(r) ==
  /\ r.control # None
  /\ r.control = "fill" => r.w * r.h # 0
  /\ r.control \in {"jpeg", "png", "basic"} => r.lenBytes \in 1 .. 3 /\ r.len \in Positive
  /\ r.control = "basic" =>
       /\ r.filter # None /\ (~r.explicit => r.filter = "copy")
       /\ r.filter = "palette" => r.w \in Positive /\ r.h \in Positive /\ r.colours \in Positive

\* A tile without content has the colour of the tile before it, which is
\* then not a raw one.
HextileOK(r) ==
  \A k \in 1 .. TileTotal(r) :
    LET t == r.tiles[k]
    IN /\ t.subrects \in Nat
       /\ ~t.raw /\ ~t.background /\ ~t.foreground /\ ~t.any => k > 1 /\ ~r.tiles[k - 1].raw

\* A file ends with its first "end" marker.
JpegOK(r) ==
  /\ r.segments \in Seq(Range(r.segments)) /\ r.segments # <<>>
  /\ \A k \in 1 .. Len(r.segments) :
       LET s == r.segments[k]
       IN /\ s.type = "end" <=> k = Len(r.segments)
          /\ s.type \notin Markers =>
               s.len \in Nat /\ s.len >= 2 /\ s.scan \in Nat /\ (s.type # "scan" => s.scan = 0)

RectOK(r) ==
  /\ r.enc \notin {"size", "extsize"} => r.w \in Nat /\ r.h \in Nat
  /\ r.enc = "rre" => r.subrects \in Nat
  /\ r.enc = "hextile" => HextileOK(r)
  /\ r.enc = "zlib" => r.w * r.h # 0
  /\ r.enc = "zrle" => r.tiles \in Nat
  /\ r.enc \in {"zlib", "zrle"} => r.len \in Positive
  /\ r.enc \in {"tight", "tightpng"} => TightOK(r)
  /\ r.enc = "jpeg" => JpegOK(r)
  /\ r.enc = "h264" => r.len \in Nat /\ r.frames \in Nat /\ (r.frames > 0 => r.len > 0 /\ r.key)
  /\ r.enc = "name" => r.len \in Nat
  /\ r.enc = "extsize" => r.screens \in Nat

\* An update counts its rectangles, or ends with a LastRect.
UpdateOK(m) ==
  /\ m.rects \in Seq(Range(m.rects))
  /\ m.count \in Len(m.rects) .. AnyNumber
  /\ \A j \in 1 .. Len(m.rects) :
       /\ RectOK(m.rects[j])
       /\ m.rects[j].enc = "lastrect" => j = Len(m.rects)
  /\ \/ m.count = Len(m.rects)
     \/ m.rects # <<>> /\ m.rects[Len(m.rects)].enc = "lastrect"

CutOK(m) ==
  /\ m.len \in Nat
  /\ m.action = "caps" => m.formats \in Nat /\ m.len = 4 + 4 * m.formats
  /\ m.action \in {"request", "peek", "notify"} => m.len = 4
  /\ m.action = "provide" => m.len >= 4

MessageOK(m) ==
  /\ m.type = "update" => UpdateOK(m)
  /\ m.type = "cut" => CutOK(m)
  /\ m.type = "fence" => m.len \in Nat

ASSUME ServersAssumption ==
  \A name \in DOMAIN Servers : \A m \in Servers[name].menu : MessageOK(m)

-----------------------------------------------------------------------------
(* The receive queue.                                                      *)

\* What rQwait answers "no" to, with the read position at i.
Have(i, n) == Len(rQ) - i >= n
At(i, kind) == rQ[i + 1].kind = kind
Unread == SubSeq(rQ, rQi + 1, Len(rQ))

ViewOnly == Servers[server].viewOnly
dec == rfb.dec
R == rfb.rect.r
Of == rfb.rect.of
InRect == Of # <<>>
Piece(p) == Append(Of, p)
Empty == R.w * R.h = 0

\* Return false: go back to position i and wait for the next piece.
Pause(i, decoder) ==
  /\ rQi' = i
  /\ rfb' = [rfb EXCEPT !.pc = "idle", !.dec = decoder]
  /\ UNCHANGED <<outside, display, handled, owed>>

\* The next byte is not the first of the field the code takes it for: what
\* happens from here on is not modelled.
Derail ==
  /\ rfb' = [rfb EXCEPT !.pc = "idle", !.state = IF @ = "connected" THEN "lost" ELSE @]
  /\ UNCHANGED <<outside, rQi, display, handled, owed>>

\* _fail: the session is disconnected; most callers then return false.
Fail ==
  /\ rfb' = [rfb EXCEPT !.pc = "idle", !.state = "failed"]
  /\ UNCHANGED <<outside, rQi, display, handled, owed>>

\* rQwait for n bytes at the read position, then read the field kind there.
Read(kind, n, Then) ==
  IF ~Have(rQi, n) THEN Pause(rQi, dec)
  ELSE IF ~At(rQi, kind) THEN Derail ELSE Then

\* n bytes of a rectangle are read and it goes on.
Take(n, decoder, screen) ==
  /\ rQi' = rQi + n
  /\ rfb' = [rfb EXCEPT !.dec = decoder]
  /\ display' = screen
  /\ UNCHANGED <<outside, handled, owed>>

Handle(of, did) == handled' = Append(handled, [of |-> of, did |-> did])

\* _handleRect returns true after n more bytes.
EndRectWith(n, did, next, screen) ==
  /\ rQi' = rQi + n
  /\ rfb' = [next EXCEPT !.pc = "rects", !.rects = @ - 1, !.rect = NoRect]
  /\ display' = screen
  /\ Handle(Of, did)
  /\ UNCHANGED <<outside, owed>>

EndRect(n, decoder, screen) == EndRectWith(n, "drawn", [rfb EXCEPT !.dec = decoder], screen)

\* A message handler returns true with the read position at i.
EndMessage(i, did, next) ==
  /\ rQi' = i
  /\ rfb' = [next EXCEPT !.pc = IF Have(i, 1) THEN "message" ELSE "idle"]
  /\ Handle(<<rQ[rQi + 1].n, 0>>, did)
  /\ UNCHANGED <<outside, display>>

-----------------------------------------------------------------------------
(* Framebuffer updates.                                                    *)

AtMessage(type) ==
  /\ rfb.pc = "message" /\ ~display.flushing /\ rfb.rects = 0
  /\ At(rQi, "message") /\ rQ[rQi + 1].m.type = type

M == rQ[rQi + 1].m

\* _handleMessage while the screen is being flushed.
HoldMessages ==
  /\ rfb.pc = "message" /\ display.flushing
  /\ Pause(rQi, dec)

Misaligned ==
  /\ rfb.pc = "message" /\ ~display.flushing /\ rfb.rects = 0
  /\ ~At(rQi, "message")
  /\ Derail

\* (A mutant: the wait for the screen counts as the end of the update.)
UpdateHeaderAsks ==
  /\ AtMessage("update")
  /\ IF ~Have(rQi + 1, 3) THEN Pause(rQi + 1 - 1, dec)
     ELSE /\ rQi' = rQi + 4
          /\ rfb' = [rfb EXCEPT !.rects = M.count, !.update = rQ[rQi + 1].n,
                                !.pc = IF Pending(display) THEN "idle" ELSE "rects"]
          /\ display' = [display EXCEPT !.flushing = Pending(display)]
          /\ owed' = IF Pending(display) /\ ~rfb.continuous THEN owed + 1 ELSE owed
          /\ UNCHANGED <<outside, handled>>

UpdateHeader ==
  /\ AtMessage("update")
  /\ IF ~Have(rQi + 1, 3) THEN Pause(rQi + 1 - 1, dec)
     ELSE /\ rQi' = rQi + 4
          /\ rfb' = [rfb EXCEPT !.rects = M.count, !.update = rQ[rQi + 1].n,
                                !.hollow = @ \/ (M.count = 0 /\ Pending(display)),
                                !.pc = IF Pending(display) THEN "idle" ELSE "rects"]
          /\ display' = [display EXCEPT !.flushing = Pending(display)]
          /\ IF M.count = 0 /\ Pending(display)
             THEN Handle(<<rQ[rQi + 1].n, 0>>, "dropped")
             ELSE UNCHANGED handled
          /\ UNCHANGED <<outside, owed>>

\* _normalMsg with rectangles left.
ResumeUpdate ==
  /\ rfb.pc = "message" /\ ~display.flushing /\ rfb.rects > 0
  /\ rfb' = [rfb EXCEPT !.pc = IF ~InRect THEN "rects" ELSE "rect"]
  /\ UNCHANGED <<outside, rQi, display, handled, owed>>

RectHeader ==
  /\ rfb.pc = "rects" /\ rfb.rects > 0
  /\ Read("rect", 12,
       /\ rQi' = rQi + 12
       /\ rfb' = [rfb EXCEPT !.pc = "rect",
                             !.rect = [of |-> rQ[rQi + 1].of, r |-> rQ[rQi + 1].r]]
       /\ UNCHANGED <<outside, display, handled, owed>>)

\* The update is complete: show it and ask for the next.
EndUpdate ==
  /\ rfb.pc = "rects" /\ rfb.rects = 0
  /\ display' = Submit(display, Flip)
  /\ owed' = IF rfb.continuous THEN owed ELSE owed + 1
  /\ Handle(<<rfb.update, 0>>, "update")
  /\ rfb' = [rfb EXCEPT !.pc = IF Have(rQi, 1) THEN "message" ELSE "idle"]
  /\ UNCHANGED <<outside, rQi>>

Decoding(encs) == rfb.pc = "rect" /\ R.enc \in encs

-----------------------------------------------------------------------------
(* Pseudo rectangles.                                                      *)

\* (A mutant: the rectangle is counted off as any other.)
LastRectIsZero ==
  Decoding({"lastrect"}) /\ EndRectWith(0, "last", [rfb EXCEPT !.rects = 0], display)

LastRect == Decoding({"lastrect"}) /\ EndRectWith(0, "last", [rfb EXCEPT !.rects = 1], display)

QemuKeys == Decoding({"qemukeys"}) /\ EndRectWith(0, "qemukeys", rfb, display)

MouseButtons == Decoding({"mousebuttons"}) /\ EndRectWith(0, "mousebuttons", rfb, display)

\* The type of the cursor is waited for with one byte and read with two; read
\* past the end, the queue is short by one at the second wait.
VMwareCursor ==
  /\ Decoding({"vmwarecursor"})
  /\ LET pixels == (IF R.classic THEN 8 ELSE 4) * R.w * R.h
     IN Read("vmware", 1,
          IF ~Have(rQi + 2, pixels) THEN Pause(rQi + 2 - 2, dec)
          ELSE EndRectWith(2 + pixels, "cursor", rfb, display))

Cursor ==
  /\ Decoding({"cursor"})
  /\ LET bytes == 4 * R.w * R.h + CeilDiv(R.w, 8) * R.h
     IN IF ~Have(rQi, bytes) THEN Pause(rQi, dec)
        ELSE EndRectWith(bytes, "cursor", rfb, display)

\* (A mutant: the length is not put back.)
DesktopNameKeepsPosition ==
  /\ Decoding({"name"})
  /\ Read("length", 4,
       IF ~Have(rQi + 4, R.len) THEN Pause(rQi + 4, dec)
       ELSE EndRectWith(4 + R.len, "name", rfb, display))

DesktopName ==
  /\ Decoding({"name"})
  /\ Read("length", 4,
       IF ~Have(rQi + 4, R.len) THEN Pause(rQi + 4 - 4, dec)
       ELSE EndRectWith(4 + R.len, "name", rfb, display))

LedEvent == Decoding({"led"}) /\ Read("led", 1, EndRectWith(1, "led", rfb, display))

DesktopSize == Decoding({"size"}) /\ EndRectWith(0, "size", rfb, Resize(display, <<R.w, R.h>>))

\* The number of screens is peeked at.  A refused request changes no size.
ExtendedDesktopSize ==
  /\ Decoding({"extsize"})
  /\ Read("screens", 4,
       LET bytes == 4 + R.screens * 16
           screen == IF R.refused THEN display ELSE Resize(display, <<R.w, R.h>>)
       IN IF ~Have(rQi, bytes) THEN Pause(rQi, dec)
          ELSE EndRectWith(bytes, "size", rfb, screen))

UnknownEncoding == Decoding({"unknown"}) /\ Fail

-----------------------------------------------------------------------------
(* Decoders.  Each is called again for the rest of a rectangle and keeps   *)
(* in dec how far it is; one action is one turn of its loop.               *)

Raw ==
  /\ Decoding({"raw"})
  /\ LET lines == IF dec.lines = 0 THEN R.h ELSE dec.lines
         screen == Blit(display, Piece(R.h - lines + 1), TRUE)
         next == [dec EXCEPT !.lines = lines - 1]
     IN IF Empty THEN EndRect(0, dec, display)
        ELSE IF ~Have(rQi, 4 * R.w) THEN Pause(rQi, [dec EXCEPT !.lines = lines])
        ELSE IF ~At(rQi, "line") THEN Derail
        ELSE IF lines = 1 THEN EndRect(4 * R.w, next, screen)
        ELSE Take(4 * R.w, next, screen)

CopyRect ==
  /\ Decoding({"copyrect"})
  /\ Read("source", 4,
       EndRect(4, dec, IF Empty THEN display ELSE Submit(display, Op("copy", Piece(1)))))

RreBackground ==
  /\ Decoding({"rre"}) /\ dec.subrects = 0
  /\ LET screen == Submit(display, Op("fill", Piece(1)))
     IN Read("rre", 8,
          IF R.subrects = 0 THEN EndRect(8, dec, screen)
          ELSE Take(8, [dec EXCEPT !.subrects = R.subrects], screen))

RreSubrect ==
  /\ Decoding({"rre"}) /\ dec.subrects > 0
  /\ LET screen == Submit(display, Op("fill", Piece(R.subrects - dec.subrects + 2)))
         next == [dec EXCEPT !.subrects = @ - 1]
     IN Read("subrect", 12,
          IF dec.subrects = 1 THEN EndRect(12, next, screen) ELSE Take(12, next, screen))

\* A tile is read whole; its number of subrectangles is peeked at.
Hextile ==
  /\ Decoding({"hextile"})
  /\ LET tiles == IF dec.tiles = 0 THEN TileTotal(R) ELSE dec.tiles
         k == TileTotal(R) - tiles + 1
         t == R.tiles[k]
         colours == (IF t.background THEN 4 ELSE 0) + (IF t.foreground THEN 4 ELSE 0)
         bytes == 1 + IF t.raw THEN TileArea(R, k) * 4
                      ELSE colours + IF ~t.any THEN 0
                                     ELSE 1 + t.subrects * (IF t.coloured THEN 6 ELSE 2)
         blank == ~t.raw /\ ~t.background /\ ~t.foreground /\ ~t.any
         screen == IF blank
                   THEN IF dec.lastRaw THEN display
                        ELSE Submit(display, Op("fill", Piece(k)))
                   ELSE Blit(display, Piece(k), t.raw)
         next == [dec EXCEPT !.tiles = tiles - 1, !.lastRaw = t.raw]
     IN IF TileTotal(R) = 0 THEN EndRect(0, dec, display)
        ELSE IF \/ ~Have(rQi, 1)
                \/ ~t.raw /\ t.any /\ ~Have(rQi, 1 + colours + 1)
                \/ ~Have(rQi, bytes)
        THEN Pause(rQi, [dec EXCEPT !.tiles = tiles])
        ELSE IF ~At(rQi, "tile") THEN Derail
        ELSE IF tiles = 1 THEN EndRect(bytes, next, screen) ELSE Take(bytes, next, screen)

\* zlib and ZRLE: a length, and then that much compressed data.
ZlibLength ==
  /\ Decoding({"zlib", "zrle"}) /\ dec.length = 0
  /\ IF R.enc = "zlib" /\ Empty THEN EndRect(0, dec, display)
     ELSE Read("length", 4, Take(4, [dec EXCEPT !.length = R.len], display))

Zlib ==
  /\ Decoding({"zlib"}) /\ dec.length > 0
  /\ Read("data", dec.length,
       IF ~R.good THEN Fail
       ELSE EndRect(dec.length, [dec EXCEPT !.length = 0], Blit(display, Piece(1), FALSE)))

Zrle ==
  /\ Decoding({"zrle"}) /\ dec.length > 0
  /\ LET tiles == [p \in 1 .. R.tiles |-> Op("blit", Piece(p))]
     IN Read("data", dec.length,
          IF ~R.good THEN Fail
          ELSE EndRect(dec.length, [dec EXCEPT !.length = 0],
                       FoldLeft(Submit, display, tiles)))

-----------------------------------------------------------------------------
(* Tight: _ctl, _filter, _numColors and _len are kept while waiting.       *)

Tight(control) ==
  Decoding({"tight", "tightpng"}) /\ dec.control \in control

EndTight(n, next, screen) ==
  EndRect(n, [next EXCEPT !.control = None, !.filter = None], screen)

TightControl ==
  /\ Tight({None})
  /\ Read("control", 1, Take(1, [dec EXCEPT !.control = R.control], display))

TightFill ==
  /\ Tight({"fill"})
  /\ Read("colour", 3, EndTight(3, dec, Submit(display, Op("fill", Piece(1)))))

Refused == dec.control \in (IF R.enc = "tight" THEN {"png", "illegal"} ELSE {"basic", "illegal"})
TightIllegal == Tight({"png", "basic", "illegal"}) /\ Refused /\ Fail

TightFilter ==
  /\ Tight({"basic"}) /\ ~Refused /\ dec.filter = None
  /\ LET next == [dec EXCEPT !.filter = R.filter]
     IN IF R.explicit THEN Read("filter", 1, Take(1, next, display))
        ELSE Take(0, [dec EXCEPT !.filter = "copy"], display)

TightPalette ==
  /\ Tight({"basic"}) /\ dec.filter = "palette" /\ dec.colours = 0
  /\ IF ~Have(rQi, 1) \/ ~Have(rQi, 1 + 3 * R.colours) THEN Pause(rQi, dec)
     ELSE Read("palette", 1 + 3 * R.colours,
            Take(1 + 3 * R.colours, [dec EXCEPT !.colours = R.colours], display))

\* _readData: the length takes one to three bytes, and three are waited for.
TightLength(fits) ==
  /\ fits /\ dec.len = 0
  /\ IF ~Have(rQi, 3) THEN Pause(rQi, dec)
     ELSE Read("length", R.lenBytes, Take(R.lenBytes, [dec EXCEPT !.len = R.len], display))

TightPicture ==
  /\ Tight({"jpeg", "png"}) /\ ~Refused
  /\ \/ TightLength(TRUE)
     \/ /\ dec.len > 0
        /\ Read("data", dec.len,
             EndTight(dec.len, [dec EXCEPT !.len = 0],
                      ImageRect(display, Piece(1), Empty, R.good)))

\* Without pixels the palette is kept.
TightPixels ==
  /\ Tight({"basic"}) /\ dec.filter # None
  /\ dec.filter = "palette" => dec.colours > 0
  /\ LET size == PixelBytes(R, dec.filter, dec.colours)
         next == [dec EXCEPT !.len = 0, !.colours = 0]
         screen == Blit(display, Piece(1), FALSE)
     IN \/ /\ size = 0
           /\ EndTight(0, dec, display)
        \/ /\ size > 0 /\ size < Small
           /\ Read("data", size, EndTight(size, next, screen))
        \/ TightLength(size >= Small)
        \/ /\ size >= Small /\ dec.len > 0
           /\ Read("data", dec.len,
                IF ~R.good THEN Fail ELSE EndTight(dec.len, next, screen))

-----------------------------------------------------------------------------
(* JPEG and H.264.                                                         *)

\* The segments of a file are collected; tables it lacks are those of an
\* earlier file.  The end of a scan is the marker after it.
Jpeg ==
  /\ Decoding({"jpeg"})
  /\ LET s == rQ[rQi + 1].s
         segments == Append(dec.segments, s.type)
         tables == dec.tables \/ "tables" \in Range(segments)
         bytes == IF s.type \in Markers THEN 2 ELSE 2 + s.len + s.scan
     IN Read("segment", 2,
          IF s.type \notin Markers /\ ~Have(rQi + 2, 2) THEN Pause(rQi + 2 - 2, dec)
          ELSE IF s.type \notin Markers /\ ~Have(rQi + 4, s.len - 2)
          THEN Pause(rQi + 4 - 4, dec)
          ELSE IF s.type = "scan" /\ ~Have(rQi + 4, s.len - 2 + s.scan + 2)
          THEN Pause(rQi + 4 - 4, dec)
          ELSE IF s.type # "end"
          THEN Take(bytes, [dec EXCEPT !.segments = segments], display)
          ELSE IF "frame" \notin Range(segments) THEN Fail
          ELSE EndRect(2, [dec EXCEPT !.segments = <<>>, !.tables = tables],
                       ImageRect(display, Piece(1), Empty, R.good /\ tables)))

\* A context per place on the screen; it is of use from its first key frame.
H264 ==
  /\ Decoding({"h264"})
  /\ LET kept == CASE R.reset = "all" -> {}
                   [] R.reset = "this" -> dec.contexts \ {R.place}
                   [] OTHER -> dec.contexts
         decodes == R.len > 0 /\ R.frames > 0 /\ (R.key \/ R.place \in kept)
     IN Read("h264", 8,
          IF ~Have(rQi + 8, R.len) THEN Pause(rQi + 8 - 8, dec)
          ELSE EndRect(8 + R.len,
                 [dec EXCEPT !.contexts = kept \cup (IF decodes THEN {R.place} ELSE {})],
                 IF decodes THEN VideoFrame(display, Piece(1), R.good) ELSE display))

-----------------------------------------------------------------------------
(* Other messages.                                                         *)

Bell ==
  /\ AtMessage("bell")
  /\ EndMessage(rQi + 1, "bell", rfb)
  /\ UNCHANGED owed

\* ServerCutText: a header of 7 bytes, then its contents.
CutTextWaits ==
  /\ AtMessage("cut")
  /\ \/ ~Have(rQi + 1, 7) /\ Pause(rQi + 1 - 1, dec)
     \/ Have(rQi + 1, 7) /\ ~Have(rQi + 8, M.len) /\ Pause(rQi + 8 - 8, dec)

CutText(actions) ==
  AtMessage("cut") /\ M.action \in actions /\ Have(rQi + 8, M.len) /\ UNCHANGED owed

CutTextPlain ==
  /\ CutText({"plain"})
  /\ EndMessage(rQi + 8 + M.len, IF ViewOnly THEN "quiet" ELSE "clipboard", rfb)

\* Flags, and a size for every format.
CutTextCaps ==
  /\ CutText({"caps"})
  /\ EndMessage(rQi + 12 + 4 * M.formats, "caps", [rfb EXCEPT !.actions = M.offers])

\* Requests for what the page never has: nothing is ever pasted into it.  A
\* notification is answered by a request for the text.
CutTextAsks ==
  /\ CutText({"request", "peek", "notify"})
  /\ LET answer == CASE ViewOnly -> "quiet"
                     [] M.action = "peek" /\ "notify" \in rfb.actions -> "notify"
                     [] M.action = "notify" /\ "request" \in rfb.actions /\ M.text -> "request"
                     [] OTHER -> "quiet"
     IN EndMessage(rQi + 12, answer, rfb)

\* In view-only, or without text, the data is left in the receive queue.
CutTextProvide ==
  /\ CutText({"provide"})
  /\ IF ViewOnly \/ ~M.text
     THEN EndMessage(rQi + 12, "quiet", [rfb EXCEPT !.skipped = M.len > 4])
     ELSE EndMessage(rQi + 12 + (M.len - 4), "clipboard", rfb)

CutTextUnknown == CutText({"unknown"}) /\ Fail

\* An answer is sent at once, whatever still waits to be drawn; no more than
\* 64 bytes of the payload are read.
Fence ==
  /\ AtMessage("fence")
  /\ IF ~Have(rQi + 1, 8) THEN Pause(rQi + 1 - 1, dec)
     ELSE IF ~Have(rQi + 9, M.len) THEN Pause(rQi + 9 - 9, dec)
     ELSE IF ~M.request THEN Fail
     ELSE /\ EndMessage(rQi + 9 + (IF M.len > 64 THEN 64 ELSE M.len), "fence",
                        [rfb EXCEPT !.skipped = M.len > 64])
          /\ UNCHANGED owed

\* An unknown message fails the session too, but does not leave the loop.
Xvp ==
  /\ AtMessage("xvp")
  /\ IF ~Have(rQi + 1, 3) THEN Pause(rQi + 1 - 1, dec)
     ELSE /\ EndMessage(rQi + 4, IF M.op = "init" THEN "power" ELSE "quiet",
                        [rfb EXCEPT !.state = IF M.op \in {"fail", "init"} THEN @ ELSE "failed"])
          /\ UNCHANGED owed

Unknown ==
  /\ AtMessage("unknown")
  /\ EndMessage(rQi + 1, "quiet", [rfb EXCEPT !.state = "failed"])
  /\ UNCHANGED owed

ColourMap == AtMessage("colourmap") /\ Fail

\* The first one says that the server can; the client turns them on.
EndOfContinuousUpdates ==
  /\ AtMessage("endofcontinuous")
  /\ EndMessage(rQi + 1, "updates",
                [rfb EXCEPT !.canContinue = TRUE, !.continuous = ~rfb.canContinue])
  /\ UNCHANGED owed

-----------------------------------------------------------------------------
(* The server, the network and the browser.                                *)

\* An update answers a request, unless updates are continuous; the end of
\* continuous updates is announced once.
Transmit(m) ==
  /\ m.type = "update" => owed > 0 \/ rfb.continuous
  /\ m.type = "endofcontinuous" => m.type \notin Range(sent)
  /\ LET n == Len(sent) + 1
     IN /\ wire' = wire \o Bytes(n, m)
        /\ meant' = meant \o Parts(n, m)
        /\ due' = due \o Pieces(n, m)
  /\ sent' = Append(sent, m.type)
  /\ owed' = IF m.type = "update" /\ owed > 0 THEN owed - 1 ELSE owed
  /\ UNCHANGED <<server, rQ, rQi, display, handled>>

Send(m) == Len(sent) < Servers[server].max /\ Transmit(m) /\ UNCHANGED rfb

\* A websocket message with the next k bytes; what was read makes room.
Arrive(k) ==
  /\ rfb.pc = "idle" /\ rfb.state = "connected"
  /\ rQ' = Unread \o SubSeq(wire, 1, k)
  /\ rQi' = 0
  /\ wire' = SubSeq(wire, k + 1, Len(wire))
  /\ rfb' = [rfb EXCEPT !.pc = "message"]
  /\ UNCHANGED <<server, sent, meant, due, owed, display, handled>>

\* (A mutant: the messages held back wait for the next one to arrive.)
PictureReadyOnlyDraws(i) ==
  /\ rfb.pc = "idle"
  /\ i \in DOMAIN display.queue /\ display.queue[i].state = "loading"
  /\ LET screen == Decoded(display, i)
     IN display' = [screen EXCEPT !.flushing = @ /\ ~Flushed(screen)]
  /\ UNCHANGED <<net, owed, rQ, rQi, rfb, handled>>

\* The browser has decoded the picture of entry i.  When that was the last,
\* the promise of flush() goes on with the messages.
PictureReady(i) ==
  /\ rfb.pc = "idle"
  /\ i \in DOMAIN display.queue /\ display.queue[i].state = "loading"
  /\ LET screen == Decoded(display, i)
         resumes == Flushed(screen)
     IN /\ display' = [screen EXCEPT !.flushing = @ /\ ~resumes]
        /\ rfb' = [rfb EXCEPT !.pc = IF resumes /\ rfb.state = "connected" /\ Have(rQi, 1)
                                     THEN "message" ELSE "idle"]
  /\ UNCHANGED <<net, owed, rQ, rQi, handled>>

-----------------------------------------------------------------------------
Update ==
  \/ UpdateHeader \/ ResumeUpdate \/ RectHeader \/ EndUpdate

PseudoRect ==
  \/ LastRect \/ QemuKeys \/ MouseButtons \/ VMwareCursor \/ Cursor \/ DesktopName
  \/ LedEvent \/ DesktopSize \/ ExtendedDesktopSize \/ UnknownEncoding

DataRect ==
  \/ Raw \/ CopyRect \/ RreBackground \/ RreSubrect \/ Hextile
  \/ ZlibLength \/ Zlib \/ Zrle
  \/ TightControl \/ TightFill \/ TightIllegal \/ TightFilter \/ TightPalette
  \/ TightPicture \/ TightPixels \/ Jpeg \/ H264

Message ==
  \/ HoldMessages \/ Misaligned \/ Bell
  \/ CutTextWaits \/ CutTextPlain \/ CutTextCaps \/ CutTextAsks \/ CutTextProvide
  \/ CutTextUnknown \/ Fence \/ Xvp \/ Unknown \/ ColourMap \/ EndOfContinuousUpdates

Handler == Update \/ PseudoRect \/ DataRect \/ Message

Init ==
  /\ server \in DOMAIN Servers
  /\ wire = <<>> /\ sent = <<>> /\ meant = <<>> /\ due = <<>> /\ handled = <<>>
  /\ owed = 1
  /\ rQ = <<>> /\ rQi = 0
  /\ rfb = [pc |-> "idle", state |-> "connected",
            rects |-> 0, rect |-> NoRect, update |-> 0,
            canContinue |-> FALSE, continuous |-> FALSE, actions |-> {},
            skipped |-> FALSE, hollow |-> FALSE,
            dec |-> [lines |-> 0, subrects |-> 0, tiles |-> 0, lastRaw |-> FALSE,
                     length |-> 0, control |-> None, filter |-> None, colours |-> 0,
                     len |-> 0, segments |-> <<>>, tables |-> FALSE, contexts |-> {}]]
  /\ display = NewDisplay(Servers[server].size)

Next ==
  \/ \E m \in Servers[server].menu : Send(m)
  \/ \E k \in 1 .. Len(wire) : Arrive(k)
  \/ \E i \in DOMAIN display.queue : PictureReady(i)
  \/ Handler

Spec == Init /\ [][Next]_vars

\* Handlers run to their end, the network delivers and the browser decodes.
FairSpec ==
  /\ Spec
  /\ WF_vars(Handler)
  /\ WF_vars(\E k \in 1 .. Len(wire) : Arrive(k))
  /\ WF_vars(\E i \in DOMAIN display.queue : PictureReady(i))

-----------------------------------------------------------------------------
(* Properties.                                                             *)

\* The receive position stays in the queue, no rectangle is open between
\* updates, a listener waits only at the head of the render queue, and a
\* flush is awaited only while something is in it (rfb.js, websock.js,
\* display.js).
TypeOK ==
  /\ server \in DOMAIN Servers
  /\ rQi \in 0 .. Len(rQ) /\ owed \in 0 .. Len(sent) + 1
  /\ rfb.pc \in {"idle", "message", "rects", "rect"}
  /\ rfb.state \in {"connected", "failed", "lost"}
  /\ rfb.rects \in 0 .. AnyNumber
  /\ (rfb.rects = 0 \/ rfb.pc = "rects") => ~InRect
  /\ (rfb.pc = "rect") => InRect
  /\ display.visible \in 0 .. Len(display.drawn)
  /\ \A i \in DOMAIN display.queue : display.queue[i].heard => i = 1
  /\ display.flushing => Pending(display)

\* In whatever pieces the bytes come and however long pictures take: every
\* message and rectangle is read from its first byte on and handled once, in
\* the order of the server, and every piece of picture is drawn once, in that
\* order too (the waits of rfb.js:2621-2668 and of the decoders, the queue of
\* display.js:482-574).  Only a clipboard the page does not want
\* (rfb.js:2435-2442) and a fence of more than 64 bytes (rfb.js:2505) leave
\* bytes behind that are then taken for messages.
HandledAsSent ==
  /\ IsPrefix([i \in DOMAIN handled |-> handled[i].of], meant)
  /\ IsPrefix(display.drawn, due)
  /\ rfb.state = "lost" => rfb.skipped

\* While updates are not continuous exactly one is under way, asked for or
\* being handled: with none the screen would freeze (rfb.js:2572-2579).  Only
\* an update without rectangles, come while the screen is being drawn, is
\* never answered (rfb.js:2621-2641).
OneUpdateUnderWay ==
  LET Count(s, Test(_)) == Cardinality({i \in DOMAIN s : Test(s[i])})
      asked == Count(sent, LAMBDA type : type = "update")
      done == Count(handled, LAMBDA h : h.did \in {"update", "dropped"})
  IN rfb.state = "connected" /\ ~rfb.canContinue =>
       owed + asked - done = IF rfb.hollow THEN 0 ELSE 1

\* Everything the server sends is in the end handled, drawn and visible, if
\* the session lasts and the browser can decode its pictures
\* (rfb.js:2627-2640, display.js:253-314).
EverythingIsShown ==
  []<>(\/ rfb.state # "connected"
       \/ \E i \in DOMAIN display.queue : display.queue[i].state = "broken"
       \/ /\ wire = <<>> /\ rfb.pc = "idle" /\ Unread = <<>>
          /\ Len(handled) = Len(meant) /\ display.drawn = due
          /\ display.visible = Len(due) /\ ~Pending(display))
=============================================================================
