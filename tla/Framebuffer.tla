---------------------------- MODULE Framebuffer ----------------------------
(***************************************************************************)
(* pkg/framebuffer: Open checks what the device says of itself, maps its   *)
(* memory and hands it out as a draw.Image in one of four pixel formats;   *)
(* every step may fail, and what was acquired before is then released by   *)
(* deferred calls.  Set and At pack a colour into bytes and back.  Beside  *)
(* the driver stands the display hardware, which decodes the same bytes by *)
(* the bit fields the device reports, not by the driver's formats.         *)
(***************************************************************************)
EXTENDS Integers, Sequences, FiniteSets

CONSTANTS Devices,   \* what the two ioctls may report
          Colours,   \* premultiplied colours drawn on the panel
          Leftover,  \* the byte the previous run left all over the memory
          MaxSets    \* bound: pixels set after Open

Byte == 0..255
Field == [off : 0..31, len : 0..8]
Channels == {"red", "green", "blue"}

\* the fields of FixScreenInfo and VarScreenInfo that Open reads; the kernel
\* keeps the visible rectangle inside a line, and the lines inside the memory
Device(d) ==
  /\ {d.packed, d.truecolor} \subseteq BOOLEAN
  /\ d.bpp \in {8, 16, 24, 32}
  /\ \A f \in Channels \cup {"transp"} : d[f] \in Field
  /\ {d.xres, d.yres} \subseteq Nat \ {0} /\ {d.xoff, d.yoff} \subseteq Nat
  /\ {d.line, d.smem} \subseteq Nat
  /\ (d.xoff + d.xres) * (d.bpp \div 8) <= d.line
  /\ (d.yoff + d.yres) * d.line <= d.smem

ASSUME DevicesAssumption == \A d \in Devices : Device(d)
ASSUME BoundsAssumption ==
  /\ Colours \subseteq [red : Byte, green : Byte, blue : Byte, alpha : Byte]
  /\ \A c \in Colours : \A f \in Channels : c[f] <= c.alpha
  /\ Leftover \in Byte /\ MaxSets \in Nat

VARIABLES dev,    \* the device, as the kernel reports it
          pc,     \* Open's next step, "done", or "failed"
          fd,     \* the descriptor
          map,    \* the mapping
          format, \* the draw.Image handed out
          mem,    \* the framebuffer's bytes
          shown   \* history: the colour last set at each visible point

vars == <<dev, pc, fd, map, format, mem, shown>>

NoFormat == "none"
Untouched == [untouched |-> TRUE]

-----------------------------------------------------------------------------
\* The formats.  A field is bits off .. off+len-1 of a little-endian pixel.

Bits(o, l) == [off |-> o, len |-> l]
RGB888 == [blue |-> Bits(0, 8), green |-> Bits(8, 8), red |-> Bits(16, 8)]
RGB565 == [blue |-> Bits(0, 5), green |-> Bits(5, 6), red |-> Bits(11, 5)]

\* a wrong version: the offsets of the 32-bit fields go unchecked
AcceptsByLength(d, f) ==
  LET Has(rgb) == \A c \in Channels : d[c].len = rgb[c].len
  IN CASE f = "BGR32" -> d.bpp = 32 /\ Has(RGB888) /\ d.transp.len = 0
       [] f = "NBGRA" -> d.bpp = 32 /\ Has(RGB888) /\ d.transp = Bits(24, 8)
       [] f = "BGR" -> d.bpp = 24 /\ Has(RGB888) /\ d.transp.len = 0
       [] f = "BGR565" -> d.bpp = 16 /\ Has(RGB565) /\ d.transp.len = 0

\* which layouts Open's switch accepts, and as what; without a transparency
\* field its offset is not looked at
Accepts(d, f) ==
  LET Has(rgb) == \A c \in Channels : d[c] = rgb[c]
  IN CASE f = "BGR32" -> d.bpp = 32 /\ Has(RGB888) /\ d.transp.len = 0
       [] f = "NBGRA" -> d.bpp = 32 /\ Has(RGB888) /\ d.transp = Bits(24, 8)
       [] f = "BGR" -> d.bpp = 24 /\ Has(RGB888) /\ d.transp.len = 0
       [] f = "BGR565" -> d.bpp = 16 /\ Has(RGB565) /\ d.transp.len = 0
Formats == {"BGR32", "NBGRA", "BGR", "BGR565"}

BytesPerPixel(f) == CASE f \in {"BGR32", "NBGRA"} -> 4
                      [] f = "BGR" -> 3
                      [] f = "BGR565" -> 2
PixOffset(f, p) == p[2] * dev.line + p[1] * BytesPerPixel(f)

\* the image's rectangle: the visible part of the virtual screen
Rect(d) == (d.xoff .. d.xoff + d.xres - 1) \X (d.yoff .. d.yoff + d.yres - 1)

\* color.NRGBAModel.Convert: undoes the premultiplication, in 16 bits
Convert(c) ==
  LET Straight(v) == IF c.alpha = 0 THEN 0 ELSE (v * 65535) \div (256 * c.alpha)
  IN [red |-> Straight(c.red), green |-> Straight(c.green),
      blue |-> Straight(c.blue), alpha |-> c.alpha]

\* a wrong version: the shifts done in an int, so that bits spill over the byte
Pack565Wide(c) ==
  <<(c.blue \div 8) + (c.green \div 4) * 32, (c.green \div 32) + (c.red \div 8) * 8>>
\* Set's uint8 arithmetic; the bits it ORs together never overlap
Pack565(c) ==
  <<(c.blue \div 8) + (((c.green \div 4) * 32) % 256),
    (c.green \div 32) + (((c.red \div 8) * 8) % 256)>>
Pack(f, c) ==
  CASE f = "BGR565" -> Pack565(c)
    [] f \in {"BGR", "BGR32"} -> <<c.blue, c.green, c.red>>
    [] f = "NBGRA" -> <<c.blue, c.green, c.red, c.alpha>>

\* At's uint8 arithmetic
Unpack565(b) ==
  [red |-> (b[2] \div 8) * 8,
   green |-> ((b[2] * 32) % 256) + (b[1] \div 32) * 4,
   blue |-> (b[1] * 8) % 256, alpha |-> 255]
Unpack(f, b) ==
  CASE f = "BGR565" -> Unpack565(b)
    [] f \in {"BGR", "BGR32"} ->
         [red |-> b[3], green |-> b[2], blue |-> b[1], alpha |-> 255]
    [] f = "NBGRA" -> [red |-> b[3], green |-> b[2], blue |-> b[1], alpha |-> b[4]]
At(p) ==
  IF p \in Rect(dev)
  THEN Unpack(format, [i \in 1..BytesPerPixel(format) |-> mem[PixOffset(format, p) + i - 1]])
  ELSE [red |-> 0, green |-> 0, blue |-> 0, alpha |-> 0]

-----------------------------------------------------------------------------
Init ==
  /\ dev \in Devices
  /\ pc = "open" /\ fd = "none" /\ map = "none" /\ format = NoFormat
  /\ mem = [i \in 0..(dev.smem - 1) |-> Leftover]
  /\ shown = [p \in Rect(dev) |-> Untouched]

\* a wrong version: a return that keeps the mapping
FailsKeeping == /\ pc' = "failed"
                /\ fd' = IF fd = "open" THEN "closed" ELSE fd
                /\ UNCHANGED <<dev, map, format, mem, shown>>
\* an early return after os.OpenFile: the deferred calls run
Fails == /\ pc' = "failed"
         /\ fd' = IF fd = "open" THEN "closed" ELSE fd
         /\ map' = IF map = "mapped" THEN "released" ELSE map
         /\ UNCHANGED <<dev, format, mem, shown>>

OpenFile ==
  /\ pc = "open"
  /\ \/ Fails
     \/ pc' = "fix" /\ fd' = "open" /\ UNCHANGED <<dev, map, format, mem, shown>>

\* FBIOGET_FSCREENINFO, and the two checks of its answer
GetFix ==
  /\ pc = "fix"
  /\ \/ Fails
     \/ /\ dev.packed /\ dev.truecolor
        /\ pc' = "var" /\ UNCHANGED <<dev, fd, map, format, mem, shown>>

GetVar ==
  /\ pc = "var"
  /\ \/ Fails
     \/ pc' = "mmap" /\ UNCHANGED <<dev, fd, map, format, mem, shown>>

Mmap ==
  /\ pc = "mmap"
  /\ \/ Fails
     \/ /\ map' = "mapped" /\ pc' = "switch"
        /\ UNCHANGED <<dev, fd, format, mem, shown>>

\* the switch over the pixel formats; success leaves the mapping to the image
Hand ==
  /\ pc = "switch"
  /\ \/ /\ \A f \in Formats : ~Accepts(dev, f)
        /\ Fails
     \/ /\ \E f \in Formats : Accepts(dev, f) /\ format' = f
        /\ pc' = "done" /\ fd' = "closed"
        /\ UNCHANGED <<dev, map, mem, shown>>

\* (*F).Set: outside the rectangle nothing happens
Set(p, c) ==
  /\ pc = "done"
  /\ IF p \in Rect(dev)
     THEN LET off == PixOffset(format, p)
              bytes == Pack(format, Convert(c))
          IN mem' = [i \in DOMAIN mem |->
                       IF i \in off .. off + Len(bytes) - 1 THEN bytes[i - off + 1]
                       ELSE mem[i]]
     ELSE UNCHANGED mem
  /\ shown' = [q \in DOMAIN shown |-> IF q = p THEN Convert(c) ELSE shown[q]]
  /\ UNCHANGED <<dev, pc, fd, map, format>>

\* the visible points and a border of points around them
Points(d) == (d.xoff - 1 .. d.xoff + d.xres) \X (d.yoff - 1 .. d.yoff + d.yres)
Touched == {p \in DOMAIN shown : shown[p] # Untouched}
WithinBound(p) == Cardinality(Touched \cup ({p} \cap Rect(dev))) <= MaxSets

Next == \/ OpenFile \/ GetFix \/ GetVar \/ Mmap \/ Hand
        \/ \E p \in Points(dev), c \in Colours : WithinBound(p) /\ Set(p, c)

Spec == Init /\ [][Next]_vars

-----------------------------------------------------------------------------
\* The display hardware: the channels of a point as it decodes them.

Pixel(p, i) == mem[p[2] * dev.line + p[1] * (dev.bpp \div 8) + i]
Decoded(p, f) ==
  LET first == dev[f].off \div 8
      last == (dev[f].off + dev[f].len - 1) \div 8
      word == Pixel(p, first) + (IF last > first THEN 256 * Pixel(p, last) ELSE 0)
  IN (word \div 2^(dev[f].off % 8)) % 2^(dev[f].len)
Coarse(v, f) == v \div 2^(8 - dev[f].len)  \* what fits the channel

\* The driver's state keeps its types, and an image is handed out only at the
\* end of a successful Open.
FramebufferTypeOK ==
  /\ dev \in Devices
  /\ pc \in {"open", "fix", "var", "mmap", "switch", "done", "failed"}
  /\ fd \in {"none", "open", "closed"}
  /\ map \in {"none", "mapped", "released"}
  /\ format \in Formats \cup {NoFormat}
  /\ format # NoFormat <=> pc = "done"
  /\ DOMAIN mem = 0 .. dev.smem - 1
  /\ \A i \in DOMAIN mem : mem[i] \in Byte

\* However Open ends, the descriptor is closed, and the memory stays mapped
\* exactly when an image was handed out (framebuffer.go:186 and 212: "any
\* return that does NOT hand the mapping to a draw.Image must release it").
OpenReleases ==
  pc \in {"done", "failed"} => /\ fd # "open"
                               /\ map = "mapped" <=> pc = "done"

\* The panel shows what was drawn and nothing else: whatever layout and panning
\* the device reports, if Open accepts it then the hardware decodes at every
\* point set the colour last set there, as precisely as its channel holds; At
\* reads back exactly that much of it; and every other byte, the margins and
\* the line padding included, is as it was.
ShowsWhatWasSet ==
  LET size == dev.bpp \div 8
      BytesOf(p) == {p[2] * dev.line + p[1] * size + i : i \in 0 .. size - 1}
  IN /\ \A p \in Touched : \A f \in Channels :
          LET held == Coarse(shown[p][f], f)
          IN Decoded(p, f) = held /\ At(p)[f] = held * 2^(8 - dev[f].len)
     /\ \A p \in Touched : At(p).alpha = IF format = "NBGRA" THEN shown[p].alpha ELSE 255
     /\ \A i \in DOMAIN mem : (\A p \in Touched : i \notin BytesOf(p)) => mem[i] = Leftover

=============================================================================
