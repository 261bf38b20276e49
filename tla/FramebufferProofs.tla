------------------------- MODULE FramebufferProofs -------------------------
(***************************************************************************)
(* For every device the kernel may report: Open releases what it acquired, *)
(* the 16-bit format loses only what its channels cannot hold, every byte  *)
(* the driver stores is a byte, and the display shows what was drawn, in   *)
(* any of the four formats, wherever the visible part lies in the memory.  *)
(***************************************************************************)
EXTENDS Framebuffer, TLAPS

NRGBA == [red : Byte, green : Byte, blue : Byte, alpha : Byte]

\* A byte as its leading five bits and the rest.
LEMMA SplitByte ==
  ASSUME NEW v \in 0..255
  PROVE  \E h \in 0..31, l \in 0..7 : v = 8 * h + l
<1>1. v \div 8 \in 0..31 /\ v % 8 \in 0..7 /\ v = 8 * (v \div 8) + (v % 8)
  OBVIOUS
<1> QED
  BY <1>1

\* A byte as green is packed: three bits for one byte, three for the other.
LEMMA SplitGreen ==
  ASSUME NEW v \in 0..255
  PROVE  \E h \in 0..7, m \in 0..7, l \in 0..3 : v = 32 * h + 4 * m + l
<1> DEFINE w == v % 32
<1>1. v \div 32 \in 0..7 /\ w \in 0..31 /\ v = 32 * (v \div 32) + w
  OBVIOUS
<1>2. w \div 4 \in 0..7 /\ w % 4 \in 0..3 /\ w = 4 * (w \div 4) + (w % 4)
  BY <1>1
<1> HIDE DEF w
<1> QED
  BY <1>1, <1>2

\* Set's 16 bits are two bytes, and At returns from them each channel with its
\* low bits cleared: five bits of red and blue and six of green survive.
THEOREM RoundTrip565 ==
  ASSUME NEW c \in NRGBA
  PROVE  /\ Pack565(c) \in Seq(Byte) /\ Len(Pack565(c)) = 2
         /\ Unpack565(Pack565(c)) = [red |-> (c.red \div 8) * 8,
                                     green |-> (c.green \div 4) * 4,
                                     blue |-> (c.blue \div 8) * 8, alpha |-> 255]
<1>1. c.red \in 0..255 /\ c.green \in 0..255 /\ c.blue \in 0..255
  BY DEF NRGBA, Byte
<1>2. PICK b1 \in 0..31, b0 \in 0..7 : c.blue = 8 * b1 + b0
  BY <1>1, SplitByte
<1>3. PICK r1 \in 0..31, r0 \in 0..7 : c.red = 8 * r1 + r0
  BY <1>1, SplitByte
<1>4. PICK g2 \in 0..7, g1 \in 0..7, g0 \in 0..3 : c.green = 32 * g2 + 4 * g1 + g0
  BY <1>1, SplitGreen
<1>5. c.blue \div 8 = b1 /\ c.red \div 8 = r1 /\ c.green \div 4 = 8 * g2 + g1
      /\ c.green \div 32 = g2
  BY <1>2, <1>3, <1>4
<1> DEFINE lo == b1 + 32 * g1
           hi == g2 + 8 * r1
<1>6. ((8 * g2 + g1) * 32) % 256 = 32 * g1 /\ (r1 * 8) % 256 = 8 * r1
  OBVIOUS
<1>7. Pack565(c) = <<lo, hi>>
  BY <1>5, <1>6 DEF Pack565
<1>8. lo \in 0..255 /\ hi \in 0..255
  OBVIOUS
<1>9. Pack565(c) \in Seq(Byte) /\ Len(Pack565(c)) = 2
  BY <1>7, <1>8 DEF Byte
<1>10. Pack565(c)[1] = lo /\ Pack565(c)[2] = hi
  BY <1>7
<1>11. hi \div 8 = r1 /\ (hi * 32) % 256 = 32 * g2 /\ lo \div 32 = g1 /\ (lo * 8) % 256 = 8 * b1
  OBVIOUS
<1> HIDE DEF lo, hi
<1>12. Unpack565(Pack565(c)) = [red |-> r1 * 8, green |-> 32 * g2 + g1 * 4,
                                blue |-> 8 * b1, alpha |-> 255]
  BY <1>10, <1>11 DEF Unpack565
<1>13. (8 * g2 + g1) * 4 = 32 * g2 + g1 * 4 /\ b1 * 8 = 8 * b1
  OBVIOUS
<1> QED
  BY <1>5, <1>9, <1>12, <1>13

\* Undoing the premultiplication of a colour yields bytes.
LEMMA ConvertIsBytes ==
  ASSUME NEW c \in Colours
  PROVE  Convert(c) \in NRGBA
<1>1. c \in NRGBA /\ c.red <= c.alpha /\ c.green <= c.alpha /\ c.blue <= c.alpha
  BY BoundsAssumption DEF NRGBA, Channels
<1>2. ASSUME NEW v \in Byte, NEW a \in Byte, v <= a, a # 0
      PROVE  (v * 65535) \div (256 * a) \in Byte
  <2>1. v \in Nat /\ a \in Nat /\ a > 0
    BY <1>2 DEF Byte
  <2>2. v * 65535 < 256 * (256 * a)
    BY <2>1, <1>2
  <2>3. ASSUME NEW x \in Nat, NEW y \in Nat, y > 0, x < 256 * y
        PROVE  x \div y \in 0..255
    BY <2>3, Z3
  <2> QED
    BY <2>1, <2>2, <2>3 DEF Byte
<1>3. c.red \in Byte /\ c.green \in Byte /\ c.blue \in Byte /\ c.alpha \in Byte
  BY <1>1 DEF NRGBA
<1>4. CASE c.alpha = 0
  BY <1>3, <1>4 DEF Convert, NRGBA, Byte
<1>5. CASE c.alpha # 0
  BY <1>1, <1>2, <1>3, <1>5 DEF Convert, NRGBA
<1> QED
  BY <1>4, <1>5

-----------------------------------------------------------------------------
\* What Open holds at each of its steps.
Holding ==
  /\ fd \in {"none", "open", "closed"} /\ map \in {"none", "mapped", "released"}
  /\ pc = "open" => fd = "none" /\ map = "none"
  /\ pc \in {"fix", "var", "mmap"} => fd = "open" /\ map = "none"
  /\ pc = "switch" => fd = "open" /\ map = "mapped"
  /\ pc = "done" => fd = "closed" /\ map = "mapped"
  /\ pc = "failed" => fd # "open" /\ map # "mapped"
  /\ pc \in {"open", "fix", "var", "mmap", "switch", "done", "failed"}

\* Every step of Open keeps account of what it holds.
LEMMA HoldingInductive == Holding /\ [Next]_vars => Holding'
<1> SUFFICES ASSUME Holding, [Next]_vars PROVE Holding'
  OBVIOUS
<1>1. CASE OpenFile
  BY <1>1 DEF Holding, OpenFile, Fails
<1>2. CASE GetFix
  BY <1>2 DEF Holding, GetFix, Fails
<1>3. CASE GetVar
  BY <1>3 DEF Holding, GetVar, Fails
<1>4. CASE Mmap
  BY <1>4 DEF Holding, Mmap, Fails
<1>5. CASE Hand
  BY <1>5 DEF Holding, Hand, Fails
<1>6. ASSUME NEW p \in Points(dev), NEW c \in Colours, Set(p, c)
      PROVE  Holding'
  BY <1>6 DEF Holding, Set
<1>7. CASE UNCHANGED vars
  BY <1>7 DEF Holding, vars
<1> QED
  BY <1>1, <1>2, <1>3, <1>4, <1>5, <1>6, <1>7 DEF Next

\* Open leaves no descriptor open and no mapping behind, whatever fails, for
\* every device.
THEOREM FramebufferReleases == Spec => []OpenReleases
<1>1. Init => Holding
  BY DEF Init, Holding
<1>2. Holding => OpenReleases
  BY DEF Holding, OpenReleases
<1> QED
  BY <1>1, <1>2, HoldingInductive, PTL DEF Spec

-----------------------------------------------------------------------------
\* The bytes a colour is packed into.
LEMMA PackIsBytes ==
  ASSUME NEW f \in Formats, NEW c \in NRGBA
  PROVE  \A i \in 1..Len(Pack(f, c)) : Pack(f, c)[i] \in Byte
<1>1. c.red \in Byte /\ c.green \in Byte /\ c.blue \in Byte /\ c.alpha \in Byte
  BY DEF NRGBA
<1>2. CASE f = "BGR565"
  <2>1. Pack(f, c) = Pack565(c)
    BY <1>2 DEF Pack
  <2>2. Pack565(c) \in Seq(Byte)
    BY RoundTrip565
  <2> QED
    BY <2>1, <2>2
<1>3. CASE f \in {"BGR", "BGR32"}
  <2>1. Pack(f, c) = <<c.blue, c.green, c.red>>
    BY <1>3 DEF Pack
  <2> QED
    BY <1>1, <2>1
<1>4. CASE f = "NBGRA"
  <2>1. Pack(f, c) = <<c.blue, c.green, c.red, c.alpha>>
    BY <1>4 DEF Pack
  <2> QED
    BY <1>1, <2>1
<1> QED
  BY <1>2, <1>3, <1>4 DEF Formats

\* Every step stores bytes only.
LEMMA TypeInductive == FramebufferTypeOK /\ [Next]_vars => FramebufferTypeOK'
<1> SUFFICES ASSUME FramebufferTypeOK, [Next]_vars PROVE FramebufferTypeOK'
  OBVIOUS
<1> USE DEF FramebufferTypeOK
<1>1. CASE OpenFile
  BY <1>1 DEF OpenFile, Fails, NoFormat
<1>2. CASE GetFix
  BY <1>2 DEF GetFix, Fails, NoFormat
<1>3. CASE GetVar
  BY <1>3 DEF GetVar, Fails, NoFormat
<1>4. CASE Mmap
  BY <1>4 DEF Mmap, Fails, NoFormat
<1>5. CASE Hand
  BY <1>5 DEF Hand, Fails, NoFormat, Formats
<1>6. ASSUME NEW p \in Points(dev), NEW c \in Colours, Set(p, c)
      PROVE  FramebufferTypeOK'
  <2>1. format \in Formats
    BY <1>6 DEF Set, NoFormat
  <2>2. \A i \in 1..Len(Pack(format, Convert(c))) : Pack(format, Convert(c))[i] \in Byte
    BY <2>1, ConvertIsBytes, PackIsBytes
  <2>3. UNCHANGED <<dev, pc, fd, map, format>>
    BY <1>6 DEF Set
  <2>4. DOMAIN mem' = DOMAIN mem /\ \A i \in DOMAIN mem : mem'[i] \in Byte
    <3>1. CASE p \in Rect(dev)
      <4> DEFINE off == PixOffset(format, p)
                 bytes == Pack(format, Convert(c))
      <4>1. mem' = [i \in DOMAIN mem |->
                      IF i \in off .. off + Len(bytes) - 1 THEN bytes[i - off + 1]
                      ELSE mem[i]]
        BY <1>6, <3>1 DEF Set
      <4>2. Len(bytes) \in Nat
        BY <2>1 DEF Pack, Pack565, Formats
      <4>3. off \in Int
        <5>1. Device(dev)
          BY DevicesAssumption
        <5>2. p[1] \in Int /\ p[2] \in Int
          BY <3>1, <5>1 DEF Rect, Device
        <5>3. BytesPerPixel(format) \in Int
          BY <2>1 DEF BytesPerPixel, Formats
        <5>4. dev.line \in Int
          BY <5>1 DEF Device
        <5> QED
          BY <5>2, <5>3, <5>4 DEF PixOffset
      <4>4. \A i \in DOMAIN mem : i \in Int
        BY <1>6, DevicesAssumption DEF Device
      <4>5. ASSUME NEW i \in DOMAIN mem, i \in off .. off + Len(bytes) - 1
            PROVE  i - off + 1 \in 1..Len(bytes)
        <5> HIDE DEF off, bytes
        <5> QED
          BY <4>2, <4>3, <4>4, <4>5
      <4> HIDE DEF off
      <4> QED
        BY <2>2, <4>1, <4>5
    <3>2. CASE p \notin Rect(dev)
      BY <1>6, <3>2 DEF Set
    <3> QED
      BY <3>1, <3>2
  <2> QED
    BY <2>3, <2>4
<1>7. CASE UNCHANGED vars
  BY <1>7 DEF vars
<1> QED
  BY <1>1, <1>2, <1>3, <1>4, <1>5, <1>6, <1>7 DEF Next

\* The driver's state keeps its types, for every device and every colour: no
\* byte it stores needs more than eight bits.
THEOREM FramebufferTypeCorrect == Spec => []FramebufferTypeOK
<1>1. Init => FramebufferTypeOK
  BY BoundsAssumption DEF Init, FramebufferTypeOK, NoFormat, Formats
<1> QED
  BY <1>1, TypeInductive, PTL DEF Spec

-----------------------------------------------------------------------------
\* Where the bytes of a point are, and what they mean.

PointBytes(p) == {p[2] * dev.line + p[1] * (dev.bpp \div 8) + i : i \in 0 .. (dev.bpp \div 8) - 1}

\* Multiplication keeps the order of naturals.
LEMMA MulMonotone ==
  ASSUME NEW a \in Nat, NEW b \in Nat, NEW c \in Nat, a <= b
  PROVE  a * c <= b * c /\ a * c \in Nat /\ b * c \in Nat
<1>1. \A x, y, z \in Nat : x <= y => x * z <= y * z
  OBVIOUS
<1> QED
  BY <1>1

\* A point's bytes lie inside its line, and its line inside the memory.
LEMMA PointInLine ==
  ASSUME NEW p \in Rect(dev), Device(dev)
  PROVE  LET s == dev.bpp \div 8
         IN /\ p[1] \in Nat /\ p[2] \in Nat /\ s \in {1, 2, 3, 4}
            /\ p[1] * s \in Nat /\ p[1] * s + s <= dev.line
            /\ p[2] * dev.line \in Nat /\ p[2] * dev.line + dev.line <= dev.smem
<1> DEFINE s == dev.bpp \div 8
<1>1. /\ dev.xoff \in Nat /\ dev.yoff \in Nat /\ dev.xres \in Nat /\ dev.yres \in Nat
      /\ dev.line \in Nat /\ dev.smem \in Nat /\ dev.bpp \in {8, 16, 24, 32}
      /\ (dev.xoff + dev.xres) * s <= dev.line
      /\ (dev.yoff + dev.yres) * dev.line <= dev.smem
  BY DEF Device
<1>2. s \in {1, 2, 3, 4}
  BY <1>1
<1>3. /\ p[1] \in Nat /\ p[1] + 1 <= dev.xoff + dev.xres
      /\ p[2] \in Nat /\ p[2] + 1 <= dev.yoff + dev.yres
  BY <1>1 DEF Rect
<1> HIDE DEF s
<1>4. p[1] * s + s <= (dev.xoff + dev.xres) * s /\ p[1] * s \in Nat
  <2>1. (p[1] + 1) * s <= (dev.xoff + dev.xres) * s
    BY <1>1, <1>2, <1>3, MulMonotone
  <2> QED
    BY <1>2, <1>3, <2>1
<1>5. p[2] * dev.line + dev.line <= (dev.yoff + dev.yres) * dev.line /\ p[2] * dev.line \in Nat
  <2>1. (p[2] + 1) * dev.line <= (dev.yoff + dev.yres) * dev.line
    BY <1>1, <1>3, MulMonotone
  <2>2. (p[2] + 1) * dev.line = p[2] * dev.line + dev.line
    BY <1>1, <1>3
  <2> QED
    BY <1>1, <1>3, <2>1, <2>2, MulMonotone
<1>6. p[1] * s + s <= dev.line
  <2>1. (dev.xoff + dev.xres) * s \in Nat
    BY <1>1, <1>2
  <2> QED
    BY <1>1, <1>2, <1>4, <2>1
<1>7. p[2] * dev.line + dev.line <= dev.smem
  <2>1. (dev.yoff + dev.yres) * dev.line \in Nat
    BY <1>1, MulMonotone
  <2> QED
    BY <1>1, <1>5, <2>1
<1> QED
  BY <1>2, <1>3, <1>4, <1>5, <1>6, <1>7 DEF s

\* No byte belongs to two points.
LEMMA PointsApart ==
  ASSUME Device(dev), NEW p \in Rect(dev), NEW q \in Rect(dev), p # q
  PROVE  PointBytes(p) \cap PointBytes(q) = {}
<1> DEFINE s == dev.bpp \div 8
           Off(r) == r[2] * dev.line + r[1] * s
<1>1. ASSUME NEW a \in Rect(dev), NEW b \in Rect(dev), a[2] < b[2]
      PROVE  Off(a) + s <= Off(b)
  <2>1. a[2] \in Nat /\ b[2] \in Nat /\ dev.line \in Nat
    BY PointInLine DEF Device
  <2>2. (a[2] + 1) * dev.line <= b[2] * dev.line
    BY <1>1, <2>1, MulMonotone
  <2>3. (a[2] + 1) * dev.line = a[2] * dev.line + dev.line
    BY <2>1
  <2>4. a[1] * s + s <= dev.line /\ a[1] * s \in Nat /\ b[1] * s \in Nat /\ s \in Nat
        /\ a[2] * dev.line \in Nat /\ b[2] * dev.line \in Nat
    BY PointInLine
  <2> HIDE DEF s
  <2> QED
    BY <2>1, <2>2, <2>3, <2>4
<1>2. ASSUME NEW a \in Rect(dev), NEW b \in Rect(dev), a[2] = b[2], a[1] < b[1]
      PROVE  Off(a) + s <= Off(b)
  <2>1. a[1] \in Nat /\ b[1] \in Nat /\ s \in Nat /\ a[2] * dev.line \in Nat
        /\ a[1] * s \in Nat /\ b[1] * s \in Nat
    BY PointInLine
  <2> HIDE DEF s
  <2>2. (a[1] + 1) * s <= b[1] * s
    BY <1>2, <2>1, MulMonotone
  <2>3. (a[1] + 1) * s = a[1] * s + s
    BY <2>1
  <2> QED
    BY <1>2, <2>1, <2>2, <2>3
<1>3. Off(p) + s <= Off(q) \/ Off(q) + s <= Off(p)
  <2>1. p[1] # q[1] \/ p[2] # q[2]
    BY DEF Rect
  <2>2. p[1] \in Nat /\ q[1] \in Nat /\ p[2] \in Nat /\ q[2] \in Nat
    BY PointInLine
  <2> HIDE DEF s, Off
  <2>3. \/ p[2] < q[2] \/ q[2] < p[2]
        \/ p[2] = q[2] /\ p[1] < q[1]
        \/ p[2] = q[2] /\ q[1] < p[1]
    BY <2>1, <2>2
  <2> QED
    BY <1>1, <1>2, <2>3
<1>4. Off(p) \in Nat /\ Off(q) \in Nat /\ s \in Nat
  BY PointInLine
<1>5. /\ PointBytes(p) = {Off(p) + i : i \in 0 .. s - 1}
      /\ PointBytes(q) = {Off(q) + i : i \in 0 .. s - 1}
  BY DEF PointBytes
<1> HIDE DEF s, Off
<1> QED
  BY <1>3, <1>4, <1>5

-----------------------------------------------------------------------------
\* What an accepted layout makes of the bytes the driver packs.

\* The driver's pixels are as wide as the device's.
LEMMA AcceptedWidth ==
  ASSUME NEW f \in Formats, NEW c, Accepts(dev, f)
  PROVE  /\ BytesPerPixel(f) = dev.bpp \div 8 /\ BytesPerPixel(f) \in {2, 3, 4}
         /\ Len(Pack(f, c)) \in 2 .. BytesPerPixel(f)
<1>1. CASE f = "BGR565"
  BY <1>1 DEF Accepts, BytesPerPixel, Pack, Pack565
<1>2. CASE f = "BGR"
  BY <1>2 DEF Accepts, BytesPerPixel, Pack
<1>3. CASE f = "BGR32"
  BY <1>3 DEF Accepts, BytesPerPixel, Pack
<1>4. CASE f = "NBGRA"
  BY <1>4 DEF Accepts, BytesPerPixel, Pack
<1> QED
  BY <1>1, <1>2, <1>3, <1>4 DEF Formats

\* A point holds a colour when its bytes are those Set packs for it.
Holds(p, c) ==
  \A i \in 1 .. Len(Pack(format, c)) :
    mem[p[2] * dev.line + p[1] * (dev.bpp \div 8) + i - 1] = Pack(format, c)[i]

\* What ShowsWhatWasSet asks of one point.
Shows(p, c) ==
  /\ \A f \in Channels :
       /\ Decoded(p, f) = Coarse(c[f], f)
       /\ At(p)[f] = Coarse(c[f], f) * 2^(8 - dev[f].len)
  /\ At(p).alpha = IF format = "NBGRA" THEN c.alpha ELSE 255

\* In the three formats with a byte a channel.
LEMMA Shows888 ==
  ASSUME NEW p \in Rect(dev), NEW c \in NRGBA, Device(dev),
         format \in {"BGR", "BGR32", "NBGRA"}, Accepts(dev, format), Holds(p, c)
  PROVE  Shows(p, c)
<1> DEFINE base == p[2] * dev.line + p[1] * (dev.bpp \div 8)
<1>1. /\ dev["red"].off = 16 /\ dev["red"].len = 8
      /\ dev["green"].off = 8 /\ dev["green"].len = 8
      /\ dev["blue"].off = 0 /\ dev["blue"].len = 8
  <2>1. \A f \in Channels : dev[f] = RGB888[f]
    BY DEF Accepts
  <2>2. dev["red"] = Bits(16, 8) /\ dev["green"] = Bits(8, 8) /\ dev["blue"] = Bits(0, 8)
    BY <2>1 DEF Channels, RGB888
  <2> QED
    BY <2>2 DEF Bits
<1>2. c.red \in 0..255 /\ c.green \in 0..255 /\ c.blue \in 0..255 /\ c.alpha \in 0..255
  BY DEF NRGBA, Byte
<1>3. base \in Nat
  BY PointInLine DEF Device
<1>4. /\ Len(Pack(format, c)) >= 3 /\ Len(Pack(format, c)) \in Nat
      /\ Pack(format, c)[1] = c.blue /\ Pack(format, c)[2] = c.green
      /\ Pack(format, c)[3] = c.red
      /\ format = "NBGRA" => Len(Pack(format, c)) = 4 /\ Pack(format, c)[4] = c.alpha
  BY DEF Pack
<1>5. /\ mem[base + 1 - 1] = c.blue /\ mem[base + 2 - 1] = c.green /\ mem[base + 3 - 1] = c.red
      /\ format = "NBGRA" => mem[base + 4 - 1] = c.alpha
  BY <1>4 DEF Holds
<1>6. /\ Pixel(p, 0) = c.blue /\ Pixel(p, 1) = c.green /\ Pixel(p, 2) = c.red
  BY <1>3, <1>5 DEF Pixel
<1>7. \A v \in 0..255 : (v \div 2^0) % 2^8 = v /\ v \div 2^0 = v /\ v * 2^0 = v
  OBVIOUS
<1>8. Decoded(p, "red") = c.red /\ Decoded(p, "green") = c.green /\ Decoded(p, "blue") = c.blue
  <2>1. 16 \div 8 = 2 /\ (16 + 8 - 1) \div 8 = 2 /\ 16 % 8 = 0
        /\ 8 \div 8 = 1 /\ (8 + 8 - 1) \div 8 = 1 /\ 8 % 8 = 0
        /\ 0 \div 8 = 0 /\ (0 + 8 - 1) \div 8 = 0 /\ 0 % 8 = 0
    OBVIOUS
  <2>2. Decoded(p, "red") = ((Pixel(p, 2) + 0) \div 2^0) % 2^8
    BY <1>1, <2>1 DEF Decoded
  <2>3. Decoded(p, "green") = ((Pixel(p, 1) + 0) \div 2^0) % 2^8
    BY <1>1, <2>1 DEF Decoded
  <2>4. Decoded(p, "blue") = ((Pixel(p, 0) + 0) \div 2^0) % 2^8
    BY <1>1, <2>1 DEF Decoded
  <2> QED
    BY <1>2, <1>6, <1>7, <2>2, <2>3, <2>4
<1>9. \A f \in Channels : Coarse(c[f], f) = c[f] /\ c[f] * 2^(8 - dev[f].len) = c[f]
  <2>1. \A f \in Channels : c[f] \in 0..255 /\ dev[f].len = 8
    BY <1>1, <1>2 DEF Channels
  <2>2. \A f \in Channels : 2^(8 - dev[f].len) = 1
    <3>1. 2^(8 - 8) = 1
      OBVIOUS
    <3> QED
      BY <2>1, <3>1
  <2>3. \A v \in 0..255 : v \div 1 = v /\ v * 1 = v
    OBVIOUS
  <2>4. ASSUME NEW f \in Channels PROVE Coarse(c[f], f) = c[f] /\ c[f] * 2^(8 - dev[f].len) = c[f]
    <3> DEFINE v == c[f]
               k == 2^(8 - dev[f].len)
    <3>1. v \in 0..255 /\ k = 1
      BY <2>1, <2>2
    <3>2. Coarse(v, f) = v \div k
      BY DEF Coarse
    <3> HIDE DEF v, k
    <3>3. v \div k = v /\ v * k = v
      BY <2>3, <3>1
    <3>4. Coarse(v, f) = v
      BY <3>2, <3>3
    <3> QED
      BY <3>3, <3>4 DEF v, k
  <2> QED
    BY <2>4
<1>10. At(p).red = c.red /\ At(p).green = c.green /\ At(p).blue = c.blue
       /\ At(p).alpha = IF format = "NBGRA" THEN c.alpha ELSE 255
  <2>1. PixOffset(format, p) = base /\ BytesPerPixel(format) \in {3, 4}
        /\ (format = "NBGRA" => BytesPerPixel(format) = 4)
    <3>1. BytesPerPixel(format) = dev.bpp \div 8
      BY AcceptedWidth DEF Formats
    <3>2. BytesPerPixel(format) \in {3, 4} /\ (format = "NBGRA" => BytesPerPixel(format) = 4)
      BY DEF BytesPerPixel
    <3> QED
      BY <3>1, <3>2 DEF PixOffset
  <2> DEFINE b == [i \in 1..BytesPerPixel(format) |-> mem[PixOffset(format, p) + i - 1]]
  <2>2. b[1] = c.blue /\ b[2] = c.green /\ b[3] = c.red
        /\ (format = "NBGRA" => b[4] = c.alpha)
    BY <1>3, <1>5, <2>1
  <2>3. At(p) = Unpack(format, b)
    BY DEF At
  <2> HIDE DEF b
  <2> QED
    BY <2>2, <2>3 DEF Unpack
<1> QED
  BY <1>8, <1>9, <1>10 DEF Shows, Channels

\* In the 16-bit format.
LEMMA Shows565 ==
  ASSUME NEW p \in Rect(dev), NEW c \in NRGBA, Device(dev),
         format = "BGR565", Accepts(dev, format), Holds(p, c)
  PROVE  Shows(p, c)
<1> DEFINE base == p[2] * dev.line + p[1] * (dev.bpp \div 8)
           b == Pack565(c)
<1>1. /\ dev["red"].off = 11 /\ dev["red"].len = 5
      /\ dev["green"].off = 5 /\ dev["green"].len = 6
      /\ dev["blue"].off = 0 /\ dev["blue"].len = 5
  <2>1. \A f \in Channels : dev[f] = RGB565[f]
    BY DEF Accepts
  <2>2. dev["red"] = Bits(11, 5) /\ dev["green"] = Bits(5, 6) /\ dev["blue"] = Bits(0, 5)
    BY <2>1 DEF Channels, RGB565
  <2> QED
    BY <2>2 DEF Bits
<1>2. c.red \in 0..255 /\ c.green \in 0..255 /\ c.blue \in 0..255
  BY DEF NRGBA, Byte
<1>3. base \in Nat
  BY PointInLine DEF Device
<1>4. Pack(format, c) = b /\ Len(b) = 2
  BY DEF Pack, Pack565
<1>5. mem[base + 1 - 1] = b[1] /\ mem[base + 2 - 1] = b[2]
  <2>1. 1 \in 1 .. Len(Pack(format, c)) /\ 2 \in 1 .. Len(Pack(format, c))
    <3>1. Len(Pack(format, c)) = 2
      BY <1>4
    <3>2. 1 \in 1..2 /\ 2 \in 1..2
      OBVIOUS
    <3> QED
      BY <3>1, <3>2
  <2>2. mem[base + 1 - 1] = Pack(format, c)[1] /\ mem[base + 2 - 1] = Pack(format, c)[2]
    BY <2>1 DEF Holds
  <2> QED
    BY <1>4, <2>2
<1>6. Pixel(p, 0) = b[1] /\ Pixel(p, 1) = b[2]
  BY <1>3, <1>5 DEF Pixel
<1>7. PICK b1 \in 0..31, b0 \in 0..7 : c.blue = 8 * b1 + b0
  BY <1>2, SplitByte
<1>8. PICK r1 \in 0..31, r0 \in 0..7 : c.red = 8 * r1 + r0
  BY <1>2, SplitByte
<1>9. PICK g2 \in 0..7, g1 \in 0..7, g0 \in 0..3 : c.green = 32 * g2 + 4 * g1 + g0
  BY <1>2, SplitGreen
<1>10. c.blue \div 8 = b1 /\ c.red \div 8 = r1 /\ c.green \div 4 = 8 * g2 + g1
       /\ c.green \div 32 = g2
  BY <1>7, <1>8, <1>9
<1>11. b[1] = b1 + 32 * g1 /\ b[2] = g2 + 8 * r1
  <2>1. ((8 * g2 + g1) * 32) % 256 = 32 * g1 /\ (r1 * 8) % 256 = 8 * r1
    OBVIOUS
  <2> QED
    BY <1>10, <2>1 DEF Pack565
<1>12. /\ Decoded(p, "blue") = b1 /\ Decoded(p, "green") = 8 * g2 + g1
       /\ Decoded(p, "red") = r1
  <2>1. 0 \div 8 = 0 /\ (0 + 5 - 1) \div 8 = 0 /\ 0 % 8 = 0
        /\ 5 \div 8 = 0 /\ (5 + 6 - 1) \div 8 = 1 /\ 5 % 8 = 5
        /\ 11 \div 8 = 1 /\ (11 + 5 - 1) \div 8 = 1 /\ 11 % 8 = 3
    OBVIOUS
  <2>2. Decoded(p, "blue") = ((Pixel(p, 0) + 0) \div 2^0) % 2^5
    BY <1>1, <2>1 DEF Decoded
  <2>3. Decoded(p, "green") = ((Pixel(p, 0) + 256 * Pixel(p, 1)) \div 2^5) % 2^6
    BY <1>1, <2>1 DEF Decoded
  <2>4. Decoded(p, "red") = ((Pixel(p, 1) + 0) \div 2^3) % 2^5
    BY <1>1, <2>1 DEF Decoded
  <2>5. 2^0 = 1 /\ 2^3 = 8 /\ 2^5 = 32 /\ 2^6 = 64
    OBVIOUS
  <2>6. /\ ((b1 + 32 * g1 + 0) \div 1) % 32 = b1
        /\ ((g2 + 8 * r1 + 0) \div 8) % 32 = r1
    OBVIOUS
  <2>7. ((b1 + 32 * g1 + 256 * (g2 + 8 * r1)) \div 32) % 64 = 8 * g2 + g1
    <3>1. (b1 + 32 * g1 + 256 * (g2 + 8 * r1)) \div 32 = g1 + 8 * g2 + 64 * r1
      OBVIOUS
    <3>2. (g1 + 8 * g2 + 64 * r1) % 64 = 8 * g2 + g1
      OBVIOUS
    <3> QED
      BY <3>1, <3>2
  <2> QED
    BY <1>6, <1>11, <2>2, <2>3, <2>4, <2>5, <2>6, <2>7
<1>13. /\ Coarse(c["blue"], "blue") = b1 /\ Coarse(c["red"], "red") = r1
       /\ Coarse(c["green"], "green") = 8 * g2 + g1
  <2>1. 2^(8 - 5) = 8 /\ 2^(8 - 6) = 4
    OBVIOUS
  <2> QED
    BY <1>1, <1>10, <2>1 DEF Coarse
<1>14. At(p) = [red |-> r1 * 8, green |-> (8 * g2 + g1) * 4, blue |-> b1 * 8, alpha |-> 255]
  <2>1. PixOffset(format, p) = base /\ BytesPerPixel(format) = 2
    BY AcceptedWidth DEF Formats, PixOffset, BytesPerPixel
  <2> DEFINE read == [i \in 1..BytesPerPixel(format) |-> mem[PixOffset(format, p) + i - 1]]
  <2>2. read[1] = b[1] /\ read[2] = b[2]
    BY <1>3, <1>5, <2>1
  <2>3. At(p) = Unpack565(read)
    BY DEF At, Unpack
  <2>4. Unpack565(read) = Unpack565(b)
    <3> HIDE DEF read, b
    <3> QED
      BY <2>2 DEF Unpack565
  <2>5. /\ (c.red \div 8) * 8 = r1 * 8 /\ (c.green \div 4) * 4 = (8 * g2 + g1) * 4
        /\ (c.blue \div 8) * 8 = b1 * 8
    BY <1>10
  <2> QED
    BY <2>3, <2>4, <2>5, RoundTrip565
<1>15. 2^(8 - dev["red"].len) = 8 /\ 2^(8 - dev["green"].len) = 4 /\ 2^(8 - dev["blue"].len) = 8
  <2>1. 2^(8 - 5) = 8 /\ 2^(8 - 6) = 4
    OBVIOUS
  <2> QED
    BY <1>1, <2>1
<1> QED
  BY <1>12, <1>13, <1>14, <1>15 DEF Shows, Channels

-----------------------------------------------------------------------------
\* ShowsWhatWasSet speaks of what the hardware makes of the bytes.  The
\* inductive invariant speaks of the bytes themselves: those of a point are the
\* ones Set packed for its colour, and no other byte changed.  It needs to know
\* that an image is handed out only for a layout Open accepts.
Drawn ==
  /\ format # NoFormat => Accepts(dev, format)
  /\ DOMAIN shown = Rect(dev)
  /\ \A p \in Touched : shown[p] \in NRGBA
  /\ pc # "done" => Touched = {}
  /\ \A p \in Touched : Holds(p, shown[p])
  /\ \A i \in DOMAIN mem : (\A p \in Touched : i \notin PointBytes(p)) => mem[i] = Leftover

\* Untouched is not a colour.
LEMMA UntouchedIsNoColour == Untouched \notin NRGBA
  BY DEF Untouched, NRGBA

\* Where Set stores a colour's bytes: inside the point, inside the memory.
LEMMA PackedInside ==
  ASSUME NEW p \in Rect(dev), NEW c, Device(dev), format \in Formats, Accepts(dev, format)
  PROVE  LET off == p[2] * dev.line + p[1] * (dev.bpp \div 8)
             size == Len(Pack(format, c))
         IN /\ off \in Nat /\ PixOffset(format, p) = off /\ size \in Nat
            /\ \A i \in 1 .. size : off + i - 1 \in PointBytes(p) \cap 0 .. dev.smem - 1
<1> DEFINE s == dev.bpp \div 8
           off == p[2] * dev.line + p[1] * s
           size == Len(Pack(format, c))
<1>1. BytesPerPixel(format) = s /\ size \in 2 .. s /\ s \in Nat
  BY AcceptedWidth
<1>2. /\ p[1] * s \in Nat /\ p[1] * s + s <= dev.line /\ dev.line \in Nat
      /\ p[2] * dev.line \in Nat /\ p[2] * dev.line + dev.line <= dev.smem /\ dev.smem \in Nat
  BY PointInLine DEF Device
<1>3. PixOffset(format, p) = off
  BY <1>1 DEF PixOffset
<1>4. PointBytes(p) = {off + i : i \in 0 .. s - 1}
  BY DEF PointBytes
<1> HIDE DEF s, size
<1>5. off \in Nat
  BY <1>2
<1>6. ASSUME NEW i \in 1 .. size
      PROVE  off + i - 1 \in PointBytes(p) /\ off + i - 1 \in 0 .. dev.smem - 1
  <2>1. i - 1 \in 0 .. s - 1
    BY <1>1
  <2>2. off + i - 1 \in 0 .. dev.smem - 1
    BY <1>1, <1>2, <2>1
  <2>3. off + i - 1 = off + (i - 1)
    BY <1>5, <2>1
  <2> QED
    BY <1>4, <2>1, <2>2, <2>3
<1>7. size \in Nat
  BY <1>1
<1> QED
  BY <1>3, <1>5, <1>6, <1>7 DEF s, size

\* Setting a point stores its bytes and spares those of the others.
LEMMA SetDraws ==
  ASSUME FramebufferTypeOK, Drawn, NEW p \in Rect(dev), NEW c \in Colours, Set(p, c)
  PROVE  Drawn'
<1> DEFINE colour == Convert(c)
           bytes == Pack(format, colour)
           off == p[2] * dev.line + p[1] * (dev.bpp \div 8)
<1>1. /\ UNCHANGED <<dev, pc, fd, map, format>> /\ pc = "done"
      /\ format \in Formats /\ Accepts(dev, format) /\ Device(dev) /\ DOMAIN shown = Rect(dev)
      /\ DOMAIN mem = 0 .. dev.smem - 1
  BY DevicesAssumption DEF Set, Drawn, FramebufferTypeOK, NoFormat
<1>2. colour \in NRGBA /\ colour # Untouched
  BY ConvertIsBytes, UntouchedIsNoColour
<1>3. Touched' = Touched \cup {p}
  <2>1. DOMAIN shown' = DOMAIN shown
        /\ \A q \in DOMAIN shown : shown'[q] = IF q = p THEN colour ELSE shown[q]
    BY DEF Set
  <2> QED
    BY <1>1, <1>2, <2>1 DEF Touched
<1>4. /\ DOMAIN shown' = Rect(dev)
      /\ shown'[p] = colour
      /\ \A q \in Rect(dev) \ {p} : shown'[q] = shown[q]
  BY <1>1 DEF Set
<1>5. /\ off \in Nat /\ PixOffset(format, p) = off /\ Len(bytes) \in Nat
      /\ \A i \in 1 .. Len(bytes) : off + i - 1 \in PointBytes(p) \cap DOMAIN mem
  BY <1>1, PackedInside
<1>6. /\ DOMAIN mem' = DOMAIN mem
      /\ \A i \in DOMAIN mem : mem'[i] = IF i \in off .. off + Len(bytes) - 1
                                        THEN bytes[i - off + 1] ELSE mem[i]
  BY <1>5 DEF Set
<1>7. \A i \in DOMAIN mem : i \notin PointBytes(p) => mem'[i] = mem[i]
  <2> SUFFICES ASSUME NEW i \in DOMAIN mem, i \in off .. off + Len(bytes) - 1
               PROVE  i \in PointBytes(p)
    BY <1>6
  <2> HIDE DEF off, bytes
  <2>1. i - off + 1 \in 1 .. Len(bytes) /\ i = off + (i - off + 1) - 1
    BY <1>5
  <2> QED
    BY <1>5, <2>1
<1>8. Holds(p, colour)'
  <2> SUFFICES ASSUME NEW i \in 1 .. Len(bytes) PROVE mem'[off + i - 1] = bytes[i]
    BY <1>1 DEF Holds
  <2> HIDE DEF off, bytes
  <2>1. off + i - 1 \in off .. off + Len(bytes) - 1 /\ (off + i - 1) - off + 1 = i
    BY <1>5
  <2> QED
    BY <1>5, <1>6, <2>1
<1>9. ASSUME NEW q \in Touched, q # p PROVE Holds(q, shown[q])'
  <2>1. q \in Rect(dev) /\ shown'[q] = shown[q]
    BY <1>1, <1>4, <1>9 DEF Touched
  <2> DEFINE b == Pack(format, shown[q])
             offq == q[2] * dev.line + q[1] * (dev.bpp \div 8)
  <2>2. Holds(q, shown[q])
    BY DEF Drawn
  <2> SUFFICES ASSUME NEW i \in 1 .. Len(b) PROVE mem'[offq + i - 1] = b[i]
    BY <1>1, <2>1 DEF Holds
  <2>3. offq + i - 1 \in PointBytes(q) /\ offq + i - 1 \in DOMAIN mem
    BY <1>1, <2>1, PackedInside
  <2>4. offq + i - 1 \notin PointBytes(p)
    BY <1>1, <1>9, <2>1, <2>3, PointsApart
  <2>5. mem[offq + i - 1] = b[i]
    BY <2>2 DEF Holds
  <2> QED
    BY <1>7, <2>3, <2>4, <2>5
<1>10. ASSUME NEW i \in DOMAIN mem', \A q \in Touched' : i \notin PointBytes(q)'
       PROVE  mem'[i] = Leftover
  <2>1. \A q : PointBytes(q)' = PointBytes(q)
    BY <1>1 DEF PointBytes
  <2>2. i \notin PointBytes(p) /\ \A q \in Touched : i \notin PointBytes(q)
    BY <1>3, <1>10, <2>1
  <2> QED
    BY <1>6, <1>7, <2>2 DEF Drawn
<1>11. \A q \in Touched' : shown'[q] \in NRGBA /\ Holds(q, shown[q])'
  BY <1>1, <1>2, <1>3, <1>4, <1>8, <1>9 DEF Drawn, Touched
<1> QED
  BY <1>1, <1>4, <1>10, <1>11 DEF Drawn

\* Opening draws nothing, and Set changes the bytes of its point only.
LEMMA DrawnInductive == FramebufferTypeOK /\ Drawn /\ [Next]_vars => Drawn'
<1> SUFFICES ASSUME FramebufferTypeOK, Drawn, [Next]_vars PROVE Drawn'
  OBVIOUS
<1>1. CASE UNCHANGED vars
  BY <1>1 DEF vars, Drawn, Touched, Holds, PointBytes
<1>2. ASSUME UNCHANGED <<dev, mem, shown>>, pc # "done",
             format' # NoFormat => Accepts(dev, format)'
      PROVE  Drawn'
  <2>1. Touched = {} /\ Touched' = {}
    BY <1>2 DEF Drawn, Touched
  <2> QED
    BY <1>2, <2>1 DEF Drawn
<1>3. CASE OpenFile \/ GetFix \/ GetVar \/ Mmap
  BY <1>2, <1>3 DEF OpenFile, GetFix, GetVar, Mmap, Fails, FramebufferTypeOK
<1>4. CASE Hand
  BY <1>2, <1>4 DEF Hand, Fails, FramebufferTypeOK
<1>5. ASSUME NEW p \in Points(dev), NEW c \in Colours, Set(p, c)
      PROVE  Drawn'
  <2>1. CASE p \in Rect(dev)
    BY <1>5, <2>1, SetDraws
  <2>2. CASE p \notin Rect(dev)
    <3>1. UNCHANGED <<dev, pc, format, mem>>
      BY <1>5, <2>2 DEF Set
    <3>2. /\ DOMAIN shown' = DOMAIN shown
          /\ \A q \in DOMAIN shown : shown'[q] = shown[q]
      BY <1>5, <2>2 DEF Set, Drawn
    <3>3. Touched' = Touched /\ \A q \in Touched : shown'[q] = shown[q]
      BY <3>2 DEF Touched
    <3>4. \A q \in Touched : Holds(q, shown[q])'
      BY <3>1, <3>3 DEF Drawn, Holds
    <3> QED
      BY <3>1, <3>2, <3>3, <3>4 DEF Drawn, PointBytes
  <2> QED
    BY <2>1, <2>2
<1> QED
  BY <1>1, <1>3, <1>4, <1>5 DEF Next

\* Whatever device the kernel reports, if Open hands out an image then the
\* hardware shows at every point the colour last set there, as precisely as its
\* channels hold, At reads that much of it back, and no other byte changes.
THEOREM FramebufferShowsWhatWasSet == Spec => []ShowsWhatWasSet
<1>1. Init => Drawn
  BY DEF Init, Drawn, Touched, NoFormat
<1>2. FramebufferTypeOK /\ Drawn => ShowsWhatWasSet
  <2> SUFFICES ASSUME FramebufferTypeOK, Drawn PROVE ShowsWhatWasSet
    OBVIOUS
  <2>1. ASSUME NEW p \in Touched PROVE Shows(p, shown[p])
    <3>1. pc = "done" /\ format \in Formats /\ Accepts(dev, format) /\ Device(dev)
      BY DevicesAssumption DEF Drawn, FramebufferTypeOK, NoFormat
    <3>2. p \in Rect(dev) /\ shown[p] \in NRGBA /\ Holds(p, shown[p])
      BY DEF Drawn, Touched
    <3> QED
      BY <3>1, <3>2, Shows888, Shows565 DEF Formats
  <2>2. \A i \in DOMAIN mem : (\A p \in Touched : i \notin PointBytes(p)) => mem[i] = Leftover
    BY DEF Drawn
  <2> QED
    BY <2>1, <2>2 DEF ShowsWhatWasSet, Shows, PointBytes
<1> QED
  BY <1>1, <1>2, FramebufferTypeCorrect, DrawnInductive, PTL DEF Spec
=============================================================================
