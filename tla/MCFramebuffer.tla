--------------------------- MODULE MCFramebuffer ---------------------------
\* Devices with every layout Open tells apart, panned and padded.
EXTENDS Framebuffer

BGR888 == [red |-> Bits(0, 8), green |-> Bits(8, 8), blue |-> Bits(16, 8)]
BGR565Fields == [red |-> Bits(0, 5), green |-> Bits(5, 6), blue |-> Bits(11, 5)]
RGB555 == [blue |-> Bits(0, 5), green |-> Bits(5, 5), red |-> Bits(10, 5)]
AlphaFirst == [blue |-> Bits(8, 8), green |-> Bits(16, 8), red |-> Bits(24, 8)]
NoTransp == Bits(0, 0)

\* a device of 2 x 2 visible points on a virtual screen of 3 x 3, whose lines
\* end in one byte of padding
Dev(bits, rgb, transp, xo, yo) ==
  LET line == 3 * (bits \div 8) + 1
  IN [packed |-> TRUE, truecolor |-> TRUE, bpp |-> bits, transp |-> transp,
      red |-> rgb.red, green |-> rgb.green, blue |-> rgb.blue,
      xres |-> 2, yres |-> 2, xoff |-> xo, yoff |-> yo,
      line |-> line, smem |-> 3 * line]

Layouts == {<<32, RGB888, NoTransp>>, <<32, RGB888, Bits(24, 8)>>,
            <<24, RGB888, NoTransp>>, <<16, RGB565, NoTransp>>}
OtherLayouts == {<<32, BGR888, NoTransp>>, <<32, AlphaFirst, Bits(0, 8)>>,
                 <<32, RGB888, Bits(24, 7)>>, <<24, BGR888, NoTransp>>,
                 <<16, BGR565Fields, NoTransp>>, <<16, RGB555, Bits(15, 1)>>,
                 <<16, RGB555, NoTransp>>, <<8, RGB565, NoTransp>>}
Panned == {<<0, 0>>, <<1, 0>>, <<0, 1>>}

MCDevices ==
  {Dev(l[1], l[2], l[3], o[1], o[2]) : l \in Layouts, o \in Panned}
    \cup {Dev(l[1], l[2], l[3], 0, 0) : l \in OtherLayouts}
    \cup {[Dev(32, RGB888, NoTransp, 0, 0) EXCEPT !.packed = FALSE],
          [Dev(32, RGB888, NoTransp, 0, 0) EXCEPT !.truecolor = FALSE]}

\* opaque, with bits on both sides of every cut; half transparent; transparent
Col(r, g, b, a) == [red |-> r, green |-> g, blue |-> b, alpha |-> a]
MCColours == {Col(255, 7, 8, 255), Col(132, 163, 93, 255), Col(3, 252, 129, 255),
              Col(100, 28, 64, 128), Col(0, 0, 0, 0)}
=============================================================================
