----------------------------- MODULE CardBytes -----------------------------
(***************************************************************************)
(* Bytes and bits between the window of the application and the pins of    *)
(* the card: what a request says, how the FPGA builds a sample from it and *)
(* what the application makes of the sample.  The bits are turned round    *)
(* three times on the way: in the multiplexer (fpga/src/main.v), in the    *)
(* plot and in the pattern check (app/mainwindow.cpp).                     *)
(***************************************************************************)
EXTENDS Integers, Sequences

Channels == 0..7

\* The entries of a channel's list: a bit of the counter, nothing, a push button.
Sources == 0..12

DefaultSelection == [ch \in Channels |-> ch]

\* What the bits of a byte weigh.
Weight == <<1, 2, 4, 8, 16, 32, 64, 128>>

Bit(x, i) == (x \div Weight[i + 1]) % 2

\* The byte with the given bits.
Byte(bit) ==
  bit[0] + 2 * bit[1] + 4 * bit[2] + 8 * bit[3]
    + 16 * bit[4] + 32 * bit[5] + 64 * bit[6] + 128 * bit[7]

-----------------------------------------------------------------------------
(* The FPGA. *)

\* data_src: what the sources carry, for a counter value and the push buttons.
Source(gen, pb) ==
  [s \in Sources |-> IF s < 8 THEN Bit(gen, s) ELSE IF s = 8 THEN 0 ELSE Bit(pb, s - 9)]

\* ch_data: channel 0 is bit 7.
ch_data(ch_src, gen, pb) ==
  Byte([b \in 0..7 |-> Source(gen, pb)[ch_src[7 - b]]])

-----------------------------------------------------------------------------
(* The application. *)

\* The level that graph g draws for a byte of the buffer.
GraphLevel(byte, g) == Bit(byte, 7 - g)

\* The bits of b under a mask.
Masked(b, mask) == Byte([i \in 0..7 |-> Bit(b, i) * Bit(mask, i)])

\* Exchanges the bits under the mask high with those under low; a shift is a factor.
Exchange(b, high, low, shift) == (Masked(b, high) \div shift) + (Masked(b, low) * shift)

reverse ==
  [b \in 0..255 |-> Exchange(Exchange(Exchange(b, 240, 15, 16), 204, 51, 4), 170, 85, 2)]

\* Mutant: the counter may not wrap.
Complains_AtWrap(old, new) == new - old # 1 /\ old # -1

\* The pattern check on two neighbouring bytes, turned round already.
Complains(old, new) == new - old # 1 /\ new # 0 /\ old # 255 /\ old # -1

\* Mutant: the count is cut to a byte.
CountBytes_Short(n) == <<n % 256, 0, 0, 0>>

CountBytes(n) ==
  <<n % 256, (n \div 256) % 256, (n \div 65536) % 256, n \div 16777216>>

\* populate_header: the bytes of a request for n packets.
populate_header(n, combo, gpio) ==
  <<186, 176, 254, 202>> \o CountBytes(n)
  \o [i \in 1..8 |-> combo[i - 1]]
  \o <<Byte([b \in 0..7 |-> IF b < 4 /\ gpio[3 - b] THEN 1 ELSE 0]), 0, 0, 0>>

\* Four bytes as a word of the data bus, the first in the low byte.
Word(b) == b[1] + 256 * b[2] + 65536 * b[3] + 16777216 * b[4]
=============================================================================
