----------------------------- MODULE SignalPath -----------------------------
(***************************************************************************)
(* From the window to the pins and back: the channel lists and the output  *)
(* buttons of the application, the request they are written into, the      *)
(* parser of the FPGA, which takes it word by word, the multiplexer and    *)
(* the plot.  Words are tuples of four bytes, low byte first.              *)
(***************************************************************************)
EXTENDS CardBytes

CONSTANTS
  Listed,    \* the sources that are chosen in the lists
  Transfers,  \* the positions of the slider
  MaxActs,    \* bound: actions of the user
  CountProbes, ButtonProbes \* counter values and push buttons to look at

ASSUME SignalAssumption ==
  /\ Listed \subseteq Sources /\ Transfers \subseteq 1..256 /\ MaxActs \in Nat
  /\ CountProbes \subseteq 0..255 /\ ButtonProbes \subseteq 0..15

VARIABLES
  combo,           \* ch0..ch7: the entry chosen
  gpio,            \* gpio0..gpio3: the button is down
  sent,            \* what the last request said: selection, buttons, count
  wire,            \* the words on their way, the requests one after the other
  packet_index, valid_packet,
  packet_count,    \* packets_to_send
  ch_src, USER_LED,
  acts

signalVars == <<combo, gpio, sent, wire, packet_index, valid_packet, packet_count,
                ch_src, USER_LED, acts>>

parserVars == <<packet_index, valid_packet, packet_count, ch_src, USER_LED>>

-----------------------------------------------------------------------------
(* The application. *)

\* The words of a request, and the gap after it.  The rest of a request is zeros.
WordsOf(bytes) ==
  [i \in 1..(Len(bytes) \div 4) |-> SubSeq(bytes, 4 * i - 3, 4 * i)] \o << <<>> >>

Send(n, g) ==
  /\ wire' = wire \o WordsOf(populate_header(n, combo, g))
  /\ sent' = [count |-> n, selection |-> combo, gpio |-> g]

Act == acts < MaxActs /\ acts' = acts + 1

Choose(ch, s) ==
  /\ Act
  /\ combo' = [combo EXCEPT ![ch] = s]
  /\ UNCHANGED <<gpio, sent, wire>> /\ UNCHANGED parserVars

handle_button(g) ==
  /\ Act
  /\ gpio' = [gpio EXCEPT ![g] = ~gpio[g]]
  /\ Send(0, gpio')
  /\ UNCHANGED combo /\ UNCHANGED parserVars

on_start_btn_clicked(slider) ==
  /\ Act
  /\ Send(8 * slider, gpio)
  /\ UNCHANGED <<combo, gpio>> /\ UNCHANGED parserVars

-----------------------------------------------------------------------------
(* The FPGA takes the next word, or meets a gap. *)

\* USER_LED <= ~read_data[3:0].
Lit(word) == [l \in 0..3 |-> 1 - Bit(word[1], l)]

\* Mutant: the high byte of a word is taken first.
Selected_HighFirst(word) ==
  [ch \in Channels |->
     IF packet_index = 2 + (ch \div 4) THEN word[4 - (ch % 4)] ELSE ch_src[ch]]

\* The word of channels 0-3 comes before that of channels 4-7.
Selected(word) ==
  [ch \in Channels |->
     IF packet_index = 2 + (ch \div 4) THEN word[1 + (ch % 4)] ELSE ch_src[ch]]

ReadWord ==
  /\ wire # <<>> /\ Head(wire) # <<>>
  /\ wire' = Tail(wire)
  /\ packet_index' = packet_index + 1
  /\ valid_packet' = (\/ valid_packet
                      \/ packet_index = 0 /\ Head(wire) = <<186, 176, 254, 202>>)
  /\ IF valid_packet
     THEN /\ packet_count' = IF packet_index = 1 THEN Word(Head(wire)) ELSE packet_count
          /\ ch_src' = Selected(Head(wire))
          /\ USER_LED' = IF packet_index = 4 THEN Lit(Head(wire)) ELSE USER_LED
     ELSE UNCHANGED <<packet_count, ch_src, USER_LED>>
  /\ UNCHANGED <<combo, gpio, sent, acts>>

ReadGap ==
  /\ wire # <<>> /\ Head(wire) = <<>>
  /\ wire' = Tail(wire)
  /\ packet_index' = 0 /\ valid_packet' = FALSE
  /\ UNCHANGED <<combo, gpio, sent, acts, packet_count, ch_src, USER_LED>>

SignalInit ==
  /\ combo = DefaultSelection
  /\ gpio = [g \in 0..3 |-> FALSE]
  /\ sent = [count |-> 0, selection |-> [ch \in Channels |-> 8], gpio |-> gpio]
  /\ wire = <<>> /\ packet_index = 0 /\ valid_packet = FALSE
  /\ packet_count = 0
  /\ ch_src = [ch \in Channels |-> 8]
  /\ USER_LED = [l \in 0..3 |-> 1]
  /\ acts = 0

SignalNext ==
  \/ \E ch \in Channels, s \in Listed : Choose(ch, s)
  \/ \E g \in 0..3 : handle_button(g)
  \/ \E n \in Transfers : on_start_btn_clicked(n)
  \/ ReadWord \/ ReadGap

SignalSpec == SignalInit /\ [][SignalNext]_signalVars

-----------------------------------------------------------------------------
(* Properties. *)

\* When all requests are read, graph ch of the plot draws the source that was chosen
\* in list ch when the last of them was sent (mainwindow.cpp 139-160 and 473-502,
\* main.v 389-432), although the sample has channel 0 in its highest bit.
GraphsShowSelection ==
  wire = <<>> /\ acts > 0 =>
    \A gen \in CountProbes, pb \in ButtonProbes, ch \in Channels :
      GraphLevel(ch_data(ch_src, gen, pb), ch) = Source(gen, pb)[sent.selection[ch]]

\* When all requests are read, the card is as the last one asked: exactly the outputs of
\* its pressed buttons are low, button 0 on the highest one, and its count is the one in
\* force, so that a request of an output button leaves nothing to send after a start.
LastRequestInForce ==
  wire = <<>> =>
    /\ \A g \in 0..3 : (USER_LED[3 - g] = 0) = sent.gpio[g]
    /\ packet_count = sent.count
=============================================================================
