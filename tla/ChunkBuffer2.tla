----------------------------- MODULE ChunkBuffer2 -----------------------------
(***************************************************************************)
(* The circular packet buffer of badvpn.  A packet is a header block with  *)
(* its length followed by its data, never split: when the rest of the      *)
(* array is too short for a packet of mtu blocks the next one starts at 0, *)
(* and wrap says where the data of this round ends.  Lengths are counted   *)
(* in blocks (struct ChunkBuffer2_block); a data block holds a copy of the *)
(* packet it belongs to.  input_dest and output_dest are -1 for NULL.      *)
(***************************************************************************)
EXTENDS Integers, Sequences

Free == [header |-> TRUE, len |-> 0]
Header(len) == [header |-> TRUE, len |-> len]
Data(packet) == [header |-> FALSE, packet |-> packet]

calc_blocks(chunk_len, num) == (1 + chunk_len) * (num + 1)

\* The data goes round the end of the array.
Wrapped(b) == b.used >= b.wrap - b.start

end(b) ==
  IF Wrapped(b) THEN b.used - (b.wrap - b.start) ELSE b.start + b.used

FreeBlocks(b) == (IF Wrapped(b) THEN b.start ELSE b.size) - end(b)

update_input(b) ==
  IF b.size - end(b) - 1 >= b.mtu /\ FreeBlocks(b) > 0
  THEN [b EXCEPT !.input_dest = end(b) + 1, !.input_avail = FreeBlocks(b) - 1]
  ELSE [b EXCEPT !.input_dest = -1, !.input_avail = -1]

update_output(b) ==
  IF b.used > 0
  THEN [b EXCEPT !.output_dest = b.start + 1,
                 !.output_avail = b.buffer[b.start].len]
  ELSE [b EXCEPT !.output_dest = -1, !.output_avail = -1]

NewBuffer(blocks, mtu) ==
  update_output(update_input(
    [buffer |-> [i \in 0 .. blocks - 1 |-> Free],
     size |-> blocks, wrap |-> blocks, start |-> 0, used |-> 0, mtu |-> mtu,
     input_dest |-> -1, input_avail |-> -1,
     output_dest |-> -1, output_avail |-> -1]))

\* The user of the buffer writes a packet to input_dest.
Write(b, packet, len) ==
  [b EXCEPT !.buffer = [i \in DOMAIN @ |->
     IF i \in b.input_dest .. b.input_dest + len - 1 THEN Data(packet)
     ELSE @[i]]]

\* What is read from output_dest.
Output(b) == b.buffer[b.output_dest].packet


SubmitPacket(b, len) ==
  LET e == end(b)
      used == b.used + 1 + len
      last == used <= b.wrap - b.start /\ b.mtu > b.size - (e + 1 + len) - 1
      a == update_input(
             [b EXCEPT !.buffer[e] = Header(len), !.used = used,
                       !.wrap = IF last THEN e + 1 + len ELSE @])
  IN  IF used = 1 + len THEN update_output(a) ELSE a

\* What the blocks of a consumed packet hold does not matter any more.
ConsumePacket(b) ==
  LET n == 1 + b.buffer[b.start].len
      round == b.start + n = b.wrap
      a == [b EXCEPT !.buffer = [i \in DOMAIN @ |->
                        IF i \in b.start .. b.start + n - 1 THEN Free ELSE @[i]],
                     !.start = IF round THEN 0 ELSE @ + n,
                     !.used = @ - n,
                     !.wrap = IF round THEN b.size ELSE @]
  IN  update_output(IF Wrapped(b) THEN update_input(a) ELSE a)

-----------------------------------------------------------------------------
(***************************************************************************)
(* What holds of a buffer before and after every call.                     *)
(***************************************************************************)

\* The assertions of the code.
AssertBuffer(b) ==
  /\ 0 < b.wrap /\ b.wrap <= b.size
  /\ 0 <= b.start /\ b.start < b.wrap
  /\ 0 <= b.used /\ b.used <= b.wrap
  /\ b.wrap = b.size \/ Wrapped(b)
  /\ b.mtu >= 0

AssertIo(b) ==
  /\ IF b.size - end(b) - 1 >= b.mtu /\ FreeBlocks(b) > 0
     THEN b.input_dest = end(b) + 1 /\ b.input_avail = FreeBlocks(b) - 1
     ELSE b.input_dest = -1 /\ b.input_avail = -1
  /\ IF b.used > 0
     THEN /\ 0 <= b.output_avail /\ b.output_avail <= b.used - 1
          /\ b.output_avail <= b.wrap - b.start - 1
          /\ b.output_dest = b.start + 1
          /\ b.output_avail = b.buffer[b.start].len
     ELSE b.output_dest = -1 /\ b.output_avail = -1

\* A packet with header at e.pos lies in one of the at most two pieces the
\* data is made of, with its header and its own data in its blocks.
After(e) == e.pos + 1 + e.len
Limit(b, pos) == IF Wrapped(b) /\ pos >= b.start THEN b.wrap ELSE end(b)
IsPacket(b, e) ==
  /\ e.pos >= 0 /\ After(e) <= Limit(b, e.pos)
  /\ ~Wrapped(b) => e.pos >= b.start
  /\ b.buffer[e.pos] = Header(e.len)
  /\ \A j \in e.pos + 1 .. e.pos + e.len : b.buffer[j] = Data(e.data)

\* Where the packet after e begins.
Successor(b, e) ==
  IF Wrapped(b) /\ e.pos >= b.start /\ After(e) = b.wrap THEN 0 ELSE After(e)

\* d is in the buffer behind e: in its piece, or in the other one.
Behind(b, e, d) ==
  IF d.pos >= b.start THEN e.pos >= b.start /\ d.pos >= After(e)
  ELSE e.pos >= b.start \/ d.pos >= After(e)

\* The buffer holds the packets of q, the oldest first, and nothing else.
IsQueue(b, q) ==
  /\ AssertBuffer(b) /\ AssertIo(b)
  /\ q = <<>> <=> b.used = 0
  /\ q # <<>> => q[1].pos = b.start /\ Successor(b, q[Len(q)]) = end(b)
  /\ \A i \in 1 .. Len(q) : IsPacket(b, q[i])
  /\ \A i \in 1 .. Len(q) - 1 : q[i + 1].pos = Successor(b, q[i])
  /\ \A i, j \in 1 .. Len(q) : i < j => Behind(b, q[i], q[j])

=============================================================================
