-------------------------- MODULE ChunkBuffer2Proofs --------------------------
(***************************************************************************)
(* For every size, MTU and packet: the calls of ChunkBuffer2 take a ring   *)
(* of blocks that is a queue to a ring that is the next queue.             *)
(***************************************************************************)
EXTENDS ChunkBuffer2, SequenceTheorems, TLAPS

\* f is an array of n elements.
IsArray(f, n) == f = [i \in 0 .. n - 1 |-> f[i]]

\* A buffer with its ten fields, and an array of blocks of its size.
IsRecord(b) ==
  b = [buffer |-> b.buffer, size |-> b.size, wrap |-> b.wrap,
       start |-> b.start, used |-> b.used, mtu |-> b.mtu,
       input_dest |-> b.input_dest, input_avail |-> b.input_avail,
       output_dest |-> b.output_dest, output_avail |-> b.output_avail]

IsBuffer(b) ==
  /\ IsRecord(b) /\ IsArray(b.buffer, b.size)
  /\ b.size \in Int /\ b.wrap \in Int /\ b.start \in Int
  /\ b.used \in Int /\ b.mtu \in Int

\* update_input sets the two fields of the input and nothing else.
LEMMA UpdateInput ==
  ASSUME NEW b, IsBuffer(b)
  PROVE  LET a == update_input(b)
             room == b.size - end(b) - 1 >= b.mtu /\ FreeBlocks(b) > 0
         IN  /\ IsBuffer(a)
             /\ a.buffer = b.buffer /\ a.size = b.size /\ a.wrap = b.wrap
             /\ a.start = b.start /\ a.used = b.used /\ a.mtu = b.mtu
             /\ a.output_dest = b.output_dest
             /\ a.output_avail = b.output_avail
             /\ a.input_dest = (IF room THEN end(b) + 1 ELSE -1)
             /\ a.input_avail = (IF room THEN FreeBlocks(b) - 1 ELSE -1)
<1>1. CASE b.size - end(b) - 1 >= b.mtu /\ FreeBlocks(b) > 0
  BY Zenon, <1>1 DEF update_input, IsBuffer, IsRecord
<1>2. CASE ~(b.size - end(b) - 1 >= b.mtu /\ FreeBlocks(b) > 0)
  BY Zenon, <1>2 DEF update_input, IsBuffer, IsRecord
<1>3. QED BY <1>1, <1>2

\* update_output sets the two fields of the output and nothing else.
LEMMA UpdateOutput ==
  ASSUME NEW b, IsBuffer(b)
  PROVE  LET a == update_output(b)
         IN  /\ IsBuffer(a)
             /\ a.buffer = b.buffer /\ a.size = b.size /\ a.wrap = b.wrap
             /\ a.start = b.start /\ a.used = b.used /\ a.mtu = b.mtu
             /\ a.input_dest = b.input_dest
             /\ a.input_avail = b.input_avail
             /\ a.output_dest = (IF b.used > 0 THEN b.start + 1 ELSE -1)
             /\ a.output_avail =
                  (IF b.used > 0 THEN b.buffer[b.start].len ELSE -1)
<1>1. CASE b.used > 0
  BY Zenon, <1>1 DEF update_output, IsBuffer, IsRecord
<1>2. CASE ~(b.used > 0)
  BY Zenon, <1>2 DEF update_output, IsBuffer, IsRecord
<1>3. QED BY <1>1, <1>2

\* The end of the data and the free blocks depend on four fields only.
LEMMA SameEnd ==
  ASSUME NEW a, NEW b, a.size = b.size, a.wrap = b.wrap,
         a.start = b.start, a.used = b.used
  PROVE  /\ Wrapped(a) <=> Wrapped(b)
         /\ end(a) = end(b) /\ FreeBlocks(a) = FreeBlocks(b)
BY DEF Wrapped, end, FreeBlocks

\* A new buffer is the empty queue.
THEOREM NewIsQueue ==
  ASSUME NEW blocks \in Nat \ {0}, NEW mtu \in Nat
  PROVE  IsBuffer(NewBuffer(blocks, mtu)) /\ IsQueue(NewBuffer(blocks, mtu), <<>>)
<1> DEFINE n == [buffer |-> [i \in 0 .. blocks - 1 |-> Free],
                 size |-> blocks, wrap |-> blocks, start |-> 0, used |-> 0,
                 mtu |-> mtu, input_dest |-> -1, input_avail |-> -1,
                 output_dest |-> -1, output_avail |-> -1]
           a == update_input(n)
           b == update_output(a)
<1>1. IsBuffer(n)
  BY DEF IsBuffer, IsArray, IsRecord
<1>2. NewBuffer(blocks, mtu) = b
  BY DEF NewBuffer
<1>3. /\ b.size = blocks /\ b.wrap = blocks /\ b.start = 0 /\ b.used = 0
      /\ b.mtu = mtu /\ IsBuffer(b)
      /\ b.output_dest = -1 /\ b.output_avail = -1
      /\ b.input_dest = a.input_dest /\ b.input_avail = a.input_avail
  <2> HIDE DEF n
  <2>1. n.size = blocks /\ n.wrap = blocks /\ n.start = 0 /\ n.used = 0 /\ n.mtu = mtu
    BY DEF n
  <2> HIDE DEF a
  <2>2. IsBuffer(a) /\ a.size = blocks /\ a.wrap = blocks /\ a.start = 0
        /\ a.used = 0 /\ a.mtu = mtu
    BY <1>1, <2>1, UpdateInput DEF a
  <2>3. QED BY <2>2, UpdateOutput
<1>4. end(n) = end(b) /\ FreeBlocks(n) = FreeBlocks(b)
  BY <1>3, SameEnd
<1>5. AssertIo(b)
  <2> HIDE DEF n, b
  <2>1. n.size = blocks /\ n.mtu = mtu
    BY DEF n
  <2>2. QED BY <1>1, <1>3, <1>4, <2>1, UpdateInput DEF AssertIo
<1>6. AssertBuffer(b)
  <2> HIDE DEF b
  <2> QED BY <1>3 DEF AssertBuffer, Wrapped
<1>7. IsQueue(b, <<>>)
  <2> HIDE DEF b
  <2> QED BY <1>3, <1>5, <1>6 DEF IsQueue
<1>8. QED BY <1>2, <1>3, <1>7

\* What a call leaves in the fields that update_input and update_output do
\* not touch makes AssertIo hold after them.
LEMMA UpdatedIo ==
  ASSUME NEW b, IsBuffer(b),
         b.used > 0 => /\ b.buffer[b.start].len \in Nat
                       /\ b.buffer[b.start].len <= b.used - 1
                       /\ b.buffer[b.start].len <= b.wrap - b.start - 1
  PROVE  AssertIo(update_output(update_input(b)))
<1> DEFINE a == update_input(b)
           c == update_output(a)
<1>1. /\ IsBuffer(a)
      /\ a.buffer = b.buffer /\ a.size = b.size /\ a.wrap = b.wrap
      /\ a.start = b.start /\ a.used = b.used /\ a.mtu = b.mtu
  BY UpdateInput
<1>2. /\ c.buffer = b.buffer /\ c.size = b.size /\ c.wrap = b.wrap
      /\ c.start = b.start /\ c.used = b.used /\ c.mtu = b.mtu
      /\ c.input_dest = a.input_dest /\ c.input_avail = a.input_avail
      /\ c.output_dest = (IF b.used > 0 THEN b.start + 1 ELSE -1)
      /\ c.output_avail = (IF b.used > 0 THEN b.buffer[b.start].len ELSE -1)
  <2> HIDE DEF a
  <2> QED BY <1>1, UpdateOutput
<1>3. end(c) = end(b) /\ FreeBlocks(c) = FreeBlocks(b)
  <2> HIDE DEF c
  <2> QED BY <1>2, SameEnd
<1>4. /\ c.input_dest = (IF b.size - end(b) - 1 >= b.mtu /\ FreeBlocks(b) > 0
                         THEN end(b) + 1 ELSE -1)
      /\ c.input_avail = (IF b.size - end(b) - 1 >= b.mtu /\ FreeBlocks(b) > 0
                          THEN FreeBlocks(b) - 1 ELSE -1)
  <2> HIDE DEF c
  <2> QED BY <1>2, UpdateInput
<1> HIDE DEF a, c
<1>5. AssertIo(c)
  BY <1>2, <1>3, <1>4 DEF AssertIo, IsBuffer
<1>6. QED BY <1>5 DEF a, c

\* The parts of AssertIo are about different fields: a call that leaves the
\* first packet and its place alone need not update the output.
LEMMA InputIo ==
  ASSUME NEW b, IsBuffer(b),
         IF b.used > 0
         THEN /\ 0 <= b.output_avail /\ b.output_avail <= b.used - 1
              /\ b.output_avail <= b.wrap - b.start - 1
              /\ b.output_dest = b.start + 1
              /\ b.output_avail = b.buffer[b.start].len
         ELSE b.output_dest = -1 /\ b.output_avail = -1
  PROVE  AssertIo(update_input(b))
<1> DEFINE a == update_input(b)
<1>1. /\ a.buffer = b.buffer /\ a.size = b.size /\ a.wrap = b.wrap
      /\ a.start = b.start /\ a.used = b.used /\ a.mtu = b.mtu
      /\ a.output_dest = b.output_dest /\ a.output_avail = b.output_avail
      /\ a.input_dest = (IF b.size - end(b) - 1 >= b.mtu /\ FreeBlocks(b) > 0
                         THEN end(b) + 1 ELSE -1)
      /\ a.input_avail = (IF b.size - end(b) - 1 >= b.mtu /\ FreeBlocks(b) > 0
                          THEN FreeBlocks(b) - 1 ELSE -1)
  BY UpdateInput
<1> HIDE DEF a
<1>2. end(a) = end(b) /\ FreeBlocks(a) = FreeBlocks(b)
  BY <1>1, SameEnd
<1>3. AssertIo(a)
  BY <1>1, <1>2 DEF AssertIo
<1>4. QED BY <1>3 DEF a

\* Where the data ends, in the two shapes it can have.
LEMMA Shape ==
  ASSUME NEW b, IsBuffer(b), AssertBuffer(b)
  PROVE  /\ end(b) \in Int /\ FreeBlocks(b) \in Int
         /\ Wrapped(b) => /\ end(b) = b.used - (b.wrap - b.start)
                          /\ 0 <= end(b) /\ end(b) <= b.start
                          /\ FreeBlocks(b) = b.start - end(b)
         /\ ~Wrapped(b) => /\ end(b) = b.start + b.used
                           /\ b.wrap = b.size /\ end(b) < b.size
                           /\ b.start <= end(b)
                           /\ FreeBlocks(b) = b.size - end(b)
BY DEF IsBuffer, AssertBuffer, Wrapped, end, FreeBlocks

\* The piece that begins with the first packet ends where the array wraps, or
\* before.
LEMMA LimitOfFirst ==
  ASSUME NEW b, IsBuffer(b), AssertBuffer(b)
  PROVE  Limit(b, b.start) \in Int /\ Limit(b, b.start) <= b.wrap
<1>1. b.start \in Int /\ b.wrap \in Int /\ b.size \in Int
  BY Zenon DEF IsBuffer
<1>2. CASE Wrapped(b)
  BY <1>1, <1>2 DEF Limit
<1>3. CASE ~Wrapped(b)
  <2>1. end(b) \in Int /\ b.wrap = b.size /\ end(b) < b.size
    BY Zenon, <1>3, Shape
  <2>2. Limit(b, b.start) = end(b)
    BY Zenon, <1>3 DEF Limit
  <2>3. end(b) <= b.wrap
    BY <1>1, <2>1
  <2>4. QED BY Zenon, <2>1, <2>2, <2>3
<1>4. QED BY <1>2, <1>3

Entries(D) == [pos : Int, len : Nat, data : D]

\* The assignments of the calls to the four fields they change.
Assigned(b, f, start, used, wrap) ==
  [b EXCEPT !.buffer = f, !.start = start, !.used = used, !.wrap = wrap]

\* Those assignments leave a record with the six other fields as they were.
LEMMA AssignedFields ==
  ASSUME NEW b, IsRecord(b), NEW f, NEW start, NEW used, NEW wrap,
         NEW a, a = Assigned(b, f, start, used, wrap)
  PROVE  /\ IsRecord(a) /\ a.buffer = f
         /\ a.size = b.size /\ a.wrap = wrap /\ a.start = start
         /\ a.used = used /\ a.mtu = b.mtu
         /\ a.input_dest = b.input_dest /\ a.input_avail = b.input_avail
         /\ a.output_dest = b.output_dest
         /\ a.output_avail = b.output_avail
<1>1. a = [buffer |-> f, size |-> b.size, wrap |-> wrap,
           start |-> start, used |-> used, mtu |-> b.mtu,
           input_dest |-> b.input_dest, input_avail |-> b.input_avail,
           output_dest |-> b.output_dest, output_avail |-> b.output_avail]
  BY Zenon DEF IsRecord, Assigned
<1>2. /\ a.buffer = f
      /\ a.size = b.size /\ a.wrap = wrap /\ a.start = start
      /\ a.used = used /\ a.mtu = b.mtu
      /\ a.input_dest = b.input_dest /\ a.input_avail = b.input_avail
      /\ a.output_dest = b.output_dest /\ a.output_avail = b.output_avail
  BY <1>1
<1>3. IsRecord(a)
  BY <1>1, <1>2, Zenon DEF IsRecord
<1>4. QED BY <1>2, <1>3

\* The array after Write, and the array after SubmitPacket.
Written(b, data, len) ==
  [i \in 0 .. b.size - 1 |->
     IF i \in end(b) + 1 .. end(b) + len THEN Data(data) ELSE b.buffer[i]]
Submitted(b, data, len) ==
  [i \in 0 .. b.size - 1 |->
     IF i = end(b) THEN Header(len) ELSE Written(b, data, len)[i]]

\* The end of the round when a packet of len blocks is submitted.
NewWrap(b, len) ==
  IF b.used + 1 + len <= b.wrap - b.start /\ b.mtu > b.size - (end(b) + 1 + len) - 1
  THEN end(b) + 1 + len ELSE b.wrap

\* Write, field by field.
LEMMA WriteFields ==
  ASSUME NEW b, IsBuffer(b), NEW data, NEW len \in Nat,
         end(b) \in Int, b.input_dest = end(b) + 1
  PROVE  LET w == Write(b, data, len)
         IN  /\ IsBuffer(w) /\ w.buffer = Written(b, data, len)
             /\ w.size = b.size /\ w.wrap = b.wrap /\ w.start = b.start
             /\ w.used = b.used /\ w.mtu = b.mtu
             /\ w.output_dest = b.output_dest
             /\ w.output_avail = b.output_avail
<1> DEFINE f == Written(b, data, len)
           w == Write(b, data, len)
<1>1. IsArray(f, b.size)
  BY DEF IsArray, Written
<1>2. DOMAIN b.buffer = 0 .. b.size - 1
  BY DEF IsBuffer, IsArray
<1>3. b.input_dest + len - 1 = end(b) + len
  OBVIOUS
<1>4. w = [b EXCEPT !.buffer = f]
  BY Zenon, <1>2, <1>3 DEF Write, Written
<1> HIDE DEF f, w
<1>5. w = Assigned(b, f, b.start, b.used, b.wrap)
  BY Zenon, <1>4 DEF IsBuffer, IsRecord, Assigned
<1>6. /\ IsRecord(w) /\ w.buffer = f
      /\ w.size = b.size /\ w.wrap = b.wrap /\ w.start = b.start
      /\ w.used = b.used /\ w.mtu = b.mtu
      /\ w.output_dest = b.output_dest /\ w.output_avail = b.output_avail
  BY <1>5, AssignedFields DEF IsBuffer
<1>7. IsBuffer(w)
  BY <1>1, <1>6 DEF IsBuffer
<1>8. QED BY <1>6, <1>7 DEF f, w

\* What SubmitPacket has assigned before it updates the input.
LEMMA SubmitFields ==
  ASSUME NEW b, IsBuffer(b), NEW data, NEW len \in Nat,
         end(b) \in 0 .. b.size - 1, b.input_dest = end(b) + 1
  PROVE  \E x :
           /\ IsBuffer(x) /\ x.buffer = Submitted(b, data, len)
           /\ x.size = b.size /\ x.wrap = NewWrap(b, len) /\ x.start = b.start
           /\ x.used = b.used + 1 + len /\ x.mtu = b.mtu
           /\ x.output_dest = b.output_dest
           /\ x.output_avail = b.output_avail
           /\ SubmitPacket(Write(b, data, len), len) =
                IF x.used = 1 + len THEN update_output(update_input(x))
                ELSE update_input(x)
<1> DEFINE w == Write(b, data, len)
           f == [w.buffer EXCEPT ![end(b)] = Header(len)]
           used == b.used + 1 + len
           wrap == NewWrap(b, len)
           x == [w EXCEPT !.buffer[end(b)] = Header(len), !.used = used,
                          !.wrap = wrap]
<1>0. end(b) \in Int /\ b.used \in Int /\ b.wrap \in Int
  BY DEF IsBuffer
<1>1. /\ IsBuffer(w) /\ w.buffer = Written(b, data, len)
      /\ w.size = b.size /\ w.wrap = b.wrap /\ w.start = b.start
      /\ w.used = b.used /\ w.mtu = b.mtu
      /\ w.output_dest = b.output_dest /\ w.output_avail = b.output_avail
  BY <1>0, WriteFields
<1> HIDE DEF w
<1>2. end(w) = end(b)
  BY <1>1, SameEnd
<1>3. f = Submitted(b, data, len)
  BY Zenon, <1>1 DEF Submitted, Written
<1>4. IsArray(f, b.size)
  BY Zenon, <1>3 DEF Submitted, IsArray
<1>5. wrap \in Int /\ used \in Int
  BY <1>0 DEF NewWrap
<1>6. SubmitPacket(w, len) = IF used = 1 + len
        THEN update_output(update_input(x)) ELSE update_input(x)
  BY <1>1, <1>2 DEF SubmitPacket, NewWrap
<1>7. x = Assigned(w, f, w.start, used, wrap)
  <2> HIDE DEF used, wrap
  <2>1. IsRecord(w)
    BY <1>1 DEF IsBuffer
  <2>2. QED BY ONLY Zenon, <2>1 DEF IsRecord, Assigned
<1> HIDE DEF f, used, wrap, x
<1>8. /\ IsRecord(x) /\ x.buffer = f
      /\ x.size = w.size /\ x.wrap = wrap /\ x.start = w.start
      /\ x.used = used /\ x.mtu = w.mtu
      /\ x.output_dest = w.output_dest /\ x.output_avail = w.output_avail
  BY <1>1, <1>7, AssignedFields DEF IsBuffer
<1>9. IsBuffer(x)
  BY <1>1, <1>4, <1>5, <1>8 DEF IsBuffer
<1>10. SubmitPacket(Write(b, data, len), len) =
         IF x.used = 1 + len THEN update_output(update_input(x))
         ELSE update_input(x)
  BY <1>6, <1>8 DEF w
<1>11. QED BY <1>1, <1>3, <1>8, <1>9, <1>10 DEF used, wrap

\* a is b with a packet of len blocks submitted at its end, as far as the
\* place of the data is concerned.
Grown(a, b, data, len) ==
  /\ IsBuffer(a) /\ IsBuffer(b) /\ AssertBuffer(b)
  /\ b.size - end(b) - 1 >= b.mtu /\ len + 1 <= FreeBlocks(b)
  /\ a.size = b.size /\ a.start = b.start /\ a.mtu = b.mtu
  /\ a.used = b.used + 1 + len /\ a.wrap = NewWrap(b, len)
  /\ a.buffer = Submitted(b, data, len)

\* The data goes on behind its old end, or the new packet ends the round.
LEMMA GrownShape ==
  ASSUME NEW a, NEW b, NEW data, NEW len \in Nat, Grown(a, b, data, len)
  PROVE  /\ AssertBuffer(a)
         /\ Wrapped(b) => /\ Wrapped(a) /\ a.wrap = b.wrap
                          /\ end(a) = end(b) + 1 + len /\ end(a) <= b.start
         /\ ~Wrapped(b) /\ Wrapped(a) =>
              end(a) = 0 /\ a.wrap = end(b) + 1 + len
         /\ ~Wrapped(a) => ~Wrapped(b) /\ end(a) = end(b) + 1 + len
                             /\ a.wrap = b.wrap
<1>1. /\ b.size \in Int /\ b.wrap \in Int /\ b.start \in Int
      /\ b.used \in Int /\ b.mtu \in Int
  BY DEF Grown, IsBuffer
<1>2. CASE Wrapped(b)
  <2>1. /\ end(b) = b.used - (b.wrap - b.start) /\ len + 1 <= b.start - end(b)
        /\ b.used >= b.wrap - b.start
    BY <1>1, <1>2, Shape DEF Grown, Wrapped
  <2>2. a.wrap = b.wrap
    BY <1>1, <2>1 DEF Grown, NewWrap
  <2>3. Wrapped(a) /\ end(a) = end(b) + 1 + len
    BY <1>1, <2>1, <2>2 DEF Grown, Wrapped, end
  <2>4. AssertBuffer(a)
    BY <1>1, <2>1, <2>2, <2>3 DEF Grown, AssertBuffer
  <2>5. QED BY <1>1, <1>2, <2>1, <2>2, <2>3, <2>4, Shape DEF Grown
<1>3. CASE ~Wrapped(b)
  <2>1. /\ end(b) = b.start + b.used /\ len + 1 <= b.size - end(b)
        /\ b.wrap = b.size /\ b.used < b.wrap - b.start
    BY <1>1, <1>3, Shape DEF Grown, Wrapped
  <2>2. b.used + 1 + len <= b.wrap - b.start
    BY <1>1, <2>1
  <2>3. CASE b.mtu > b.size - (end(b) + 1 + len) - 1
    <3>1. a.wrap = end(b) + 1 + len
      BY <2>2, <2>3 DEF Grown, NewWrap
    <3>2. Wrapped(a) /\ end(a) = 0
      BY <1>1, <2>1, <3>1 DEF Grown, Wrapped, end
    <3>3. AssertBuffer(a)
      BY <1>1, <2>1, <3>1, <3>2 DEF Grown, AssertBuffer
    <3>4. QED BY <1>3, <3>1, <3>2, <3>3
  <2>4. CASE ~(b.mtu > b.size - (end(b) + 1 + len) - 1)
    <3>1. a.wrap = b.wrap
      BY <2>4 DEF Grown, NewWrap
    <3>2. b.used + 1 + len < b.wrap - b.start
      BY <1>1, <2>1, <2>4 DEF Grown, AssertBuffer
    <3>3. ~Wrapped(a) /\ end(a) = end(b) + 1 + len
      BY <1>1, <2>1, <3>1, <3>2 DEF Grown, Wrapped, end
    <3>4. AssertBuffer(a)
      BY <1>1, <2>1, <3>1, <3>2 DEF Grown, AssertBuffer
    <3>5. QED BY <1>3, <3>1, <3>3, <3>4
  <2>5. QED BY <2>3, <2>4
<1>4. QED BY <1>2, <1>3

\* Only the blocks of the new packet change.
LEMMA GrownUntouched ==
  ASSUME NEW a, NEW b, NEW data, NEW len \in Nat, Grown(a, b, data, len),
         NEW j \in Int, 0 <= j, j < b.size, j < end(b) \/ end(b) + len < j
  PROVE  a.buffer[j] = b.buffer[j]
<1>1. end(b) \in Int /\ b.size \in Int
  BY Shape DEF Grown, IsBuffer
<1>2. j \in 0 .. b.size - 1 /\ j # end(b) /\ j \notin end(b) + 1 .. end(b) + len
  BY <1>1
<1>3. Written(b, data, len)[j] = b.buffer[j]
  BY <1>2 DEF Written
<1>4. Submitted(b, data, len)[j] = Written(b, data, len)[j]
  BY <1>2 DEF Submitted
<1>5. QED BY <1>3, <1>4 DEF Grown

\* The packets that were in the buffer stay where they are, and the new one
\* is behind each of them.
LEMMA GrownKeeps ==
  ASSUME NEW a, NEW b, NEW D, NEW data \in D, NEW len \in Nat,
         Grown(a, b, data, len), NEW d \in Entries(D), IsPacket(b, d)
  PROVE  /\ IsPacket(a, d) /\ Successor(a, d) = Successor(b, d)
         /\ Behind(a, d, [pos |-> end(b), len |-> len, data |-> data])
<1> DEFINE e == [pos |-> end(b), len |-> len, data |-> data]
<1>1. /\ b.size \in Int /\ b.wrap \in Int /\ b.start \in Int
      /\ b.used \in Int /\ b.mtu \in Int /\ end(b) \in Int
      /\ d.pos \in Int /\ d.len \in Nat
      /\ a.start = b.start /\ a.size = b.size
      /\ 0 < b.wrap /\ b.wrap <= b.size /\ 0 <= b.start /\ b.start < b.wrap
  BY Shape DEF Grown, IsBuffer, Entries, AssertBuffer
<1>2. /\ d.pos >= 0 /\ d.pos + 1 + d.len <= Limit(b, d.pos)
      /\ ~Wrapped(b) => d.pos >= b.start
  BY DEF IsPacket, After
<1>3. CASE Wrapped(b)
  <2>1. /\ Wrapped(a) /\ a.wrap = b.wrap
        /\ end(a) = end(b) + 1 + len /\ end(a) <= b.start /\ 0 <= end(b)
    BY <1>3, GrownShape, Shape DEF Grown
  <2>2. /\ d.pos >= b.start => d.pos + 1 + d.len <= b.wrap
        /\ d.pos < b.start => d.pos + 1 + d.len <= end(b)
    BY <1>1, <1>2, <1>3 DEF Limit
  <2>3. d.pos + 1 + d.len <= Limit(a, d.pos)
    BY <1>1, <2>1, <2>2 DEF Limit
  <2>4. \A j \in d.pos .. d.pos + d.len : a.buffer[j] = b.buffer[j]
    BY <1>1, <1>2, <2>1, <2>2, GrownUntouched
  <2>5. IsPacket(a, d)
    BY <1>1, <1>2, <2>1, <2>3, <2>4 DEF IsPacket, After
  <2>6. Successor(a, d) = Successor(b, d)
    BY <1>1, <1>3, <2>1 DEF Successor, After
  <2>7. Behind(a, d, e)
    BY <1>1, <2>1, <2>2 DEF Behind, After
  <2>8. QED BY <2>5, <2>6, <2>7
<1>4. CASE ~Wrapped(b)
  <2>1. /\ end(b) < b.size /\ b.start <= end(b) /\ d.pos >= b.start
        /\ d.pos + 1 + d.len <= end(b)
    BY <1>2, <1>4, Shape DEF Grown, Limit
  <2>2. \A j \in d.pos .. d.pos + d.len : a.buffer[j] = b.buffer[j]
    BY <1>1, <1>2, <2>1, GrownUntouched
  <2>3. d.pos + 1 + d.len <= Limit(a, d.pos) /\ After(d) # a.wrap
    BY <1>1, <1>4, <2>1, GrownShape, Shape DEF Limit, After, Grown
  <2>4. IsPacket(a, d)
    BY <1>1, <1>2, <2>1, <2>2, <2>3 DEF IsPacket, After
  <2>5. Successor(a, d) = Successor(b, d)
    BY <1>4, <2>3 DEF Successor
  <2>6. Behind(a, d, e)
    BY <1>1, <2>1 DEF Behind, After
  <2>7. QED BY <2>4, <2>5, <2>6
<1>5. QED BY <1>3, <1>4

\* The new packet is in the buffer, and the data ends behind it.
LEMMA GrownNew ==
  ASSUME NEW a, NEW b, NEW D, NEW data \in D, NEW len \in Nat,
         Grown(a, b, data, len)
  PROVE  LET e == [pos |-> end(b), len |-> len, data |-> data]
         IN  IsPacket(a, e) /\ Successor(a, e) = end(a)
<1> DEFINE e == [pos |-> end(b), len |-> len, data |-> data]
<1>1. /\ b.size \in Int /\ b.wrap \in Int /\ b.start \in Int
      /\ b.used \in Int /\ b.mtu \in Int /\ end(b) \in Int
      /\ a.start = b.start /\ a.size = b.size
      /\ 0 < b.wrap /\ b.wrap <= b.size /\ 0 <= b.start /\ b.start < b.wrap
  BY Shape DEF Grown, IsBuffer, AssertBuffer
<1>2. end(b) >= 0 /\ end(b) + 1 + len <= b.size
  BY <1>1, Shape DEF Grown
<1>3. /\ a.buffer[end(b)] = Header(len)
      /\ \A j \in end(b) + 1 .. end(b) + len : a.buffer[j] = Data(data)
  BY SMTT(60), <1>1, <1>2 DEF Grown, Submitted, Written
<1>4. CASE Wrapped(b)
  <2>1. /\ Wrapped(a) /\ end(a) = end(b) + 1 + len /\ end(a) <= b.start
    BY <1>4, GrownShape
  <2>2. Limit(a, end(b)) = end(a)
    BY <1>1, <2>1 DEF Limit
  <2>3. QED BY <1>1, <1>2, <1>3, <2>1, <2>2 DEF IsPacket, Successor, After
<1>5. CASE ~Wrapped(b)
  <2>1. b.start <= end(b)
    BY <1>5, Shape DEF Grown
  <2>2. CASE Wrapped(a)
    <3>1. end(a) = 0 /\ a.wrap = end(b) + 1 + len
      BY <1>5, <2>2, GrownShape
    <3>2. Limit(a, end(b)) = a.wrap
      BY <1>1, <2>1, <2>2 DEF Limit
    <3>3. QED
      BY <1>1, <1>2, <1>3, <2>1, <2>2, <3>1, <3>2 DEF IsPacket, Successor, After
  <2>3. CASE ~Wrapped(a)
    <3>1. end(a) = end(b) + 1 + len
      BY <2>3, GrownShape
    <3>2. Limit(a, end(b)) = end(a)
      BY <2>3 DEF Limit
    <3>3. QED
      BY <1>1, <1>2, <1>3, <2>1, <2>3, <3>1, <3>2 DEF IsPacket, Successor, After
  <2>4. QED BY <2>2, <2>3
<1>6. QED BY <1>4, <1>5

\* A packet that is written where the buffer says and submitted becomes the
\* last of the queue; all the others stay as they are.  (IsQueue in
\* BufferIsQueue of UdpRelay, for every size and MTU.)
THEOREM SubmitAppends ==
  ASSUME NEW b, IsBuffer(b), NEW D, NEW q \in Seq(Entries(D)), IsQueue(b, q),
         NEW data \in D, NEW len \in Nat, b.input_dest >= 0, len <= b.input_avail
  PROVE  LET a == SubmitPacket(Write(b, data, len), len)
             e == [pos |-> end(b), len |-> len, data |-> data]
         IN  IsBuffer(a) /\ IsQueue(a, Append(q, e))
<1> DEFINE e == [pos |-> end(b), len |-> len, data |-> data]
           r == Append(q, e)
           a == SubmitPacket(Write(b, data, len), len)
<1>1. /\ AssertBuffer(b) /\ AssertIo(b)
      /\ b.size \in Int /\ b.wrap \in Int /\ b.start \in Int
      /\ b.used \in Int /\ b.mtu \in Int /\ end(b) \in Int
      /\ FreeBlocks(b) \in Int
  BY Shape DEF IsQueue, IsBuffer
<1>2. /\ b.size - end(b) - 1 >= b.mtu /\ FreeBlocks(b) > 0
      /\ b.input_dest = end(b) + 1 /\ len + 1 <= FreeBlocks(b)
  <2>1. b.size - end(b) - 1 >= b.mtu /\ FreeBlocks(b) > 0
    BY <1>1 DEF AssertIo
  <2>2. b.input_dest = end(b) + 1 /\ b.input_avail = FreeBlocks(b) - 1
    BY <1>1, <2>1 DEF AssertIo
  <2>3. QED BY <1>1, <2>1, <2>2
<1>3. end(b) \in 0 .. b.size - 1
  <2>1. end(b) >= 0
    BY <1>1, Shape DEF AssertBuffer
  <2>2. b.mtu >= 0
    BY <1>1 DEF AssertBuffer
  <2>3. QED BY <1>1, <1>2, <2>1, <2>2
<1>4. PICK x :
        /\ IsBuffer(x) /\ x.buffer = Submitted(b, data, len)
        /\ x.size = b.size /\ x.wrap = NewWrap(b, len) /\ x.start = b.start
        /\ x.used = b.used + 1 + len /\ x.mtu = b.mtu
        /\ x.output_dest = b.output_dest
        /\ x.output_avail = b.output_avail
        /\ a = IF x.used = 1 + len THEN update_output(update_input(x))
               ELSE update_input(x)
  BY <1>2, <1>3, SubmitFields
<1> HIDE DEF a
<1>5. Grown(x, b, data, len)
  BY <1>1, <1>2, <1>4 DEF Grown
<1>6. /\ IsBuffer(a) /\ a.buffer = x.buffer /\ a.size = x.size
      /\ a.wrap = x.wrap /\ a.start = x.start /\ a.used = x.used
      /\ a.mtu = x.mtu
  <2>1. LET u == update_input(x)
        IN  /\ IsBuffer(u) /\ u.buffer = x.buffer /\ u.size = x.size
            /\ u.wrap = x.wrap /\ u.start = x.start /\ u.used = x.used
            /\ u.mtu = x.mtu
    BY <1>4, UpdateInput
  <2>2. QED BY <1>4, <2>1, UpdateOutput
<1>7. Grown(a, b, data, len)
  BY <1>5, <1>6 DEF Grown
<1>8. AssertBuffer(a)
  BY <1>7, GrownShape
<1>9. IsPacket(a, e) /\ Successor(a, e) = end(a)
  BY <1>7, GrownNew
<1>10. AssertIo(a)
  <2>1. CASE b.used = 0
    <3>1. ~Wrapped(b) /\ end(b) = b.start
      BY <1>1, <2>1, Shape DEF AssertBuffer, Wrapped
    <3>2. x.buffer[x.start] = Header(len) /\ x.wrap - x.start - 1 >= len
      <4>1. x.buffer[x.start] = Header(len)
        BY <1>3, <1>4, <3>1 DEF Submitted
      <4>2. b.wrap = b.size /\ len + 1 <= b.size - end(b)
        BY <1>1, <1>2, <3>1, Shape
      <4>3. x.wrap = end(b) + 1 + len \/ x.wrap = b.wrap
        BY <1>4 DEF NewWrap
      <4>4. QED BY <1>1, <1>4, <3>1, <4>1, <4>2, <4>3
    <3>3. x.buffer[x.start].len = len
      BY <3>2 DEF Header
    <3>4. AssertIo(update_output(update_input(x)))
      BY SMTT(30), <1>1, <1>4, <2>1, <3>2, <3>3, UpdatedIo
    <3>5. QED BY <1>1, <1>4, <2>1, <3>4
  <2>2. CASE b.used # 0
    <3>1. b.used > 0 /\ x.used # 1 + len /\ x.used > 0
      BY <1>1, <1>4, <2>2 DEF AssertBuffer
    <3>2. /\ 0 <= b.output_avail /\ b.output_avail <= b.used - 1
          /\ b.output_avail <= b.wrap - b.start - 1
          /\ b.output_dest = b.start + 1
          /\ b.output_avail = b.buffer[b.start].len
      BY <1>1, <3>1 DEF AssertIo
    <3>3. q # <<>> /\ q[1] \in Entries(D) /\ IsPacket(b, q[1]) /\ q[1].pos = b.start
      BY <1>1, <3>1 DEF IsQueue
    <3>4. IsPacket(x, q[1])
      BY Zenon, <1>5, <3>3, GrownKeeps
    <3>5. x.buffer[x.start] = b.buffer[b.start] /\ b.output_avail = q[1].len
      BY <1>4, <3>2, <3>3, <3>4 DEF IsPacket, Header
    <3>6. b.output_avail <= x.wrap - x.start - 1
      <4>1. q[1].pos = x.start /\ q[1].pos \in Int /\ q[1].len \in Nat
        BY <1>4, <3>3 DEF Entries
      <4>2. q[1].pos + 1 + q[1].len <= Limit(x, q[1].pos)
        BY <3>4 DEF IsPacket, After
      <4>3. x.wrap \in Int /\ AssertBuffer(x)
        BY <1>4, <1>5, GrownShape DEF IsBuffer
      <4>4. Limit(x, q[1].pos) \in Int /\ Limit(x, q[1].pos) <= x.wrap
        BY Zenon, <1>4, <4>1, <4>3, LimitOfFirst
      <4>5. QED BY <3>5, <4>1, <4>2, <4>3, <4>4
    <3>7. a = update_input(x)
      BY <1>4, <3>1
    <3>8. /\ x.output_avail = b.output_avail /\ x.output_dest = x.start + 1
          /\ x.output_avail <= x.used - 1
      <4>1. x.output_avail = b.output_avail /\ x.output_dest = b.output_dest /\ x.start = b.start
        BY Zenon, <1>4
      <4>2. x.output_dest = x.start + 1
        BY Zenon, <3>2, <4>1
      <4>3. q[1].len \in Nat
        BY <3>3 DEF Entries
      <4>4. b.used \in Int /\ q[1].len <= b.used - 1 /\ x.used = b.used + 1 + len
        BY Zenon, <1>1, <1>4, <3>2, <3>5
      <4>5. q[1].len <= x.used - 1
        BY <4>3, <4>4
      <4>6. QED BY Zenon, <3>5, <4>1, <4>2, <4>5
    <3>9. AssertIo(update_input(x))
      BY Zenon, <1>4, <3>1, <3>2, <3>5, <3>6, <3>8, InputIo
    <3>10. QED BY <3>7, <3>9
  <2>3. QED BY <2>1, <2>2
<1>11. /\ r \in Seq(Entries(D)) /\ Len(r) = Len(q) + 1 /\ r[Len(r)] = e
       /\ \A i \in 1 .. Len(q) : r[i] = q[i] /\ q[i] \in Entries(D)
  <2>1. e \in Entries(D)
    BY <1>1 DEF Entries
  <2> HIDE DEF e
  <2>2. QED BY <2>1
<1> HIDE DEF e, r
<1>12. \A i \in 1 .. Len(r) : IsPacket(a, r[i])
  <2>1. SUFFICES ASSUME NEW i \in 1 .. Len(r) PROVE IsPacket(a, r[i])
    OBVIOUS
  <2>2. CASE i = Len(r)
    BY <1>9, <1>11, <2>2
  <2>3. CASE i # Len(r)
    <3>1. i \in 1 .. Len(q) /\ r[i] = q[i] /\ q[i] \in Entries(D)
      BY <1>11, <2>3
    <3>2. IsPacket(b, q[i])
      BY <3>1 DEF IsQueue
    <3>3. QED BY Zenon, <1>7, <3>1, <3>2, GrownKeeps
  <2>4. QED BY <2>2, <2>3
<1>13. r # <<>> /\ r[1].pos = a.start /\ Successor(a, r[Len(r)]) = end(a)
  <2>1. CASE q = <<>>
    <3>1. b.used = 0 /\ end(b) = b.start
      BY <1>1, <2>1, Shape DEF IsQueue, AssertBuffer, Wrapped
    <3>2. r = <<e>> /\ Len(r) = 1
      BY <1>11, <2>1 DEF r
    <3>3. e.pos = b.start
      BY <3>1 DEF e
    <3>4. QED BY <1>4, <1>6, <1>9, <1>11, <3>2, <3>3
  <2>2. CASE q # <<>>
    BY <1>4, <1>6, <1>9, <1>11, <2>2 DEF IsQueue
  <2>3. QED BY <2>1, <2>2
<1>14. \A i \in 1 .. Len(r) - 1 : r[i + 1].pos = Successor(a, r[i])
  <2>1. SUFFICES ASSUME NEW i \in 1 .. Len(r) - 1
                 PROVE  r[i + 1].pos = Successor(a, r[i])
    OBVIOUS
  <2>2. r[i] = q[i] /\ Successor(a, q[i]) = Successor(b, q[i])
    <3>1. i \in 1 .. Len(q) /\ r[i] = q[i] /\ q[i] \in Entries(D)
      BY <1>11
    <3>2. IsPacket(b, q[i])
      BY <3>1 DEF IsQueue
    <3>3. QED BY ZenonT(60), <1>7, <3>1, <3>2, GrownKeeps
  <2>3. CASE i = Len(q)
    <3>1. q # <<>> /\ Successor(b, q[i]) = end(b)
      BY <2>3 DEF IsQueue
    <3>2. r[i + 1] = e /\ e.pos = end(b)
      BY <1>11, <2>3 DEF e
    <3>3. QED BY <2>2, <3>1, <3>2
  <2>4. CASE i # Len(q)
    BY <1>11, <2>2, <2>4 DEF IsQueue
  <2>5. QED BY <2>3, <2>4
<1>15. \A i, j \in 1 .. Len(r) : i < j => Behind(a, r[i], r[j])
  <2>1. SUFFICES ASSUME NEW i \in 1 .. Len(r), NEW j \in 1 .. Len(r), i < j
                 PROVE  Behind(a, r[i], r[j])
    OBVIOUS
  <2>2. CASE j = Len(r)
    <3>1. i \in 1 .. Len(q) /\ r[i] = q[i] /\ q[i] \in Entries(D)
      BY <1>11, <2>1, <2>2
    <3>2. IsPacket(b, q[i])
      BY <3>1 DEF IsQueue
    <3>3. Behind(a, q[i], e)
      BY <1>7, <3>1, <3>2, GrownKeeps DEF e
    <3>4. QED BY <1>11, <2>2, <3>1, <3>3
  <2>3. CASE j # Len(r)
    <3>1. Behind(b, q[i], q[j]) /\ r[i] = q[i] /\ r[j] = q[j]
      BY <1>11, <2>1, <2>3 DEF IsQueue
    <3>2. QED BY <1>4, <1>6, <3>1 DEF Behind
  <2>4. QED BY <2>2, <2>3
<1>16. a.used # 0
  BY <1>1, <1>4, <1>6 DEF AssertBuffer
<1>17. IsQueue(a, r)
  BY <1>8, <1>10, <1>12, <1>13, <1>14, <1>15, <1>16 DEF IsQueue
<1>18. QED BY <1>6, <1>17 DEF a, e, r

-----------------------------------------------------------------------------
\* The array after ConsumePacket of a packet of len blocks.
Cleared(b, len) ==
  [i \in 0 .. b.size - 1 |->
     IF i \in b.start .. b.start + (1 + len) - 1 THEN Free ELSE b.buffer[i]]

\* a is b without its first packet, of len blocks.
Shrunk(a, b, len) ==
  /\ IsBuffer(a) /\ IsBuffer(b) /\ AssertBuffer(b)
  /\ a.size = b.size /\ a.mtu = b.mtu /\ a.used = b.used - (1 + len)
  /\ a.buffer = Cleared(b, len)
  /\ IF b.start + (1 + len) = b.wrap
     THEN a.start = 0 /\ a.wrap = b.size
     ELSE a.start = b.start + (1 + len) /\ a.wrap = b.wrap

\* What ConsumePacket has assigned before it updates input and output.
LEMMA ConsumeFields ==
  ASSUME NEW b, IsBuffer(b), AssertBuffer(b), NEW len \in Nat,
         b.buffer[b.start].len = len
  PROVE  \E x :
           /\ Shrunk(x, b, len)
           /\ x.input_dest = b.input_dest /\ x.input_avail = b.input_avail
           /\ ConsumePacket(b) =
                update_output(IF Wrapped(b) THEN update_input(x) ELSE x)
<1> DEFINE f == Cleared(b, len)
           round == b.start + (1 + len) = b.wrap
           start == IF round THEN 0 ELSE b.start + (1 + len)
           used == b.used - (1 + len)
           wrap == IF round THEN b.size ELSE b.wrap
           x == Assigned(b, f, start, used, wrap)
<1>1. /\ DOMAIN b.buffer = 0 .. b.size - 1 /\ IsRecord(b)
      /\ b.size \in Int /\ b.wrap \in Int /\ b.start \in Int
      /\ b.used \in Int /\ b.mtu \in Int
  BY DEF IsBuffer, IsArray
<1>2. ConsumePacket(b) = update_output(IF Wrapped(b) THEN update_input(x) ELSE x)
  BY <1>1 DEF ConsumePacket, Cleared, Assigned
<1>3. IsArray(f, b.size)
  BY Zenon DEF IsArray, Cleared
<1>4. start \in Int /\ used \in Int /\ wrap \in Int
  BY <1>1
<1>5. IF round THEN start = 0 /\ wrap = b.size
      ELSE start = b.start + (1 + len) /\ wrap = b.wrap
  OBVIOUS
<1> HIDE DEF f, start, used, wrap, round, x
<1>6. /\ IsRecord(x) /\ x.buffer = f
      /\ x.size = b.size /\ x.wrap = wrap /\ x.start = start
      /\ x.used = used /\ x.mtu = b.mtu
      /\ x.input_dest = b.input_dest /\ x.input_avail = b.input_avail
  BY <1>1, AssignedFields DEF x
<1>7. IsBuffer(x)
  BY <1>1, <1>3, <1>4, <1>6 DEF IsBuffer
<1>8. Shrunk(x, b, len)
  BY <1>5, <1>6, <1>7 DEF Shrunk, f, used, round
<1>9. QED BY <1>2, <1>6, <1>8

\* The data ends where it did.  When the round ends the rest of it is at the
\* beginning of the array.
LEMMA ShrunkShape ==
  ASSUME NEW a, NEW b, NEW len \in Nat, Shrunk(a, b, len),
         b.start + 1 + len <= Limit(b, b.start)
  PROVE  /\ AssertBuffer(a) /\ end(a) = end(b)
         /\ b.start + 1 + len = b.wrap =>
              Wrapped(b) /\ ~Wrapped(a) /\ a.start = 0 /\ a.wrap = b.size
         /\ b.start + 1 + len # b.wrap =>
              /\ Wrapped(a) <=> Wrapped(b)
              /\ a.start = b.start + 1 + len /\ a.wrap = b.wrap
         /\ ~Wrapped(b) => ~Wrapped(a) /\ b.start + 1 + len # b.wrap
<1>1. /\ b.size \in Int /\ b.wrap \in Int /\ b.start \in Int
      /\ b.used \in Int /\ b.mtu \in Int
      /\ 0 < b.wrap /\ b.wrap <= b.size /\ 0 <= b.start /\ b.start < b.wrap
      /\ b.used <= b.wrap /\ b.mtu >= 0
      /\ a.size = b.size /\ a.mtu = b.mtu /\ a.used = b.used - (1 + len)
  BY DEF Shrunk, IsBuffer, AssertBuffer
<1>2. CASE Wrapped(b)
  <2>1. /\ end(b) = b.used - (b.wrap - b.start) /\ b.start + 1 + len <= b.wrap
        /\ 0 <= end(b) /\ end(b) <= b.start /\ b.used >= b.wrap - b.start
    BY <1>1, <1>2, Shape DEF Shrunk, Limit, Wrapped
  <2>2. CASE b.start + 1 + len = b.wrap
    <3>1. a.start = 0 /\ a.wrap = b.size
      BY <1>1, <2>2 DEF Shrunk
    <3>2. ~Wrapped(a) /\ end(a) = end(b)
      BY <1>1, <2>1, <2>2, <3>1 DEF Wrapped, end
    <3>3. AssertBuffer(a)
      BY <1>1, <2>1, <2>2, <3>1 DEF AssertBuffer
    <3>4. QED BY <1>2, <2>2, <3>1, <3>2, <3>3
  <2>3. CASE b.start + 1 + len # b.wrap
    <3>1. a.start = b.start + 1 + len /\ a.wrap = b.wrap
      BY <1>1, <2>3 DEF Shrunk
    <3>2. Wrapped(a) /\ end(a) = end(b)
      BY <1>1, <2>1, <2>3, <3>1 DEF Wrapped, end
    <3>3. AssertBuffer(a)
      BY <1>1, <2>1, <2>3, <3>1, <3>2 DEF AssertBuffer
    <3>4. QED BY <1>2, <2>3, <3>1, <3>2, <3>3
  <2>4. QED BY <2>2, <2>3
<1>3. CASE ~Wrapped(b)
  <2>1. /\ end(b) = b.start + b.used /\ b.start + 1 + len <= end(b)
        /\ b.wrap = b.size /\ end(b) < b.size
    BY <1>1, <1>3, Shape DEF Shrunk, Limit
  <2>2. a.start = b.start + 1 + len /\ a.wrap = b.wrap
    BY <1>1, <2>1 DEF Shrunk
  <2>3. ~Wrapped(a) /\ end(a) = end(b)
    BY <1>1, <2>1, <2>2 DEF Wrapped, end
  <2>4. AssertBuffer(a)
    BY <1>1, <2>1, <2>2 DEF AssertBuffer
  <2>5. QED BY <1>1, <1>3, <2>1, <2>2, <2>3, <2>4
<1>4. QED BY <1>2, <1>3

\* The packets behind the first one stay in the buffer, in their order.
LEMMA ShrunkKeeps ==
  ASSUME NEW a, NEW b, NEW D, NEW p \in Entries(D), IsPacket(b, p),
         p.pos = b.start, Shrunk(a, b, p.len),
         NEW d \in Entries(D), IsPacket(b, d), Behind(b, p, d)
  PROVE  /\ IsPacket(a, d) /\ Successor(a, d) = Successor(b, d)
         /\ \A e \in Entries(D) :
              Behind(b, p, e) /\ Behind(b, d, e) => Behind(a, d, e)
<1>1. /\ b.size \in Int /\ b.wrap \in Int /\ b.start \in Int
      /\ b.used \in Int /\ end(b) \in Int
      /\ d.pos \in Int /\ d.len \in Nat /\ p.pos \in Int /\ p.len \in Nat
      /\ 0 < b.wrap /\ b.wrap <= b.size /\ 0 <= b.start /\ b.start < b.wrap
      /\ p.pos = b.start
  BY Shape DEF Shrunk, IsBuffer, Entries, AssertBuffer
<1>2. /\ d.pos >= 0 /\ d.pos + 1 + d.len <= Limit(b, d.pos)
      /\ ~Wrapped(b) => d.pos >= b.start
      /\ b.start + 1 + p.len <= Limit(b, b.start)
  BY <1>1 DEF IsPacket, After
<1>3. /\ AssertBuffer(a) /\ end(a) = end(b)
      /\ b.start + 1 + p.len = b.wrap =>
           Wrapped(b) /\ ~Wrapped(a) /\ a.start = 0 /\ a.wrap = b.size
      /\ b.start + 1 + p.len # b.wrap =>
           /\ Wrapped(a) <=> Wrapped(b)
           /\ a.start = b.start + 1 + p.len /\ a.wrap = b.wrap
  BY <1>1, <1>2, ShrunkShape
<1>4. /\ d.pos < b.start \/ d.pos >= b.start + 1 + p.len
      /\ Wrapped(b) => end(b) <= b.start
      /\ ~Wrapped(b) => end(b) < b.size /\ b.wrap = b.size
  BY <1>1, Shape DEF Behind, After, Shrunk
<1>5. /\ d.pos < b.start => Wrapped(b) /\ d.pos + 1 + d.len <= end(b)
      /\ Wrapped(b) /\ d.pos >= b.start => d.pos + 1 + d.len <= b.wrap
      /\ ~Wrapped(b) => d.pos + 1 + d.len <= end(b)
  BY <1>1, <1>2 DEF Limit
<1>6. \A j \in d.pos .. d.pos + d.len : a.buffer[j] = b.buffer[j]
  <2>1. SUFFICES ASSUME NEW j \in d.pos .. d.pos + d.len
                 PROVE  a.buffer[j] = b.buffer[j]
    OBVIOUS
  <2>2. j \in 0 .. b.size - 1
    BY <1>1, <1>2, <1>4, <1>5
  <2>3. ~(j \in b.start .. b.start + (1 + p.len) - 1)
    BY <1>1, <1>4, <1>5
  <2>4. a.buffer = Cleared(b, p.len)
    BY DEF Shrunk
  <2>5. QED BY Zenon, <2>2, <2>3, <2>4 DEF Cleared
<1>7. d.pos + 1 + d.len <= Limit(a, d.pos) /\ (~Wrapped(a) => d.pos >= a.start)
  BY <1>1, <1>2, <1>3, <1>4, <1>5 DEF Limit
<1>8. IsPacket(a, d)
  BY <1>1, <1>2, <1>6, <1>7 DEF IsPacket, After
<1>9. Successor(a, d) = Successor(b, d)
  BY <1>1, <1>2, <1>3, <1>4, <1>5 DEF Successor, After
<1>10. ASSUME NEW e \in Entries(D), Behind(b, p, e), Behind(b, d, e)
       PROVE  Behind(a, d, e)
  <2>1. e.pos \in Int
    BY DEF Entries
  <2>2. e.pos < b.start \/ e.pos >= b.start + 1 + p.len
    BY <1>1, <1>10, <2>1 DEF Behind, After
  <2>3. IF e.pos >= b.start THEN d.pos >= b.start /\ e.pos >= d.pos + 1 + d.len
        ELSE d.pos >= b.start \/ e.pos >= d.pos + 1 + d.len
    BY <1>10 DEF Behind, After
  <2>4. IF e.pos >= a.start THEN d.pos >= a.start /\ e.pos >= d.pos + 1 + d.len
        ELSE d.pos >= a.start \/ e.pos >= d.pos + 1 + d.len
    BY <1>1, <1>2, <1>3, <1>4, <1>5, <2>1, <2>2, <2>3
  <2>5. QED BY <2>4 DEF Behind, After
<1>11. QED BY <1>8, <1>9, <1>10

\* update_output brings the output in line when the input is already right.
LEMMA OutputIo ==
  ASSUME NEW b, IsBuffer(b),
         IF b.size - end(b) - 1 >= b.mtu /\ FreeBlocks(b) > 0
         THEN b.input_dest = end(b) + 1 /\ b.input_avail = FreeBlocks(b) - 1
         ELSE b.input_dest = -1 /\ b.input_avail = -1,
         b.used > 0 => /\ b.buffer[b.start].len \in Nat
                       /\ b.buffer[b.start].len <= b.used - 1
                       /\ b.buffer[b.start].len <= b.wrap - b.start - 1
  PROVE  AssertIo(update_output(b))
<1> DEFINE a == update_output(b)
<1>1. /\ a.buffer = b.buffer /\ a.size = b.size /\ a.wrap = b.wrap
      /\ a.start = b.start /\ a.used = b.used /\ a.mtu = b.mtu
      /\ a.input_dest = b.input_dest /\ a.input_avail = b.input_avail
      /\ a.output_dest = (IF b.used > 0 THEN b.start + 1 ELSE -1)
      /\ a.output_avail = (IF b.used > 0 THEN b.buffer[b.start].len ELSE -1)
  BY UpdateOutput
<1> HIDE DEF a
<1>2. end(a) = end(b) /\ FreeBlocks(a) = FreeBlocks(b)
  BY <1>1, SameEnd
<1>3. AssertIo(a)
  BY <1>1, <1>2 DEF AssertIo
<1>4. QED BY <1>3 DEF a

\* ConsumePacket takes the oldest packet out of the queue, which is the one
\* the output shows; the others stay, whichever piece of the array they are in.
THEOREM ConsumePops ==
  ASSUME NEW b, IsBuffer(b), NEW D, NEW q \in Seq(Entries(D)), IsQueue(b, q),
         q # <<>>
  PROVE  /\ b.output_avail = q[1].len
         /\ q[1].len > 0 => b.buffer[b.output_dest] = Data(q[1].data)
         /\ IsBuffer(ConsumePacket(b)) /\ IsQueue(ConsumePacket(b), Tail(q))
<1> DEFINE p == q[1]
           len == p.len
           r == Tail(q)
           a == ConsumePacket(b)
<1>1. /\ Len(q) \in Nat /\ Len(q) >= 1 /\ Len(r) = Len(q) - 1
      /\ \A i \in 1 .. Len(q) : q[i] \in Entries(D)
      /\ \A i \in 1 .. Len(r) : r[i] = q[i + 1]
      /\ r = <<>> <=> Len(q) = 1
  <2>1. r \in Seq(Entries(D)) /\ Len(r) = Len(q) - 1 /\ Len(q) \in Nat
    OBVIOUS
  <2>2. r = <<>> <=> Len(r) = 0
    <3> HIDE DEF r
    <3> QED BY <2>1, EmptySeq
  <2>3. /\ \A i \in 1 .. Len(q) : q[i] \in Entries(D)
        /\ \A i \in 1 .. Len(r) : r[i] = q[i + 1]
    OBVIOUS
  <2> HIDE DEF r
  <2>4. QED BY <2>1, <2>2, <2>3
<1>2. /\ p \in Entries(D) /\ IsPacket(b, p) /\ p.pos = b.start
      /\ p.pos \in Int /\ len \in Nat /\ b.used # 0
      /\ Successor(b, q[Len(q)]) = end(b)
  <2>1. 1 \in 1 .. Len(q) /\ q # <<>>
    BY <1>1
  <2>2. /\ p \in Entries(D) /\ IsPacket(b, p) /\ p.pos = b.start
        /\ b.used # 0 /\ Successor(b, q[Len(q)]) = end(b)
    BY Zenon, <1>1, <2>1 DEF IsQueue
  <2>3. p.pos \in Int /\ p.len \in Nat
    BY <2>2 DEF Entries
  <2>4. QED BY Zenon, <2>2, <2>3
<1>3. /\ b.size \in Int /\ b.wrap \in Int /\ b.start \in Int
      /\ b.used \in Int /\ b.mtu \in Int /\ end(b) \in Int
      /\ AssertBuffer(b) /\ AssertIo(b) /\ b.used > 0
      /\ 0 <= b.start /\ b.start < b.wrap /\ b.wrap <= b.size
  <2>1. AssertBuffer(b) /\ AssertIo(b)
    BY Zenon DEF IsQueue
  <2>2. /\ b.size \in Int /\ b.wrap \in Int /\ b.start \in Int
        /\ b.used \in Int /\ b.mtu \in Int /\ 0 <= b.used
        /\ 0 <= b.start /\ b.start < b.wrap /\ b.wrap <= b.size
    BY Zenon, <2>1 DEF IsBuffer, AssertBuffer
  <2>3. b.used > 0
    BY ONLY SMTT(60), <1>2, <2>2
  <2>4. end(b) \in Int
    BY Zenon, <2>1, Shape
  <2>5. QED BY Zenon, <2>1, <2>2, <2>3, <2>4
<1>4. b.buffer[b.start] = Header(len) /\ b.buffer[b.start].len = len
  BY <1>2 DEF IsPacket, Header
<1>5. b.output_avail = len /\ b.output_dest = b.start + 1
  BY <1>3, <1>4 DEF AssertIo
<1>6. len > 0 => b.buffer[b.output_dest] = Data(p.data)
  BY <1>2, <1>3, <1>5 DEF IsPacket
<1>7. PICK x :
        /\ Shrunk(x, b, len)
        /\ x.input_dest = b.input_dest /\ x.input_avail = b.input_avail
        /\ a = update_output(IF Wrapped(b) THEN update_input(x) ELSE x)
  BY <1>2, <1>3, <1>4, ConsumeFields
<1> HIDE DEF a, p, len, r
<1>8. IsBuffer(x)
  BY <1>7 DEF Shrunk
<1>9. /\ IsBuffer(a) /\ a.buffer = x.buffer /\ a.size = x.size
      /\ a.wrap = x.wrap /\ a.start = x.start /\ a.used = x.used
      /\ a.mtu = x.mtu
  <2>1. LET u == update_input(x)
        IN  /\ IsBuffer(u) /\ u.buffer = x.buffer /\ u.size = x.size
            /\ u.wrap = x.wrap /\ u.start = x.start /\ u.used = x.used
            /\ u.mtu = x.mtu
    BY <1>8, UpdateInput
  <2>2. QED BY <1>7, <1>8, <2>1, UpdateOutput
<1>10. Shrunk(a, b, len)
  BY <1>7, <1>9 DEF Shrunk
<1>11. b.start + 1 + len <= Limit(b, b.start)
  BY <1>2, <1>3 DEF IsPacket, After, len
<1>12. /\ AssertBuffer(a) /\ end(a) = end(b)
       /\ b.start + 1 + len = b.wrap =>
            Wrapped(b) /\ ~Wrapped(a) /\ a.start = 0 /\ a.wrap = b.size
       /\ b.start + 1 + len # b.wrap =>
            /\ Wrapped(a) <=> Wrapped(b)
            /\ a.start = b.start + 1 + len /\ a.wrap = b.wrap
       /\ ~Wrapped(b) => ~Wrapped(a) /\ b.start + 1 + len # b.wrap
  BY <1>2, <1>10, <1>11, ShrunkShape DEF len
<1>13. Successor(b, p) = a.start
  BY <1>2, <1>3, <1>12 DEF Successor, After, len
<1>14. \A i \in 1 .. Len(r) :
         /\ r[i] \in Entries(D) /\ IsPacket(b, r[i]) /\ Behind(b, p, r[i])
  BY <1>1 DEF IsQueue, p
<1>15. \A i \in 1 .. Len(r) :
         /\ IsPacket(a, r[i]) /\ Successor(a, r[i]) = Successor(b, r[i])
         /\ \A e \in Entries(D) :
              Behind(b, p, e) /\ Behind(b, r[i], e) => Behind(a, r[i], e)
  BY <1>2, <1>10, <1>14, ShrunkKeeps DEF len
<1>16. r # <<>> => r[1].pos = a.start /\ Successor(a, r[Len(r)]) = end(a)
  <2>1. SUFFICES ASSUME r # <<>>
                 PROVE  r[1].pos = a.start /\ Successor(a, r[Len(r)]) = end(a)
    OBVIOUS
  <2>2. Len(r) >= 1 /\ Len(q) >= 2 /\ r[1] = q[2] /\ r[Len(r)] = q[Len(q)]
    BY <1>1, <2>1 DEF r
  <2>3. q[2].pos = Successor(b, p)
    BY <1>1, <2>2 DEF IsQueue, p
  <2>4. Successor(a, r[Len(r)]) = Successor(b, r[Len(r)])
    BY <1>1, <1>15, <2>2
  <2>5. QED BY <1>2, <1>12, <1>13, <2>2, <2>3, <2>4
<1>17. \A i \in 1 .. Len(r) - 1 : r[i + 1].pos = Successor(a, r[i])
  <2>1. SUFFICES ASSUME NEW i \in 1 .. Len(r) - 1
                 PROVE  r[i + 1].pos = Successor(a, r[i])
    OBVIOUS
  <2>2. r[i] = q[i + 1] /\ r[i + 1] = q[i + 2] /\ i + 1 \in 1 .. Len(q) - 1
    BY <1>1
  <2>3. q[i + 2].pos = Successor(b, q[i + 1])
    BY <1>1, <2>2 DEF IsQueue
  <2>4. QED BY <1>1, <1>15, <2>2, <2>3
<1>18. \A i, j \in 1 .. Len(r) : i < j => Behind(a, r[i], r[j])
  <2>1. SUFFICES ASSUME NEW i \in 1 .. Len(r), NEW j \in 1 .. Len(r), i < j
                 PROVE  Behind(a, r[i], r[j])
    OBVIOUS
  <2>2. r[i] = q[i + 1] /\ r[j] = q[j + 1] /\ i + 1 < j + 1
        /\ i + 1 \in 1 .. Len(q) /\ j + 1 \in 1 .. Len(q)
    BY <1>1, <2>1
  <2>3. Behind(b, r[i], r[j])
    BY <2>2 DEF IsQueue
  <2>4. QED BY <1>14, <1>15, <2>3
<1>19. r = <<>> <=> a.used = 0
  <2>1. a.used = b.used - (1 + len) /\ len \in Nat
    BY <1>2, <1>10 DEF Shrunk, len
  <2>2. CASE r = <<>>
    <3>1. Len(q) = 1 /\ Successor(b, p) = end(b)
      BY Zenon, <1>1, <1>2, <2>2 DEF p
    <3>2. a.start = end(a) /\ a.start \in Int /\ a.used \in Int /\ a.wrap \in Int
      BY <1>9, <1>12, <1>13, <3>1 DEF IsBuffer
    <3>3. ~Wrapped(a)
      BY <1>2, <1>3, <1>12, <2>1, <3>2, Shape
    <3>4. QED BY <2>2, <3>2, <3>3 DEF end
  <2>3. CASE r # <<>>
    <3>1. /\ Len(r) >= 1 /\ r[1] \in Entries(D) /\ IsPacket(a, r[1])
          /\ r[1].pos = a.start
      <4>1. Len(r) \in Nat /\ Len(r) # 0
        BY <1>1, <2>3, EmptySeq
      <4>2. Len(r) >= 1 /\ 1 \in 1 .. Len(r)
        BY ONLY SMTT(60), <4>1
      <4>3. QED BY Zenon, <1>14, <1>15, <1>16, <2>3, <4>2
    <3>2. /\ r[1].pos \in Int /\ r[1].len \in Nat
          /\ a.start + 1 + r[1].len <= Limit(a, a.start)
      BY <3>1 DEF Entries, IsPacket, After
    <3>3. a.start \in Int /\ a.used \in Int /\ a.wrap \in Int /\ a.start < a.wrap
      BY <1>9, <1>12 DEF IsBuffer, AssertBuffer
    <3>4. CASE Wrapped(a)
      BY <2>3, <3>3, <3>4 DEF Wrapped
    <3>5. CASE ~Wrapped(a)
      <4>1. a.start + 1 + r[1].len <= a.start + a.used
        BY <3>2, <3>5 DEF Limit, end
      <4>2. QED BY <2>3, <3>2, <3>3, <4>1
    <3>6. QED BY <3>4, <3>5
  <2>4. QED BY <2>2, <2>3
<1>20. x.used > 0 => /\ x.buffer[x.start].len \in Nat
                     /\ x.buffer[x.start].len <= x.used - 1
                     /\ x.buffer[x.start].len <= x.wrap - x.start - 1
  <2>1. SUFFICES ASSUME a.used > 0
                 PROVE  /\ a.buffer[a.start].len \in Nat
                        /\ a.buffer[a.start].len <= a.used - 1
                        /\ a.buffer[a.start].len <= a.wrap - a.start - 1
    BY <1>9
  <2>2. /\ Len(r) >= 1 /\ r[1] \in Entries(D) /\ IsPacket(a, r[1])
        /\ r[1].pos = a.start
    BY <1>1, <1>14, <1>15, <1>16, <1>19, <2>1
  <2>3. /\ r[1].len \in Nat /\ a.start + 1 + r[1].len <= Limit(a, a.start)
        /\ a.buffer[a.start] = Header(r[1].len)
    BY <2>2 DEF Entries, IsPacket, After
  <2>4. /\ a.start \in Int /\ a.used \in Int /\ a.wrap \in Int
        /\ a.size \in Int /\ a.wrap <= a.size
    BY <1>9, <1>12 DEF IsBuffer, AssertBuffer
  <2>5. r[1].len <= a.used - 1 /\ r[1].len <= a.wrap - a.start - 1
    BY ONLY SMTT(60), <2>3, <2>4 DEF Limit, Wrapped, end
  <2>6. a.buffer[a.start].len = r[1].len
    BY <2>3 DEF Header
  <2>7. QED BY <2>3, <2>5, <2>6
<1>21. AssertIo(a)
  <2>1. CASE Wrapped(b)
    BY <1>7, <1>8, <1>20, <2>1, UpdatedIo
  <2>2. CASE ~Wrapped(b)
    <3>1. /\ AssertBuffer(x) /\ end(x) = end(b) /\ ~Wrapped(x)
          /\ x.size = b.size /\ x.mtu = b.mtu
      BY <1>2, <1>7, <1>11, <2>2, ShrunkShape DEF Shrunk, len
    <3>2. FreeBlocks(x) = FreeBlocks(b)
      BY <2>2, <3>1 DEF FreeBlocks
    <3>3. IF x.size - end(x) - 1 >= x.mtu /\ FreeBlocks(x) > 0
          THEN x.input_dest = end(x) + 1 /\ x.input_avail = FreeBlocks(x) - 1
          ELSE x.input_dest = -1 /\ x.input_avail = -1
      BY <1>3, <1>7, <3>1, <3>2 DEF AssertIo
    <3>4. AssertIo(update_output(x))
      BY <1>8, <1>20, <3>3, OutputIo
    <3>5. QED BY <1>7, <2>2, <3>4
  <2>3. QED BY <2>1, <2>2
<1>22. IsQueue(a, r)
  BY <1>12, <1>15, <1>16, <1>17, <1>18, <1>19, <1>21 DEF IsQueue
<1>23. QED BY <1>5, <1>6, <1>9, <1>22 DEF a, p, len, r

-----------------------------------------------------------------------------
(***************************************************************************)
(* The size of the array.  calc_blocks makes room for one packet more than *)
(* asked for, which is what not splitting packets can cost: the rest of    *)
(* the array that is too short for a packet, and the gap in front of the   *)
(* oldest one.                                                             *)
(***************************************************************************)

\* The blocks in use from pos to the end of the data.
Ahead(b, pos) ==
  IF Wrapped(b) /\ pos >= b.start THEN (b.wrap - pos) + end(b) ELSE end(b) - pos

\* A packet of mtu blocks fits behind data that does not go round the end of
\* the array, and did fit where each packet begins; when it goes round, the
\* rest of the array was too short; and no packet is longer than mtu.
RoomRight(b, q) ==
  /\ ~Wrapped(b) => b.size - end(b) - 1 >= b.mtu
  /\ Wrapped(b) => b.size - b.wrap <= b.mtu
  /\ \A i \in 1 .. Len(q) :
       /\ q[i].len <= b.mtu /\ b.size - q[i].pos - 1 >= b.mtu
       /\ Ahead(b, q[i].pos) <= (Len(q) - i + 1) * (1 + b.mtu)

\* One more packet is one more factor.
LEMMA OneMore ==
  ASSUME NEW n \in Nat, NEW k \in Nat
  PROVE  (n + 1) * k = n * k + k /\ n * k \in Nat
OBVIOUS

\* A product grows with its first factor.
LEMMA MoreOf ==
  ASSUME NEW m \in Nat, NEW n \in Nat, NEW k \in Nat, m <= n
  PROVE  m * k <= n * k
<1>1. PICK d \in Nat : n = m + d
  BY n - m \in Nat
<1>2. n * k = m * k + d * k /\ d * k >= 0 /\ m * k \in Int
  BY <1>1
<1>3. QED BY <1>2

\* A packet that is submitted moves the end of the data away from the others
\* by its own length.
LEMMA GrownAhead ==
  ASSUME NEW a, NEW b, NEW D, NEW data, NEW len \in Nat,
         Grown(a, b, data, len), NEW d \in Entries(D), IsPacket(b, d)
  PROVE  Ahead(a, d.pos) = Ahead(b, d.pos) + (1 + len) /\ Ahead(b, d.pos) \in Int
<1>1. /\ b.size \in Int /\ b.wrap \in Int /\ b.start \in Int
      /\ end(b) \in Int /\ d.pos \in Int /\ a.start = b.start
      /\ ~Wrapped(b) => d.pos >= b.start
  BY Shape DEF Grown, IsBuffer, Entries, IsPacket
<1>2. CASE Wrapped(b)
  <2>1. Wrapped(a) /\ a.wrap = b.wrap /\ end(a) = end(b) + 1 + len
    BY Zenon, <1>2, GrownShape
  <2>2. QED BY <1>1, <1>2, <2>1 DEF Ahead
<1>3. CASE ~Wrapped(b) /\ Wrapped(a)
  <2>1. end(a) = 0 /\ a.wrap = end(b) + 1 + len
    BY ZenonT(60), <1>3, GrownShape
  <2>2. QED BY <1>1, <1>3, <2>1 DEF Ahead
<1>4. CASE ~Wrapped(b) /\ ~Wrapped(a)
  <2>1. end(a) = end(b) + 1 + len
    BY Zenon, <1>4, GrownShape
  <2>2. QED BY <1>1, <1>4, <2>1 DEF Ahead
<1>5. QED BY Zenon, <1>2, <1>3, <1>4

\* The new packet is all there is between its place and the end.
LEMMA GrownAheadNew ==
  ASSUME NEW a, NEW b, NEW data, NEW len \in Nat, Grown(a, b, data, len)
  PROVE  Ahead(a, end(b)) = 1 + len
<1>1. /\ b.size \in Int /\ b.wrap \in Int /\ b.start \in Int
      /\ end(b) \in Int /\ a.start = b.start
      /\ ~Wrapped(b) => b.start <= end(b)
  BY Shape DEF Grown, IsBuffer
<1>2. CASE Wrapped(b)
  <2>1. Wrapped(a) /\ end(a) = end(b) + 1 + len /\ end(a) <= b.start
    BY Zenon, <1>2, GrownShape
  <2>2. QED BY <1>1, <1>2, <2>1 DEF Ahead
<1>3. CASE ~Wrapped(b) /\ Wrapped(a)
  <2>1. end(a) = 0 /\ a.wrap = end(b) + 1 + len
    BY ZenonT(60), <1>3, GrownShape
  <2>2. QED BY <1>1, <1>3, <2>1 DEF Ahead
<1>4. CASE ~Wrapped(b) /\ ~Wrapped(a)
  <2>1. end(a) = end(b) + 1 + len
    BY Zenon, <1>4, GrownShape
  <2>2. QED BY <1>1, <1>4, <2>1 DEF Ahead
<1>5. QED BY Zenon, <1>2, <1>3, <1>4

\* The fields of a new buffer.
LEMMA NewFields ==
  ASSUME NEW blocks \in Nat \ {0}, NEW mtu \in Nat
  PROVE  LET b == NewBuffer(blocks, mtu)
         IN  /\ b.size = blocks /\ b.wrap = blocks /\ b.start = 0
             /\ b.used = 0 /\ b.mtu = mtu
<1> DEFINE n == [buffer |-> [i \in 0 .. blocks - 1 |-> Free],
                 size |-> blocks, wrap |-> blocks, start |-> 0, used |-> 0,
                 mtu |-> mtu, input_dest |-> -1, input_avail |-> -1,
                 output_dest |-> -1, output_avail |-> -1]
           a == update_input(n)
<1>1. /\ n.size = blocks /\ n.wrap = blocks /\ n.start = 0 /\ n.used = 0
      /\ n.mtu = mtu
  BY Zenon
<1>2. IsBuffer(n)
  BY DEF IsBuffer, IsArray, IsRecord
<1>3. NewBuffer(blocks, mtu) = update_output(a)
  BY Zenon DEF NewBuffer
<1> HIDE DEF n
<1>4. /\ IsBuffer(a) /\ a.size = n.size /\ a.wrap = n.wrap
      /\ a.start = n.start /\ a.used = n.used /\ a.mtu = n.mtu
  BY Zenon, <1>2, UpdateInput
<1> DEFINE b == update_output(a)
<1> HIDE DEF a
<1>5. /\ b.size = a.size /\ b.wrap = a.wrap
      /\ b.start = a.start /\ b.used = a.used /\ b.mtu = a.mtu
  BY Zenon, <1>4, UpdateOutput
<1> HIDE DEF b
<1>6. NewBuffer(blocks, mtu) = b
  BY Zenon, <1>3 DEF b
<1>7. QED BY Zenon, <1>1, <1>4, <1>5, <1>6

\* SubmitPacket puts the packet at the end.
LEMMA SubmitGrows ==
  ASSUME NEW b, IsBuffer(b), AssertBuffer(b), AssertIo(b), NEW data,
         NEW len \in Nat, b.input_dest >= 0, len <= b.input_avail
  PROVE  Grown(SubmitPacket(Write(b, data, len), len), b, data, len)
<1> DEFINE a == SubmitPacket(Write(b, data, len), len)
<1>1. /\ b.size \in Int /\ b.wrap \in Int /\ b.start \in Int
      /\ b.used \in Int /\ b.mtu \in Int /\ end(b) \in Int
      /\ FreeBlocks(b) \in Int /\ b.mtu >= 0 /\ end(b) >= 0
  BY Shape DEF IsBuffer, AssertBuffer
<1>2. b.size - end(b) - 1 >= b.mtu /\ FreeBlocks(b) > 0
  BY <1>1 DEF AssertIo
<1>3. b.input_dest = end(b) + 1 /\ b.input_avail = FreeBlocks(b) - 1
  BY Zenon, <1>2 DEF AssertIo
<1>4. len + 1 <= FreeBlocks(b) /\ end(b) \in 0 .. b.size - 1
  BY <1>1, <1>2, <1>3
<1>5. PICK x :
        /\ IsBuffer(x) /\ x.buffer = Submitted(b, data, len)
        /\ x.size = b.size /\ x.wrap = NewWrap(b, len) /\ x.start = b.start
        /\ x.used = b.used + 1 + len /\ x.mtu = b.mtu
        /\ x.output_dest = b.output_dest
        /\ x.output_avail = b.output_avail
        /\ a = IF x.used = 1 + len THEN update_output(update_input(x))
               ELSE update_input(x)
  BY <1>3, <1>4, SubmitFields
<1> DEFINE u == update_input(x)
<1> HIDE DEF a, u
<1>6. /\ IsBuffer(u) /\ u.buffer = x.buffer /\ u.size = x.size
      /\ u.wrap = x.wrap /\ u.start = x.start /\ u.used = x.used
      /\ u.mtu = x.mtu
  BY Zenon, <1>5, UpdateInput DEF u
<1>7. a = u \/ a = update_output(u)
  BY Zenon, <1>5 DEF u
<1>8. /\ IsBuffer(a) /\ a.buffer = x.buffer /\ a.size = x.size
      /\ a.wrap = x.wrap /\ a.start = x.start /\ a.used = x.used
      /\ a.mtu = x.mtu
  BY ZenonT(60), <1>6, <1>7, UpdateOutput
<1>9. QED BY Zenon, <1>2, <1>4, <1>5, <1>8 DEF Grown, a

\* ConsumePacket takes the first packet away.
LEMMA ConsumeShrinks ==
  ASSUME NEW b, IsBuffer(b), NEW D, NEW q \in Seq(Entries(D)), IsQueue(b, q),
         q # <<>>
  PROVE  Shrunk(ConsumePacket(b), b, q[1].len)
<1> DEFINE len == q[1].len
           a == ConsumePacket(b)
<1>1. q[1] \in Entries(D) /\ IsPacket(b, q[1]) /\ q[1].pos = b.start
  BY DEF IsQueue
<1>2. len \in Nat /\ b.buffer[b.start] = Header(len) /\ AssertBuffer(b)
  BY Zenon, <1>1 DEF Entries, IsPacket, IsQueue
<1> HIDE DEF len
<1>3. b.buffer[b.start].len = len
  BY <1>2 DEF Header
<1>4. PICK x :
        /\ Shrunk(x, b, len)
        /\ x.input_dest = b.input_dest /\ x.input_avail = b.input_avail
        /\ a = update_output(IF Wrapped(b) THEN update_input(x) ELSE x)
  BY Zenon, <1>2, <1>3, ConsumeFields
<1> DEFINE u == IF Wrapped(b) THEN update_input(x) ELSE x
<1> HIDE DEF a
<1>5. IsBuffer(x)
  BY Zenon, <1>4 DEF Shrunk
<1>6. /\ IsBuffer(u) /\ u.buffer = x.buffer /\ u.size = x.size
      /\ u.wrap = x.wrap /\ u.start = x.start /\ u.used = x.used
      /\ u.mtu = x.mtu
  BY Zenon, <1>5, UpdateInput
<1>7. a = update_output(u)
  BY Zenon, <1>4
<1> HIDE DEF u
<1>8. /\ IsBuffer(a) /\ a.buffer = x.buffer /\ a.size = x.size
      /\ a.wrap = x.wrap /\ a.start = x.start /\ a.used = x.used
      /\ a.mtu = x.mtu
  BY Zenon, <1>6, <1>7, UpdateOutput
<1>9. QED BY Zenon, <1>4, <1>8 DEF Shrunk, a, len

\* A new buffer of one packet or more has room for one.
THEOREM NewHasRoom ==
  ASSUME NEW num \in Nat \ {0}, NEW mtu \in Nat
  PROVE  RoomRight(NewBuffer(calc_blocks(mtu, num), mtu), <<>>)
<1> DEFINE blocks == calc_blocks(mtu, num)
           b == NewBuffer(blocks, mtu)
<1>1. num * (1 + mtu) \in Nat /\ num * (1 + mtu) >= 1 + mtu
  <2>1. 1 * (1 + mtu) <= num * (1 + mtu)
    BY MoreOf
  <2>2. QED BY <2>1
<1>2. blocks = num * (1 + mtu) + (1 + mtu)
  BY DEF calc_blocks
<1>3. blocks \in Nat \ {0} /\ blocks - 1 >= mtu
  BY <1>1, <1>2
<1> HIDE DEF blocks
<1>4. b.size = blocks /\ b.wrap = blocks /\ b.start = 0 /\ b.used = 0 /\ b.mtu = mtu
  BY <1>3, NewFields
<1> HIDE DEF b
<1>5. ~Wrapped(b) /\ end(b) = 0
  BY <1>3, <1>4 DEF Wrapped, end
<1>6. Len(<<>>) = 0
  OBVIOUS
<1>7. QED BY <1>3, <1>4, <1>5, <1>6 DEF RoomRight, b, blocks

\* A packet of at most mtu blocks leaves room.
LEMMA GrownRoom ==
  ASSUME NEW a, NEW b, NEW D, NEW q \in Seq(Entries(D)), NEW data \in D,
         NEW len \in Nat, len <= b.mtu, Grown(a, b, data, len),
         \A i \in 1 .. Len(q) : IsPacket(b, q[i]), RoomRight(b, q)
  PROVE  RoomRight(a, Append(q, [pos |-> end(b), len |-> len, data |-> data]))
<1> DEFINE e == [pos |-> end(b), len |-> len, data |-> data]
           r == Append(q, e)
<1>1. /\ b.size \in Int /\ b.wrap \in Int /\ b.start \in Int /\ b.used \in Int
      /\ b.mtu \in Nat /\ end(b) \in Int /\ a.size = b.size /\ a.mtu = b.mtu
      /\ a.start = b.start /\ b.size - end(b) - 1 >= b.mtu
  BY Shape DEF Grown, IsBuffer, AssertBuffer
<1>2. ~Wrapped(a) => a.size - end(a) - 1 >= a.mtu
  <2>1. SUFFICES ASSUME ~Wrapped(a) PROVE a.size - end(a) - 1 >= a.mtu
    OBVIOUS
  <2>2. ~Wrapped(b) /\ end(a) = end(b) + 1 + len /\ a.wrap = b.wrap
    BY Zenon, <2>1, GrownShape
  <2>3. end(b) = b.start + b.used /\ b.wrap = b.size
    BY <2>2, Shape DEF Grown
  <2>4. ~(b.used + 1 + len >= b.size - b.start)
    BY <1>1, <2>1, <2>2, <2>3 DEF Grown, Wrapped
  <2>5. \/ ~(/\ b.used + 1 + len <= b.wrap - b.start
             /\ b.mtu > b.size - (end(b) + 1 + len) - 1)
        \/ a.wrap = end(b) + 1 + len
    BY Zenon DEF Grown, NewWrap
  <2>6. len \in Nat
    OBVIOUS
  <2> DEFINE size == b.size
             start == b.start
             used == b.used
             mtu == b.mtu
             e0 == end(b)
  <2>7. /\ size \in Int /\ start \in Int /\ used \in Int /\ mtu \in Nat
        /\ e0 \in Int /\ e0 = start + used
        /\ ~(used + 1 + len >= size - start)
        /\ \/ ~(used + 1 + len <= size - start /\ mtu > size - (e0 + 1 + len) - 1)
           \/ size = e0 + 1 + len
    BY Zenon, <1>1, <2>2, <2>3, <2>4, <2>5
  <2> HIDE DEF size, start, used, mtu, e0
  <2>8. size - (e0 + 1 + len) - 1 >= mtu
    BY ONLY SMTT(30), <2>6, <2>7
  <2>9. QED BY Zenon, <1>1, <2>2, <2>8 DEF size, mtu, e0
<1>3. Wrapped(a) => a.size - a.wrap <= a.mtu
  <2>1. CASE Wrapped(b)
    <3>1. a.wrap = b.wrap /\ b.size - b.wrap <= b.mtu
      BY Zenon, <2>1, GrownShape DEF RoomRight
    <3>2. QED BY <1>1, <3>1
  <2>2. CASE ~Wrapped(b) /\ Wrapped(a)
    <3>1. end(b) = b.start + b.used /\ b.wrap = b.size
      BY <2>2, Shape DEF Grown
    <3>2. \/ b.mtu > b.size - (end(b) + 1 + len) - 1
          \/ a.wrap = b.wrap
      BY Zenon DEF Grown, NewWrap
    <3>3. a.wrap = end(b) + 1 + len /\ len \in Nat
      BY Zenon, <2>2, GrownShape
    <3>4. a.size - a.wrap <= a.mtu
      BY ONLY SMTT(60), <1>1, <3>1, <3>2, <3>3
    <3>5. QED BY Zenon, <3>4
  <2>3. QED BY <2>1, <2>2
<1>4. /\ Len(q) \in Nat /\ Len(r) = Len(q) + 1
      /\ \A i \in 1 .. Len(q) : r[i] = q[i] /\ q[i] \in Entries(D)
      /\ r[Len(q) + 1] = e
  OBVIOUS
<1> HIDE DEF r
<1>5. SUFFICES ASSUME NEW i \in 1 .. Len(r)
               PROVE  /\ r[i].len <= a.mtu /\ a.size - r[i].pos - 1 >= a.mtu
                      /\ Ahead(a, r[i].pos) <= (Len(r) - i + 1) * (1 + a.mtu)
  BY Zenon, <1>2, <1>3 DEF RoomRight, r
<1>6. CASE i \in 1 .. Len(q)
  <2>1. /\ r[i] = q[i] /\ q[i] \in Entries(D) /\ IsPacket(b, q[i])
        /\ q[i].len <= b.mtu /\ b.size - q[i].pos - 1 >= b.mtu
        /\ Ahead(b, q[i].pos) <= (Len(q) - i + 1) * (1 + b.mtu)
    BY Zenon, <1>4, <1>6 DEF RoomRight
  <2>2. /\ Ahead(a, q[i].pos) = Ahead(b, q[i].pos) + (1 + len)
        /\ Ahead(b, q[i].pos) \in Int
    BY Zenon, <2>1, GrownAhead
  <2>3. Len(q) - i + 1 \in Nat /\ Len(r) - i + 1 = (Len(q) - i + 1) + 1
    BY <1>4, <1>6
  <2> DEFINE n == Len(q) - i + 1
             k == 1 + b.mtu
             old == Ahead(b, q[i].pos)
  <2>4. n \in Nat /\ old \in Int /\ old <= n * k
    BY Zenon, <2>1, <2>2, <2>3
  <2>5. k \in Nat /\ 1 + len <= k
    <3>1. b.mtu \in Nat /\ len \in Nat /\ len <= b.mtu
      BY Zenon, <1>1
    <3>2. QED BY ONLY SMTT(60), <3>1
  <2> HIDE DEF n, k, old
  <2>6. (n + 1) * k = n * k + k /\ n * k \in Nat
    BY Zenon, <2>4, <2>5, OneMore
  <2>7. old + (1 + len) <= (n + 1) * k
    <3> DEFINE nk == n * k
    <3>1. nk \in Nat /\ (n + 1) * k = nk + k /\ old <= nk
      BY Zenon, <2>4, <2>6
    <3> HIDE DEF nk
    <3>2. len \in Nat
      OBVIOUS
    <3>3. old + (1 + len) <= nk + k
      BY ONLY SMTT(60), <2>4, <2>5, <3>1, <3>2
    <3>4. QED BY Zenon, <3>1, <3>3
  <2>8. QED BY Zenon, <1>1, <2>1, <2>2, <2>3, <2>7 DEF n, k, old
<1>7. CASE i = Len(q) + 1
  <2>1. r[i] = e /\ e.pos = end(b) /\ e.len = len /\ Len(r) - i + 1 = 1
    <3>1. r[i] = e /\ Len(r) - i + 1 = 1
      BY ONLY SMTT(60), <1>4, <1>7
    <3>2. QED BY Zenon, <3>1
  <2>2. Ahead(a, end(b)) = 1 + len
    BY Zenon, GrownAheadNew
  <2>3. QED BY <1>1, <2>1, <2>2
<1>8. QED BY <1>4, <1>6, <1>7

\* A packet that is consumed is not between the others and the end.
LEMMA ShrunkAhead ==
  ASSUME NEW a, NEW b, NEW D, NEW p \in Entries(D), IsPacket(b, p),
         p.pos = b.start, Shrunk(a, b, p.len),
         NEW d \in Entries(D), IsPacket(b, d), Behind(b, p, d)
  PROVE  Ahead(a, d.pos) = Ahead(b, d.pos)
<1>1. /\ b.wrap \in Int /\ b.start \in Int /\ end(b) \in Int
      /\ d.pos \in Int /\ d.len \in Nat /\ p.len \in Nat
      /\ After(d) <= Limit(b, d.pos)
  BY Shape DEF Shrunk, IsBuffer, Entries, IsPacket
<1>2. b.start + 1 + p.len <= Limit(b, b.start)
  BY DEF IsPacket, After
<1>3. d.pos >= b.start => d.pos >= b.start + 1 + p.len
  BY DEF Behind, After
<1>4. end(a) = end(b)
  BY Zenon, <1>1, <1>2, ShrunkShape
<1>5. CASE b.start + 1 + p.len = b.wrap
  <2>1. Wrapped(b) /\ ~Wrapped(a)
    BY Zenon, <1>1, <1>2, <1>5, ShrunkShape
  <2>2. d.pos < b.start
    BY <1>1, <1>3, <1>5, <2>1 DEF Limit, After
  <2>3. QED BY <1>1, <1>4, <2>1, <2>2 DEF Ahead
<1>6. CASE b.start + 1 + p.len # b.wrap
  <2>1. /\ Wrapped(a) <=> Wrapped(b)
        /\ a.start = b.start + 1 + p.len /\ a.wrap = b.wrap
    BY Zenon, <1>1, <1>2, <1>6, ShrunkShape
  <2>2. d.pos >= a.start <=> d.pos >= b.start
    BY <1>1, <1>3, <2>1
  <2>3. QED BY Zenon, <1>4, <2>1, <2>2 DEF Ahead
<1>7. QED BY <1>5, <1>6

\* Consuming a packet leaves room.
LEMMA ShrunkRoom ==
  ASSUME NEW a, NEW b, NEW D, NEW q \in Seq(Entries(D)), q # <<>>,
         IsQueue(b, q), Shrunk(a, b, q[1].len), RoomRight(b, q)
  PROVE  RoomRight(a, Tail(q))
<1> DEFINE r == Tail(q)
           p == q[1]
<1>1. /\ Len(q) \in Nat /\ Len(q) >= 1 /\ Len(r) = Len(q) - 1
      /\ \A i \in 1 .. Len(q) : q[i] \in Entries(D)
      /\ \A i \in 1 .. Len(r) : r[i] = q[i + 1]
  OBVIOUS
<1> HIDE DEF r
<1>2. p \in Entries(D) /\ IsPacket(b, p) /\ p.pos = b.start /\ p.len \in Nat
  BY <1>1 DEF IsQueue, Entries
<1>3. /\ b.size \in Int /\ b.wrap \in Int /\ b.start \in Int
      /\ b.mtu \in Nat /\ end(b) \in Int /\ a.size = b.size /\ a.mtu = b.mtu
      /\ AssertBuffer(b) /\ IsBuffer(b)
  <2>1. /\ AssertBuffer(b) /\ IsBuffer(b) /\ a.size = b.size /\ a.mtu = b.mtu
    BY Zenon DEF Shrunk
  <2>2. /\ b.size \in Int /\ b.wrap \in Int /\ b.start \in Int
        /\ b.mtu \in Int /\ b.mtu >= 0
    BY Zenon, <2>1 DEF IsBuffer, AssertBuffer
  <2>3. end(b) \in Int
    BY Zenon, <2>1, Shape
  <2>4. b.mtu \in Nat
    BY ONLY SMTT(60), <2>2
  <2>5. QED BY Zenon, <2>1, <2>2, <2>3, <2>4
<1>4. b.start + 1 + p.len <= Limit(b, b.start)
  BY <1>2 DEF IsPacket, After
<1>5. b.size - b.start - 1 >= b.mtu
  BY <1>1, <1>2 DEF RoomRight
<1> HIDE DEF p
<1>6. Shrunk(a, b, p.len)
  BY DEF p
<1>7. /\ end(a) = end(b)
      /\ b.start + 1 + p.len = b.wrap => Wrapped(b) /\ ~Wrapped(a)
      /\ b.start + 1 + p.len # b.wrap =>
           (Wrapped(a) <=> Wrapped(b)) /\ a.wrap = b.wrap
  BY Zenon, <1>2, <1>4, <1>6, ShrunkShape
<1>8. ~Wrapped(a) => a.size - end(a) - 1 >= a.mtu
  <2>1. CASE Wrapped(b)
    <3>1. end(b) <= b.start
      BY Zenon, <1>3, <2>1, Shape
    <3>2. QED BY <1>3, <1>5, <1>7, <3>1
  <2>2. CASE ~Wrapped(b)
    <3>1. b.size - end(b) - 1 >= b.mtu
      BY Zenon, <2>2 DEF RoomRight
    <3>2. QED BY <1>3, <1>7, <3>1
  <2>3. QED BY <2>1, <2>2
<1>9. Wrapped(a) => a.size - a.wrap <= a.mtu
  <2>1. Wrapped(a) => Wrapped(b) /\ a.wrap = b.wrap
    BY Zenon, <1>7
  <2>2. Wrapped(b) => b.size - b.wrap <= b.mtu
    BY Zenon DEF RoomRight
  <2>3. QED BY <1>3, <2>1, <2>2
<1>10. SUFFICES ASSUME NEW i \in 1 .. Len(r)
                PROVE  /\ r[i].len <= a.mtu /\ a.size - r[i].pos - 1 >= a.mtu
                       /\ Ahead(a, r[i].pos) <= (Len(r) - i + 1) * (1 + a.mtu)
  BY Zenon, <1>8, <1>9 DEF RoomRight, r
<1>11. /\ i + 1 \in 1 .. Len(q) /\ 1 \in 1 .. Len(q) /\ 1 < i + 1
       /\ r[i] = q[i + 1] /\ Len(r) - i + 1 = Len(q) - (i + 1) + 1
  BY <1>1
<1>12. q[i + 1] \in Entries(D) /\ IsPacket(b, q[i + 1]) /\ Behind(b, p, q[i + 1])
  BY Zenon, <1>1, <1>11 DEF IsQueue, p
<1>13. Ahead(a, q[i + 1].pos) = Ahead(b, q[i + 1].pos)
  BY Zenon, <1>2, <1>6, <1>12, ShrunkAhead
<1>14. /\ q[i + 1].len <= b.mtu /\ b.size - q[i + 1].pos - 1 >= b.mtu
       /\ Ahead(b, q[i + 1].pos) <= (Len(q) - (i + 1) + 1) * (1 + b.mtu)
  BY Zenon, <1>11 DEF RoomRight
<1>15. QED BY Zenon, <1>3, <1>11, <1>13, <1>14

\* ChunkBuffer2_SubmitPacket keeps the room right when the packet is not
\* longer than the MTU the buffer was made for.
THEOREM SubmitKeepsRoom ==
  ASSUME NEW b, IsBuffer(b), NEW D, NEW q \in Seq(Entries(D)), IsQueue(b, q),
         NEW data \in D, NEW len \in Nat, b.input_dest >= 0,
         len <= b.input_avail, len <= b.mtu, RoomRight(b, q)
  PROVE  RoomRight(SubmitPacket(Write(b, data, len), len),
                   Append(q, [pos |-> end(b), len |-> len, data |-> data]))
<1>1. Grown(SubmitPacket(Write(b, data, len), len), b, data, len)
  BY Zenon, SubmitGrows DEF IsQueue
<1>2. \A i \in 1 .. Len(q) : IsPacket(b, q[i])
  BY Zenon DEF IsQueue
<1>3. QED BY Zenon, <1>1, <1>2, GrownRoom

\* ChunkBuffer2_ConsumePacket keeps the room right.
THEOREM ConsumeKeepsRoom ==
  ASSUME NEW b, IsBuffer(b), NEW D, NEW q \in Seq(Entries(D)), IsQueue(b, q),
         q # <<>>, RoomRight(b, q)
  PROVE  RoomRight(ConsumePacket(b), Tail(q))
<1>1. Shrunk(ConsumePacket(b), b, q[1].len)
  BY Zenon, ConsumeShrinks
<1>2. QED BY Zenon, <1>1, ShrunkRoom

\* A buffer that calc_blocks has sized for num packets takes a packet of mtu
\* blocks as long as fewer than num are in it: the sender is never turned
\* away early, however the packets lie in the array.
THEOREM RoomUntilFull ==
  ASSUME NEW b, IsBuffer(b), NEW D, NEW q \in Seq(Entries(D)), IsQueue(b, q),
         RoomRight(b, q), NEW num \in Nat, b.size = calc_blocks(b.mtu, num),
         Len(q) < num
  PROVE  b.input_dest = end(b) + 1 /\ b.input_avail >= b.mtu
<1>1. /\ b.size \in Int /\ b.wrap \in Int /\ b.start \in Int /\ b.used \in Int
      /\ b.mtu \in Nat /\ end(b) \in Int /\ FreeBlocks(b) \in Int
      /\ AssertBuffer(b) /\ AssertIo(b) /\ Len(q) \in Nat
      /\ b.start < b.wrap
  <2>1. AssertBuffer(b) /\ AssertIo(b)
    BY Zenon DEF IsQueue
  <2>2. /\ b.size \in Int /\ b.wrap \in Int /\ b.start \in Int /\ b.used \in Int
        /\ b.mtu \in Int /\ b.mtu >= 0 /\ b.start < b.wrap
    BY Zenon, <2>1 DEF IsBuffer, AssertBuffer
  <2>3. end(b) \in Int /\ FreeBlocks(b) \in Int
    BY Zenon, <2>1, Shape
  <2>4. q \in Seq(Entries(D))
    OBVIOUS
  <2>5. b.mtu \in Nat /\ Len(q) \in Nat
    BY ONLY SMTT(60), <2>2, <2>4
  <2>6. QED BY Zenon, <2>1, <2>2, <2>3, <2>5
<1>2. b.size - end(b) - 1 >= b.mtu /\ FreeBlocks(b) - 1 >= b.mtu
  <2>1. CASE ~Wrapped(b)
    <3>1. FreeBlocks(b) = b.size - end(b)
      BY Zenon, <1>1, <2>1, Shape
    <3>2. b.size - end(b) - 1 >= b.mtu
      BY Zenon, <2>1 DEF RoomRight
    <3>3. QED BY <1>1, <3>1, <3>2
  <2>2. CASE Wrapped(b)
    <3>1. /\ end(b) = b.used - (b.wrap - b.start) /\ end(b) <= b.start
          /\ FreeBlocks(b) = b.start - end(b)
      BY Zenon, <1>1, <2>2, Shape
    <3>2. b.size - b.wrap <= b.mtu
      BY Zenon, <2>2 DEF RoomRight
    <3>3. b.used # 0
      BY <1>1, <2>2 DEF Wrapped
    <3>4. q # <<>> /\ q[1].pos = b.start
      BY Zenon, <3>3 DEF IsQueue
    <3>5. 1 \in 1 .. Len(q)
      BY <3>4
    <3>6. b.size - b.start - 1 >= b.mtu
          /\ Ahead(b, b.start) <= (Len(q) - 1 + 1) * (1 + b.mtu)
      BY Zenon, <3>4, <3>5 DEF RoomRight
    <3>7. Ahead(b, b.start) = b.used
      BY <1>1, <2>2, <3>1 DEF Ahead
    <3> DEFINE k == 1 + b.mtu
               n == Len(q)
    <3>8. k \in Nat /\ n \in Nat /\ n + 1 <= num /\ k = 1 + b.mtu
      BY <1>1
    <3>9. b.used <= n * k
      BY <1>1, <3>6, <3>7
    <3>10. b.size = k * (num + 1)
      BY DEF calc_blocks
    <3> HIDE DEF k, n
    <3>11. k * (num + 1) = num * k + k /\ num * k \in Nat
      BY <3>8
    <3>12. (n + 1) * k = n * k + k /\ n * k \in Nat
      BY <3>8, OneMore
    <3>13. (n + 1) * k <= num * k
      BY <3>8, MoreOf
    <3> DEFINE nk == n * k
               all == num * k
    <3>14. /\ nk \in Nat /\ all \in Nat /\ b.used <= nk /\ nk + k <= all
           /\ b.size = all + k
      BY Zenon, <3>9, <3>10, <3>11, <3>12, <3>13
    <3> HIDE DEF nk, all
    <3>15. b.used + k + k <= b.size
      <4> DEFINE used == b.used
                 blocks == b.size
      <4>1. used \in Int /\ blocks \in Int
        BY <1>1
      <4>2. used <= nk /\ nk + k <= all /\ blocks = all + k
        BY <3>14
      <4> HIDE DEF used, blocks
      <4>3. used + k + k <= blocks
        BY ONLY SMTT(60), <3>8, <3>14, <4>1, <4>2
      <4> QED
        BY Zenon, <4>3 DEF used, blocks
    <3>16. b.size - b.start - 1 >= b.mtu
      BY Zenon, <3>6
    <3> DEFINE size == b.size
               start == b.start
               used == b.used
               wrap == b.wrap
               mtu == b.mtu
               e == end(b)
    <3>17. /\ size \in Int /\ start \in Int /\ used \in Int /\ wrap \in Int
           /\ mtu \in Nat /\ e \in Int /\ k = 1 + mtu
           /\ e = used - (wrap - start) /\ e <= start
           /\ size - wrap <= mtu /\ used + k + k <= size
           /\ size - start - 1 >= mtu
      BY Zenon, <1>1, <3>1, <3>2, <3>8, <3>15, <3>16
    <3> HIDE DEF size, start, used, wrap, mtu, e
    <3>18. size - e - 1 >= mtu /\ (start - e) - 1 >= mtu
      BY ONLY SMTT(30), <3>17
    <3>19. QED BY Zenon, <3>1, <3>18 DEF size, start, mtu, e
  <2>3. QED BY <2>1, <2>2
<1>3. FreeBlocks(b) > 0
  BY <1>1, <1>2
<1>4. b.input_dest = end(b) + 1 /\ b.input_avail = FreeBlocks(b) - 1
  BY Zenon, <1>1, <1>2, <1>3 DEF AssertIo
<1>5. QED BY <1>1, <1>2, <1>4

=============================================================================
