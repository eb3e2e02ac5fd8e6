------------------------------- MODULE Wire -------------------------------
(***************************************************************************)
(* Packets on one connection: Packet::serialize, Session::send_packet,     *)
(* called by any thread while other writes are under way, and the reading  *)
(* of a header and of the payload it announces.  A serialized packet is a  *)
(* header and one cell for each byte of the payload.  async_write writes   *)
(* what there is room for at once; the rest is written from a buffer that  *)
(* was local to send_packet, by further writes that other packets may get  *)
(* ahead of.                                                               *)
(***************************************************************************)
EXTENDS Naturals, Sequences

CONSTANTS
    Radix,        \* numbers that payload_length can have: 65536
    Sizes,        \* payload sizes of the packets handed to send_packet
    Room,         \* cells that the connection holds between its two ends
    MaxPackets    \* bound: packets that are sent

ASSUME WireAssumption ==
    /\ {Radix, Room, MaxPackets} \subseteq Nat \ {0}
    /\ Sizes \subseteq Nat

VARIABLES
    sent,      \* payload sizes of the packets, in the order of send_packet
    left,      \* cells of each packet that are not written yet
    queue,     \* packets whose next write waits for room
    resuming,  \* packets whose last write was partial, to be written on
    wire,      \* the cells written and not read
    reading,   \* the packet the reader is in, and its payload so far
    got,       \* number of the packet each packet read is equal to, or 0
    lost,      \* the reader has taken something else for a header
    torn       \* history: packets that were not written by async_write itself

vars == <<sent, left, queue, resuming, wire, reading, got, lost, torn>>

Packets == 1..MaxPackets

\* Cell 0 of a packet is its header; the freed buffer may hold anything.
Cell == [of : Packets, at : Nat]
Junk == [of |-> 0, at |-> 0]

\* The reader waits for a header, or for the next cell of a payload.
AtHeader == [of |-> 0, want |-> 0, at |-> 0, equal |-> TRUE]

Init ==
    /\ sent = <<>>
    /\ left = [k \in Packets |-> 0]
    /\ queue = <<>>
    /\ resuming = {}
    /\ wire = <<>>
    /\ reading = AtHeader
    /\ got = <<>>
    /\ lost = FALSE
    /\ torn = {}

-----------------------------------------------------------------------------
(* Writing                                                                 *)

\* Mutants: no cast to uint16_t; the header is counted.
AnnouncedUncast(size) == size
AnnouncedWithHeader(size) == (size + 1) % Radix

\* static_cast<uint16_t>(payload.size())
Announced(size) == size % Radix

Free == Room - Len(wire)
MinOf(m, n) == IF m < n THEN m ELSE n

\* The cells of packet k, of size s, from number i on, n of them.
CellsOf(k, i, n) == [j \in 1..n |-> [of |-> k, at |-> i + j - 1]]
JunkOf(n) == [j \in 1..n |-> Junk]

\* async_write tries at once, unless other writes wait for room.
Send(size) ==
    LET k == Len(sent) + 1
        n == IF queue = <<>> THEN MinOf(Free, size + 1) ELSE 0
    IN  /\ Len(sent) < MaxPackets
        /\ sent' = Append(sent, size)
        /\ wire' = wire \o CellsOf(k, 0, n)
        /\ left' = [left EXCEPT ![k] = size + 1 - n]
        /\ queue' = IF n = 0 THEN Append(queue, k) ELSE queue
        /\ resuming' = IF 0 < n /\ n < size + 1 THEN resuming \cup {k} ELSE resuming
        /\ torn' = IF n < size + 1 THEN torn \cup {k} ELSE torn
        /\ UNCHANGED <<reading, got, lost>>

\* A later write of packet k, from the buffer that has been freed.
WriteOn(k) ==
    LET n == MinOf(Free, left[k])
        i == sent[k] + 1 - left[k]
    IN  /\ wire' \in {wire \o CellsOf(k, i, n), wire \o JunkOf(n)}
        /\ left' = [left EXCEPT ![k] = @ - n]
        /\ resuming' = IF n < left[k] THEN resuming \cup {k} ELSE resuming \ {k}

\* There is room for the first write that waits.
Ready ==
    /\ queue # <<>>
    /\ Free > 0
    /\ WriteOn(Head(queue))
    /\ queue' = Tail(queue)
    /\ UNCHANGED <<sent, reading, got, lost, torn>>

\* async_write goes on after a partial write.
Resume(k) ==
    /\ k \in resuming
    /\ IF queue = <<>> /\ Free > 0
       THEN WriteOn(k) /\ UNCHANGED queue
       ELSE /\ queue' = Append(queue, k)
            /\ resuming' = resuming \ {k}
            /\ UNCHANGED <<wire, left>>
    /\ UNCHANGED <<sent, reading, got, lost, torn>>

-----------------------------------------------------------------------------
(* Reading                                                                 *)

\* Mutant: a payload is read into the buffer after a header without one, too.
ReadHeaderAlways ==
    /\ ~lost
    /\ reading = AtHeader
    /\ wire # <<>>
    /\ LET c == Head(wire)
       IN  \/ /\ c.of = 0 \/ c.at # 0
              /\ lost' = TRUE
              /\ UNCHANGED reading
           \/ /\ c.of # 0 /\ c.at = 0
              /\ reading' = [of |-> c.of, want |-> Announced(sent[c.of]), at |-> 0, equal |-> TRUE]
              /\ UNCHANGED lost
    /\ wire' = Tail(wire)
    /\ UNCHANGED <<sent, left, queue, resuming, got, torn>>

\* read_header: a packet without payload is processed at once.
ReadHeader ==
    /\ ~lost
    /\ reading = AtHeader
    /\ wire # <<>>
    /\ LET c == Head(wire)
           want == Announced(sent[c.of])
       IN  \/ /\ c.of = 0 \/ c.at # 0
              /\ lost' = TRUE
              /\ UNCHANGED <<reading, got>>
           \/ /\ c.of # 0 /\ c.at = 0 /\ want = 0
              /\ got' = Append(got, IF sent[c.of] = 0 THEN c.of ELSE 0)
              /\ UNCHANGED <<reading, lost>>
           \/ /\ c.of # 0 /\ c.at = 0 /\ want > 0
              /\ reading' = [of |-> c.of, want |-> want, at |-> 0, equal |-> want = sent[c.of]]
              /\ UNCHANGED <<got, lost>>
    /\ wire' = Tail(wire)
    /\ UNCHANGED <<sent, left, queue, resuming, torn>>

\* read_payload: the next cell, and the packet with the last one.
ReadPayload ==
    /\ reading # AtHeader
    /\ wire # <<>>
    /\ LET at == reading.at + 1
           equal == reading.equal /\ Head(wire) = [of |-> reading.of, at |-> at]
       IN  IF at < reading.want
           THEN reading' = [reading EXCEPT !.at = at, !.equal = equal] /\ UNCHANGED got
           ELSE reading' = AtHeader /\ got' = Append(got, IF equal THEN reading.of ELSE 0)
    /\ wire' = Tail(wire)
    /\ UNCHANGED <<sent, left, queue, resuming, lost, torn>>

-----------------------------------------------------------------------------
WriteStep == Ready \/ \E k \in Packets : Resume(k)
ReadStep == ReadHeader \/ ReadPayload

Next == (\E size \in Sizes : Send(size)) \/ WriteStep \/ ReadStep

\* The reader reads what has arrived.
Spec == Init /\ [][Next]_vars /\ WF_vars(ReadStep)

-----------------------------------------------------------------------------
(* Properties                                                              *)

\* Every variable keeps to its type; the reader never waits for more than a
\* header can announce.
TypeOK ==
    /\ sent \in Seq(Sizes)
    /\ left \in [Packets -> Nat]
    /\ queue \in Seq(Packets)
    /\ resuming \subseteq Packets
    /\ wire \in Seq(Cell \cup {Junk})
    /\ Len(wire) <= Room
    /\ reading.want \in 0..Radix - 1
    /\ got \in Seq(Packets \cup {0})
    /\ lost \in BOOLEAN
    /\ torn \subseteq Packets

\* The first k packets fit a header's length and were written by async_write
\* itself.
Whole(k) ==
    /\ k <= Len(sent)
    /\ \A j \in 1..k : sent[j] < Radix /\ j \notin torn

\* Up to the first packet that is too long or torn, the peer reads the packets
\* that were sent, in their order, whichever threads sent them and whatever of
\* other packets is still to be written.
ReadAsSent ==
    /\ \A k \in 1..Len(got) : Whole(k) => got[k] = k
    /\ lost => ~Whole(Len(got) + 1)

\* ... and it does read them, although packets after them are broken.
AllRead == \A k \in Packets : Whole(k) ~> Len(got) >= k
=============================================================================
