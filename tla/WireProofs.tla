----------------------------- MODULE WireProofs -----------------------------
(***************************************************************************)
(* Theorems about module Wire, for headers, payloads and connections of    *)
(* any size: up to the first packet that is too long or torn, the reader   *)
(* takes for packets what was sent as packets.                             *)
(***************************************************************************)
EXTENDS Wire, SequenceTheorems, TLAPS

USE WireAssumption

-----------------------------------------------------------------------------
(* Cells in sequences                                                      *)

\* Cell number a of packet k is at place i of w.
At(w, i, k, a) == i \in 1..Len(w) /\ w[i].of = k /\ w[i].at = a

Cells == Cell \cup {Junk}

LEMMA CellFields ==
    ASSUME NEW c \in Cells
    PROVE c.of \in Packets \cup {0} /\ c.at \in Nat
BY DEF Cells, Cell, Junk

LEMMA CellEqual ==
    ASSUME NEW c \in Cells, NEW k, NEW a
    PROVE c = [of |-> k, at |-> a] <=> c.of = k /\ c.at = a
BY DEF Cells, Cell, Junk

LEMMA Joined ==
    ASSUME NEW p \in Seq(Cells), NEW q \in Seq(Cells), NEW i \in Nat, NEW k, NEW a
    PROVE  At(p \o q, i, k, a) <=> At(p, i, k, a) \/ (i > Len(p) /\ At(q, i - Len(p), k, a))
BY DEF At

LEMMA Dropped ==
    ASSUME NEW p \in Seq(Cells), p # <<>>, NEW i \in Nat \ {0}, NEW k, NEW a
    PROVE  At(Tail(p), i, k, a) <=> At(p, i + 1, k, a)
BY DEF At

LEMMA Written ==
    ASSUME NEW k \in Packets, NEW b \in Nat, NEW n \in Nat
    PROVE  /\ CellsOf(k, b, n) \in Seq(Cells) /\ Len(CellsOf(k, b, n)) = n
           /\ \A i \in 1..n : At(CellsOf(k, b, n), i, k, b + i - 1)
<1>1. \A j \in 1..n : [of |-> k, at |-> b + j - 1] \in Cells
  BY DEF Cells, Cell
<1>2. CellsOf(k, b, n) \in Seq(Cells) /\ Len(CellsOf(k, b, n)) = n
  BY <1>1 DEF CellsOf
<1>3. ASSUME NEW i \in 1..n PROVE At(CellsOf(k, b, n), i, k, b + i - 1)
  <2>1. CellsOf(k, b, n)[i] = [of |-> k, at |-> b + i - 1]
    BY DEF CellsOf
  <2> QED BY <1>2, <2>1 DEF At
<1> QED BY <1>2, <1>3

LEMMA Scrambled ==
    ASSUME NEW n \in Nat
    PROVE  /\ JunkOf(n) \in Seq(Cells) /\ Len(JunkOf(n)) = n
           /\ \A i \in 1..n : At(JunkOf(n), i, 0, 0)
<1>1. Junk \in Cells
  BY DEF Cells
<1>2. JunkOf(n) \in Seq(Cells) /\ Len(JunkOf(n)) = n
  BY <1>1 DEF JunkOf
<1>3. ASSUME NEW i \in 1..n PROVE At(JunkOf(n), i, 0, 0)
  <2>1. JunkOf(n)[i] = [of |-> 0, at |-> 0]
    BY DEF JunkOf, Junk
  <2> QED BY <1>2, <2>1 DEF At
<1> QED BY <1>2, <1>3

\* The header's length is right for payloads that fit it.
LEMMA LengthFits ==
    ASSUME NEW x \in Nat
    PROVE  Announced(x) \in 0..Radix - 1 /\ (x < Radix => Announced(x) = x)
BY DEF Announced

-----------------------------------------------------------------------------
(* Types                                                                   *)

\* What the types rest on: packets that wait were torn, cells on the wire are
\* of packets that were sent, and the reader is inside the payload it waits for.
Bounded ==
    /\ Len(sent) <= MaxPackets
    /\ torn \subseteq 1..Len(sent)
    /\ resuming \subseteq torn
    /\ \A i \in 1..Len(queue) : queue[i] \in torn
    /\ \A k \in 1..Len(sent) : left[k] <= sent[k] + 1
    /\ \A i \in 1..Len(wire) : wire[i].of \in 0..Len(sent)
    /\ \/ reading = AtHeader
       \/ /\ reading \in [of : Packets, want : 1..Radix - 1, at : Nat, equal : BOOLEAN]
          /\ reading.at < reading.want

TypeInv == TypeOK /\ Bounded

\* What later steps use of the types.
LEMMA Typed ==
    ASSUME TypeInv
    PROVE  /\ sent \in Seq(Nat) /\ wire \in Seq(Cells) /\ got \in Seq(Packets \cup {0})
           /\ Len(sent) \in Nat /\ Len(wire) \in Nat /\ Len(got) \in Nat /\ Free \in Nat
           /\ \A k \in 1..Len(sent) : sent[k] \in Nat /\ k \in Packets
<1>1. sent \in Seq(Nat)
  <2>1. sent \in Seq(Sizes)
    BY DEF TypeInv, TypeOK
  <2> QED
    BY <2>1, SeqMonotonic
<1>2. wire \in Seq(Cells) /\ Len(wire) <= Room /\ got \in Seq(Packets \cup {0})
  BY DEF TypeInv, TypeOK, Cells
<1>3. Len(sent) \in Nat /\ Len(sent) <= MaxPackets
  BY <1>1 DEF TypeInv, Bounded
<1>4. \A k \in 1..Len(sent) : sent[k] \in Nat /\ k \in Packets
  BY <1>1, <1>3 DEF Packets
<1>5. Len(wire) \in Nat /\ Len(got) \in Nat /\ Free \in Nat
  BY <1>2 DEF Free
<1> QED
  BY <1>1, <1>2, <1>3, <1>4, <1>5

LEMMA TypeInit == Init => TypeInv
<1> SUFFICES ASSUME Init PROVE TypeInv
  OBVIOUS
<1>1. TypeOK
  <2>1. reading.want = 0 /\ Len(wire) = 0
    BY DEF Init, AtHeader
  <2>2. 0 \in 0..Radix - 1 /\ 0 <= Room
    OBVIOUS
  <2>3. sent \in Seq(Sizes) /\ queue \in Seq(Packets) /\ got \in Seq(Packets \cup {0})
        /\ wire \in Seq(Cell \cup {Junk})
    BY DEF Init
  <2> QED
    BY <2>1, <2>2, <2>3 DEF Init, TypeOK
<1>2. Len(sent) = 0 /\ Len(queue) = 0 /\ Len(wire) = 0
  BY DEF Init
<1>3. Bounded
  BY <1>2 DEF Init, Bounded
<1> QED
  BY <1>1, <1>3 DEF TypeInv

\* The cells w are written; they are of the packets S.
Grown(w, S) ==
    /\ w \in Seq(Cells) /\ Len(w) <= Free
    /\ wire' = wire \o w
    /\ \A i \in 1..Len(w) : w[i].of \in S

\* New cells keep the type of the wire.
LEMMA WireGrows ==
    ASSUME TypeInv, NEW w, NEW n \in Nat, Len(sent) <= n, Grown(w, 0..n)
    PROVE  /\ wire' \in Seq(Cells) /\ Len(wire') <= Room
           /\ \A i \in 1..Len(wire') : wire'[i].of \in 0..n
<1>1. wire \in Seq(Cells) /\ Len(sent) \in Nat /\ Len(wire) \in Nat /\ w \in Seq(Cells)
  BY Typed DEF Grown
<1>2. wire' = wire \o w /\ wire' \in Seq(Cells) /\ Len(wire') = Len(wire) + Len(w)
  BY <1>1 DEF Grown
<1>3. ASSUME NEW i \in 1..Len(wire') PROVE wire'[i].of \in 0..n
  <2>1. CASE i \in 1..Len(wire)
    <3>1. wire'[i] = wire[i] /\ wire[i].of \in 0..Len(sent)
      BY <1>1, <1>2, <2>1 DEF TypeInv, Bounded
    <3> QED
      BY <1>1, <3>1
  <2>2. CASE i - Len(wire) \in 1..Len(w)
    <3>1. wire'[i] = w[i - Len(wire)]
      BY <1>1, <1>2, <2>2
    <3> QED
      BY <2>2, <3>1 DEF Grown
  <2> QED
    BY <1>1, <1>2, <2>1, <2>2
<1>4. Len(wire') <= Room
  BY <1>1, <1>2 DEF Free, Grown
<1> QED
  BY <1>2, <1>3, <1>4

\* What Send does: n cells are written, and the packet is whole or torn.
SendEffect(size, n) ==
    LET k == Len(sent) + 1 IN
    /\ k \in Packets /\ n \in 0..size + 1
    /\ sent' = Append(sent, size)
    /\ Len(CellsOf(k, 0, n)) = n /\ Grown(CellsOf(k, 0, n), {k})
    /\ left' = [left EXCEPT ![k] = size + 1 - n]
    /\ queue' = queue \/ (n = 0 /\ queue' = Append(queue, k))
    /\ resuming' \subseteq resuming \cup {k}
    /\ n = size + 1 => torn' = torn /\ queue' = queue /\ resuming' = resuming
    /\ n < size + 1 => torn' = torn \cup {k}
    /\ UNCHANGED <<reading, got, lost>>

LEMMA Sending ==
    ASSUME TypeInv, NEW size \in Sizes, Send(size)
    PROVE  \E n \in Nat : SendEffect(size, n)
<1> DEFINE n == IF queue = <<>> THEN MinOf(Free, size + 1) ELSE 0
           k == Len(sent) + 1
<1>1. Free \in Nat /\ size \in Nat /\ Len(sent) \in Nat
  BY Typed
<1>2. n \in 0..size + 1 /\ n <= Free
  BY <1>1 DEF MinOf
<1>3. k \in Packets
  BY <1>1 DEF Send, Packets
<1>4. /\ sent' = Append(sent, size)
      /\ wire' = wire \o CellsOf(k, 0, n)
      /\ left' = [left EXCEPT ![k] = size + 1 - n]
      /\ queue' = IF n = 0 THEN Append(queue, k) ELSE queue
      /\ resuming' = IF 0 < n /\ n < size + 1 THEN resuming \cup {k} ELSE resuming
      /\ torn' = IF n < size + 1 THEN torn \cup {k} ELSE torn
      /\ UNCHANGED <<reading, got, lost>>
  BY DEF Send
<1> HIDE DEF n, k
<1>5. Len(CellsOf(k, 0, n)) = n /\ Grown(CellsOf(k, 0, n), {k})
  <2>1. /\ CellsOf(k, 0, n) \in Seq(Cells) /\ Len(CellsOf(k, 0, n)) = n
        /\ \A i \in 1..n : At(CellsOf(k, 0, n), i, k, 0 + i - 1)
    <3>1. n \in Nat /\ 0 \in Nat
      BY <1>1, <1>2
    <3> QED
      BY <1>3, <3>1, Written
  <2> QED
    BY <1>2, <1>4, <2>1 DEF At, Grown
<1>6. SendEffect(size, n)
  BY <1>1, <1>2, <1>3, <1>4, <1>5 DEF SendEffect, k
<1> QED
  BY <1>1, <1>2, <1>6

LEMMA SendType ==
    ASSUME TypeInv, NEW size \in Sizes, NEW n \in Nat, SendEffect(size, n)
    PROVE  TypeInv'
<1> DEFINE k == Len(sent) + 1
<1>1. /\ k \in Packets /\ n \in 0..size + 1
      /\ sent' = Append(sent, size)
      /\ Grown(CellsOf(k, 0, n), {k})
      /\ left' = [left EXCEPT ![k] = size + 1 - n]
      /\ queue' = queue \/ (n = 0 /\ queue' = Append(queue, k))
      /\ resuming' \subseteq resuming \cup {k}
      /\ n = size + 1 => torn' = torn /\ queue' = queue /\ resuming' = resuming
      /\ n < size + 1 => torn' = torn \cup {k}
      /\ UNCHANGED <<reading, got, lost>>
  BY DEF SendEffect
<1>2. size \in Nat /\ Len(sent) \in Nat /\ k \in Nat
  BY Typed
<1>3. sent' \in Seq(Sizes) /\ Len(sent') = k /\ sent'[k] = size
      /\ \A j \in 1..Len(sent) : sent'[j] = sent[j]
  BY <1>1 DEF TypeInv, TypeOK
<1>4. /\ wire' \in Seq(Cells) /\ Len(wire') <= Room
      /\ \A i \in 1..Len(wire') : wire'[i].of \in 0..k
  <2>1. k \in 0..k /\ Len(sent) <= k
    BY <1>2
  <2>2. Grown(CellsOf(k, 0, n), 0..k)
    BY <1>1, <2>1 DEF Grown
  <2> HIDE DEF k
  <2> QED
    BY <1>2, <2>1, <2>2, WireGrows
<1>5. left' \in [Packets -> Nat] /\ left'[k] <= size + 1
      /\ \A j \in Packets \ {k} : left'[j] = left[j]
  <2>1. left \in [Packets -> Nat] /\ size + 1 - n \in Nat /\ size + 1 - n <= size + 1
    BY <1>1, <1>2 DEF TypeInv, TypeOK
  <2> QED
    BY <1>1, <2>1
<1>6. torn' \in {torn, torn \cup {k}} /\ (n = 0 => torn' = torn \cup {k})
  BY <1>1, <1>2
<1>7. queue' \in Seq(Packets) /\ \A i \in 1..Len(queue') : queue'[i] \in torn'
  <2>1. queue \in Seq(Packets) /\ \A i \in 1..Len(queue) : queue[i] \in torn
    BY DEF TypeInv, TypeOK, Bounded
  <2>2. CASE queue' = queue
    BY <1>6, <2>1, <2>2
  <2>3. CASE n = 0 /\ queue' = Append(queue, k)
    <3> HIDE DEF k
    <3>1. /\ queue' \in Seq(Packets) /\ Len(queue') = Len(queue) + 1
          /\ \A i \in 1..Len(queue) : queue'[i] = queue[i]
          /\ queue'[Len(queue) + 1] = k
      BY <1>1, <2>1, <2>3
    <3>2. ASSUME NEW i \in 1..Len(queue') PROVE queue'[i] \in torn \cup {k}
      <4>1. i \in 1..Len(queue) \/ i = Len(queue) + 1
        BY <2>1, <3>1
      <4> QED
        BY <2>1, <3>1, <4>1
    <3> QED
      BY <1>6, <2>3, <3>1, <3>2
  <2> QED
    BY <1>1, <2>2, <2>3
<1>8. torn' \subseteq 1..k /\ torn' \subseteq Packets /\ resuming' \subseteq torn'
  <2>1. torn \subseteq 1..Len(sent) /\ torn \subseteq Packets /\ resuming \subseteq torn
    BY DEF TypeInv, TypeOK, Bounded
  <2>2. 1..Len(sent) \subseteq 1..k /\ k \in 1..k
    BY <1>2
  <2>3. k \in Packets /\ resuming' \subseteq resuming \cup {k}
        /\ (torn' = torn \cup {k} \/ (torn' = torn /\ resuming' = resuming))
    BY <1>1, <1>2
  <2> HIDE DEF k
  <2> QED
    BY <2>1, <2>2, <2>3
<1>9. ASSUME NEW j \in 1..k PROVE left'[j] <= sent'[j] + 1
  <2>1. CASE j = k
    BY <1>3, <1>5, <2>1
  <2>2. CASE j # k
    <3>1. j \in 1..Len(sent)
      BY <1>2, <2>2
    <3>2. left[j] <= sent[j] + 1 /\ j \in Packets
      BY <3>1, Typed DEF TypeInv, Bounded
    <3> QED
      BY <1>3, <1>5, <2>2, <3>1, <3>2
  <2> QED
    BY <2>1, <2>2
<1>10. TypeOK'
  <2>1. wire' \in Seq(Cell \cup {Junk}) /\ resuming' \subseteq Packets
    BY <1>4, <1>8 DEF Cells
  <2> HIDE DEF k
  <2> QED
    BY <1>1, <1>3, <1>4, <1>5, <1>7, <1>8, <2>1 DEF TypeInv, TypeOK
<1>11. Bounded'
  <2>1. k <= MaxPackets
    BY <1>1 DEF Packets
  <2> HIDE DEF k
  <2> QED
    BY <1>1, <1>3, <1>4, <1>7, <1>8, <1>9, <2>1 DEF TypeInv, Bounded
<1> QED
  BY <1>10, <1>11 DEF TypeInv

\* What a later write does: cells of a torn packet k, or junk, may be added.
WriteEffect(w, k) ==
    /\ k \in torn /\ Grown(w, {0, k})
    /\ left' \in [Packets -> Nat] /\ \A j \in Packets : left'[j] <= left[j]
    /\ resuming' \subseteq torn
    /\ queue' \in Seq(Packets) /\ \A i \in 1..Len(queue') : queue'[i] \in torn
    /\ UNCHANGED <<sent, reading, got, lost, torn>>

LEMMA WritingOn ==
    ASSUME TypeInv, NEW k \in torn, WriteOn(k)
    PROVE  /\ \E w : Grown(w, {0, k})
           /\ left' \in [Packets -> Nat] /\ \A j \in Packets : left'[j] <= left[j]
           /\ resuming' \subseteq torn
<1> DEFINE n == MinOf(Free, left[k])
           b == sent[k] + 1 - left[k]
<1>1. k \in 1..Len(sent) /\ k \in Packets
  BY Typed DEF TypeInv, Bounded
<1>2. left \in [Packets -> Nat] /\ left[k] \in Nat /\ left[k] <= sent[k] + 1
  BY <1>1 DEF TypeInv, TypeOK, Bounded
<1>3. sent[k] \in Nat /\ Free \in Nat
  BY <1>1, Typed
<1>4. n \in Nat /\ n <= Free /\ n <= left[k] /\ b \in Nat
  BY <1>2, <1>3 DEF MinOf
<1>5. /\ wire' \in {wire \o CellsOf(k, b, n), wire \o JunkOf(n)}
      /\ left' = [left EXCEPT ![k] = @ - n]
      /\ resuming' = IF n < left[k] THEN resuming \cup {k} ELSE resuming \ {k}
  BY DEF WriteOn
<1> HIDE DEF n, b
<1>6. \E w : Grown(w, {0, k})
  <2>1. CASE wire' = wire \o CellsOf(k, b, n)
    <3>1. /\ CellsOf(k, b, n) \in Seq(Cells) /\ Len(CellsOf(k, b, n)) = n
          /\ \A i \in 1..n : At(CellsOf(k, b, n), i, k, b + i - 1)
      BY <1>1, <1>4, Written
    <3> QED
      BY <1>4, <2>1, <3>1 DEF At, Grown
  <2>2. CASE wire' = wire \o JunkOf(n)
    <3>1. /\ JunkOf(n) \in Seq(Cells) /\ Len(JunkOf(n)) = n
          /\ \A i \in 1..n : At(JunkOf(n), i, 0, 0)
      BY <1>4, Scrambled
    <3> QED
      BY <1>4, <2>2, <3>1 DEF At, Grown
  <2> QED
    BY <1>5, <2>1, <2>2
<1>7. left' \in [Packets -> Nat] /\ \A j \in Packets : left'[j] <= left[j]
  <2>1. left[k] - n \in Nat /\ left[k] - n <= left[k]
    BY <1>2, <1>4
  <2>2. left'[k] = left[k] - n /\ \A j \in Packets \ {k} : left'[j] = left[j]
    BY <1>1, <1>2, <1>5
  <2>3. left' \in [Packets -> Nat] /\ \A j \in Packets : left[j] \in Nat
    BY <1>2, <1>5, <2>1
  <2> QED
    BY <2>1, <2>2, <2>3
<1>8. resuming' \subseteq torn
  BY <1>5 DEF TypeInv, Bounded
<1> QED
  BY <1>6, <1>7, <1>8

LEMMA Writing ==
    ASSUME TypeInv, WriteStep
    PROVE  \E w, k : WriteEffect(w, k)
<1>1. /\ queue \in Seq(Packets) /\ \A i \in 1..Len(queue) : queue[i] \in torn
      /\ resuming \subseteq torn /\ torn \subseteq Packets
  BY DEF TypeInv, TypeOK, Bounded
<1>2. CASE Ready
  <2> DEFINE k == Head(queue)
  <2>1. k \in torn /\ Tail(queue) \in Seq(Packets)
        /\ \A i \in 1..Len(Tail(queue)) : Tail(queue)[i] \in torn
    BY <1>1, <1>2 DEF Ready
  <2>2. WriteOn(k) /\ queue' = Tail(queue) /\ UNCHANGED <<sent, reading, got, lost, torn>>
    BY <1>2 DEF Ready
  <2> HIDE DEF k
  <2>3. /\ \E w : Grown(w, {0, k})
        /\ left' \in [Packets -> Nat] /\ \A j \in Packets : left'[j] <= left[j]
        /\ resuming' \subseteq torn
    BY <2>1, <2>2, WritingOn
  <2> QED
    BY <2>1, <2>2, <2>3 DEF WriteEffect
<1>3. ASSUME NEW k \in Packets, Resume(k) PROVE \E w : WriteEffect(w, k)
  <2>1. k \in torn /\ UNCHANGED <<sent, reading, got, lost, torn>>
    BY <1>1, <1>3 DEF Resume
  <2>2. CASE WriteOn(k) /\ UNCHANGED queue
    <3>1. /\ \E w : Grown(w, {0, k})
          /\ left' \in [Packets -> Nat] /\ \A j \in Packets : left'[j] <= left[j]
          /\ resuming' \subseteq torn
      BY <2>1, <2>2, WritingOn
    <3> QED
      BY <1>1, <2>1, <2>2, <3>1 DEF WriteEffect
  <2>3. CASE queue' = Append(queue, k) /\ resuming' = resuming \ {k} /\ UNCHANGED <<wire, left>>
    <3>1. Grown(<<>>, {0, k})
      BY <2>3, Typed DEF Grown
    <3>2. left' \in [Packets -> Nat] /\ \A j \in Packets : left'[j] <= left[j]
      BY <2>3 DEF TypeInv, TypeOK
    <3>3. queue' \in Seq(Packets) /\ \A i \in 1..Len(queue') : queue'[i] \in torn
      BY <1>1, <2>1, <2>3
    <3> QED
      BY <1>1, <2>1, <2>3, <3>1, <3>2, <3>3 DEF WriteEffect
  <2> QED
    BY <1>3, <2>2, <2>3 DEF Resume
<1> QED
  BY <1>2, <1>3 DEF WriteStep

LEMMA WriteType ==
    ASSUME TypeInv, NEW w, NEW k, WriteEffect(w, k)
    PROVE  TypeInv'
<1>1. Len(sent) \in Nat /\ k \in 1..Len(sent)
  BY Typed DEF TypeInv, Bounded, WriteEffect
<1>2. /\ wire' \in Seq(Cells) /\ Len(wire') <= Room
      /\ \A i \in 1..Len(wire') : wire'[i].of \in 0..Len(sent)
  <2>1. Grown(w, {0, k})
    BY DEF WriteEffect
  <2>2. Grown(w, 0..Len(sent))
    <3>1. {0, k} \subseteq 0..Len(sent)
      BY <1>1
    <3> QED
      BY <2>1, <3>1 DEF Grown
  <2> QED
    BY <1>1, <2>2, WireGrows
<1>3. \A j \in 1..Len(sent) : left'[j] <= sent[j] + 1
  <2> SUFFICES ASSUME NEW j \in 1..Len(sent) PROVE left'[j] <= sent[j] + 1
    OBVIOUS
  <2>1. j \in Packets /\ sent[j] \in Nat
    BY Typed
  <2>2. left[j] <= sent[j] + 1 /\ left[j] \in Nat
    BY <2>1 DEF TypeInv, TypeOK, Bounded
  <2>3. left'[j] <= left[j] /\ left'[j] \in Nat
    BY <2>1 DEF WriteEffect
  <2> QED
    BY <2>1, <2>2, <2>3
<1>4. TypeOK'
  BY <1>2 DEF Cells, TypeInv, TypeOK, WriteEffect
<1>5. Bounded'
  BY <1>2, <1>3 DEF TypeInv, Bounded, WriteEffect
<1> QED
  BY <1>4, <1>5 DEF TypeInv

\* The cell that is read, and what reading leaves on the wire.
LEMMA Reading ==
    ASSUME TypeInv, wire # <<>>, wire' = Tail(wire)
    PROVE  /\ wire' \in Seq(Cells) /\ Len(wire') = Len(wire) - 1 /\ 1 \in 1..Len(wire)
           /\ Head(wire) \in Cells /\ At(wire, 1, Head(wire).of, Head(wire).at)
           /\ \A i \in 1..Len(wire') : wire'[i] = wire[i + 1]
           /\ \A k, a : At(wire, 1, k, a) => Head(wire).of = k /\ Head(wire).at = a
           /\ \A i \in Nat \ {0} : \A k, a : At(wire', i, k, a) <=> At(wire, i + 1, k, a)
<1>1. wire \in Seq(Cells)
  BY Typed
<1>2. /\ wire' \in Seq(Cells) /\ Len(wire') = Len(wire) - 1 /\ 1 \in 1..Len(wire)
      /\ Head(wire) \in Cells /\ Head(wire) = wire[1]
      /\ \A i \in 1..Len(wire') : wire'[i] = wire[i + 1]
  BY <1>1
<1>3. \A i \in Nat \ {0} : \A k, a : At(wire', i, k, a) <=> At(wire, i + 1, k, a)
  BY <1>1, Dropped
<1> QED
  BY <1>2, <1>3 DEF At

LEMMA ReadType ==
    ASSUME TypeInv, ReadStep
    PROVE  TypeInv'
<1>1. wire # <<>> /\ wire' = Tail(wire) /\ UNCHANGED <<sent, left, queue, resuming, torn>>
  BY DEF ReadStep, ReadHeader, ReadPayload
<1>2. /\ wire' \in Seq(Cells) /\ Len(wire') <= Room
      /\ \A i \in 1..Len(wire') : wire'[i].of \in 0..Len(sent')
  <2>1. wire' \in Seq(Cells) /\ Len(wire') = Len(wire) - 1 /\ \A i \in 1..Len(wire') : wire'[i] = wire[i + 1]
    BY <1>1, Reading
  <2>2. Len(wire) \in Nat /\ Len(wire) <= Room /\ Len(wire') \in Nat
    BY <2>1, Typed DEF TypeInv, TypeOK
  <2>3. ASSUME NEW i \in 1..Len(wire') PROVE wire'[i].of \in 0..Len(sent')
    <3>1. i + 1 \in 1..Len(wire) /\ wire'[i] = wire[i + 1]
      BY <2>1, <2>2
    <3> QED
      BY <1>1, <3>1 DEF TypeInv, Bounded
  <2> QED
    BY <2>1, <2>2, <2>3
<1>3. Head(wire).of \in 0..Len(sent) /\ Head(wire).of \in Packets \cup {0}
  <2>1. Head(wire) \in Cells /\ At(wire, 1, Head(wire).of, Head(wire).at) /\ wire \in Seq(Cells)
    BY <1>1, Reading, Typed
  <2>2. Head(wire) = wire[1] /\ 1 \in 1..Len(wire)
    BY <1>1, <2>1
  <2> QED
    BY <2>1, <2>2, CellFields DEF TypeInv, Bounded
<1>4. got \in Seq(Packets \cup {0}) /\ lost \in BOOLEAN /\ AtHeader.want = 0
  BY DEF TypeInv, TypeOK, AtHeader
<1>5. /\ \/ reading' = AtHeader
         \/ /\ reading' \in [of : Packets, want : 1..Radix - 1, at : Nat, equal : BOOLEAN]
            /\ reading'.at < reading'.want
      /\ got' \in Seq(Packets \cup {0}) /\ lost' \in BOOLEAN
  <2>1. CASE ReadHeader
    <3> DEFINE k == Head(wire).of
               want == Announced(sent[k])
    <3>1. CASE lost' = TRUE /\ UNCHANGED <<reading, got>>
      BY <1>4, <2>1, <3>1 DEF ReadHeader
    <3>2. CASE got' = Append(got, IF sent[k] = 0 THEN k ELSE 0) /\ UNCHANGED <<reading, lost>>
      BY <1>3, <1>4, <2>1, <3>2 DEF ReadHeader
    <3>3. CASE /\ k # 0 /\ want > 0
               /\ reading' = [of |-> k, want |-> want, at |-> 0, equal |-> want = sent[k]]
               /\ UNCHANGED <<got, lost>>
      <4>1. k \in Packets /\ sent[k] \in Nat
        BY <1>3, <3>3, Typed
      <4>2. want \in 1..Radix - 1
        BY <3>3, <4>1, LengthFits
      <4> HIDE DEF k, want
      <4>3. /\ reading' \in [of : Packets, want : 1..Radix - 1, at : Nat, equal : BOOLEAN]
            /\ reading'.at = 0 /\ reading'.want = want
        BY <3>3, <4>1, <4>2
      <4> QED
        BY <1>4, <3>3, <4>2, <4>3
    <3> QED
      BY <2>1, <3>1, <3>2, <3>3 DEF ReadHeader
  <2>2. CASE ReadPayload
    <3> DEFINE at == reading.at + 1
               equal == reading.equal /\ Head(wire) = [of |-> reading.of, at |-> at]
    <3>1. /\ reading \in [of : Packets, want : 1..Radix - 1, at : Nat, equal : BOOLEAN]
          /\ UNCHANGED lost
      BY <2>2 DEF ReadPayload, TypeInv, Bounded
    <3>2. CASE at < reading.want /\ reading' = [reading EXCEPT !.at = at, !.equal = equal] /\ UNCHANGED got
      <4>1. at \in Nat /\ equal \in BOOLEAN
        BY <3>1
      <4> HIDE DEF at, equal
      <4>2. /\ reading' \in [of : Packets, want : 1..Radix - 1, at : Nat, equal : BOOLEAN]
            /\ reading'.at = at /\ reading'.want = reading.want
        BY <3>1, <3>2, <4>1
      <4> QED
        BY <1>4, <3>1, <3>2, <4>2
    <3>3. CASE reading' = AtHeader /\ got' = Append(got, IF equal THEN reading.of ELSE 0)
      <4>1. (IF equal THEN reading.of ELSE 0) \in Packets \cup {0}
        BY <3>1
      <4> HIDE DEF equal
      <4> QED
        BY <1>4, <3>1, <3>3, <4>1
    <3> QED
      BY <2>2, <3>2, <3>3 DEF ReadPayload
  <2> QED
    BY <2>1, <2>2 DEF ReadStep
<1>6. reading'.want \in 0..Radix - 1
  BY <1>4, <1>5
<1>7. TypeOK'
  BY <1>1, <1>2, <1>5, <1>6 DEF Cells, TypeInv, TypeOK
<1>8. Bounded'
  BY <1>1, <1>2, <1>5 DEF TypeInv, Bounded
<1> QED
  BY <1>7, <1>8 DEF TypeInv

LEMMA TypeStep == TypeInv /\ [Next]_vars => TypeInv'
<1> SUFFICES ASSUME TypeInv, [Next]_vars PROVE TypeInv'
  OBVIOUS
<1>1. ASSUME NEW size \in Sizes, Send(size) PROVE TypeInv'
  BY <1>1, Sending, SendType
<1>2. CASE WriteStep
  BY <1>2, Writing, WriteType
<1>3. CASE ReadStep
  BY <1>3, ReadType
<1>4. CASE UNCHANGED vars
  BY <1>4 DEF vars, TypeInv, TypeOK, Bounded, AtHeader, Free
<1> QED
  BY <1>1, <1>2, <1>3, <1>4 DEF Next

LEMMA TypeInvariant == Spec => []TypeInv
BY TypeInit, TypeStep, PTL DEF Spec

\* Whatever the room, the sizes and the radix, every variable of Wire keeps to
\* its type: no write goes past what the connection holds (Session::
\* send_packet), and the reader waits for no more than a header announces
\* (Session::read_payload).
THEOREM WireTypes == Spec => []TypeOK
BY TypeInvariant, PTL DEF TypeInv

-----------------------------------------------------------------------------
(* The order of the cells                                                  *)

\* After cell a of the whole packet k comes its next cell, or the header of the
\* next whole packet; nothing follows the last packet that was sent.
Succeeds(i, k, a) ==
    /\ a <= sent[k]
    /\ a < sent[k] => At(wire, i + 1, k, a + 1)
    /\ a = sent[k] /\ Whole(k + 1) => At(wire, i + 1, k + 1, 0)
    /\ a = sent[k] /\ k = Len(sent) => i = Len(wire)

Follows ==
    \A i \in 1..Len(wire) :
       wire[i].of # 0 /\ Whole(wire[i].of) => Succeeds(i, wire[i].of, wire[i].at)

\* The reader is at packet k, and so is the wire.
Expected(k) ==
    /\ ~lost
    /\ reading = AtHeader => At(wire, 1, k, 0)
    /\ reading # AtHeader =>
          /\ reading.of = k /\ reading.want = sent[k] /\ reading.equal
          /\ At(wire, 1, k, reading.at + 1)

ToRead == Whole(Len(got) + 1) => Expected(Len(got) + 1)

\* While every packet is whole, the wire ends with the last cell of the last one.
LastWritten ==
    Whole(Len(sent)) =>
       /\ ~lost
       /\ Len(got) <= Len(sent)
       /\ Len(got) = Len(sent) => wire = <<>> /\ reading = AtHeader
       /\ Len(got) < Len(sent) => At(wire, Len(wire), Len(sent), sent[Len(sent)])

GotInOrder == \A k \in 1..Len(got) : Whole(k) => got[k] = k

\* The inductive invariant of ReadAsSent.
OrderInv == Follows /\ ToRead /\ LastWritten /\ GotInOrder

LEMMA WholeDown ==
    ASSUME TypeInv, NEW k \in Nat, Whole(k), NEW j \in Nat, j <= k
    PROVE  Whole(j)
<1>1. j <= Len(sent)
  BY Typed DEF Whole
<1>2. 1..j \subseteq 1..k
  OBVIOUS
<1> QED
  BY <1>1, <1>2 DEF Whole

\* What Follows says of one cell.
LEMMA Following ==
    ASSUME Follows, NEW i, NEW k, NEW a, At(wire, i, k, a), k # 0, Whole(k)
    PROVE  Succeeds(i, k, a)
BY DEF Follows, At

\* Cells on the wire are of packets that were sent.
LEMMA OfSent ==
    ASSUME TypeInv, NEW i, NEW k, NEW a, At(wire, i, k, a)
    PROVE  i \in 1..Len(wire) /\ k \in 0..Len(sent) /\ k \in Packets \cup {0} /\ a \in Nat
<1>1. i \in 1..Len(wire) /\ wire[i].of = k /\ wire[i].at = a
  BY DEF At
<1>2. wire[i] \in Cells
  BY <1>1, Typed
<1> QED
  BY <1>1, <1>2, CellFields DEF TypeInv, Bounded

\* A write adds the cells after those that are there.
LEMMA Extended ==
    ASSUME TypeInv, NEW w, NEW S, Grown(w, S), NEW i \in Nat, NEW k, NEW a
    PROVE  /\ At(wire', i, k, a) <=> At(wire, i, k, a) \/ (i > Len(wire) /\ At(w, i - Len(wire), k, a))
           /\ Len(wire') = Len(wire) + Len(w) /\ Len(w) \in Nat
<1>1. wire \in Seq(Cells) /\ w \in Seq(Cells) /\ wire' = wire \o w
  BY Typed DEF Grown
<1> QED
  BY <1>1, Joined

LEMMA OrderInit == Init => OrderInv
<1> SUFFICES ASSUME Init PROVE OrderInv
  OBVIOUS
<1>1. Len(sent) = 0 /\ Len(wire) = 0 /\ Len(got) = 0 /\ wire = <<>> /\ reading = AtHeader /\ lost = FALSE
  BY DEF Init
<1>2. ~Whole(1)
  BY <1>1 DEF Whole
<1> QED
  BY <1>1, <1>2 DEF OrderInv, Follows, ToRead, LastWritten, GotInOrder

\* Follows, for the cells that were on the wire before a write.
LEMMA OldCells ==
    ASSUME TypeInv, OrderInv, NEW w, NEW S, Grown(w, S), Len(sent') \in Nat,
           Len(sent) <= Len(sent'), \A j \in 1..Len(sent) : sent'[j] = sent[j],
           \A j \in 1..Len(sent) : Whole(j)' => Whole(j),
           Len(sent') = Len(sent) => ~Whole(Len(sent)),
           \A j \in Nat : j > Len(sent) /\ Whole(j)' => At(w, 1, j, 0),
           NEW i, NEW k, NEW a, At(wire, i, k, a), k # 0, Whole(k)'
    PROVE  Succeeds(i, k, a)'
<1>1. k \in 1..Len(sent) /\ i \in 1..Len(wire) /\ a \in Nat
  BY OfSent
<1>2. Whole(k) /\ Succeeds(i, k, a) /\ sent'[k] = sent[k]
  BY <1>1, Following DEF OrderInv
<1>3. a < sent[k] => At(wire', i + 1, k, a + 1)
  BY <1>1, <1>2, Extended DEF Succeeds
<1>4. k = Len(sent) /\ a = sent[k] => i = Len(wire)
  BY <1>2 DEF Succeeds
<1>5. ASSUME a = sent[k], Whole(k + 1)' PROVE At(wire', i + 1, k + 1, 0)
  <2>1. CASE k < Len(sent)
    <3>1. Whole(k + 1)
      BY <1>1, <1>5, <2>1, Typed
    <3>2. At(wire, i + 1, k + 1, 0)
      BY <1>2, <1>5, <3>1 DEF Succeeds
    <3> QED
      BY <1>1, <3>2, Extended
  <2>2. CASE k = Len(sent)
    <3>1. k + 1 \in Nat /\ k + 1 > Len(sent)
      BY <1>1, <2>2
    <3>2. i = Len(wire) /\ At(w, 1, k + 1, 0)
      BY <1>4, <1>5, <2>2, <3>1
    <3>3. i + 1 \in Nat /\ i + 1 > Len(wire) /\ (i + 1) - Len(wire) = 1
      BY <1>1, <3>2
    <3> QED
      BY <3>2, <3>3, Extended
  <2> QED
    BY <1>1, <2>1, <2>2
<1>6. ~(a = sent[k] /\ k = Len(sent'))
  BY <1>1, <1>2
<1> QED
  BY <1>2, <1>3, <1>5, <1>6 DEF Succeeds

\* Writing on what is left of a torn packet disturbs no whole one.
LEMMA WriteOrder ==
    ASSUME TypeInv, OrderInv, NEW w, NEW k, WriteEffect(w, k)
    PROVE  OrderInv'
<1>1. /\ k \in torn /\ k \in 1..Len(sent) /\ Grown(w, {0, k})
      /\ UNCHANGED <<sent, reading, got, lost, torn>>
  BY DEF WriteEffect, TypeInv, Bounded
<1>2. Len(sent) \in Nat /\ Len(wire) \in Nat /\ Len(got) \in Nat
  BY Typed
<1>3. \A j : Whole(j)' <=> Whole(j)
  BY <1>1 DEF Whole
<1>4. \A j \in Nat : k <= j => ~Whole(j)
  BY <1>1, <1>2 DEF Whole
<1>5. Follows'
  <2> SUFFICES ASSUME NEW i \in 1..Len(wire'), NEW l, NEW a,
                      l = wire'[i].of, a = wire'[i].at, l # 0, Whole(l)'
               PROVE  Succeeds(i, l, a)'
    BY DEF Follows, Succeeds, Whole
  <2>1. At(wire', i, l, a)
    BY DEF At
  <2>2. At(wire, i, l, a) \/ (i > Len(wire) /\ At(w, i - Len(wire), l, a))
    <3>1. i \in Nat
      OBVIOUS
    <3> QED
      BY <1>1, <2>1, <3>1, Extended
  <2>3. ~At(w, i - Len(wire), l, a)
    <3>1. Whole(l)
      BY <1>3
    <3>2. l # k
      BY <1>1, <1>4, <3>1
    <3> QED
      BY <1>1, <3>2 DEF At, Grown
  <2>4. /\ Len(sent') = Len(sent) /\ \A j \in 1..Len(sent) : sent'[j] = sent[j]
        /\ \A j \in 1..Len(sent) : Whole(j)' => Whole(j)
        /\ ~Whole(Len(sent))
        /\ \A j \in Nat : j > Len(sent) => ~Whole(j)'
    BY <1>1, <1>2, <1>3, <1>4 DEF Whole
  <2> QED
    BY <1>1, <1>2, <2>2, <2>3, <2>4, OldCells
<1>6. ToRead'
  <2> DEFINE m == Len(got) + 1
  <2>1. ASSUME Whole(m) PROVE Expected(m)'
    <3>1. Expected(m)
      BY <2>1 DEF OrderInv, ToRead
    <3>2. \A b : At(wire, 1, m, b) => At(wire', 1, m, b)
      BY <1>1, Extended
    <3> QED
      BY <1>1, <3>1, <3>2 DEF Expected, AtHeader
  <2> QED
    BY <1>1, <1>3, <2>1 DEF ToRead, Expected, Whole
<1>7. LastWritten'
  BY <1>1, <1>2, <1>4 DEF LastWritten, Whole
<1>8. GotInOrder'
  BY <1>1, <1>3 DEF OrderInv, GotInOrder
<1> QED
  BY <1>5, <1>6, <1>7, <1>8 DEF OrderInv

\* A packet is written whole and after all others, or it is not whole.
LEMMA SendOrder ==
    ASSUME TypeInv, OrderInv, NEW size \in Sizes, NEW n \in Nat, SendEffect(size, n)
    PROVE  OrderInv'
<1> DEFINE w == CellsOf(Len(sent) + 1, 0, n)
<1>1. PICK K \in Packets : K = Len(sent) + 1
  BY DEF SendEffect
<1>2. Len(sent) \in Nat /\ Len(wire) \in Nat /\ Len(got) \in Nat /\ size \in Nat /\ K \in Nat
  BY <1>1, Typed
<1>3. /\ Len(sent') = K /\ sent'[K] = size /\ \A j \in 1..Len(sent) : sent'[j] = sent[j]
      /\ Grown(w, {K}) /\ Len(w) = n
      /\ n <= size + 1 /\ (n < size + 1 => K \in torn') /\ (n = size + 1 => torn' = torn)
      /\ torn' \in {torn, torn \cup {K}}
      /\ UNCHANGED <<reading, got, lost>>
  BY <1>1, <1>2, Typed DEF SendEffect
<1>4. \A j \in 1..n : At(w, j, K, j - 1)
  BY <1>1, <1>2, Written
<1> HIDE DEF w
<1>5. ASSUME NEW j \in 1..Len(sent) PROVE Whole(j)' <=> Whole(j)
  <2>1. ASSUME NEW i \in 1..j PROVE sent'[i] = sent[i] /\ (i \in torn' <=> i \in torn)
    <3>1. i \in 1..Len(sent) /\ i # K
      BY <1>1, <1>2
    <3> QED
      BY <1>3, <3>1
  <2>2. j <= Len(sent) /\ j <= Len(sent')
    BY <1>1, <1>2, <1>3
  <2> QED
    BY <2>1, <2>2 DEF Whole
<1>6. \A j \in Nat : Whole(j)' => j <= K
  BY <1>3 DEF Whole
<1>7. ASSUME Whole(K)'
      PROVE  n = size + 1 /\ Whole(Len(sent)) /\ At(w, 1, K, 0) /\ At(w, size + 1, K, size)
  <2>1. n = size + 1
    BY <1>1, <1>2, <1>3, <1>7 DEF Whole
  <2>2. 1 \in 1..n /\ size + 1 \in 1..n
    BY <1>2, <2>1
  <2>3. Whole(Len(sent))
    BY <1>1, <1>2, <1>3, <1>7, <2>1 DEF Whole
  <2> QED
    BY <1>2, <1>4, <2>1, <2>2, <2>3
<1>8. \A i \in Nat : \A k, a : At(wire', i, k, a) <=>
         At(wire, i, k, a) \/ (i > Len(wire) /\ At(w, i - Len(wire), k, a))
  BY <1>3, Extended
<1>9. Len(wire') = Len(wire) + n
  BY <1>2, <1>3, Extended
<1>10. Follows'
  <2> SUFFICES ASSUME NEW i \in 1..Len(wire'), NEW k, NEW a,
                      k = wire'[i].of, a = wire'[i].at, k # 0, Whole(k)'
               PROVE  Succeeds(i, k, a)'
    BY DEF Follows, Succeeds, Whole
  <2>1. At(wire, i, k, a) \/ (i > Len(wire) /\ At(w, i - Len(wire), k, a))
    <3>1. At(wire', i, k, a) /\ i \in Nat
      BY DEF At
    <3> QED
      BY <1>8, <3>1
  <2>2. CASE At(wire, i, k, a)
    <3>1. /\ Len(sent') \in Nat /\ Len(sent) <= Len(sent') /\ Len(sent') # Len(sent)
          /\ \A j \in 1..Len(sent) : Whole(j)' => Whole(j)
      BY <1>1, <1>2, <1>3, <1>5
    <3>2. ASSUME NEW j \in Nat, j > Len(sent), Whole(j)' PROVE At(w, 1, j, 0)
      <4>1. j = K
        BY <1>1, <1>2, <1>6, <3>2
      <4> QED
        BY <1>7, <3>2, <4>1
    <3> QED
      BY <1>3, <2>2, <3>1, <3>2, OldCells
  <2>3. CASE i > Len(wire) /\ At(w, i - Len(wire), k, a)
    <3>1. PICK j \in 1..n : j = i - Len(wire)
      BY <1>3, <2>3 DEF At
    <3>2. k = K /\ a = j - 1
      BY <1>4, <2>3, <3>1 DEF At
    <3>3. n = size + 1
      BY <1>7, <3>2
    <3>4. ASSUME a < size PROVE At(wire', i + 1, K, a + 1)
      <4>1. j + 1 \in 1..n /\ (i + 1) - Len(wire) = j + 1 /\ i + 1 \in Nat /\ i + 1 > Len(wire)
        BY <1>2, <2>3, <3>1, <3>2, <3>3, <3>4
      <4>2. At(w, j + 1, K, a + 1)
        BY <1>4, <3>2, <4>1
      <4> QED
        BY <1>8, <4>1, <4>2
    <3>5. ~Whole(k + 1)'
      BY <1>2, <1>6, <3>2
    <3>6. a <= size /\ (a = size => i = Len(wire'))
      BY <1>2, <1>9, <2>3, <3>1, <3>2, <3>3
    <3> QED
      BY <1>3, <3>2, <3>4, <3>5, <3>6 DEF Succeeds
  <2> QED
    BY <2>1, <2>2, <2>3
<1>11. ToRead'
  <2> SUFFICES ASSUME NEW m \in Nat, m = Len(got) + 1, Whole(m)' PROVE Expected(m)'
    BY <1>2, <1>3 DEF ToRead, Expected, Whole
  <2>1. m <= K
    BY <1>6
  <2>2. CASE m < K
    <3>1. m \in 1..Len(sent)
      BY <1>1, <1>2, <2>2
    <3>2. Expected(m) /\ sent'[m] = sent[m]
      BY <1>3, <1>5, <3>1 DEF OrderInv, ToRead
    <3>3. \A b : At(wire, 1, m, b) => At(wire', 1, m, b)
      BY <1>8
    <3> QED
      BY <1>3, <3>2, <3>3 DEF Expected, AtHeader
  <2>3. CASE m = K
    <3>1. Whole(Len(sent)) /\ At(w, 1, K, 0) /\ Len(got) = Len(sent)
      BY <1>1, <1>2, <1>7, <2>3
    <3>2. ~lost /\ Len(wire) = 0 /\ reading = AtHeader
      BY <3>1 DEF OrderInv, LastWritten
    <3>3. At(wire', 1, m, 0)
      BY <1>8, <2>3, <3>1, <3>2
    <3> QED
      BY <1>3, <3>2, <3>3 DEF Expected, AtHeader
  <2> QED
    BY <1>2, <2>1, <2>2, <2>3
<1>12. LastWritten'
  <2> SUFFICES ASSUME Whole(K)'
               PROVE  ~lost /\ Len(got) < K /\ At(wire', Len(wire'), K, size)
    BY <1>2, <1>3 DEF LastWritten, Whole
  <2>1. ~lost /\ Len(got) <= Len(sent)
    BY <1>7 DEF OrderInv, LastWritten
  <2>2. At(w, n, K, size) /\ Len(wire') - Len(wire) = n /\ Len(wire') \in Nat /\ Len(wire') > Len(wire)
    BY <1>2, <1>7, <1>9
  <2>3. At(wire', Len(wire'), K, size)
    BY <1>8, <2>2
  <2> QED
    BY <1>1, <1>2, <2>1, <2>3
<1>13. GotInOrder'
  <2> SUFFICES ASSUME NEW k \in 1..Len(got), Whole(k)' PROVE got[k] = k
    BY <1>3 DEF GotInOrder
  <2>1. k <= K
    BY <1>6
  <2>2. k # K
    <3>1. Whole(K)' => Len(got) <= Len(sent)
      BY <1>7 DEF OrderInv, LastWritten
    <3> QED
      BY <1>1, <1>2, <3>1
  <2>3. k \in 1..Len(sent)
    BY <1>1, <1>2, <2>1, <2>2
  <2> QED
    BY <1>5, <2>3 DEF OrderInv, GotInOrder
<1> QED
  BY <1>10, <1>11, <1>12, <1>13 DEF OrderInv

\* The cells that stay on the wire keep their order.
LEMMA ReadFollows ==
    ASSUME TypeInv, Follows, ReadStep
    PROVE  Follows'
<1>1. wire # <<>> /\ wire' = Tail(wire) /\ UNCHANGED <<sent, torn>>
  BY DEF ReadStep, ReadHeader, ReadPayload
<1>2. \A j : Whole(j)' <=> Whole(j)
  BY <1>1 DEF Whole
<1>3. /\ \A i \in Nat \ {0} : \A k, a : At(wire', i, k, a) <=> At(wire, i + 1, k, a)
      /\ Len(wire') = Len(wire) - 1 /\ Len(wire) \in Nat
  BY <1>1, Reading, Typed
<1> SUFFICES ASSUME NEW i \in 1..Len(wire'), NEW k, NEW a,
                    k = wire'[i].of, a = wire'[i].at, k # 0, Whole(k)'
             PROVE  Succeeds(i, k, a)'
  BY DEF Follows, Succeeds, Whole
<1>4. i \in Nat \ {0} /\ i + 1 \in Nat \ {0}
  OBVIOUS
<1>5. At(wire, i + 1, k, a)
  BY <1>3, <1>4 DEF At
<1>6. Succeeds(i + 1, k, a)
  BY <1>2, <1>5, Following
<1>7. a < sent[k] => At(wire', i + 1, k, a + 1)
  BY <1>3, <1>4, <1>6 DEF Succeeds
<1>8. a = sent[k] /\ Whole(k + 1)' => At(wire', i + 1, k + 1, 0)
  BY <1>2, <1>3, <1>4, <1>6 DEF Succeeds
<1>9. a = sent[k] /\ k = Len(sent) => i = Len(wire')
  BY <1>3, <1>4, <1>6 DEF Succeeds
<1> QED
  BY <1>1, <1>6, <1>7, <1>8, <1>9 DEF Succeeds

\* What reading does: the first cell goes; a packet ends, or the reader goes on.
ReadEffect ==
    /\ wire # <<>> /\ wire' = Tail(wire)
    /\ Len(got') \in {Len(got), Len(got) + 1}
    /\ \A k \in 1..Len(got) : got'[k] = got[k]
    /\ UNCHANGED <<sent, torn>>

\* The reader goes on with packet k, which is whole.
GoesOn(k) == got' = got /\ Expected(k)'

\* Packet k, which is whole, has been read to its last cell.
Ends(k) == /\ got' = Append(got, k) /\ reading' = AtHeader /\ ~lost'
           /\ Succeeds(1, k, sent[k])

LEMMA ReadingOn ==
    ASSUME TypeInv, OrderInv, ReadStep, NEW m \in Nat, m = Len(got) + 1
    PROVE  /\ ReadEffect
           /\ Whole(m) => GoesOn(m) \/ Ends(m)
<1>1. wire # <<>> /\ wire' = Tail(wire) /\ UNCHANGED <<sent, torn>>
  BY DEF ReadStep, ReadHeader, ReadPayload
<1>2. ReadEffect
  <2>1. got' = got \/ \E x \in Packets \cup {0} : got' = Append(got, x)
    <3>1. got' \in Seq(Packets \cup {0})
      BY ReadType DEF TypeInv, TypeOK
    <3>2. CASE got' = got
      BY <3>2
    <3>3. CASE \E x : got' = Append(got, x)
      BY <3>1, <3>3, Typed
    <3> QED
      BY <3>2, <3>3 DEF ReadStep, ReadHeader, ReadPayload
  <2>2. Len(got') \in {Len(got), Len(got) + 1} /\ \A k \in 1..Len(got) : got'[k] = got[k]
    <3>1. got \in Seq(Packets \cup {0})
      BY Typed
    <3>2. CASE got' = got
      BY <3>2
    <3>3. ASSUME NEW x \in Packets \cup {0}, got' = Append(got, x)
          PROVE  Len(got') = Len(got) + 1 /\ \A k \in 1..Len(got) : got'[k] = got[k]
      BY <3>1, <3>3
    <3> QED
      BY <2>1, <3>2, <3>3
  <2> QED
    BY <1>1, <2>2 DEF ReadEffect
<1>3. ASSUME Whole(m) PROVE GoesOn(m) \/ Ends(m)
  <2>1. m \in 1..Len(sent) /\ sent[m] \in Nat /\ m \in Packets /\ sent[m] < Radix
    BY <1>3, Typed DEF Whole
  <2>2. Expected(m) /\ Announced(sent[m]) = sent[m]
    BY <1>3, <2>1, LengthFits DEF OrderInv, ToRead
  <2>3. /\ \A k, a : At(wire, 1, k, a) => Head(wire).of = k /\ Head(wire).at = a
        /\ \A k, a : At(wire', 1, k, a) <=> At(wire, 2, k, a)
        /\ Head(wire) \in Cells
    BY <1>1, Reading
  <2>4. \A a : At(wire, 1, m, a) => Succeeds(1, m, a)
    BY <1>3, <2>1, Following DEF OrderInv
  <2>5. CASE ReadHeader
    <3>1. reading = AtHeader /\ At(wire, 1, m, 0) /\ Head(wire).of = m /\ Head(wire).at = 0 /\ ~lost
      BY <2>2, <2>3, <2>5 DEF ReadHeader, Expected
    <3>2. CASE sent[m] = 0
      <4>1. got' = Append(got, m) /\ UNCHANGED <<reading, lost>>
        BY <2>1, <2>2, <2>5, <3>1, <3>2 DEF ReadHeader
      <4> QED
        BY <2>4, <3>1, <3>2, <4>1 DEF Ends
    <3>3. CASE sent[m] > 0
      <4>1. /\ reading' = [of |-> m, want |-> Announced(sent[m]), at |-> 0,
                           equal |-> Announced(sent[m]) = sent[m]]
            /\ UNCHANGED <<got, lost>>
        <5>1. ~(Head(wire).of = 0 \/ Head(wire).at # 0) /\ Announced(sent[Head(wire).of]) # 0
          BY <2>1, <2>2, <3>1, <3>3
        <5> QED
          BY <2>5, <3>1, <5>1 DEF ReadHeader
      <4>2. /\ reading'.of = m /\ reading'.want = sent[m] /\ reading'.at = 0 /\ reading'.equal
            /\ reading' # AtHeader
        <5> DEFINE same == Announced(sent[m]) = sent[m]
        <5>1. reading' = [of |-> m, want |-> sent[m], at |-> 0, equal |-> same] /\ same
          BY <2>2, <4>1
        <5> HIDE DEF same
        <5>2. reading'.of = m /\ reading'.want = sent[m] /\ reading'.at = 0 /\ reading'.equal
          BY <5>1
        <5> QED
          BY <2>1, <5>2 DEF AtHeader
      <4>3. At(wire', 1, m, 0 + 1)
        BY <2>1, <2>3, <2>4, <3>1, <3>3 DEF Succeeds
      <4> QED
        BY <1>1, <3>1, <4>1, <4>2, <4>3 DEF GoesOn, Expected, AtHeader
    <3> QED
      BY <2>1, <3>2, <3>3
  <2>6. CASE ReadPayload
    <3> DEFINE at == reading.at + 1
    <3>1. /\ reading \in [of : Packets, want : 1..Radix - 1, at : Nat, equal : BOOLEAN]
          /\ reading.of = m /\ reading.want = sent[m] /\ reading.equal /\ ~lost
          /\ reading.at < sent[m] /\ At(wire, 1, m, at)
      BY <2>2, <2>6 DEF ReadPayload, Expected, TypeInv, Bounded
    <3>2. Head(wire) = [of |-> reading.of, at |-> at]
      <4>1. Head(wire).of = m /\ Head(wire).at = at
        BY <2>3, <3>1
      <4> HIDE DEF at
      <4>2. Head(wire) = [of |-> m, at |-> at]
        BY <2>3, <4>1, CellEqual
      <4> QED
        BY <3>1, <4>2
    <3>3. CASE at < reading.want
      <4>1. /\ reading' = [reading EXCEPT !.at = at, !.equal = TRUE]
            /\ UNCHANGED <<got, lost>>
        BY <2>6, <3>1, <3>2, <3>3 DEF ReadPayload
      <4>2. at \in Nat /\ at # 0
        BY <3>1
      <4>3. At(wire, 2, m, at + 1)
        BY <2>4, <3>1, <3>3 DEF Succeeds
      <4> HIDE DEF at
      <4>4. /\ reading'.of = m /\ reading'.want = sent[m] /\ reading'.at = at /\ reading'.equal
        BY <3>1, <4>1
      <4>5. reading' # AtHeader
        BY <4>2, <4>4 DEF AtHeader
      <4> QED
        BY <1>1, <2>3, <3>1, <4>1, <4>3, <4>4, <4>5 DEF GoesOn, Expected, AtHeader
    <3>4. CASE ~(at < reading.want)
      <4>1. reading' = AtHeader /\ got' = Append(got, m) /\ UNCHANGED lost
        BY <2>6, <3>1, <3>2, <3>4 DEF ReadPayload
      <4>2. at = sent[m]
        BY <2>1, <3>1, <3>4
      <4> QED
        BY <2>4, <3>1, <4>1, <4>2 DEF Ends
    <3> QED
      BY <3>3, <3>4
  <2> QED
    BY <2>5, <2>6 DEF ReadStep
<1> QED
  BY <1>2, <1>3

LEMMA ReadOrder ==
    ASSUME TypeInv, OrderInv, ReadStep
    PROVE  OrderInv'
<1>0. PICK m \in Nat : m = Len(got) + 1
  BY Typed
<1>1. /\ ReadEffect
      /\ Whole(m) => GoesOn(m) \/ Ends(m)
  BY <1>0, ReadingOn
<1>2. wire # <<>> /\ wire' = Tail(wire) /\ UNCHANGED <<sent, torn>>
      /\ Len(got') \in {Len(got), Len(got) + 1} /\ \A k \in 1..Len(got) : got'[k] = got[k]
  BY <1>1 DEF ReadEffect
<1>3. \A j : Whole(j)' <=> Whole(j)
  BY <1>2 DEF Whole
<1>4. /\ Len(sent) \in Nat /\ Len(got) \in Nat /\ m = Len(got) + 1 /\ Len(wire) \in Nat
      /\ wire' \in Seq(Cells) /\ Len(wire') = Len(wire) - 1
      /\ \A i \in Nat \ {0} : \A k, a : At(wire', i, k, a) <=> At(wire, i + 1, k, a)
  BY <1>0, <1>2, Reading, Typed
<1>5. Follows'
  BY ReadFollows DEF OrderInv
<1>6. CASE ~Whole(m)
  <2>1. ~Whole(m + 1)
    BY <1>4, <1>6, WholeDown
  <2>2. ~Whole(Len(sent))
    <3>1. SUFFICES ASSUME Whole(Len(sent)) PROVE FALSE
      OBVIOUS
    <3>2. Len(got) = Len(sent)
      <4>1. Len(got) <= Len(sent)
        BY <3>1 DEF OrderInv, LastWritten
      <4>2. ~(m <= Len(sent))
        BY <1>4, <1>6, <3>1, WholeDown
      <4> QED
        BY <1>4, <4>1, <4>2
    <3> QED
      BY <1>2, <3>1, <3>2 DEF OrderInv, LastWritten
  <2>3. ToRead'
    <3>1. ASSUME NEW j, j = Len(got') + 1 PROVE ~Whole(j)'
      BY <1>2, <1>3, <1>4, <1>6, <2>1, <3>1
    <3> QED
      BY <3>1 DEF ToRead, Whole
  <2>4. LastWritten'
    BY <1>2, <2>2 DEF LastWritten, Whole
  <2>5. GotInOrder'
    <3> SUFFICES ASSUME NEW k \in 1..Len(got'), Whole(k)' PROVE got'[k] = k
      BY DEF GotInOrder
    <3>1. k # m
      BY <1>3, <1>6
    <3>2. k \in 1..Len(got)
      BY <1>2, <1>4, <3>1
    <3> QED
      BY <1>2, <1>3, <3>2 DEF OrderInv, GotInOrder
  <2> QED
    BY <1>5, <2>3, <2>4, <2>5 DEF OrderInv
<1>7. CASE Whole(m)
  <2>1. m \in 1..Len(sent) /\ m \in Nat \ {0}
    BY <1>4, <1>7 DEF Whole
  <2>2. ASSUME Whole(Len(sent)), wire' # <<>>
        PROVE  At(wire', Len(wire'), Len(sent), sent[Len(sent)])
    <3>1. At(wire, Len(wire), Len(sent), sent[Len(sent)])
      BY <1>4, <2>1, <2>2 DEF OrderInv, LastWritten
    <3>2. Len(wire') \in Nat \ {0} /\ Len(wire') + 1 = Len(wire)
      BY <1>4, <2>2
    <3> QED
      BY <1>4, <3>1, <3>2
  <2>3. CASE GoesOn(m)
    <3>1. got' = got /\ Expected(m)'
      BY <2>3 DEF GoesOn
    <3>2. ToRead'
      <4> SUFFICES ASSUME NEW j, j = m, Whole(j)' PROVE Expected(j)'
        BY <1>4, <3>1 DEF ToRead, Expected, Whole
      <4> QED
        BY <3>1
    <3>3. LastWritten'
      <4>1. ~lost' /\ wire' # <<>>
        BY <1>4, <3>1 DEF Expected, At
      <4>2. Len(got) < Len(sent)
        BY <1>4, <2>1
      <4> QED
        BY <1>2, <1>3, <1>4, <2>2, <3>1, <4>1, <4>2 DEF LastWritten, Whole
    <3>4. GotInOrder'
      BY <1>3, <3>1 DEF OrderInv, GotInOrder
    <3> QED
      BY <1>5, <3>2, <3>3, <3>4 DEF OrderInv
  <2>4. CASE Ends(m)
    <3>1. reading' = AtHeader /\ ~lost' /\ Succeeds(1, m, sent[m])
      BY <2>4 DEF Ends
    <3>2. Len(got') = m /\ got'[m] = m
      BY <1>4, <2>4, <2>1, Typed DEF Ends
    <3>3. ASSUME Whole(m + 1) PROVE At(wire', 1, m + 1, 0)
      BY <1>4, <3>1, <3>3 DEF Succeeds
    <3>4. ToRead'
      <4> SUFFICES ASSUME NEW j, j = m + 1, Whole(j)' PROVE Expected(j)'
        BY <3>2 DEF ToRead, Expected, Whole
      <4> QED
        BY <1>3, <3>1, <3>3 DEF Expected, AtHeader
    <3>5. LastWritten'
      <4>1. CASE m = Len(sent)
        <5>1. Len(wire) = 1 /\ wire' = <<>>
          BY <1>4, <3>1, <4>1 DEF Succeeds
        <5> QED
          BY <1>2, <1>4, <3>1, <3>2, <4>1, <5>1 DEF LastWritten
      <4>2. CASE m < Len(sent)
        <5>1. ASSUME Whole(Len(sent)) PROVE wire' # <<>>
          <6>1. Whole(m + 1)
            BY <1>4, <4>2, <5>1, WholeDown
          <6> QED
            BY <1>4, <3>3, <6>1 DEF At
        <5> QED
          BY <1>2, <1>3, <1>4, <2>2, <3>1, <3>2, <4>2, <5>1 DEF LastWritten, Whole
      <4> QED
        BY <2>1, <4>1, <4>2
    <3>6. GotInOrder'
      <4> SUFFICES ASSUME NEW k \in 1..Len(got'), Whole(k)' PROVE got'[k] = k
        BY DEF GotInOrder
      <4>1. CASE k = m
        BY <3>2, <4>1
      <4>2. CASE k # m
        <5>1. k \in 1..Len(got)
          BY <1>4, <3>2, <4>2
        <5> QED
          BY <1>2, <1>3, <5>1 DEF OrderInv, GotInOrder
      <4> QED
        BY <4>1, <4>2
    <3> QED
      BY <1>5, <3>4, <3>5, <3>6 DEF OrderInv
  <2> QED
    BY <1>1, <1>7, <2>3, <2>4
<1> QED
  BY <1>6, <1>7

LEMMA OrderStep == TypeInv /\ OrderInv /\ [Next]_vars => OrderInv'
<1> SUFFICES ASSUME TypeInv, OrderInv, [Next]_vars PROVE OrderInv'
  OBVIOUS
<1>1. ASSUME NEW size \in Sizes, Send(size) PROVE OrderInv'
  BY <1>1, Sending, SendOrder
<1>2. CASE WriteStep
  BY <1>2, Writing, WriteOrder
<1>3. CASE ReadStep
  BY <1>3, ReadOrder
<1>4. CASE UNCHANGED vars
  BY <1>4 DEF vars, OrderInv, Follows, Succeeds, ToRead, Expected, LastWritten, GotInOrder, Whole, AtHeader
<1> QED
  BY <1>1, <1>2, <1>3, <1>4 DEF Next

LEMMA OrderInvariant == Spec => []OrderInv
BY OrderInit, OrderStep, TypeInvariant, PTL DEF Spec

\* Up to the first packet that is too long for its header or torn between two
\* writes, the peer reads the packets that Session::send_packet was called with,
\* each once and in that order, and never takes a payload for a header
\* (Session::read_header, read_payload).
THEOREM InOrderOnce == Spec => []ReadAsSent
<1>1. OrderInv => ReadAsSent
  BY DEF OrderInv, ToRead, Expected, GotInOrder, ReadAsSent
<1> QED
  BY <1>1, OrderInvariant, PTL
=============================================================================
