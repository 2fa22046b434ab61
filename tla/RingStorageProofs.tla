--------------------------- MODULE RingStorageProofs ---------------------------
(***************************************************************************)
(* What fill() reads from the ring is what enqueue() was given: the loops  *)
(* of ring.h write and read whole ranges of frames, whatever the capacity  *)
(* and wherever they wrap, and the pipeline keeps what it may still read   *)
(* within one capacity.  The pipeline with its storage is the pipeline of  *)
(* RingPipeline, so all that is proved of that one holds here.             *)
(***************************************************************************)
EXTENDS RingStorage, RingListenerProofs, WellFoundedInduction

-----------------------------------------------------------------------------
(* Recursion over the naturals *)

\* A set of naturals that is not empty has a least element.
LEMMA LeastElement ==
    ASSUME NEW S, S \subseteq Nat, S # {}
    PROVE  \E m \in S : \A k \in S : m <= k
<1> DEFINE R == OpToRel(<, Nat)
<1>1. IsWellFoundedOn(R, Nat)
    BY NatLessThanWellFounded
<1>2. \A x \in Nat, y \in Nat : y < x => <<y, x>> \in R
    BY DEF OpToRel
<1> HIDE DEF R
<1>3. PICK m \in S : \A y \in S : <<y, m>> \notin R
    BY <1>1, WFMin
<1>4. \A k \in S : ~(k < m)
    BY <1>2, <1>3
<1>5. \A k \in S : m <= k
    BY <1>3, <1>4
<1> QED
    BY <1>3, <1>5

\* Descent: a set of naturals with a smaller one for each of its own is empty.
LEMMA Descent ==
    ASSUME NEW D, D \subseteq Nat, \A n \in D : \E k \in D : k < n
    PROVE  D = {}
<1> SUFFICES ASSUME D # {} PROVE FALSE
    OBVIOUS
<1>1. PICK m \in D : \A k \in D : m <= k
    BY LeastElement
<1>2. PICK k \in D : k < m
    BY <1>1
<1>3. k \in Nat /\ m \in Nat /\ m <= k
    BY <1>1
<1> QED
    BY <1>2, <1>3

-----------------------------------------------------------------------------
(* Places in the storage *)

\* The remainder of x + m * q, x being one itself.
LEMMA Remainder ==
    ASSUME NEW m \in Nat \ {0}, NEW x \in 0 .. m - 1, NEW q \in Int
    PROVE  (m * q + x) % m = x
<1> DEFINE y == m * q + x
           d == y \div m
           r == y % m
<1>1. y \in Int
    BY SMT
<1>2. d \in Int /\ r \in 0 .. m - 1 /\ y = m * d + r
    BY <1>1, SMT
<1> HIDE DEF d, r
<1>3. m * (q - d) = r - x /\ q - d \in Int
    BY <1>2, SMT
<1>4. -m < r - x /\ r - x < m
    BY <1>2, SMT
<1>5. ~(q - d >= 1) /\ ~(q - d <= -1)
    <2>1. q - d >= 1 => m * (q - d) >= m
        BY <1>3, SMT
    <2>2. q - d <= -1 => m * (q - d) <= -m
        BY <1>3, SMT
    <2> QED
        BY <1>3, <1>4, <2>1, <2>2
<1>6. q - d = 0
    BY <1>3, <1>5
<1>7. r = x
    BY <1>2, <1>3, <1>6
<1> QED
    BY <1>7 DEF r

\* A frame has a place of its own.
LEMMA SlotPlace ==
    ASSUME NEW f \in Nat
    PROVE  Storage!Slot(f) \in 0 .. Capacity - 1
BY SizesAssumption, SMT DEF Storage!Slot

\* The place j frames on, wrapping once at most.
LEMMA SlotAhead ==
    ASSUME NEW f \in Nat, NEW j \in 0 .. Capacity
    PROVE  Storage!Slot(f + j) = IF Storage!Slot(f) + j < Capacity
                                 THEN Storage!Slot(f) + j
                                 ELSE (Storage!Slot(f) + j) - Capacity
<1> DEFINE s == f % Capacity
           q == f \div Capacity
<1>1. Capacity \in Nat \ {0}
    BY SizesAssumption
<1>2. f = Capacity * q + s /\ s \in 0 .. Capacity - 1 /\ q \in Int
    BY <1>1, SMT
<1> HIDE DEF s, q
<1>3. CASE s + j < Capacity
    <2>1. f + j = Capacity * q + (s + j) /\ s + j \in 0 .. Capacity - 1
        BY <1>1, <1>2, <1>3, SMT
    <2>2. (f + j) % Capacity = s + j
        BY <1>1, <1>2, <2>1, Remainder
    <2> QED
        BY <1>3, <2>2 DEF Storage!Slot, s
<1>4. CASE ~(s + j < Capacity)
    <2>1. (s + j) - Capacity \in 0 .. Capacity - 1 /\ q + 1 \in Int
        BY <1>1, <1>2, <1>4
    <2> DEFINE m == Capacity * q
    <2>2. Capacity * (q + 1) = m + Capacity /\ m \in Int
        BY <1>1, <1>2, SMT
    <2> HIDE DEF m
    <2>3. m + (s + j) = (m + Capacity) + ((s + j) - Capacity)
        BY <1>1, <1>2, <2>2
    <2>4. f + j = Capacity * (q + 1) + ((s + j) - Capacity)
        <3>1. f + j = m + (s + j)
            BY <1>2, <2>2 DEF m
        <3> QED
            BY <2>2, <2>3, <3>1
    <2>5. (f + j) % Capacity = (s + j) - Capacity
        <3>1. (Capacity * (q + 1) + ((s + j) - Capacity)) % Capacity = (s + j) - Capacity
            BY <1>1, <2>1, Remainder
        <3> QED
            BY <2>4, <3>1, Zenon
    <2> QED
        BY <1>4, <2>5 DEF Storage!Slot, s
<1> QED
    BY <1>3, <1>4

\* One iteration copies at least a frame, none too many, and does not run past
\* the end of the storage.
LEMMA ChunkFits ==
    ASSUME NEW f \in Nat, NEW n \in Nat \ {0}
    PROVE  /\ Storage!Chunk(f, n) \in 1 .. n
           /\ Storage!Slot(f) + Storage!Chunk(f, n) <= Capacity
BY SlotPlace, SizesAssumption DEF Storage!Chunk

-----------------------------------------------------------------------------
(* Ring::read() *)

\* A sequence is the concatenation of its first part and the rest.
LEMMA Joined ==
    ASSUME NEW S, NEW s \in Seq(S), NEW t \in Seq(S), NEW u \in Seq(S),
           Len(u) = Len(s) + Len(t),
           \A i \in 1 .. Len(s) : u[i] = s[i],
           \A i \in 1 .. Len(t) : u[Len(s) + i] = t[i]
    PROVE  u = s \o t
<1>1. s \o t \in Seq(S) /\ Len(s \o t) = Len(u)
    OBVIOUS
<1>2. ASSUME NEW i \in 1 .. Len(u) PROVE u[i] = (s \o t)[i]
    <2>1. CASE i <= Len(s)
        BY <2>1
    <2>2. CASE i > Len(s)
        <3>1. i - Len(s) \in 1 .. Len(t) /\ Len(s) + (i - Len(s)) = i
            BY <2>2
        <3>2. u[i] = t[i - Len(s)]
            BY <3>1
        <3>3. (s \o t)[i] = t[i - Len(s)]
            BY <2>2, <3>1
        <3> QED
            BY <3>2, <3>3
    <2> QED
        BY <2>1, <2>2
<1> QED
    BY <1>1, <1>2

\* The frames [f, f + n) as the storage holds them
Held(data, f, n) == [i \in 1 .. n |-> data[Storage!Slot(f + (i - 1))]]

\* One iteration of read() fetches the first frames of what is left.
LEMMA HeldChunk ==
    ASSUME NEW data \in Storage!Storages, NEW f \in Nat, NEW n \in Nat \ {0}
    PROVE  LET chunk == Storage!Chunk(f, n)
           IN  Held(data, f, n) = Storage!Fetch(data, f, chunk)
                                     \o Held(data, f + chunk, n - chunk)
<1> DEFINE chunk == Storage!Chunk(f, n)
           E == Nat \cup {Garbage}
           s == Storage!Fetch(data, f, chunk)
           t == Held(data, f + chunk, n - chunk)
           u == Held(data, f, n)
<1>1. chunk \in 1 .. n /\ Storage!Slot(f) + chunk <= Capacity
    BY ChunkFits
<1>2. Storage!Slot(f) \in Nat /\ Capacity \in Nat
    BY SlotPlace, SizesAssumption
<1> HIDE DEF chunk
<1>3. \A g \in Nat : data[Storage!Slot(g)] \in E
    BY SlotPlace DEF Storage!Storages, Storage!Places
<1>4. ASSUME NEW i \in 1 .. chunk
      PROVE  /\ s[i] = data[Storage!Slot(f + (i - 1))]
             /\ f + (i - 1) \in Nat
    <2>1. i - 1 \in 0 .. Capacity /\ Storage!Slot(f) + (i - 1) < Capacity
        BY <1>1, <1>2
    <2>2. Storage!Slot(f + (i - 1)) = Storage!Slot(f) + (i - 1)
        BY <2>1, SlotAhead
    <2>3. Storage!Slot(f) + (i - 1) \in Storage!Places
        BY <1>2, <2>1 DEF Storage!Places
    <2> QED
        BY <2>2, <2>3 DEF Storage!Fetch
<1>5. s \in Seq(E) /\ Len(s) = chunk
    <2>1. \A i \in 1 .. chunk : s[i] \in E
        BY <1>3, <1>4
    <2>2. s = [i \in 1 .. chunk |-> s[i]]
        BY DEF Storage!Fetch
    <2> HIDE DEF s, E
    <2> QED
        BY <1>1, <2>1, <2>2
<1>6. t \in Seq(E) /\ Len(t) = n - chunk
    <2>1. \A i \in 1 .. n - chunk : (f + chunk) + (i - 1) \in Nat
        BY <1>1
    <2> HIDE DEF E
    <2> QED
        BY <1>1, <1>3, <2>1 DEF Held
<1>7. u \in Seq(E) /\ Len(u) = n
    <2>1. \A i \in 1 .. n : f + (i - 1) \in Nat
        OBVIOUS
    <2> HIDE DEF E
    <2> QED
        BY <1>3, <2>1 DEF Held
<1>8. \A i \in 1 .. Len(s) : u[i] = s[i]
    BY <1>1, <1>4, <1>5 DEF Held
<1>9. ASSUME NEW i \in 1 .. Len(t) PROVE u[Len(s) + i] = t[i]
    <2>1. /\ i \in 1 .. n - chunk /\ chunk + i \in 1 .. n
          /\ f + ((chunk + i) - 1) = (f + chunk) + (i - 1)
        BY <1>1, <1>6
    <2> QED
        BY <1>5, <2>1 DEF Held
<1>10. Len(u) = Len(s) + Len(t)
    BY <1>1, <1>5, <1>6, <1>7
<1> HIDE DEF s, t, u, E
<1>11. u = s \o t
    BY <1>5, <1>6, <1>7, <1>8, <1>9, <1>10, Joined
<1> QED
    BY <1>11 DEF s, t, u, chunk

\* Ring::read() returns the frames asked for, in order, whatever it wraps.
LEMMA ReadIs ==
    ASSUME NEW data \in Storage!Storages, NEW frame \in Nat, NEW frames \in Nat
    PROVE  Storage!Read(data, frame, frames) = Held(data, frame, frames)
<1> DEFINE end == frame + frames
           chunk(n) == Storage!Chunk(end - n, n)
           Body(w) == [n \in 0 .. frames |->
                         IF n = 0 THEN << >>
                         ELSE Storage!Fetch(data, end - n, chunk(n)) \o w[n - chunk(n)]]
           closed == [n \in 0 .. frames |-> Held(data, end - n, n)]
           loop == CHOOSE w : w = Body(w)
           D == {n \in 0 .. frames : loop[n] # closed[n]}
<1>1. Storage!Read(data, frame, frames) = loop[frames]
    BY DEF Storage!Read
<1>2. ASSUME NEW n \in 1 .. frames
      PROVE  /\ end - n \in Nat /\ n \in Nat \ {0}
             /\ n - chunk(n) \in 0 .. (n - 1) /\ n - chunk(n) \in 0 .. frames
             /\ (end - n) + chunk(n) = end - (n - chunk(n))
    <2>1. end - n \in Nat /\ n \in Nat \ {0}
        OBVIOUS
    <2>2. chunk(n) \in 1 .. n
        BY <2>1, ChunkFits
    <2> HIDE DEF chunk
    <2> QED
        BY <2>1, <2>2
<1>3. closed[0] = << >>
    BY DEF Held
<1>4. ASSUME NEW n \in 1 .. frames
      PROVE  closed[n] = Storage!Fetch(data, end - n, chunk(n)) \o closed[n - chunk(n)]
    <2>1. Held(data, end - n, n) = Storage!Fetch(data, end - n, chunk(n))
                                      \o Held(data, (end - n) + chunk(n), n - chunk(n))
        BY <1>2, HeldChunk
    <2>2. closed[n - chunk(n)] = Held(data, end - (n - chunk(n)), n - chunk(n))
        BY <1>2
    <2>3. closed[n] = Held(data, end - n, n)
        OBVIOUS
    <2> HIDE DEF closed
    <2> QED
        BY <1>2, <2>1, <2>2, <2>3
<1> HIDE DEF chunk, end
<1>5. closed = Body(closed)
    <2>1. \A n \in 0 .. frames : n # 0 => n \in 1 .. frames
        OBVIOUS
    <2>2. ASSUME NEW n \in 0 .. frames PROVE closed[n] = Body(closed)[n]
        <3>1. CASE n = 0
            BY <1>3, <3>1
        <3>2. CASE n # 0
            BY <1>4, <2>1, <3>2
        <3> QED
            BY <3>1, <3>2
    <2> HIDE DEF Held
    <2> QED
        BY <2>2
<1>6. loop = Body(loop)
    <2> HIDE DEF Body
    <2> QED
        BY <1>5
<1> HIDE DEF closed, loop
<1>7. loop[0] = closed[0]
    BY <1>3, <1>6
<1>8. ASSUME NEW n \in 1 .. frames, loop[n - chunk(n)] = closed[n - chunk(n)]
      PROVE  loop[n] = closed[n]
    <2>1. loop[n] = Storage!Fetch(data, end - n, chunk(n)) \o loop[n - chunk(n)]
        BY <1>6
    <2> QED
        BY <1>4, <1>8, <2>1
<1>9. D = {}
    <2>1. ASSUME NEW n \in D PROVE n - chunk(n) \in D /\ n - chunk(n) < n
        <3>1. n \in 1 .. frames
            BY <1>7
        <3> QED
            BY <1>2, <1>8, <3>1
    <2>2. D \subseteq Nat
        OBVIOUS
    <2> HIDE DEF D
    <2> QED
        BY <2>1, <2>2, Descent
<1>10. loop[frames] = closed[frames]
    BY <1>9
<1>11. closed[frames] = Held(data, end - frames, frames) /\ end - frames = frame
    BY DEF closed, end
<1> QED
    BY <1>1, <1>10, <1>11

-----------------------------------------------------------------------------
(* Ring::write() *)

\* How many frames after the one at place s the one at place p is
Offset(p, s) == IF p >= s THEN p - s ELSE (p - s) + Capacity

\* The storage d after the frames [f, f + n), at most one ring of them
Filled(d, f, n) ==
    [p \in Storage!Places |->
        LET k == Offset(p, Storage!Slot(f)) IN IF k < n THEN f + k ELSE d[p]]

\* Writing nothing changes nothing.
LEMMA FilledWithNone ==
    ASSUME NEW d \in Storage!Storages, NEW f \in Nat
    PROVE  Filled(d, f, 0) = d
<1>1. \A p \in Storage!Places : ~(Offset(p, Storage!Slot(f)) < 0)
    BY SlotPlace, SizesAssumption DEF Offset, Storage!Places
<1>2. d = [p \in Storage!Places |-> d[p]]
    BY DEF Storage!Storages
<1> QED
    BY <1>1, <1>2 DEF Filled

\* One iteration of write() stores the first frames of what is left.
LEMMA FilledChunk ==
    ASSUME NEW d \in Storage!Storages, NEW f \in Nat, NEW n \in 1 .. Capacity
    PROVE  LET chunk == Storage!Chunk(f, n)
           IN  /\ Storage!Store(d, f, chunk) \in Storage!Storages
               /\ Filled(d, f, n) = Filled(Storage!Store(d, f, chunk), f + chunk, n - chunk)
<1> DEFINE chunk == Storage!Chunk(f, n)
           E == Nat \cup {Garbage}
           s == Storage!Slot(f)
           t == Storage!Slot(f + chunk)
           e == Storage!Store(d, f, chunk)
<1>1. /\ Capacity \in Nat \ {0} /\ n \in Nat \ {0} /\ n <= Capacity
      /\ s \in 0 .. Capacity - 1
    BY SlotPlace, SizesAssumption
<1>2. chunk \in 1 .. n /\ s + chunk <= Capacity
    BY <1>1, ChunkFits
<1>3. t = IF s + chunk < Capacity THEN s + chunk ELSE (s + chunk) - Capacity
    <2>1. chunk \in 0 .. Capacity
        BY <1>1, <1>2
    <2> HIDE DEF chunk
    <2> QED
        BY <2>1, SlotAhead
<1> HIDE DEF chunk, s, t
<1>4. ASSUME NEW p \in Storage!Places
      PROVE  e[p] = IF Offset(p, s) < chunk THEN f + Offset(p, s) ELSE d[p]
    <2>1. p \in 0 .. Capacity - 1
        BY DEF Storage!Places
    <2>2. e[p] = IF p \in s .. (s + chunk - 1) THEN f + (p - s) ELSE d[p]
        BY DEF Storage!Store, s
    <2>3. p \in s .. (s + chunk - 1) <=> Offset(p, s) < chunk
        BY <1>1, <1>2, <2>1 DEF Offset
    <2>4. Offset(p, s) < chunk => Offset(p, s) = p - s
        BY <1>1, <1>2, <2>1 DEF Offset
    <2> QED
        BY <2>2, <2>3, <2>4
<1>5. ASSUME NEW p \in Storage!Places
      PROVE  Offset(p, s) \in Nat /\ d[p] \in E
    <2>1. p \in 0 .. Capacity - 1
        BY DEF Storage!Places
    <2> QED
        BY <1>1, <2>1 DEF Offset, Storage!Storages
<1>6. e \in Storage!Storages
    <2>1. \A p \in Storage!Places : e[p] \in E
        BY <1>4, <1>5
    <2>2. e = [p \in Storage!Places |-> e[p]]
        BY DEF Storage!Store
    <2> HIDE DEF e
    <2> QED
        BY <2>1, <2>2 DEF Storage!Storages
<1> HIDE DEF e
<1>7. ASSUME NEW p \in Storage!Places
      PROVE  (IF Offset(p, s) < n THEN f + Offset(p, s) ELSE d[p])
               = IF Offset(p, t) < n - chunk THEN (f + chunk) + Offset(p, t) ELSE e[p]
    <2>1. p \in 0 .. Capacity - 1
        BY DEF Storage!Places
    <2>2. CASE Offset(p, s) < chunk
        <3>1. ~(Offset(p, t) < n - chunk) /\ Offset(p, s) < n
            BY <1>1, <1>2, <1>3, <2>1, <2>2 DEF Offset
        <3> QED
            BY <1>4, <2>2, <3>1
    <2>3. CASE ~(Offset(p, s) < chunk)
        <3>1. Offset(p, t) = Offset(p, s) - chunk
            BY <1>1, <1>2, <1>3, <2>1, <2>3 DEF Offset
        <3>2. /\ Offset(p, t) < n - chunk <=> Offset(p, s) < n
              /\ (f + chunk) + Offset(p, t) = f + Offset(p, s)
            BY <1>1, <1>2, <1>5, <3>1
        <3> QED
            BY <1>4, <2>3, <3>2
    <2> QED
        BY <2>2, <2>3
<1>8. Filled(d, f, n) = Filled(e, f + chunk, n - chunk)
    BY <1>7 DEF Filled, s, t
<1> QED
    BY <1>6, <1>8 DEF chunk, e

\* Ring::write() of no more than one ring stores each frame at its place, and
\* leaves the other places alone.
LEMMA WriteIs ==
    ASSUME NEW data \in Storage!Storages, NEW frame \in Nat, NEW frames \in 0 .. Capacity
    PROVE  Storage!Write(data, frame, frames) = Filled(data, frame, frames)
<1> DEFINE end == frame + frames
           chunk(n) == Storage!Chunk(end - n, n)
           Body(w) == [n \in 0 .. frames |->
                         [d \in Storage!Storages |->
                            IF n = 0 THEN d
                            ELSE w[n - chunk(n)][Storage!Store(d, end - n, chunk(n))]]]
           closed == [n \in 0 .. frames |->
                        [d \in Storage!Storages |-> Filled(d, end - n, n)]]
           loop == CHOOSE w : w = Body(w)
           D == {n \in 0 .. frames : loop[n] # closed[n]}
<1>1. Storage!Write(data, frame, frames) = loop[frames][data]
    BY DEF Storage!Write
<1>2. ASSUME NEW n \in 1 .. frames
      PROVE  /\ end - n \in Nat /\ n \in 1 .. Capacity
             /\ n - chunk(n) \in 0 .. (n - 1) /\ n - chunk(n) \in 0 .. frames
             /\ (end - n) + chunk(n) = end - (n - chunk(n))
    <2>1. end - n \in Nat /\ n \in Nat \ {0} /\ n \in 1 .. Capacity
        BY SizesAssumption
    <2>2. chunk(n) \in 1 .. n
        BY <2>1, ChunkFits
    <2> HIDE DEF chunk
    <2> QED
        BY <2>1, <2>2
<1>3. closed[0] = [d \in Storage!Storages |-> d]
    <2>1. end - 0 \in Nat
        BY SizesAssumption
    <2>2. \A d \in Storage!Storages : Filled(d, end - 0, 0) = d
        BY <2>1, FilledWithNone
    <2>3. closed[0] = [d \in Storage!Storages |-> Filled(d, end - 0, 0)]
        BY SizesAssumption
    <2> QED
        BY <2>2, <2>3
<1>4. ASSUME NEW n \in 1 .. frames
      PROVE  closed[n] = [d \in Storage!Storages |->
                            closed[n - chunk(n)][Storage!Store(d, end - n, chunk(n))]]
    <2>1. ASSUME NEW d \in Storage!Storages
          PROVE  Filled(d, end - n, n)
                   = closed[n - chunk(n)][Storage!Store(d, end - n, chunk(n))]
        <3>1. /\ Storage!Store(d, end - n, chunk(n)) \in Storage!Storages
              /\ Filled(d, end - n, n) = Filled(Storage!Store(d, end - n, chunk(n)),
                                                (end - n) + chunk(n), n - chunk(n))
            BY <1>2, FilledChunk
        <3>2. closed[n - chunk(n)] = [x \in Storage!Storages |->
                                         Filled(x, end - (n - chunk(n)), n - chunk(n))]
            BY <1>2
        <3> HIDE DEF closed, chunk, end
        <3>3. closed[n - chunk(n)][Storage!Store(d, end - n, chunk(n))]
                = Filled(Storage!Store(d, end - n, chunk(n)),
                         end - (n - chunk(n)), n - chunk(n))
            BY <3>1, <3>2
        <3> QED
            BY <1>2, <3>1, <3>3
    <2>2. closed[n] = [d \in Storage!Storages |-> Filled(d, end - n, n)]
        OBVIOUS
    <2> HIDE DEF closed
    <2> QED
        BY <2>1, <2>2
<1> HIDE DEF chunk, end
<1>5. closed = Body(closed)
    <2>1. \A n \in 0 .. frames : n # 0 => n \in 1 .. frames
        OBVIOUS
    <2>2. closed = [n \in 0 .. frames |-> closed[n]]
        OBVIOUS
    <2> HIDE DEF closed
    <2>3. ASSUME NEW n \in 0 .. frames PROVE closed[n] = Body(closed)[n]
        <3>1. CASE n = 0
            BY <1>3, <3>1
        <3>2. CASE n # 0
            BY <1>4, <2>1, <3>2
        <3> QED
            BY <3>1, <3>2
    <2> QED
        BY <2>2, <2>3
<1>6. loop = Body(loop)
    <2> HIDE DEF Body
    <2> QED
        BY <1>5
<1> HIDE DEF closed, loop
<1>7. loop[0] = closed[0]
    <2>1. loop[0] = [d \in Storage!Storages |-> d]
        BY <1>6, SizesAssumption
    <2> QED
        BY <1>3, <2>1
<1>8. ASSUME NEW n \in 1 .. frames, loop[n - chunk(n)] = closed[n - chunk(n)]
      PROVE  loop[n] = closed[n]
    <2>1. n \in 0 .. frames /\ n # 0
        OBVIOUS
    <2>2. loop[n] = [d \in Storage!Storages |->
                       IF n = 0 THEN d
                       ELSE loop[n - chunk(n)][Storage!Store(d, end - n, chunk(n))]]
        BY <1>6, <2>1
    <2>3. loop[n] = [d \in Storage!Storages |->
                       loop[n - chunk(n)][Storage!Store(d, end - n, chunk(n))]]
        BY <2>1, <2>2
    <2> QED
        BY <1>4, <1>8, <2>3
<1>9. D = {}
    <2>1. ASSUME NEW n \in D PROVE n - chunk(n) \in D /\ n - chunk(n) < n
        <3>1. n \in 1 .. frames
            BY <1>7
        <3> QED
            BY <1>2, <1>8, <3>1
    <2>2. D \subseteq Nat
        OBVIOUS
    <2> HIDE DEF D
    <2> QED
        BY <2>1, <2>2, Descent
<1>10. loop[frames] = closed[frames]
    BY <1>9, SizesAssumption
<1>11. /\ closed[frames] = [d \in Storage!Storages |-> Filled(d, end - frames, frames)]
       /\ end - frames = frame
    BY SizesAssumption DEF closed, end
<1>12. closed[frames][data] = Filled(data, frame, frames)
    BY <1>11
<1> QED
    BY <1>1, <1>10, <1>12

\* What Filled stores is well-typed.
LEMMA FilledTyped ==
    ASSUME NEW d \in Storage!Storages, NEW f \in Nat, NEW n \in Nat
    PROVE  Filled(d, f, n) \in Storage!Storages
<1>1. ASSUME NEW p \in Storage!Places
      PROVE  Offset(p, Storage!Slot(f)) \in Nat /\ d[p] \in Nat \cup {Garbage}
    <2>1. p \in 0 .. Capacity - 1 /\ Capacity \in Nat
        BY SizesAssumption DEF Storage!Places
    <2>2. Offset(p, Storage!Slot(f)) \in Nat
        BY <2>1, SlotPlace DEF Offset
    <2> QED
        BY <2>2 DEF Storage!Storages
<1> DEFINE after(p) == IF Offset(p, Storage!Slot(f)) < n
                       THEN f + Offset(p, Storage!Slot(f)) ELSE d[p]
<1>2. \A p \in Storage!Places : after(p) \in Nat \cup {Garbage}
    BY <1>1
<1>3. Filled(d, f, n) = [p \in Storage!Places |-> after(p)]
    BY DEF Filled
<1> HIDE DEF after
<1> QED
    BY <1>2, <1>3 DEF Storage!Storages

\* The frames just written are at their places, and so are those of the ring
\* before them.
LEMMA FilledHolds ==
    ASSUME NEW d \in Storage!Storages, NEW w \in Nat, NEW n \in 1 .. Capacity,
           NEW f \in Nat, (w + n) - Capacity <= f, f < w + n,
           f < w => d[Storage!Slot(f)] = f
    PROVE  Filled(d, w, n)[Storage!Slot(f)] = f
<1> DEFINE s == Storage!Slot(w)
           p == Storage!Slot(f)
           j == IF f >= w THEN f - w ELSE (f - w) + Capacity
<1>1. Capacity \in Nat \ {0} /\ n \in Nat
    BY SizesAssumption
<1>2. s \in 0 .. Capacity - 1 /\ p \in 0 .. Capacity - 1
    BY SlotPlace
<1>3. j \in 0 .. Capacity /\ j < Capacity /\ (f >= w => j < n) /\ (f < w => j >= n)
    BY <1>1
<1>4. p = Storage!Slot(w + j)
    <2>1. CASE f >= w
        <3>1. w + j = f
            BY <2>1
        <3> QED
            BY <3>1
    <2>2. CASE f < w
        <3>1. w + j = f + Capacity
            BY <1>1, <2>2
        <3>2. Storage!Slot(f + Capacity) = IF p + Capacity < Capacity THEN p + Capacity
                                           ELSE (p + Capacity) - Capacity
            <4>1. Capacity \in 0 .. Capacity
                BY <1>1
            <4> QED
                BY <4>1, SlotAhead, Zenon
        <3> HIDE DEF p, j
        <3>3. Storage!Slot(f + Capacity) = p
            BY <1>1, <1>2, <3>2
        <3> QED
            BY <3>1, <3>3
    <2> QED
        BY <2>1, <2>2
<1>5. Storage!Slot(w + j) = IF s + j < Capacity THEN s + j ELSE (s + j) - Capacity
    <2> HIDE DEF j
    <2> QED
        BY <1>3, SlotAhead
<1>6. f >= w => w + j = f
    OBVIOUS
<1>7. (f < w) => d[p] = f
    OBVIOUS
<1> HIDE DEF s, p, j
<1>8. Offset(p, s) = j
    BY <1>1, <1>2, <1>3, <1>4, <1>5 DEF Offset
<1>9. p \in Storage!Places
    BY <1>2 DEF Storage!Places
<1>10. Filled(d, w, n)[p] = IF j < n THEN w + j ELSE d[p]
    BY <1>8, <1>9 DEF Filled, s
<1>11. Filled(d, w, n)[p] = f
    BY <1>1, <1>3, <1>6, <1>7, <1>10
<1> QED
    BY <1>11 DEF p

-----------------------------------------------------------------------------
(* The pipeline with its storage *)

\* A window that opens no wider
LEMMA StillWithin ==
    ASSUME NEW r \in Nat, NEW q \in Nat, NEW w \in Nat, NEW v \in Nat, NEW c \in Nat,
           r <= q, v <= w, w <= r + c
    PROVE  v <= q + c
BY SMT

\* read_ stays within one ring of the write position: enqueue() moves it on when
\* it would not.
LEMMA WithinRing ==
    ASSUME IInv, IInv', [Next]_vars, written <= read + Capacity
    PROVE  written' <= read' + Capacity
<1>1. /\ read \in Nat /\ written \in Nat /\ read' \in Nat /\ written' \in Nat
      /\ Capacity \in Nat
    BY SizesAssumption DEF IInv, TypeOK
<1>2. read <= read'
    BY <1>1, StepReadMonotone
<1>3. CASE written' > written
    <2>1. PICK n \in BufferSizes : WriteAudio(n)
        BY <1>3, OnlyAudioDelivers
    <2> DEFINE r == IF Reanchors /\ fade.kB > 0 THEN Greatest(read, fade.b) ELSE read
    <2>2. written' = written + n
        BY <2>1 DEF WriteAudio
    <2>3. read' = IF written + n > r + Capacity THEN (written + n) - Capacity ELSE r
        BY <2>1 DEF WriteAudio
    <2> HIDE DEF r
    <2>4. CASE written' > r + Capacity
        BY <1>1, <2>2, <2>3, <2>4
    <2>5. CASE ~(written' > r + Capacity)
        BY <1>1, <2>2, <2>3, <2>5
    <2> QED
        BY <2>4, <2>5
<1>4. CASE ~(written' > written)
    <2>1. written' <= written /\ written <= read + Capacity
        BY <1>1, <1>4
    <2> QED
        BY <1>1, <1>2, <2>1, StillWithin, Zenon
<1> QED
    BY <1>3, <1>4

LEMMA StorageInitInv == StorageInit => StorageInv
<1> SUFFICES ASSUME StorageInit PROVE StorageInv
    OBVIOUS
<1>1. IInv /\ written = 0 /\ read = 0 /\ slots = Storage!Blank
    BY InitIInv DEF StorageInit, Init
<1>2. slots \in Storage!Storages
    BY <1>1 DEF Storage!Blank, Storage!Storages
<1>3. 0 .. written - 1 = {} /\ written <= read + Capacity
    BY <1>1, SizesAssumption
<1> QED
    BY <1>1, <1>2, <1>3 DEF StorageInv

LEMMA StorageStepInv == StorageInv /\ [StorageNext]_<<vars, slots>> => StorageInv'
<1> SUFFICES ASSUME StorageInv, [StorageNext]_<<vars, slots>> PROVE StorageInv'
    OBVIOUS
<1>1. /\ IInv /\ slots \in Storage!Storages /\ written <= read + Capacity
      /\ \A f \in 0 .. written - 1 : written - Capacity <= f
                                        => slots[Storage!Slot(f)] = f
    BY DEF StorageInv
<1>2. [Next]_vars
    BY DEF StorageNext
<1>3. IInv'
    BY <1>1, <1>2, StepIInv
<1>4. written' <= read' + Capacity
    BY <1>1, <1>2, <1>3, WithinRing
<1>5. /\ written \in Nat /\ written' \in Nat /\ Capacity \in Nat \ {0}
    BY <1>1, <1>3, SizesAssumption DEF IInv, TypeOK
<1>6. CASE written' > written
    <2>1. PICK n \in BufferSizes : WriteAudio(n)
        BY <1>1, <1>2, <1>6, OnlyAudioDelivers
    <2>2. written' = written + n
        BY <2>1 DEF WriteAudio
    <2>3. n \in 1 .. Capacity /\ n \in 0 .. Capacity
        BY SizesAssumption
    <2>4. slots' = Storage!Write(slots, written, written' - written)
        BY <1>5, <1>6 DEF StorageNext, vars, deliveryVars
    <2>5. written' - written = n
        BY <1>5, <2>2, <2>3
    <2>6. slots' = Filled(slots, written, n)
        BY <1>1, <1>5, <2>3, <2>4, <2>5, WriteIs
    <2>7. slots' \in Storage!Storages
        <3>1. n \in Nat
            BY <2>3
        <3> QED
            BY <1>1, <1>5, <2>6, <3>1, FilledTyped
    <2>8. ASSUME NEW f \in 0 .. written' - 1, written' - Capacity <= f
          PROVE  slots'[Storage!Slot(f)] = f
        <3>1. f \in Nat /\ (written + n) - Capacity <= f /\ f < written + n
            BY <1>5, <2>2, <2>3, <2>8
        <3>2. f < written => f \in 0 .. written - 1 /\ written - Capacity <= f
            BY <1>5, <2>3, <3>1
        <3>3. f < written => slots[Storage!Slot(f)] = f
            BY <1>1, <3>2
        <3> QED
            BY <1>1, <1>5, <2>3, <2>6, <3>1, <3>3, FilledHolds
    <2> QED
        BY <1>3, <1>4, <2>7, <2>8 DEF StorageInv
<1>7. CASE ~(written' > written)
    <2>1. slots' = slots
        BY <1>7 DEF StorageNext
    <2>2. written' = written
        <3>1. ASSUME NEW n \in BufferSizes, WriteAudio(n) PROVE FALSE
            <4>1. written' = written + n /\ n \in Nat \ {0}
                BY <3>1, SizesAssumption DEF WriteAudio
            <4> QED
                BY <1>5, <1>7, <4>1
        <3> QED
            BY <1>2, <3>1
               DEF Next, Enqueue, DropPadding, Clear, SetPlayState, ForwardPlayState, AckLoop,
                   CallbackReturns, OnMetadata, SetCrossfadeMs, FillBegin, Fill, FillCancel,
                   FillOutgoing, FillIncoming, FillCopy, FillUnderrun, Undelivered, ClockTick,
                   vars, deliveryVars
    <2> QED
        BY <1>1, <1>3, <1>4, <2>1, <2>2 DEF StorageInv
<1> QED
    BY <1>6, <1>7

\* What is at read_ and after is within the ring.
LEMMA StorageReads == StorageInv => ReadsWhatWasWritten
<1> SUFFICES ASSUME StorageInv, NEW f \in read .. written - 1
             PROVE  LET n == Least(OutFrames, written - f)
                    IN  Storage!Read(slots, f, n) = [i \in 1 .. n |-> f + i - 1]
    BY DEF ReadsWhatWasWritten
<1> DEFINE n == Least(OutFrames, written - f)
<1>1. /\ read \in Nat /\ written \in Nat /\ Capacity \in Nat /\ OutFrames \in Nat
      /\ slots \in Storage!Storages /\ written <= read + Capacity
    BY SizesAssumption DEF StorageInv, IInv, TypeOK
<1>2. f \in Nat /\ n \in Nat /\ n <= written - f
    BY <1>1 DEF Least
<1> HIDE DEF n
<1>3. Storage!Read(slots, f, n) = [i \in 1 .. n |-> slots[Storage!Slot(f + (i - 1))]]
    BY <1>1, <1>2, ReadIs DEF Held
<1>4. ASSUME NEW i \in 1 .. n PROVE slots[Storage!Slot(f + (i - 1))] = f + i - 1
    <2>1. f + (i - 1) \in 0 .. written - 1 /\ written - Capacity <= f + (i - 1)
        BY <1>1, <1>2
    <2>2. slots[Storage!Slot(f + (i - 1))] = f + (i - 1)
        BY <2>1 DEF StorageInv
    <2> QED
        BY <2>2
<1> QED
    BY <1>3, <1>4 DEF n

\* The pipeline with its storage is RingPipeline's: what holds of that one
\* holds of this one.
THEOREM StorageKeepsPipeline == StorageSpec => Spec
<1>1. StorageInit => Init
    BY DEF StorageInit
<1>2. [StorageNext]_<<vars, slots>> => [Next]_vars
    BY DEF StorageNext
<1> QED
    BY <1>1, <1>2, PTL DEF StorageSpec, Spec

\* The storage always holds the last ring of what was delivered, at its place.
THEOREM StorageInvariance == StorageSpec => []StorageInv
BY StorageInitInv, StorageStepInv, PTL DEF StorageSpec

\* Whatever fill() reads, through any wraps and after an overflow, is what
\* enqueue() was given (ring.h:9-10, 34-55; ring_pipeline.cpp:246-253).
THEOREM ReadsBack == StorageSpec => []ReadsWhatWasWritten
BY StorageReads, StorageInvariance, PTL

\* The listener gets what Playout promises, out of the storage.
THEOREM StorageServesListener == StorageSpec => Implements
BY StorageKeepsPipeline, ListenerServed, PTL
=============================================================================
