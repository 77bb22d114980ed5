--------------------------- MODULE MemCursorProofs ---------------------------
(***************************************************************************)
(* Proofs about the merge of the address lists of all chunks, for every    *)
(* number of chunks, set of addresses, arity and way to cut the groups.    *)
(***************************************************************************)
EXTENDS MemCursor, SumsProofs, TLAPS

-----------------------------------------------------------------------------
(* The inductive invariant. *)

\* The groups G are consecutive runs of boxes, and leave none of the first n out.
Cover(G, n) ==
    /\ \A g \in 1 .. Len(G) : G[g].from <= G[g].to /\ G[g].to <= n
    /\ \A g, h \in 1 .. Len(G) : g < h => G[g].to < G[h].from
    /\ \A b \in 1 .. n : \E g \in 1 .. Len(G) : b \in G[g].from .. G[g].to

\* While the boxes are grouped, the groups cover those before start_index;
\* while the groups are merged, they cover all.
Grouping ==
    /\ pc = "group" => start <= looked + 1 /\ Cover(groups, start - 1)
    /\ pc = "merge" => Cover(groups, Len(boxes))

\* m is what the merge of the boxes f .. t of B has made when the cursors are C:
\* it is ordered, it holds exactly the pairs that a cursor has passed, and each
\* of them comes before every pair that is left.
MergedTo(m, B, C, f, t) ==
    /\ Ordered(m)
    /\ \A k \in 1 .. Len(m) : \E b \in f .. t : \E i \in 1 .. C[b] - 1 : m[k] = B[b][i]
    /\ \A b \in f .. t : \A i \in 1 .. C[b] - 1 : \E k \in 1 .. Len(m) : m[k] = B[b][i]
    /\ \A k \in 1 .. Len(m) : \A b \in f .. t : \A i \in C[b] .. Len(B[b]) :
            Precedes(m[k], B[b][i])

Merging ==
    pc = "merge" =>
        /\ Len(merged) = Len(groups) /\ Len(cursors) = Len(boxes)
        /\ \A b \in 1 .. Len(boxes) : cursors[b] <= Len(boxes[b]) + 1
        /\ \A g \in 1 .. Len(groups) :
                MergedTo(merged[g], boxes, cursors, groups[g].from, groups[g].to)

\* What get_next has returned is what the cursor has passed.
Reading ==
    /\ pc = "read" => Len(boxes) <= 1
    /\ pc # "read" => index = 1
    /\ Len(output) = index - 1
    /\ pc = "read" => index - 1 <= Len(SortedBoxes)
    /\ \A i \in 1 .. Len(output) : output[i] = SortedBoxes[i]

IInv == TypeOK /\ LevelInvariant /\ Grouping /\ Merging /\ Reading

-----------------------------------------------------------------------------
(* Sequences and pairs. *)

\* What a sequence holds.
LEMMA SeqElement ==
    ASSUME NEW S, NEW s \in Seq(S)
    PROVE  Len(s) \in Nat /\ DOMAIN s = 1 .. Len(s) /\ \A k \in 1 .. Len(s) : s[k] \in S
OBVIOUS

\* What Append does.
LEMMA SeqAppend ==
    ASSUME NEW S, NEW s \in Seq(S), NEW x \in S
    PROVE  /\ Append(s, x) \in Seq(S) /\ Len(Append(s, x)) = Len(s) + 1
           /\ Append(s, x)[Len(s) + 1] = x
           /\ \A k \in 1 .. Len(s) : Append(s, x)[k] = s[k]
OBVIOUS

\* The sequence without elements.
LEMMA EmptySeq ==
    ASSUME NEW S, NEW s \in Seq(S), Len(s) = 0
    PROVE  s = <<>>
OBVIOUS

\* A function on 1 .. n is a sequence.
LEMMA FunctionIsSeq ==
    ASSUME NEW S, NEW n \in Nat, NEW s \in [1 .. n -> S]
    PROVE  s \in Seq(S) /\ Len(s) = n
OBVIOUS

\* Replacing an element.
LEMMA SeqExcept ==
    ASSUME NEW S, NEW s \in Seq(S), NEW k \in 1 .. Len(s), NEW x \in S
    PROVE  /\ [s EXCEPT ![k] = x] \in Seq(S) /\ Len([s EXCEPT ![k] = x]) = Len(s)
           /\ [s EXCEPT ![k] = x][k] = x
           /\ \A j \in 1 .. Len(s) : j # k => [s EXCEPT ![k] = x][j] = s[j]
<1>1. Len(s) \in Nat /\ [s EXCEPT ![k] = x] \in [1 .. Len(s) -> S]
  OBVIOUS
<1> QED
  BY <1>1, FunctionIsSeq

\* Addresses and chunks are numbers.
LEMMA PairType ==
    ASSUME NEW p \in Pairs
    PROVE  p.addr \in Nat /\ p.chunk \in Nat
<1>1. NumChunks \in Nat /\ Addrs \subseteq Nat
  BY MemCursorAssumption
<1>2. p.addr \in Addrs /\ p.chunk \in 0 .. NumChunks - 1
  BY DEF Pairs, Chunks
<1>3. p.chunk \in Nat
  BY <1>1, <1>2
<1> QED
  BY <1>1, <1>2, <1>3

\* The boxes are sequences of pairs.
LEMMA BoxType ==
    ASSUME TypeOK
    PROVE  /\ Len(boxes) \in Nat
           /\ \A b \in 1 .. Len(boxes) : boxes[b] \in Seq(Pairs) /\ Len(boxes[b]) \in Nat
           /\ \A b \in 1 .. Len(boxes) : \A i \in 1 .. Len(boxes[b]) :
                boxes[b][i] \in Pairs /\ boxes[b][i].addr \in Nat /\ boxes[b][i].chunk \in Nat
<1>1. Len(boxes) \in Nat /\ \A b \in 1 .. Len(boxes) : boxes[b] \in Seq(Pairs)
  BY SeqElement DEF TypeOK
<1>2. ASSUME NEW b \in 1 .. Len(boxes)
      PROVE  Len(boxes[b]) \in Nat /\ \A i \in 1 .. Len(boxes[b]) : boxes[b][i] \in Pairs
  BY <1>1, SeqElement
<1> QED
  BY <1>1, <1>2, PairType

\* The groups and the cursors, when the groups are merged.
LEMMA GroupType ==
    ASSUME TypeOK
    PROVE  /\ Len(groups) \in Nat /\ Len(merged) \in Nat /\ Len(cursors) \in Nat
           /\ \A g \in 1 .. Len(groups) : groups[g].from \in Nat \ {0} /\ groups[g].to \in Nat \ {0}
           /\ \A b \in 1 .. Len(cursors) : cursors[b] \in Nat \ {0}
           /\ \A g \in 1 .. Len(merged) :
                /\ merged[g] \in Seq(Pairs) /\ Len(merged[g]) \in Nat
                /\ \A k \in 1 .. Len(merged[g]) : merged[g][k] \in Pairs
                        /\ merged[g][k].addr \in Nat /\ merged[g][k].chunk \in Nat
<1>1. /\ Len(groups) \in Nat /\ Len(merged) \in Nat /\ Len(cursors) \in Nat
      /\ \A g \in 1 .. Len(groups) : groups[g] \in [from : Nat \ {0}, to : Nat \ {0}]
      /\ \A b \in 1 .. Len(cursors) : cursors[b] \in Nat \ {0}
      /\ \A g \in 1 .. Len(merged) : merged[g] \in Seq(Pairs)
  <2>1. /\ groups \in Seq([from : Nat \ {0}, to : Nat \ {0}]) /\ cursors \in Seq(Nat \ {0})
        /\ merged \in Seq(Seq(Pairs))
    BY DEF TypeOK
  <2>2. Len(groups) \in Nat /\ \A g \in 1 .. Len(groups) : groups[g] \in [from : Nat \ {0}, to : Nat \ {0}]
    BY <2>1, SeqElement
  <2>3. Len(cursors) \in Nat /\ \A b \in 1 .. Len(cursors) : cursors[b] \in Nat \ {0}
    BY <2>1, SeqElement
  <2>4. Len(merged) \in Nat /\ \A g \in 1 .. Len(merged) : merged[g] \in Seq(Pairs)
    BY <2>1, SeqElement
  <2> QED
    BY <2>2, <2>3, <2>4
<1>2. ASSUME NEW g \in 1 .. Len(merged)
      PROVE  Len(merged[g]) \in Nat /\ \A k \in 1 .. Len(merged[g]) : merged[g][k] \in Pairs
  BY <1>1, SeqElement
<1> QED
  BY <1>1, <1>2, PairType

\* Precedes is transitive on pairs.
LEMMA PrecedesTransitive ==
    ASSUME NEW p \in Pairs, NEW q \in Pairs, NEW r \in Pairs, Precedes(p, q), Precedes(q, r)
    PROVE  Precedes(p, r)
BY PairType DEF Precedes

-----------------------------------------------------------------------------
(* The start. *)

\* The boxes of the chunks are ordered, follow each other and hold what is touched.
LEMMA InitIInv ==
    ASSUME Init
    PROVE  IInv
<1>0. /\ NumChunks \in Nat /\ pc = "group" /\ depth = 0 /\ looked = 0 /\ start = 1 /\ weight = 0
      /\ groups = <<>> /\ cursors = <<>> /\ merged = <<>> /\ index = 1 /\ output = <<>>
      /\ addrSorted \in [Chunks -> AddrLists]
      /\ boxes = [i \in 1 .. NumChunks |-> Prepare(i - 1, addrSorted[i - 1])]
  BY MemCursorAssumption DEF Init
<1>1. ASSUME NEW s \in AddrLists
      PROVE  /\ s \in Seq(Addrs) /\ Len(s) \in Nat
             /\ \A i, j \in 1 .. Len(s) : i < j => s[i] < s[j]
  <2>1. PICK n \in 0 .. Cardinality(Addrs) : s \in [1 .. n -> Addrs]
    BY DEF AddrLists
  <2>2. n \in Nat
    OBVIOUS
  <2>3. s \in Seq(Addrs) /\ Len(s) = n
    BY <2>1, <2>2, FunctionIsSeq
  <2> QED
    BY <2>1, <2>2, <2>3 DEF AddrLists
<1>2. ASSUME NEW b \in 1 .. NumChunks
      PROVE  /\ b - 1 \in Chunks /\ addrSorted[b - 1] \in AddrLists
             /\ boxes[b] = [i \in 1 .. Len(addrSorted[b - 1]) |->
                                [addr |-> addrSorted[b - 1][i], chunk |-> b - 1]]
             /\ boxes[b] \in Seq(Pairs) /\ Len(boxes[b]) = Len(addrSorted[b - 1])
             /\ \A i \in 1 .. Len(boxes[b]) :
                    boxes[b][i] = [addr |-> addrSorted[b - 1][i], chunk |-> b - 1]
  <2>1. b - 1 \in Chunks
    BY <1>0 DEF Chunks
  <2>2. addrSorted[b - 1] \in AddrLists
    BY <1>0, <2>1
  <2>3. boxes[b] = [i \in 1 .. Len(addrSorted[b - 1]) |->
                        [addr |-> addrSorted[b - 1][i], chunk |-> b - 1]]
    BY <1>0 DEF Prepare
  <2>4. addrSorted[b - 1] \in Seq(Addrs) /\ Len(addrSorted[b - 1]) \in Nat
    BY <1>1, <2>2
  <2>5. boxes[b] \in [1 .. Len(addrSorted[b - 1]) -> Pairs]
    BY <2>1, <2>3, <2>4 DEF Pairs
  <2>6. boxes[b] \in Seq(Pairs) /\ Len(boxes[b]) = Len(addrSorted[b - 1])
    BY <2>4, <2>5, FunctionIsSeq
  <2> QED
    BY <2>1, <2>2, <2>3, <2>6
<1>3. boxes \in Seq(Seq(Pairs)) /\ Len(boxes) = NumChunks
  <2>1. boxes \in [1 .. NumChunks -> Seq(Pairs)]
    BY <1>0, <1>2
  <2> QED
    BY <1>0, <2>1, FunctionIsSeq
<1>4. TypeOK
  BY <1>0, <1>3 DEF TypeOK
<1>5. LevelInvariant
  <2>1. ASSUME NEW b \in 1 .. Len(boxes)
        PROVE  Ordered(boxes[b])
    BY <1>1, <1>2, <1>3 DEF Ordered, Precedes
  <2>2. ASSUME NEW b \in 1 .. Len(boxes), NEW d \in 1 .. Len(boxes), b < d,
               NEW i \in 1 .. Len(boxes[b]), NEW j \in 1 .. Len(boxes[d])
        PROVE  boxes[b][i].chunk < boxes[d][j].chunk
    <3>1. b \in 1 .. NumChunks /\ d \in 1 .. NumChunks
      BY <1>3
    <3>2. boxes[b][i] = [addr |-> addrSorted[b - 1][i], chunk |-> b - 1]
      BY <1>2, <3>1
    <3>3. boxes[d][j] = [addr |-> addrSorted[d - 1][j], chunk |-> d - 1]
      BY <1>2, <3>1
    <3>4. b - 1 < d - 1
      BY <1>0, <2>2, <3>1
    <3> QED
      BY <3>2, <3>3, <3>4
  <2>3. ASSUME NEW p, NEW b \in 1 .. Len(boxes), p \in ToSet(boxes[b])
        PROVE  p \in Touched
    <3>1. b \in 1 .. NumChunks /\ DOMAIN boxes[b] = 1 .. Len(boxes[b])
      BY <1>2, <1>3, SeqElement
    <3>2. PICK i \in 1 .. Len(boxes[b]) : p = boxes[b][i]
      BY <2>3, <3>1 DEF ToSet
    <3>3. /\ p = [addr |-> addrSorted[b - 1][i], chunk |-> b - 1] /\ b - 1 \in Chunks
          /\ i \in 1 .. Len(addrSorted[b - 1])
      BY <1>2, <3>1, <3>2
    <3> QED
      BY <3>3 DEF Touched
  <2>4. ASSUME NEW p \in Touched
        PROVE  \E b \in 1 .. Len(boxes) : p \in ToSet(boxes[b])
    <3>0. PICK c \in Chunks :
                 p \in {[addr |-> addrSorted[c][i], chunk |-> c] : i \in 1 .. Len(addrSorted[c])}
      BY DEF Touched
    <3>1. PICK i \in 1 .. Len(addrSorted[c]) : p = [addr |-> addrSorted[c][i], chunk |-> c]
      BY <3>0
    <3>2. c + 1 \in 1 .. NumChunks /\ (c + 1) - 1 = c
      BY <1>0 DEF Chunks
    <3>3. p = boxes[c + 1][i] /\ i \in 1 .. Len(boxes[c + 1])
      BY <1>2, <3>1, <3>2
    <3>4. DOMAIN boxes[c + 1] = 1 .. Len(boxes[c + 1])
      BY <1>2, <3>2, SeqElement
    <3> QED
      BY <1>3, <3>2, <3>3, <3>4 DEF ToSet
  <2> QED
    BY <2>1, <2>2, <2>3, <2>4 DEF LevelInvariant
<1>6. Grouping /\ Merging /\ Reading
  BY <1>0, <1>3 DEF Grouping, Cover, Merging, Reading
<1> QED
  BY <1>4, <1>5, <1>6 DEF IInv

-----------------------------------------------------------------------------
(* The groups. *)

\* Steps that leave the boxes alone keep what the level promises.
LEMMA SameLevel ==
    ASSUME LevelInvariant, UNCHANGED <<addrSorted, boxes>>
    PROVE  LevelInvariant'
<1>1. Touched' = Touched
  BY DEF Touched
<1>2. (\A b \in 1 .. Len(boxes) : Ordered(boxes[b]))'
  BY DEF LevelInvariant, Ordered
<1>3. (\A b, d \in 1 .. Len(boxes) : b < d =>
            \A i \in 1 .. Len(boxes[b]), j \in 1 .. Len(boxes[d]) :
                boxes[b][i].chunk < boxes[d][j].chunk)'
  BY DEF LevelInvariant
<1>4. (UNION {ToSet(boxes[b]) : b \in 1 .. Len(boxes)} = Touched)'
  BY <1>1 DEF LevelInvariant
<1> QED
  BY <1>2, <1>3, <1>4 DEF LevelInvariant

Groups == Seq([from : Nat \ {0}, to : Nat \ {0}])

\* A new group that starts after the others and ends at m.
LEMMA CoverAppend ==
    ASSUME NEW G \in Groups, NEW n \in Nat, NEW m \in Nat, n < m, Cover(G, n)
    PROVE  /\ Append(G, [from |-> n + 1, to |-> m]) \in Groups
           /\ Cover(Append(G, [from |-> n + 1, to |-> m]), m)
<1> DEFINE new == [from |-> n + 1, to |-> m]
           H == Append(G, new)
<1>1. new \in [from : Nat \ {0}, to : Nat \ {0}] /\ new.from = n + 1 /\ new.to = m
  OBVIOUS
<1>2. /\ Len(G) \in Nat
      /\ \A g \in 1 .. Len(G) : G[g] \in [from : Nat \ {0}, to : Nat \ {0}]
  BY SeqElement DEF Groups
<1>3. \A g \in 1 .. Len(G) : G[g].from \in Nat /\ G[g].to \in Nat
  BY <1>2
<1> HIDE DEF new
<1>4. /\ H \in Groups /\ Len(H) = Len(G) + 1 /\ H[Len(G) + 1] = new
      /\ \A g \in 1 .. Len(G) : H[g] = G[g]
  BY <1>1, SeqAppend DEF Groups
<1> HIDE DEF H
<1>5. ASSUME NEW g \in 1 .. Len(H)
      PROVE  H[g].from <= H[g].to /\ H[g].to <= m
  <2>1. CASE g = Len(G) + 1
    BY <1>1, <1>4, <2>1
  <2>2. CASE g \in 1 .. Len(G)
    <3>1. G[g].from <= G[g].to /\ G[g].to <= n
      BY <2>2 DEF Cover
    <3> QED
      BY <1>3, <1>4, <2>2, <3>1
  <2> QED
    BY <1>2, <1>4, <2>1, <2>2
<1>6. ASSUME NEW g \in 1 .. Len(H), NEW h \in 1 .. Len(H), g < h
      PROVE  H[g].to < H[h].from
  <2>1. g \in 1 .. Len(G) /\ H[g] = G[g]
    BY <1>2, <1>4, <1>6
  <2>2. CASE h = Len(G) + 1
    <3>1. G[g].to <= n
      BY <2>1 DEF Cover
    <3> QED
      BY <1>1, <1>3, <1>4, <2>1, <2>2, <3>1
  <2>3. CASE h \in 1 .. Len(G)
    BY <1>4, <1>6, <2>1, <2>3 DEF Cover
  <2> QED
    BY <1>2, <1>4, <2>2, <2>3
<1>7. ASSUME NEW b \in 1 .. m
      PROVE  \E g \in 1 .. Len(H) : b \in H[g].from .. H[g].to
  <2>1. CASE b \in 1 .. n
    <3>1. PICK g \in 1 .. Len(G) : b \in G[g].from .. G[g].to
      BY <2>1 DEF Cover
    <3>2. g \in 1 .. Len(H) /\ H[g] = G[g]
      BY <1>2, <1>4
    <3> QED
      BY <3>1, <3>2
  <2>2. CASE b \in n + 1 .. m
    <3>1. Len(G) + 1 \in 1 .. Len(H)
      BY <1>2, <1>4
    <3> QED
      BY <1>1, <1>4, <2>2, <3>1
  <2> QED
    BY <2>1, <2>2
<1>8. H \in Groups /\ Cover(H, m)
  BY <1>4, <1>5, <1>6, <1>7 DEF Cover
<1> QED
  BY <1>8 DEF H, new

\* An iteration over the boxes keeps the groups consecutive.
LEMMA GroupBoxIInv ==
    ASSUME IInv, GroupBox
    PROVE  IInv'
<1>0. /\ pc = "group" /\ Len(boxes) > 1 /\ looked < Len(boxes) /\ looked' = looked + 1
      /\ UNCHANGED <<pc, addrSorted, boxes, depth, cursors, merged, index, output>>
      /\ \/ weight' = weight + Len(boxes[looked + 1]) /\ UNCHANGED <<start, groups>>
         \/ /\ groups' = Append(groups, [from |-> start, to |-> looked + 1])
            /\ weight' = 0 /\ start' = looked + 2
  BY DEF GroupBox
<1>1. /\ TypeOK /\ Len(boxes) \in Nat /\ looked \in Nat /\ start \in Nat \ {0} /\ weight \in Nat
      /\ looked + 1 \in 1 .. Len(boxes) /\ Len(boxes[looked + 1]) \in Nat
      /\ groups \in Groups
  BY <1>0, BoxType DEF IInv, TypeOK, Groups
<1>2. LevelInvariant'
  BY <1>0, SameLevel DEF IInv
<1>3. Merging' /\ Reading'
  BY <1>0 DEF IInv, Merging, Reading, SortedBoxes
<1>4. start <= looked + 1 /\ Cover(groups, start - 1)
  BY <1>0 DEF IInv, Grouping
<1>5. CASE UNCHANGED <<start, groups>> /\ weight' = weight + Len(boxes[looked + 1])
  <2>1. TypeOK'
    BY <1>0, <1>1, <1>5 DEF TypeOK
  <2>2. Cover(groups', start' - 1)
    BY <1>4, <1>5
  <2>3. start' <= looked' + 1 /\ pc' = "group"
    BY <1>0, <1>1, <1>4, <1>5
  <2>4. Grouping'
    BY <2>2, <2>3 DEF Grouping
  <2> QED
    BY <1>2, <1>3, <2>1, <2>4 DEF IInv
<1>6. CASE /\ groups' = Append(groups, [from |-> start, to |-> looked + 1])
           /\ weight' = 0 /\ start' = looked + 2
  <2>1. /\ start - 1 \in Nat /\ (start - 1) + 1 = start /\ start - 1 < looked + 1
        /\ looked + 1 \in Nat /\ start' - 1 = looked + 1 /\ start' \in Nat \ {0}
    BY <1>1, <1>4, <1>6
  <2>2. groups' \in Groups /\ Cover(groups', looked + 1)
    BY <1>1, <1>4, <1>6, <2>1, CoverAppend
  <2>3. TypeOK'
    BY <1>0, <1>1, <2>1, <1>6, <2>2 DEF TypeOK, Groups
  <2>4. start' <= looked' + 1 /\ pc' = "group" /\ Cover(groups', start' - 1)
    BY <1>0, <1>1, <1>6, <2>1, <2>2
  <2>5. Grouping'
    BY <2>4 DEF Grouping
  <2> QED
    BY <1>2, <1>3, <2>3, <2>5 DEF IInv
<1> QED
  BY <1>0, <1>5, <1>6

\* The end of the loop: the groups cover all boxes, and nothing is merged yet.
LEMMA GroupEndIInv ==
    ASSUME IInv, GroupEnd
    PROVE  IInv'
<1>0. /\ pc = "group" /\ looked = Len(boxes) /\ pc' = "merge" /\ groups' = LastGroup
      /\ cursors' = [b \in 1 .. Len(boxes) |-> 1]
      /\ merged' = [g \in 1 .. Len(LastGroup) |-> <<>>]
      /\ UNCHANGED <<addrSorted, boxes, depth, looked, start, weight, index, output>>
  BY DEF GroupEnd
<1>1. /\ TypeOK /\ Len(boxes) \in Nat /\ start \in Nat \ {0} /\ groups \in Groups
      /\ start <= Len(boxes) + 1 /\ Cover(groups, start - 1)
  BY <1>0, BoxType DEF IInv, TypeOK, Groups, Grouping
<1>2. groups' \in Groups /\ Cover(groups', Len(boxes))
  <2>1. CASE start <= Len(boxes)
    <3>1. start - 1 \in Nat /\ (start - 1) + 1 = start /\ start - 1 < Len(boxes)
      BY <1>1, <2>1
    <3>2. groups' = Append(groups, [from |-> start, to |-> Len(boxes)])
      BY <1>0, <2>1 DEF LastGroup
    <3> QED
      BY <1>1, <3>1, <3>2, CoverAppend
  <2>2. CASE ~(start <= Len(boxes))
    <3>1. start - 1 = Len(boxes) /\ groups' = groups
      BY <1>0, <1>1, <2>2 DEF LastGroup
    <3> QED
      BY <1>1, <3>1
  <2> QED
    BY <2>1, <2>2
<1>3. Len(groups') \in Nat
  BY <1>2, SeqElement DEF Groups
<1>4. /\ cursors' \in Seq(Nat \ {0}) /\ Len(cursors') = Len(boxes)
      /\ \A b \in 1 .. Len(boxes) : cursors'[b] = 1
  <2>1. cursors' \in [1 .. Len(boxes) -> Nat \ {0}]
    BY <1>0
  <2> QED
    BY <1>0, <1>1, <2>1, FunctionIsSeq
<1>5. /\ merged' \in Seq(Seq(Pairs)) /\ Len(merged') = Len(groups')
      /\ \A g \in 1 .. Len(groups') : merged'[g] = <<>>
  <2>1. merged' = [g \in 1 .. Len(groups') |-> <<>>]
    BY <1>0
  <2>2. merged' \in [1 .. Len(groups') -> Seq(Pairs)]
    BY <2>1
  <2> QED
    BY <1>3, <2>1, <2>2, FunctionIsSeq
<1>6. TypeOK'
  BY <1>0, <1>1, <1>2, <1>4, <1>5 DEF TypeOK, Groups
<1>7. LevelInvariant'
  BY <1>0, SameLevel DEF IInv
<1>8. Grouping'
  BY <1>0, <1>2 DEF Grouping
<1>9. Reading'
  BY <1>0 DEF IInv, Reading, SortedBoxes
<1>10. ASSUME NEW g \in 1 .. Len(groups')
       PROVE  MergedTo(merged'[g], boxes', cursors', groups'[g].from, groups'[g].to)
  <2>1. merged'[g] = <<>>
    BY <1>5
  <2>2. groups'[g] \in [from : Nat \ {0}, to : Nat \ {0}]
    BY <1>2, SeqElement DEF Groups
  <2>3. groups'[g].from \in Nat \ {0} /\ groups'[g].to \in Nat /\ groups'[g].to <= Len(boxes)
    BY <1>2, <2>2 DEF Cover
  <2>4. \A b \in groups'[g].from .. groups'[g].to : cursors'[b] = 1
    BY <1>1, <1>4, <2>3
  <2>5. \A b \in groups'[g].from .. groups'[g].to : 1 .. cursors'[b] - 1 = {}
    BY <2>4
  <2> QED
    BY <2>1, <2>5 DEF MergedTo, Ordered
<1>11. Merging'
  <2>1. \A b \in 1 .. Len(boxes) : cursors'[b] <= Len(boxes[b]) + 1
    BY <1>1, <1>4, BoxType
  <2> QED
    BY <1>0, <1>4, <1>5, <1>10, <2>1 DEF Merging
<1> QED
  BY <1>6, <1>7, <1>8, <1>9, <1>11 DEF IInv

-----------------------------------------------------------------------------
(* The merge of a group. *)

\* Cursors of other boxes do not matter to a group.
LEMMA MergedToSame ==
    ASSUME NEW m, NEW B, NEW C, NEW D, NEW f, NEW t, MergedTo(m, B, C, f, t),
           \A b \in f .. t : D[b] = C[b]
    PROVE  MergedTo(m, B, D, f, t)
<1>1. \A k \in 1 .. Len(m) : \E b \in f .. t : \E i \in 1 .. D[b] - 1 : m[k] = B[b][i]
  <2>1. ASSUME NEW k \in 1 .. Len(m)
        PROVE  \E b \in f .. t : \E i \in 1 .. D[b] - 1 : m[k] = B[b][i]
    <3>1. PICK b \in f .. t : \E i \in 1 .. C[b] - 1 : m[k] = B[b][i]
      BY DEF MergedTo
    <3> QED
      BY <3>1
  <2> QED
    BY <2>1
<1>2. \A b \in f .. t : \A i \in 1 .. D[b] - 1 : \E k \in 1 .. Len(m) : m[k] = B[b][i]
  BY DEF MergedTo
<1>3. \A k \in 1 .. Len(m) : \A b \in f .. t : \A i \in D[b] .. Len(B[b]) :
            Precedes(m[k], B[b][i])
  BY DEF MergedTo
<1> QED
  BY <1>1, <1>2, <1>3 DEF MergedTo

\* A group of one box is merged when the box is copied.
LEMMA MergedToClone ==
    ASSUME NEW B \in Seq(Seq(Pairs)), NEW C, NEW f \in 1 .. Len(B), Ordered(B[f]),
           C[f] = Len(B[f]) + 1
    PROVE  MergedTo(B[f], B, C, f, f)
<1>1. B[f] \in Seq(Pairs) /\ Len(B[f]) \in Nat
  BY SeqElement
<1>2. C[f] - 1 = Len(B[f]) /\ C[f] .. Len(B[f]) = {}
  BY <1>1
<1>3. f .. f = {f}
  OBVIOUS
<1> QED
  BY <1>1, <1>2, <1>3 DEF MergedTo

PairLists == Seq(Pairs)

BoxLists == Seq(Seq(Pairs))

CursorLists == Seq(Nat \ {0})

\* The boxes f .. t of B are ordered, and their chunks follow each other.
Follow(B, f, t) ==
    /\ \A b \in f .. t : Ordered(B[b])
    /\ \A b, d \in f .. t : b < d =>
            \A i \in 1 .. Len(B[b]), j \in 1 .. Len(B[d]) : B[b][i].chunk < B[d][j].chunk

\* Box a is the first of those whose next address is the least.
IsLeast(a, B, C, f, t) ==
    \A d \in f .. t : C[d] <= Len(B[d]) =>
        \/ B[a][C[a]].addr < B[d][C[d]].addr
        \/ B[a][C[a]].addr = B[d][C[d]].addr /\ a <= d

\* The next pair of box a comes before all others that are left.
ComesNext(a, B, C, f, t) ==
    \A d \in f .. t : \A i \in C[d] .. Len(B[d]) :
        (d = a => i # C[a]) => Precedes(B[a][C[a]], B[d][i])

\* The cursors D are C with the one of box a moved on.
MovedOn(a, C, D, f, t) == D[a] = C[a] + 1 /\ \A b \in f .. t : b # a => D[b] = C[b]

\* The pair of the first box with the least next address comes before every
\* other pair that is left in the group.
LEMMA MinIsNext ==
    ASSUME NEW B \in BoxLists, NEW C \in CursorLists, NEW f \in Nat \ {0}, NEW t \in Nat,
           t <= Len(B), Len(C) = Len(B), Follow(B, f, t),
           NEW a \in f .. t, C[a] <= Len(B[a]), IsLeast(a, B, C, f, t)
    PROVE  ComesNext(a, B, C, f, t)
<1> SUFFICES ASSUME NEW d \in f .. t, NEW i \in C[d] .. Len(B[d]), d = a => i # C[a]
             PROVE  Precedes(B[a][C[a]], B[d][i])
  BY DEF ComesNext
<1>1. /\ Len(B) \in Nat /\ a \in 1 .. Len(B) /\ d \in 1 .. Len(B)
      /\ a \in Nat /\ d \in Nat
  BY SeqElement DEF BoxLists
<1>2. /\ B[a] \in Seq(Pairs) /\ B[d] \in Seq(Pairs) /\ C[a] \in Nat \ {0} /\ C[d] \in Nat \ {0}
  BY <1>1, SeqElement DEF BoxLists, CursorLists
<1>3. Len(B[a]) \in Nat /\ Len(B[d]) \in Nat
  BY <1>2, SeqElement
<1>4. /\ C[a] \in 1 .. Len(B[a]) /\ i \in 1 .. Len(B[d]) /\ C[d] \in 1 .. Len(B[d])
      /\ C[d] <= i /\ C[d] <= Len(B[d])
  BY <1>2, <1>3
<1>5. /\ B[a][C[a]] \in Pairs /\ B[d][i] \in Pairs /\ B[d][C[d]] \in Pairs
  BY <1>2, <1>4, SeqElement
<1>6. /\ B[a][C[a]].addr \in Nat /\ B[d][i].addr \in Nat /\ B[d][C[d]].addr \in Nat
      /\ B[a][C[a]].chunk \in Nat /\ B[d][i].chunk \in Nat
  BY <1>5, PairType
<1>7. CASE d = a
  <2>1. C[a] < i
    BY <1>2, <1>3, <1>4, <1>7
  <2> QED
    BY <1>4, <1>7, <2>1 DEF Ordered, Follow
<1>8. CASE d # a
  <2>1. \/ B[a][C[a]].addr < B[d][C[d]].addr
        \/ B[a][C[a]].addr = B[d][C[d]].addr /\ a < d
    <3>1. \/ B[a][C[a]].addr < B[d][C[d]].addr
          \/ B[a][C[a]].addr = B[d][C[d]].addr /\ a <= d
      BY <1>4 DEF IsLeast
    <3> QED
      BY <1>1, <1>8, <3>1
  <2>2. B[d][C[d]].addr <= B[d][i].addr
    <3>1. CASE C[d] = i
      BY <1>6, <3>1
    <3>2. CASE C[d] < i
      <4>1. Precedes(B[d][C[d]], B[d][i])
        BY <1>4, <3>2 DEF Ordered, Follow
      <4> QED
        BY <1>6, <4>1 DEF Precedes
    <3> QED
      BY <1>2, <1>4, <3>1, <3>2
  <2>3. a < d => B[a][C[a]].chunk < B[d][i].chunk
    BY <1>4 DEF Follow
  <2>4. \/ B[a][C[a]].addr < B[d][i].addr
        \/ B[a][C[a]].addr = B[d][i].addr /\ B[a][C[a]].chunk < B[d][i].chunk
    BY <1>6, <2>1, <2>2, <2>3
  <2> QED
    BY <2>4 DEF Precedes
<1> QED
  BY <1>7, <1>8

\* Taking that pair keeps what is merged ordered and before the rest.
LEMMA MergedToTake ==
    ASSUME NEW m \in PairLists, NEW B \in BoxLists, NEW C \in CursorLists,
           NEW f \in Nat \ {0}, NEW t \in Nat, t <= Len(B), Len(C) = Len(B),
           MergedTo(m, B, C, f, t),
           NEW a \in f .. t, C[a] <= Len(B[a]),
           ComesNext(a, B, C, f, t), NEW D, MovedOn(a, C, D, f, t)
    PROVE  MergedTo(Append(m, B[a][C[a]]), B, D, f, t)
<1> DEFINE e == B[a][C[a]]
           n == Append(m, e)
<1>1. /\ Len(B) \in Nat /\ a \in 1 .. Len(B)
  BY SeqElement DEF BoxLists
<1>2. B[a] \in Seq(Pairs) /\ C[a] \in Nat \ {0} /\ Len(m) \in Nat
  BY <1>1, SeqElement DEF BoxLists, CursorLists, PairLists
<1>3. Len(B[a]) \in Nat /\ C[a] \in 1 .. Len(B[a]) /\ e \in Pairs
  BY <1>2, SeqElement
<1>4. \A b \in f .. t : C[b] \in Nat \ {0} /\ Len(B[b]) \in Nat
  <2>1. ASSUME NEW b \in f .. t
        PROVE  C[b] \in Nat \ {0} /\ Len(B[b]) \in Nat
    <3>1. b \in 1 .. Len(B)
      BY <1>1
    <3>2. C[b] \in Nat \ {0} /\ B[b] \in Seq(Pairs)
      BY <3>1, SeqElement DEF BoxLists, CursorLists
    <3> QED
      BY <3>2, SeqElement
  <2> QED
    BY <2>1
<1> HIDE DEF e
<1>5. /\ Len(n) = Len(m) + 1 /\ n[Len(m) + 1] = e
      /\ \A k \in 1 .. Len(m) : n[k] = m[k]
  BY <1>3, SeqAppend DEF PairLists
<1> HIDE DEF n
<1>6. \A k \in 1 .. Len(m) : Precedes(m[k], e)
  <2>1. C[a] \in C[a] .. Len(B[a])
    BY <1>2, <1>3
  <2> QED
    BY <2>1 DEF MergedTo, e
<1>7. Ordered(n)
  <2>1. ASSUME NEW k \in 1 .. Len(n), NEW l \in 1 .. Len(n), k < l
        PROVE  Precedes(n[k], n[l])
    <3>1. k \in 1 .. Len(m) /\ n[k] = m[k]
      BY <1>2, <1>5, <2>1
    <3>2. CASE l = Len(m) + 1
      BY <1>5, <1>6, <3>1, <3>2
    <3>3. CASE l \in 1 .. Len(m)
      BY <1>5, <2>1, <3>1, <3>3 DEF MergedTo, Ordered
    <3> QED
      BY <1>2, <1>5, <3>2, <3>3
  <2> QED
    BY <2>1 DEF Ordered
<1>8. ASSUME NEW k \in 1 .. Len(n)
      PROVE  \E b \in f .. t : \E i \in 1 .. D[b] - 1 : n[k] = B[b][i]
  <2>1. CASE k = Len(m) + 1
    <3>1. C[a] \in 1 .. D[a] - 1
      BY <1>2 DEF MovedOn
    <3> QED
      BY <1>5, <2>1, <3>1 DEF e
  <2>2. CASE k \in 1 .. Len(m)
    <3>0. PICK b \in f .. t : \E i \in 1 .. C[b] - 1 : m[k] = B[b][i]
      BY <2>2 DEF MergedTo
    <3>1. PICK i \in 1 .. C[b] - 1 : m[k] = B[b][i]
      BY <3>0
    <3>2. i \in 1 .. D[b] - 1
      <4>1. CASE b = a
        BY <1>2, <3>1, <4>1 DEF MovedOn
      <4>2. CASE b # a
        BY <3>1, <4>2 DEF MovedOn
      <4> QED
        BY <4>1, <4>2
    <3> QED
      BY <1>5, <2>2, <3>1, <3>2
  <2> QED
    BY <1>2, <1>5, <2>1, <2>2
<1>9. ASSUME NEW b \in f .. t, NEW i \in 1 .. D[b] - 1
      PROVE  \E k \in 1 .. Len(n) : n[k] = B[b][i]
  <2>1. CASE b = a /\ i = C[a]
    <3>1. Len(m) + 1 \in 1 .. Len(n)
      BY <1>2, <1>5
    <3> QED
      BY <1>5, <2>1, <3>1 DEF e
  <2>2. CASE ~(b = a /\ i = C[a])
    <3>1. i \in 1 .. C[b] - 1
      <4>1. CASE b = a
        BY <1>2, <2>2, <4>1 DEF MovedOn
      <4>2. CASE b # a
        BY <4>2 DEF MovedOn
      <4> QED
        BY <4>1, <4>2
    <3>2. PICK k \in 1 .. Len(m) : m[k] = B[b][i]
      BY <3>1 DEF MergedTo
    <3>3. k \in 1 .. Len(n) /\ n[k] = m[k]
      BY <1>2, <1>5
    <3> QED
      BY <3>2, <3>3
  <2> QED
    BY <2>1, <2>2
<1>10. ASSUME NEW k \in 1 .. Len(n), NEW b \in f .. t, NEW i \in D[b] .. Len(B[b])
       PROVE  Precedes(n[k], B[b][i])
  <2>1. i \in C[b] .. Len(B[b]) /\ (b = a => i # C[a])
    <3>1. CASE b = a
      BY <1>2, <1>3, <3>1 DEF MovedOn
    <3>2. CASE b # a
      BY <3>2 DEF MovedOn
    <3> QED
      BY <3>1, <3>2
  <2>2. CASE k = Len(m) + 1
    BY <1>5, <2>1, <2>2 DEF e, ComesNext
  <2>3. CASE k \in 1 .. Len(m)
    BY <1>5, <2>1, <2>3 DEF MergedTo
  <2> QED
    BY <1>2, <1>5, <2>2, <2>3
<1>11. MergedTo(n, B, D, f, t)
  BY <1>7, <1>8, <1>9, <1>10 DEF MergedTo
<1> QED
  BY <1>11 DEF n, e

\* A step of the merge of group g, whichever pairs it takes: it is enough that
\* group g stays well merged.
LEMMA MergeStep ==
    ASSUME IInv, pc = "merge", NEW g \in 1 .. Len(groups), NEW m \in PairLists,
           NEW b \in groups[g].from .. groups[g].to, NEW c \in Nat \ {0}, c <= Len(boxes[b]) + 1,
           merged' = [merged EXCEPT ![g] = m], cursors' = [cursors EXCEPT ![b] = c],
           UNCHANGED <<pc, addrSorted, boxes, depth, looked, start, weight, groups, index, output>>,
           MergedTo(m, boxes, cursors', groups[g].from, groups[g].to)
    PROVE  IInv'
<1>1. /\ TypeOK /\ Merging /\ Cover(groups, Len(boxes))
      /\ Len(merged) = Len(groups) /\ Len(cursors) = Len(boxes)
      /\ \A h \in 1 .. Len(groups) :
            MergedTo(merged[h], boxes, cursors, groups[h].from, groups[h].to)
      /\ \A d \in 1 .. Len(boxes) : cursors[d] <= Len(boxes[d]) + 1
  BY DEF IInv, Merging, Grouping
<1>2. /\ Len(boxes) \in Nat /\ Len(groups) \in Nat
      /\ \A h \in 1 .. Len(groups) : groups[h].from \in Nat \ {0} /\ groups[h].to \in Nat
  BY <1>1, BoxType, GroupType
<1>3. \A h \in 1 .. Len(groups) : groups[h].from <= groups[h].to /\ groups[h].to <= Len(boxes)
  BY <1>1 DEF Cover
<1>4. b \in 1 .. Len(boxes)
  BY <1>2, <1>3
<1>5. merged \in Seq(Seq(Pairs)) /\ cursors \in Seq(Nat \ {0})
  BY <1>1 DEF TypeOK
<1>6. /\ merged' \in Seq(Seq(Pairs)) /\ Len(merged') = Len(groups) /\ merged'[g] = m
      /\ \A h \in 1 .. Len(groups) : h # g => merged'[h] = merged[h]
  BY <1>1, <1>5, SeqExcept DEF PairLists
<1>7. /\ cursors' \in Seq(Nat \ {0}) /\ Len(cursors') = Len(boxes) /\ cursors'[b] = c
      /\ \A d \in 1 .. Len(boxes) : d # b => cursors'[d] = cursors[d]
  BY <1>1, <1>4, <1>5, SeqExcept
<1>8. TypeOK'
  BY <1>1, <1>6, <1>7 DEF TypeOK
<1>9. LevelInvariant'
  BY SameLevel DEF IInv
<1>10. Grouping'
  BY <1>1 DEF Grouping
<1>11. Reading'
  BY DEF IInv, Reading, SortedBoxes
<1>12. ASSUME NEW h \in 1 .. Len(groups)
       PROVE  MergedTo(merged'[h], boxes, cursors', groups[h].from, groups[h].to)
  <2>1. CASE h = g
    BY <1>6, <2>1
  <2>2. CASE h # g
    <3>1. h < g => groups[h].to < groups[g].from
      BY <1>1 DEF Cover
    <3>2. g < h => groups[g].to < groups[h].from
      BY <1>1 DEF Cover
    <3>3. h < g \/ g < h
      BY <1>2, <2>2
    <3>4. ASSUME NEW d \in groups[h].from .. groups[h].to
          PROVE  d \in 1 .. Len(boxes) /\ d # b
      BY <1>2, <1>3, <3>1, <3>2, <3>3
    <3>5. \A d \in groups[h].from .. groups[h].to : cursors'[d] = cursors[d]
      BY <1>7, <3>4
    <3>6. MergedTo(merged[h], boxes, cursors', groups[h].from, groups[h].to)
      BY <1>1, <3>5, MergedToSame
    <3> QED
      BY <1>6, <2>2, <3>6
  <2> QED
    BY <2>1, <2>2
<1>13. \A d \in 1 .. Len(boxes) : cursors'[d] <= Len(boxes[d]) + 1
  BY <1>1, <1>7
<1>14. Merging'
  BY <1>6, <1>7, <1>12, <1>13 DEF Merging
<1> QED
  BY <1>8, <1>9, <1>10, <1>11, <1>14 DEF IInv

\* A step of merge_k_sorted_boxes.
LEMMA MergeKIInv ==
    ASSUME IInv, NEW g, MergeK(g)
    PROVE  IInv'
<1>0. /\ pc = "merge" /\ g \in 1 .. Len(groups) /\ Open(g) # {}
      /\ UNCHANGED <<pc, addrSorted, boxes, depth, looked, start, weight, groups, index, output>>
      /\ \/ /\ groups[g].from = groups[g].to
            /\ merged' = [merged EXCEPT ![g] = boxes[groups[g].from]]
            /\ cursors' = [cursors EXCEPT ![groups[g].from] = Len(boxes[groups[g].from]) + 1]
         \/ \E b \in Open(g) :
                /\ IsMinIndex(b, Open(g))
                /\ merged' = [merged EXCEPT ![g] = Append(merged[g], boxes[b][cursors[b]])]
                /\ cursors' = [cursors EXCEPT ![b] = cursors[b] + 1]
  BY DEF MergeK
<1> DEFINE f == groups[g].from
           t == groups[g].to
<1>1. /\ TypeOK /\ Cover(groups, Len(boxes)) /\ LevelInvariant
      /\ Len(merged) = Len(groups) /\ Len(cursors) = Len(boxes)
      /\ MergedTo(merged[g], boxes, cursors, f, t)
      /\ boxes \in BoxLists /\ cursors \in CursorLists
  BY <1>0 DEF IInv, Merging, Grouping, TypeOK, BoxLists, CursorLists
<1>2. /\ Len(boxes) \in Nat /\ f \in Nat \ {0} /\ t \in Nat /\ merged[g] \in PairLists
      /\ \A b \in 1 .. Len(boxes) : boxes[b] \in PairLists /\ Len(boxes[b]) \in Nat
      /\ \A b \in 1 .. Len(boxes) : cursors[b] \in Nat \ {0}
  BY <1>0, <1>1, BoxType, GroupType DEF PairLists
<1>3. f <= t /\ t <= Len(boxes)
  BY <1>0, <1>1 DEF Cover
<1>4. \A b \in f .. t : b \in 1 .. Len(boxes)
  BY <1>2, <1>3
<1>5. CASE /\ f = t /\ merged' = [merged EXCEPT ![g] = boxes[f]]
           /\ cursors' = [cursors EXCEPT ![f] = Len(boxes[f]) + 1]
  <2>1. f \in 1 .. Len(boxes) /\ f \in f .. t /\ Len(boxes[f]) \in Nat /\ boxes[f] \in PairLists
    BY <1>2, <1>3
  <2>2. cursors'[f] = Len(boxes[f]) + 1
    BY <1>1, <1>5, <2>1, SeqExcept DEF CursorLists
  <2>3. Ordered(boxes[f])
    BY <1>1, <2>1 DEF LevelInvariant
  <2>4. MergedTo(boxes[f], boxes, cursors', f, t)
    BY <1>1, <1>5, <2>1, <2>2, <2>3, MergedToClone DEF BoxLists
  <2>5. Len(boxes[f]) + 1 \in Nat \ {0} /\ Len(boxes[f]) + 1 <= Len(boxes[f]) + 1
    BY <2>1
  <2> QED
    BY <1>0, <1>5, <2>1, <2>4, <2>5, MergeStep
<1>6. CASE \E b \in Open(g) :
                /\ IsMinIndex(b, Open(g))
                /\ merged' = [merged EXCEPT ![g] = Append(merged[g], boxes[b][cursors[b]])]
                /\ cursors' = [cursors EXCEPT ![b] = cursors[b] + 1]
  <2>1. PICK b \in Open(g) :
                /\ IsMinIndex(b, Open(g))
                /\ merged' = [merged EXCEPT ![g] = Append(merged[g], boxes[b][cursors[b]])]
                /\ cursors' = [cursors EXCEPT ![b] = cursors[b] + 1]
    BY <1>6
  <2>2. b \in f .. t /\ cursors[b] <= Len(boxes[b])
    BY DEF Open
  <2>3. b \in 1 .. Len(boxes) /\ cursors[b] \in Nat \ {0} /\ Len(boxes[b]) \in Nat
    BY <1>2, <1>4, <2>2
  <2>4. Follow(boxes, f, t)
    <3>1. \A d \in f .. t : Ordered(boxes[d])
      BY <1>1, <1>4 DEF LevelInvariant
    <3>2. \A d, e \in f .. t : d < e =>
            \A i \in 1 .. Len(boxes[d]), j \in 1 .. Len(boxes[e]) :
                boxes[d][i].chunk < boxes[e][j].chunk
      BY <1>1, <1>4 DEF LevelInvariant
    <3> QED
      BY <3>1, <3>2 DEF Follow
  <2>5. IsLeast(b, boxes, cursors, f, t)
    BY <2>1 DEF IsLeast, IsMinIndex, NextAddr, Open
  <2>6. ComesNext(b, boxes, cursors, f, t)
    BY <1>1, <1>2, <1>3, <2>2, <2>4, <2>5, MinIsNext
  <2>7. MovedOn(b, cursors, cursors', f, t)
    <3>1. cursors[b] + 1 \in Nat \ {0}
      BY <2>3
    <3>2. cursors'[b] = cursors[b] + 1 /\ \A d \in 1 .. Len(boxes) : d # b => cursors'[d] = cursors[d]
      BY <1>1, <2>1, <2>3, <3>1, SeqExcept DEF CursorLists
    <3> QED
      BY <1>4, <3>2 DEF MovedOn
  <2>8. MergedTo(Append(merged[g], boxes[b][cursors[b]]), boxes, cursors', f, t)
    BY <1>1, <1>2, <1>3, <2>2, <2>6, <2>7, MergedToTake
  <2>9. Append(merged[g], boxes[b][cursors[b]]) \in PairLists
    <3>1. cursors[b] \in 1 .. Len(boxes[b])
      BY <2>2, <2>3
    <3>2. boxes[b][cursors[b]] \in Pairs
      BY <1>1, <2>3, <3>1, BoxType
    <3> QED
      BY <1>2, <3>2, SeqAppend DEF PairLists
  <2>10. cursors[b] + 1 \in Nat \ {0} /\ cursors[b] + 1 <= Len(boxes[b]) + 1
    BY <2>2, <2>3
  <2> QED
    BY <1>0, <2>1, <2>2, <2>8, <2>9, <2>10, MergeStep
<1> QED
  BY <1>0, <1>5, <1>6

-----------------------------------------------------------------------------
(* The next level. *)

\* When no box is open, every group is merged in full: the merged groups hold
\* the pairs of the boxes, ordered, with chunks that follow each other.
LEMMA MergedLevel ==
    ASSUME IInv, pc = "merge", \A g \in 1 .. Len(groups) : Open(g) = {},
           boxes' = merged, addrSorted' = addrSorted
    PROVE  LevelInvariant'
<1>1. /\ TypeOK /\ LevelInvariant /\ Cover(groups, Len(boxes)) /\ Len(merged) = Len(groups)
      /\ \A g \in 1 .. Len(groups) :
            MergedTo(merged[g], boxes, cursors, groups[g].from, groups[g].to)
      /\ \A b \in 1 .. Len(boxes) : cursors[b] <= Len(boxes[b]) + 1
      /\ Len(cursors) = Len(boxes)
  BY DEF IInv, Merging, Grouping
<1>2. /\ Len(boxes) \in Nat /\ Len(groups) \in Nat
      /\ \A h \in 1 .. Len(groups) : groups[h].from \in Nat \ {0} /\ groups[h].to \in Nat
      /\ \A b \in 1 .. Len(boxes) : cursors[b] \in Nat \ {0} /\ Len(boxes[b]) \in Nat
                                        /\ boxes[b] \in Seq(Pairs)
      /\ \A g \in 1 .. Len(groups) : merged[g] \in Seq(Pairs)
  BY <1>1, BoxType, GroupType
<1>3. ASSUME NEW g \in 1 .. Len(groups), NEW b \in groups[g].from .. groups[g].to
      PROVE  b \in 1 .. Len(boxes) /\ cursors[b] - 1 = Len(boxes[b])
  <2>1. groups[g].to <= Len(boxes)
    BY <1>1 DEF Cover
  <2>2. b \in 1 .. Len(boxes)
    BY <1>2, <2>1
  <2>3. ~(cursors[b] <= Len(boxes[b]))
    BY DEF Open
  <2> QED
    BY <1>1, <1>2, <2>2, <2>3
<1>4. ASSUME NEW g \in 1 .. Len(groups), NEW k \in 1 .. Len(merged[g])
      PROVE  \E b \in groups[g].from .. groups[g].to : \E i \in 1 .. Len(boxes[b]) :
                merged[g][k] = boxes[b][i]
  <2>1. PICK b \in groups[g].from .. groups[g].to :
                \E i \in 1 .. cursors[b] - 1 : merged[g][k] = boxes[b][i]
    BY <1>1 DEF MergedTo
  <2> QED
    BY <1>3, <2>1
<1>5. ASSUME NEW g \in 1 .. Len(groups), NEW b \in groups[g].from .. groups[g].to,
             NEW i \in 1 .. Len(boxes[b])
      PROVE  \E k \in 1 .. Len(merged[g]) : merged[g][k] = boxes[b][i]
  <2>1. i \in 1 .. cursors[b] - 1
    BY <1>3
  <2> QED
    BY <1>1, <2>1 DEF MergedTo
<1>6. ASSUME NEW g \in 1 .. Len(merged)
      PROVE  Ordered(merged[g])
  BY <1>1 DEF MergedTo
<1>7. ASSUME NEW g \in 1 .. Len(merged), NEW h \in 1 .. Len(merged), g < h,
             NEW k \in 1 .. Len(merged[g]), NEW l \in 1 .. Len(merged[h])
      PROVE  merged[g][k].chunk < merged[h][l].chunk
  <2>1. PICK b \in groups[g].from .. groups[g].to :
                \E i \in 1 .. Len(boxes[b]) : merged[g][k] = boxes[b][i]
    BY <1>1, <1>4
  <2>2. PICK d \in groups[h].from .. groups[h].to :
                \E j \in 1 .. Len(boxes[d]) : merged[h][l] = boxes[d][j]
    BY <1>1, <1>4
  <2>3. groups[g].to < groups[h].from
    BY <1>1, <1>7 DEF Cover
  <2>4. b < d
    BY <1>1, <1>2, <2>3
  <2>5. b \in 1 .. Len(boxes) /\ d \in 1 .. Len(boxes)
    BY <1>1, <1>3
  <2>6. \A i \in 1 .. Len(boxes[b]), j \in 1 .. Len(boxes[d]) : boxes[b][i].chunk < boxes[d][j].chunk
    BY <1>1, <2>4, <2>5 DEF LevelInvariant
  <2> QED
    BY <2>1, <2>2, <2>6
<1>8. \A b \in 1 .. Len(boxes) : ToSet(boxes[b]) = {boxes[b][i] : i \in 1 .. Len(boxes[b])}
  BY <1>2, SeqElement DEF ToSet
<1>9. \A g \in 1 .. Len(merged) : ToSet(merged[g]) = {merged[g][k] : k \in 1 .. Len(merged[g])}
  BY <1>1, <1>2, SeqElement DEF ToSet
<1>10. UNION {ToSet(merged[g]) : g \in 1 .. Len(merged)} = Touched
  <2>1. UNION {ToSet(boxes[b]) : b \in 1 .. Len(boxes)} = Touched
    BY <1>1 DEF LevelInvariant
  <2>2. ASSUME NEW p, NEW g \in 1 .. Len(merged), p \in ToSet(merged[g])
        PROVE  p \in Touched
    <3>1. PICK k \in 1 .. Len(merged[g]) : p = merged[g][k]
      BY <1>9, <2>2
    <3>2. PICK b \in groups[g].from .. groups[g].to :
                \E i \in 1 .. Len(boxes[b]) : p = boxes[b][i]
      BY <1>1, <1>4, <3>1
    <3>3. b \in 1 .. Len(boxes)
      BY <1>1, <1>3
    <3>4. p \in ToSet(boxes[b])
      BY <1>8, <3>2, <3>3
    <3> QED
      BY <2>1, <3>3, <3>4
  <2>3. ASSUME NEW p \in Touched
        PROVE  \E g \in 1 .. Len(merged) : p \in ToSet(merged[g])
    <3>1. PICK b \in 1 .. Len(boxes) : p \in ToSet(boxes[b])
      BY <2>1
    <3>2. PICK i \in 1 .. Len(boxes[b]) : p = boxes[b][i]
      BY <1>8, <3>1
    <3>3. PICK g \in 1 .. Len(groups) : b \in groups[g].from .. groups[g].to
      BY <1>1 DEF Cover
    <3>4. PICK k \in 1 .. Len(merged[g]) : merged[g][k] = p
      BY <1>5, <3>2, <3>3
    <3> QED
      BY <1>1, <1>9, <3>4
  <2> QED
    BY <2>2, <2>3
<1>11. Touched' = Touched
  BY DEF Touched
<1> QED
  BY <1>6, <1>7, <1>10, <1>11 DEF LevelInvariant

\* merge_sorted_boxes calls itself on the merged groups.
LEMMA NextLevelIInv ==
    ASSUME IInv, NextLevel
    PROVE  IInv'
<1>0. /\ pc = "merge" /\ (\A g \in 1 .. Len(groups) : Open(g) = {}) /\ pc' = "group"
      /\ boxes' = merged /\ depth' = depth + 1
      /\ looked' = 0 /\ start' = 1 /\ weight' = 0 /\ groups' = <<>>
      /\ cursors' = <<>> /\ merged' = <<>> /\ UNCHANGED <<addrSorted, index, output>>
  BY DEF NextLevel
<1>1. LevelInvariant'
  BY <1>0, MergedLevel
<1>2. merged \in Seq(Seq(Pairs)) /\ Len(merged) \in Nat /\ depth \in Nat /\ TypeOK
  BY SeqElement DEF IInv, TypeOK
<1>3. TypeOK'
  BY <1>0, <1>2 DEF TypeOK
<1>4. Grouping'
  BY <1>0 DEF Grouping, Cover
<1>5. Merging'
  BY <1>0 DEF Merging
<1>6. Reading'
  BY <1>0 DEF IInv, Reading
<1> QED
  BY <1>1, <1>3, <1>4, <1>5, <1>6 DEF IInv

-----------------------------------------------------------------------------
(* The cursor. *)

\* The end of the recursion leaves at most one box to read.
LEMMA MergeEndIInv ==
    ASSUME IInv, MergeEnd
    PROVE  IInv'
<1>0. /\ pc = "group" /\ Len(boxes) <= 1 /\ pc' = "read" /\ depth' = 0 /\ index' = 1
      /\ UNCHANGED <<addrSorted, boxes, looked, start, weight, groups, cursors, merged, output>>
  BY DEF MergeEnd
<1>1. TypeOK'
  BY <1>0 DEF IInv, TypeOK
<1>2. LevelInvariant'
  BY <1>0, SameLevel DEF IInv
<1>3. Grouping' /\ Merging'
  BY <1>0 DEF Grouping, Merging
<1>4. Len(output) = 0
  BY <1>0 DEF IInv, Reading
<1>5. SortedBoxes' \in Seq(Pairs)
  <2>1. boxes \in Seq(Seq(Pairs)) /\ Len(boxes) \in Nat
    BY SeqElement DEF IInv, TypeOK
  <2>2. CASE boxes = <<>>
    BY <1>0, <2>2 DEF SortedBoxes
  <2>3. CASE boxes # <<>>
    <3>1. 1 \in 1 .. Len(boxes)
      BY <2>1, <2>3
    <3>2. boxes[1] \in Seq(Pairs)
      BY <2>1, <3>1, SeqElement
    <3> QED
      BY <1>0, <2>3, <3>2 DEF SortedBoxes
  <2> QED
    BY <2>2, <2>3
<1>6. Len(SortedBoxes') \in Nat
  BY <1>5, SeqElement
<1>7. Reading'
  BY <1>0, <1>4, <1>6 DEF Reading
<1> QED
  BY <1>1, <1>2, <1>3, <1>7 DEF IInv

\* get_next returns the pair that the cursor is at.
LEMMA GetNextIInv ==
    ASSUME IInv, GetNext
    PROVE  IInv'
<1>0. /\ pc = "read" /\ ~(index > Len(SortedBoxes))
      /\ output' = Append(output, SortedBoxes[index]) /\ index' = index + 1
      /\ UNCHANGED <<pc, addrSorted, boxes, depth, looked, start, weight, groups, cursors, merged>>
  BY DEF GetNext, AtEnd
<1>1. /\ TypeOK /\ boxes \in Seq(Seq(Pairs)) /\ Len(boxes) \in Nat
      /\ output \in Seq(Pairs) /\ Len(output) \in Nat /\ index \in Nat \ {0}
      /\ Len(output) = index - 1 /\ \A i \in 1 .. Len(output) : output[i] = SortedBoxes[i]
      /\ Len(boxes) <= 1
  BY <1>0, SeqElement DEF IInv, TypeOK, Reading
<1>2. SortedBoxes \in Seq(Pairs)
  <2>1. CASE boxes = <<>>
    BY <2>1 DEF SortedBoxes
  <2>2. CASE boxes # <<>>
    <3>1. 1 \in 1 .. Len(boxes)
      BY <1>1, <2>2
    <3>2. boxes[1] \in Seq(Pairs)
      BY <1>1, <3>1, SeqElement
    <3> QED
      BY <2>2, <3>2 DEF SortedBoxes
  <2> QED
    BY <2>1, <2>2
<1>3. Len(SortedBoxes) \in Nat
  BY <1>2, SeqElement
<1>4. index \in 1 .. Len(SortedBoxes) /\ index = Len(output) + 1
  BY <1>0, <1>1, <1>3
<1>5. SortedBoxes[index] \in Pairs
  BY <1>2, <1>4, SeqElement
<1>6. /\ output' \in Seq(Pairs) /\ Len(output') = Len(output) + 1
      /\ output'[Len(output) + 1] = SortedBoxes[index]
      /\ \A i \in 1 .. Len(output) : output'[i] = output[i]
  BY <1>0, <1>1, <1>5, SeqAppend
<1>7. TypeOK'
  BY <1>0, <1>1, <1>6 DEF TypeOK
<1>8. LevelInvariant'
  BY <1>0, SameLevel DEF IInv
<1>9. Grouping' /\ Merging'
  BY <1>0 DEF Grouping, Merging
<1>10. SortedBoxes' = SortedBoxes
  BY <1>0 DEF SortedBoxes
<1>11. ASSUME NEW i \in 1 .. Len(output')
       PROVE  output'[i] = SortedBoxes[i]
  <2>1. CASE i = Len(output) + 1
    BY <1>4, <1>6, <2>1
  <2>2. CASE i \in 1 .. Len(output)
    BY <1>1, <1>6, <2>2
  <2> QED
    BY <1>1, <1>6, <2>1, <2>2
<1>12. /\ pc' = "read" /\ Len(boxes') <= 1 /\ Len(output') = index' - 1
       /\ index' - 1 <= Len(SortedBoxes')
  BY <1>0, <1>1, <1>3, <1>4, <1>6, <1>10
<1>13. Reading'
  BY <1>10, <1>11, <1>12 DEF Reading
<1> QED
  BY <1>7, <1>8, <1>9, <1>13 DEF IInv

-----------------------------------------------------------------------------
(* The theorems. *)

\* Every step keeps the inductive invariant.
LEMMA NextIInv ==
    ASSUME IInv, [Next]_vars
    PROVE  IInv'
<1>1. CASE UNCHANGED vars
  <2>0. UNCHANGED <<pc, addrSorted, boxes, depth, looked, start, weight, groups, cursors, merged,
                    index, output>>
    BY <1>1 DEF vars
  <2>1. TypeOK'
    BY <2>0 DEF IInv, TypeOK
  <2>2. LevelInvariant'
    BY <2>0, SameLevel DEF IInv
  <2>3. Grouping'
    BY <2>0 DEF IInv, Grouping
  <2>4. Merging'
    BY <2>0 DEF IInv, Merging
  <2>5. Reading'
    BY <2>0 DEF IInv, Reading, SortedBoxes
  <2> QED
    BY <2>1, <2>2, <2>3, <2>4, <2>5 DEF IInv
<1>2. CASE Finished
  <2>1. UNCHANGED vars
    BY <1>2 DEF Finished
  <2> QED
    BY <1>1, <2>1
<1>3. ASSUME NEW g \in 1 .. NumChunks, MergeK(g)
      PROVE  IInv'
  BY <1>3, MergeKIInv
<1> QED
  BY <1>1, <1>2, <1>3, GroupBoxIInv, GroupEndIInv, NextLevelIInv, MergeEndIInv, GetNextIInv DEF Next

\* The inductive invariant holds in every reachable state.
THEOREM Invariance == Spec => []IInv
<1>1. Init => IInv
  BY InitIInv
<1>2. IInv /\ [Next]_vars => IInv'
  BY NextIInv
<1> QED
  BY <1>1, <1>2, PTL DEF Spec

\* Every variable of the merge keeps its type: in particular no cursor and no
\* group leaves the boxes it indexes.
THEOREM TypeCorrect == Spec => []TypeOK
<1>1. IInv => TypeOK
  BY DEF IInv
<1> QED
  BY <1>1, Invariance, PTL

\* At every level of merge_sorted_boxes, for every arity and every way to cut
\* the groups, the boxes are ordered by address and chunk, their chunks follow
\* each other, and they hold every pair of the execution.
THEOREM LevelsOrdered == Spec => []LevelInvariant
<1>1. IInv => LevelInvariant
  BY DEF IInv
<1> QED
  BY <1>1, Invariance, PTL

\* What the cursor has returned is the ordered list of the pairs, and at its end
\* all of them.
LEMMA CursorReads ==
    ASSUME IInv
    PROVE  ReadInOrder
<1> SUFFICES ASSUME pc = "read"
             PROVE  Ordered(output) /\ (AtEnd => ToSet(output) = Touched)
  BY DEF ReadInOrder
<1>1. /\ boxes \in Seq(Seq(Pairs)) /\ Len(boxes) \in Nat /\ Len(boxes) <= 1
      /\ output \in Seq(Pairs) /\ Len(output) \in Nat /\ index \in Nat \ {0}
      /\ Len(output) = index - 1 /\ index - 1 <= Len(SortedBoxes)
      /\ \A i \in 1 .. Len(output) : output[i] = SortedBoxes[i]
      /\ LevelInvariant
  BY SeqElement DEF IInv, TypeOK, Reading
<1>2. CASE boxes = <<>>
  <2>1. SortedBoxes = <<>> /\ Len(boxes) = 0
    BY <1>2 DEF SortedBoxes
  <2>2. Len(output) = 0
    BY <1>1, <2>1
  <2>3. Touched = {}
    <3>1. UNION {ToSet(boxes[b]) : b \in 1 .. Len(boxes)} = Touched
      BY <1>1 DEF LevelInvariant
    <3>2. 1 .. Len(boxes) = {}
      BY <2>1
    <3> QED
      BY <3>1, <3>2
  <2>4. ToSet(output) = {}
    <3>1. DOMAIN output = {}
      BY <1>1, <2>2, SeqElement
    <3> QED
      BY <3>1 DEF ToSet
  <2> QED
    BY <2>2, <2>3, <2>4 DEF Ordered
<1>3. CASE boxes # <<>>
  <2>0. boxes \in Seq(Seq(Pairs)) /\ Len(boxes) \in Nat /\ Len(boxes) <= 1
    BY <1>1
  <2>1. Len(boxes) = 1 /\ SortedBoxes = boxes[1]
    <3>1. Len(boxes) # 0
      BY <1>3, <2>0, EmptySeq
    <3>2. Len(boxes) \in Nat /\ Len(boxes) <= 1
      BY <2>0
    <3>3. \A n \in Nat : n <= 1 /\ n # 0 => n = 1
      OBVIOUS
    <3>4. Len(boxes) = 1
      BY <3>1, <3>2, <3>3, Zenon
    <3> QED
      BY <1>3, <3>4 DEF SortedBoxes
  <2>2. boxes[1] \in Seq(Pairs) /\ 1 .. Len(boxes) = {1}
    <3>1. 1 \in 1 .. Len(boxes) /\ 1 .. Len(boxes) = {1}
      BY <2>1
    <3> QED
      BY <2>0, <3>1, SeqElement
  <2>3. Len(boxes[1]) \in Nat
    BY <2>2, SeqElement
  <2>4. Ordered(boxes[1])
    BY <1>1, <2>1 DEF LevelInvariant
  <2>5. Touched = ToSet(boxes[1])
    <3>1. UNION {ToSet(boxes[b]) : b \in 1 .. Len(boxes)} = Touched
      BY <1>1 DEF LevelInvariant
    <3> QED
      BY <2>2, <3>1
  <2>6. Ordered(output)
    <3>1. \A i \in 1 .. Len(output) : i \in 1 .. Len(boxes[1]) /\ output[i] = boxes[1][i]
      BY <1>1, <2>1, <2>3
    <3> QED
      BY <2>4, <3>1 DEF Ordered
  <2>7. ASSUME AtEnd
        PROVE  ToSet(output) = Touched
    <3>1. Len(output) = Len(boxes[1])
      BY <1>1, <2>1, <2>3, <2>7 DEF AtEnd
    <3>2. DOMAIN output = 1 .. Len(boxes[1]) /\ DOMAIN boxes[1] = 1 .. Len(boxes[1])
      BY <1>1, <2>2, <3>1, SeqElement
    <3>3. ToSet(output) = ToSet(boxes[1])
      BY <1>1, <2>1, <3>1, <3>2 DEF ToSet
    <3> QED
      BY <2>5, <3>3
  <2> QED
    BY <2>6, <2>7
<1> QED
  BY <1>2, <1>3

\* MemCountersCursor gives the planner every (address, chunk) pair exactly once,
\* by address and then by chunk.
THEOREM CursorInOrder == Spec => []ReadInOrder
<1>1. IInv => ReadInOrder
  BY CursorReads
<1> QED
  BY <1>1, Invariance, PTL

-----------------------------------------------------------------------------
(* The recursion ends.  A level has as many pairs as the one before in fewer *)
(* boxes, so the average box gets no smaller; a group that is closed weighs  *)
(* more than Arity average boxes, so there are not many of them.             *)

\* The sizes of the boxes bs.
Sizes(bs) == [b \in 1 .. Len(bs) |-> Len(bs[b])]

\* The pairs that the cursors cs have passed, box by box.
Passed(cs) == [b \in 1 .. Len(cs) |-> cs[b] - 1]

\* No pair is lost or made between levels and while the groups are merged; a
\* group of one box is merged in one step.
PairsKept ==
    /\ TotalSize(boxes) >= MinTotal
    /\ pc = "merge" =>
        /\ TotalSize(merged) = SumTo(Passed(cursors), Len(cursors))
        /\ \A g \in 1 .. Len(groups) :
                groups[g].from = groups[g].to /\ cursors[groups[g].from] <= Len(boxes[groups[g].from])
                    => cursors[groups[g].from] = 1 /\ Len(merged[g]) = 0

\* Every closed group weighs more than the target, and the boxes looked at are in
\* the closed groups and in the open one.
GroupsHeavy ==
    pc = "group" /\ Len(boxes) > 1 =>
        Len(groups) * (TargetSize(boxes) + 1) + weight <= SumTo(Sizes(boxes), looked)

\* There are fewer groups than boxes, and fewer boxes on every level.
Shrinking ==
    /\ pc = "merge" => Len(groups) < Len(boxes)
    /\ pc # "read" => Len(boxes) + depth <= NumChunks
    /\ pc = "read" => depth = 0

SInv == PairsKept /\ GroupsHeavy /\ Shrinking

\* Every execution has at least as many pairs as chunks, and the arity is not
\* tiny: what merge_sorted_boxes needs to end.
EnoughPairs == Arity >= 4 /\ MinTotal >= NumChunks

-----------------------------------------------------------------------------

\* Sizes of boxes are terms of a sum.
LEMMA SizesTerms ==
    ASSUME NEW bs \in Seq(Seq(Pairs))
    PROVE  /\ Len(bs) \in Nat /\ Terms(Sizes(bs), Len(bs))
           /\ TotalSize(bs) = SumTo(Sizes(bs), Len(bs)) /\ TotalSize(bs) \in Nat
           /\ \A b \in 1 .. Len(bs) : Sizes(bs)[b] = Len(bs[b]) /\ Len(bs[b]) \in Nat
<1>1. Len(bs) \in Nat /\ \A b \in 1 .. Len(bs) : bs[b] \in Seq(Pairs)
  BY SeqElement
<1>2. \A b \in 1 .. Len(bs) : Len(bs[b]) \in Nat
  BY <1>1, SeqElement
<1>3. \A b \in 1 .. Len(bs) : Sizes(bs)[b] = Len(bs[b])
  BY DEF Sizes
<1>4. Terms(Sizes(bs), Len(bs))
  BY <1>2, <1>3 DEF Terms
<1>5. TotalSize(bs) = SumTo(Sizes(bs), Len(bs))
  BY DEF TotalSize, Sizes
<1> QED
  BY <1>1, <1>2, <1>3, <1>4, <1>5, SumToStep

\* Pairs that cursors have passed are terms of a sum.
LEMMA PassedTerms ==
    ASSUME NEW cs \in Seq(Nat \ {0})
    PROVE  /\ Len(cs) \in Nat /\ Terms(Passed(cs), Len(cs))
           /\ \A b \in 1 .. Len(cs) : Passed(cs)[b] = cs[b] - 1 /\ cs[b] \in Nat \ {0}
<1>1. Len(cs) \in Nat /\ \A b \in 1 .. Len(cs) : cs[b] \in Nat \ {0}
  BY SeqElement
<1>2. \A b \in 1 .. Len(cs) : Passed(cs)[b] = cs[b] - 1
  BY DEF Passed
<1>3. Terms(Passed(cs), Len(cs))
  BY <1>1, <1>2 DEF Terms
<1> QED
  BY <1>1, <1>2, <1>3

\* The target size is a natural number, and with enough pairs it is at least four
\* times an average box of at least one pair.
LEMMA TargetType ==
    ASSUME NEW bs \in Seq(Seq(Pairs)), Len(bs) > 0
    PROVE  /\ TargetSize(bs) \in Nat /\ TotalSize(bs) \div Len(bs) \in Nat
           /\ TargetSize(bs) = Arity * (TotalSize(bs) \div Len(bs))
           /\ TotalSize(bs) < Len(bs) * (TotalSize(bs) \div Len(bs)) + Len(bs)
           /\ TotalSize(bs) >= Len(bs) => TotalSize(bs) \div Len(bs) >= 1
<1> DEFINE n == Len(bs)
           t == TotalSize(bs)
           q == t \div n
<1>1. n \in Nat \ {0} /\ t \in Nat /\ Arity \in Nat
  BY SizesTerms, MemCursorAssumption
<1>2. TargetSize(bs) = Arity * q
  BY DEF TargetSize
<1> HIDE DEF n, t
<1>3. q \in Nat /\ t < n * q + n /\ n * q <= t
  BY <1>1
<1> HIDE DEF q
<1>4. Arity * q \in Nat
  BY <1>1, <1>3
<1>5. t >= n => q >= 1
  <2> SUFFICES ASSUME t >= n, q = 0 PROVE FALSE
    BY <1>3
  <2>1. n * q = 0
    BY <1>1
  <2> QED
    BY <1>1, <1>3, <2>1
<1> QED
  BY <1>2, <1>3, <1>4, <1>5 DEF n, t, q

\* The arithmetic of a level: c closed groups of more than Arity * q pairs each,
\* among fewer than n * (q + 1), leave no room for a group per box.
LEMMA FewGroups ==
    ASSUME NEW n \in Nat, n > 1, NEW q \in Nat, q >= 1, NEW a \in Nat, a >= 4, NEW c \in Nat,
           c * (a * q + 1) < n * q + n
    PROVE  c + 1 < n
<1> SUFFICES ASSUME n <= c + 1 PROVE FALSE
  OBVIOUS
<1>1. n <= 2 * c /\ c >= 1
  OBVIOUS
<1>2. c * q \in Nat /\ n * q \in Nat /\ a * q \in Nat
  OBVIOUS
<1>3. n * q <= 2 * (c * q)
  <2>1. 2 * c - n \in Nat /\ (2 * c - n) * q \in Nat
    BY <1>1
  <2>2. (2 * c - n) * q = 2 * (c * q) - n * q
    OBVIOUS
  <2> QED
    BY <1>2, <2>1, <2>2
<1>4. c <= c * q
  <2>1. (q - 1) * c \in Nat /\ (q - 1) * c = c * q - c
    OBVIOUS
  <2> QED
    BY <1>2, <2>1
<1>5. 4 * (c * q) <= c * (a * q)
  <2>1. a - 4 \in Nat /\ (a - 4) * (c * q) \in Nat
    BY <1>2
  <2>2. (a - 4) * (c * q) = c * (a * q) - 4 * (c * q)
    OBVIOUS
  <2>3. c * (a * q) \in Nat
    BY <1>2
  <2> QED
    BY <1>2, <2>1, <2>2, <2>3
<1>6. c * (a * q + 1) = c * (a * q) + c /\ c * (a * q) \in Nat
  BY <1>2
<1> QED
  BY <1>1, <1>2, <1>3, <1>4, <1>5, <1>6

\* When a level starts nothing is grouped.
LEMMA LevelStart ==
    ASSUME NEW bs \in Seq(Seq(Pairs)), Len(bs) > 1
    PROVE  Len(<<>>) * (TargetSize(bs) + 1) + 0 <= SumTo(Sizes(bs), 0)
<1>1. Len(bs) \in Nat /\ Terms(Sizes(bs), Len(bs))
  BY SizesTerms
<1>2. SumTo(Sizes(bs), 0) = 0
  BY <1>1, SumToStep
<1>3. TargetSize(bs) \in Nat
  BY <1>1, TargetType
<1> QED
  BY <1>2, <1>3

\* At the start every chunk has a box, and there are pairs enough.
LEMMA InitSInv ==
    ASSUME Init
    PROVE  SInv
<1>1. /\ pc = "group" /\ depth = 0 /\ looked = 0 /\ weight = 0 /\ groups = <<>>
      /\ TotalSize(boxes) >= MinTotal
      /\ boxes = [i \in 1 .. NumChunks |-> Prepare(i - 1, addrSorted[i - 1])]
  BY DEF Init
<1>2. NumChunks \in Nat /\ boxes \in Seq(Seq(Pairs))
  BY InitIInv, MemCursorAssumption DEF IInv, TypeOK
<1>3. Len(boxes) = NumChunks
  BY <1>1, <1>2
<1>4. Shrinking
  BY <1>1, <1>2, <1>3 DEF Shrinking
<1>5. PairsKept
  BY <1>1 DEF PairsKept
<1>6. GroupsHeavy
  BY <1>1, <1>2, LevelStart DEF GroupsHeavy
<1> QED
  BY <1>4, <1>5, <1>6 DEF SInv

\* A box joins the open group, or closes it because the group has become heavier
\* than the target.
LEMMA GroupBoxSInv ==
    ASSUME IInv, SInv, GroupBox
    PROVE  SInv'
<1> DEFINE heavier == weight + Len(boxes[looked + 1])
           target == TargetSize(boxes)
           n == Len(groups)
<1>0. /\ pc = "group" /\ Len(boxes) > 1 /\ looked < Len(boxes) /\ looked' = looked + 1
      /\ UNCHANGED <<pc, addrSorted, boxes, depth, cursors, merged, index, output>>
      /\ IF heavier <= target
         THEN weight' = heavier /\ UNCHANGED <<start, groups>>
         ELSE /\ groups' = Append(groups, [from |-> start, to |-> looked + 1])
              /\ weight' = 0
  BY DEF GroupBox
<1>1. /\ boxes \in Seq(Seq(Pairs)) /\ Len(boxes) \in Nat /\ looked \in Nat /\ weight \in Nat
      /\ start \in Nat \ {0} /\ groups \in Groups /\ looked + 1 \in 1 .. Len(boxes)
  BY <1>0, SizesTerms DEF IInv, TypeOK, Groups
<1>2. n \in Nat /\ target \in Nat /\ Len(boxes[looked + 1]) \in Nat
  BY <1>0, <1>1, SeqElement, SizesTerms, TargetType DEF Groups
<1>3. /\ SumTo(Sizes(boxes), looked + 1) = SumTo(Sizes(boxes), looked) + Len(boxes[looked + 1])
      /\ SumTo(Sizes(boxes), looked) \in Nat
  <2>1. Terms(Sizes(boxes), Len(boxes)) /\ Sizes(boxes)[looked + 1] = Len(boxes[looked + 1])
    BY <1>1, SizesTerms
  <2>2. Terms(Sizes(boxes), looked + 1) /\ Terms(Sizes(boxes), looked)
    BY <1>1, <2>1 DEF Terms
  <2>3. looked + 1 \in Nat /\ looked + 1 > 0 /\ (looked + 1) - 1 = looked
    BY <1>1
  <2> QED
    BY <1>1, <2>1, <2>2, <2>3, SumToStep
<1>4. n * (target + 1) + weight <= SumTo(Sizes(boxes), looked)
  BY <1>0 DEF SInv, GroupsHeavy
<1>5. n * (target + 1) \in Nat /\ (n + 1) * (target + 1) = n * (target + 1) + (target + 1)
  BY <1>2
<1>6. Len(groups') * (target + 1) + weight' <= SumTo(Sizes(boxes), looked + 1)
  <2> DEFINE w == Len(boxes[looked + 1])
             s == SumTo(Sizes(boxes), looked)
             z == n * (target + 1)
  <2>1. CASE heavier <= target
    <3>1. Len(groups') = n /\ weight' = weight + w
      BY <1>0, <2>1
    <3>2. w \in Nat /\ s \in Nat /\ z \in Nat /\ z + weight <= s
      BY <1>2, <1>3, <1>4, <1>5
    <3>3. SumTo(Sizes(boxes), looked + 1) = s + w
      BY <1>3
    <3>4. Len(groups') * (target + 1) = z
      BY <3>1
    <3> HIDE DEF w, s, z
    <3> QED
      BY <1>1, <3>1, <3>2, <3>3, <3>4
  <2>2. CASE ~(heavier <= target)
    <3>1. Len(groups') = n + 1 /\ weight' = 0
      <4>1. [from |-> start, to |-> looked + 1] \in [from : Nat \ {0}, to : Nat \ {0}]
        BY <1>1
      <4> QED
        BY <1>0, <1>1, <2>2, <4>1, SeqAppend DEF Groups
    <3>2. w \in Nat /\ s \in Nat /\ z \in Nat /\ z + weight <= s
      BY <1>2, <1>3, <1>4, <1>5
    <3>3. SumTo(Sizes(boxes), looked + 1) = s + w
      BY <1>3
    <3>4. Len(groups') * (target + 1) = z + (target + 1)
      BY <1>5, <3>1
    <3>5. target \in Nat /\ ~(weight + w <= target)
      BY <1>2, <2>2
    <3> HIDE DEF w, s, z, target
    <3>6. weight + w >= target + 1
      BY <1>1, <3>2, <3>5
    <3> QED
      BY <1>1, <3>1, <3>2, <3>3, <3>4, <3>5, <3>6
  <2> QED
    BY <2>1, <2>2
<1>7. GroupsHeavy'
  BY <1>0, <1>6 DEF GroupsHeavy, TargetSize, TotalSize, Sizes
<1>8. PairsKept'
  BY <1>0 DEF SInv, PairsKept, TotalSize
<1>9. Shrinking'
  BY <1>0 DEF SInv, Shrinking
<1> QED
  BY <1>7, <1>8, <1>9 DEF SInv

\* The loop over the boxes ends with fewer groups than boxes.
LEMMA GroupEndSInv ==
    ASSUME IInv, SInv, EnoughPairs, GroupEnd
    PROVE  SInv'
<1> DEFINE n == Len(boxes)
           c == Len(groups)
           q == TotalSize(boxes) \div Len(boxes)
<1>0. /\ pc = "group" /\ n > 1 /\ looked = n /\ pc' = "merge" /\ groups' = LastGroup
      /\ cursors' = [b \in 1 .. n |-> 1] /\ merged' = [g \in 1 .. Len(LastGroup) |-> <<>>]
      /\ UNCHANGED <<addrSorted, boxes, depth, looked, start, weight, index, output>>
  BY DEF GroupEnd
<1>1. /\ boxes \in Seq(Seq(Pairs)) /\ n \in Nat /\ weight \in Nat
      /\ start \in Nat \ {0} /\ groups \in Groups /\ depth \in Nat
      /\ TotalSize(boxes) = SumTo(Sizes(boxes), n) /\ TotalSize(boxes) \in Nat
  BY SizesTerms DEF IInv, TypeOK, Groups
<1>2. c \in Nat
  BY <1>1, SeqElement DEF Groups
<1>3. n + depth <= NumChunks /\ TotalSize(boxes) >= n /\ Arity \in Nat /\ Arity >= 4
  <2>1. n + depth <= NumChunks /\ TotalSize(boxes) >= MinTotal
    BY <1>0 DEF SInv, Shrinking, PairsKept
  <2>2. NumChunks \in Nat /\ MinTotal \in Nat /\ Arity \in Nat /\ Arity >= 4 /\ MinTotal >= NumChunks
    BY MemCursorAssumption DEF EnoughPairs
  <2> HIDE DEF n
  <2> QED
    BY <1>1, <2>1, <2>2
<1>4. /\ TargetSize(boxes) \in Nat /\ q \in Nat /\ TargetSize(boxes) = Arity * q
      /\ TotalSize(boxes) < n * q + n /\ q >= 1
  BY <1>0, <1>1, <1>3, TargetType
<1>5. c * (Arity * q + 1) + weight <= TotalSize(boxes)
  BY <1>0, <1>1, <1>4 DEF SInv, GroupsHeavy
<1>6. c + 1 < n
  <2> HIDE DEF n, c, q
  <2>1. c * (Arity * q + 1) \in Nat /\ n * q + n \in Nat
    <3>1. Arity * q \in Nat /\ n * q \in Nat
      BY <1>1, <1>3, <1>4
    <3>2. Arity * q + 1 \in Nat
      BY <3>1
    <3> QED
      BY <1>1, <1>2, <3>1, <3>2
  <2>2. c * (Arity * q + 1) < n * q + n
    BY <1>1, <1>4, <1>5, <2>1
  <2> QED
    BY <1>0, <1>1, <1>2, <1>3, <1>4, <2>2, FewGroups
<1>7. Len(groups') \in Nat /\ Len(groups') < n
  <2>1. CASE start <= n
    <3>1. [from |-> start, to |-> n] \in [from : Nat \ {0}, to : Nat \ {0}]
      BY <1>0, <1>1
    <3>2. Len(groups') = c + 1
      BY <1>0, <1>1, <2>1, <3>1, SeqAppend DEF Groups, LastGroup
    <3> QED
      BY <1>2, <1>6, <3>2
  <2>2. CASE ~(start <= n)
    <3>1. groups' = groups
      BY <1>0, <2>2 DEF LastGroup
    <3> QED
      BY <1>2, <1>6, <1>1, <3>1
  <2> QED
    BY <2>1, <2>2
<1>8. Shrinking'
  BY <1>0, <1>3, <1>7 DEF Shrinking
<1>9. /\ Len(merged') = Len(groups') /\ \A g \in 1 .. Len(merged') : Len(merged'[g]) = 0
      /\ Len(cursors') = n /\ (\A b \in 1 .. n : cursors'[b] = 1)
      /\ merged' \in Seq(Seq(Pairs)) /\ cursors' \in Seq(Nat \ {0})
  <2>1. IInv'
    BY GroupEndIInv
  <2>2. merged' = [g \in 1 .. Len(groups') |-> <<>>]
    BY <1>0
  <2>3. Len(merged') = Len(groups') /\ \A g \in 1 .. Len(merged') : Len(merged'[g]) = 0
    BY <1>7, <2>2
  <2>4. Len(cursors') = n /\ (\A b \in 1 .. n : cursors'[b] = 1)
    BY <1>0, <1>1
  <2> QED
    BY <2>1, <2>3, <2>4 DEF IInv, TypeOK
<1>10. TotalSize(merged') = 0
  <2>1. /\ Terms(Sizes(merged'), Len(merged')) /\ Len(merged') \in Nat
        /\ TotalSize(merged') = SumTo(Sizes(merged'), Len(merged'))
        /\ \A g \in 1 .. Len(merged') : Sizes(merged')[g] = 0
    BY <1>9, SizesTerms
  <2> QED
    BY <2>1, SumZero
<1>11. SumTo(Passed(cursors'), Len(cursors')) = 0
  <2>1. /\ Terms(Passed(cursors'), Len(cursors')) /\ Len(cursors') \in Nat
        /\ \A b \in 1 .. Len(cursors') : Passed(cursors')[b] = cursors'[b] - 1
    BY <1>9, PassedTerms
  <2>2. \A b \in 1 .. Len(cursors') : Passed(cursors')[b] = 0
    BY <1>9, <2>1
  <2> QED
    BY <2>1, <2>2, SumZero
<1>12. PairsKept'
  <2>1. TotalSize(boxes') >= MinTotal
    BY <1>0 DEF SInv, PairsKept
  <2>2. ASSUME NEW g \in 1 .. Len(groups')
        PROVE  cursors'[groups'[g].from] = 1 /\ Len(merged'[g]) = 0
    <3>1. IInv'
      BY GroupEndIInv
    <3>2. /\ groups' \in Groups /\ Cover(groups', n)
      BY <1>0, <3>1 DEF IInv, TypeOK, Groups, Grouping
    <3>3. groups'[g] \in [from : Nat \ {0}, to : Nat \ {0}]
      BY <3>2, SeqElement DEF Groups
    <3>4. groups'[g].from <= groups'[g].to /\ groups'[g].to <= n
      BY <3>2 DEF Cover
    <3>5. groups'[g].from \in 1 .. n
      BY <1>1, <3>3, <3>4
    <3> QED
      BY <1>9, <3>5
  <2> QED
    BY <1>0, <1>10, <1>11, <2>1, <2>2 DEF PairsKept
<1>13. GroupsHeavy'
  BY <1>0 DEF GroupsHeavy
<1> QED
  BY <1>8, <1>12, <1>13 DEF SInv

\* A step of the merge of group g that appends to it d pairs of box b.
LEMMA MergeMoves ==
    ASSUME IInv, SInv, pc = "merge", NEW g \in 1 .. Len(groups), NEW m \in PairLists,
           NEW b \in groups[g].from .. groups[g].to, NEW c \in Nat \ {0},
           merged' = [merged EXCEPT ![g] = m], cursors' = [cursors EXCEPT ![b] = c],
           UNCHANGED <<pc, addrSorted, boxes, depth, looked, start, weight, groups, index, output>>,
           Len(m) - Len(merged[g]) = c - cursors[b],
           groups[g].from = groups[g].to => c > Len(boxes[b])
    PROVE  SInv'
<1> DEFINE d == c - cursors[b]
<1>1. /\ TypeOK /\ Cover(groups, Len(boxes)) /\ Len(merged) = Len(groups)
      /\ Len(cursors) = Len(boxes)
      /\ merged \in Seq(Seq(Pairs)) /\ cursors \in Seq(Nat \ {0})
  BY DEF IInv, Merging, Grouping, TypeOK
<1>2. /\ Len(boxes) \in Nat /\ Len(groups) \in Nat
      /\ \A h \in 1 .. Len(groups) : groups[h].from \in Nat \ {0} /\ groups[h].to \in Nat
  BY <1>1, BoxType, GroupType
<1>3. \A h \in 1 .. Len(groups) : groups[h].from <= groups[h].to /\ groups[h].to <= Len(boxes)
  BY <1>1 DEF Cover
<1>4. b \in 1 .. Len(boxes)
  BY <1>2, <1>3
<1>5. /\ merged' \in Seq(Seq(Pairs)) /\ Len(merged') = Len(groups) /\ merged'[g] = m
      /\ \A h \in 1 .. Len(groups) : h # g => merged'[h] = merged[h]
  BY <1>1, SeqExcept DEF PairLists
<1>6. /\ cursors' \in Seq(Nat \ {0}) /\ Len(cursors') = Len(boxes) /\ cursors'[b] = c
      /\ \A e \in 1 .. Len(boxes) : e # b => cursors'[e] = cursors[e]
  BY <1>1, <1>4, SeqExcept
<1>7. cursors[b] \in Nat \ {0} /\ d \in Int
  BY <1>1, <1>4, SeqElement
<1>8. TotalSize(merged') = TotalSize(merged) + d
  <2>1. /\ Terms(Sizes(merged), Len(groups)) /\ Terms(Sizes(merged'), Len(groups))
        /\ TotalSize(merged) = SumTo(Sizes(merged), Len(groups))
        /\ TotalSize(merged') = SumTo(Sizes(merged'), Len(groups))
        /\ \A h \in 1 .. Len(groups) : Sizes(merged)[h] = Len(merged[h]) /\ Len(merged[h]) \in Nat
        /\ \A h \in 1 .. Len(groups) : Sizes(merged')[h] = Len(merged'[h])
    BY <1>1, <1>5, SizesTerms
  <2>2. Len(m) \in Nat
    BY SeqElement DEF PairLists
  <2>3. Sizes(merged')[g] = Sizes(merged)[g] + d
    <3>1. Sizes(merged')[g] = Len(m) /\ Sizes(merged)[g] = Len(merged[g]) /\ Len(merged[g]) \in Nat
      BY <1>5, <2>1
    <3> QED
      BY <1>7, <2>2, <3>1
  <2>4. ASSUME NEW h \in 1 .. Len(groups), h # g
        PROVE  Sizes(merged')[h] = Sizes(merged)[h]
    <3>1. merged'[h] = merged[h]
      BY <1>5, <2>4
    <3>2. Sizes(merged')[h] = Len(merged'[h]) /\ Sizes(merged)[h] = Len(merged[h])
      BY <2>1
    <3> QED
      BY <3>1, <3>2
  <2>5. SumTo(Sizes(merged'), Len(groups)) = SumTo(Sizes(merged), Len(groups)) + d
    <3> DEFINE F == Sizes(merged)
               G == Sizes(merged')
    <3>1. /\ Terms(F, Len(groups)) /\ Terms(G, Len(groups)) /\ G[g] = F[g] + d
          /\ \A h \in 1 .. Len(groups) : h # g => G[h] = F[h]
      BY <2>1, <2>3, <2>4
    <3>2. Len(groups) \in Nat /\ d \in Int
      BY <1>2, <1>7
    <3> HIDE DEF F, G, d
    <3>3. SumTo(G, Len(groups)) = SumTo(F, Len(groups)) + d
      BY <3>1, <3>2, SumChange
    <3> QED
      BY <3>3 DEF F, G
  <2> QED
    BY <2>1, <2>5
<1>9. SumTo(Passed(cursors'), Len(boxes)) = SumTo(Passed(cursors), Len(boxes)) + d
  <2>1. /\ Terms(Passed(cursors), Len(boxes)) /\ Terms(Passed(cursors'), Len(boxes))
        /\ \A e \in 1 .. Len(boxes) : Passed(cursors)[e] = cursors[e] - 1
        /\ \A e \in 1 .. Len(boxes) : Passed(cursors')[e] = cursors'[e] - 1
    BY <1>1, <1>6, PassedTerms
  <2>2. Passed(cursors')[b] = Passed(cursors)[b] + d
    <3>1. Passed(cursors')[b] = c - 1 /\ Passed(cursors)[b] = cursors[b] - 1
      BY <1>4, <1>6, <2>1
    <3> QED
      BY <1>7, <3>1
  <2>3. \A e \in 1 .. Len(boxes) : e # b => Passed(cursors')[e] = Passed(cursors)[e]
    BY <1>6, <2>1
  <2> DEFINE F == Passed(cursors)
             G == Passed(cursors')
  <2>4. /\ Terms(F, Len(boxes)) /\ Terms(G, Len(boxes)) /\ G[b] = F[b] + d
        /\ \A e \in 1 .. Len(boxes) : e # b => G[e] = F[e]
        /\ Len(boxes) \in Nat /\ d \in Int /\ b \in 1 .. Len(boxes)
    BY <1>2, <1>4, <1>7, <2>1, <2>2, <2>3
  <2> HIDE DEF F, G, d
  <2>5. SumTo(G, Len(boxes)) = SumTo(F, Len(boxes)) + d
    BY <2>4, SumChange
  <2> QED
    BY <2>5 DEF F, G
<1>10. TotalSize(merged') = SumTo(Passed(cursors'), Len(cursors'))
  BY <1>1, <1>6, <1>8, <1>9 DEF SInv, PairsKept
<1>11. ASSUME NEW h \in 1 .. Len(groups), groups[h].from = groups[h].to,
              cursors'[groups[h].from] <= Len(boxes[groups[h].from])
       PROVE  cursors'[groups[h].from] = 1 /\ Len(merged'[h]) = 0
  <2>1. CASE h = g
    <3>1. b = groups[g].from /\ c > Len(boxes[b]) /\ cursors'[groups[g].from] = c
      BY <1>2, <1>6, <1>11, <2>1
    <3>2. Len(boxes[b]) \in Nat
      BY <1>1, <1>4, BoxType
    <3> QED
      BY <1>11, <2>1, <3>1, <3>2
  <2>2. CASE h # g
    <3>1. h < g => groups[h].to < groups[g].from
      BY <1>1 DEF Cover
    <3>2. g < h => groups[g].to < groups[h].from
      BY <1>1 DEF Cover
    <3>3. groups[h].from # b /\ groups[h].from \in 1 .. Len(boxes)
      BY <1>2, <1>3, <1>11, <2>2, <3>1, <3>2
    <3>4. cursors'[groups[h].from] = cursors[groups[h].from] /\ merged'[h] = merged[h]
      BY <1>5, <1>6, <2>2, <3>3
    <3> QED
      BY <1>11, <3>4 DEF SInv, PairsKept
  <2> QED
    BY <2>1, <2>2
<1>12. TotalSize(boxes') >= MinTotal
  BY DEF SInv, PairsKept
<1>13. PairsKept'
  BY <1>10, <1>11, <1>12 DEF PairsKept
<1>14. GroupsHeavy' /\ Shrinking'
  BY DEF SInv, GroupsHeavy, Shrinking
<1> QED
  BY <1>13, <1>14 DEF SInv

\* A step of merge_k_sorted_boxes moves as many pairs as it appends.
LEMMA MergeKSInv ==
    ASSUME IInv, SInv, NEW g, MergeK(g)
    PROVE  SInv'
<1>0. /\ pc = "merge" /\ g \in 1 .. Len(groups) /\ Open(g) # {}
      /\ UNCHANGED <<pc, addrSorted, boxes, depth, looked, start, weight, groups, index, output>>
      /\ \/ /\ groups[g].from = groups[g].to
            /\ merged' = [merged EXCEPT ![g] = boxes[groups[g].from]]
            /\ cursors' = [cursors EXCEPT ![groups[g].from] = Len(boxes[groups[g].from]) + 1]
         \/ /\ groups[g].from # groups[g].to
            /\ \E b \in Open(g) :
                /\ merged' = [merged EXCEPT ![g] = Append(merged[g], boxes[b][cursors[b]])]
                /\ cursors' = [cursors EXCEPT ![b] = cursors[b] + 1]
  BY DEF MergeK
<1> DEFINE f == groups[g].from
           t == groups[g].to
<1>1. TypeOK /\ Cover(groups, Len(boxes)) /\ Len(merged) = Len(groups) /\ Len(cursors) = Len(boxes)
  BY <1>0 DEF IInv, Merging, Grouping
<1>2. /\ Len(boxes) \in Nat /\ f \in Nat \ {0} /\ t \in Nat
      /\ merged[g] \in PairLists /\ Len(merged[g]) \in Nat
      /\ \A b \in 1 .. Len(boxes) : boxes[b] \in PairLists /\ Len(boxes[b]) \in Nat
      /\ \A b \in 1 .. Len(boxes) : cursors[b] \in Nat \ {0}
  BY <1>0, <1>1, BoxType, GroupType DEF PairLists
<1>3. f <= t /\ t <= Len(boxes)
  BY <1>0, <1>1 DEF Cover
<1>4. \A b \in f .. t : b \in 1 .. Len(boxes)
  BY <1>2, <1>3
<1>5. CASE /\ f = t /\ merged' = [merged EXCEPT ![g] = boxes[f]]
           /\ cursors' = [cursors EXCEPT ![f] = Len(boxes[f]) + 1]
  <2>1. f \in 1 .. Len(boxes) /\ f \in f .. t /\ Len(boxes[f]) \in Nat /\ boxes[f] \in PairLists
    BY <1>2, <1>3
  <2>2. cursors[f] <= Len(boxes[f])
    BY <1>0, <1>2, <1>5 DEF Open
  <2>3. cursors[f] = 1 /\ Len(merged[g]) = 0
    BY <1>0, <1>5, <2>2 DEF SInv, PairsKept
  <2>4. /\ Len(boxes[f]) + 1 \in Nat \ {0} /\ Len(boxes[f]) + 1 > Len(boxes[f])
        /\ Len(boxes[f]) - Len(merged[g]) = (Len(boxes[f]) + 1) - cursors[f]
    BY <2>1, <2>3
  <2> QED
    BY <1>0, <1>5, <2>1, <2>4, MergeMoves
<1>6. CASE /\ f # t
           /\ \E b \in Open(g) :
                /\ merged' = [merged EXCEPT ![g] = Append(merged[g], boxes[b][cursors[b]])]
                /\ cursors' = [cursors EXCEPT ![b] = cursors[b] + 1]
  <2>1. PICK b \in Open(g) :
                /\ merged' = [merged EXCEPT ![g] = Append(merged[g], boxes[b][cursors[b]])]
                /\ cursors' = [cursors EXCEPT ![b] = cursors[b] + 1]
    BY <1>6
  <2>2. b \in f .. t /\ cursors[b] <= Len(boxes[b])
    BY DEF Open
  <2>3. b \in 1 .. Len(boxes) /\ cursors[b] \in Nat \ {0} /\ Len(boxes[b]) \in Nat
    BY <1>2, <1>4, <2>2
  <2> DEFINE p == boxes[b][cursors[b]]
  <2>4. p \in Pairs
    <3>1. cursors[b] \in 1 .. Len(boxes[b])
      BY <2>2, <2>3
    <3> QED
      BY <1>1, <2>3, <3>1, BoxType
  <2> HIDE DEF p
  <2>5. Append(merged[g], p) \in PairLists /\ Len(Append(merged[g], p)) = Len(merged[g]) + 1
    BY <1>2, <2>4, SeqAppend DEF PairLists
  <2>6. /\ cursors[b] + 1 \in Nat \ {0}
        /\ Len(Append(merged[g], p)) - Len(merged[g]) = (cursors[b] + 1) - cursors[b]
    BY <1>2, <2>3, <2>5
  <2>7. merged' = [merged EXCEPT ![g] = Append(merged[g], p)]
    BY <2>1 DEF p
  <2> QED
    BY <1>0, <1>6, <2>1, <2>2, <2>5, <2>6, <2>7, MergeMoves
<1> QED
  BY <1>0, <1>5, <1>6

\* When no box is open all pairs of the level are merged: the next one has as many
\* of them, in fewer boxes.
LEMMA NextLevelSInv ==
    ASSUME IInv, SInv, NextLevel
    PROVE  SInv'
<1>0. /\ pc = "merge" /\ (\A g \in 1 .. Len(groups) : Open(g) = {}) /\ pc' = "group"
      /\ boxes' = merged /\ depth' = depth + 1
      /\ looked' = 0 /\ weight' = 0 /\ groups' = <<>>
  BY DEF NextLevel
<1>1. /\ TypeOK /\ Cover(groups, Len(boxes)) /\ Len(merged) = Len(groups)
      /\ Len(cursors) = Len(boxes) /\ depth \in Nat
      /\ boxes \in Seq(Seq(Pairs)) /\ merged \in Seq(Seq(Pairs)) /\ cursors \in Seq(Nat \ {0})
      /\ \A b \in 1 .. Len(boxes) : cursors[b] <= Len(boxes[b]) + 1
  BY <1>0 DEF IInv, Merging, Grouping, TypeOK
<1>2. ASSUME NEW b \in 1 .. Len(boxes)
      PROVE  cursors[b] - 1 = Len(boxes[b])
  <2>1. PICK g \in 1 .. Len(groups) : b \in groups[g].from .. groups[g].to
    BY <1>1 DEF Cover
  <2>2. ~(cursors[b] <= Len(boxes[b]))
    BY <1>0, <2>1 DEF Open
  <2>3. cursors[b] \in Nat /\ Len(boxes[b]) \in Nat /\ cursors[b] <= Len(boxes[b]) + 1
    BY <1>1, BoxType, SeqElement
  <2> QED
    BY <2>2, <2>3
<1>3. TotalSize(merged) = TotalSize(boxes)
  <2>1. /\ Len(boxes) \in Nat /\ Terms(Sizes(boxes), Len(boxes))
        /\ TotalSize(boxes) = SumTo(Sizes(boxes), Len(boxes))
        /\ \A b \in 1 .. Len(boxes) : Sizes(boxes)[b] = Len(boxes[b])
    BY <1>1, SizesTerms
  <2>2. \A b \in 1 .. Len(boxes) : Passed(cursors)[b] = cursors[b] - 1
    BY <1>1, PassedTerms
  <2>3. \A b \in 1 .. Len(boxes) : Sizes(boxes)[b] = Passed(cursors)[b]
    BY <1>2, <2>1, <2>2
  <2>4. SumTo(Sizes(boxes), Len(boxes)) = SumTo(Passed(cursors), Len(boxes))
    BY <2>1, <2>3, SumSame
  <2> QED
    BY <1>0, <1>1, <2>1, <2>4 DEF SInv, PairsKept
<1>4. PairsKept'
  <2>1. TotalSize(boxes) >= MinTotal
    BY DEF SInv, PairsKept
  <2> QED
    BY <1>0, <1>3, <2>1 DEF PairsKept
<1>5. GroupsHeavy'
  BY <1>0, <1>1, LevelStart DEF GroupsHeavy
<1>6. Shrinking'
  <2>1. Len(groups) < Len(boxes) /\ Len(boxes) + depth <= NumChunks
    BY <1>0 DEF SInv, Shrinking
  <2>2. Len(boxes) \in Nat /\ Len(groups) \in Nat /\ NumChunks \in Nat
    BY <1>1, BoxType, GroupType, MemCursorAssumption
  <2>3. Len(boxes') = Len(groups)
    BY <1>0, <1>1
  <2>4. Len(boxes') + depth' <= NumChunks
    BY <1>0, <1>1, <2>1, <2>2, <2>3
  <2> QED
    BY <1>0, <2>4 DEF Shrinking
<1> QED
  BY <1>4, <1>5, <1>6 DEF SInv

\* Every step keeps the second invariant.
LEMMA NextSInv ==
    ASSUME IInv, SInv, EnoughPairs, [Next]_vars
    PROVE  SInv'
<1>1. ASSUME UNCHANGED <<pc, boxes, depth, looked, weight, groups, cursors, merged>>
      PROVE  SInv'
  <2>1. PairsKept'
    BY <1>1 DEF SInv, PairsKept
  <2>2. GroupsHeavy'
    BY <1>1 DEF SInv, GroupsHeavy
  <2>3. Shrinking'
    BY <1>1 DEF SInv, Shrinking
  <2> QED
    BY <2>1, <2>2, <2>3 DEF SInv
<1>2. CASE UNCHANGED vars
  BY <1>1, <1>2 DEF vars
<1>3. CASE Finished
  BY <1>1, <1>3 DEF Finished, vars
<1>4. CASE GetNext
  BY <1>1, <1>4 DEF GetNext
<1>5. CASE MergeEnd
  BY <1>5 DEF MergeEnd, SInv, PairsKept, GroupsHeavy, Shrinking
<1>6. ASSUME NEW g \in 1 .. NumChunks, MergeK(g)
      PROVE  SInv'
  BY <1>6, MergeKSInv
<1> QED
  BY <1>2, <1>3, <1>4, <1>5, <1>6, GroupBoxSInv, GroupEndSInv, NextLevelSInv DEF Next

\* Every recursive call of merge_sorted_boxes gets fewer boxes than its caller
\* had, for every number of chunks, provided that the target size of a group is
\* not rounded down to nothing.
THEOREM CallsShrink ==
    ASSUME EnoughPairs
    PROVE  Spec => []RecursionShrinks
<1>1. Init => SInv
  BY InitSInv
<1>2. IInv /\ SInv /\ [Next]_vars => SInv'
  BY NextSInv
<1>3. SInv => RecursionShrinks
  BY DEF SInv, Shrinking, RecursionShrinks
<1> QED
  BY <1>1, <1>2, <1>3, Invariance, PTL DEF Spec
=============================================================================
