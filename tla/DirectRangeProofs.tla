------------------------- MODULE DirectRangeProofs -------------------------
(***************************************************************************)
(* The Direct transaction core keeps files apart, for any files, blocks,   *)
(* ranges, failures and power losses.                                      *)
(*                                                                         *)
(* The properties speak of what the device reads back.  A power loss       *)
(* replaces that by any images written since the last flush, so the        *)
(* invariant says the same of every combination of those images, except    *)
(* while a release is not durable; and it says of a transaction which of   *)
(* its homes hold the staged and which the original images.                *)
(***************************************************************************)
EXTENDS DirectRange, FiniteSetTheorems, TLAPS

Images(h) == IF h \in {"gdt", "sb"} THEN Int ELSE SUBSET Blocks
Values == Int \cup SUBSET Blocks
Contents == {Zero, Garbage} \cup Files
Published == Homes \ {"bitmap"}
ReleaseOrder(f) == <<"sb", "gdt", "bitmap", f>>

Transactions ==
    [pc : {"zero", "zeroflush", "homes", "flush", "inode", "rollback", "direct"},
     file : Files, run : SUBSET Blocks, k : Nat,
     order : {AllocationHomes} \cup {ReleaseOrder(f) : f \in Files},
     original : [Homes -> Values], staged : [Homes -> Values]]

DeviceOK ==
    /\ home \in [Homes -> Values] /\ homes \in [Homes -> SUBSET Values]
    /\ \A h \in Homes : home[h] \in homes[h] /\ homes[h] \subseteq Images(h)
    /\ data \in [Blocks -> Contents] /\ datas \in [Blocks -> SUBSET Contents]
    /\ \A b \in Blocks : data[b] \in datas[b]

Shape ==
    /\ DeviceOK /\ cache \in [Published -> Values]
    /\ loose \subseteq Blocks /\ poisoned \in BOOLEAN /\ torn \in BOOLEAN /\ losses \in Nat
    /\ tx = Idle \/ tx \in Transactions

\* The file whose release is under way.
Releasing(f) == tx # Idle /\ tx.pc = "direct" /\ tx.file = f

\* What the device reads back is sound; a block whose release is not durable belongs
\* to no file but the one that is being released.
Sound ==
    /\ \A f \in Files : home[f] \ loose \subseteq home["bitmap"] /\ cache[f] \subseteq home[f]
    /\ \A f \in Files : ~Releasing(f) => home[f] \cap loose = {}
    /\ \A f, g \in Files : f # g => home[f] \cap home[g] = {}
    /\ \A f \in Files : \A b \in home[f] : data[b] \in {Zero, f}

\* What a power loss leaves is sound, whatever survives of each home and each block.
Survivors ==
    /\ \A f \in Files : \A x \in homes[f] : \A m \in homes["bitmap"] : x \subseteq m
    /\ \A f, g \in Files : f # g => \A x \in homes[f], y \in homes[g] : x \cap y = {}
    /\ \A f \in Files : \A x \in homes[f] : \A b \in x : datas[b] \subseteq {Zero, f}

\* The counts are those of the bitmap.
Counted(image) ==
    /\ image["gdt"] = Cardinality(Blocks \ image["bitmap"])
    /\ image["sb"] = Cardinality(Blocks \ image["bitmap"])

\* The original images are what was published, and nothing has been written to a home
\* the transaction does not stage.
Started ==
    /\ ~torn /\ ~poisoned
    /\ \A h \in Homes : tx.original[h] \in Images(h) /\ tx.staged[h] \in Images(h)
    /\ \A h \in Published : cache[h] = tx.original[h]
    /\ \A h \in Files : h # tx.file => tx.staged[h] = tx.original[h]
    /\ \A h \in Files : home[h] = tx.original[h] /\ tx.original[h] \subseteq tx.original["bitmap"]
    /\ losses = 0 => Counted(tx.original) /\ Counted(tx.staged)

\* What a range's transaction stages: clear blocks, for the bitmap and for the file.
RangeStaged ==
    /\ tx.order = AllocationHomes
    /\ tx.run \cap tx.original["bitmap"] = {}
    /\ tx.staged["bitmap"] = tx.original["bitmap"] \cup tx.run
    /\ tx.staged[tx.file] = tx.original[tx.file] \cup tx.run

\* While the allocation homes are written, the zeros and the files' homes are durable.
RangeDurable ==
    /\ loose = {}
    /\ \A f \in Files : homes[f] = {tx.original[f]}
    /\ homes["bitmap"] \subseteq {tx.original["bitmap"], tx.staged["bitmap"]}
    /\ \A b \in tx.run : datas[b] = {Zero}

\* The first n - 1 homes hold their staged images and the others their original ones.
WrittenBelow(image, t, n) ==
    \A i \in 1 .. 3 : image[t.order[i]] =
        IF i < n THEN t.staged[t.order[i]] ELSE t.original[t.order[i]]

\* The homes after the n-th hold their original images.
RestoredAbove(image, t, n) ==
    \A i \in 1 .. 3 : i > n => image[t.order[i]] = t.original[t.order[i]]

\* How far commit_direct_range and its rollback have come.
RangeAt ==
    /\ RangeStaged
    /\ tx.pc \in {"zero", "zeroflush"} => home = tx.original
    /\ tx.pc # "zero" => \A b \in tx.run : data[b] = Zero
    /\ tx.pc \in {"homes", "flush", "inode", "rollback"} => RangeDurable
    /\ tx.pc = "homes" => tx.k \in 1 .. 3 /\ WrittenBelow(home, tx, tx.k)
    /\ tx.pc \in {"flush", "inode"} => WrittenBelow(home, tx, 4)
    /\ tx.pc = "inode" => homes["bitmap"] = {tx.staged["bitmap"]}
    /\ tx.pc = "rollback" => tx.k \in 0 .. 3 /\ RestoredAbove(home, tx, tx.k)

\* The first n - 1 homes of a release hold their staged images, the others their original ones.
ReleasedBelow(image, t, n) ==
    \A i \in 1 .. 4 : image[t.order[i]] =
        IF i < n THEN t.staged[t.order[i]] ELSE t.original[t.order[i]]

\* How far commit_direct has come with a release.
ReleaseAt ==
    /\ tx.order = ReleaseOrder(tx.file) /\ tx.k \in 1 .. 4
    /\ tx.run = tx.original[tx.file] /\ tx.run # {} /\ tx.run \subseteq loose
    /\ tx.staged[tx.file] = {} /\ tx.staged["bitmap"] = tx.original["bitmap"] \ tx.run
    /\ ReleasedBelow(home, tx, tx.k)

IInv ==
    /\ Shape
    /\ ~torn => Sound /\ (loose = {} => Survivors)
    /\ torn => tx = Idle
    /\ tx = Idle /\ ~poisoned => /\ \A h \in Published : cache[h] = home[h]
                                 /\ losses = 0 => Counted(home)
    /\ tx # Idle => Started /\ (IF tx.pc = "direct" THEN ReleaseAt ELSE RangeAt)

-----------------------------------------------------------------------------
(* The homes *)

\* The names of the homes, and the order in which they are written.
LEMMA HomeNames ==
    /\ Homes = {"bitmap", "gdt", "sb"} \cup Files
    /\ "bitmap" \notin Files /\ "gdt" \notin Files /\ "sb" \notin Files
    /\ Len(AllocationHomes) = 3
    /\ AllocationHomes[1] = "bitmap" /\ AllocationHomes[2] = "gdt" /\ AllocationHomes[3] = "sb"
    /\ \A f : /\ Len(ReleaseOrder(f)) = 4
              /\ ReleaseOrder(f)[1] = "sb" /\ ReleaseOrder(f)[2] = "gdt"
              /\ ReleaseOrder(f)[3] = "bitmap" /\ ReleaseOrder(f)[4] = f
  <1>1. ToSet(AllocationHomes) = {"bitmap", "gdt", "sb"}
    BY DEF ToSet, AllocationHomes
  <1> QED
    BY <1>1, DirectRangeAssumption DEF Homes, AllocationHomes, ReleaseOrder

\* The blocks of a group are finitely many; taking a set of clear ones, or giving a
\* set of taken ones back, changes the number of clear ones by its size.
LEMMA ClearBlocks ==
    ASSUME NEW B, NEW R, R \subseteq Blocks
    PROVE  /\ IsFiniteSet(R) /\ Cardinality(R) \in Nat /\ Cardinality(Blocks \ B) \in Nat
           /\ R \cap B = {} => Cardinality(Blocks \ (B \cup R)) = Cardinality(Blocks \ B) - Cardinality(R)
           /\ R \subseteq B => Cardinality(Blocks \ (B \ R)) = Cardinality(Blocks \ B) + Cardinality(R)
  <1>1. IsFiniteSet(Blocks)
    BY DirectRangeAssumption, FS_Interval DEF Blocks
  <1>2. IsFiniteSet(R) /\ IsFiniteSet(Blocks \ B) /\ IsFiniteSet(Blocks \ (B \cup R))
    BY <1>1, FS_Subset
  <1>3. /\ Cardinality(R) \in Nat /\ Cardinality(Blocks \ B) \in Nat
        /\ Cardinality(Blocks \ (B \cup R)) \in Nat /\ Cardinality({}) = 0
    BY <1>2, FS_CardinalityType, FS_EmptySet
  <1>4. ASSUME R \cap B = {}
        PROVE  Cardinality(Blocks \ (B \cup R)) = Cardinality(Blocks \ B) - Cardinality(R)
    <2>1. Blocks \ B = (Blocks \ (B \cup R)) \cup R /\ (Blocks \ (B \cup R)) \cap R = {}
      BY <1>4
    <2>2. Cardinality(Blocks \ B) = Cardinality(Blocks \ (B \cup R)) + Cardinality(R) - Cardinality({})
      BY <1>2, <2>1, FS_Union
    <2> QED
      BY <1>3, <2>2
  <1>5. ASSUME R \subseteq B
        PROVE  Cardinality(Blocks \ (B \ R)) = Cardinality(Blocks \ B) + Cardinality(R)
    <2>1. Blocks \ (B \ R) = (Blocks \ B) \cup R /\ (Blocks \ B) \cap R = {}
      BY <1>5
    <2>2. Cardinality(Blocks \ (B \ R)) = Cardinality(Blocks \ B) + Cardinality(R) - Cardinality({})
      BY <1>2, <2>1, FS_Union
    <2> QED
      BY <1>3, <2>2
  <1> QED
    BY <1>2, <1>3, <1>4, <1>5

\* A transaction under way is one of the records.
LEMMA UnderWay ==
    ASSUME Shape
    PROVE  /\ tx # Idle <=> tx.pc # "idle"
           /\ tx # Idle <=> tx \in Transactions
  BY DEF Shape, Idle, Transactions

\* Going on with a transaction changes its position only.
LEMMA GoesOn ==
    ASSUME Shape, tx # Idle, NEW l, NEW n \in Nat, Continue(l, n),
           l \in {"zero", "zeroflush", "homes", "flush", "inode", "rollback", "direct"}
    PROVE  /\ tx' \in Transactions /\ tx' # Idle /\ tx'.pc = l /\ tx'.k = n
           /\ tx'.file = tx.file /\ tx'.run = tx.run /\ tx'.order = tx.order
           /\ tx'.original = tx.original /\ tx'.staged = tx.staged
           /\ UNCHANGED <<cache, poisoned, torn, losses>>
  <1>1. tx \in Transactions
    BY UnderWay
  <1>2. tx' = [tx EXCEPT !.pc = l, !.k = n]
    BY DEF Continue
  <1>3. tx' \in Transactions /\ tx'.pc = l /\ tx'.k = n
        /\ tx'.file = tx.file /\ tx'.run = tx.run /\ tx'.order = tx.order
        /\ tx'.original = tx.original /\ tx'.staged = tx.staged
    BY <1>1, <1>2 DEF Transactions
  <1>4. tx' # Idle
    BY <1>3 DEF Idle
  <1> QED
    BY <1>3, <1>4 DEF Continue

\* The fields of a transaction under way.
LEMMA Facts ==
    ASSUME IInv, tx # Idle
    PROVE  /\ Shape /\ tx \in Transactions /\ tx.file \in Files /\ tx.run \subseteq Blocks /\ tx.k \in Nat
           /\ tx.original \in [Homes -> Values] /\ tx.staged \in [Homes -> Values]
           /\ torn = FALSE /\ poisoned = FALSE /\ Started /\ Sound /\ (loose = {} => Survivors)
           /\ tx.pc = "direct" => ReleaseAt
           /\ tx.pc # "direct" => RangeAt
  <1>1. tx \in Transactions
    BY UnderWay DEF IInv
  <1> QED
    BY <1>1 DEF IInv, Transactions, Started, Shape

-----------------------------------------------------------------------------
(* The device *)

\* A home is written; its old images may survive as well.
LEMMA Wrote ==
    ASSUME DeviceOK, NEW h \in Homes, NEW x \in Images(h), write_bytes(h, x)
    PROVE  /\ DeviceOK' /\ data' = data /\ datas' = datas
           /\ \A j \in Homes : /\ home'[j] = IF j = h THEN x ELSE home[j]
                               /\ homes'[j] = IF j = h THEN homes[j] \cup {x} ELSE homes[j]
  <1>1. x \in Values
    BY DEF Images, Values
  <1>2. \A j \in Homes : /\ home'[j] = IF j = h THEN x ELSE home[j]
                         /\ homes'[j] = IF j = h THEN homes[j] \cup {x} ELSE homes[j]
    BY DEF write_bytes, DeviceOK
  <1>3. home' \in [Homes -> Values] /\ homes' \in [Homes -> SUBSET Values] /\ data' = data /\ datas' = datas
    BY <1>1 DEF write_bytes, DeviceOK
  <1>4. \A j \in Homes : home'[j] \in homes'[j] /\ homes'[j] \subseteq Images(j)
    BY <1>2 DEF DeviceOK
  <1> QED
    BY <1>2, <1>3, <1>4 DEF DeviceOK

\* Data blocks are written.
LEMMA WroteData ==
    ASSUME DeviceOK, NEW B \in SUBSET Blocks, NEW x \in Contents, WriteData(B, x)
    PROVE  /\ DeviceOK' /\ home' = home /\ homes' = homes
           /\ \A b \in Blocks : /\ data'[b] = IF b \in B THEN x ELSE data[b]
                                /\ datas'[b] = IF b \in B THEN datas[b] \cup {x} ELSE datas[b]
  <1>1. \A b \in Blocks : /\ data'[b] = IF b \in B THEN x ELSE data[b]
                          /\ datas'[b] = IF b \in B THEN datas[b] \cup {x} ELSE datas[b]
    BY DEF WriteData
  <1>2. data' \in [Blocks -> Contents] /\ datas' \in [Blocks -> SUBSET Contents]
    BY DEF WriteData, DeviceOK
  <1>3. home' = home /\ homes' = homes
    BY DEF WriteData
  <1>4. \A b \in Blocks : data'[b] \in datas'[b]
    BY <1>1 DEF DeviceOK
  <1> QED
    BY <1>1, <1>2, <1>3, <1>4 DEF DeviceOK

\* After a flush only what reads back survives.
LEMMA Flushed ==
    ASSUME DeviceOK, flush
    PROVE  /\ DeviceOK' /\ home' = home /\ data' = data /\ loose' = {}
           /\ \A h \in Homes : homes'[h] = {home[h]}
           /\ \A b \in Blocks : datas'[b] = {data[b]}
  <1>1. home' = home /\ data' = data /\ loose' = {}
    BY DEF flush
  <1>2. (\A h \in Homes : homes'[h] = {home[h]}) /\ (\A b \in Blocks : datas'[b] = {data[b]})
    BY DEF flush
  <1>3. homes' \in [Homes -> SUBSET Values] /\ datas' \in [Blocks -> SUBSET Contents]
    BY DEF flush, DeviceOK
  <1>4. \A h \in Homes : homes'[h] \subseteq Images(h)
    BY <1>2 DEF DeviceOK
  <1> QED
    BY <1>1, <1>2, <1>3, <1>4 DEF DeviceOK

\* A sound device whose files have no loose block survives a power loss after a flush.
LEMMA FlushIsSound ==
    ASSUME Shape, Sound, flush, UNCHANGED cache, \A f \in Files : ~Releasing(f)
    PROVE  Sound' /\ Survivors'
  <1>1. /\ home' = home /\ data' = data /\ loose' = {}
        /\ \A h \in Homes : homes'[h] = {home[h]}
        /\ \A b \in Blocks : datas'[b] = {data[b]}
    BY Flushed DEF Shape
  <1>2. Files \subseteq Homes /\ "bitmap" \in Homes /\ \A f \in Files : home[f] \subseteq Blocks
    BY HomeNames DEF Shape, DeviceOK, Images
  <1>3. \A f \in Files : home[f] \subseteq home["bitmap"]
    BY DEF Sound
  <1>4. Sound'
    BY <1>1, <1>3 DEF Sound
  <1>5. Survivors'
    BY <1>1, <1>2, <1>3 DEF Sound, Survivors
  <1> QED
    BY <1>4, <1>5

\* Data written to blocks that no file's inode maps, or by the file that maps them.
LEMMA DataIsSound ==
    ASSUME Shape, Sound, loose = {} => Survivors, UNCHANGED <<cache, loose>>,
           NEW B \in SUBSET Blocks, NEW x \in Contents, WriteData(B, x),
           \A f \in Files : x \in {Zero, f} \/ home[f] \cap B = {},
           loose = {} => \A f \in Files : x \in {Zero, f} \/ \A y \in homes[f] : y \cap B = {},
           \A f \in Files : Releasing(f) => Releasing(f)'
    PROVE  Sound' /\ (loose' = {} => Survivors')
  <1>1. /\ home' = home /\ homes' = homes
        /\ \A b \in Blocks : /\ data'[b] = IF b \in B THEN x ELSE data[b]
                             /\ datas'[b] = IF b \in B THEN datas[b] \cup {x} ELSE datas[b]
    BY WroteData DEF Shape
  <1>2. \A f \in Files : home[f] \subseteq Blocks /\ \A y \in homes[f] : y \subseteq Blocks
    BY HomeNames DEF Shape, DeviceOK, Images
  <1>3. Sound'
    BY <1>1, <1>2 DEF Sound
  <1>4. ASSUME loose' = {} PROVE Survivors'
    <2>1. Survivors /\ \A f \in Files : x \in {Zero, f} \/ \A y \in homes[f] : y \cap B = {}
      BY <1>4
    <2>2. ASSUME NEW f \in Files, NEW y \in homes[f], NEW b \in y PROVE datas'[b] \subseteq {Zero, f}
      <3>1. b \in Blocks /\ datas[b] \subseteq {Zero, f}
        BY <1>2, <2>1 DEF Survivors
      <3>2. CASE b \notin B
        BY <1>1, <3>1, <3>2
      <3>3. CASE b \in B
        <4>1. x \in {Zero, f}
          BY <2>1, <3>3
        <4>2. datas'[b] = datas[b] \cup {x}
          BY <1>1, <3>1, <3>3
        <4> QED
          BY <3>1, <4>1, <4>2
      <3> QED
        BY <3>2, <3>3
    <2> QED
      BY <1>1, <2>1, <2>2 DEF Survivors
  <1> QED
    BY <1>3, <1>4

\* A home other than an inode is written while a range is committed or rolled back: the
\* files' blocks stay taken.
LEMMA AllocationIsSound ==
    ASSUME Shape, Sound, Survivors, loose = {}, UNCHANGED <<cache, loose>>,
           NEW h \in {"bitmap", "gdt", "sb"}, NEW x \in Images(h), write_bytes(h, x),
           h = "bitmap" => \A f \in Files : \A y \in homes[f] : y \subseteq x
    PROVE  Sound' /\ Survivors'
  <1>1. h \in Homes /\ Files \subseteq Homes /\ "bitmap" \in Homes /\ h \notin Files
    BY HomeNames
  <1>2. /\ data' = data /\ datas' = datas
        /\ \A j \in Homes : /\ home'[j] = IF j = h THEN x ELSE home[j]
                            /\ homes'[j] = IF j = h THEN homes[j] \cup {x} ELSE homes[j]
    BY <1>1, Wrote DEF Shape
  <1>3. \A f \in Files : home'[f] = home[f] /\ homes'[f] = homes[f] /\ home[f] \in homes[f]
    BY <1>1, <1>2 DEF Shape, DeviceOK
  <1>4. Sound'
    BY <1>1, <1>2, <1>3 DEF Sound
  <1>5. ASSUME NEW f \in Files, NEW y \in homes[f], NEW m \in homes'["bitmap"] PROVE y \subseteq m
    <2>1. m \in homes["bitmap"] \/ (h = "bitmap" /\ m = x)
      BY <1>1, <1>2
    <2>2. CASE m \in homes["bitmap"]
      BY <2>2 DEF Survivors
    <2> QED
      BY <2>1, <2>2
  <1>6. Survivors'
    BY <1>2, <1>3, <1>5 DEF Survivors
  <1> QED
    BY <1>4, <1>6

-----------------------------------------------------------------------------
(* Preparing a range *)

\* The staged images take a clear run and count it.
LEMMA BeginStep ==
    ASSUME IInv, NEW f \in Files, NEW run \in SUBSET Blocks, Begin(f, run)
    PROVE  IInv'
  <1> DEFINE n == Cardinality(run)
             staged == [home EXCEPT !["bitmap"] = @ \cup run, !["gdt"] = @ - n, !["sb"] = @ - n,
                                    ![f] = cache[f] \cup run]
  <1>1. tx = Idle /\ ~poisoned /\ ~torn /\ run \cap home["bitmap"] = {}
    BY DEF Begin, Free
  <1>2. /\ UNCHANGED <<home, homes, data, datas, cache, poisoned, loose, torn, losses>>
        /\ tx' = [pc |-> "zero", file |-> f, run |-> run, k |-> 1, order |-> AllocationHomes,
                  original |-> home, staged |-> staged]
    BY DEF Begin, device
  <1>3. /\ Homes = {"bitmap", "gdt", "sb"} \cup Files /\ Published = {"gdt", "sb"} \cup Files
        /\ "bitmap" \notin Files /\ "gdt" \notin Files /\ "sb" \notin Files
    BY HomeNames DEF Published
  <1>4. Shape /\ Sound /\ (loose = {} => Survivors) /\ (\A h \in Published : cache[h] = home[h])
        /\ (losses = 0 => Counted(home))
    BY <1>1 DEF IInv
  <1>5. home \in [Homes -> Values] /\ \A h \in Homes : home[h] \in Images(h)
    BY <1>4 DEF Shape, DeviceOK
  <1>6. /\ home["bitmap"] \subseteq Blocks /\ home["gdt"] \in Int /\ home["sb"] \in Int
        /\ \A g \in Files : home[g] \subseteq Blocks
    BY <1>3, <1>5 DEF Images
  <1>7. n \in Nat
    BY ClearBlocks
  <1> HIDE DEF n
  <1>8. /\ staged["bitmap"] = home["bitmap"] \cup run
        /\ staged["gdt"] = home["gdt"] - n /\ staged["sb"] = home["sb"] - n
        /\ staged[f] = home[f] \cup run
        /\ \A g \in Files : g # f => staged[g] = home[g]
    BY <1>3, <1>4, <1>5
  <1>9. \A h \in Homes : staged[h] \in Images(h)
    <2> HIDE DEF staged
    <2>1. staged["bitmap"] \in SUBSET Blocks /\ staged["gdt"] \in Int /\ staged["sb"] \in Int
      BY <1>6, <1>7, <1>8
    <2>2. \A g \in Files : staged[g] \in SUBSET Blocks
      BY <1>6, <1>8
    <2> QED
      BY <1>3, <2>1, <2>2 DEF Images
  <1>10. staged \in [Homes -> Values]
    <2>1. \A h \in Homes : staged[h] \in Values
      BY <1>9 DEF Images, Values
    <2>2. staged = [h \in Homes |-> staged[h]]
      BY <1>5
    <2> HIDE DEF staged
    <2> QED
      BY <2>1, <2>2
  <1> HIDE DEF staged
  <1>11. /\ tx'.pc = "zero" /\ tx'.file = f /\ tx'.run = run /\ tx'.k = 1 /\ tx'.order = AllocationHomes
         /\ tx'.original = home /\ tx'.staged = staged
    BY <1>2
  <1>12. tx' \in Transactions /\ tx' # Idle
    <2>1. tx' # Idle
      BY <1>11 DEF Idle
    <2> QED
      BY <1>2, <1>5, <1>10, <2>1 DEF Transactions
  <1>13. Shape'
    BY <1>2, <1>4, <1>12 DEF Shape, DeviceOK
  <1>14. Sound' /\ (loose' = {} => Survivors')
    <2>1. \A g \in Files : ~Releasing(g)
      BY <1>1 DEF Releasing
    <2> QED
      BY <1>2, <1>4, <2>1 DEF Sound, Survivors
  <1>15. losses = 0 => Counted(staged)
    <2>1. Cardinality(Blocks \ (home["bitmap"] \cup run)) = Cardinality(Blocks \ home["bitmap"]) - n
      BY <1>1, ClearBlocks DEF n
    <2> QED
      BY <1>4, <1>8, <2>1 DEF Counted
  <1>16. \A g \in Files : home[g] \subseteq home["bitmap"]
    BY <1>1, <1>4 DEF Sound, Releasing
  <1>17. Started'
    BY <1>1, <1>2, <1>3, <1>4, <1>5, <1>8, <1>9, <1>11, <1>15, <1>16 DEF Started, Counted
  <1>18. RangeAt'
    BY <1>1, <1>2, <1>8, <1>11 DEF RangeAt, RangeStaged, RangeDurable
  <1> QED
    BY <1>1, <1>2, <1>11, <1>12, <1>13, <1>14, <1>17, <1>18 DEF IInv

\* Prepare takes a run of consecutive blocks.
LEMMA PrepareStep ==
    ASSUME IInv, Prepare
    PROVE  IInv'
  <1>1. PICK f \in Files, n \in RunLengths, b \in Blocks : b + n - 1 \in Blocks /\ Begin(f, b .. (b + n - 1))
    BY DEF Prepare
  <1>2. b .. (b + n - 1) \in SUBSET Blocks
    BY <1>1, DirectRangeAssumption DEF Blocks
  <1> QED
    BY <1>1, <1>2, BeginStep

\* A transaction that fails without poison before it wrote a home.
LEMMA AbortsEarly ==
    ASSUME IInv, tx # Idle, home = tx.original, UNCHANGED <<home, homes, loose>>, DeviceOK',
           fail(FALSE), Sound', loose' = {} => Survivors'
    PROVE  IInv'
  <1>1. tx' = Idle /\ poisoned' = FALSE /\ UNCHANGED <<cache, torn, losses>>
    BY DEF fail
  <1>2. Shape'
    BY <1>1, Facts DEF Shape
  <1>3. (\A h \in Published : cache'[h] = home'[h]) /\ (losses' = 0 => Counted(home)')
    BY <1>1, Facts DEF Started, Counted
  <1> QED
    BY <1>1, <1>2, <1>3, Facts DEF IInv

\* initialize_direct_range writes blocks no file maps, and makes the zeros durable.
LEMMA InitializeStep ==
    ASSUME IInv, initialize_direct_range
    PROVE  IInv'
  <1>1. tx # Idle /\ tx.pc \in {"zero", "zeroflush"}
    <2>1. tx.pc \in {"zero", "zeroflush"}
      BY DEF initialize_direct_range
    <2> QED
      BY <2>1 DEF Idle
  <1>2. /\ Shape /\ DeviceOK /\ Sound /\ (loose = {} => Survivors) /\ Started /\ RangeAt /\ home = tx.original
        /\ tx.run \subseteq Blocks /\ tx.run \cap home["bitmap"] = {} /\ torn = FALSE /\ poisoned = FALSE
    BY <1>1, Facts DEF RangeAt, RangeStaged, RangeDurable, Shape
  <1>3. \A f \in Files : ~Releasing(f)
    BY <1>1 DEF Releasing
  <1>4. (\A f \in Files : home[f] \cap tx.run = {})
        /\ (loose = {} => \A f \in Files : \A y \in homes[f] : y \cap tx.run = {})
    <2>1. "bitmap" \in Homes /\ home["bitmap"] \in homes["bitmap"]
      BY <1>2, HomeNames DEF DeviceOK
    <2> QED
      BY <1>2, <1>3, <2>1 DEF Sound, Survivors
  <1>5. ASSUME NEW B \in SUBSET tx.run, WriteData(B, Zero), UNCHANGED <<cache, loose>>
        PROVE  /\ DeviceOK' /\ home' = home /\ homes' = homes /\ Sound' /\ (loose' = {} => Survivors')
               /\ \A b \in B : data'[b] = Zero
    <2>1. B \in SUBSET Blocks /\ Zero \in Contents
      BY <1>2 DEF Contents
    <2>2. DeviceOK' /\ home' = home /\ homes' = homes /\ \A b \in B : data'[b] = Zero
      BY <1>2, <1>5, <2>1, WroteData
    <2>3. (\A f \in Files : home[f] \cap B = {})
          /\ (loose = {} => \A f \in Files : \A y \in homes[f] : y \cap B = {})
      BY <1>4
    <2>4. Sound' /\ (loose' = {} => Survivors')
      BY <1>2, <1>3, <1>5, <2>1, <2>3, DataIsSound
    <2> QED
      BY <2>2, <2>4
  <1>6. CASE WriteData(tx.run, Zero) /\ Continue("zeroflush", 1) /\ UNCHANGED loose
    <2>1. UNCHANGED <<cache, poisoned, torn, losses>>
      BY <1>6 DEF Continue
    <2>2. /\ DeviceOK' /\ home' = home /\ homes' = homes /\ Sound' /\ (loose' = {} => Survivors')
          /\ \A b \in tx.run : data'[b] = Zero
      BY <1>5, <1>6, <2>1
    <2>3. /\ tx' \in Transactions /\ tx' # Idle /\ tx'.pc = "zeroflush" /\ tx'.k = 1
          /\ tx'.file = tx.file /\ tx'.run = tx.run /\ tx'.order = tx.order
          /\ tx'.original = tx.original /\ tx'.staged = tx.staged
      BY <1>1, <1>2, <1>6, GoesOn
    <2>4. Shape'
      BY <1>2, <1>6, <2>1, <2>2, <2>3 DEF Shape
    <2>5. Started'
      BY <1>2, <2>1, <2>2, <2>3 DEF Started, Counted
    <2>6. RangeAt'
      BY <1>2, <2>2, <2>3 DEF RangeAt, RangeStaged, RangeDurable
    <2> QED
      BY <1>2, <2>1, <2>2, <2>3, <2>4, <2>5, <2>6 DEF IInv
  <1>7. CASE (\E B \in SUBSET tx.run : WriteData(B, Zero)) /\ fail(FALSE) /\ UNCHANGED loose
    <2>1. PICK B \in SUBSET tx.run : WriteData(B, Zero)
      BY <1>7
    <2>2. UNCHANGED cache
      BY <1>7 DEF fail
    <2>3. DeviceOK' /\ home' = home /\ homes' = homes /\ Sound' /\ (loose' = {} => Survivors')
      BY <1>5, <1>7, <2>1, <2>2
    <2> QED
      BY <1>1, <1>2, <1>7, <2>3, AbortsEarly
  <1>8. CASE tx.pc = "zeroflush" /\ flush /\ Continue("homes", 1)
    <2>1. UNCHANGED <<cache, poisoned, torn, losses>>
      BY <1>8 DEF Continue
    <2>2. /\ DeviceOK' /\ home' = home /\ data' = data /\ loose' = {}
          /\ \A h \in Homes : homes'[h] = {home[h]}
          /\ \A b \in Blocks : datas'[b] = {data[b]}
      BY <1>2, <1>8, Flushed
    <2>3. Sound' /\ Survivors'
      BY <1>2, <1>3, <1>8, <2>1, FlushIsSound
    <2>4. /\ tx' \in Transactions /\ tx' # Idle /\ tx'.pc = "homes" /\ tx'.k = 1
          /\ tx'.file = tx.file /\ tx'.run = tx.run /\ tx'.order = tx.order
          /\ tx'.original = tx.original /\ tx'.staged = tx.staged
      BY <1>1, <1>2, <1>8, GoesOn
    <2>5. Shape'
      BY <1>2, <2>1, <2>2, <2>4 DEF Shape
    <2>6. Started'
      BY <1>2, <2>1, <2>2, <2>4 DEF Started, Counted
    <2>7. Files \subseteq Homes /\ "bitmap" \in Homes
      BY HomeNames
    <2>8. \A b \in tx.run : datas'[b] = {Zero}
      BY <1>2, <1>8, <2>2 DEF RangeAt, RangeStaged, RangeDurable
    <2>9. \A f \in Files : homes'[f] = {tx.original[f]}
      BY <1>2, <2>2, <2>7
    <2>10. WrittenBelow(home', tx', 1)
      BY <1>2, <2>2, <2>4 DEF WrittenBelow
    <2>11. RangeStaged' /\ \A b \in tx'.run : data'[b] = Zero
      BY <1>2, <1>8, <2>2, <2>4 DEF RangeAt, RangeStaged
    <2>12. RangeDurable'
      BY <1>2, <2>2, <2>4, <2>7, <2>8, <2>9 DEF RangeDurable
    <2>13. RangeAt'
      BY <2>4, <2>10, <2>11, <2>12 DEF RangeAt
    <2> QED
      BY <1>2, <2>1, <2>3, <2>4, <2>5, <2>6, <2>13 DEF IInv
  <1>9. CASE UNCHANGED <<device, loose>> /\ fail(FALSE)
    <2>1. UNCHANGED <<home, homes, data, datas, cache, loose>>
      BY <1>9 DEF device, fail
    <2>2. DeviceOK' /\ Sound' /\ (loose' = {} => Survivors')
      BY <1>2, <1>3, <2>1 DEF DeviceOK, Sound, Survivors
    <2> QED
      BY <1>1, <1>2, <1>9, <2>1, <2>2, AbortsEarly
  <1> QED
    BY <1>6, <1>7, <1>8, <1>9 DEF initialize_direct_range

-----------------------------------------------------------------------------
(* Committing a range and rolling it back *)

\* The state while the allocation homes are written: the files are as they were, and
\* both images of the bitmap keep their blocks.
LEMMA RangeFacts ==
    ASSUME IInv, tx # Idle, tx.pc \in {"homes", "flush", "inode", "rollback"}
    PROVE  /\ Shape /\ DeviceOK /\ Sound /\ Survivors /\ Started /\ RangeAt /\ loose = {}
           /\ torn = FALSE /\ poisoned = FALSE /\ tx \in Transactions
           /\ \A f \in Files : ~Releasing(f)
           /\ \A h \in Homes : tx.original[h] \in Images(h) /\ tx.staged[h] \in Images(h)
           /\ \A f \in Files : \A y \in homes[f] :
                y \subseteq tx.original["bitmap"] /\ y \subseteq tx.staged["bitmap"]
  <1>1. /\ Shape /\ DeviceOK /\ Sound /\ Survivors /\ Started /\ RangeAt /\ loose = {}
        /\ torn = FALSE /\ poisoned = FALSE /\ tx \in Transactions
    BY Facts DEF RangeAt, RangeStaged, RangeDurable, Shape
  <1>2. \A f \in Files : ~Releasing(f)
    BY DEF Releasing
  <1>3. \A h \in Homes : tx.original[h] \in Images(h) /\ tx.staged[h] \in Images(h)
    BY <1>1 DEF Started
  <1>4. \A f \in Files : homes[f] = {tx.original[f]} /\ tx.original[f] \subseteq tx.original["bitmap"]
    BY <1>1 DEF Started, RangeAt, RangeStaged, RangeDurable
  <1>5. tx.original["bitmap"] \subseteq tx.staged["bitmap"]
    BY <1>1 DEF RangeAt, RangeStaged, RangeDurable
  <1> QED
    BY <1>1, <1>2, <1>3, <1>4, <1>5

\* An allocation home is written with its staged or its original image, and the
\* transaction goes on.
LEMMA HomeWritten ==
    ASSUME IInv, tx # Idle, tx.pc \in {"homes", "rollback"}, NEW i \in 1 .. 3, NEW x,
           x \in {tx.staged[tx.order[i]], tx.original[tx.order[i]]},
           write_bytes(tx.order[i], x), UNCHANGED <<loose, cache>>
    PROVE  /\ DeviceOK' /\ data' = data /\ datas' = datas /\ Sound' /\ Survivors'
           /\ \A f \in Files : home'[f] = home[f] /\ homes'[f] = homes[f]
           /\ \A j \in 1 .. 3 : home'[tx.order[j]] = IF j = i THEN x ELSE home[tx.order[j]]
           /\ homes'["bitmap"] \subseteq {tx.original["bitmap"], tx.staged["bitmap"]}
  <1> DEFINE h == tx.order[i]
  <1>1. /\ Shape /\ DeviceOK /\ Sound /\ Survivors /\ Started /\ RangeAt /\ loose = {}
        /\ \A j \in Homes : tx.original[j] \in Images(j) /\ tx.staged[j] \in Images(j)
        /\ \A f \in Files : \A y \in homes[f] :
             y \subseteq tx.original["bitmap"] /\ y \subseteq tx.staged["bitmap"]
    BY RangeFacts
  <1>2. tx.order[1] = "bitmap" /\ tx.order[2] = "gdt" /\ tx.order[3] = "sb"
    BY <1>1, HomeNames DEF RangeAt, RangeStaged, RangeDurable
  <1>3. h \in {"bitmap", "gdt", "sb"} /\ h \in Homes /\ h \notin Files /\ Files \subseteq Homes
        /\ {"bitmap", "gdt", "sb"} \subseteq Homes
    BY <1>2, HomeNames
  <1>4. x \in Images(h)
    BY <1>1, <1>3
  <1>5. h = "bitmap" => \A f \in Files : \A y \in homes[f] : y \subseteq x
    BY <1>1
  <1> HIDE DEF h
  <1>6. write_bytes(h, x) /\ x \in {tx.staged[h], tx.original[h]}
    BY DEF h
  <1>7. /\ DeviceOK' /\ data' = data /\ datas' = datas
        /\ \A j \in Homes : /\ home'[j] = IF j = h THEN x ELSE home[j]
                            /\ homes'[j] = IF j = h THEN homes[j] \cup {x} ELSE homes[j]
    BY <1>1, <1>3, <1>4, <1>6, Wrote
  <1>8. Sound' /\ Survivors'
    BY <1>1, <1>3, <1>4, <1>5, <1>6, AllocationIsSound
  <1>9. \A f \in Files : home'[f] = home[f] /\ homes'[f] = homes[f]
    BY <1>3, <1>7
  <1>10. \A j \in 1 .. 3 : home'[tx.order[j]] = IF j = i THEN x ELSE home[tx.order[j]]
    <2>1. \A j \in 1 .. 3 : tx.order[j] \in Homes /\ (tx.order[j] = h <=> j = i)
      BY <1>2, <1>3 DEF h
    <2> QED
      BY <1>7, <2>1
  <1>11. homes'["bitmap"] \subseteq {tx.original["bitmap"], tx.staged["bitmap"]}
    <2>1. homes["bitmap"] \subseteq {tx.original["bitmap"], tx.staged["bitmap"]}
      BY <1>1 DEF RangeAt, RangeStaged, RangeDurable
    <2>2. homes'["bitmap"] = IF "bitmap" = h THEN homes["bitmap"] \cup {x} ELSE homes["bitmap"]
      BY <1>3, <1>7
    <2>3. "bitmap" = h => x \in {tx.original["bitmap"], tx.staged["bitmap"]}
      BY <1>6
    <2> QED
      BY <2>1, <2>2, <2>3
  <1> QED
    BY <1>7, <1>8, <1>9, <1>10, <1>11

\* A step of commit_direct_range or of its rollback that leaves the transaction open.
LEMMA RangeGoesOn ==
    ASSUME IInv, tx # Idle, tx.pc \in {"homes", "flush", "rollback"},
           NEW l \in {"homes", "flush", "inode", "rollback"}, NEW n \in Nat, Continue(l, n),
           DeviceOK', Sound', Survivors', UNCHANGED <<loose, data>>,
           \A b \in tx.run : datas'[b] = {Zero},
           \A f \in Files : home'[f] = home[f] /\ homes'[f] = homes[f],
           homes'["bitmap"] \subseteq {tx.original["bitmap"], tx.staged["bitmap"]},
           l = "homes" => n \in 1 .. 3 /\ WrittenBelow(home', tx, n),
           l \in {"flush", "inode"} => WrittenBelow(home', tx, 4),
           l = "inode" => homes'["bitmap"] = {tx.staged["bitmap"]},
           l = "rollback" => n \in 0 .. 3 /\ RestoredAbove(home', tx, n)
    PROVE  IInv'
  <1>1. /\ Shape /\ Started /\ RangeAt /\ loose = {} /\ torn = FALSE /\ poisoned = FALSE
    BY RangeFacts
  <1>2. /\ tx' \in Transactions /\ tx' # Idle /\ tx'.pc = l /\ tx'.k = n
        /\ tx'.file = tx.file /\ tx'.run = tx.run /\ tx'.order = tx.order
        /\ tx'.original = tx.original /\ tx'.staged = tx.staged
        /\ UNCHANGED <<cache, poisoned, torn, losses>>
    BY <1>1, GoesOn
  <1>3. Shape'
    BY <1>1, <1>2 DEF Shape
  <1>4. Started'
    BY <1>1, <1>2 DEF Started, Counted
  <1>5. RangeAt'
    <2>1. RangeStaged'
      BY <1>1, <1>2 DEF RangeAt, RangeStaged
    <2>2. \A b \in tx'.run : data'[b] = Zero
      BY <1>1, <1>2 DEF RangeAt
    <2>3. RangeDurable'
      <3>1. \A f \in Files : homes'[f] = {tx'.original[f]}
        BY <1>1, <1>2 DEF RangeAt, RangeDurable
      <3> QED
        BY <1>1, <1>2, <3>1 DEF RangeDurable
    <2>4. l = "homes" => tx'.k \in 1 .. 3 /\ WrittenBelow(home', tx', tx'.k)
      BY <1>2 DEF WrittenBelow
    <2>5. l = "rollback" => tx'.k \in 0 .. 3 /\ RestoredAbove(home', tx', tx'.k)
      BY <1>2 DEF RestoredAbove
    <2>6. l = "inode" => homes'["bitmap"] = {tx'.staged["bitmap"]}
      BY <1>2
    <2>7. l \in {"flush", "inode"} => WrittenBelow(home', tx', 4)
      BY <1>2 DEF WrittenBelow
    <2> QED
      BY <1>2, <2>1, <2>2, <2>3, <2>4, <2>5, <2>6, <2>7 DEF RangeAt
  <1> QED
    BY <1>1, <1>2, <1>3, <1>4, <1>5 DEF IInv

\* A failure that poisons leaves the files as they were.
LEMMA Poisons ==
    ASSUME IInv, tx # Idle, fail(TRUE), DeviceOK', Sound', Survivors', UNCHANGED loose
    PROVE  IInv'
  <1>1. tx' = Idle /\ poisoned' = TRUE /\ UNCHANGED <<cache, torn, losses>>
    BY DEF fail
  <1>2. Shape'
    BY <1>1, Facts DEF Shape
  <1> QED
    BY <1>1, <1>2, Facts DEF IInv

\* Writing the homes: the k-th gets its staged image; if its write fails, it may have.
LEMMA WriteHomeStep ==
    ASSUME IInv, WriteHome
    PROVE  IInv'
  <1> DEFINE h == tx.order[tx.k]
  <1>1. tx # Idle /\ tx.pc = "homes"
    BY DEF WriteHome, Idle
  <1>2. RangeAt /\ tx.k \in 1 .. 3 /\ Len(tx.order) = 3 /\ UNCHANGED loose
        /\ WrittenBelow(home, tx, tx.k) /\ \A b \in tx.run : datas[b] = {Zero}
    BY <1>1, RangeFacts, HomeNames DEF RangeAt, RangeStaged, RangeDurable, WriteHome
  <1>3. CASE write_bytes(h, tx.staged[h]) /\ IF tx.k < 3 THEN Continue("homes", tx.k + 1) ELSE Continue("flush", 1)
    <2>1. UNCHANGED cache
      BY <1>3 DEF Continue
    <2>2. /\ DeviceOK' /\ data' = data /\ datas' = datas /\ Sound' /\ Survivors'
          /\ \A f \in Files : home'[f] = home[f] /\ homes'[f] = homes[f]
          /\ \A j \in 1 .. 3 : home'[tx.order[j]] = IF j = tx.k THEN tx.staged[h] ELSE home[tx.order[j]]
          /\ homes'["bitmap"] \subseteq {tx.original["bitmap"], tx.staged["bitmap"]}
      BY <1>1, <1>2, <1>3, <2>1, HomeWritten
    <2>4. CASE tx.k < 3
      <3>1. Continue("homes", tx.k + 1) /\ tx.k + 1 \in 1 .. 3 /\ tx.k + 1 \in Nat
        BY <1>2, <1>3, <2>4
      <3>2. WrittenBelow(home', tx, tx.k + 1)
        BY <1>2, <2>2 DEF WrittenBelow
      <3> QED
        BY <1>1, <1>2, <2>2, <3>1, <3>2, RangeGoesOn
    <2>5. CASE ~(tx.k < 3)
      <3>1. Continue("flush", 1) /\ tx.k = 3
        BY <1>2, <1>3, <2>5
      <3>2. WrittenBelow(home', tx, 4)
        BY <1>2, <2>2, <3>1 DEF WrittenBelow
      <3> QED
        BY <1>1, <1>2, <2>2, <3>1, <3>2, RangeGoesOn
    <2> QED
      BY <2>4, <2>5
  <1>4. CASE (write_bytes(h, tx.staged[h]) \/ UNCHANGED device) /\ Continue("rollback", tx.k)
    <2>1. UNCHANGED cache
      BY <1>4 DEF Continue
    <2>2. /\ DeviceOK' /\ data' = data /\ datas' = datas /\ Sound' /\ Survivors'
          /\ \A f \in Files : home'[f] = home[f] /\ homes'[f] = homes[f]
          /\ \A j \in 1 .. 3 : j # tx.k => home'[tx.order[j]] = home[tx.order[j]]
          /\ homes'["bitmap"] \subseteq {tx.original["bitmap"], tx.staged["bitmap"]}
      <3>1. CASE write_bytes(h, tx.staged[h])
        BY <1>1, <1>2, <2>1, <3>1, HomeWritten
      <3>2. CASE UNCHANGED device
        BY <1>1, <1>2, <2>1, <3>2, RangeFacts DEF device, DeviceOK, Sound, Survivors, RangeAt, RangeStaged, RangeDurable
      <3> QED
        BY <1>4, <3>1, <3>2
    <2>3. RestoredAbove(home', tx, tx.k)
      BY <1>2, <2>2 DEF WrittenBelow, RestoredAbove
    <2>4. tx.k \in 0 .. 3 /\ tx.k \in Nat
      BY <1>2
    <2> QED
      BY <1>1, <1>2, <1>4, <2>2, <2>3, <2>4, RangeGoesOn
  <1> QED
    BY <1>2, <1>3, <1>4 DEF WriteHome, FailedWrite, rollback_from

\* A flush while a range is open makes what reads back durable.
LEMMA RangeFlushed ==
    ASSUME IInv, tx # Idle, tx.pc \in {"flush", "rollback"}, flush, UNCHANGED cache
    PROVE  /\ DeviceOK' /\ Sound' /\ Survivors' /\ home' = home /\ data' = data /\ loose' = {} /\ loose' = loose
           /\ \A b \in tx.run : datas'[b] = {Zero}
           /\ \A f \in Files : homes'[f] = homes[f]
           /\ homes'["bitmap"] = {home["bitmap"]}
           /\ homes'["bitmap"] \subseteq {tx.original["bitmap"], tx.staged["bitmap"]}
  <1>1. /\ Shape /\ DeviceOK /\ Sound /\ Started /\ RangeAt /\ loose = {} /\ tx \in Transactions
        /\ \A f \in Files : ~Releasing(f)
    BY RangeFacts
  <1>2. /\ DeviceOK' /\ home' = home /\ data' = data /\ loose' = {}
        /\ \A h \in Homes : homes'[h] = {home[h]}
        /\ \A b \in Blocks : datas'[b] = {data[b]}
    BY <1>1, Flushed
  <1>3. Sound' /\ Survivors'
    BY <1>1, FlushIsSound
  <1>4. Files \subseteq Homes /\ "bitmap" \in Homes /\ home["bitmap"] \in homes["bitmap"]
    BY <1>1, HomeNames DEF DeviceOK
  <1>5. tx.run \subseteq Blocks /\ \A b \in tx.run : data[b] = Zero
    BY <1>1 DEF RangeAt, Transactions
  <1>6. \A f \in Files : homes'[f] = homes[f]
    <2>1. \A f \in Files : homes[f] = {tx.original[f]} /\ home[f] = tx.original[f]
      BY <1>1 DEF RangeAt, RangeDurable, Started
    <2> QED
      BY <1>2, <1>4, <2>1
  <1>7. homes["bitmap"] \subseteq {tx.original["bitmap"], tx.staged["bitmap"]}
    BY <1>1 DEF RangeAt, RangeDurable
  <1>8. homes'["bitmap"] = {home["bitmap"]}
    BY <1>2, <1>4
  <1> QED
    BY <1>1, <1>2, <1>3, <1>4, <1>5, <1>6, <1>7, <1>8

\* The flush between the allocation homes and the inode.
LEMMA FlushHomesStep ==
    ASSUME IInv, FlushHomes
    PROVE  IInv'
  <1>1. tx # Idle /\ tx.pc = "flush"
    BY DEF FlushHomes, Idle
  <1>2. /\ DeviceOK /\ Sound /\ Survivors /\ RangeAt /\ RangeStaged /\ WrittenBelow(home, tx, 4)
        /\ RangeDurable /\ Len(tx.order) = 3 /\ tx.order[1] = "bitmap" /\ \A f \in Files : ~Releasing(f)
    BY <1>1, RangeFacts, HomeNames DEF RangeAt, RangeStaged
  <1>3. CASE flush /\ Continue("inode", 1)
    <2>1. UNCHANGED cache
      BY <1>3 DEF Continue
    <2>2. /\ DeviceOK' /\ Sound' /\ Survivors' /\ home' = home /\ data' = data /\ loose' = loose
          /\ \A b \in tx.run : datas'[b] = {Zero}
          /\ \A f \in Files : homes'[f] = homes[f]
          /\ homes'["bitmap"] = {home["bitmap"]}
          /\ homes'["bitmap"] \subseteq {tx.original["bitmap"], tx.staged["bitmap"]}
      BY <1>1, <1>3, <2>1, RangeFlushed
    <2>3. home["bitmap"] = tx.staged["bitmap"]
      BY <1>2 DEF WrittenBelow
    <2> QED
      BY <1>1, <1>2, <1>3, <2>2, <2>3, RangeGoesOn
  <1>4. CASE UNCHANGED <<device, loose>> /\ Continue("rollback", Len(tx.order))
    <2>1. UNCHANGED <<home, homes, data, datas, loose, cache>>
      BY <1>4 DEF device, Continue
    <2>2. DeviceOK' /\ Sound' /\ Survivors'
      BY <1>2, <2>1 DEF DeviceOK, Sound, Survivors
    <2>3. RestoredAbove(home', tx, 3)
      BY DEF RestoredAbove
    <2>4. /\ \A b \in tx.run : datas'[b] = {Zero}
          /\ homes'["bitmap"] \subseteq {tx.original["bitmap"], tx.staged["bitmap"]}
          /\ Continue("rollback", 3)
      BY <1>2, <1>4, <2>1 DEF RangeDurable
    <2> QED
      BY <1>1, <2>1, <2>2, <2>3, <2>4, RangeGoesOn
  <1> QED
    BY <1>3, <1>4 DEF FlushHomes

\* rollback_direct_range: what is rolled back completely is as it was.
LEMMA RollbackStep ==
    ASSUME IInv, Rollback
    PROVE  IInv'
  <1> DEFINE h == tx.order[tx.k]
  <1>1. tx # Idle /\ tx.pc = "rollback"
    <2>1. tx.pc = "rollback"
      BY DEF Rollback
    <2> QED
      BY <2>1 DEF Idle
  <1>2. /\ Shape /\ DeviceOK /\ Sound /\ Survivors /\ Started /\ RangeAt /\ RangeStaged /\ RangeDurable
        /\ tx.k \in 0 .. 3 /\ RestoredAbove(home, tx, tx.k) /\ loose = {} /\ torn = FALSE
        /\ \A f \in Files : ~Releasing(f)
    BY <1>1, RangeFacts DEF RangeAt
  <1>3. CASE tx.k > 0 /\ write_bytes(h, tx.original[h]) /\ Continue("rollback", tx.k - 1) /\ UNCHANGED loose
    <2>1. UNCHANGED cache /\ tx.k \in 1 .. 3 /\ tx.k - 1 \in Nat /\ tx.k - 1 \in 0 .. 3
      BY <1>2, <1>3 DEF Continue
    <2>2. /\ DeviceOK' /\ data' = data /\ datas' = datas /\ Sound' /\ Survivors'
          /\ \A f \in Files : home'[f] = home[f] /\ homes'[f] = homes[f]
          /\ \A j \in 1 .. 3 : home'[tx.order[j]] = IF j = tx.k THEN tx.original[h] ELSE home[tx.order[j]]
          /\ homes'["bitmap"] \subseteq {tx.original["bitmap"], tx.staged["bitmap"]}
      BY <1>1, <1>3, <2>1, HomeWritten
    <2>3. RestoredAbove(home', tx, tx.k - 1)
      BY <1>2, <2>1, <2>2 DEF RestoredAbove
    <2>4. \A b \in tx.run : datas'[b] = {Zero}
      BY <1>2, <2>2 DEF RangeDurable
    <2> QED
      BY <1>1, <1>3, <2>1, <2>2, <2>3, <2>4, RangeGoesOn
  <1>4. CASE tx.k > 0 /\ (write_bytes(h, tx.original[h]) \/ UNCHANGED device) /\ fail(TRUE) /\ UNCHANGED loose
    <2>1. UNCHANGED cache /\ tx.k \in 1 .. 3
      BY <1>2, <1>4 DEF fail
    <2>2. DeviceOK' /\ Sound' /\ Survivors'
      <3>1. CASE write_bytes(h, tx.original[h])
        BY <1>1, <1>4, <2>1, <3>1, HomeWritten
      <3>2. CASE UNCHANGED device
        BY <1>2, <1>4, <2>1, <3>2 DEF device, DeviceOK, Sound, Survivors
      <3> QED
        BY <1>4, <3>1, <3>2
    <2> QED
      BY <1>1, <1>4, <2>2, Poisons
  <1>5. CASE tx.k = 0 /\ flush /\ fail(FALSE)
    <2>1. tx' = Idle /\ poisoned' = FALSE /\ UNCHANGED <<cache, torn, losses>>
      BY <1>5 DEF fail
    <2>2. DeviceOK' /\ Sound' /\ Survivors' /\ home' = home /\ loose' = {}
      BY <1>1, <1>5, <2>1, RangeFlushed
    <2>3. Shape'
      BY <1>2, <2>1, <2>2 DEF Shape
    <2>4. \A i \in 1 .. 3 : home[tx.order[i]] = tx.original[tx.order[i]]
      BY <1>2, <1>5 DEF RestoredAbove
    <2>5. /\ home["bitmap"] = tx.original["bitmap"]
          /\ home["gdt"] = tx.original["gdt"] /\ home["sb"] = tx.original["sb"]
      BY <1>2, <2>4, HomeNames DEF RangeStaged
    <2>6. \A j \in Published : cache[j] = home[j]
      BY <1>2, <2>5, HomeNames DEF Published, Started
    <2>7. losses = 0 => Counted(home)
      BY <1>2, <2>5 DEF Started, Counted
    <2> QED
      BY <1>2, <2>1, <2>2, <2>3, <2>6, <2>7 DEF IInv, Counted
  <1>6. CASE UNCHANGED <<device, loose>> /\ fail(TRUE)
    <2>1. UNCHANGED <<home, homes, data, datas, loose, cache>>
      BY <1>6 DEF device, fail
    <2>2. DeviceOK' /\ Sound' /\ Survivors'
      BY <1>2, <2>1 DEF DeviceOK, Sound, Survivors
    <2> QED
      BY <1>1, <1>6, <2>1, <2>2, Poisons
  <1> QED
    BY <1>3, <1>4, <1>5, <1>6 DEF Rollback, FailedWrite

\* The inode is written last: by then its new blocks are zeroed and taken for good.
LEMMA WriteInodeStep ==
    ASSUME IInv, WriteInode
    PROVE  IInv'
  <1> DEFINE f == tx.file
             x == tx.staged[tx.file]
  <1>1. tx # Idle /\ tx.pc = "inode" /\ UNCHANGED loose
    BY DEF WriteInode, Idle
  <1>2. /\ Shape /\ DeviceOK /\ Sound /\ Survivors /\ Started /\ RangeAt /\ RangeStaged /\ RangeDurable
        /\ WrittenBelow(home, tx, 4) /\ homes["bitmap"] = {tx.staged["bitmap"]} /\ loose = {}
        /\ torn = FALSE /\ poisoned = FALSE /\ tx \in Transactions
        /\ (\A b \in tx.run : data[b] = Zero) /\ \A j \in Files : ~Releasing(j)
    BY <1>1, RangeFacts DEF RangeAt
  <1>3. f \in Files /\ tx.run \subseteq Blocks
    BY <1>2 DEF Transactions
  <1>4. /\ Homes = {"bitmap", "gdt", "sb"} \cup Files /\ Published = {"gdt", "sb"} \cup Files
        /\ "bitmap" \notin Files /\ "gdt" \notin Files /\ "sb" \notin Files
    BY HomeNames DEF Published
  <1>5. x \in Images(f) /\ f \in Homes /\ x = tx.original[f] \cup tx.run
    BY <1>2, <1>3, <1>4 DEF Started, RangeStaged
  <1>6. home["bitmap"] = tx.staged["bitmap"] /\ home["gdt"] = tx.staged["gdt"] /\ home["sb"] = tx.staged["sb"]
    BY <1>2, HomeNames DEF WrittenBelow, RangeStaged
  <1>7. \A g \in Files : /\ homes[g] = {tx.original[g]} /\ home[g] = tx.original[g]
                         /\ tx.original[g] \subseteq tx.original["bitmap"] /\ tx.original[g] \cap tx.run = {}
    BY <1>2 DEF RangeDurable, RangeStaged, Started
  <1>8. tx.staged["bitmap"] = tx.original["bitmap"] \cup tx.run /\ x \subseteq tx.staged["bitmap"]
    BY <1>2, <1>3, <1>5, <1>7 DEF RangeStaged
  <1>14. tx.staged[f] = x /\ \A j \in Files : j # f => tx.staged[j] = tx.original[j] /\ cache[j] = tx.original[j]
    BY <1>2, <1>4 DEF Started
  <1>15. WriteInode => \/ write_bytes(f, x) /\ cache' = [h \in DOMAIN cache |-> tx.staged[h]] /\ tx' = Idle
                          /\ UNCHANGED <<poisoned, torn, losses>>
                       \/ (write_bytes(f, x) \/ UNCHANGED device) /\ fail(TRUE)
    BY DEF WriteInode, FailedWrite
  <1>16. \A g \in Files : cache[g] = tx.original[g]
    BY <1>2, <1>4 DEF Started
  <1> HIDE DEF x, f
  <1>9. \A g \in Files : g # f => tx.original[g] \cap x = {}
    BY <1>2, <1>3, <1>5, <1>7 DEF Sound
  <1>10. /\ \A b \in x : data[b] \in {Zero, f} /\ datas[b] \subseteq {Zero, f}
    <2>1. \A b \in tx.original[f] : data[b] \in {Zero, f} /\ datas[b] \subseteq {Zero, f}
      BY <1>2, <1>3, <1>7 DEF Sound, Survivors
    <2>2. \A b \in tx.run : data[b] \in {Zero, f} /\ datas[b] \subseteq {Zero, f}
      BY <1>2 DEF RangeDurable
    <2> QED
      BY <1>5, <2>1, <2>2
  <1>11. ASSUME write_bytes(f, x), tx' = Idle, \A g \in Files : cache'[g] \subseteq home'[g]
         PROVE  /\ DeviceOK' /\ Sound' /\ Survivors'
                /\ \A j \in Homes : home'[j] = IF j = f THEN x ELSE home[j]
    <2>1. /\ DeviceOK' /\ data' = data /\ datas' = datas
          /\ \A j \in Homes : /\ home'[j] = IF j = f THEN x ELSE home[j]
                              /\ homes'[j] = IF j = f THEN homes[j] \cup {x} ELSE homes[j]
      BY <1>2, <1>5, <1>11, Wrote
    <2>2. home'["bitmap"] = tx.staged["bitmap"] /\ homes'["bitmap"] = {tx.staged["bitmap"]}
      BY <1>2, <1>3, <1>4, <1>6, <2>1
    <2>3. \A g \in Files : home'[g] = (IF g = f THEN x ELSE tx.original[g])
                           /\ homes'[g] \subseteq {tx.original[g]} \cup (IF g = f THEN {x} ELSE {})
      BY <1>4, <1>7, <2>1
    <2>4. \A g \in Files : \A y \in homes'[g] : y \subseteq tx.staged["bitmap"]
      BY <1>7, <1>8, <2>3
    <2>5. \A g, j \in Files : g # j => \A y \in homes'[g], z \in homes'[j] : y \cap z = {}
      BY <1>2, <1>7, <1>9, <2>3 DEF Sound
    <2>6. \A g \in Files : \A y \in homes'[g] : \A b \in y : datas[b] \subseteq {Zero, g}
      BY <1>2, <1>7, <1>10, <2>3 DEF Survivors
    <2>7. Survivors'
      BY <2>1, <2>2, <2>4, <2>5, <2>6 DEF Survivors
    <2>8. \A g \in Files : home'[g] \in homes'[g]
      BY <1>4, <2>1 DEF DeviceOK
    <2>9. \A g \in Files : \A b \in home'[g] : data[b] \in {Zero, g}
      BY <1>2, <1>7, <1>10, <2>3 DEF Sound
    <2>10. Sound'
      BY <1>1, <1>2, <1>11, <2>1, <2>2, <2>4, <2>5, <2>8, <2>9 DEF Sound
    <2> QED
      BY <2>1, <2>7, <2>10
  <1>12. CASE write_bytes(f, x) /\ cache' = [h \in DOMAIN cache |-> tx.staged[h]] /\ tx' = Idle
              /\ UNCHANGED <<poisoned, torn, losses>>
    <2>1. cache' \in [Published -> Values] /\ \A h \in Published : cache'[h] = tx.staged[h]
      BY <1>2, <1>4, <1>12 DEF Shape, Transactions
    <2>2. \A j \in Homes : home'[j] = IF j = f THEN x ELSE home[j]
      BY <1>2, <1>5, <1>12, Wrote
    <2>3. \A h \in Published : cache'[h] = home'[h]
      BY <1>3, <1>4, <1>6, <1>7, <1>14, <2>1, <2>2
    <2>4. DeviceOK' /\ Sound' /\ Survivors'
      BY <1>4, <1>11, <1>12, <2>3
    <2>5. losses = 0 => Counted(home')
      BY <1>2, <1>3, <1>4, <1>6, <2>2 DEF Started, Counted
    <2>6. Shape'
      BY <1>1, <1>2, <1>12, <2>1, <2>4 DEF Shape
    <2> QED
      BY <1>1, <1>2, <1>12, <2>3, <2>4, <2>5, <2>6 DEF IInv, Counted
  <1>13. CASE (write_bytes(f, x) \/ UNCHANGED device) /\ fail(TRUE)
    <2>1. tx' = Idle /\ UNCHANGED cache
      BY <1>13 DEF fail
    <2>2. DeviceOK' /\ Sound' /\ Survivors'
      <3>1. CASE write_bytes(f, x)
        <4>1. \A j \in Homes : home'[j] = IF j = f THEN x ELSE home[j]
          BY <1>2, <1>5, <3>1, Wrote
        <4>2. \A g \in Files : cache'[g] \subseteq home'[g]
          BY <1>4, <1>5, <1>7, <1>16, <2>1, <4>1
        <4> QED
          BY <1>11, <2>1, <3>1, <4>2
      <3>2. CASE UNCHANGED device
        BY <1>1, <1>2, <2>1, <3>2 DEF device, DeviceOK, Sound, Survivors
      <3> QED
        BY <1>13, <3>1, <3>2
    <2> QED
      BY <1>1, <1>13, <2>2, Poisons
  <1> QED
    BY <1>12, <1>13, <1>15

-----------------------------------------------------------------------------
(* Releasing a file's blocks *)

\* A release takes the file's blocks out of the bitmap and counts them free.
LEMMA ReleaseStep ==
    ASSUME IInv, Release
    PROVE  IInv'
  <1>1. PICK f \in Files :
          /\ tx = Idle /\ ~poisoned /\ ~torn /\ cache[f] # {}
          /\ tx' = [pc |-> "direct", file |-> f, run |-> cache[f], k |-> 1,
                    order |-> ReleaseOrder(f), original |-> home,
                    staged |-> [home EXCEPT !["bitmap"] = @ \ cache[f],
                                            !["gdt"] = @ + Cardinality(cache[f]),
                                            !["sb"] = @ + Cardinality(cache[f]),
                                            ![f] = {}]]
          /\ loose' = loose \cup cache[f]
          /\ UNCHANGED <<home, homes, data, datas, cache, poisoned, torn, losses>>
    BY DEF Release, ReleaseOrder, device
  <1> DEFINE run == cache[f]
             n == Cardinality(run)
             staged == [home EXCEPT !["bitmap"] = @ \ run, !["gdt"] = @ + n, !["sb"] = @ + n, ![f] = {}]
  <1>2. /\ tx' = [pc |-> "direct", file |-> f, run |-> run, k |-> 1, order |-> ReleaseOrder(f),
                  original |-> home, staged |-> staged]
    BY <1>1
  <1>3. /\ Homes = {"bitmap", "gdt", "sb"} \cup Files /\ Published = {"gdt", "sb"} \cup Files
        /\ "bitmap" \notin Files /\ "gdt" \notin Files /\ "sb" \notin Files
    BY HomeNames DEF Published
  <1>4. Shape /\ Sound /\ (\A h \in Published : cache[h] = home[h])
        /\ (losses = 0 => Counted(home))
    BY <1>1 DEF IInv
  <1>5. home \in [Homes -> Values] /\ \A h \in Homes : home[h] \in Images(h)
    BY <1>4 DEF Shape, DeviceOK
  <1>6. /\ home["bitmap"] \subseteq Blocks /\ home["gdt"] \in Int /\ home["sb"] \in Int
        /\ \A g \in Files : home[g] \subseteq Blocks /\ home[g] \subseteq home["bitmap"] /\ home[g] \cap loose = {}
    <2>1. \A g \in Files : home[g] \subseteq home["bitmap"] /\ home[g] \cap loose = {}
      BY <1>1, <1>4 DEF Sound, Releasing
    <2> QED
      BY <1>3, <1>5, <2>1 DEF Images
  <1>7. run = home[f] /\ run \subseteq Blocks /\ run \subseteq home["bitmap"] /\ run # {}
    BY <1>1, <1>3, <1>4, <1>6
  <1>8. n \in Nat
    BY <1>7, ClearBlocks
  <1> HIDE DEF run, n
  <1>9. /\ staged["bitmap"] = home["bitmap"] \ run
        /\ staged["gdt"] = home["gdt"] + n /\ staged["sb"] = home["sb"] + n
        /\ staged[f] = {}
        /\ \A g \in Files : g # f => staged[g] = home[g]
    BY <1>3, <1>5
  <1>10. \A h \in Homes : staged[h] \in Images(h)
    <2> HIDE DEF staged
    <2>1. staged["bitmap"] \in SUBSET Blocks /\ staged["gdt"] \in Int /\ staged["sb"] \in Int
      BY <1>6, <1>8, <1>9
    <2>2. \A g \in Files : staged[g] \in SUBSET Blocks
      BY <1>6, <1>9
    <2> QED
      BY <1>3, <2>1, <2>2 DEF Images
  <1>11. staged \in [Homes -> Values]
    <2>1. \A h \in Homes : staged[h] \in Values
      BY <1>10 DEF Images, Values
    <2>2. staged = [h \in Homes |-> staged[h]]
      BY <1>5
    <2> HIDE DEF staged
    <2> QED
      BY <2>1, <2>2
  <1> HIDE DEF staged
  <1>12. /\ tx'.pc = "direct" /\ tx'.file = f /\ tx'.run = run /\ tx'.k = 1 /\ tx'.order = ReleaseOrder(f)
         /\ tx'.original = home /\ tx'.staged = staged
    BY <1>2
  <1>13. tx' \in Transactions /\ tx' # Idle
    <2>1. tx' # Idle
      BY <1>12 DEF Idle
    <2> QED
      BY <1>2, <1>5, <1>7, <1>11, <2>1 DEF Transactions
  <1>14. loose' = loose \cup run /\ loose' \subseteq Blocks /\ loose' # {}
    BY <1>1, <1>4, <1>7 DEF run, Shape
  <1>15. Shape'
    BY <1>1, <1>4, <1>13, <1>14 DEF Shape, DeviceOK
  <1>16. Sound'
    <2>1. \A g \in Files : (home[g] \ loose') \subseteq home["bitmap"] /\ cache[g] \subseteq home[g]
      BY <1>4, <1>6, <1>14 DEF Sound
    <2>2. \A g \in Files : ~Releasing(g)' => home[g] \cap loose' = {}
      <3>1. \A g \in Files : ~Releasing(g)' => g # f
        BY <1>12, <1>13 DEF Releasing
      <3>2. \A g \in Files : g # f => home[g] \cap home[f] = {}
        BY <1>4 DEF Sound
      <3> QED
        BY <1>6, <1>7, <1>14, <3>1, <3>2
    <2> QED
      BY <1>1, <1>4, <2>1, <2>2 DEF Sound
  <1>17. losses = 0 => Counted(staged)
    <2>1. Cardinality(Blocks \ (home["bitmap"] \ run)) = Cardinality(Blocks \ home["bitmap"]) + n
      BY <1>7, ClearBlocks DEF n
    <2> QED
      BY <1>4, <1>9, <2>1 DEF Counted
  <1>18. Started'
    BY <1>1, <1>3, <1>4, <1>5, <1>6, <1>9, <1>10, <1>12, <1>17 DEF Started, Counted
  <1>19. ReleaseAt'
    <2>1. ReleasedBelow(home', tx', 1)
      BY <1>1, <1>12 DEF ReleasedBelow
    <2>2. /\ tx'.order = ReleaseOrder(tx'.file) /\ tx'.k \in 1 .. 4
          /\ tx'.run = tx'.original[tx'.file] /\ tx'.run # {} /\ tx'.run \subseteq loose'
      BY <1>7, <1>12, <1>14
    <2>3. tx'.staged[tx'.file] = {} /\ tx'.staged["bitmap"] = tx'.original["bitmap"] \ tx'.run
      BY <1>9, <1>12
    <2>4. ReleasedBelow(home', tx', tx'.k)
      BY <1>12, <2>1
    <2> QED
      BY <2>2, <2>3, <2>4 DEF ReleaseAt, ReleaseOrder
  <1> QED
    BY <1>1, <1>12, <1>13, <1>14, <1>15, <1>16, <1>18, <1>19 DEF IInv

\* commit_direct publishes only after its last write; a failed one leaves a torn release.
LEMMA CommitDirectStep ==
    ASSUME IInv, commit_direct
    PROVE  IInv'
  <1> DEFINE h == tx.order[tx.k]
             x == tx.staged[h]
             f == tx.file
  <1>1. tx # Idle /\ tx.pc = "direct" /\ UNCHANGED loose
    BY DEF commit_direct, Idle
  <1>2. /\ Shape /\ Sound /\ Started /\ ReleaseAt /\ torn = FALSE /\ poisoned = FALSE /\ DeviceOK
        /\ tx \in Transactions /\ f \in Files /\ tx.run \subseteq Blocks /\ tx.k \in 1 .. 4
    BY <1>1, Facts DEF Shape, ReleaseAt
  <1>3. /\ Homes = {"bitmap", "gdt", "sb"} \cup Files /\ Published = {"gdt", "sb"} \cup Files
        /\ "bitmap" \notin Files /\ "gdt" \notin Files /\ "sb" \notin Files
    BY HomeNames DEF Published
  <1>4. /\ Len(tx.order) = 4 /\ tx.order[1] = "sb" /\ tx.order[2] = "gdt"
        /\ tx.order[3] = "bitmap" /\ tx.order[4] = f
    BY <1>2, HomeNames DEF ReleaseAt
  <1>5. h \in Homes /\ x \in Images(h) /\ (h \in Files <=> tx.k = 4) /\ (tx.k = 4 => h = f)
    <2>1. tx.k = 1 \/ tx.k = 2 \/ tx.k = 3 \/ tx.k = 4
      BY <1>2
    <2>2. h \in Homes /\ (h \in Files <=> tx.k = 4) /\ (tx.k = 4 => h = f)
      BY <1>2, <1>3, <1>4, <2>1
    <2> QED
      BY <1>2, <2>2 DEF Started
  <1>6. \/ write_bytes(h, x) /\ tx.k < 4 /\ Continue("direct", tx.k + 1)
        \/ /\ write_bytes(h, x) /\ tx.k = 4
           /\ cache' = [g \in DOMAIN cache |-> tx.staged[g]] /\ tx' = Idle
           /\ UNCHANGED <<poisoned, torn, losses>>
        \/ /\ write_bytes(h, x) \/ UNCHANGED device
           /\ tx' = Idle /\ poisoned' = TRUE /\ torn' = TRUE /\ UNCHANGED <<cache, losses>>
    BY <1>4 DEF commit_direct, FailedWrite
  <1>7. /\ tx.run = tx.original[f] /\ tx.run # {} /\ tx.run \subseteq loose /\ tx.staged[f] = {}
        /\ tx.staged["bitmap"] = tx.original["bitmap"] \ tx.run /\ ReleasedBelow(home, tx, tx.k)
    BY <1>2 DEF ReleaseAt
  <1>8. \A g \in Files : /\ home[g] = tx.original[g] /\ cache[g] = tx.original[g]
                         /\ tx.original[g] \subseteq tx.original["bitmap"]
                         /\ g # f => tx.staged[g] = tx.original[g]
    BY <1>2, <1>3 DEF Started
  <1>9. \A g \in Files : g # f => tx.original[g] \cap tx.run = {} /\ tx.original[g] \cap loose = {}
    BY <1>1, <1>2, <1>7, <1>8 DEF Sound, Releasing
  <1>10. \A i \in 1 .. 4 : tx.order[i] \in Homes /\ (tx.order[i] = h <=> i = tx.k)
    BY <1>2, <1>3, <1>4
  <1>11. home["bitmap"] \in {tx.original["bitmap"], tx.staged["bitmap"]}
         /\ (h = "bitmap" => x = tx.staged["bitmap"])
    BY <1>2, <1>4, <1>7 DEF ReleasedBelow
  <1>12. x = tx.staged[h]
    OBVIOUS
  <1> HIDE DEF h, x, f
  <1>13. ASSUME write_bytes(h, x)
         PROVE  /\ DeviceOK' /\ data' = data
                /\ \A j \in Homes : home'[j] = IF j = h THEN x ELSE home[j]
    BY <1>2, <1>5, <1>13, Wrote
  <1>14. ASSUME write_bytes(h, x)
         PROVE  ReleasedBelow(home', tx, tx.k + 1)
    <2>1. \A j \in Homes : home'[j] = IF j = h THEN x ELSE home[j]
      BY <1>13, <1>14
    <2> QED
      BY <1>2, <1>7, <1>10, <1>12, <2>1 DEF ReleasedBelow
  <1>15. CASE write_bytes(h, x) /\ tx.k < 4 /\ Continue("direct", tx.k + 1)
    <2>1. /\ DeviceOK' /\ data' = data /\ ReleasedBelow(home', tx, tx.k + 1)
          /\ \A j \in Homes : home'[j] = IF j = h THEN x ELSE home[j]
      BY <1>13, <1>14, <1>15
    <2>2. tx.k + 1 \in Nat /\ tx.k + 1 \in 1 .. 4
      BY <1>2, <1>15
    <2>3. /\ tx' \in Transactions /\ tx' # Idle /\ tx'.pc = "direct" /\ tx'.k = tx.k + 1
          /\ tx'.file = tx.file /\ tx'.run = tx.run /\ tx'.order = tx.order
          /\ tx'.original = tx.original /\ tx'.staged = tx.staged
          /\ UNCHANGED <<cache, poisoned, torn, losses>>
      BY <1>1, <1>2, <1>15, <2>2, GoesOn
    <2>4. \A g \in Files : home'[g] = home[g]
      BY <1>3, <1>5, <1>15, <2>1
    <2>5. Shape'
      BY <1>1, <1>2, <2>1, <2>3 DEF Shape
    <2>6. Started'
      BY <1>2, <2>3, <2>4 DEF Started, Counted
    <2>7. ReleaseAt'
      <3>1. ReleasedBelow(home', tx', tx'.k)
        BY <2>1, <2>3 DEF ReleasedBelow
      <3> QED
        BY <1>1, <1>2, <2>2, <2>3, <3>1 DEF ReleaseAt
    <2>8. \A g \in Files : home[g] \ loose \subseteq home'["bitmap"]
      <3>1. home'["bitmap"] \in {tx.original["bitmap"], tx.staged["bitmap"]}
        BY <1>3, <1>11, <2>1
      <3>2. \A g \in Files : home[g] \ loose \subseteq tx.original["bitmap"] \ tx.run
        BY <1>7, <1>8, <1>9
      <3> QED
        BY <1>7, <3>1, <3>2
    <2>9. Sound'
      <3>1. \A g \in Files : Releasing(g) => Releasing(g)'
        BY <1>1, <2>3 DEF Releasing
      <3> QED
        BY <1>1, <1>2, <2>1, <2>3, <2>4, <2>8, <3>1 DEF Sound
    <2> QED
      BY <1>1, <1>2, <1>7, <2>3, <2>5, <2>6, <2>7, <2>9 DEF IInv
  <1>16. CASE /\ write_bytes(h, x) /\ tx.k = 4 /\ tx' = Idle
              /\ cache' = [g \in DOMAIN cache |-> tx.staged[g]]
              /\ UNCHANGED <<poisoned, torn, losses>>
    <2>1. /\ DeviceOK' /\ data' = data /\ ReleasedBelow(home', tx, 5)
          /\ \A j \in Homes : home'[j] = IF j = h THEN x ELSE home[j]
      BY <1>13, <1>14, <1>16
    <2>2. cache' \in [Published -> Values] /\ \A j \in Published : cache'[j] = tx.staged[j]
      BY <1>2, <1>3, <1>16 DEF Shape, Transactions
    <2>3. /\ home'["sb"] = tx.staged["sb"] /\ home'["gdt"] = tx.staged["gdt"]
          /\ home'["bitmap"] = tx.staged["bitmap"] /\ home'[f] = tx.staged[f]
      BY <1>4, <2>1 DEF ReleasedBelow
    <2>4. \A g \in Files : home'[g] = tx.staged[g]
      BY <1>3, <1>5, <1>8, <1>16, <2>1, <2>3
    <2>5. \A j \in Published : cache'[j] = home'[j]
      BY <1>3, <2>2, <2>3, <2>4
    <2>6. losses = 0 => Counted(home')
      BY <1>2, <2>3 DEF Started, Counted
    <2>7. Shape'
      BY <1>1, <1>2, <1>16, <2>1, <2>2 DEF Shape
    <2>8. \A g \in Files : /\ home'[g] \subseteq home[g] /\ home'[g] \cap loose = {}
                           /\ home'[g] \subseteq home'["bitmap"]
      BY <1>7, <1>8, <1>9, <2>3, <2>4
    <2>9. Sound'
      <3>1. \A g \in Files : cache'[g] \subseteq home'[g]
        BY <1>3, <2>5
      <3> QED
        BY <1>1, <1>2, <2>1, <2>8, <3>1 DEF Sound
    <2> QED
      BY <1>1, <1>2, <1>7, <1>16, <2>5, <2>6, <2>7, <2>9 DEF IInv, Counted
  <1>17. CASE /\ write_bytes(h, x) \/ UNCHANGED device
              /\ tx' = Idle /\ poisoned' = TRUE /\ torn' = TRUE /\ UNCHANGED <<cache, losses>>
    <2>1. DeviceOK'
      <3>1. CASE UNCHANGED device
        BY <1>2, <3>1 DEF device, DeviceOK
      <3> QED
        BY <1>13, <1>17, <3>1
    <2>2. Shape'
      BY <1>1, <1>2, <1>17, <2>1 DEF Shape
    <2> QED
      BY <1>17, <2>2 DEF IInv
  <1> QED
    BY <1>6, <1>15, <1>16, <1>17

-----------------------------------------------------------------------------
(* Data, power, and the invariant *)

\* A file's data goes into a block it maps, which no other file maps.
LEMMA FillStep ==
    ASSUME IInv, Fill
    PROVE  IInv'
  <1>1. PICK f \in Files : \E b \in cache[f] : data[b] # f /\ WriteData({b}, f)
    BY DEF Fill
  <1>2. PICK b \in cache[f] : WriteData({b}, f)
    BY <1>1
  <1>3. tx = Idle /\ ~torn /\ UNCHANGED <<cache, tx, poisoned, loose, torn, losses>>
    BY DEF Fill
  <1>4. Shape /\ DeviceOK /\ Sound /\ (loose = {} => Survivors)
    BY <1>3 DEF IInv, Shape
  <1>5. f \in Homes /\ home[f] \subseteq Blocks /\ home[f] \in homes[f] /\ b \in home[f]
    <2>1. f \in Homes
      BY HomeNames
    <2>2. home[f] \in homes[f] /\ homes[f] \subseteq SUBSET Blocks
      BY <1>4, <2>1, HomeNames DEF DeviceOK, Images
    <2> QED
      BY <1>2, <1>4, <2>1, <2>2 DEF Sound
  <1>6. {b} \in SUBSET Blocks /\ f \in Contents
    BY <1>5 DEF Contents
  <1>7. \A g \in Files : f \in {Zero, g} \/ home[g] \cap {b} = {}
    BY <1>4, <1>5 DEF Sound
  <1>8. loose = {} => \A g \in Files : f \in {Zero, g} \/ \A y \in homes[g] : y \cap {b} = {}
    BY <1>4, <1>5 DEF Survivors
  <1>9. \A g \in Files : Releasing(g) => Releasing(g)'
    BY <1>3 DEF Releasing
  <1>10. Sound' /\ (loose' = {} => Survivors')
    BY <1>2, <1>3, <1>4, <1>6, <1>7, <1>8, <1>9, DataIsSound
  <1>11. DeviceOK' /\ home' = home
    BY <1>2, <1>4, <1>6, WroteData
  <1>12. Shape'
    BY <1>3, <1>4, <1>11 DEF Shape
  <1> QED
    BY <1>3, <1>10, <1>11, <1>12 DEF IInv, Counted

\* After a power loss the next mount reads whatever survived.
LEMMA PowerLossStep ==
    ASSUME IInv, PowerLoss
    PROVE  IInv'
  <1>1. /\ Homes = {"bitmap", "gdt", "sb"} \cup Files /\ Published = {"gdt", "sb"} \cup Files
        /\ "bitmap" \notin Files /\ "gdt" \notin Files /\ "sb" \notin Files
    BY HomeNames DEF Published
  <1>2. /\ ~torn /\ losses' = losses + 1 /\ tx' = Idle /\ poisoned' = FALSE /\ loose' = {}
        /\ torn' = (loose # {}) /\ cache' = [h \in DOMAIN cache |-> home'[h]]
        /\ homes' = [h \in Homes |-> {home'[h]}] /\ datas' = [b \in Blocks |-> {data'[b]}]
        /\ data' \in [Blocks -> Contents] /\ \A b \in Blocks : data'[b] \in datas[b]
    BY DEF PowerLoss, Contents
  <1>3. Shape /\ DeviceOK /\ Sound /\ (loose = {} => Survivors)
    BY <1>2 DEF IInv, Shape
  <1>4. home' = [h \in Homes |-> home'[h]] /\ \A h \in Homes : home'[h] \in homes[h]
    <2>1. PICK m \in homes["bitmap"], g \in homes["gdt"], s \in homes["sb"] :
            \E i \in [Files -> UNION {homes[f] : f \in Files}] :
              /\ \A f \in Files : i[f] \in homes[f]
              /\ home' = [h \in Homes |-> IF h \in Files THEN i[h]
                                          ELSE IF h = "bitmap" THEN m ELSE IF h = "gdt" THEN g ELSE s]
      BY DEF PowerLoss
    <2>2. PICK i : /\ \A f \in Files : i[f] \in homes[f]
                   /\ home' = [h \in Homes |-> IF h \in Files THEN i[h]
                                               ELSE IF h = "bitmap" THEN m ELSE IF h = "gdt" THEN g ELSE s]
      BY <2>1
    <2>3. \A h \in Homes : home'[h] = IF h \in Files THEN i[h]
                                      ELSE IF h = "bitmap" THEN m ELSE IF h = "gdt" THEN g ELSE s
      BY <2>2
    <2>4. home' = [h \in Homes |-> home'[h]]
      BY <2>2
    <2>5. ASSUME NEW h \in Homes PROVE home'[h] \in homes[h]
      <3>1. h \in Files \/ h = "bitmap" \/ h = "gdt" \/ h = "sb"
        BY <1>1
      <3>2. CASE h \in Files
        BY <2>2, <2>3, <3>2
      <3>3. CASE h = "bitmap"
        BY <1>1, <2>1, <2>3, <3>3
      <3>4. CASE h = "gdt"
        BY <1>1, <2>1, <2>3, <3>4
      <3>5. CASE h = "sb"
        BY <1>1, <2>1, <2>3, <3>5
      <3> QED
        BY <3>1, <3>2, <3>3, <3>4, <3>5
    <2> QED
      BY <2>4, <2>5
  <1>5. \A h \in Homes : home'[h] \in Images(h) /\ home'[h] \in Values /\ homes'[h] = {home'[h]}
    BY <1>2, <1>3, <1>4 DEF DeviceOK
  <1>6. \A b \in Blocks : datas'[b] = {data'[b]} /\ data'[b] \in Contents
    BY <1>2
  <1>7. DeviceOK'
    <2>1. home' \in [Homes -> Values] /\ homes' \in [Homes -> SUBSET Values]
      BY <1>2, <1>4, <1>5
    <2>2. datas' \in [Blocks -> SUBSET Contents]
      BY <1>2, <1>6
    <2> QED
      BY <1>2, <1>5, <1>6, <2>1, <2>2 DEF DeviceOK
  <1>8. cache' \in [Published -> Values] /\ \A h \in Published : cache'[h] = home'[h]
    BY <1>1, <1>2, <1>3, <1>5 DEF Shape
  <1>9. Shape'
    <2>1. torn' \in BOOLEAN /\ losses' \in Nat
      <3>1. CASE loose = {}
        BY <1>2, <1>3, <3>1 DEF Shape
      <3>2. CASE loose # {}
        BY <1>2, <1>3, <3>2 DEF Shape
      <3> QED
        BY <3>1, <3>2
    <2> QED
      BY <1>2, <1>7, <1>8, <2>1 DEF Shape
  <1>10. losses' # 0
    BY <1>2, <1>3 DEF Shape
  <1>11. ASSUME ~torn' PROVE Sound' /\ Survivors'
    <2>1. Survivors
      BY <1>2, <1>3, <1>11
    <2>2. \A f \in Files : home'[f] \subseteq home'["bitmap"]
      BY <1>1, <1>4, <2>1 DEF Survivors
    <2>3. \A f, g \in Files : f # g => home'[f] \cap home'[g] = {}
      BY <1>1, <1>4, <2>1 DEF Survivors
    <2>4. \A f \in Files : \A b \in home'[f] : b \in Blocks /\ data'[b] \in {Zero, f}
      <3>1. \A f \in Files : home'[f] \subseteq Blocks
        BY <1>1, <1>5 DEF Images
      <3>2. \A f \in Files : \A b \in home'[f] : datas[b] \subseteq {Zero, f}
        BY <1>1, <1>4, <2>1 DEF Survivors
      <3> QED
        BY <1>2, <3>1, <3>2
    <2>5. \A f \in Files : cache'[f] = home'[f]
      BY <1>1, <1>8
    <2>6. Sound'
      BY <1>2, <2>2, <2>3, <2>4, <2>5 DEF Sound
    <2>7. \A h \in {"bitmap"} \cup Files : homes'[h] = {home'[h]}
      BY <1>1, <1>5
    <2>8. Survivors'
      <3>1. \A f \in Files : \A x \in homes'[f] : x = home'[f]
        BY <2>7
      <3>2. \A m \in homes'["bitmap"] : m = home'["bitmap"]
        BY <2>7
      <3>3. \A f \in Files : \A x \in homes'[f] : \A m \in homes'["bitmap"] : x \subseteq m
        BY <2>2, <3>1, <3>2
      <3>4. \A f, g \in Files : f # g => \A x \in homes'[f], y \in homes'[g] : x \cap y = {}
        BY <2>3, <3>1
      <3>5. \A f \in Files : \A x \in homes'[f] : \A b \in x : datas'[b] \subseteq {Zero, f}
        BY <1>6, <2>4, <3>1
      <3> QED
        BY <3>3, <3>4, <3>5 DEF Survivors
    <2> QED
      BY <2>6, <2>8
  <1> QED
    BY <1>2, <1>8, <1>9, <1>10, <1>11 DEF IInv

\* The empty file system.
LEMMA InitOK == Init => IInv
  <1> SUFFICES ASSUME Init PROVE IInv
    OBVIOUS
  <1>1. /\ Homes = {"bitmap", "gdt", "sb"} \cup Files /\ Published = {"gdt", "sb"} \cup Files
        /\ "bitmap" \notin Files /\ "gdt" \notin Files /\ "sb" \notin Files
    BY HomeNames DEF Published
  <1>2. BlockCount \in Nat
    BY DirectRangeAssumption
  <1>3. /\ tx = Idle /\ poisoned = FALSE /\ loose = {} /\ torn = FALSE /\ losses = 0
        /\ home = [h \in Homes |-> IF h \in {"gdt", "sb"} THEN BlockCount ELSE {}]
        /\ homes = [h \in Homes |-> {home[h]}]
        /\ data = [b \in Blocks |-> Garbage] /\ datas = [b \in Blocks |-> {data[b]}]
        /\ cache = [h \in Published |-> home[h]]
    BY DEF Init, Published
  <1>4. /\ \A h \in Homes : home[h] = (IF h \in {"gdt", "sb"} THEN BlockCount ELSE {}) /\ homes[h] = {home[h]}
        /\ \A b \in Blocks : data[b] = Garbage /\ datas[b] = {data[b]}
        /\ \A h \in Published : cache[h] = home[h]
    BY <1>3
  <1>5. \A h \in Homes : home[h] \in Images(h) /\ home[h] \in Values
    BY <1>2, <1>4 DEF Images, Values
  <1>6. DeviceOK
    <2>1. home \in [Homes -> Values] /\ homes \in [Homes -> SUBSET Values]
      BY <1>3, <1>5
    <2>2. data \in [Blocks -> Contents] /\ datas \in [Blocks -> SUBSET Contents]
      BY <1>3 DEF Contents
    <2> QED
      BY <1>4, <1>5, <2>1, <2>2 DEF DeviceOK
  <1>7. Shape
    <2>1. cache \in [Published -> Values]
      BY <1>1, <1>3, <1>5
    <2> QED
      BY <1>3, <1>6, <2>1 DEF Shape
  <1>8. \A f \in Files : home[f] = {} /\ cache[f] = {} /\ homes[f] = {{}}
    BY <1>1, <1>4
  <1>9. Sound /\ Survivors
    <2>1. \A f \in Files : \A x \in homes[f] : x = {}
      BY <1>8
    <2>2. Survivors
      BY <2>1 DEF Survivors
    <2>3. Sound
      BY <1>8 DEF Sound
    <2> QED
      BY <2>2, <2>3
  <1>10. Counted(home)
    <2>1. home["bitmap"] = {} /\ home["gdt"] = BlockCount /\ home["sb"] = BlockCount
      BY <1>1, <1>4
    <2>2. Cardinality(1 .. BlockCount) = BlockCount
      BY <1>2, FS_Interval
    <2> QED
      BY <2>1, <2>2 DEF Counted, Blocks
  <1> QED
    BY <1>3, <1>4, <1>7, <1>9, <1>10 DEF IInv

\* Every step keeps the invariant.
LEMMA NextOK == IInv /\ [Next]_vars => IInv'
  <1> SUFFICES ASSUME IInv, [Next]_vars PROVE IInv'
    OBVIOUS
  <1>1. CASE UNCHANGED vars
    <2>1. UNCHANGED <<home, homes, data, datas, cache, tx, poisoned, loose, torn, losses>>
      BY <1>1 DEF vars, device
    <2>2. Shape' /\ (Sound <=> Sound') /\ (Survivors <=> Survivors')
      BY <2>1 DEF IInv, Shape, DeviceOK, Sound, Survivors, Releasing
    <2>3. (Started <=> Started') /\ (ReleaseAt <=> ReleaseAt') /\ (RangeAt <=> RangeAt')
      BY <2>1 DEF Started, ReleaseAt, RangeAt, RangeStaged, RangeDurable, WrittenBelow, RestoredAbove,
                  ReleasedBelow, Counted
    <2> QED
      BY <2>1, <2>2, <2>3 DEF IInv, Counted
  <1> QED
    BY <1>1, PrepareStep, InitializeStep, WriteHomeStep, FlushHomesStep, WriteInodeStep, RollbackStep,
       ReleaseStep, CommitDirectStep, FillStep, PowerLossStep DEF Next, Ended

\* The invariant holds in every reachable state, with any number of transactions,
\* failed writes and power losses.
THEOREM Invariance == Spec => []IInv
  BY InitOK, NextOK, PTL DEF Spec

\* Blocks are owned by one file and taken in the bitmap, at every moment and after a
\* power loss at any moment: commit_direct_range's order of writes and flushes, and its
\* rollback, never let an inode be durable before what owns its blocks.
THEOREM BlocksAreOwnedOnce == Spec => []OwnedOnce
  <1>1. IInv => OwnedOnce
    BY DEF IInv, OwnedOnce, Sound
  <1> QED
    BY <1>1, Invariance, PTL

\* A file never maps what another file, or nobody, wrote: initialize_direct_range's zeros
\* are durable before the inode that maps them can be.
THEOREM DataIsTheFilesOwn == Spec => []NoStaleData
  <1>1. IInv => NoStaleData
    BY DEF IInv, NoStaleData, Sound
  <1> QED
    BY <1>1, Invariance, PTL

\* A transaction that fails without poison leaves the caches true and the counts exact.
THEOREM AbortsAreClean == Spec => []AbortIsClean
  <1>1. ASSUME IInv PROVE AbortIsClean
    <2>1. DOMAIN cache = Published
      BY <1>1 DEF IInv, Shape
    <2> QED
      BY <1>1, <2>1 DEF IInv, AbortIsClean, Counted, Free
  <1> QED
    BY <1>1, Invariance, PTL

=============================================================================
