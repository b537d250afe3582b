-------------------------- MODULE FlashFile_proofs --------------------------
(* Proofs about FlashFile.  TypeInv holds whatever fails; StoreInv says what *)
(* the sector holds at each point of a call as long as no flash operation    *)
(* fails by itself and no start-up has taken bytes beside an MRU for one.    *)
EXTENDS FlashFile, SequenceTheorems, FiniteSetTheorems, TLAPS

(* What a byte of the sector can be: a plain byte, or a byte of the CRC of
   contents that some call meant to store. *)
Sector == 0 .. FLASHFILE_PAGE_END
Bytes  == [1 .. 1 -> Nat]
Known(t) == Bytes \cup t

(* The operations of a call stay in the sector and program known bytes. *)
Op(t) == [op : {"erase"}]
           \cup [op : {"destroy"}, at : Int]
           \cup [op : {"byte"}, at : Sector, data : Known(t)]
           \cup [op : {"word"}, at : Sector, data : [1 .. W -> Known(t)]]
           \cup [op : {"point"}, file : 0 .. SearchEnd, mru : FileLen .. FLASHFILE_PAGE_END]
(* Those of a plan that writes a file leave room for an MRU. *)
RoomOp(t) == {o \in Op(t) : o.op = "point" => o.mru <= FLASHFILE_PAGE_END - W}

TypeInv ==
  /\ flash \in [Sector -> Known(tried)]
  /\ nvm_file \in {Null} \cup 0 .. SearchEnd
  /\ mru \in {Null} \cup FileLen .. FLASHFILE_PAGE_END
  /\ cache \in [1 .. L -> Known(tried)]
  /\ cache_dirty \in BOOLEAN /\ torn \in BOOLEAN /\ slid \in BOOLEAN
  /\ pc \in {"boot", "bootMru", "booted", "failed", "unloaded", "idle", "flush", "write", "ended"}
  /\ work \in Seq(Op(tried))
  /\ fails \in Nat
  /\ pc \notin {"boot", "write", "failed"} => nvm_file # Null
  /\ pc = "write" =>
       /\ next.then \in {"bootMru", "booted", "flushed", "mode", "moded"}
       /\ nvm_file = Null => next.then = "bootMru" /\ \E p \in DOMAIN work : work[p].op = "point"
  /\ next.then = "mode" => next.data \in Modes
  /\ pc \in {"boot", "bootMru"} => ~NoRoom
  /\ pc = "write" /\ next.then = "bootMru" => ~NoRoom /\ work \in Seq(RoomOp(tried))

----------------------------------------------------------------------------
(* The layout of the sector. *)
M1     == B(101)                       \* the first byte of the magic
Digits == {B(n) : n \in 0 .. 9}        \* what callers store
Marks  == {Data(m) : m \in 1 .. 9}     \* the MRUs they store

FileByte(d, k) == IF k <= W THEN B(100 + k) ELSE IF k <= W + L THEN d[k - W] ELSE d

(* The first n bytes of a file with contents d are at f, and no byte below can
   be taken for a file's first. *)
Begun(f, d, n) ==
  /\ f \in 0 .. SearchEnd /\ Aligned(f) /\ d \in [1 .. L -> Digits]
  /\ \A i \in 0 .. f - 1 : flash[i] # M1
  /\ \A k \in 1 .. n : flash[f + k - 1] = FileByte(d, k)
BlankFrom(i) == \A j \in i .. FLASHFILE_PAGE_END : flash[j] = Blank
(* Behind the file, MRUs that were zeroed, the word w at m, and nothing more. *)
Stored(f, d, m, w) ==
  /\ Begun(f, d, FileLen)
  /\ m \in f + FileLen .. Size - W /\ Aligned(m)
  /\ \A i \in f + FileLen .. m - 1 : flash[i] = B(0)
  /\ Word(m) = w /\ w \in Marks \cup {All(Blank)}
  /\ BlankFrom(m + W)

(* What the next start-up would find. *)
Rest == \/ NvmFiles = {}
        \/ \E f \in 0 .. SearchEnd, m \in Sector : Stored(f, Contents(f), m, Word(m))

(* A call that writes a file: the r-th of its operations, counted from the
   last, and the sector when n of them are left. *)
FileOp(f, d, w, r) ==
  CASE r = 0 -> WriteWord(f + FileLen, w)
    [] r = 1 -> Point(f, f + FileLen)
    [] OTHER -> [op |-> "byte", at |-> f + FileLen + 1 - r, data |-> FileByte(d, FileLen + 2 - r)]
Done(n) == IF n = 1 THEN FileLen ELSE FileLen + 2 - n       \* bytes of it written
FileWork(f, d, w) ==
  LET n == Len(work)
  IN  /\ n <= FileLen + 3
      /\ \A p \in 1 .. n : p > n - FileLen - 2 => work[p] = FileOp(f, d, w, n - p)
      /\ f \in 0 .. SearchEnd /\ Aligned(f) /\ d \in [1 .. L -> Digits] /\ w \in Marks
      /\ n = FileLen + 3 =>
           \/ work[1] = Erase /\ f = 0
           \/ /\ work[1] = Destroy /\ BlankFrom(f)
              /\ nvm_file \in 0 .. f - 1 /\ Aligned(nvm_file)
              /\ \A i \in 0 .. f - 1 : i # nvm_file => flash[i] # M1
      /\ n \in 1 .. FileLen + 2 =>
           Begun(f, d, Done(n)) /\ BlankFrom(f + Done(n))
      /\ n <= 1 => nvm_file = f /\ mru = f + FileLen
      /\ n = 0 => Stored(f, d, mru, w)
(* A call that writes an MRU. *)
MruWork(d, w) ==
  LET n == Len(work)
      m == work[n].at
  IN  /\ n <= 3 /\ w \in Marks
      /\ n = 0 => Stored(nvm_file, d, mru, w)
      /\ n > 0 => work[n] = WriteWord(m, w)
      /\ n = 1 => m = mru
      /\ n > 1 => work[n - 1] = Point(nvm_file, m)
      /\ n \in {1, 2} => Stored(nvm_file, d, m, All(Blank))
      /\ n = 3 => /\ work[1] = WriteWord(mru, All(B(0))) /\ m = mru + W /\ mru <= Size - 2 * W
                  /\ Word(mru) \in Marks /\ Stored(nvm_file, d, mru, Word(mru))

Sound ==
  /\ Rest
  /\ pc = "boot" =>
       /\ nvm_file = Null /\ mru = Null /\ cache = Zeros /\ ~cache_dirty
       /\ \/ torn
          \/ NvmFiles = {} /\ mode = Data(1)
          \/ \E f \in 0 .. SearchEnd, m \in Sector : Stored(f, saved, m, mode) /\ mode \in Marks
  /\ pc = "bootMru" =>
       \E d \in [1 .. L -> Digits], m \in Sector :
         /\ Stored(nvm_file, d, m, Word(m)) /\ (Word(m) \in Marks \/ mru = Null)
         /\ (torn \/ (d = saved /\ Word(m) = mode /\ mode \in Marks))
  /\ pc = "booted" => torn /\ \E d \in [1 .. L -> Digits] : Stored(nvm_file, d, mru, Data(1))
  /\ pc \in {"idle", "flush", "ended"} => 
       /\ Stored(nvm_file, saved, mru, mode) /\ mode \in Marks
  /\ pc = "write" =>
       CASE next.then = "bootMru" -> /\ \E f \in {0} : FileWork(f, cache, Data(1))
                                     /\ cache = Zeros /\ (torn \/ mode = Data(1))
         [] next.then = "booted"  -> /\ \E d \in [1 .. L -> Digits] : MruWork(d, Data(1))
                                     /\ torn
         [] next.then \in {"flushed", "mode"} ->
                \E f \in 0 .. SearchEnd : FileWork(f, cache, mode)
         [] next.then = "moded" -> \/ MruWork(saved, mode)
                                   \/ FileWork(0, saved, mode)
  /\ pc \in {"idle", "flush", "ended"} \/ (pc = "write" /\ next.then \in {"flushed", "mode", "moded"}) =>
       /\ ~torn /\ cache \in [1 .. L -> Digits]
       /\ cache_dirty \/ cache = saved
  /\ pc \notin {"failed", "unloaded"}
StoreInv == fails = 0 /\ ~slid => Sound

----------------------------------------------------------------------------
(* Arithmetic of the sector. *)
LEMMA Sizes ==
  /\ W \in Nat /\ W >= 2 /\ L \in Nat /\ L >= 2 /\ Size \in Nat
  /\ FLASHFILE_PAGE_END = Size - 1
  /\ FileLen = 2 * W + L /\ FileLen \in Nat
  /\ SearchEnd = Size - FileLen - W - 2 /\ SearchEnd \in Nat
  /\ Values \subseteq 1 .. 9 /\ Modes \subseteq 1 .. 9
<1>1. /\ W \in Nat /\ W >= 2 /\ L \in Nat /\ L >= 2 /\ Size \in Nat /\ Size > FileLen + 2 * W
      /\ Values \subseteq 1 .. 9 /\ Modes \subseteq 1 .. 9
  BY FlashAssumption
<1>2. QED
  BY <1>1 DEF FLASHFILE_PAGE_END, FileLen, SearchEnd

LEMMA Multiple == \A i \in Int, w \in Nat \ {0} : i % w = 0 => \E q \in Int : i = w * q
OBVIOUS

LEMMA MultipleIs == \A w \in Nat \ {0} : \A q \in Int : (w * q) % w = 0
OBVIOUS

LEMMA AlignedSum == \A i, j \in Int : Aligned(i) /\ Aligned(j) => Aligned(i + j)
<1> TAKE i, j \in Int
<1> HAVE Aligned(i) /\ Aligned(j)
<1>1. W \in Nat \ {0} /\ i % W = 0 /\ j % W = 0
  BY Sizes DEF Aligned
<1>2. PICK p \in Int : i = W * p
  BY <1>1, Multiple
<1>3. PICK q \in Int : j = W * q
  BY <1>1, Multiple
<1>4. i + j = W * (p + q) /\ p + q \in Int
  BY <1>1, <1>2, <1>3
<1>5. (W * (p + q)) % W = 0
  BY <1>1, <1>4, MultipleIs
<1>6. QED
  BY <1>4, <1>5 DEF Aligned

(* Two words at different aligned offsets do not overlap. *)
LEMMA AlignedGap == \A i, j \in Int : Aligned(i) /\ Aligned(j) /\ i < j => i + W <= j
<1> TAKE i, j \in Int
<1> HAVE Aligned(i) /\ Aligned(j) /\ i < j
<1>1. W \in Nat \ {0} /\ i % W = 0 /\ j % W = 0
  BY Sizes DEF Aligned
<1>2. PICK p \in Int : i = W * p
  BY <1>1, Multiple
<1>3. PICK q \in Int : j = W * q
  BY <1>1, Multiple
<1>4. p < q
  <2> SUFFICES ASSUME p >= q PROVE FALSE
    OBVIOUS
  <2>1. W * q <= W * p
    BY <1>1
  <2>2. QED
    BY <2>1, <1>2, <1>3
<1>5. W * p + W <= W * q
  BY <1>1, <1>4
<1>6. QED
  BY <1>2, <1>3, <1>5

LEMMA AlignedSizes == Aligned(0) /\ Aligned(W) /\ Aligned(L) /\ Aligned(FileLen) /\ Aligned(Size)
<1>1. W \in Nat \ {0} /\ L \in Int /\ Aligned(L) /\ Aligned(Size)
  BY Sizes, FlashAssumption DEF Aligned
<1>2. Aligned(0) /\ Aligned(W)
  <2>1. (W * 0) % W = 0 /\ (W * 1) % W = 0 /\ W * 0 = 0 /\ W * 1 = W
    BY <1>1, MultipleIs
  <2>2. QED
    BY <2>1 DEF Aligned
<1>3. Aligned(W + W)
  BY <1>1, <1>2, AlignedSum
<1>4. Aligned((W + W) + L)
  BY <1>1, <1>3, AlignedSum
<1>5. FileLen = (W + W) + L
  BY Sizes
<1>6. QED
  BY <1>1, <1>2, <1>4, <1>5

----------------------------------------------------------------------------
(* The operations of a call. *)
Concatenated(r, s, t, m, n) ==
  Len(r) = m + n /\ \A k \in 1 .. m + n : r[k] = IF k <= m THEN s[k] ELSE t[k - m]

LEMMA Concat ==
  ASSUME NEW S, NEW s \in Seq(S), NEW t \in Seq(S), NEW m, NEW n, Len(s) = m, Len(t) = n
  PROVE  s \o t \in Seq(S) /\ Concatenated(s \o t, s, t, m, n)
<1>1. /\ s \o t \in Seq(S) /\ Len(s \o t) = Len(s) + Len(t)
      /\ \A k \in 1 .. Len(s) + Len(t) :
           (s \o t)[k] = IF k <= Len(s) THEN s[k] ELSE t[k - Len(s)]
  BY ConcatProperties
<1>2. QED
  BY <1>1 DEF Concatenated

LEMMA WriteFileIs ==
  ASSUME NEW S, NEW d \in [1 .. L -> S], NEW f
  PROVE  WriteFile(f, d) = [k \in 1 .. FileLen |->
                              [op |-> "byte", at |-> f + k - 1, data |-> FileByte(d, k)]]
<1> DEFINE T == Bytes \cup S \cup {d}
           b == Magic \o d \o Crc(d)
<1>1. W \in Nat /\ L \in Nat /\ FileLen = 2 * W + L
  BY Sizes
<1>2. /\ Magic \in Seq(T) /\ Len(Magic) = W
      /\ d \in Seq(T) /\ Len(d) = L
      /\ Crc(d) \in Seq(T) /\ Len(Crc(d)) = W
  BY <1>1 DEF Magic, Crc, Bytes, B
<1> HIDE DEF T
<1>3. Magic \o d \in Seq(T) /\ Concatenated(Magic \o d, Magic, d, W, L)
  BY <1>2, Concat
<1>4. Concatenated(b, Magic \o d, Crc(d), W + L, W)
  BY <1>2, <1>3, Concat DEF Concatenated
<1> HIDE DEF b
<1>5. ASSUME NEW k \in 1 .. FileLen PROVE b[k] = FileByte(d, k)
  <2>1. b[k] = IF k <= W + L THEN (Magic \o d)[k] ELSE Crc(d)[k - (W + L)]
    BY <1>1, <1>4, k \in 1 .. (W + L) + W DEF Concatenated
  <2>2. k > W + L => Crc(d)[k - (W + L)] = d
    BY <1>1 DEF Crc
  <2>3. k <= W => Magic[k] = B(100 + k)
    BY <1>1 DEF Magic
  <2>4. QED
    BY <1>1, <1>3, <2>1, <2>2, <2>3 DEF FileByte, Concatenated
<1>6. QED
  BY <1>5 DEF WriteFile, b

(* A plan that writes a file, as a function of the position from its end. *)
FilePlan(first, f, d, w) ==
  <<first>> \o WriteFile(f, d) \o <<Point(f, f + FileLen), WriteWord(f + FileLen, w)>>

FileParts(T, first, f, d, w) ==
  /\ first \in T /\ Point(f, f + FileLen) \in T /\ WriteWord(f + FileLen, w) \in T
  /\ \A k \in 1 .. FileLen : [op |-> "byte", at |-> f + k - 1, data |-> FileByte(d, k)] \in T

FilePlanOf(p, first, f, d, w) ==
  /\ Len(p) = FileLen + 3 /\ p[1] = first
  /\ \A k \in 1 .. FileLen :
       p[k + 1] = [op |-> "byte", at |-> f + k - 1, data |-> FileByte(d, k)]
  /\ p[FileLen + 2] = Point(f, f + FileLen)
  /\ p[FileLen + 3] = WriteWord(f + FileLen, w)
  /\ \A T : FileParts(T, first, f, d, w) => p \in Seq(T)

LEMMA FilePlanIs ==
  ASSUME NEW S, NEW d \in [1 .. L -> S], NEW first, NEW f, NEW w
  PROVE  FilePlanOf(FilePlan(first, f, d, w), first, f, d, w)
<1> DEFINE wf == WriteFile(f, d)
           e == <<Point(f, f + FileLen), WriteWord(f + FileLen, w)>>
           p == FilePlan(first, f, d, w)
<1>1. FileLen \in Nat
  BY Sizes
<1>2. wf = [k \in 1 .. FileLen |-> [op |-> "byte", at |-> f + k - 1, data |-> FileByte(d, k)]]
  BY WriteFileIs
<1> HIDE DEF wf
<1>3. ASSUME NEW T, FileParts(T, first, f, d, w)
      PROVE  /\ p \in Seq(T) /\ Len(p) = FileLen + 3 /\ p[1] = first
             /\ \A k \in 1 .. FileLen : p[k + 1] = wf[k]
             /\ p[FileLen + 2] = e[1] /\ p[FileLen + 3] = e[2]
  <2>1. /\ wf \in Seq(T) /\ Len(wf) = FileLen
        /\ <<first>> \in Seq(T) /\ Len(<<first>>) = 1 /\ <<first>>[1] = first
        /\ e \in Seq(T) /\ Len(e) = 2
    BY <1>1, <1>2, <1>3 DEF FileParts
  <2> HIDE DEF e
  <2> DEFINE q == <<first>> \o wf
  <2>2. q \in Seq(T) /\ Concatenated(q, <<first>>, wf, 1, FileLen)
    BY <2>1, Concat
  <2> HIDE DEF q
  <2>7. Len(q) = 1 + FileLen
    BY <2>2 DEF Concatenated
  <2>3. q \o e \in Seq(T) /\ Concatenated(q \o e, q, e, 1 + FileLen, 2)
    BY <2>1, <2>2, <2>7, Concat
  <2>4. p = q \o e
    BY DEF FilePlan, q, e, wf
  <2>5. \A k \in 1 .. FileLen : k + 1 \in 1 .. 1 + FileLen /\ (k + 1) - 1 = k
    BY <1>1
  <2>6. QED
    BY <1>1, <2>1, <2>2, <2>3, <2>4, <2>5 DEF Concatenated
<1>4. FileParts({first} \cup {e[1], e[2]} \cup {wf[k] : k \in 1 .. FileLen}, first, f, d, w)
  BY <1>2 DEF FileParts
<1>5. /\ Len(p) = FileLen + 3 /\ p[1] = first /\ \A k \in 1 .. FileLen : p[k + 1] = wf[k]
      /\ p[FileLen + 2] = e[1] /\ p[FileLen + 3] = e[2]
  BY <1>3, <1>4
<1>6. \A T : FileParts(T, first, f, d, w) => p \in Seq(T)
  BY <1>3
<1>7. QED
  BY <1>2, <1>5, <1>6 DEF FilePlanOf
----------------------------------------------------------------------------
(* Every set of offsets has a lowest one. *)
LEMMA Least ==
  ASSUME NEW S \in SUBSET Nat, S # {}
  PROVE  \E x \in S : \A y \in S : x <= y
<1>1. PICK z \in S : TRUE
  OBVIOUS
<1> DEFINE I == 0 .. z
           Upto(x) == {y \in S : y <= x}
           F == {Upto(x) : x \in S \cap I}
<1>2. IsFiniteSet(I) /\ IsWellFoundedOn(StrictSubsetOrdering(I), FiniteSubsetsOf(I))
  BY <1>1, FS_Interval, FS_StrictSubsetOrderingWellFounded
<1>3. FiniteSubsetsOf(I) = SUBSET I
  BY <1>2, FS_FiniteSubsetsOfFinite
<1>4. F \subseteq SUBSET I /\ F # {}
  <2>1. ASSUME NEW x \in S \cap I PROVE Upto(x) \in SUBSET I
    <3>1. \A y \in S : y <= x => y \in I
      BY <1>1
    <3>2. QED
      BY <3>1
  <2>2. z \in S \cap I
    BY <1>1
  <2> HIDE DEF Upto
  <2>3. QED
    BY <2>1, <2>2
<1> HIDE DEF F, I
<1>5. PICK m \in F : \A u \in F : <<u, m>> \notin StrictSubsetOrdering(I)
  BY <1>2, <1>3, <1>4, WFMin
<1>6. PICK x \in S \cap I : m = Upto(x)
  BY <1>5 DEF F
<1>7. ASSUME NEW y \in S, y < x PROVE FALSE
  <2>1. y \in I /\ Upto(y) \in F
    BY <1>1, <1>6, <1>7 DEF I, F
  <2>2. Upto(y) \subseteq Upto(x) /\ x \in Upto(x) /\ x \notin Upto(y)
    <3>1. x \in Nat /\ y \in Nat /\ x \in S
      OBVIOUS
    <3>2. \A v \in S : v \in Nat /\ (v <= y => v <= x)
      BY <3>1, <1>7
    <3>4. x <= x /\ ~(x <= y)
      BY <3>1, <1>7
    <3>5. Upto(y) \subseteq Upto(x)
      BY <3>2
    <3>6. x \in Upto(x) /\ x \notin Upto(y)
      BY <3>1, <3>4
    <3>3. QED
      BY <3>5, <3>6
  <2>3. <<Upto(y), m>> \in StrictSubsetOrdering(I)
    BY <1>4, <1>5, <1>6, <2>1, <2>2 DEF StrictSubsetOrdering
  <2>4. QED
    BY <1>5, <2>1, <2>3
<1>8. QED
  BY <1>6, <1>7

LEMMA LowestIs ==
  ASSUME NEW S \in SUBSET Nat, S # {}
  PROVE  Lowest(S) \in S /\ \A y \in S : Lowest(S) <= y
BY Least DEF Lowest

----------------------------------------------------------------------------
(* Known bytes. *)
LEMMA PlainBytes == /\ \A n \in Nat : B(n) \in Bytes
                    /\ \A m \in Nat : Data(m) \in [1 .. W -> Bytes]
                    /\ Blank \in Bytes /\ Junk \in Bytes
                    /\ \A b \in Bytes : All(b) \in [1 .. W -> Bytes]
<1>1. \A n \in Nat : B(n) \in Bytes
  BY DEF B, Bytes
<1>2. QED
  BY <1>1 DEF Data, Blank, Junk, All

LEMMA ReadKnown ==
  ASSUME TypeInv, NEW i \in Int
  PROVE  /\ Byte(i) \in Known(tried) /\ Word(i) \in [1 .. W -> Known(tried)]
         /\ Contents(i) \in [1 .. L -> Known(tried)]
<1>1. \A j : Byte(j) \in Known(tried)
  BY PlainBytes DEF Byte, TypeInv, Known
<1>2. QED
  BY <1>1 DEF Word, Contents

LEMMA FileByteKnown ==
  ASSUME NEW t, NEW d \in [1 .. L -> Known(t)], d \in t, NEW k \in 1 .. FileLen
  PROVE  FileByte(d, k) \in Known(t)
<1>1. k <= W => B(100 + k) \in Bytes
  BY Sizes, PlainBytes
<1>2. k > W /\ k <= W + L => d[k - W] \in Known(t)
  BY Sizes
<1>3. QED
  BY <1>1, <1>2, Sizes DEF FileByte, Known

LEMMA OpGrows == \A t, u : t \subseteq u => /\ Known(t) \subseteq Known(u) /\ Op(t) \subseteq Op(u)
                                           /\ Seq(Op(t)) \subseteq Seq(Op(u))
<1> TAKE t, u
<1> HAVE t \subseteq u
<1>1. Known(t) \subseteq Known(u)
  BY DEF Known
<1>2. Op(t) \subseteq Op(u)
  BY <1>1 DEF Op
<1>3. QED
  BY <1>1, <1>2, SeqMonotonic

LEMMA RoomOps == \A t : Seq(RoomOp(t)) \subseteq Seq(Op(t))
<1>1. \A t : RoomOp(t) \subseteq Op(t)
  BY DEF RoomOp
<1>2. QED
  BY <1>1, SeqMonotonic

(* The operations of a plan. *)
HasPoint(p) == \E k \in DOMAIN p : p[k].op = "point"

LEMMA FilePlanOps ==
  ASSUME NEW t, NEW d \in [1 .. L -> Known(t)], d \in t, NEW f \in 0 .. SearchEnd,
         NEW w \in [1 .. W -> Known(t)], NEW first \in RoomOp(t)
  PROVE  FilePlan(first, f, d, w) \in Seq(RoomOp(t)) /\ HasPoint(FilePlan(first, f, d, w))
<1> DEFINE p == FilePlan(first, f, d, w)
<1>1. /\ FileLen \in Nat /\ SearchEnd = Size - FileLen - W - 2 /\ Size \in Nat /\ W \in Nat
      /\ FLASHFILE_PAGE_END = Size - 1
  BY Sizes
<1>2. Point(f, f + FileLen) \in RoomOp(t) /\ WriteWord(f + FileLen, w) \in RoomOp(t)
  <2>1. /\ f + FileLen \in FileLen .. FLASHFILE_PAGE_END /\ f + FileLen \in Sector
        /\ f + FileLen <= FLASHFILE_PAGE_END - W
    BY <1>1 DEF Sector
  <2>2. QED
    BY <2>1 DEF Op, RoomOp, Point, WriteWord
<1>3. ASSUME NEW k \in 1 .. FileLen
      PROVE  [op |-> "byte", at |-> f + k - 1, data |-> FileByte(d, k)] \in RoomOp(t)
  <2>1. f + k - 1 \in Sector
    BY <1>1 DEF Sector
  <2>2. QED
    BY <2>1, FileByteKnown DEF Op, RoomOp
<1>8. FilePlanOf(p, first, f, d, w)
  BY FilePlanIs
<1> HIDE DEF p
<1>4. /\ Len(p) = FileLen + 3 /\ p[FileLen + 2] = Point(f, f + FileLen)
      /\ \A T : FileParts(T, first, f, d, w) => p \in Seq(T)
  BY <1>8 DEF FilePlanOf
<1>7. FileParts(RoomOp(t), first, f, d, w)
  BY <1>2, <1>3 DEF FileParts
<1>5. FileLen + 2 \in DOMAIN p /\ p[FileLen + 2].op = "point"
  <2>1. DOMAIN p = 1 .. Len(p)
    BY <1>4, <1>7
  <2>2. QED
    BY <1>1, <1>4, <2>1 DEF Point
<1>6. p \in Seq(RoomOp(t)) /\ HasPoint(p)
  BY <1>4, <1>5, <1>7 DEF HasPoint
<1>9. QED
  BY <1>6 DEF p

(* Where the next file goes. *)
NextFound == MruKnown /\ Places # {}
NextFile == IF NextFound THEN Lowest(Places) ELSE 0
NextFirst == IF NextFound THEN Destroy ELSE Erase

LEMMA WriteNvmFileIs ==
  ASSUME TypeInv
  PROVE  /\ WriteNvmFile = FilePlan(NextFirst, NextFile, cache, OldMru)
         /\ NextFile \in 0 .. SearchEnd /\ (NextFound => NextFile \in Places)
         /\ OldMru \in [1 .. W -> Known(tried)]
<1>1. WriteNvmFile = FilePlan(NextFirst, NextFile, cache, OldMru)
  BY DEF WriteNvmFile, FilePlan, NextFound, NextFile, NextFirst
<1>2. SearchEnd \in Nat /\ FileLen \in Nat /\ W \in Nat /\ mru \in Int
  BY Sizes DEF TypeInv, FLASHFILE_PAGE_END, Null
<1>3. NextFound => NextFile \in Places /\ NextFile \in 0 .. SearchEnd
  <2>1. MruKnown => Places \in SUBSET (0 .. SearchEnd)
    BY <1>2 DEF MruKnown, Places
  <2>2. NextFound => Lowest(Places) \in Places
    BY <2>1, LowestIs DEF NextFound
  <2>3. QED
    BY <2>1, <2>2 DEF NextFound, NextFile
<1>4. OldMru \in [1 .. W -> Known(tried)]
  BY <1>2, ReadKnown, PlainBytes DEF OldMru, Known
<1>5. QED
  BY <1>1, <1>2, <1>3, <1>4 DEF NextFile

LEMMA WriteNvmFileOps ==
  ASSUME TypeInv, NEW t, tried \subseteq t, cache \in t
  PROVE  WriteNvmFile \in Seq(RoomOp(t)) /\ HasPoint(WriteNvmFile)
<1>1. Known(tried) \subseteq Known(t)
  BY OpGrows
<1>2. cache \in [1 .. L -> Known(t)] /\ OldMru \in [1 .. W -> Known(t)] /\ NextFile \in 0 .. SearchEnd
  BY <1>1, WriteNvmFileIs DEF TypeInv
<1>3. NextFirst \in RoomOp(t)
  BY DEF NextFirst, Destroy, Erase, Op, RoomOp, TypeInv, Null, SearchEnd, FLASHFILE_PAGE_END
<1>4. cache \in t
  OBVIOUS
<1>5. /\ FilePlan(NextFirst, NextFile, cache, OldMru) \in Seq(RoomOp(t))
      /\ HasPoint(FilePlan(NextFirst, NextFile, cache, OldMru))
  BY <1>2, <1>3, <1>4, FilePlanOps
<1>6. QED
  BY <1>5, WriteNvmFileIs

LEMMA WriteMruIs ==
  ASSUME NEW m
  PROVE  /\ NoRoom => WriteMru(m) = FilePlan(Erase, 0, Contents(nvm_file), Data(m))
         /\ ~NoRoom /\ mru > 0 => WriteMru(m) = <<WriteWord(mru, All(B(0))), Point(nvm_file, mru + W),
                                                  WriteWord(mru + W, Data(m))>>
         /\ ~NoRoom /\ ~(mru > 0) => WriteMru(m) = <<Point(nvm_file, nvm_file + FileLen),
                                                     WriteWord(nvm_file + FileLen, Data(m))>>
<1>1. 0 + FileLen = FileLen
  BY Sizes
<1>2. QED
  BY <1>1 DEF WriteMru, FilePlan

LEMMA WriteMruOps ==
  ASSUME TypeInv, nvm_file # Null, NEW m \in Nat, NEW t, tried \subseteq t,
         NoRoom => Contents(nvm_file) \in t
  PROVE  WriteMru(m) \in Seq(Op(t))
<1>1. /\ SearchEnd = Size - FileLen - W - 2 /\ FileLen \in Nat /\ W \in Nat /\ W >= 2 /\ Size \in Nat
      /\ FLASHFILE_PAGE_END = Size - 1 /\ SearchEnd \in Nat
  BY Sizes
<1>2. nvm_file \in 0 .. SearchEnd /\ nvm_file \in Int /\ mru \in {Null} \cup FileLen .. FLASHFILE_PAGE_END
  BY <1>1 DEF TypeInv
<1>3. Known(tried) \subseteq Known(t)
  BY OpGrows
<1>4. Data(m) \in [1 .. W -> Known(t)] /\ All(B(0)) \in [1 .. W -> Known(t)]
  BY PlainBytes DEF Known
<1>5. \A i \in Sector, w \in [1 .. W -> Known(t)] : WriteWord(i, w) \in Op(t)
  BY DEF WriteWord, Op
<1>6. \A f \in 0 .. SearchEnd, i \in FileLen .. FLASHFILE_PAGE_END : Point(f, i) \in Op(t)
  BY DEF Point, Op
<1>7. CASE NoRoom
  <2>1. Contents(nvm_file) \in [1 .. L -> Known(t)]
    BY <1>2, <1>3, ReadKnown
  <2>2. Erase \in RoomOp(t) /\ 0 \in 0 .. SearchEnd
    BY <1>1 DEF Erase, Op, RoomOp
  <2>3. FilePlan(Erase, 0, Contents(nvm_file), Data(m)) \in Seq(RoomOp(t))
    BY <1>4, <1>7, <2>1, <2>2, FilePlanOps
  <2>4. QED
    BY <1>7, <2>3, WriteMruIs, RoomOps
<1>8. CASE ~NoRoom /\ mru > 0
  <2>1. /\ mru \in Sector /\ mru + W \in Sector
        /\ mru + W \in FileLen .. FLASHFILE_PAGE_END
    BY <1>1, <1>2, <1>8 DEF NoRoom, Sector, Null
  <2>2. /\ WriteWord(mru, All(B(0))) \in Op(t) /\ Point(nvm_file, mru + W) \in Op(t)
        /\ WriteWord(mru + W, Data(m)) \in Op(t)
    BY <1>2, <1>4, <1>5, <1>6, <2>1
  <2>3. <<WriteWord(mru, All(B(0))), Point(nvm_file, mru + W), WriteWord(mru + W, Data(m))>> \in Seq(Op(t))
    BY <2>2
  <2>4. QED
    BY <1>8, <2>3, WriteMruIs, Zenon
<1>9. CASE ~NoRoom /\ ~(mru > 0)
  <2>1. nvm_file + FileLen \in Sector /\ nvm_file + FileLen \in FileLen .. FLASHFILE_PAGE_END
    BY <1>1, <1>2 DEF Sector
  <2>2. /\ Point(nvm_file, nvm_file + FileLen) \in Op(t)
        /\ WriteWord(nvm_file + FileLen, Data(m)) \in Op(t)
    BY <1>2, <1>4, <1>5, <1>6, <2>1
  <2>3. <<Point(nvm_file, nvm_file + FileLen), WriteWord(nvm_file + FileLen, Data(m))>> \in Seq(Op(t))
    BY <2>2
  <2>4. QED
    BY <1>9, <2>3, WriteMruIs, Zenon
<1>10. QED
  BY <1>7, <1>8, <1>9

LEMMA EffectKnown ==
  ASSUME TypeInv, NEW s \in Op(tried)
  PROVE  Effect(s) \in [Sector -> Known(tried)]
<1>1. flash \in [Sector -> Known(tried)] /\ DOMAIN flash = Sector
  BY DEF TypeInv
<1>2. B(0) \in Known(tried) /\ Blank \in Known(tried) /\ Junk \in Known(tried)
  BY PlainBytes DEF Known
<1>3. \A i \in Sector, b \in Known(tried) : Programmed(i, b) \in Known(tried)
  BY <1>1, <1>2 DEF Programmed
<1>4. CASE s.op = "erase"
  BY <1>1, <1>2, <1>4 DEF Effect
<1>5. CASE s.op = "byte"
  <2>1. s.at \in Sector /\ s.data \in Known(tried)
    BY <1>5 DEF Op
  <2>2. Effect(s) = [flash EXCEPT ![s.at] = Programmed(s.at, s.data)]
    BY <1>5 DEF Effect
  <2>3. QED
    BY <1>1, <1>3, <2>1, <2>2
<1>6. CASE s.op = "word"
  <2>1. s.at \in Sector /\ s.data \in [1 .. W -> Known(tried)]
    BY <1>6 DEF Op
  <2>2. Effect(s) = [i \in Sector |-> IF i \in s.at .. s.at + W - 1
                                      THEN Programmed(i, s.data[i - s.at + 1]) ELSE flash[i]]
    BY <1>1, <1>6 DEF Effect
  <2>3. ASSUME NEW i \in Sector, i \in s.at .. s.at + W - 1 PROVE s.data[i - s.at + 1] \in Known(tried)
    BY <2>1, <2>3, Sizes DEF Sector
  <2>4. QED
    BY <1>1, <1>3, <2>2, <2>3
<1>7. CASE s.op = "destroy"
  BY <1>1, <1>2, <1>7 DEF Effect
<1>8. CASE s.op = "point"
  BY <1>1, <1>8 DEF Effect
<1>9. QED
  BY <1>4, <1>5, <1>6, <1>7, <1>8 DEF Op

(* What a step reads stays typed when more contents have been stored. *)
LEMMA Grown ==
  ASSUME TypeInv, NEW t, tried \subseteq t
  PROVE  /\ flash \in [Sector -> Known(t)] /\ cache \in [1 .. L -> Known(t)]
         /\ work \in Seq(Op(t))
BY OpGrows DEF TypeInv

LEMMA StartTyped ==
  ASSUME TypeInv, tried \subseteq tried', UNCHANGED <<flash, nvm_file, mru, slid, torn>>,
         cache' \in [1 .. L -> Known(tried')], cache_dirty' \in BOOLEAN, fails' = fails,
         nvm_file # Null, pc' = "write", work' \in Seq(Op(tried')),
         next'.then \in {"booted", "flushed", "mode", "moded"},
         next'.then = "mode" => next'.data \in Modes
  PROVE  TypeInv'
BY Grown DEF TypeInv

LEMMA SetMruTyped ==
  ASSUME TypeInv, NEW m \in Modes, SetMru(m), UNCHANGED <<flash, fails>>, nvm_file # Null
  PROVE  TypeInv'
<1>1. m \in Nat /\ nvm_file \in Int
  BY Sizes DEF TypeInv
<1>2. /\ tried \subseteq tried' /\ (NoRoom => Contents(nvm_file) \in tried')
      /\ cache' \in [1 .. L -> Known(tried')] /\ cache_dirty' \in BOOLEAN
  <2>1. CASE NoRoom
    <3>1. /\ cache' = Contents(nvm_file) /\ cache_dirty' = FALSE
          /\ tried' = tried \cup {Contents(nvm_file)}
      BY <2>1 DEF SetMru
    <3>2. Contents(nvm_file) \in [1 .. L -> Known(tried')]
      BY <1>1, <3>1, ReadKnown, OpGrows
    <3>3. QED
      BY <3>1, <3>2
  <2>2. CASE ~NoRoom
    BY <2>2 DEF SetMru, TypeInv
  <2>3. QED
    BY <2>1, <2>2
<1>3. WriteMru(m) \in Seq(Op(tried'))
  BY <1>1, <1>2, WriteMruOps
<1>4. QED
  BY <1>2, <1>3, StartTyped DEF SetMru, Start, Then

LEMMA WriteFileTyped ==
  ASSUME TypeInv, NEW then, Start(WriteNvmFile, then), tried' = tried \cup {cache},
         UNCHANGED <<flash, ram, slid, torn, fails>>, nvm_file # Null,
         then.then \in {"flushed", "mode"}, then.then = "mode" => then.data \in Modes
  PROVE  TypeInv'
<1>1. tried \subseteq tried' /\ cache \in tried'
  OBVIOUS
<1>2. WriteNvmFile \in Seq(Op(tried'))
  BY <1>1, WriteNvmFileOps, RoomOps
<1>3. cache' \in [1 .. L -> Known(tried')]
  BY <1>1, Grown DEF ram
<1>4. QED
  BY <1>1, <1>2, <1>3, StartTyped DEF Start, ram, TypeInv

LEMMA TypeInit == Init => TypeInv
<1> SUFFICES ASSUME Init PROVE TypeInv
  OBVIOUS
<1>1. Blank \in Bytes /\ B(0) \in Bytes
  BY PlainBytes
<1>2. flash \in [Sector -> Known(tried)] /\ cache \in [1 .. L -> Known(tried)]
  BY <1>1 DEF Init, Zeros, Known, Sector
<1>3. ~NoRoom
  BY Sizes DEF Init, NoRoom, Null
<1>4. <<>> \in Seq(Op(tried))
  BY EmptySeq
<1>5. QED
  BY <1>2, <1>3, <1>4 DEF Init, TypeInv, Then

LEMMA TypeStep == TypeInv /\ [Next]_vars => TypeInv'
<1> SUFFICES ASSUME TypeInv, [Next]_vars PROVE TypeInv'
  OBVIOUS
<1>1. CASE FindFile
  <2>1. NvmFiles \in SUBSET (0 .. SearchEnd) /\ SearchEnd \in Nat
    BY Sizes DEF NvmFiles, SearchEnd, FLASHFILE_PAGE_END
  <2>2. CASE NvmFiles # {}
    <3>0. NvmFiles \in SUBSET Nat
      BY <2>1
    <3>1. Lowest(NvmFiles) \in 0 .. SearchEnd
      BY <2>1, <2>2, <3>0, LowestIs
    <3>2. nvm_file' = Lowest(NvmFiles) /\ UNCHANGED <<mru, cache, cache_dirty, work, next, seen, flash, cnt>>
          /\ pc' = "bootMru" /\ pc = "boot"
      BY <1>1, <2>2 DEF FindFile
    <3>3. nvm_file' # Null
      BY <3>1, <3>2 DEF Null
    <3>4. QED
      BY <3>1, <3>2, <3>3 DEF seen, cnt, TypeInv, NoRoom
  <2>3. CASE NvmFiles = {}
    <3>1. /\ Start(WriteNvmFile, Then("bootMru")) /\ tried' = tried \cup {cache}
          /\ UNCHANGED <<ram, saved, mode, torn, slid, flash, cnt>> /\ pc = "boot"
      BY <1>1, <2>3 DEF FindFile
    <3>2. tried \subseteq tried' /\ cache \in tried'
      BY <3>1
    <3>3. /\ WriteNvmFile \in Seq(RoomOp(tried')) /\ WriteNvmFile \in Seq(Op(tried'))
          /\ HasPoint(WriteNvmFile)
      BY <3>2, WriteNvmFileOps, RoomOps
    <3>6. \E k \in DOMAIN WriteNvmFile : WriteNvmFile[k].op = "point"
      BY <3>3 DEF HasPoint
    <3>4. flash' \in [Sector -> Known(tried')] /\ cache' \in [1 .. L -> Known(tried')]
      BY <3>1, <3>2, Grown DEF ram
    <3>5. QED
      BY <3>1, <3>3, <3>4, <3>6 DEF Start, Then, ram, cnt, TypeInv, NoRoom
  <2>4. QED
    BY <2>2, <2>3
<1>2. CASE FindMru
  <2>1. pc = "bootMru" /\ nvm_file # Null /\ nvm_file \in 0 .. SearchEnd /\ SearchEnd \in Nat
    BY <1>2, Sizes DEF FindMru, TypeInv
  <2>2. CASE MruEntries(nvm_file) # {}
    <3>1. MruEntries(nvm_file) \in SUBSET (FileLen .. FLASHFILE_PAGE_END)
      BY <2>1, Sizes DEF MruEntries
    <3>2. FileLen .. FLASHFILE_PAGE_END \subseteq Nat
      BY Sizes
    <3>3. mru' \in FileLen .. FLASHFILE_PAGE_END
      BY <1>2, <2>2, <3>1, <3>2, LowestIs DEF FindMru
    <3>4. /\ UNCHANGED <<flash, cnt, nvm_file, tried>> /\ Idle
          /\ cache' = Contents(nvm_file) /\ cache_dirty' = FALSE /\ torn' = FALSE
      BY <1>2, <2>2 DEF FindMru, Booted
    <3>5. slid' \in BOOLEAN
      BY <1>2, <2>2 DEF FindMru, TypeInv, Aligned
    <3>6. cache' \in [1 .. L -> Known(tried)]
      BY <2>1, <3>4, ReadKnown
    <3>7. <<>> \in Seq(Op(tried))
      BY EmptySeq
    <3>8. QED
      BY <2>1, <3>3, <3>4, <3>5, <3>6, <3>7 DEF Idle, Then, cnt, TypeInv
  <2>3. CASE MruEntries(nvm_file) = {}
    <3>1. /\ Start(WriteMru(1), Then("booted")) /\ UNCHANGED <<ram, seen, flash, cnt>>
      BY <1>2, <2>3 DEF FindMru
    <3>2. ~NoRoom
      BY <2>1 DEF TypeInv
    <3>3. WriteMru(1) \in Seq(Op(tried))
      BY <2>1, <3>2, WriteMruOps
    <3>4. QED
      BY <2>1, <3>1, <3>3, StartTyped DEF Start, Then, ram, seen, cnt, TypeInv
  <2>4. QED
    BY <2>2, <2>3
<1>3. CASE CacheFlush
  BY <1>3, WriteFileTyped DEF CacheFlush, Then, cnt, TypeInv
<1>4. CASE Step
  <2> DEFINE s == Head(work)
  <2>1. /\ work \in Seq(Op(tried)) /\ work # <<>> /\ s \in Op(tried) /\ Tail(work) \in Seq(Op(tried))
        /\ Len(work) \in Nat /\ Len(Tail(work)) = Len(work) - 1 /\ s = work[1]
        /\ DOMAIN work = 1 .. Len(work) /\ DOMAIN Tail(work) = 1 .. Len(Tail(work))
        /\ \A k \in 1 .. Len(Tail(work)) : Tail(work)[k] = work[k + 1]
    BY <1>4, HeadTailProperties, LenProperties DEF Step, TypeInv
  <2>2. /\ pc = "write" /\ flash' = Effect(s) /\ work' = Tail(work)
        /\ IF s.op = "point" THEN nvm_file' = s.file /\ mru' = s.mru ELSE UNCHANGED <<nvm_file, mru>>
        /\ UNCHANGED <<cache, cache_dirty, pc, next, seen, cnt>>
    BY <1>4 DEF Step
  <2>3. flash' \in [Sector -> Known(tried)]
    BY <2>1, <2>2, EffectKnown
  <2>4. s.op = "point" => /\ s.file \in 0 .. SearchEnd /\ s.file # Null
                          /\ s.mru \in FileLen .. FLASHFILE_PAGE_END
    BY <2>1, Sizes DEF Op, Null
  <2>5. nvm_file' = Null => next.then = "bootMru" /\ \E p \in DOMAIN Tail(work) : Tail(work)[p].op = "point"
    <3> SUFFICES ASSUME nvm_file' = Null
                 PROVE  next.then = "bootMru" /\ \E p \in DOMAIN Tail(work) : Tail(work)[p].op = "point"
      OBVIOUS
    <3>1. s.op # "point" /\ nvm_file = Null
      BY <2>2, <2>4
    <3>2. next.then = "bootMru" /\ \E p \in DOMAIN work : work[p].op = "point"
      BY <2>2, <3>1 DEF TypeInv
    <3>3. PICK p \in 1 .. Len(work) : work[p].op = "point"
      BY <2>1, <3>2
    <3>4. p # 1 /\ p - 1 \in 1 .. Len(Tail(work)) /\ Tail(work)[p - 1] = work[p]
      BY <2>1, <3>1, <3>3
    <3>5. QED
      BY <2>1, <3>2, <3>3, <3>4
  <2>6. next.then = "bootMru" => ~NoRoom' /\ Tail(work) \in Seq(RoomOp(tried))
    <3> SUFFICES ASSUME next.then = "bootMru" PROVE ~NoRoom' /\ Tail(work) \in Seq(RoomOp(tried))
      OBVIOUS
    <3>1. ~NoRoom /\ work \in Seq(RoomOp(tried))
      BY <2>2 DEF TypeInv
    <3>2. s \in RoomOp(tried) /\ Tail(work) \in Seq(RoomOp(tried))
      BY <2>1, <3>1, HeadTailProperties
    <3>3. s.op = "point" => ~(s.mru > FLASHFILE_PAGE_END - W)
      BY <2>4, <3>2, Sizes DEF RoomOp
    <3>4. QED
      BY <2>2, <3>1, <3>2, <3>3 DEF NoRoom
  <2> HIDE DEF s
  <2>7. nvm_file' \in {Null} \cup 0 .. SearchEnd /\ mru' \in {Null} \cup FileLen .. FLASHFILE_PAGE_END
    BY <2>2, <2>4 DEF TypeInv
  <2>8. QED
    BY <2>1, <2>2, <2>3, <2>5, <2>6, <2>7 DEF TypeInv, seen, cnt
<1>5. CASE StepFails
  <2> DEFINE s == Head(work)
  <2>1. /\ work \in Seq(Op(tried)) /\ work # <<>> /\ s \in Op(tried) /\ Tail(work) \in Seq(Op(tried))
        /\ Len(work) \in Nat /\ Len(Tail(work)) = Len(work) - 1 /\ s = work[1]
        /\ DOMAIN work = 1 .. Len(work) /\ DOMAIN Tail(work) = 1 .. Len(Tail(work))
        /\ \A k \in 1 .. Len(Tail(work)) : Tail(work)[k] = work[k + 1]
    BY <1>5, HeadTailProperties, LenProperties DEF StepFails, TypeInv
  <2>2. /\ pc = "write" /\ s.op # "point" /\ fails' \in Nat
        /\ UNCHANGED <<flash, ram, next, saved, tried, mode, slid>>
    BY <1>5 DEF StepFails, TypeInv
  <2>3. CASE s.op = "destroy"
    <3>1. work' = Tail(work) /\ UNCHANGED <<pc, torn>>
      BY <1>5, <2>3 DEF StepFails
    <3>2. nvm_file = Null => next.then = "bootMru" /\ \E p \in DOMAIN Tail(work) : Tail(work)[p].op = "point"
      <4> SUFFICES ASSUME nvm_file = Null
                   PROVE  next.then = "bootMru" /\ \E p \in DOMAIN Tail(work) : Tail(work)[p].op = "point"
        OBVIOUS
      <4>1. next.then = "bootMru" /\ \E p \in DOMAIN work : work[p].op = "point"
        BY <2>2 DEF TypeInv
      <4>2. PICK p \in 1 .. Len(work) : work[p].op = "point"
        BY <2>1, <4>1
      <4>3. p # 1 /\ p - 1 \in 1 .. Len(Tail(work)) /\ Tail(work)[p - 1] = work[p]
        BY <2>1, <2>2, <4>2
      <4>4. QED
        BY <2>1, <4>1, <4>2, <4>3
    <3>3. next.then = "bootMru" => ~NoRoom /\ Tail(work) \in Seq(RoomOp(tried))
      BY <2>1, <2>2, HeadTailProperties DEF TypeInv
    <3>4. QED
      BY <2>1, <2>2, <3>1, <3>2, <3>3 DEF TypeInv, ram, NoRoom
  <2>4. CASE s.op # "destroy"
    <3>1. work' = <<>> /\ pc' = Ended(FALSE) /\ torn' = TRUE
      BY <1>5, <2>4 DEF StepFails
    <3>2. next.then \in {"bootMru", "booted", "flushed", "mode", "moded"}
          /\ (nvm_file = Null => next.then = "bootMru")
      BY <2>2 DEF TypeInv
    <3>3. /\ pc' \in {"failed", "unloaded", "ended"} /\ (pc' # "failed" => nvm_file # Null)
      BY <3>1, <3>2 DEF Ended
    <3>4. <<>> \in Seq(Op(tried))
      BY EmptySeq
    <3>5. QED
      BY <2>2, <3>1, <3>3, <3>4 DEF TypeInv, ram, NoRoom
  <2>5. QED
    BY <2>3, <2>4
<1>6. CASE Finished
  <2>1. /\ pc = "write" /\ work = <<>> /\ pc' = Ended(TRUE)
        /\ UNCHANGED <<flash, ram, work, next, tried, mode, torn, slid, cnt>>
    BY <1>6 DEF Finished
  <2>2. nvm_file # Null
    BY <2>1 DEF TypeInv
  <2>3. /\ pc' \in {"bootMru", "booted", "ended"} /\ (pc' = "bootMru" => next.then = "bootMru")
    BY <2>1 DEF Ended, TypeInv
  <2>4. QED
    BY <2>1, <2>2, <2>3 DEF TypeInv, ram, cnt, NoRoom
<1>7. CASE Flushed
  <2>1. /\ pc = "ended" /\ Idle /\ cache' = Contents(nvm_file) /\ cache_dirty' = FALSE
        /\ UNCHANGED <<flash, nvm_file, mru, seen, cnt>>
    BY <1>7 DEF Flushed
  <2>2. nvm_file # Null /\ nvm_file \in Int
    BY <2>1, Sizes DEF TypeInv
  <2>3. cache' \in [1 .. L -> Known(tried)] /\ <<>> \in Seq(Op(tried))
    BY <2>1, <2>2, ReadKnown, EmptySeq
  <2>4. QED
    BY <2>1, <2>2, <2>3 DEF TypeInv, Idle, Then, seen, cnt
<1>8. CASE Moded
  <2>1. <<>> \in Seq(Op(tried))
    BY EmptySeq
  <2>2. QED
    BY <1>8, <2>1 DEF Moded, TypeInv, Idle, Then, ram, seen, cnt
<1>9. CASE ThenMode
  BY <1>9, SetMruTyped DEF ThenMode, cnt, TypeInv
<1>10. CASE Defaulted
  <2>1. /\ pc = "booted" /\ Idle /\ cache' = Contents(nvm_file) /\ cache_dirty' = FALSE /\ torn' = FALSE
        /\ UNCHANGED <<flash, nvm_file, mru, tried, slid, cnt>>
    BY <1>10 DEF Defaulted, Booted
  <2>2. nvm_file # Null /\ nvm_file \in Int
    BY <2>1, Sizes DEF TypeInv
  <2>3. cache' \in [1 .. L -> Known(tried)] /\ <<>> \in Seq(Op(tried))
    BY <2>1, <2>2, ReadKnown, EmptySeq
  <2>4. QED
    BY <2>1, <2>2, <2>3 DEF TypeInv, Idle, Then, cnt
<1>11. CASE Crash
  <2>1. Zeros \in [1 .. L -> Known(tried)] /\ <<>> \in Seq(Op(tried))
    BY PlainBytes, EmptySeq DEF Zeros, Known
  <2>2. ~NoRoom'
    BY <1>11, Sizes DEF Crash, NoRoom, Null
  <2>3. torn' \in BOOLEAN
    BY <1>11 DEF Crash, TypeInv
  <2>4. QED
    BY <1>11, <2>1, <2>2, <2>3 DEF Crash, Then, TypeInv
<1>12. ASSUME NEW k \in 1 .. L, NEW v \in Values, NEW now \in BOOLEAN, UpdateEntry(k, v, now)
       PROVE  TypeInv'
  <2>1. B(v) \in Known(tried)
    <3>1. v \in Nat
      BY Sizes
    <3>2. QED
      BY <3>1, PlainBytes DEF Known
  <2>2. cache' \in [1 .. L -> Known(tried)]
    BY <1>12, <2>1 DEF UpdateEntry, TypeInv
  <2>3. /\ UNCHANGED <<flash, nvm_file, mru, work, next, seen, fails>> /\ cache_dirty' = TRUE
        /\ pc = "idle" /\ pc' \in {"idle", "flush"}
    BY <1>12 DEF UpdateEntry, Call
  <2>4. QED
    BY <2>2, <2>3 DEF TypeInv, seen
<1>13. ASSUME NEW m \in Modes, SwitchMode(m) PROVE TypeInv'
  <2>1. pc = "idle" /\ nvm_file # Null /\ UNCHANGED <<flash, fails>>
    BY <1>13 DEF SwitchMode, Call, TypeInv
  <2>2. CASE cache_dirty
    BY <1>13, <2>1, <2>2, WriteFileTyped DEF SwitchMode
  <2>3. CASE ~cache_dirty
    BY <1>13, <2>1, <2>3, SetMruTyped DEF SwitchMode
  <2>4. QED
    BY <2>2, <2>3
<1>14. CASE UNCHANGED vars
  BY <1>14 DEF TypeInv, vars, ram, seen, cnt, NoRoom
<1>15. QED
  BY <1>1, <1>2, <1>3, <1>4, <1>5, <1>6, <1>7, <1>8, <1>9, <1>10, <1>11, <1>12, <1>13, <1>14 DEF Next

LEMMA TypeInvariant == Spec => []TypeInv
<1>1. Init => TypeInv
  BY TypeInit
<1>2. TypeInv /\ [Next]_vars => TypeInv'
  BY TypeStep
<1>3. QED
  BY <1>1, <1>2, PTL DEF Spec

(* TypeCorrect: whatever fails and whenever power is lost, pointers stay in
   the sector and nothing is programmed beyond its end.  A word at its end
   fits because programmable words are aligned. *)
THEOREM TypeCorrect == Spec => []TypeOK
<1>1. TypeInv => TypeOK
  <2> SUFFICES ASSUME TypeInv PROVE TypeOK
    OBVIOUS
  <2>1. /\ DOMAIN flash = 0 .. FLASHFILE_PAGE_END /\ nvm_file \in Offsets /\ mru \in Offsets
        /\ {cache_dirty, torn, slid} \subseteq BOOLEAN
    BY Sizes DEF TypeInv, Offsets, Sector
  <2>2. ASSUME work # <<>> PROVE InSector(Head(work))
    <3> DEFINE s == Head(work)
    <3>1. s \in Op(tried)
      BY <2>2, HeadTailProperties DEF TypeInv
    <3> HIDE DEF s
    <3>2. s.op \in {"byte", "word"} => s.at \in Sector
      BY <3>1 DEF Op
    <3>3. ASSUME s.op = "word", CanDo(s) PROVE s.at \in 0 .. Size - W
      <4>1. s.at \in 0 .. Size - 1 /\ s.at \in Int /\ Size \in Int /\ W \in Nat
        BY <3>2, <3>3, Sizes DEF Sector
      <4>2. Aligned(s.at) /\ s.at < Size
        BY <3>3, <4>1 DEF CanDo
      <4>3. s.at + W <= Size
        BY <4>1, <4>2, AlignedGap, AlignedSizes
      <4>4. QED
        BY <4>1, <4>3
    <3>4. InSector(s)
      BY <2>1, <3>2, <3>3 DEF InSector, Sector
    <3>5. QED
      BY <3>4 DEF s
  <2>3. QED
    BY <2>1, <2>2 DEF TypeOK, TypeInv
<1>2. QED
  BY <1>1, TypeInvariant, PTL

(* FilesWhole: whatever is cut short or fails, a file that looks valid holds
   contents some call meant to store: a byte of a CRC in flash, wherever it was
   copied to, was computed from such contents. *)
THEOREM FilesWhole == Spec => []NoTorn
<1>1. TypeInv => NoTorn
  <2> SUFFICES ASSUME TypeInv, NEW f \in NvmFiles PROVE Contents(f) \in tried
    BY DEF NoTorn
  <2>1. f \in Int /\ f + W + L \in Int /\ L \in Nat /\ L >= 2 /\ W \in Nat /\ W >= 2
    BY Sizes DEF NvmFiles, SearchEnd
  <2>2. Word(f + W + L)[1] = Crc(Contents(f))[1]
    BY DEF NvmFiles, Valid
  <2>3. Byte(f + W + L) = Contents(f)
    BY <2>1, <2>2 DEF Word, Crc
  <2>4. Contents(f) \in Bytes \cup tried
    BY <2>1, <2>3, ReadKnown DEF Known
  <2>5. Contents(f) \notin Bytes
    <3>1. DOMAIN Contents(f) = 1 .. L /\ 2 \in 1 .. L
      BY <2>1 DEF Contents
    <3>2. \A b \in Bytes : 2 \notin DOMAIN b
      BY DEF Bytes
    <3>3. QED
      BY <3>1, <3>2
  <2>6. QED
    BY <2>4, <2>5
<1>2. QED
  BY <1>1, TypeInvariant, PTL

----------------------------------------------------------------------------
(* What the sector holds. *)
LEMMA Distinct ==
  /\ \A m, n : B(m) = B(n) => m = n
  /\ \A S : \A d \in [1 .. L -> S] : \A n : d # B(n)
<1>1. ASSUME NEW m, NEW n, B(m) = B(n) PROVE m = n
  <2>1. B(m)[1] = m /\ B(n)[1] = n
    BY DEF B
  <2>2. QED
    BY <1>1, <2>1
<1>2. ASSUME NEW S, NEW d \in [1 .. L -> S], NEW n PROVE d # B(n)
  <2>1. 2 \in DOMAIN d /\ 2 \notin DOMAIN B(n)
    BY Sizes DEF B
  <2>2. QED
    BY <2>1
<1>3. QED
  BY <1>1, <1>2

(* Which bytes can be the first of a file. *)
LEMMA NotMagic ==
  /\ \A d \in [1 .. L -> Digits] : \A k \in 1 .. FileLen : FileByte(d, k) = M1 => k = 1
  /\ \A w \in Marks \cup {All(Blank)} : \A k \in 1 .. W : w[k] # M1
  /\ B(0) # M1 /\ Blank # M1 /\ Blank # B(0)
<1>1. B(0) # M1 /\ Blank # M1 /\ Blank # B(0)
  BY Distinct DEF M1, Blank
<1>2. ASSUME NEW d \in [1 .. L -> Digits], NEW k \in 1 .. FileLen, FileByte(d, k) = M1 PROVE k = 1
  <2>1. k <= W => 100 + k = 101
    BY <1>2, Distinct DEF FileByte, M1
  <2>2. ASSUME k > W, k <= W + L PROVE FALSE
    <3>1. d[k - W] \in Digits /\ d[k - W] = M1
      BY <1>2, <2>2, Sizes DEF FileByte
    <3>2. PICK n \in 0 .. 9 : d[k - W] = B(n)
      BY <3>1 DEF Digits
    <3>3. n = 101
      BY <3>1, <3>2, Distinct DEF M1
    <3>4. QED
      BY <3>3
  <2>3. k > W + L => d = M1
    BY <1>2, Sizes DEF FileByte
  <2>4. QED
    BY <2>1, <2>2, <2>3, Sizes, Distinct DEF M1
<1>3. ASSUME NEW w \in Marks \cup {All(Blank)}, NEW k \in 1 .. W PROVE w[k] # M1
  <2>1. CASE w = All(Blank)
    BY <1>1, <2>1 DEF All
  <2>2. CASE w \in Marks
    <3>1. PICK m \in 1 .. 9 : w = Data(m)
      BY <2>2 DEF Marks
    <3>2. w[k] = B(IF k = 1 THEN m ELSE 0)
      BY <3>1 DEF Data
    <3>3. (IF k = 1 THEN m ELSE 0) # 101
      OBVIOUS
    <3>4. QED
      BY <3>2, <3>3, Distinct DEF M1
  <2>3. QED
    BY <2>1, <2>2
<1>4. QED
  BY <1>1, <1>2, <1>3

(* A mark is neither a blank word nor a zeroed one. *)
LEMMA MarkIs ==
  ASSUME NEW w \in Marks
  PROVE  /\ w # All(Blank) /\ w # All(B(0)) /\ w[1] # B(0) /\ w \in [1 .. W -> Digits]
         /\ \A k \in 1 .. W : w[k] \in Digits
<1>1. PICK m \in 1 .. 9 : w = Data(m)
  BY DEF Marks
<1>2. 1 \in 1 .. W /\ w[1] = B(m) /\ All(Blank)[1] = Blank /\ All(B(0))[1] = B(0)
  BY <1>1, Sizes DEF Data, All
<1>3. B(m) # B(0) /\ B(m) # Blank
  BY Distinct DEF Blank
<1>4. \A k \in 1 .. W : B(IF k = 1 THEN m ELSE 0) \in Digits
  BY DEF Digits
<1>5. w \in [1 .. W -> Digits]
  BY <1>1, <1>4 DEF Data
<1>6. QED
  BY <1>2, <1>3, <1>5

LEMMA OnlyCandidate ==
  ASSUME NEW f, \A i \in Sector : flash[i] = M1 => i = f, DOMAIN flash = Sector
  PROVE  NvmFiles \subseteq {f}
<1> SUFFICES ASSUME NEW i \in NvmFiles PROVE i = f
  OBVIOUS
<1>1. i \in Sector /\ i \in Int /\ 1 \in 1 .. W
  BY Sizes DEF NvmFiles, SearchEnd, Sector
<1>2. Word(i)[1] = Byte(i) /\ Magic[1] = M1
  BY <1>1 DEF Word, Magic, M1
<1>3. Byte(i) = M1
  BY <1>2 DEF NvmFiles, Valid
<1>4. QED
  BY <1>1, <1>3 DEF Byte

(* Offsets of a file. *)
LEMMA Fits ==
  ASSUME NEW f \in 0 .. SearchEnd
  PROVE  /\ f \in Int /\ f + FileLen \in Int /\ f \in Sector
         /\ f + FileLen + 2 * W <= Size + W - 2 /\ f + FileLen + W < Size
         /\ \A k \in 0 .. FileLen : f + k \in Sector
BY Sizes DEF Sector

LEMMA FileCandidate ==
  ASSUME TypeInv, NEW f, NEW d, NEW n \in 0 .. FileLen, Begun(f, d, n), BlankFrom(f + n)
  PROVE  NvmFiles \subseteq {f}
<1>1. ASSUME NEW i \in Sector, flash[i] = M1 PROVE i = f
  <2>1. f \in 0 .. SearchEnd /\ f \in Int /\ i \in Int /\ i \in 0 .. FLASHFILE_PAGE_END /\ n \in Int
    BY Fits, Sizes DEF Begun, Sector
  <2>2. CASE i < f
    BY <1>1, <2>1, <2>2 DEF Begun
  <2>3. CASE i \in f .. f + n - 1
    <3>1. /\ i - f + 1 \in 1 .. n /\ i - f + 1 \in 1 .. FileLen /\ f + (i - f + 1) - 1 = i
      BY <2>1, <2>3, Sizes
    <3>2. flash[i] = FileByte(d, i - f + 1)
      BY <3>1 DEF Begun
    <3>3. i - f + 1 = 1
      BY <1>1, <3>1, <3>2, NotMagic DEF Begun
    <3>4. QED
      BY <2>1, <3>3
  <2>4. CASE i >= f + n
    BY <1>1, <2>1, <2>4, NotMagic DEF BlankFrom
  <2>5. QED
    BY <2>1, <2>2, <2>3, <2>4
<1>2. QED
  BY <1>1, OnlyCandidate DEF TypeInv

(* A file that is not whole does not look valid: its last byte is blank. *)
LEMMA HalfFile ==
  ASSUME TypeInv, NEW f, NEW d, NEW n \in 0 .. FileLen - 1, Begun(f, d, n), BlankFrom(f + n)
  PROVE  NvmFiles = {}
<1>1. f \in 0 .. SearchEnd /\ n \in 0 .. FileLen /\ n <= FileLen - 1 /\ FileLen \in Nat
  BY Sizes DEF Begun
<1>2. NvmFiles \subseteq {f}
  BY <1>1, FileCandidate
<1>3. ASSUME f \in NvmFiles PROVE FALSE
  <2>1. W \in 1 .. W /\ W \in Int /\ L \in Int /\ f \in Int /\ FileLen = 2 * W + L
    BY <1>1, Sizes, Fits
  <2>2. Word(f + W + L)[W] = Crc(Contents(f))[W]
    BY <1>3 DEF NvmFiles, Valid
  <2>3. Byte(f + W + L + W - 1) = Contents(f)
    BY <2>1, <2>2 DEF Word, Crc
  <2>4. f + W + L + W - 1 = f + (FileLen - 1) /\ f + (FileLen - 1) \in Sector
    BY <1>1, <2>1, Fits, FileLen - 1 \in 0 .. FileLen
  <2>5. f + (FileLen - 1) \in f + n .. FLASHFILE_PAGE_END
    BY <1>1, <2>1, <2>4 DEF Sector
  <2>6. Byte(f + (FileLen - 1)) = Blank
    BY <2>4, <2>5 DEF BlankFrom, Byte
  <2>7. Contents(f) = Blank
    BY <2>3, <2>4, <2>6
  <2>8. Contents(f) \in [1 .. L -> Known(tried)]
    BY <2>1, ReadKnown
  <2>9. QED
    BY <2>7, <2>8, Distinct DEF Blank
<1>4. QED
  BY <1>2, <1>3

LEMMA BegunReads ==
  ASSUME TypeInv, NEW f, NEW d, Begun(f, d, FileLen)
  PROVE  Contents(f) = d /\ Valid(f)
<1>1. /\ f \in 0 .. SearchEnd /\ f \in Int /\ d \in [1 .. L -> Digits]
      /\ \A k \in 0 .. FileLen : f + k \in Sector
  BY Fits DEF Begun
<1>2. W \in Nat /\ L \in Nat /\ FileLen = 2 * W + L
  BY Sizes
<1>3. ASSUME NEW k \in 1 .. FileLen PROVE Byte(f + k - 1) = FileByte(d, k)
  <2>1. k - 1 \in 0 .. FileLen /\ f + (k - 1) = f + k - 1
    BY <1>1, <1>2
  <2>2. f + k - 1 \in DOMAIN flash
    BY <1>1, <2>1 DEF TypeInv
  <2>3. QED
    BY <2>2 DEF Begun, Byte
<1>4. \A k \in 1 .. W : Byte(f + k - 1) = B(100 + k)
  BY <1>2, <1>3 DEF FileByte
<1>5. \A k \in 1 .. L : Byte(f + W + k - 1) = d[k]
  <2>1. TAKE k \in 1 .. L
  <2>2. W + k \in 1 .. FileLen /\ f + (W + k) - 1 = f + W + k - 1 /\ W + k > W /\ W + k <= W + L /\ W + k - W = k
    BY <1>1, <1>2
  <2>3. FileByte(d, W + k) = d[k]
    BY <1>2, <2>2 DEF FileByte
  <2>4. Byte(f + (W + k) - 1) = FileByte(d, W + k)
    BY <1>3, <2>2
  <2>5. QED
    BY <2>2, <2>3, <2>4
<1>6. \A k \in 1 .. W : Byte(f + W + L + k - 1) = d
  <2>1. TAKE k \in 1 .. W
  <2>2. W + L + k \in 1 .. FileLen /\ f + (W + L + k) - 1 = f + W + L + k - 1 /\ W + L + k > W + L
        /\ ~(W + L + k <= W) /\ ~(W + L + k <= W + L)
    BY <1>1, <1>2
  <2>3. FileByte(d, W + L + k) = d
    BY <1>2, <2>2 DEF FileByte
  <2>4. Byte(f + (W + L + k) - 1) = FileByte(d, W + L + k)
    BY <1>3, <2>2
  <2>5. QED
    BY <2>2, <2>3, <2>4
<1>7. Contents(f) = d
  BY <1>1, <1>5 DEF Contents
<1>8. Word(f) = Magic
  BY <1>4 DEF Word, Magic
<1>9. Word(f + W + L) = Crc(d)
  BY <1>6 DEF Word, Crc
<1>10. QED
  BY <1>7, <1>8, <1>9 DEF Valid

LEMMA BegunWhole ==
  ASSUME TypeInv, NEW f, NEW d, Begun(f, d, FileLen), BlankFrom(f + FileLen)
  PROVE  Stored(f, d, f + FileLen, All(Blank))
<1>1. f \in 0 .. SearchEnd /\ Aligned(f) /\ f \in Int /\ f + FileLen \in Int /\ FileLen \in Int
  BY Fits, Sizes DEF Begun
<1>2. Aligned(f + FileLen)
  BY <1>1, AlignedSum, AlignedSizes
<1>3. f + FileLen \in f + FileLen .. Size - W
  BY <1>1, Fits, Sizes
<1>4. \A i \in Int : i >= f + FileLen => Byte(i) = Blank
  BY DEF BlankFrom, Byte, TypeInv, Sector
<1>5. \A k \in 1 .. W : Byte(f + FileLen + k - 1) = Blank
  BY <1>1, <1>4, Sizes
<1>6. Word(f + FileLen) = All(Blank)
  BY <1>5 DEF Word, All
<1>7. BlankFrom(f + FileLen + W)
  BY <1>1, Sizes DEF BlankFrom
<1>8. \A i \in f + FileLen .. f + FileLen - 1 : flash[i] = B(0)
  BY <1>1
<1>9. QED
  BY <1>2, <1>3, <1>6, <1>7, <1>8 DEF Stored

LEMMA StoredTypes ==
  ASSUME NEW f, NEW d, NEW m, NEW w, Stored(f, d, m, w)
  PROVE  /\ f \in 0 .. SearchEnd /\ f \in Int /\ Aligned(f) /\ d \in [1 .. L -> Digits]
         /\ m \in Int /\ Aligned(m) /\ f + FileLen \in Int /\ f + FileLen <= m /\ m <= Size - W
         /\ m \in Sector /\ m + W - 1 \in Sector /\ Begun(f, d, FileLen)
         /\ w \in Marks \cup {All(Blank)} /\ Word(m) = w
         /\ m \in FileLen .. FLASHFILE_PAGE_END /\ f \in Sector
<1>1. /\ f \in 0 .. SearchEnd /\ m \in f + FileLen .. Size - W /\ Begun(f, d, FileLen)
      /\ Aligned(f) /\ d \in [1 .. L -> Digits] /\ Aligned(m)
      /\ w \in Marks \cup {All(Blank)} /\ Word(m) = w
  BY DEF Stored, Begun
<1>2. f \in Int /\ m \in Int /\ f + FileLen \in Int /\ f \in Sector
  BY <1>1, Fits
<1>3. QED
  BY <1>1, <1>2, Sizes DEF Sector

(* The bytes of the word at m. *)
LEMMA WordReads ==
  ASSUME TypeInv, NEW m \in Int, m \in Sector, m + W - 1 \in Sector
  PROVE  \A i \in m .. m + W - 1 : /\ i \in Sector /\ i - m + 1 \in 1 .. W
                                   /\ flash[i] = Word(m)[i - m + 1]
<1> TAKE i \in m .. m + W - 1
<1>1. i \in Sector /\ i - m + 1 \in 1 .. W /\ m + (i - m + 1) - 1 = i
  BY Sizes DEF Sector
<1>2. Word(m)[i - m + 1] = Byte(m + (i - m + 1) - 1)
  BY <1>1 DEF Word
<1>3. Byte(i) = flash[i]
  BY <1>1 DEF Byte, TypeInv
<1>4. QED
  BY <1>1, <1>2, <1>3

(* A stored file is the only one a start-up can find. *)
LEMMA StoredIs ==
  ASSUME TypeInv, NEW f, NEW d, NEW m, NEW w, Stored(f, d, m, w)
  PROVE  /\ NvmFiles = {f} /\ Lowest(NvmFiles) = f /\ Contents(f) = d /\ Rest
         /\ \A i \in Sector : flash[i] = M1 => i = f
<1>1. /\ f \in 0 .. SearchEnd /\ f \in Int /\ m \in Int /\ f + FileLen \in Int /\ f + FileLen <= m
      /\ m <= Size - W /\ m \in Sector /\ m + W - 1 \in Sector /\ Begun(f, d, FileLen)
      /\ w \in Marks \cup {All(Blank)} /\ Word(m) = w
  BY StoredTypes
<1>2. Contents(f) = d /\ Valid(f)
  BY <1>1, BegunReads
<1>3. ASSUME NEW i \in Sector, flash[i] = M1 PROVE i = f
  <2>1. i \in Int /\ i \in 0 .. FLASHFILE_PAGE_END
    BY Sizes DEF Sector
  <2>2. CASE i < f
    BY <1>1, <1>3, <2>1, <2>2 DEF Begun
  <2>3. CASE i \in f .. f + FileLen - 1
    <3>1. i - f + 1 \in 1 .. FileLen /\ f + (i - f + 1) - 1 = i
      BY <1>1, <2>1, <2>3, Sizes
    <3>2. flash[i] = FileByte(d, i - f + 1)
      BY <1>1, <3>1 DEF Begun
    <3>3. i - f + 1 = 1
      BY <1>1, <1>3, <3>1, <3>2, NotMagic DEF Begun
    <3>4. QED
      BY <1>1, <2>1, <3>3
  <2>4. CASE i \in f + FileLen .. m - 1
    BY <1>3, <2>4, NotMagic DEF Stored
  <2>5. CASE i \in m .. m + W - 1
    BY <1>1, <1>3, <2>5, WordReads, NotMagic
  <2>6. CASE i >= m + W
    <3>1. i \in m + W .. FLASHFILE_PAGE_END
      BY <1>1, <2>1, <2>6, Sizes
    <3>2. flash[i] = Blank
      BY <3>1 DEF BlankFrom, Stored
    <3>3. QED
      BY <1>3, <3>2, NotMagic
  <2>7. /\ f + FileLen \in Int /\ m + W \in Int /\ W \in Nat /\ FileLen \in Nat
    BY <1>1, Sizes
  <2>8. QED
    BY <1>1, <2>1, <2>2, <2>3, <2>4, <2>5, <2>6, <2>7
<1>4. NvmFiles \subseteq {f}
  BY <1>3, OnlyCandidate DEF TypeInv
<1>5. f \in NvmFiles
  BY <1>1, <1>2 DEF NvmFiles, SearchEnd
<1>10. f \in Nat
  BY <1>1, Sizes
<1>6. NvmFiles = {f} /\ NvmFiles \in SUBSET Nat
  BY <1>10, <1>4, <1>5
<1>7. Lowest(NvmFiles) = f
  BY <1>6, LowestIs
<1>8. Rest
  BY <1>1, <1>2 DEF Rest
<1>9. QED
  BY <1>2, <1>3, <1>6, <1>7, <1>8

(* The operations on what is stored. *)
LEMMA ByteWritten ==
  ASSUME TypeInv, NEW f, NEW d, NEW n \in 0 .. FileLen - 1, Begun(f, d, n), BlankFrom(f + n),
         flash' = Effect([op |-> "byte", at |-> f + n, data |-> FileByte(d, n + 1)])
  PROVE  Begun(f, d, n + 1)' /\ BlankFrom(f + n + 1)' /\ Byte(f + n) = Blank
<1>0. FileLen \in Nat /\ n \in 0 .. FileLen /\ n \in Int /\ n >= 0
  BY Sizes
<1>1. /\ f \in 0 .. SearchEnd /\ f \in Int /\ n \in Int /\ n \in 0 .. FileLen /\ f + n \in Sector
      /\ f + n \in Int /\ f + n >= f /\ n >= 0
  <2>1. f \in 0 .. SearchEnd
    BY DEF Begun
  <2>2. f \in Int /\ f + n \in Sector
    BY <1>0, <2>1, Fits
  <2>3. QED
    BY <1>0, <2>1, <2>2
<1>2. flash[f + n] = Blank
  BY <1>1 DEF BlankFrom, Sector
<1>3. flash' = [flash EXCEPT ![f + n] = FileByte(d, n + 1)]
  BY <1>2 DEF Effect, Programmed
<1>4. /\ DOMAIN flash = Sector /\ flash'[f + n] = FileByte(d, n + 1)
      /\ \A i \in Sector : i # f + n => flash'[i] = flash[i]
  BY <1>1, <1>3 DEF TypeInv
<1>5. \A i \in 0 .. f - 1 : flash'[i] # M1
  <2>1. \A i \in 0 .. f - 1 : i \in Sector /\ i # f + n
    BY <1>1, Sizes DEF Sector
  <2>2. QED
    BY <1>4, <2>1 DEF Begun
<1>6. \A k \in 1 .. n + 1 : flash'[f + k - 1] = FileByte(d, k)
  <2> TAKE k \in 1 .. n + 1
  <2>1. CASE k = n + 1
    BY <1>1, <1>4, <2>1, f + (n + 1) - 1 = f + n
  <2>2. CASE k # n + 1
    <3>0. k \in Int /\ k >= 1 /\ k <= n /\ n <= FileLen
      BY <1>0, <1>1, <2>2
    <3>1. k \in 1 .. n /\ f + k - 1 # f + n /\ k - 1 \in 0 .. FileLen /\ f + (k - 1) = f + k - 1
      BY <1>0, <1>1, <3>0
    <3>2. f + k - 1 \in Sector
      BY <1>1, <3>1, Fits
    <3>3. QED
      BY <1>4, <3>1, <3>2 DEF Begun
  <2>3. QED
    BY <2>1, <2>2
<1>7. \A j \in f + n + 1 .. FLASHFILE_PAGE_END : flash'[j] = Blank
  <2>1. \A j \in f + n + 1 .. FLASHFILE_PAGE_END : j \in Sector /\ j # f + n /\ j \in f + n .. FLASHFILE_PAGE_END
    BY <1>1, Sizes DEF Sector
  <2>2. QED
    BY <1>4, <2>1 DEF BlankFrom
<1>8. Byte(f + n) = Blank
  BY <1>1, <1>2, <1>4 DEF Byte
<1>9. QED
  BY <1>5, <1>6, <1>7, <1>8 DEF Begun, BlankFrom

(* Programming the word at m leaves the other bytes alone. *)
LEMMA WordWritten ==
  ASSUME TypeInv, NEW m \in Int, m \in Sector, m + W - 1 \in Sector, NEW w,
         w = All(B(0)) \/ Word(m) = All(Blank), flash' = Effect(WriteWord(m, w)), w \in [1 .. W -> Known(tried)]
  PROVE  /\ \A i \in Sector : i \notin m .. m + W - 1 => flash'[i] = flash[i]
         /\ \A i \in m .. m + W - 1 : flash'[i] = w[i - m + 1]
         /\ Word(m)' = w /\ DOMAIN flash' = Sector
<1>1. /\ flash' = [i \in Sector |-> IF i \in m .. m + W - 1 THEN Programmed(i, w[i - m + 1]) ELSE flash[i]]
  BY DEF Effect, WriteWord, TypeInv
<1>2. ASSUME NEW i \in m .. m + W - 1 PROVE Programmed(i, w[i - m + 1]) = w[i - m + 1]
  <2>1. i - m + 1 \in 1 .. W /\ flash[i] = Word(m)[i - m + 1]
    BY WordReads
  <2>2. w[i - m + 1] = B(0) \/ flash[i] = Blank
    BY <2>1 DEF All
  <2>3. QED
    BY <2>2 DEF Programmed
<1>3. \A i \in m .. m + W - 1 : i \in Sector
  BY WordReads
<1>4. \A i \in m .. m + W - 1 : flash'[i] = w[i - m + 1]
  BY <1>1, <1>2, <1>3
<1>5. DOMAIN flash' = Sector /\ \A i \in Sector : i \notin m .. m + W - 1 => flash'[i] = flash[i]
  BY <1>1
<1>6. Word(m)' = w
  <2>1. ASSUME NEW k \in 1 .. W PROVE Byte(m + k - 1)' = w[k]
    <3>1. m + k - 1 \in m .. m + W - 1 /\ (m + k - 1) - m + 1 = k
      BY Sizes
    <3>2. QED
      BY <1>3, <1>4, <1>5, <3>1 DEF Byte
  <2>2. Word(m)' = [k \in 1 .. W |-> w[k]]
    BY <2>1 DEF Word
  <2>3. QED
    BY <2>2
<1>7. QED
  BY <1>4, <1>5, <1>6

LEMMA DigitsKnown == \A t : Digits \subseteq Known(t)
<1>1. \A n \in 0 .. 9 : B(n) \in Bytes
  BY PlainBytes
<1>2. QED
  BY <1>1 DEF Digits, Known

(* Programming a word behind a file leaves the file alone. *)
LEMMA BegunKept ==
  ASSUME TypeInv, NEW f, NEW d, NEW m \in Int, Begun(f, d, FileLen), f + FileLen <= m,
         \A i \in Sector : i \notin m .. m + W - 1 => flash'[i] = flash[i]
  PROVE  Begun(f, d, FileLen)'
<1>1. /\ f \in 0 .. SearchEnd /\ f \in Int /\ \A k \in 0 .. FileLen : f + k \in Sector
  BY Fits DEF Begun
<1>2. FileLen \in Nat /\ W \in Nat
  BY Sizes
<1>3. \A i \in 0 .. f - 1 : i \in Sector /\ i \notin m .. m + W - 1
  BY <1>1, <1>2, Fits, Sizes DEF Sector
<1>4. \A k \in 1 .. FileLen : f + k - 1 \in Sector /\ f + k - 1 \notin m .. m + W - 1
  <2> TAKE k \in 1 .. FileLen
  <2>1. k - 1 \in 0 .. FileLen /\ f + (k - 1) = f + k - 1 /\ f + k - 1 < m
    BY <1>1, <1>2
  <2>2. f + k - 1 \in Sector
    BY <1>1, <2>1
  <2>3. QED
    BY <1>1, <1>2, <2>1, <2>2
<1>5. /\ \A i \in 0 .. f - 1 : flash'[i] = flash[i]
      /\ \A k \in 1 .. FileLen : flash'[f + k - 1] = flash[f + k - 1]
  BY <1>3, <1>4
<1>6. QED
  BY <1>5 DEF Begun

(* A word behind another that is zeroed or programmed for the first time. *)
LEMMA MarkWritten ==
  ASSUME TypeInv, NEW f, NEW d, NEW m, NEW w \in Marks, Stored(f, d, m, All(Blank)),
         flash' = Effect(WriteWord(m, w))
  PROVE  Stored(f, d, m, w)'
<1>1. /\ m \in Int /\ m \in Sector /\ m + W - 1 \in Sector /\ Word(m) = All(Blank)
      /\ f \in 0 .. SearchEnd /\ f \in Int /\ f + FileLen \in Int /\ f + FileLen <= m /\ m <= Size - W
  BY StoredTypes
<1>2. w \in [1 .. W -> Known(tried)]
  BY DigitsKnown, MarkIs
<1>3. /\ \A i \in Sector : i \notin m .. m + W - 1 => flash'[i] = flash[i]
      /\ Word(m)' = w
  BY <1>1, <1>2, WordWritten
<1>4. Begun(f, d, FileLen)'
  BY <1>1, <1>3, BegunKept DEF Stored
<1>5. \A i \in f + FileLen .. m - 1 : flash'[i] = B(0)
  <2>1. \A i \in f + FileLen .. m - 1 : i \in Sector /\ i \notin m .. m + W - 1
    BY <1>1, Sizes DEF Sector
  <2>2. QED
    BY <1>3, <2>1 DEF Stored
<1>6. \A j \in m + W .. FLASHFILE_PAGE_END : flash'[j] = Blank
  <2>1. \A j \in m + W .. FLASHFILE_PAGE_END : j \in Sector /\ j \notin m .. m + W - 1
    BY <1>1, Sizes DEF Sector
  <2>2. QED
    BY <1>3, <2>1 DEF Stored, BlankFrom
<1>7. m \in f + FileLen .. Size - W /\ Aligned(m)
  BY DEF Stored
<1>8. QED
  BY <1>3, <1>4, <1>5, <1>6, <1>7 DEF Stored, BlankFrom

LEMMA ZeroWritten ==
  ASSUME TypeInv, NEW f, NEW d, NEW m, NEW w, Stored(f, d, m, w), m <= Size - 2 * W,
         flash' = Effect(WriteWord(m, All(B(0))))
  PROVE  Stored(f, d, m + W, All(Blank))'
<1>1. /\ m \in Int /\ m \in Sector /\ m + W - 1 \in Sector /\ Aligned(m)
      /\ f \in 0 .. SearchEnd /\ f \in Int /\ f + FileLen \in Int /\ f + FileLen <= m /\ m <= Size - W
      /\ FileLen \in Nat
  BY StoredTypes, Sizes
<1>2. All(B(0)) \in [1 .. W -> Known(tried)]
  BY PlainBytes DEF Known
<1>3. /\ \A i \in Sector : i \notin m .. m + W - 1 => flash'[i] = flash[i]
      /\ \A i \in m .. m + W - 1 : flash'[i] = All(B(0))[i - m + 1]
      /\ DOMAIN flash' = Sector
  BY <1>1, <1>2, WordWritten
<1>4. Begun(f, d, FileLen)'
  BY <1>1, <1>3, BegunKept DEF Stored
<1>5. \A i \in f + FileLen .. (m + W) - 1 : flash'[i] = B(0)
  <2> TAKE i \in f + FileLen .. (m + W) - 1
  <2>1. CASE i \in m .. m + W - 1
    <3>1. i - m + 1 \in 1 .. W
      BY <1>1, <2>1, Sizes
    <3>2. QED
      BY <1>3, <2>1, <3>1 DEF All
  <2>2. CASE i \notin m .. m + W - 1
    <3>1. i \in f + FileLen .. m - 1 /\ i \in Sector
      BY <1>1, <2>2, Sizes DEF Sector
    <3>2. QED
      BY <1>3, <2>2, <3>1 DEF Stored
  <2>3. QED
    BY <2>1, <2>2
<1>6. \A j \in m + W .. FLASHFILE_PAGE_END : j \in Sector /\ flash'[j] = Blank
  <2>1. \A j \in m + W .. FLASHFILE_PAGE_END : j \in Sector /\ j \notin m .. m + W - 1
    BY <1>1, Sizes DEF Sector
  <2>2. QED
    BY <1>3, <2>1 DEF Stored, BlankFrom
<1>7. m + W \in f + FileLen .. Size - W /\ Aligned(m + W)
  <2>1. Aligned(m + W)
    BY <1>1, Sizes, AlignedSizes, AlignedSum
  <2>2. QED
    BY <1>1, <2>1, Sizes
<1>8. Word(m + W)' = All(Blank)
  <2>1. ASSUME NEW k \in 1 .. W PROVE Byte(m + W + k - 1)' = Blank
    <3>1. m + W + k - 1 \in m + W .. FLASHFILE_PAGE_END
      BY <1>1, Sizes
    <3>2. QED
      BY <1>3, <1>6, <3>1 DEF Byte
  <2>2. QED
    BY <2>1 DEF Word, All
<1>9. \A j \in (m + W) + W .. FLASHFILE_PAGE_END : flash'[j] = Blank
  <2>1. \A j \in (m + W) + W .. FLASHFILE_PAGE_END : j \in m + W .. FLASHFILE_PAGE_END
    BY <1>1, Sizes
  <2>2. QED
    BY <1>6, <2>1
<1>10. QED
  BY <1>4, <1>5, <1>7, <1>8, <1>9 DEF Stored, BlankFrom

(* What start-up takes for the MRU: the word behind the file, if it is one, and
   bytes beside the MRU once one was zeroed. *)
LEMMA FoundMru ==
  ASSUME TypeInv, NEW f, NEW d, NEW m, NEW w, Stored(f, d, m, w)
  PROVE  /\ MruEntries(f) = {} => w = All(Blank) /\ m = f + FileLen
         /\ MruEntries(f) # {} /\ Aligned(Lowest(MruEntries(f))) =>
              Lowest(MruEntries(f)) = m /\ w \in Marks
<1> DEFINE E == MruEntries(f)
           a == f + FileLen
<1>1. /\ m \in Int /\ m \in Sector /\ m + W - 1 \in Sector /\ Aligned(m) /\ Word(m) = w
      /\ f \in 0 .. SearchEnd /\ f \in Int /\ Aligned(f) /\ a \in Int /\ a <= m /\ m <= Size - W
      /\ FileLen \in Nat /\ w \in Marks \cup {All(Blank)} /\ W \in Nat /\ W >= 2 /\ Size \in Nat
      /\ FLASHFILE_PAGE_END = Size - 1 /\ a >= 0
  BY StoredTypes, Sizes
<1>2. Aligned(a)
  BY <1>1, AlignedSum, AlignedSizes
<1>3. \A i \in Int : i >= m + W => Byte(i) = Blank
  BY <1>1 DEF Stored, BlankFrom, Byte, TypeInv, Sector
<1>4. \A i \in Int : i >= a /\ i < m => Byte(i) = B(0)
  <2>1. \A i \in Int : i >= a /\ i < m => i \in Sector /\ i \in a .. m - 1
    BY <1>1 DEF Sector
  <2>2. QED
    BY <2>1 DEF Stored, Byte, TypeInv
<1>5. \A k \in 1 .. W : Byte(m + k - 1) = w[k]
  BY <1>1 DEF Word
<1>6. E \in SUBSET Nat /\ \A i \in E : i \in Int /\ i >= a
  BY <1>1 DEF MruEntries
<1>7. \A i \in Int : i >= a /\ i <= Size - 2 /\ Word(i) \notin {All(B(0)), All(Blank)} => i \in E
  BY <1>1 DEF MruEntries
<1>8. \A i \in E : Word(i) \notin {All(B(0)), All(Blank)}
  BY DEF MruEntries
<1> HIDE DEF a
<1>9. CASE m = a /\ w \in Marks
  <2>1. w \notin {All(B(0)), All(Blank)}
    BY <1>9, MarkIs
  <2>2. m \in E
    BY <1>1, <1>7, <1>9, <2>1
  <2>3. Lowest(E) \in E /\ Lowest(E) <= m
    BY <1>6, <2>2, LowestIs
  <2>4. Lowest(E) = m
    BY <1>1, <1>6, <1>9, <2>3
  <2>5. QED
    BY <1>9, <2>2, <2>4
<1>10. CASE m = a /\ w = All(Blank)
  <2>1. ASSUME NEW i \in E PROVE FALSE
    <3>1. ASSUME NEW k \in 1 .. W PROVE Byte(i + k - 1) = Blank
      <4>1. i \in Int /\ i + k - 1 \in Int /\ i + k - 1 >= m
        BY <1>1, <1>6, <1>10
      <4>2. CASE i + k - 1 >= m + W
        BY <1>3, <4>1, <4>2
      <4>3. CASE i + k - 1 < m + W
        <5> DEFINE j == i + k - 1 - m + 1
        <5>1. j \in 1 .. W /\ m + j - 1 = i + k - 1
          BY <1>1, <4>1, <4>3
        <5>2. Byte(m + j - 1) = w[j]
          BY <1>5, <5>1
        <5>3. w[j] = Blank
          BY <1>10, <5>1 DEF All
        <5>4. QED
          BY <5>1, <5>2, <5>3
      <4>4. QED
        BY <1>1, <4>1, <4>2, <4>3
    <3>2. Word(i) = All(Blank)
      BY <3>1 DEF Word, All
    <3>3. QED
      BY <1>8, <3>2
  <2>2. QED
    BY <1>10, <2>1 DEF a
<1>11. CASE m # a
  <2> DEFINE i == m - W + 1
  <2>1. a + W <= m
    BY <1>1, <1>2, <1>11, AlignedGap
  <2>2. i \in Int /\ i >= a /\ i < m /\ i <= Size - 2 /\ i + W - 1 = m /\ i + 1 - 1 = i
    BY <1>1, <2>1
  <2>3. Word(i)[1] = B(0)
    BY <1>1, <1>4, <2>2 DEF Word
  <2>4. Word(i)[W] = w[1]
    <3>1. Word(i)[W] = Byte(i + W - 1)
      BY <1>1 DEF Word
    <3>2. Byte(m + 1 - 1) = w[1] /\ m + 1 - 1 = m
      BY <1>1, <1>5
    <3>3. QED
      BY <2>2, <3>1, <3>2
  <2>5. w[1] # B(0)
    <3>1. CASE w \in Marks
      BY <3>1, MarkIs
    <3>2. CASE w = All(Blank)
      <4>1. w[1] = Blank
        BY <1>1, <3>2 DEF All
      <4>2. QED
        BY <4>1, NotMagic
    <3>3. QED
      BY <1>1, <3>1, <3>2
  <2>6. Word(i) # All(B(0)) /\ Word(i) # All(Blank)
    <3>1. All(B(0))[W] = B(0) /\ All(Blank)[1] = Blank
      BY <1>1 DEF All
    <3>2. QED
      BY <2>3, <2>4, <2>5, <3>1, NotMagic
  <2>7. i \in E
    BY <1>7, <2>2, <2>6
  <2>8. ASSUME NEW j \in E, j < i PROVE FALSE
    <3>1. ASSUME NEW k \in 1 .. W PROVE Byte(j + k - 1) = B(0)
      <4>1. j + k - 1 \in Int /\ j + k - 1 >= a /\ j + k - 1 < m
        BY <1>1, <1>6, <2>8
      <4>2. QED
        BY <1>4, <4>1
    <3>2. Word(j) = All(B(0))
      BY <3>1 DEF Word, All
    <3>3. QED
      BY <1>8, <3>2
  <2>9. Lowest(E) \in E /\ Lowest(E) <= i
    BY <1>6, <2>7, LowestIs
  <2>10. Lowest(E) = i
    BY <1>6, <2>2, <2>8, <2>9
  <2>11. ~Aligned(i)
    <3>1. ~(i + W <= m)
      BY <1>1, <2>2
    <3>2. QED
      BY <1>1, <2>2, <3>1, AlignedGap
  <2>12. QED
    BY <2>7, <2>10, <2>11
<1>12. QED
  BY <1>1, <1>9, <1>10, <1>11

----------------------------------------------------------------------------
(* What follows from the layout, in one formula for the state after a step. *)
Layout ==
  /\ \A f, d, m, w : Stored(f, d, m, w) => Rest
  /\ \A f, d : \A n \in 0 .. FileLen : Begun(f, d, n) /\ BlankFrom(f + n) => Rest
LEMMA LayoutIs == TypeInv => Layout
<1> SUFFICES ASSUME TypeInv PROVE Layout
  OBVIOUS
<1>1. ASSUME NEW f, NEW d, NEW m, NEW w, Stored(f, d, m, w) PROVE Rest
  BY <1>1, StoredIs
<1>2. ASSUME NEW f, NEW d, NEW n \in 0 .. FileLen, Begun(f, d, n), BlankFrom(f + n) PROVE Rest
  <2>1. CASE n = FileLen
    BY <1>1, <1>2, <2>1, BegunWhole
  <2>2. CASE n # FileLen
    <3>1. n \in 0 .. FileLen - 1
      BY <2>2, Sizes
    <3>2. NvmFiles = {}
      BY <1>2, <3>1, HalfFile
    <3>3. QED
      BY <3>2 DEF Rest
  <2>3. QED
    BY <2>1, <2>2
<1>3. QED
  BY <1>1, <1>2 DEF Layout

LEMMA LayoutNext == TypeInv' => Layout'
BY LayoutIs, PTL

(* Without a flash operation the sector stays as it is. *)
LEMMA SectorKept ==
  ASSUME flash' = flash
  PROVE  /\ \A f, d, m, w : Stored(f, d, m, w)' <=> Stored(f, d, m, w)
         /\ \A i : Word(i)' = Word(i) /\ Contents(i)' = Contents(i)
         /\ NvmFiles' = NvmFiles /\ Rest' = Rest
         /\ \A f, d, n : Begun(f, d, n)' <=> Begun(f, d, n)
         /\ \A i : BlankFrom(i)' <=> BlankFrom(i)
<1>1. \A i : Byte(i)' = Byte(i)
  BY DEF Byte
<1>2. \A i : Word(i)' = Word(i) /\ Contents(i)' = Contents(i)
  BY <1>1 DEF Word, Contents
<1>3. /\ \A f, d, n : Begun(f, d, n)' <=> Begun(f, d, n)
      /\ \A i : BlankFrom(i)' <=> BlankFrom(i)
  BY DEF Begun, BlankFrom
<1>4. \A f, d, m, w : Stored(f, d, m, w)' <=> Stored(f, d, m, w)
  BY <1>2, <1>3 DEF Stored
<1>5. \A i : Valid(i)' <=> Valid(i)
  BY <1>2 DEF Valid
<1>6. NvmFiles' = NvmFiles
  BY <1>5 DEF NvmFiles
<1>7. Rest' = Rest
  BY <1>2, <1>4, <1>6 DEF Rest
<1>8. QED
  BY <1>2, <1>3, <1>4, <1>6, <1>7

----------------------------------------------------------------------------
(* One operation of a call. *)
Takes == /\ flash' = Effect(Head(work)) /\ work' = Tail(work)
         /\ IF Head(work).op = "point"
            THEN nvm_file' = Head(work).file /\ mru' = Head(work).mru
            ELSE UNCHANGED <<nvm_file, mru>>
(* It can be done, and needs no byte that is not blank to change except to zero. *)
CanTake == /\ CanDo(Head(work))
           /\ Head(work).op = "byte" => Byte(Head(work).at) = Blank
           /\ Head(work).op = "word" =>
                Head(work).data = All(B(0)) \/ Word(Head(work).at) = All(Blank)

LEMMA TailIs ==
  ASSUME TypeInv, work # <<>>
  PROVE  /\ Len(work) \in Nat /\ Len(work) >= 1 /\ Head(work) = work[1]
         /\ Tail(work) \in Seq(Op(tried)) /\ Len(Tail(work)) = Len(work) - 1
         /\ \A p \in 1 .. Len(work) - 1 : Tail(work)[p] = work[p + 1]
<1>1. work \in Seq(Op(tried))
  BY DEF TypeInv
<1>2. QED
  BY <1>1, HeadTailProperties

LEMMA DoneIs ==
  /\ Done(1) = FileLen
  /\ \A n \in 2 .. FileLen + 2 : /\ Done(n) = FileLen + 2 - n /\ Done(n) \in 0 .. FileLen
  /\ \A n \in 3 .. FileLen + 2 : Done(n) \in 0 .. FileLen - 1 /\ Done(n) + 1 = Done(n - 1)
<1>1. FileLen \in Nat
  BY Sizes
<1>2. Done(1) = FileLen
  BY DEF Done
<1>3. \A n \in 2 .. FileLen + 2 : n # 1 /\ Done(n) = FileLen + 2 - n
  BY <1>1 DEF Done
<1>4. \A n \in 3 .. FileLen + 2 : n \in 2 .. FileLen + 2 /\ n - 1 \in 2 .. FileLen + 2
  BY <1>1
<1>5. QED
  BY <1>1, <1>2, <1>3, <1>4

(* The bytes of a file that are left to write. *)
LEMMA FileStepByte ==
  ASSUME TypeInv, NEW f, NEW d, NEW w, FileWork(f, d, w), work # <<>>,
         Len(work) \in 3 .. FileLen + 2
  PROVE  LET n == Len(work)
         IN  /\ Head(work) = [op |-> "byte", at |-> f + Done(n), data |-> FileByte(d, Done(n) + 1)]
             /\ Done(n) \in 0 .. FileLen - 1 /\ Done(n) + 1 = Done(n - 1)
             /\ Begun(f, d, Done(n)) /\ BlankFrom(f + Done(n))
<1> DEFINE n == Len(work)
<1>1. /\ n \in Int /\ n >= 3 /\ n <= FileLen + 2 /\ FileLen \in Nat
      /\ f \in 0 .. SearchEnd /\ f \in Int /\ 1 \in 1 .. n /\ 1 > n - FileLen - 2
  <2>1. f \in 0 .. SearchEnd
    BY DEF FileWork
  <2>2. QED
    BY <2>1, Sizes, Fits
<1>2. work[1] = FileOp(f, d, w, n - 1)
  BY <1>1 DEF FileWork
<1>3. Done(n) = FileLen + 2 - n /\ Done(n) \in 0 .. FileLen - 1 /\ Done(n) + 1 = Done(n - 1)
  <2>1. n \in 2 .. FileLen + 2 /\ n \in 3 .. FileLen + 2
    BY <1>1
  <2>2. QED
    BY <2>1, DoneIs
<1>5. /\ f + FileLen + 1 - (n - 1) = f + Done(n) /\ FileLen + 2 - (n - 1) = Done(n) + 1
      /\ n - 1 # 0 /\ n - 1 # 1
  <2> HIDE DEF n
  <2>1. QED
    BY <1>1, <1>3
<1>6. work[1] = [op |-> "byte", at |-> f + Done(n), data |-> FileByte(d, Done(n) + 1)]
  BY <1>2, <1>5 DEF FileOp
<1>7. Begun(f, d, Done(n)) /\ BlankFrom(f + Done(n))
  BY <1>1 DEF FileWork
<1>8. QED
  BY <1>3, <1>6, <1>7, TailIs

LEMMA FileStepEnd ==
  ASSUME TypeInv, NEW f, NEW d, NEW w, FileWork(f, d, w), work # <<>>
  PROVE  LET n == Len(work)
         IN  /\ n = 2 => Head(work) = Point(f, f + FileLen)
             /\ n = 1 => Head(work) = WriteWord(f + FileLen, w) /\ nvm_file = f /\ mru = f + FileLen
             /\ n \in {1, 2} => /\ Begun(f, d, FileLen) /\ BlankFrom(f + FileLen)
                                /\ Stored(f, d, f + FileLen, All(Blank))
<1> DEFINE n == Len(work)
<1>1. /\ n \in Int /\ n >= 1 /\ FileLen \in Nat /\ FileLen >= 2
      /\ n \in {1, 2} => 1 \in 1 .. n /\ 1 > n - FileLen - 2 /\ n \in 1 .. FileLen + 2 /\ n <= FileLen + 2
  BY Sizes, TailIs
<1>2. n \in {1, 2} => work[1] = FileOp(f, d, w, n - 1)
  BY <1>1 DEF FileWork
<1>3. n \in {1, 2} => Done(n) = FileLen
  <2>1. 2 \in 2 .. FileLen + 2 /\ FileLen + 2 - 2 = FileLen
    BY <1>1
  <2>2. Done(1) = FileLen /\ Done(2) = FileLen
    BY <2>1, DoneIs
  <2>3. QED
    BY <2>2
<1>4. n \in {1, 2} => Begun(f, d, FileLen) /\ BlankFrom(f + FileLen)
  BY <1>1, <1>3 DEF FileWork
<1>5. n = 1 => nvm_file = f /\ mru = f + FileLen
  BY DEF FileWork
<1>6. n \in {1, 2} => Stored(f, d, f + FileLen, All(Blank))
  BY <1>4, BegunWhole
<1>7. n = 2 => work[1] = Point(f, f + FileLen)
  BY <1>2 DEF FileOp
<1>8. n = 1 => work[1] = WriteWord(f + FileLen, w)
  BY <1>2 DEF FileOp
<1>9. QED
  BY <1>4, <1>5, <1>6, <1>7, <1>8, TailIs

LEMMA FileStepFirst ==
  ASSUME TypeInv, NEW f, NEW d, NEW w, FileWork(f, d, w), work # <<>>, Len(work) = FileLen + 3
  PROVE  /\ CanTake
         /\ Takes => Begun(f, d, 0)' /\ BlankFrom(f)'
<1>1. /\ f \in 0 .. SearchEnd /\ f \in Int /\ Aligned(f) /\ d \in [1 .. L -> Digits]
      /\ \/ Head(work) = Erase /\ f = 0
         \/ /\ Head(work) = Destroy /\ BlankFrom(f)
            /\ nvm_file \in 0 .. f - 1 /\ Aligned(nvm_file)
            /\ \A i \in 0 .. f - 1 : i # nvm_file => flash[i] # M1
  <2>1. f \in 0 .. SearchEnd
    BY DEF FileWork
  <2>2. QED
    BY <2>1, Fits, TailIs DEF FileWork
<1>2. CanTake
  BY <1>1 DEF CanTake, CanDo, Erase, Destroy
<1>3. ASSUME Takes PROVE Begun(f, d, 0)' /\ BlankFrom(f)'
  <2>1. \A k \in 1 .. 0 : flash'[f + k - 1] = FileByte(d, k)
    OBVIOUS
  <2>2. CASE Head(work) = Erase /\ f = 0
    <3>1. flash' = [i \in Sector |-> Blank]
      BY <1>3, <2>2 DEF Takes, Erase, Effect, TypeInv
    <3>2. BlankFrom(f)'
      BY <2>2, <3>1 DEF BlankFrom, Sector
    <3>3. QED
      BY <1>1, <2>1, <2>2, <3>2 DEF Begun
  <2>3. CASE /\ Head(work) = Destroy /\ BlankFrom(f)
             /\ nvm_file \in 0 .. f - 1 /\ Aligned(nvm_file)
             /\ \A i \in 0 .. f - 1 : i # nvm_file => flash[i] # M1
    <3>1. flash' = [i \in Sector |-> IF i \in nvm_file .. nvm_file + W - 1 THEN B(0) ELSE flash[i]]
      <4>1. DOMAIN flash = Sector /\ Destroy.op = "destroy" /\ Destroy.at = nvm_file
        BY DEF TypeInv, Destroy
      <4>2. flash' = Effect(Destroy)
        BY <1>3, <2>3 DEF Takes
      <4>3. QED
        BY <4>1, <4>2 DEF Effect
    <3>2. nvm_file \in Int /\ nvm_file + W <= f
      BY <1>1, <2>3, AlignedGap
    <3>3. \A i \in 0 .. f - 1 : i \in Sector /\ (i \notin nvm_file .. nvm_file + W - 1 => i # nvm_file)
      BY <1>1, <3>2, Sizes DEF Sector
    <3>4. \A i \in 0 .. f - 1 : flash'[i] # M1
      BY <2>3, <3>1, <3>3, NotMagic
    <3>5. \A j \in f .. FLASHFILE_PAGE_END : j \in Sector /\ j \notin nvm_file .. nvm_file + W - 1
      BY <1>1, <3>2, Sizes DEF Sector
    <3>6. BlankFrom(f)'
      BY <2>3, <3>1, <3>5 DEF BlankFrom
    <3>7. QED
      BY <1>1, <2>1, <3>4, <3>6 DEF Begun
  <2>4. QED
    BY <1>1, <2>2, <2>3
<1>4. QED
  BY <1>2, <1>3

LEMMA FileCanTake ==
  ASSUME TypeInv, NEW f, NEW d, NEW w, FileWork(f, d, w), work # <<>>
  PROVE  CanTake
<1> DEFINE n == Len(work)
<1>1. n \in Int /\ n >= 1 /\ n <= FileLen + 3 /\ FileLen \in Nat
  <2>1. n <= FileLen + 3
    BY DEF FileWork
  <2>2. QED
    BY <2>1, Sizes, TailIs
<1>2. CASE n = FileLen + 3
  BY <1>2, FileStepFirst
<1>3. CASE n \in 3 .. FileLen + 2
  <2>1. /\ Head(work) = [op |-> "byte", at |-> f + Done(n), data |-> FileByte(d, Done(n) + 1)]
        /\ Done(n) \in 0 .. FileLen - 1
        /\ Begun(f, d, Done(n)) /\ BlankFrom(f + Done(n))
    BY <1>3, FileStepByte
  <2>2. Done(n) \in 0 .. FileLen /\ f \in 0 .. SearchEnd
    BY <2>1, Sizes DEF Begun
  <2>3. f + Done(n) \in Sector /\ f + Done(n) \in Int /\ f + Done(n) \in f + Done(n) .. FLASHFILE_PAGE_END
    BY <2>2, Fits, Sizes DEF Sector
  <2>4. Byte(f + Done(n)) = Blank
    BY <2>1, <2>3 DEF BlankFrom, Byte
  <2>5. QED
    BY <2>1, <2>4 DEF CanTake, CanDo
<1>4. CASE n = 2
  <2>1. Head(work) = Point(f, f + FileLen)
    BY <1>4, FileStepEnd
  <2>2. QED
    BY <2>1 DEF Point, CanTake, CanDo
<1>5. CASE n = 1
  <2>1. Head(work) = WriteWord(f + FileLen, w) /\ Stored(f, d, f + FileLen, All(Blank))
    BY <1>5, FileStepEnd
  <2>2. Aligned(f + FileLen) /\ Word(f + FileLen) = All(Blank)
    BY <2>1 DEF Stored
  <2>3. QED
    BY <2>1, <2>2 DEF WriteWord, CanTake, CanDo
<1> HIDE DEF n
<1>6. n = 1 \/ n = 2 \/ n \in 3 .. FileLen + 2 \/ n = FileLen + 3
  BY <1>1
<1>7. QED
  BY <1>2, <1>3, <1>4, <1>5, <1>6

LEMMA FileStep ==
  ASSUME TypeInv, TypeInv', NEW f, NEW d, NEW w, FileWork(f, d, w), Rest, work # <<>>, Takes
  PROVE  FileWork(f, d, w)' /\ Rest'
<1> DEFINE n == Len(work)
           k == Len(work')
<1>1. /\ k = n - 1 /\ n \in Int /\ n >= 1 /\ k \in Nat
      /\ \A p \in 1 .. k : p + 1 \in 1 .. n /\ work'[p] = work[p + 1]
  BY TailIs DEF Takes
<1>2. /\ f \in 0 .. SearchEnd /\ Aligned(f) /\ d \in [1 .. L -> Digits] /\ w \in Marks
      /\ n <= FileLen + 3 /\ f \in Int
  BY Fits DEF FileWork
<1>3. FileLen \in Nat /\ FileLen >= 2
  BY Sizes
<1>4. CanTake
  BY FileCanTake
<1>5. \A p \in 1 .. n : p > n - FileLen - 2 => work[p] = FileOp(f, d, w, n - p)
  BY DEF FileWork
<1> HIDE DEF n, k
<1>6. \A p \in 1 .. k : p > k - FileLen - 2 => work'[p] = FileOp(f, d, w, k - p)
  <2> TAKE p \in 1 .. k
  <2> HAVE p > k - FileLen - 2
  <2>1. p + 1 > n - FileLen - 2 /\ n - (p + 1) = k - p /\ p + 1 \in 1 .. n
    BY <1>1, <1>3
  <2>2. QED
    BY <1>1, <1>5, <2>1
<1>7. ASSUME k \in 2 .. FileLen + 2, NEW c, c = Done(k), Begun(f, d, c)', BlankFrom(f + c)'
      PROVE  FileWork(f, d, w)' /\ Rest'
  <2>1. k # 0 /\ ~(k <= 1) /\ k # FileLen + 3 /\ k <= FileLen + 3
    BY <1>3, <1>7
  <2>2. FileWork(f, d, w)'
    BY <1>2, <1>6, <1>7, <2>1 DEF FileWork, k, Begun, BlankFrom
  <2>3. c \in 0 .. FileLen
    BY <1>7, DoneIs
  <2>4. Rest'
    BY <1>7, <2>3, LayoutNext DEF Layout
  <2>5. QED
    BY <2>2, <2>4
<1>8. CASE n = FileLen + 3
  <2>1. Begun(f, d, 0)' /\ BlankFrom(f)'
    BY <1>8, FileStepFirst DEF n
  <2>2. k = FileLen + 2 /\ k \in 2 .. FileLen + 2 /\ FileLen + 2 - k = 0
    BY <1>1, <1>3, <1>8
  <2>3. Done(k) = 0 /\ f + 0 = f
    BY <1>2, <2>2, DoneIs
  <2>4. QED
    BY <1>7, <2>1, <2>2, <2>3
<1>9. CASE n \in 3 .. FileLen + 2
  <2> PICK c : c = Done(n)
    OBVIOUS
  <2>1. /\ Head(work) = [op |-> "byte", at |-> f + c, data |-> FileByte(d, c + 1)]
        /\ c \in 0 .. FileLen - 1 /\ c + 1 = Done(n - 1)
        /\ Begun(f, d, c) /\ BlankFrom(f + c)
    BY <1>9, FileStepByte DEF n
  <2>2. flash' = Effect([op |-> "byte", at |-> f + c, data |-> FileByte(d, c + 1)])
    BY <2>1 DEF Takes
  <2>3. Begun(f, d, c + 1)' /\ BlankFrom(f + c + 1)'
    BY <2>1, <2>2, ByteWritten
  <2>4. f + c + 1 = f + (c + 1) /\ k \in 2 .. FileLen + 2 /\ c + 1 = Done(k)
    BY <1>1, <1>2, <1>3, <1>9, <2>1
  <2>5. QED
    BY <1>7, <2>3, <2>4
<1>10. CASE n = 2
  <2>1. /\ Head(work) = Point(f, f + FileLen)
        /\ Begun(f, d, FileLen) /\ BlankFrom(f + FileLen)
    BY <1>10, FileStepEnd DEF n
  <2>2. flash' = flash /\ nvm_file' = f /\ mru' = f + FileLen
    BY <2>1 DEF Takes, Point, Effect
  <2>3. Begun(f, d, FileLen)' /\ BlankFrom(f + FileLen)' /\ Rest'
    BY <2>1, <2>2, SectorKept
  <2>4. k = 1 /\ k # 0 /\ k # FileLen + 3 /\ k <= FileLen + 3 /\ Done(k) = FileLen
    BY <1>1, <1>3, <1>10, DoneIs
  <2>5. FileWork(f, d, w)'
    BY <1>2, <1>6, <2>2, <2>3, <2>4 DEF FileWork, k
  <2>6. QED
    BY <2>3, <2>5
<1>11. CASE n = 1
  <2>1. /\ Head(work) = WriteWord(f + FileLen, w) /\ nvm_file = f /\ mru = f + FileLen
        /\ Stored(f, d, f + FileLen, All(Blank))
    BY <1>11, FileStepEnd DEF n
  <2>2. flash' = Effect(WriteWord(f + FileLen, w)) /\ nvm_file' = f /\ mru' = f + FileLen
    BY <2>1 DEF Takes, WriteWord
  <2>3. Stored(f, d, f + FileLen, w)'
    BY <1>2, <2>1, <2>2, MarkWritten
  <2>4. Rest'
    BY <2>3, LayoutNext DEF Layout
  <2>5. k = 0 /\ k # FileLen + 3 /\ k <= FileLen + 3 /\ k \notin 1 .. FileLen + 2
    BY <1>1, <1>3, <1>11
  <2>6. Stored(f, d, mru, w)'
    BY <2>2, <2>3
  <2>7. FileWork(f, d, w)'
    BY <1>2, <1>6, <2>2, <2>5, <2>6 DEF FileWork, k
  <2>8. QED
    BY <2>4, <2>7
<1>12. n = 1 \/ n = 2 \/ n \in 3 .. FileLen + 2 \/ n = FileLen + 3
  BY <1>1, <1>2, <1>3
<1>13. QED
  BY <1>8, <1>9, <1>10, <1>11, <1>12

(* A call that writes an MRU. *)
LEMMA MruStep ==
  ASSUME TypeInv, NEW d, NEW w, MruWork(d, w), Rest, work # <<>>
  PROVE  /\ CanTake
         /\ Takes /\ TypeInv' => MruWork(d, w)' /\ Rest'
<1> PICK n, m, f, i : n = Len(work) /\ m = work[n].at /\ f = nvm_file /\ i = mru
  OBVIOUS
<1>1. n \in {1, 2, 3} /\ w \in Marks /\ Head(work) = work[1] /\ work[n] = WriteWord(m, w)
  <2>1. n <= 3 /\ w \in Marks
    BY DEF MruWork
  <2>2. n \in Nat /\ n >= 1 /\ Head(work) = work[1]
    BY TailIs
  <2>3. n > 0 => work[n] = WriteWord(m, w)
    BY DEF MruWork
  <2>4. QED
    BY <2>1, <2>2, <2>3
<1>2. Takes => /\ Len(work') = n - 1
               /\ n = 2 => work'[1] = work[2]
               /\ n = 3 => work'[1] = work[2] /\ work'[2] = work[3]
  <2>1. Takes => Len(work') = n - 1 /\ \A p \in 1 .. n - 1 : work'[p] = work[p + 1]
    BY TailIs DEF Takes
  <2>2. n = 2 => 1 \in 1 .. n - 1 /\ 1 + 1 = 2
    BY <1>1
  <2>3. n = 3 => 1 \in 1 .. n - 1 /\ 1 + 1 = 2 /\ 2 \in 1 .. n - 1 /\ 2 + 1 = 3
    BY <1>1
  <2>4. QED
    BY <2>1, <2>2, <2>3
<1>3. CASE n = 3
  <2>1. /\ work[1] = WriteWord(i, All(B(0))) /\ m = i + W /\ i <= Size - 2 * W
        /\ \E v : Stored(f, d, i, v)
        /\ work[2] = Point(f, m) /\ work[3] = WriteWord(m, w)
    <3>1. n - 1 = 2 /\ n > 1 /\ work[n - 1] = work[2] /\ work[n] = work[3]
      BY <1>3
    <3>2. work[n - 1] = Point(f, m)
      BY <3>1 DEF MruWork
    <3>3. /\ work[1] = WriteWord(i, All(B(0))) /\ m = i + W /\ i <= Size - 2 * W
          /\ Stored(f, d, i, Word(i))
      BY <1>3 DEF MruWork
    <3>4. QED
      BY <1>1, <3>1, <3>2, <3>3
  <2>2. CanTake
    BY <1>1, <2>1 DEF CanTake, CanDo, WriteWord, Stored
  <2>3. ASSUME Takes, TypeInv' PROVE MruWork(d, w)' /\ Rest'
    <3>1. flash' = Effect(WriteWord(i, All(B(0)))) /\ nvm_file' = f /\ mru' = i
      BY <1>1, <2>1, <2>3 DEF Takes, WriteWord
    <3>2. Stored(f, d, m, All(Blank))'
      BY <2>1, <3>1, ZeroWritten
    <3>3. Rest'
      BY <2>3, <3>2, LayoutNext DEF Layout
    <3>4. Len(work') = 2 /\ work'[1] = Point(f, m) /\ work'[2] = WriteWord(m, w) /\ work'[2].at = m
      BY <1>2, <1>3, <2>1, <2>3 DEF WriteWord
    <3>5. MruWork(d, w)'
      BY <1>1, <3>1, <3>2, <3>4 DEF MruWork
    <3>6. QED
      BY <3>3, <3>5
  <2>4. QED
    BY <2>2, <2>3
<1>4. CASE n = 2
  <2>1. work[1] = Point(f, m) /\ Stored(f, d, m, All(Blank)) /\ work[2] = WriteWord(m, w)
    <3>1. n - 1 = 1 /\ n > 1 /\ work[n - 1] = work[1] /\ work[n] = work[2]
      BY <1>4
    <3>2. work[n - 1] = Point(f, m) /\ Stored(f, d, m, All(Blank))
      BY <1>4, <3>1 DEF MruWork
    <3>3. QED
      BY <1>1, <3>1, <3>2
  <2>2. CanTake
    BY <1>1, <2>1 DEF CanTake, CanDo, Point
  <2>3. ASSUME Takes, TypeInv' PROVE MruWork(d, w)' /\ Rest'
    <3>1. flash' = flash /\ nvm_file' = f /\ mru' = m
      BY <1>1, <2>1, <2>3 DEF Takes, Point, Effect
    <3>2. Stored(f, d, m, All(Blank))' /\ Rest'
      BY <2>1, <3>1, SectorKept
    <3>3. Len(work') = 1 /\ work'[1] = WriteWord(m, w) /\ work'[1].at = m
      BY <1>2, <1>4, <2>1, <2>3 DEF WriteWord
    <3>4. MruWork(d, w)'
      BY <1>1, <3>1, <3>2, <3>3 DEF MruWork
    <3>5. QED
      BY <3>2, <3>4
  <2>4. QED
    BY <2>2, <2>3
<1>5. CASE n = 1
  <2>1. m = i /\ Stored(f, d, m, All(Blank)) /\ work[1] = WriteWord(m, w)
    BY <1>1, <1>5 DEF MruWork
  <2>2. CanTake
    BY <1>1, <2>1 DEF CanTake, CanDo, WriteWord, Stored
  <2>3. ASSUME Takes, TypeInv' PROVE MruWork(d, w)' /\ Rest'
    <3>1. flash' = Effect(WriteWord(m, w)) /\ nvm_file' = f /\ mru' = m
      BY <1>1, <2>1, <2>3 DEF Takes, WriteWord
    <3>2. Stored(f, d, m, w)'
      BY <1>1, <2>1, <3>1, MarkWritten
    <3>3. Rest'
      BY <2>3, <3>2, LayoutNext DEF Layout
    <3>4. Len(work') = 0
      BY <1>2, <1>5, <2>3
    <3>5. MruWork(d, w)'
      BY <1>1, <3>1, <3>2, <3>4 DEF MruWork
    <3>6. QED
      BY <3>3, <3>5
  <2>4. QED
    BY <2>2, <2>3
<1>6. QED
  BY <1>1, <1>3, <1>4, <1>5

(* The start of a call. *)
LEMMA FileStarts ==
  ASSUME NEW f \in 0 .. SearchEnd, Aligned(f), NEW d \in [1 .. L -> Digits], NEW w \in Marks,
         NEW first, work' = FilePlan(first, f, d, w), flash' = flash, nvm_file' = nvm_file,
         \/ first = Erase /\ f = 0
         \/ /\ first = Destroy /\ BlankFrom(f)
            /\ nvm_file \in 0 .. f - 1 /\ Aligned(nvm_file)
            /\ \A i \in 0 .. f - 1 : i # nvm_file => flash[i] # M1
  PROVE  FileWork(f, d, w)'
<1>1. FileLen \in Nat /\ f \in Int
  BY Sizes, Fits
<1>2. FilePlanOf(work', first, f, d, w)
  BY FilePlanIs
<1>3. /\ Len(work') = FileLen + 3 /\ work'[1] = first
      /\ \A k \in 1 .. FileLen :
           work'[k + 1] = [op |-> "byte", at |-> f + k - 1, data |-> FileByte(d, k)]
      /\ work'[FileLen + 2] = Point(f, f + FileLen)
      /\ work'[FileLen + 3] = WriteWord(f + FileLen, w)
  BY <1>2 DEF FilePlanOf
<1>4. ASSUME NEW p \in 1 .. FileLen + 3, p > FileLen + 3 - FileLen - 2
      PROVE  work'[p] = FileOp(f, d, w, FileLen + 3 - p)
  <2>1. CASE p = FileLen + 3
    <3>1. FileLen + 3 - p = 0
      BY <1>1, <2>1
    <3>2. QED
      BY <1>3, <2>1, <3>1 DEF FileOp
  <2>2. CASE p = FileLen + 2
    <3>1. FileLen + 3 - p = 1
      BY <1>1, <2>2
    <3>2. QED
      BY <1>3, <2>2, <3>1 DEF FileOp
  <2>3. CASE p < FileLen + 2
    <3> DEFINE r == FileLen + 3 - p
               k == p - 1
    <3>1. /\ k \in 1 .. FileLen /\ k + 1 = p /\ r # 0 /\ r # 1
          /\ f + FileLen + 1 - r = f + k - 1 /\ FileLen + 2 - r = k
      BY <1>1, <1>4, <2>3
    <3>2. work'[k + 1] = [op |-> "byte", at |-> f + k - 1, data |-> FileByte(d, k)]
      BY <1>3, <3>1
    <3> HIDE DEF r, k
    <3>3. FileOp(f, d, w, r) = [op |-> "byte", at |-> f + k - 1, data |-> FileByte(d, k)]
      BY <3>1 DEF FileOp
    <3>4. QED
      BY <3>1, <3>2, <3>3 DEF r
  <2>4. QED
    BY <1>1, <2>1, <2>2, <2>3
<1>5. /\ FileLen + 3 \notin 1 .. FileLen + 2 /\ ~(FileLen + 3 <= 1) /\ FileLen + 3 # 0
      /\ FileLen + 3 <= FileLen + 3
  BY <1>1
<1>6. \/ work'[1] = Erase' /\ f = 0
      \/ /\ work'[1] = Destroy' /\ BlankFrom(f)'
         /\ nvm_file' \in 0 .. f - 1 /\ Aligned(nvm_file)'
         /\ \A i \in 0 .. f - 1 : i # nvm_file' => flash'[i] # M1
  BY <1>3 DEF Erase, Destroy, BlankFrom, Aligned
<1> PICK n : n = FileLen + 3
  OBVIOUS
<1>7. /\ Len(work') = n /\ n <= FileLen + 3 /\ n \notin 1 .. FileLen + 2 /\ ~(n <= 1) /\ n # 0
      /\ \A p \in 1 .. n : p > n - FileLen - 2 => work'[p] = FileOp(f, d, w, n - p)
  <2>1. Len(work') = n
    BY <1>3
  <2>2. n <= FileLen + 3 /\ n \notin 1 .. FileLen + 2 /\ ~(n <= 1) /\ n # 0
    BY <1>5
  <2>3. ASSUME NEW p \in 1 .. n, p > n - FileLen - 2 PROVE work'[p] = FileOp(f, d, w, n - p)
    <3>1. p \in 1 .. FileLen + 3 /\ p > FileLen + 3 - FileLen - 2 /\ n - p = FileLen + 3 - p
      BY <1>1, <2>3
    <3>2. work'[p] = FileOp(f, d, w, FileLen + 3 - p)
      BY <1>4, <3>1
    <3>3. QED
      BY <3>1, <3>2
  <2>4. QED
    BY <2>1, <2>2, <2>3
<1>8. QED
  BY <1>6, <1>7 DEF FileWork

(* A file replaces the stored one behind its MRU, or in an erased sector. *)
LEMMA NextPlace ==
  ASSUME TypeInv, NEW s, NEW w \in Marks, Stored(nvm_file, s, mru, w)
  PROVE  /\ OldMru = w /\ NextFile \in 0 .. SearchEnd /\ Aligned(NextFile)
         /\ \/ NextFirst = Erase /\ NextFile = 0
            \/ /\ NextFirst = Destroy /\ BlankFrom(NextFile)
               /\ nvm_file \in 0 .. NextFile - 1 /\ Aligned(nvm_file)
               /\ \A i \in 0 .. NextFile - 1 : i # nvm_file => flash[i] # M1
<1>1. /\ nvm_file \in 0 .. SearchEnd /\ nvm_file \in Int /\ Aligned(nvm_file)
      /\ mru \in Int /\ Aligned(mru) /\ nvm_file + FileLen <= mru /\ Word(mru) = w
      /\ mru \in FileLen .. FLASHFILE_PAGE_END /\ W \in Nat /\ W >= 2 /\ FileLen \in Nat /\ FileLen >= 2
  BY StoredTypes, Sizes
<1>2. MruKnown /\ OldMru = w
  BY <1>1, Sizes DEF MruKnown, OldMru
<1>3. NextFile \in 0 .. SearchEnd /\ (NextFound => NextFile \in Places)
  BY WriteNvmFileIs
<1>4. CASE ~NextFound
  BY <1>2, <1>4, AlignedSizes, Sizes DEF NextFile, NextFirst
<1>5. CASE NextFound
  <2> DEFINE f == NextFile
  <2>1. f \in Int /\ f >= mru + W /\ f <= SearchEnd /\ (f - mru) % W = 0
    <3>1. f \in mru + W .. SearchEnd /\ (f - mru) % W = 0
      BY <1>3, <1>5 DEF Places
    <3> HIDE DEF f
    <3>2. QED
      BY <1>1, <3>1, Sizes
  <2> HIDE DEF f
  <2>2. Aligned(f)
    <3>1. Aligned(f - mru) /\ f - mru \in Int /\ mru + (f - mru) = f
      BY <1>1, <2>1 DEF Aligned
    <3>2. Aligned(mru + (f - mru))
      BY <1>1, <3>1, AlignedSum
    <3>3. QED
      BY <3>1, <3>2
  <2>3. BlankFrom(f)
    <3>1. \A j \in f .. FLASHFILE_PAGE_END : j \in mru + W .. FLASHFILE_PAGE_END
      BY <1>1, <2>1, Sizes
    <3>2. QED
      BY <3>1 DEF Stored, BlankFrom
  <2>4. nvm_file \in 0 .. f - 1
    BY <1>1, <2>1
  <2>5. \A i \in 0 .. f - 1 : i # nvm_file => flash[i] # M1
    <3>1. \A i \in 0 .. f - 1 : i \in Sector
      BY <2>1, Sizes DEF Sector
    <3>2. QED
      BY <3>1, StoredIs
  <2>6. NextFirst = Destroy
    BY <1>5 DEF NextFirst
  <2>7. QED
    BY <1>1, <1>2, <1>3, <2>2, <2>3, <2>4, <2>5, <2>6 DEF f
<1>6. QED
  BY <1>4, <1>5

LEMMA StoreStarts ==
  ASSUME TypeInv, NEW s, NEW w \in Marks, Stored(nvm_file, s, mru, w),
         NEW c \in [1 .. L -> Digits], c = cache, work' = WriteNvmFile,
         flash' = flash, nvm_file' = nvm_file
  PROVE  \E f \in 0 .. SearchEnd : FileWork(f, c, w)'
<1> PICK f, first : f = NextFile /\ first = NextFirst
  OBVIOUS
<1>1. work' = FilePlan(first, f, c, w)
  BY WriteNvmFileIs, NextPlace
<1>2. /\ f \in 0 .. SearchEnd /\ Aligned(f)
      /\ \/ first = Erase /\ f = 0
         \/ /\ first = Destroy /\ BlankFrom(f)
            /\ nvm_file \in 0 .. f - 1 /\ Aligned(nvm_file)
            /\ \A i \in 0 .. f - 1 : i # nvm_file => flash[i] # M1
  BY NextPlace
<1>3. FileWork(f, c, w)'
  BY <1>1, <1>2, FileStarts
<1>4. QED
  BY <1>2, <1>3

LEMMA EraseStarts ==
  ASSUME NEW d \in [1 .. L -> Digits], NEW w \in Marks, work' = FilePlan(Erase, 0, d, w),
         flash' = flash, nvm_file' = nvm_file
  PROVE  FileWork(0, d, w)'
<1>1. 0 \in 0 .. SearchEnd /\ Aligned(0)
  BY Sizes, AlignedSizes
<1>2. PICK f, first : f = 0 /\ first = Erase
  OBVIOUS
<1>3. FileWork(f, d, w)'
  BY <1>1, <1>2, FileStarts
<1>4. QED
  BY <1>2, <1>3

(* A new MRU, behind the old one or behind the file. *)
LEMMA MruStarts ==
  ASSUME TypeInv, NEW s, NEW w \in Marks, Stored(nvm_file, s, mru, w), ~NoRoom,
         NEW v \in Marks, NEW k, v = Data(k), work' = WriteMru(k),
         flash' = flash, nvm_file' = nvm_file, mru' = mru
  PROVE  MruWork(s, v)'
<1> PICK f, i : f = nvm_file /\ i = mru
  OBVIOUS
<1>1. /\ i \in Int /\ Aligned(i) /\ i \in FileLen .. FLASHFILE_PAGE_END /\ i <= Size - W
      /\ W \in Nat /\ W >= 2 /\ Size \in Nat /\ FileLen \in Nat /\ FileLen >= 2
      /\ FLASHFILE_PAGE_END = Size - 1
  BY StoredTypes, Sizes
<1>2. i <= Size - 2 * W
  <2>1. ~(i > FLASHFILE_PAGE_END - W)
    BY DEF NoRoom
  <2>2. i + W \in Int /\ Aligned(i + W) /\ i + W < Size /\ Aligned(Size)
    BY <1>1, <2>1, AlignedSum, AlignedSizes
  <2>3. (i + W) + W <= Size
    BY <1>1, <2>2, AlignedGap
  <2>4. QED
    BY <1>1, <2>3
<1>3. work' = <<WriteWord(i, All(B(0))), Point(f, i + W), WriteWord(i + W, v)>>
  <2>1. mru > 0
    BY <1>1
  <2>2. QED
    BY <2>1, WriteMruIs, Zenon
<1>4. /\ Len(work') = 3 /\ work'[1] = WriteWord(i, All(B(0))) /\ work'[2] = Point(f, i + W)
      /\ work'[3] = WriteWord(i + W, v) /\ work'[3].at = i + W
  BY <1>3 DEF WriteWord
<1>5. Word(i)' = w /\ Stored(f, s, i, w)'
  BY SectorKept DEF Stored
<1>6. 3 - 1 = 2
  OBVIOUS
<1>7. QED
  BY <1>2, <1>4, <1>5, <1>6 DEF MruWork

LEMMA FirstMruStarts ==
  ASSUME TypeInv, NEW f, NEW d, f = nvm_file, Stored(f, d, f + FileLen, All(Blank)), mru = Null,
         work' = WriteMru(1), flash' = flash, nvm_file' = nvm_file, mru' = mru
  PROVE  MruWork(d, Data(1))'
<1> PICK m, v : m = f + FileLen /\ v = Data(1)
  OBVIOUS
<1>1. ~NoRoom /\ ~(mru > 0)
  BY Sizes DEF NoRoom, Null
<1>2. work' = <<Point(f, f + FileLen), WriteWord(f + FileLen, Data(1))>>
  BY <1>1, WriteMruIs, Zenon
<1>3. /\ Len(work') = 2 /\ work'[1] = Point(f, m)
      /\ work'[2] = WriteWord(m, v) /\ work'[2].at = m
  BY <1>2 DEF WriteWord
<1>4. Stored(f, d, m, All(Blank))'
  BY SectorKept
<1>5. 2 - 1 = 1 /\ v \in Marks /\ nvm_file' = f
  BY DEF Marks
<1>6. MruWork(d, v)'
  BY <1>3, <1>4, <1>5 DEF MruWork
<1>7. QED
  BY <1>6

----------------------------------------------------------------------------
(* StoreInv is inductive: one lemma for each action. *)
LEMMA ZerosIs == Zeros \in [1 .. L -> Digits] /\ Data(1) \in Marks /\ \A m \in Modes : Data(m) \in Marks
<1>1. B(0) \in Digits
  BY DEF Digits
<1>2. QED
  BY <1>1, Sizes DEF Zeros, Marks

(* Between calls: what makes the state sound. *)
LEMMA CalmSound ==
  ASSUME pc' \in {"idle", "flush", "ended"}, Rest', ~torn',
         NEW f, NEW d, NEW m, NEW w \in Marks, Stored(f, d, m, w)',
         nvm_file' = f, saved' = d, mru' = m, mode' = w,
         cache' \in [1 .. L -> Digits], cache_dirty' \/ cache' = d
  PROVE  Sound'
BY DEF Sound

LEMMA StoreInit == Init => StoreInv
<1> SUFFICES ASSUME Init PROVE Sound
  BY DEF StoreInv
<1>1. TypeInv
  BY TypeInit
<1>2. Begun(0, Zeros, 0) /\ BlankFrom(0 + 0) /\ 0 \in 0 .. FileLen - 1
  BY Sizes, AlignedSizes, ZerosIs DEF Begun, BlankFrom, Init
<1>3. NvmFiles = {}
  BY <1>1, <1>2, HalfFile
<1>4. QED
  BY <1>3 DEF Init, Sound, Rest

LEMMA SoundFindFile ==
  ASSUME TypeInv, Sound, FindFile
  PROVE  Sound'
<1>1. pc = "boot" /\ flash' = flash /\ Rest /\ nvm_file = Null /\ mru = Null /\ cache = Zeros
  BY DEF FindFile, Sound
<1>2. Rest'
  BY <1>1, SectorKept
<1>3. CASE NvmFiles # {}
  <2>1. PICK f \in 0 .. SearchEnd, m \in Sector : Stored(f, Contents(f), m, Word(m))
    BY <1>1, <1>3 DEF Rest
  <2>2. NvmFiles = {f} /\ Lowest(NvmFiles) = f
    BY <2>1, StoredIs
  <2>3. nvm_file' = f /\ pc' = "bootMru" /\ UNCHANGED <<mru, seen>>
    BY <1>3, <2>2 DEF FindFile
  <2>4. \E d \in [1 .. L -> Digits], i \in Sector :
          /\ Stored(f, d, i, Word(i))
          /\ torn \/ (d = saved /\ Word(i) = mode /\ mode \in Marks)
    <3>1. CASE torn
      BY <2>1, <3>1, StoredTypes
    <3>2. CASE ~torn
      <4>1. PICK g \in 0 .. SearchEnd, i \in Sector : Stored(g, saved, i, mode) /\ mode \in Marks
        BY <1>1, <1>3, <3>2 DEF Sound
      <4>2. g = f
        BY <2>2, <4>1, StoredIs
      <4>3. Word(i) = mode /\ saved \in [1 .. L -> Digits] /\ Stored(f, saved, i, Word(i))
        BY <4>1, <4>2, StoredTypes
      <4>4. QED
        BY <4>1, <4>3
    <3>3. QED
      BY <3>1, <3>2
  <2>5. PICK d \in [1 .. L -> Digits], i \in Sector :
          /\ Stored(f, d, i, Word(i))
          /\ torn \/ (d = saved /\ Word(i) = mode /\ mode \in Marks)
    BY <2>4
  <2>6. PICK w : w = Word(i)
    OBVIOUS
  <2>7. Stored(f, d, i, w)' /\ Word(i)' = w
    BY <1>1, <2>5, <2>6, SectorKept
  <2>8. Stored(nvm_file, d, i, Word(i))'
    BY <2>3, <2>7
  <2>9. QED
    BY <1>1, <1>2, <2>3, <2>5, <2>6, <2>7, <2>8 DEF Sound, seen
<1>4. CASE NvmFiles = {}
  <2>1. /\ pc' = "write" /\ work' = WriteNvmFile /\ next' = Then("bootMru")
        /\ UNCHANGED <<ram, saved, mode, torn, slid>>
    BY <1>4 DEF FindFile, Start
  <2>2. ~MruKnown
    BY <1>1, Sizes DEF MruKnown, Null
  <2>3. WriteNvmFile = FilePlan(Erase, 0, Zeros, Data(1))
    BY <1>1, <2>2, WriteNvmFileIs DEF NextFirst, NextFile, NextFound, OldMru
  <2>4. FileWork(0, Zeros, Data(1))'
    <3>1. PICK d, w : d = Zeros /\ w = Data(1)
      OBVIOUS
    <3>2. FileWork(0, d, w)'
      BY <1>1, <2>1, <2>3, <3>1, ZerosIs, EraseStarts DEF ram
    <3>3. QED
      BY <3>1, <3>2
  <2>5. torn \/ mode = Data(1)
    <3>1. ASSUME NEW f, NEW m, Stored(f, saved, m, mode) PROVE FALSE
      BY <1>4, <3>1, StoredIs
    <3>2. QED
      BY <1>1, <3>1 DEF Sound
  <2>6. cache' = Zeros
    BY <1>1, <2>1 DEF ram
  <2>7. QED
    BY <1>1, <1>2, <2>1, <2>4, <2>5, <2>6 DEF Sound, Then
<1>5. QED
  BY <1>3, <1>4

LEMMA SoundFindMru ==
  ASSUME TypeInv, TypeInv', Sound, FindMru, ~slid'
  PROVE  Sound'
<1>1. pc = "bootMru" /\ flash' = flash /\ Rest
  BY DEF FindMru, Sound
<1>2. Rest'
  BY <1>1, SectorKept
<1>3. PICK d \in [1 .. L -> Digits], m \in Sector :
        /\ Stored(nvm_file, d, m, Word(m)) /\ (Word(m) \in Marks \/ mru = Null)
        /\ (torn \/ (d = saved /\ Word(m) = mode /\ mode \in Marks))
  BY <1>1 DEF Sound
<1> PICK f, w : f = nvm_file /\ w = Word(m)
  OBVIOUS
<1>4. Stored(f, d, m, w) /\ Contents(f) = d
  BY <1>3, StoredIs
<1>5. Stored(f, d, m, w)'
  BY <1>1, <1>4, SectorKept
<1>6. CASE MruEntries(nvm_file) # {}
  <2>1. /\ mru' = Lowest(MruEntries(f)) /\ Aligned(mru') /\ pc' = "idle"
        /\ mode' = (IF torn THEN Word(mru') ELSE mode) /\ Booted
    BY <1>6 DEF FindMru, Idle
  <2>2. mru' = m /\ w \in Marks
    <3>1. PICK i : i = mru'
      OBVIOUS
    <3>2. Aligned(Lowest(MruEntries(f)))
      BY <2>1
    <3>3. QED
      BY <1>4, <1>6, <2>1, <3>2, FoundMru
  <2>3. mode' = w
    BY <1>3, <2>1, <2>2
  <2>4. saved' = d /\ cache' = d /\ nvm_file' = f /\ ~torn'
    BY <1>3, <1>4, <2>1 DEF Booted
  <2>5. QED
    BY <1>2, <1>3, <1>5, <2>1, <2>2, <2>3, <2>4, CalmSound
<1>7. CASE MruEntries(nvm_file) = {}
  <2>1. w = All(Blank)
    BY <1>4, <1>7, FoundMru
  <2>2. mru = Null /\ torn
    BY <1>3, <2>1, MarkIs
  <2>3. m = f + FileLen
    BY <1>4, <1>7, FoundMru
  <2>4. /\ pc' = "write" /\ work' = WriteMru(1) /\ next' = Then("booted")
        /\ UNCHANGED <<ram, seen>>
    BY <1>7 DEF FindMru, Start
  <2>5. MruWork(d, Data(1))'
    BY <1>1, <1>4, <2>1, <2>2, <2>3, <2>4, FirstMruStarts DEF ram
  <2>6. QED
    BY <1>2, <1>3, <2>2, <2>4, <2>5 DEF Sound, Then, seen
<1>8. QED
  BY <1>6, <1>7

LEMMA SoundWriteFile ==
  ASSUME TypeInv, Sound, pc \in {"idle", "flush"}, NEW then,
         then.then \in {"flushed", "mode"}, Start(WriteNvmFile, then),
         UNCHANGED <<flash, ram, saved, mode, torn>>
  PROVE  Sound'
<1> PICK d, w, c : d = saved /\ w = mode /\ c = cache
  OBVIOUS
<1>1. /\ Stored(nvm_file, d, mru, w) /\ w \in Marks /\ c \in [1 .. L -> Digits] /\ ~torn
      /\ cache_dirty \/ c = d
      /\ Rest
  BY DEF Sound
<1>2. work' = WriteNvmFile /\ pc' = "write" /\ next' = then
  BY DEF Start
<1>3. \E f \in 0 .. SearchEnd : FileWork(f, c, w)'
  BY <1>1, <1>2, StoreStarts DEF ram
<1>4. \E f \in 0 .. SearchEnd : FileWork(f, cache, mode)'
  BY <1>3 DEF ram
<1>5. Rest'
  BY <1>1, SectorKept
<1>6. QED
  BY <1>1, <1>2, <1>4, <1>5 DEF Sound, ram

LEMMA SoundSetMru ==
  ASSUME TypeInv, Sound, (pc = "idle" /\ ~cache_dirty) \/ pc = "ended", NEW k \in Modes,
         SetMru(k), flash' = flash
  PROVE  Sound'
<1> PICK d, w, v : d = saved /\ w = mode /\ v = Data(k)
  OBVIOUS
<1>1. /\ Stored(nvm_file, d, mru, w) /\ w \in Marks /\ cache \in [1 .. L -> Digits] /\ ~torn
      /\ cache_dirty \/ cache = d
      /\ Rest
  BY DEF Sound
<1>2. /\ pc' = "write" /\ work' = WriteMru(k) /\ next' = Then("moded") /\ mode' = v
      /\ UNCHANGED <<nvm_file, mru, saved, torn>>
  BY DEF SetMru, Start
<1>3. v \in Marks /\ Contents(nvm_file) = d /\ d \in [1 .. L -> Digits]
  BY <1>1, ZerosIs, StoredIs, StoredTypes
<1>4. Rest'
  BY <1>1, SectorKept
<1>5. /\ cache' \in [1 .. L -> Digits]
      /\ cache_dirty' \/ cache' = d
  <2>1. CASE NoRoom
    BY <1>3, <2>1 DEF SetMru
  <2>2. CASE ~NoRoom
    BY <1>1, <2>2 DEF SetMru
  <2>3. QED
    BY <2>1, <2>2
<1>6. MruWork(d, v)' \/ FileWork(0, d, v)'
  <2>1. CASE NoRoom
    <3>1. work' = FilePlan(Erase, 0, d, v)
      BY <1>2, <1>3, <2>1, WriteMruIs
    <3>2. QED
      BY <1>2, <1>3, <3>1, EraseStarts
  <2>2. CASE ~NoRoom
    BY <1>1, <1>2, <1>3, <2>2, MruStarts
  <2>3. QED
    BY <2>1, <2>2
<1>7. MruWork(saved, mode)' \/ FileWork(0, saved, mode)'
  BY <1>2, <1>6
<1>8. QED
  BY <1>1, <1>2, <1>4, <1>5, <1>7 DEF Sound, Then

LEMMA SoundUpdate ==
  ASSUME TypeInv, Sound, NEW k \in 1 .. L, NEW v \in Values, NEW now \in BOOLEAN,
         UpdateEntry(k, v, now)
  PROVE  Sound'
<1> PICK f, d, m, w : f = nvm_file /\ d = saved /\ m = mru /\ w = mode
  OBVIOUS
<1>1. pc = "idle" /\ flash' = flash /\ UNCHANGED <<nvm_file, mru, seen>>
  BY DEF UpdateEntry, Call
<1>2. /\ Stored(f, d, m, w) /\ w \in Marks /\ cache \in [1 .. L -> Digits] /\ ~torn /\ Rest
  BY <1>1 DEF Sound
<1>3. B(v) \in Digits
  BY Sizes DEF Digits
<1>4. cache' \in [1 .. L -> Digits] /\ cache_dirty' /\ pc' \in {"idle", "flush"}
  BY <1>1, <1>2, <1>3 DEF UpdateEntry
<1>5. Stored(f, d, m, w)' /\ Rest'
  BY <1>1, <1>2, SectorKept
<1>6. QED
  BY <1>1, <1>2, <1>4, <1>5, CalmSound DEF seen

LEMMA SoundFlushed ==
  ASSUME TypeInv, Sound, Flushed
  PROVE  Sound'
<1> PICK f, d, m, w : f = nvm_file /\ d = saved /\ m = mru /\ w = mode
  OBVIOUS
<1>1. /\ pc = "ended" /\ pc' = "idle" /\ flash' = flash /\ UNCHANGED <<nvm_file, mru, seen>>
      /\ cache' = Contents(f)
  BY DEF Flushed, Idle
<1>2. Stored(f, d, m, w) /\ w \in Marks /\ ~torn /\ Rest
  BY <1>1 DEF Sound
<1>3. cache' = d /\ cache' \in [1 .. L -> Digits]
  BY <1>1, <1>2, StoredIs, StoredTypes
<1>4. Stored(f, d, m, w)' /\ Rest'
  BY <1>1, <1>2, SectorKept
<1>5. QED
  BY <1>1, <1>2, <1>3, <1>4, CalmSound DEF seen

LEMMA SoundModed ==
  ASSUME TypeInv, Sound, Moded
  PROVE  Sound'
<1> PICK f, d, m, w : f = nvm_file /\ d = saved /\ m = mru /\ w = mode
  OBVIOUS
<1>1. pc' = "idle" /\ flash' = flash /\ UNCHANGED <<ram, seen>>
  BY DEF Moded, Idle
<1>2. pc = "ended"
  BY DEF Moded, Sound
<1>3. /\ Stored(f, d, m, w) /\ w \in Marks /\ ~torn /\ Rest
      /\ cache \in [1 .. L -> Digits] /\ (cache_dirty \/ cache = d)
  BY <1>2 DEF Sound
<1>4. Stored(f, d, m, w)' /\ Rest'
  BY <1>1, <1>3, SectorKept
<1>5. QED
  BY <1>1, <1>3, <1>4, CalmSound DEF seen, ram

LEMMA SoundDefaulted ==
  ASSUME TypeInv, Sound, Defaulted
  PROVE  Sound'
<1>1. /\ pc = "booted" /\ pc' = "idle" /\ flash' = flash /\ Booted /\ mode' = Data(1)
      /\ mru' = mru /\ nvm_file' = nvm_file
  BY DEF Defaulted, Idle, Booted
<1>2. PICK d \in [1 .. L -> Digits] : Stored(nvm_file, d, mru, Data(1)) /\ torn /\ Rest
  BY <1>1 DEF Sound
<1> PICK f, m, w : f = nvm_file /\ m = mru /\ w = Data(1)
  OBVIOUS
<1>3. Stored(f, d, m, w)' /\ Rest' /\ Contents(f) = d
  BY <1>1, <1>2, SectorKept, StoredIs
<1>4. saved' = d /\ cache' = d /\ ~torn'
  BY <1>1, <1>2, <1>3 DEF Booted
<1>5. QED
  BY <1>1, <1>2, <1>3, <1>4, ZerosIs, CalmSound

LEMMA SoundCrash ==
  ASSUME TypeInv, Sound, Crash
  PROVE  Sound'
<1>1. /\ pc # "boot" /\ pc' = "boot" /\ flash' = flash
      /\ nvm_file' = Null /\ mru' = Null /\ cache' = Zeros /\ cache_dirty' = FALSE
      /\ torn' = (torn \/ pc = "write") /\ UNCHANGED <<saved, mode>>
  BY DEF Crash
<1>2. Rest'
  BY <1>1, SectorKept DEF Sound
<1>3. ASSUME ~torn'
      PROVE  \E f \in 0 .. SearchEnd, m \in Sector : Stored(f, saved, m, mode)' /\ mode' \in Marks
  <2> PICK f, d, w : f = nvm_file /\ d = saved /\ w = mode
    OBVIOUS
  <2>1. \E m : Stored(f, d, m, w) /\ w \in Marks
    <3>1. ~torn /\ pc # "write" /\ pc # "boot" /\ pc # "booted"
      BY <1>1, <1>3 DEF Sound
    <3>2. pc \in {"bootMru", "idle", "flush", "ended"}
      BY <3>1 DEF Sound, TypeInv
    <3>3. CASE pc = "bootMru"
      BY <3>1, <3>3 DEF Sound
    <3>4. CASE pc # "bootMru"
      BY <3>2, <3>4 DEF Sound
    <3>5. QED
      BY <3>3, <3>4
  <2>2. PICK m : Stored(f, d, m, w) /\ w \in Marks
    BY <2>1
  <2>3. Stored(f, d, m, w)' /\ f \in 0 .. SearchEnd /\ m \in Sector
    BY <1>1, <2>2, SectorKept, StoredTypes
  <2>4. QED
    BY <1>1, <2>2, <2>3
<1>4. QED
  BY <1>1, <1>2, <1>3 DEF Sound

LEMMA SoundFinished ==
  ASSUME TypeInv, Sound, Finished
  PROVE  Sound'
<1>1. /\ pc = "write" /\ Len(work) = 0 /\ flash' = flash /\ pc' = Ended(TRUE)
      /\ UNCHANGED <<ram, next, mode, torn>>
      /\ saved' = (IF Stores THEN cache ELSE saved)
  BY DEF Finished
<1>2. Rest /\ Rest' /\ nvm_file \in {Null} \cup 0 .. SearchEnd
  BY <1>1, SectorKept DEF Sound, TypeInv
<1>3. next.then \in {"bootMru", "booted", "flushed", "mode", "moded"}
  BY <1>1 DEF TypeInv
<1>4. \A f, d, w : FileWork(f, d, w) => nvm_file = f /\ Stored(f, d, mru, w) /\ w \in Marks
  <2>1. 0 <= 1
    OBVIOUS
  <2>2. QED
    BY <1>1, <2>1 DEF FileWork
<1>5. \A d, w : MruWork(d, w) => Stored(nvm_file, d, mru, w) /\ w \in Marks
  BY <1>1 DEF MruWork
<1> PICK f, m, c : f = nvm_file /\ m = mru /\ c = cache
  OBVIOUS
<1>6. nvm_file' = f /\ mru' = m /\ cache' = c /\ cache_dirty' = cache_dirty
  BY <1>1 DEF ram
<1>7. CASE next.then = "bootMru"
  <2>1. FileWork(0, c, Data(1)) /\ c = Zeros /\ (torn \/ mode = Data(1))
    BY <1>1, <1>7 DEF Sound
  <2> PICK w : w = Data(1)
    OBVIOUS
  <2>2. Stored(f, c, m, w) /\ w \in Marks
    BY <1>4, <2>1
  <2>3. Stored(f, c, m, w)' /\ Word(m)' = w /\ m \in Sector /\ c \in [1 .. L -> Digits]
    <3>1. Stored(f, c, m, w)'
      BY <1>1, <2>2, SectorKept
    <3>2. QED
      BY <2>2, <3>1, StoredTypes DEF Stored
  <2>4. pc' = "bootMru" /\ saved' = c
    BY <1>1, <1>7 DEF Ended, Stores
  <2>5. Stored(nvm_file, c, m, Word(m))'
    BY <1>6, <2>3
  <2>6. QED
    BY <1>1, <1>2, <2>1, <2>2, <2>3, <2>4, <2>5 DEF Sound
<1>8. CASE next.then = "booted"
  <2>1. PICK d \in [1 .. L -> Digits] : MruWork(d, Data(1)) /\ torn
    BY <1>1, <1>8 DEF Sound
  <2> PICK w : w = Data(1)
    OBVIOUS
  <2>2. Stored(f, d, m, w)
    BY <1>5, <2>1
  <2>3. Stored(f, d, m, w)'
    BY <1>1, <2>2, SectorKept
  <2>4. pc' = "booted"
    BY <1>1, <1>8 DEF Ended
  <2>5. Stored(nvm_file, d, mru, Data(1))'
    BY <1>6, <2>3
  <2>6. QED
    BY <1>1, <1>2, <2>1, <2>4, <2>5 DEF Sound
<1>9. CASE next.then \in {"flushed", "mode"}
  <2> PICK w : w = mode
    OBVIOUS
  <2>1. Stored(f, c, m, w) /\ w \in Marks /\ ~torn /\ c \in [1 .. L -> Digits]
    BY <1>1, <1>4, <1>9 DEF Sound
  <2>2. pc' = "ended" /\ saved' = c
    BY <1>1, <1>9 DEF Ended, Stores
  <2>3. Stored(f, c, m, w)'
    BY <1>1, <2>1, SectorKept
  <2>4. QED
    BY <1>1, <1>2, <1>6, <2>1, <2>2, <2>3, CalmSound
<1>10. CASE next.then = "moded"
  <2> PICK w, d : w = mode /\ d = saved
    OBVIOUS
  <2>1. Stored(f, d, m, w) /\ w \in Marks /\ ~torn /\ c \in [1 .. L -> Digits] /\ (cache_dirty \/ c = d)
    BY <1>1, <1>4, <1>5, <1>10 DEF Sound
  <2>2. pc' = "ended" /\ saved' = d
    BY <1>1, <1>10 DEF Ended, Stores
  <2>3. Stored(f, d, m, w)'
    BY <1>1, <2>1, SectorKept
  <2>4. QED
    BY <1>1, <1>2, <1>6, <2>1, <2>2, <2>3, CalmSound
<1>11. QED
  BY <1>3, <1>7, <1>8, <1>9, <1>10

(* The operation of a call at its head. *)
LEMMA HeadCanTake ==
  ASSUME TypeInv, Sound, pc = "write", work # <<>>
  PROVE  CanTake
<1>1. next.then \in {"bootMru", "booted", "flushed", "mode", "moded"} /\ Rest
  BY DEF TypeInv, Sound
<1>2. (\E f, d, w : FileWork(f, d, w)) \/ (\E d, w : MruWork(d, w))
  BY <1>1 DEF Sound
<1>3. QED
  BY <1>1, <1>2, FileCanTake, MruStep

LEMMA SoundStep ==
  ASSUME TypeInv, TypeInv', Sound, Step
  PROVE  Sound'
<1>1. /\ pc = "write" /\ work # <<>> /\ Takes /\ pc' = "write"
      /\ UNCHANGED <<cache, cache_dirty, next, saved, mode, torn>>
  BY DEF Step, Takes, seen
<1>2. Rest /\ next.then \in {"bootMru", "booted", "flushed", "mode", "moded"}
  BY <1>1 DEF Sound, TypeInv
<1>3. \A f, d, w : FileWork(f, d, w) => FileWork(f, d, w)' /\ Rest'
  BY <1>1, <1>2, FileStep
<1>4. \A d, w : MruWork(d, w) => MruWork(d, w)' /\ Rest'
  BY <1>1, <1>2, MruStep
<1> PICK c, s, w : c = cache /\ s = saved /\ w = mode
  OBVIOUS
<1>5. cache' = c /\ saved' = s /\ mode' = w /\ next' = next
  BY <1>1
<1>6. CASE next.then = "bootMru"
  <2> PICK v : v = Data(1)
    OBVIOUS
  <2>1. FileWork(0, c, v) /\ c = Zeros /\ (torn \/ w = Data(1))
    BY <1>1, <1>6 DEF Sound
  <2>2. FileWork(0, c, v)' /\ Rest'
    BY <1>3, <2>1
  <2>3. FileWork(0, cache, Data(1))'
    BY <1>5, <2>2
  <2>4. QED
    BY <1>1, <1>5, <1>6, <2>1, <2>2, <2>3 DEF Sound
<1>7. CASE next.then = "booted"
  <2> PICK v : v = Data(1)
    OBVIOUS
  <2>1. PICK d \in [1 .. L -> Digits] : MruWork(d, v) /\ torn
    BY <1>1, <1>7 DEF Sound
  <2>2. MruWork(d, v)' /\ Rest'
    BY <1>4, <2>1
  <2>3. MruWork(d, Data(1))'
    BY <2>2
  <2>4. QED
    BY <1>1, <1>5, <1>7, <2>1, <2>2, <2>3 DEF Sound
<1>8. CASE next.then \in {"flushed", "mode"}
  <2>1. PICK f \in 0 .. SearchEnd : FileWork(f, c, w)
    BY <1>1, <1>8 DEF Sound
  <2>2. FileWork(f, c, w)' /\ Rest'
    BY <1>3, <2>1
  <2>3. FileWork(f, cache, mode)'
    BY <1>5, <2>2
  <2>4. QED
    BY <1>1, <1>5, <1>8, <2>1, <2>2, <2>3 DEF Sound
<1>9. CASE next.then = "moded"
  <2>1. MruWork(s, w) \/ FileWork(0, s, w)
    BY <1>1, <1>9 DEF Sound
  <2>2. (MruWork(s, w)' \/ FileWork(0, s, w)') /\ Rest'
    BY <1>3, <1>4, <2>1
  <2>3. MruWork(saved, mode)' \/ FileWork(0, saved, mode)'
    BY <1>5, <2>2
  <2>4. QED
    BY <1>1, <1>5, <1>9, <2>1, <2>2, <2>3 DEF Sound
<1>10. QED
  BY <1>2, <1>6, <1>7, <1>8, <1>9

LEMMA StoreStep == TypeInv /\ TypeInv' /\ StoreInv /\ [Next]_vars => StoreInv'
<1> SUFFICES ASSUME TypeInv, TypeInv', StoreInv, [Next]_vars, fails' = 0, ~slid' PROVE Sound'
  BY DEF StoreInv
<1>1. fails = 0 /\ ~slid
  <2>1. fails \in Nat /\ slid \in BOOLEAN
    BY DEF TypeInv
  <2>2. fails' = fails \/ fails' = fails + 1
    BY DEF Next, FindFile, FindMru, UpdateEntry, Call, CacheFlush, SetMru, SwitchMode, Step,
           StepFails, Finished, Flushed, Moded, ThenMode, Defaulted, Crash, vars, cnt
  <2>3. slid' = slid \/ slid' = (slid \/ ~Aligned(mru'))
    BY DEF Next, FindFile, FindMru, UpdateEntry, Call, CacheFlush, SetMru, SwitchMode, Step,
           StepFails, Finished, Flushed, Moded, ThenMode, Defaulted, Crash, vars, seen
  <2>4. QED
    BY <2>1, <2>2, <2>3
<1>2. Sound
  BY <1>1 DEF StoreInv
<1>3. CASE FindFile
  BY <1>2, <1>3, SoundFindFile
<1>4. CASE FindMru
  BY <1>2, <1>4, SoundFindMru
<1>5. CASE CacheFlush
  BY <1>2, <1>5, SoundWriteFile DEF CacheFlush, Then
<1>6. CASE Step
  BY <1>2, <1>6, SoundStep
<1>7. CASE StepFails
  <2>1. CanDo(Head(work))
    BY <1>2, <1>7, HeadCanTake DEF StepFails, CanTake
  <2>2. fails' = fails + 1
    BY <1>7, <2>1 DEF StepFails
  <2>3. QED
    BY <1>1, <2>2
<1>8. CASE Finished
  BY <1>2, <1>8, SoundFinished
<1>9. CASE Flushed
  BY <1>2, <1>9, SoundFlushed
<1>10. CASE Moded
  BY <1>2, <1>10, SoundModed
<1>11. CASE ThenMode
  <2>1. pc = "ended" /\ SetMru(next.data) /\ flash' = flash /\ next.data \in Modes
    BY <1>11 DEF ThenMode, TypeInv
  <2>2. QED
    BY <1>2, <2>1, SoundSetMru
<1>12. CASE Defaulted
  BY <1>2, <1>12, SoundDefaulted
<1>13. CASE Crash
  BY <1>2, <1>13, SoundCrash
<1>14. ASSUME NEW k \in 1 .. L, NEW v \in Values, NEW now \in BOOLEAN, UpdateEntry(k, v, now)
       PROVE  Sound'
  BY <1>2, <1>14, SoundUpdate
<1>15. ASSUME NEW m \in Modes, SwitchMode(m) PROVE Sound'
  <2>1. pc = "idle" /\ flash' = flash
    BY <1>15 DEF SwitchMode, Call
  <2>2. CASE cache_dirty
    <3>1. PICK then : then = [then |-> "mode", data |-> m]
      OBVIOUS
    <3>2. Start(WriteNvmFile, then) /\ UNCHANGED <<ram, saved, mode, torn, slid>>
      BY <1>15, <2>2, <3>1 DEF SwitchMode
    <3>3. QED
      BY <1>2, <2>1, <3>1, <3>2, SoundWriteFile
  <2>3. CASE ~cache_dirty
    BY <1>2, <1>15, <2>1, <2>3, SoundSetMru DEF SwitchMode
  <2>4. QED
    BY <2>2, <2>3
<1>16. CASE UNCHANGED vars
  <2>1. flash' = flash /\ UNCHANGED <<nvm_file, mru, cache, cache_dirty, pc, work, next, saved, mode, torn>>
    BY <1>16 DEF vars, ram, seen
  <2>2. \A f, d, w : FileWork(f, d, w)' <=> FileWork(f, d, w)
    BY <2>1 DEF FileWork, Begun, BlankFrom, Stored, Word, Byte, Destroy, Erase
  <2>3. \A d, w : MruWork(d, w)' <=> MruWork(d, w)
    BY <2>1 DEF MruWork, Stored, Begun, BlankFrom, Word, Byte
  <2>4. QED
    BY <1>2, <2>1, <2>2, <2>3, SectorKept DEF Sound
<1>17. QED
  BY <1>3, <1>4, <1>5, <1>6, <1>7, <1>8, <1>9, <1>10, <1>11, <1>12, <1>13, <1>14, <1>15, <1>16 DEF Next

----------------------------------------------------------------------------
LEMMA StoreInvariant == Spec => [](TypeInv /\ StoreInv)
<1>1. Init => TypeInv /\ StoreInv
  BY TypeInit, StoreInit
<1>2. TypeInv /\ StoreInv /\ [Next]_vars => TypeInv' /\ StoreInv'
  BY TypeStep, StoreStep
<1>3. QED
  BY <1>1, <1>2, PTL DEF Spec

(* BlankProgrammed: as long as no flash operation fails by itself and no
   start-up took bytes beside an MRU for one, flash_write only ever programs
   blank bytes, or zeros: each call finds its destination blank, wherever power
   was lost before. *)
THEOREM BlankProgrammed == Spec => []NeverOverprogrammed
<1>1. TypeInv /\ StoreInv => NeverOverprogrammed
  <2> SUFFICES ASSUME TypeInv, Sound, pc = "write", work # <<>>
               PROVE  LET s == Head(work) IN
                      /\ s.op = "byte" => Byte(s.at) = Blank
                      /\ s.op = "word" /\ CanDo(s) => s.data = All(B(0)) \/ Word(s.at) = All(Blank)
    BY DEF StoreInv, NeverOverprogrammed
  <2>1. CanTake
    BY HeadCanTake
  <2>2. QED
    BY <2>1 DEF CanTake
<1>2. QED
  BY <1>1, StoreInvariant, PTL

(* StoredFileKept: between calls, and wherever power was lost between calls,
   the one file a start-up can find is the one in use, with the contents that
   were stored last. *)
THEOREM StoredFileKept == Spec => []FileKept
<1>1. TypeInv /\ StoreInv => FileKept
  <2> SUFFICES ASSUME TypeInv, Sound, pc = "idle"
               PROVE  /\ NvmFiles # {} /\ nvm_file = Lowest(NvmFiles)
                      /\ Contents(nvm_file) = saved
                      /\ cache_dirty \/ cache = saved
    BY DEF StoreInv, FileKept, Quiet
  <2>1. Stored(nvm_file, saved, mru, mode) /\ (cache_dirty \/ cache = saved)
    BY DEF Sound
  <2>2. NvmFiles = {nvm_file} /\ Lowest(NvmFiles) = nvm_file /\ Contents(nvm_file) = saved
    BY <2>1, StoredIs
  <2>3. QED
    BY <2>1, <2>2
<1>2. QED
  BY <1>1, StoreInvariant, PTL

(* BootModeKept: likewise the word behind the file is the mode stored last. *)
THEOREM BootModeKept == Spec => []ModeKept
<1>1. TypeInv /\ StoreInv => ModeKept
  <2> SUFFICES ASSUME TypeInv, Sound, pc = "idle" PROVE mru # Null /\ Word(mru) = mode
    BY DEF StoreInv, ModeKept, Quiet
  <2>1. Stored(nvm_file, saved, mru, mode)
    BY DEF Sound
  <2>2. mru \in Int /\ mru \in FileLen .. FLASHFILE_PAGE_END /\ Word(mru) = mode
    BY <2>1, StoredTypes
  <2>3. QED
    BY <2>2, Sizes DEF Null
<1>2. QED
  BY <1>1, StoreInvariant, PTL
=============================================================================
