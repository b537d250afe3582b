------------------------------ MODULE FlashFile ------------------------------
(***************************************************************************)
(* The store in one flash sector (flashfile.c): a file with a magic word   *)
(* and a CRC, behind it the "most recently used" word (MRU).  A new file   *)
(* goes behind the old one, whose magic is overwritten with zeros; a full  *)
(* sector is erased.                                                       *)
(*                                                                         *)
(* The sector is an array of bytes; a word has W of them.  A byte is       *)
(* written as the sequence <<value>>, so that a byte of the CRC, which     *)
(* tells all contents apart, can be the contents themselves.  Every erase  *)
(* and every program operation is one step that happens or does not; power *)
(* may be lost between any two.  Retries of an operation are part of it.   *)
(***************************************************************************)
EXTENDS Integers, Sequences

CONSTANTS W,                \* bytes in a word
          L,                \* bytes of contents in a file, one for each field
          Size,             \* bytes in the sector
          Values,           \* what the callers store in a field
          Modes,            \* what callers of flashfile_writeMru may pass
          MaxOps, MaxFails, MaxCrashes    \* bounds: calls, flash operations that
                                          \* fail after all retries, power losses

FLASHFILE_PAGE_END == Size - 1
FileLen == 2 * W + L
ASSUME FlashAssumption == /\ {W, L, Size, MaxOps, MaxFails, MaxCrashes} \subseteq Nat
                          /\ W >= 2 /\ L >= 2 /\ Size > FileLen + 2 * W
                          /\ L % W = 0 /\ Size % W = 0
                          /\ Values \subseteq 1 .. 9 /\ Modes \subseteq 1 .. 9

VARIABLES flash,                \* the bytes of the sector
          nvm_file, mru,        \* offsets into it, or Null
          cache, cache_dirty,   \* the contents in RAM
          pc, work, next,       \* the call in progress: its flash operations to
                                \* come and what follows them
          saved, tried, mode,   \* observers: the contents last stored, all contents
                                \* ever to be stored, the MRU last stored,
          torn, slid,           \* whether a write was cut short since start-up, and
                                \* whether an MRU was ever found beside its word
          ops, crashes, fails

ram  == <<nvm_file, mru, cache, cache_dirty>>
seen == <<saved, tried, mode, torn, slid>>
cnt  == <<ops, crashes, fails>>
vars == <<flash, ram, pc, work, next, seen, cnt>>

Null == -1
B(n)  == <<n>>                  \* the byte n
Blank == B(255)                 \* an erased byte
Junk  == B(254)                 \* a byte programmed twice
Zeros == [k \in 1 .. L |-> B(0)]          \* the cache after start-up
Magic == [k \in 1 .. W |-> B(100 + k)]
Crc(d) == [k \in 1 .. W |-> d]            \* one for each contents
Byte(i) == IF i \in DOMAIN flash THEN flash[i] ELSE Blank     \* the next sector
Word(i) == [k \in 1 .. W |-> Byte(i + k - 1)]
Data(m) == [k \in 1 .. W |-> B(IF k = 1 THEN m ELSE 0)]          \* little endian
All(b)  == [k \in 1 .. W |-> b]
Aligned(i) == i % W = 0
Lowest(S) == CHOOSE x \in S : \A y \in S : x <= y
Contents(i) == [k \in 1 .. L |-> Byte(i + W + k - 1)]
Then(t) == [then |-> t, data |-> 0]

Init == /\ flash = [i \in 0 .. FLASHFILE_PAGE_END |-> Blank]
        /\ nvm_file = Null /\ mru = Null /\ cache = Zeros /\ cache_dirty = FALSE
        /\ pc = "boot" /\ work = <<>> /\ next = Then("none")
        /\ saved = <<>> /\ tried = {} /\ mode = Data(1) /\ torn = FALSE /\ slid = FALSE
        /\ ops = 0 /\ crashes = 0 /\ fails = 0
----------------------------------------------------------------------------
(* flashfile_findNvmFile and flashfile_findMru look at every byte offset. *)
ValidNoCrc(i) == Word(i) = Magic              \* mutant: the CRC is not compared
Valid(i) == Word(i) = Magic /\ Word(i + W + L) = Crc(Contents(i))
NvmFiles == {i \in 0 .. FLASHFILE_PAGE_END - FileLen - W - 1 : Valid(i)}
MruEntries(f) == {i \in f + FileLen .. FLASHFILE_PAGE_END - 1 :
                    Word(i) \notin {All(B(0)), All(Blank)}}

(* flashfile_writeNvmFile: the first blank place behind the MRU for a file and
   its MRU, if there is an MRU at all. *)
MruKnown == mru >= FileLen /\ mru <= FLASHFILE_PAGE_END
IsBlank(i) == \A j \in 0 .. FileLen + W - 1 : Byte(i + j) = Blank
SearchEnd == FLASHFILE_PAGE_END - FileLen - W - 1
Places == {i \in mru + W .. SearchEnd : (i - mru) % W = 0 /\ IsBlank(i)}

(* The operations of a call, in order.  Point moves ffsys.nvm_file and ffsys.mru. *)
EraseNot == [op |-> "point", file |-> 0, mru |-> mru]      \* mutant
Erase == [op |-> "erase"]
DestroyNot == [op |-> "point", file |-> nvm_file, mru |-> mru]   \* mutant
Destroy == [op |-> "destroy", at |-> nvm_file]
Point(f, m) == [op |-> "point", file |-> f, mru |-> m]
WriteWord(i, w) == [op |-> "word", at |-> i, data |-> w]
WriteFile(f, d) == LET b == Magic \o d \o Crc(d)
                   IN [k \in 1 .. FileLen |-> [op |-> "byte", at |-> f + k - 1, data |-> b[k]]]
OldMruLost == Data(1)                         \* mutant: the MRU is not carried over
OldMru == IF MruKnown THEN Word(mru) ELSE Data(1)

WriteNvmFile ==
  LET found == MruKnown /\ Places # {}
      f == IF found THEN Lowest(Places) ELSE 0
  IN <<IF found THEN Destroy ELSE Erase>> \o WriteFile(f, cache)
       \o <<Point(f, f + FileLen), WriteWord(f + FileLen, OldMru)>>

NoRoomOver == mru > FLASHFILE_PAGE_END        \* mutant
NoRoom == mru > FLASHFILE_PAGE_END - W
WriteMru(m) ==
  CASE NoRoom -> <<Erase>> \o WriteFile(0, Contents(nvm_file))
                   \o <<Point(0, FileLen), WriteWord(FileLen, Data(m))>>
    [] ~NoRoom /\ mru > 0 -> <<WriteWord(mru, All(B(0))), Point(nvm_file, mru + W),
                               WriteWord(mru + W, Data(m))>>
    [] OTHER -> <<Point(nvm_file, nvm_file + FileLen),
                  WriteWord(nvm_file + FileLen, Data(m))>>

Start(plan, then) == pc' = "write" /\ work' = plan /\ next' = then
Idle == pc' = "idle" /\ work' = <<>> /\ next' = Then("none")
----------------------------------------------------------------------------
(* flashfile_init.  Without a file it stores the empty cache, without an MRU
   it stores 1; in the end the cache is a copy of the file. *)
FindFile ==
  /\ pc = "boot"
  /\ IF NvmFiles # {}
     THEN /\ nvm_file' = Lowest(NvmFiles) /\ pc' = "bootMru"
          /\ UNCHANGED <<mru, cache, cache_dirty, work, next, seen>>
     ELSE /\ Start(WriteNvmFile, Then("bootMru")) /\ tried' = tried \cup {cache}
          /\ UNCHANGED <<ram, saved, mode, torn, slid>>
  /\ UNCHANGED <<flash, cnt>>

Booted == /\ cache' = Contents(nvm_file) /\ cache_dirty' = FALSE
          /\ saved' = IF torn THEN Contents(nvm_file) ELSE saved
          /\ torn' = FALSE /\ UNCHANGED <<nvm_file, tried>>

FindMru ==
  /\ pc = "bootMru"
  /\ IF MruEntries(nvm_file) # {}
     THEN /\ mru' = Lowest(MruEntries(nvm_file))
          /\ mode' = IF torn \/ ~Aligned(mru') THEN Word(mru') ELSE mode
          /\ slid' = (slid \/ ~Aligned(mru'))
          /\ Idle /\ Booted
     ELSE Start(WriteMru(1), Then("booted")) /\ UNCHANGED <<ram, seen>>
  /\ UNCHANGED <<flash, cnt>>

(* flashfile_updateEntry, at once or only in the cache. *)
Call == pc = "idle" /\ ops < MaxOps /\ ops' = ops + 1 /\ UNCHANGED <<flash, crashes, fails>>
UpdateEntry(k, v, now) ==
  /\ Call /\ ~(Contents(nvm_file)[k] = B(v) /\ ~cache_dirty)
  /\ cache' = [cache EXCEPT ![k] = B(v)] /\ cache_dirty' = TRUE
  /\ IF now THEN pc' = "flush" ELSE pc' = pc
  /\ UNCHANGED <<nvm_file, mru, work, next, seen>>

(* flashfile_cacheFlush *)
CacheFlush ==
  /\ pc = "flush" /\ Start(WriteNvmFile, Then("flushed")) /\ tried' = tried \cup {cache}
  /\ UNCHANGED <<flash, ram, saved, mode, torn, slid, cnt>>

(* flashfile_writeMru, which stores a dirty cache first (and leaves it dirty). *)
SetMru(m) ==
  /\ Start(WriteMru(m), Then("moded")) /\ mode' = Data(m)
  /\ IF NoRoom THEN /\ cache' = Contents(nvm_file) /\ cache_dirty' = FALSE
                    /\ tried' = tried \cup {cache'}
               ELSE UNCHANGED <<cache, cache_dirty, tried>>
  /\ UNCHANGED <<nvm_file, mru, saved, torn, slid>>
SwitchMode(m) ==
  /\ Call
  /\ IF cache_dirty
     THEN /\ Start(WriteNvmFile, [then |-> "mode", data |-> m])
          /\ tried' = tried \cup {cache} /\ UNCHANGED <<ram, saved, mode, torn, slid>>
     ELSE SetMru(m)

(* One flash operation.  A word that is not aligned cannot be programmed. *)
Programmed(i, b) == IF flash[i] = Blank \/ b = B(0) THEN b
                    ELSE IF b = Blank THEN flash[i] ELSE Junk
Effect(s) ==
  CASE s.op = "erase"   -> [i \in DOMAIN flash |-> Blank]
    [] s.op = "byte"    -> [flash EXCEPT ![s.at] = Programmed(s.at, s.data)]
    [] s.op = "word"    -> [i \in DOMAIN flash |->
                              IF i \in s.at .. s.at + W - 1
                              THEN Programmed(i, s.data[i - s.at + 1]) ELSE flash[i]]
    [] s.op = "destroy" -> [i \in DOMAIN flash |->
                              IF i \in s.at .. s.at + W - 1 THEN B(0) ELSE flash[i]]
    [] s.op = "point"   -> flash
CanDo(s) == s.op \in {"word", "destroy"} => Aligned(s.at)

Step == /\ pc = "write" /\ work # <<>> /\ CanDo(Head(work))
        /\ flash' = Effect(Head(work)) /\ work' = Tail(work)
        /\ IF Head(work).op = "point"
           THEN nvm_file' = Head(work).file /\ mru' = Head(work).mru
           ELSE UNCHANGED <<nvm_file, mru>>
        /\ UNCHANGED <<cache, cache_dirty, pc, next, seen, cnt>>

(* An operation that fails for good ends the call with an error, except that
   the result of destroying the old magic is not looked at.  flashfile_init
   then returns before it has filled the cache, which its caller ignores. *)
Ended(ok) == CASE next.then = "bootMru" /\ ok -> "bootMru"
               [] next.then = "booted" /\ ok -> "booted"
               [] next.then \in {"bootMru", "booted"} /\ ~ok ->
                    IF nvm_file = Null THEN "failed" ELSE "unloaded"
               [] OTHER -> "ended"
StepFails ==
  /\ pc = "write" /\ work # <<>> /\ Head(work).op # "point"
  /\ \/ ~CanDo(Head(work)) /\ UNCHANGED fails
     \/ fails < MaxFails /\ fails' = fails + 1
  /\ IF Head(work).op = "destroy" THEN work' = Tail(work) /\ UNCHANGED <<pc, torn>>
     ELSE work' = <<>> /\ pc' = Ended(FALSE) /\ torn' = TRUE
  /\ UNCHANGED <<flash, ram, next, saved, tried, mode, slid, ops, crashes>>

Stores == next.then \in {"bootMru", "flushed", "mode"}
Finished == /\ pc = "write" /\ work = <<>> /\ pc' = Ended(TRUE)
            /\ saved' = IF Stores THEN cache ELSE saved
            /\ UNCHANGED <<flash, ram, work, next, tried, mode, torn, slid, cnt>>

(* What the caller does next: flashfile_cacheFlush copies the file into the
   cache, whatever became of the write. *)
Flushed == /\ pc = "ended" /\ next.then = "flushed" /\ Idle
           /\ cache' = Contents(nvm_file) /\ cache_dirty' = FALSE
           /\ UNCHANGED <<flash, nvm_file, mru, seen, cnt>>
Moded == /\ \/ pc = "ended" /\ next.then = "moded"
            \/ pc = "unloaded"
         /\ Idle /\ UNCHANGED <<flash, ram, seen, cnt>>
ThenMode == /\ pc = "ended" /\ next.then = "mode" /\ SetMru(next.data)
            /\ UNCHANGED <<flash, cnt>>
Defaulted == /\ pc = "booted" /\ Idle /\ Booted /\ mode' = Data(1)
             /\ UNCHANGED <<flash, mru, slid, cnt>>

(* Power is lost. *)
Crash == /\ crashes < MaxCrashes /\ crashes' = crashes + 1 /\ pc # "boot"
         /\ nvm_file' = Null /\ mru' = Null /\ cache' = Zeros /\ cache_dirty' = FALSE
         /\ pc' = "boot" /\ work' = <<>> /\ next' = Then("none")
         /\ torn' = (torn \/ pc = "write")
         /\ UNCHANGED <<flash, saved, tried, mode, slid, ops, fails>>

Next == \/ FindFile \/ FindMru \/ CacheFlush \/ Step \/ StepFails \/ Finished
        \/ Flushed \/ Moded \/ ThenMode \/ Defaulted \/ Crash
        \/ \E k \in 1 .. L, v \in Values, now \in BOOLEAN : UpdateEntry(k, v, now)
        \/ \E m \in Modes : SwitchMode(m)
Spec == Init /\ [][Next]_vars
----------------------------------------------------------------------------
Offsets == {Null} \cup 0 .. FLASHFILE_PAGE_END
InSector(s) == /\ s.op = "byte" => s.at \in DOMAIN flash
               /\ s.op = "word" /\ CanDo(s) => s.at \in 0 .. Size - W
(* The pointers stay in the sector, and so does every word and byte that is
   programmed: the next sector holds another module's data. *)
TypeOK == /\ DOMAIN flash = 0 .. FLASHFILE_PAGE_END
          /\ nvm_file \in Offsets /\ mru \in Offsets
          /\ {cache_dirty, torn, slid} \subseteq BOOLEAN
          /\ pc \in {"boot", "bootMru", "booted", "failed", "unloaded", "idle",
                     "flush", "write", "ended"}
          /\ pc = "write" /\ work # <<>> => InSector(Head(work))

(* flashfile_findMru looks at every byte, not at every word: once an MRU was
   zeroed, a restart finds the next one a byte too early, and what is written
   behind it cannot be destroyed any more.  The next three properties hold until
   the store slips like this. *)

(* As long as no operation fails by itself, a byte that is not blank is never
   programmed except to zero: flash cannot hold the result. *)
NeverOverprogrammed ==
  pc = "write" /\ work # <<>> /\ ~slid /\ fails = 0 =>
    LET s == Head(work) IN
    /\ s.op = "byte" => Byte(s.at) = Blank
    /\ s.op = "word" /\ CanDo(s) => s.data = All(B(0)) \/ Word(s.at) = All(Blank)

(* Between calls, and across a loss of power between calls, the file that a
   start-up would find is the one in use and holds what was stored last. *)
Quiet == pc = "idle" /\ ~torn /\ fails = 0 /\ ~slid
FileKept == Quiet => /\ NvmFiles # {} /\ nvm_file = Lowest(NvmFiles)
                     /\ Contents(nvm_file) = saved
                     /\ cache_dirty \/ cache = saved

(* Likewise the MRU, which every new file carries along ("the next bootup will
   go into the same mode", flashfile.h). *)
ModeKept == Quiet => mru # Null /\ Word(mru) = mode

(* Whatever is cut short or fails: a file that looks valid holds contents that
   some call meant to store, never a mixture. *)
NoTorn == \A f \in NvmFiles : Contents(f) \in tried

(* "information that must be persistant even after powerdown" (flashfile.h):
   once a file was stored, every start-up finds one. *)
Durable == pc = "boot" /\ saved # <<>> => NvmFiles # {}
=============================================================================
