----------------------------- MODULE BlockCache -----------------------------
(***************************************************************************)
(* The block cache of src/kernel/block/cache.c over the ATA disk of        *)
(* src/kernel/block/ata.c, whose own write cache may lose what it has not  *)
(* been told to flush.                                                     *)
(*                                                                         *)
(* Every call holds cache_lock from beginning to end, so one call is under *)
(* way at a time; its disk commands are steps of their own, which may fail *)
(* and between which the power may fail.  The ages are left out: the       *)
(* victim is any entry when none is invalid.                               *)
(***************************************************************************)
EXTENDS Integers, FiniteSets

CONSTANTS Sectors,   \* disk.sectors: the sectors are 0 .. Sectors - 1
          Data,      \* what a sector may hold
          Blocks,    \* CACHE_BLOCKS
          Batch      \* CACHE_FLUSH_BATCH

ASSUME SectorsAssumption == Sectors \in Nat
ASSUME BlocksAssumption == Blocks \in Nat \ {0}
ASSUME BatchAssumption == Batch \in Nat \ {0}
ASSUME DataAssumption == Data # {}

Lba == 0 .. Sectors - 1
Slot == 1 .. Blocks

VARIABLES cache,          \* cache[i]: valid, dirty, lba and data
          device_dirty,   \* cache_device_dirty
          device,         \* device[l]: what a read command answers
          pending,        \* pending[l]: what a loss of power may leave in l
          call,           \* the call that holds cache_lock; slot is the entry it picked
          answer          \* what the call that has just ended answered

vars == <<cache, device_dirty, device, pending, call, answer>>

Entry == [valid : BOOLEAN, dirty : BOOLEAN, lba : Lba, data : Data]
NoCall == [op |-> "none"]
Silence == [call |-> "none", code |-> 0]
Free == call = NoCall

Init ==
  /\ cache \in [Slot -> Entry] /\ \A i \in Slot : ~cache[i].valid /\ ~cache[i].dirty
  /\ device_dirty = FALSE
  /\ device \in [Lba -> Data]
  /\ pending = [l \in Lba |-> {device[l]}]
  /\ call = NoCall
  /\ answer = Silence

Return(c, code) == call' = NoCall /\ answer' = [call |-> c, code |-> code]
ReturnData(l, d) ==
  /\ call' = NoCall
  /\ answer' = [call |-> "read", code |-> 0, lba |-> l, data |-> d]

(* find_entry, and its uses.                                               *)
Holds(i, l) == cache[i].valid /\ cache[i].lba = l
Cached(l) == \E i \in Slot : Holds(i, l)
Dirty(i) == cache[i].valid /\ cache[i].dirty
DirtyLba(l) == \E i \in Slot : Holds(i, l) /\ cache[i].dirty

(* pick_entry.                                                             *)
Pick(i) == cache[i].valid => \A j \in Slot : cache[j].valid

-----------------------------------------------------------------------------
(* The write command: the sectors of S have reached the device.            *)
Store(S, value) ==
  /\ device' = [l \in Lba |-> IF l \in S THEN value[l] ELSE device[l]]
  /\ pending' = [l \in Lba |-> IF l \in S THEN pending[l] \cup {value[l]} ELSE pending[l]]

CachedData == [l \in Lba |-> IF Cached(l) THEN cache[CHOOSE i \in Slot : Holds(i, l)].data
                                          ELSE device[l]]

ReadHit(l) ==
  /\ Free
  /\ \E i \in Slot : Holds(i, l) /\ ReturnData(l, cache[i].data)
  /\ UNCHANGED <<cache, device_dirty, device, pending>>

(* block_write_sector of a sector that is in the cache.                    *)
WriteHit(l, d) ==
  /\ Free
  /\ \E i \in Slot : /\ Holds(i, l)
                     /\ cache' = [cache EXCEPT ![i].dirty = TRUE, ![i].data = d]
  /\ Return("write", 0)
  /\ UNCHANGED <<device_dirty, device, pending>>

(* A sector that is not in the cache: an entry is picked for it.           *)
Miss(l, c) ==
  /\ Free /\ ~Cached(l)
  /\ call' = c
  /\ answer' = Silence
  /\ UNCHANGED <<cache, device_dirty, device, pending>>

ReadMiss(l, i) == Pick(i) /\ Miss(l, [op |-> "read", lba |-> l, slot |-> i])
WriteMiss(l, d, i) == Pick(i) /\ Miss(l, [op |-> "write", lba |-> l, slot |-> i, data |-> d])

Filling == call.op \in {"read", "write"}

(* flush_entry of the picked entry.                                        *)
EvictUncounted ==   \* mutant: the device is not marked
  LET i == call.slot IN
  /\ Filling /\ Dirty(i)
  /\ Store({cache[i].lba}, [l \in Lba |-> cache[i].data])
  /\ cache' = [cache EXCEPT ![i].dirty = FALSE]
  /\ answer' = Silence
  /\ UNCHANGED <<device_dirty, call>>

Evict ==
  LET i == call.slot IN
  /\ Filling /\ Dirty(i)
  /\ Store({cache[i].lba}, [l \in Lba |-> cache[i].data])
  /\ cache' = [cache EXCEPT ![i].dirty = FALSE]
  /\ device_dirty' = TRUE
  /\ answer' = Silence
  /\ UNCHANGED call

(* The command fails, before or after the device took the sector.          *)
EvictFails ==
  LET i == call.slot IN
  /\ Filling /\ Dirty(i)
  /\ \E S \in SUBSET {cache[i].lba} : Store(S, [l \in Lba |-> cache[i].data])
  /\ Return(call.op, -1)
  /\ UNCHANGED <<cache, device_dirty>>

FillOverDirty ==   \* mutant: the victim is not written back
  /\ call.op = "read"
  /\ LET l == call.lba IN
       /\ cache' = [cache EXCEPT ![call.slot] =
                      [valid |-> TRUE, dirty |-> FALSE, lba |-> l, data |-> device[l]]]
       /\ ReturnData(l, device[l])
  /\ UNCHANGED <<device_dirty, device, pending>>

Fill ==
  /\ call.op = "read" /\ ~Dirty(call.slot)
  /\ LET l == call.lba IN
       /\ cache' = [cache EXCEPT ![call.slot] =
                      [valid |-> TRUE, dirty |-> FALSE, lba |-> l, data |-> device[l]]]
       /\ ReturnData(l, device[l])
  /\ UNCHANGED <<device_dirty, device, pending>>

FillFails ==
  /\ call.op = "read" /\ ~Dirty(call.slot)
  /\ Return("read", -1)
  /\ UNCHANGED <<cache, device_dirty, device, pending>>

Overwrite ==
  /\ call.op = "write" /\ ~Dirty(call.slot)
  /\ cache' = [cache EXCEPT ![call.slot] =
                 [valid |-> TRUE, dirty |-> TRUE, lba |-> call.lba, data |-> call.data]]
  /\ Return("write", 0)
  /\ UNCHANGED <<device_dirty, device, pending>>

-----------------------------------------------------------------------------
(* block_cache_flush.                                                      *)
Flush ==
  /\ Free
  /\ call' = [op |-> "flush"]
  /\ answer' = Silence
  /\ UNCHANGED <<cache, device_dirty, device, pending>>

(* The lowest dirty sector, and those that follow it without a gap.        *)
IsFirst(f) == DirtyLba(f) /\ \A l \in Lba : DirtyLba(l) => f <= l
Run(f) == {l \in Lba : f <= l /\ l < f + Batch /\ \A k \in f .. l : DirtyLba(k)}

FlushBatch ==
  /\ call.op = "flush"
  /\ \E f \in Lba :
       /\ IsFirst(f)
       /\ Store(Run(f), CachedData)
       /\ cache' = [i \in Slot |->
            IF cache[i].valid /\ cache[i].lba \in Run(f) THEN [cache[i] EXCEPT !.dirty = FALSE]
                                                         ELSE cache[i]]
  /\ device_dirty' = TRUE
  /\ answer' = Silence
  /\ UNCHANGED call

(* The device took the sectors before some n of the batch.                 *)
FlushBatchFails ==
  /\ call.op = "flush"
  /\ \E f \in Lba : IsFirst(f) /\ \E n \in 0 .. Batch :
       Store({l \in Run(f) : l < f + n}, CachedData)
  /\ Return("flush", -1)
  /\ UNCHANGED <<cache, device_dirty>>

FlushDevice ==
  /\ call.op = "flush" /\ \A l \in Lba : ~DirtyLba(l)
  /\ IF device_dirty THEN pending' = [l \in Lba |-> {device[l]}] ELSE UNCHANGED pending
  /\ device_dirty' = FALSE
  /\ Return("flush", 0)
  /\ UNCHANGED <<cache, device>>

FlushDeviceFails ==
  /\ call.op = "flush" /\ \A l \in Lba : ~DirtyLba(l)
  /\ device_dirty
  /\ Return("flush", -1)
  /\ UNCHANGED <<cache, device_dirty, device, pending>>

(* Power is lost; the next boot calls block_cache_init.                    *)
PowerLoss ==
  /\ device' \in [Lba -> Data] /\ \A l \in Lba : device'[l] \in pending[l]
  /\ pending' = [l \in Lba |-> {device'[l]}]
  /\ cache' = [i \in Slot |-> [cache[i] EXCEPT !.valid = FALSE, !.dirty = FALSE]]
  /\ device_dirty' = FALSE
  /\ call' = NoCall
  /\ answer' = Silence

Next ==
  \/ \E l \in Lba : \/ ReadHit(l)
                    \/ \E i \in Slot : ReadMiss(l, i)
                    \/ \E d \in Data : WriteHit(l, d) \/ \E i \in Slot : WriteMiss(l, d, i)
  \/ Evict \/ EvictFails \/ Fill \/ FillFails \/ Overwrite
  \/ Flush \/ FlushBatch \/ FlushBatchFails \/ FlushDevice \/ FlushDeviceFails
  \/ PowerLoss

Spec == Init /\ [][Next]_vars

-----------------------------------------------------------------------------
(* The variables stay in their ranges.                                     *)
TypeOK ==
  /\ cache \in [Slot -> Entry]
  /\ device_dirty \in BOOLEAN
  /\ device \in [Lba -> Data]
  /\ pending \in [Lba -> SUBSET Data]
  /\ call \in {NoCall, [op |-> "flush"]} \cup [op : {"read"}, lba : Lba, slot : Slot]
              \cup [op : {"write"}, lba : Lba, slot : Slot, data : Data]

(* No sector is in the cache twice; the copy of one that is not dirty is   *)
(* what the device holds; and what the device might still lose is either   *)
(* dirty or known to cache_device_dirty, so that a flush which skips the   *)
(* device's command, or its write of a sector, loses nothing.              *)
Once == \A i, j \in Slot :
  cache[i].valid /\ cache[j].valid /\ cache[i].lba = cache[j].lba => i = j
CleanIsStored == \A i \in Slot :
  cache[i].valid /\ ~cache[i].dirty => cache[i].data = device[cache[i].lba]
DeviceIsPending == \A l \in Lba : device[l] \in pending[l]
LossIsKnown == ~device_dirty => \A l \in Lba : DirtyLba(l) \/ pending[l] = {device[l]}
Coherent == TypeOK /\ Once /\ CleanIsStored /\ DeviceIsPending /\ LossIsKnown

(***************************************************************************)
(* The cache and its disk implement the disk that the file system sees.    *)
(***************************************************************************)
Abstract == INSTANCE Disk WITH contents <- CachedData, stable <- pending
ImplementsDisk == Abstract!Spec
=============================================================================
