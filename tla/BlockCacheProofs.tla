-------------------------- MODULE BlockCacheProofs --------------------------
(***************************************************************************)
(* The cache is coherent, and it implements the disk the file system sees, *)
(* for every number of sectors and of entries, every batch and every set   *)
(* of contents.                                                            *)
(*                                                                         *)
(* Coherent is not inductive: Fill and Overwrite put a sector into the     *)
(* picked entry, and it must still not be in another one.  What is missing *)
(* is that the sector a call missed stays out of the cache while the call  *)
(* holds the lock (NotYet).                                                *)
(***************************************************************************)
EXTENDS BlockCache, TLAPS

NotYet == Filling => ~Cached(call.lba)
IInv == Coherent /\ NotYet

USE DEF Lba, Slot

(* Before the first call.                                                  *)
LEMMA InitIInv == Init => IInv
<1> SUFFICES ASSUME Init PROVE IInv
  OBVIOUS
<1>1. TypeOK
  BY DEF Init, TypeOK
<1>2. Once /\ CleanIsStored
  BY DEF Init, Once, CleanIsStored
<1>3. DeviceIsPending /\ LossIsKnown
  BY DEF Init, DeviceIsPending, LossIsKnown
<1>4. NotYet
  BY DEF Init, NotYet, Filling, NoCall
<1> QED
  BY <1>1, <1>2, <1>3, <1>4 DEF IInv, Coherent

(* The entry a call has picked is an entry, and its sector a sector.       *)
LEMMA CallTyped == TypeOK /\ Filling => call.lba \in Lba /\ call.slot \in Slot
  BY DEF TypeOK, Filling, NoCall

LEMMA WriteTyped == TypeOK /\ call.op = "write" => call.data \in Data
  BY DEF TypeOK, NoCall

(* Calls that only begin, or only answer, leave the sectors alone.         *)
LEMMA SectorsUntouched ==
  ASSUME IInv, UNCHANGED <<cache, device_dirty, device, pending>>
  PROVE  Once' /\ CleanIsStored' /\ DeviceIsPending' /\ LossIsKnown'
  BY DEF IInv, Coherent, Once, CleanIsStored, DeviceIsPending, LossIsKnown, DirtyLba, Holds

(* A call that has ended, or does not fill, has nothing to keep out.       *)
LEMMA NothingFilled == call' = NoCall \/ call' = [op |-> "flush"] => NotYet'
  BY DEF NotYet, Filling, NoCall

(* A call begins: the picked entry and the missed sector are noted.        *)
LEMMA MissStep ==
  ASSUME IInv, NEW l \in Lba, NEW i \in Slot, NEW c, c.lba = l, Miss(l, c),
         c \in [op : {"read"}, lba : Lba, slot : Slot]
               \cup [op : {"write"}, lba : Lba, slot : Slot, data : Data]
  PROVE  IInv'
<1>1. UNCHANGED <<cache, device_dirty, device, pending>> /\ call' = c /\ ~Cached(l)
  BY DEF Miss
<1>2. TypeOK'
  BY <1>1 DEF TypeOK, IInv, Coherent
<1>3. ~Cached(l)'
  BY <1>1 DEF Cached, Holds
<1> QED
  BY <1>1, <1>2, <1>3, SectorsUntouched DEF IInv, Coherent, NotYet, Cached

LEMMA BeginStep ==
  ASSUME IInv, NEW l \in Lba, NEW d \in Data, NEW i \in Slot,
         ReadMiss(l, i) \/ WriteMiss(l, d, i)
  PROVE  IInv'
<1>1. CASE ReadMiss(l, i)
  <2> DEFINE c == [op |-> "read", lba |-> l, slot |-> i]
  <2>1. Miss(l, c) /\ c.lba = l /\ c \in [op : {"read"}, lba : Lba, slot : Slot]
    BY <1>1 DEF ReadMiss
  <2> HIDE DEF c
  <2> QED
    BY <2>1, MissStep
<1>2. CASE WriteMiss(l, d, i)
  <2> DEFINE c == [op |-> "write", lba |-> l, slot |-> i, data |-> d]
  <2>1. Miss(l, c) /\ c.lba = l /\ c \in [op : {"write"}, lba : Lba, slot : Slot, data : Data]
    BY <1>2 DEF WriteMiss
  <2> HIDE DEF c
  <2> QED
    BY <2>1, MissStep
<1> QED
  BY <1>1, <1>2

LEMMA FlushStep == IInv /\ Flush => IInv'
<1> SUFFICES ASSUME IInv, Flush PROVE IInv'
  OBVIOUS
<1>1. UNCHANGED <<cache, device_dirty, device, pending>> /\ call' = [op |-> "flush"]
  BY DEF Flush
<1>2. TypeOK'
  BY <1>1 DEF TypeOK, IInv, Coherent
<1> QED
  BY <1>1, <1>2, SectorsUntouched, NothingFilled DEF IInv, Coherent

(* A read that hits, a read whose command fails and a flush the device     *)
(* refuses only answer.                                                    *)
LEMMA AnswerStep ==
  ASSUME IInv, (\E l \in Lba : ReadHit(l)) \/ FillFails \/ FlushDeviceFails
  PROVE  IInv'
<1>1. UNCHANGED <<cache, device_dirty, device, pending>> /\ call' = NoCall
  BY DEF ReadHit, ReturnData, FillFails, FlushDeviceFails, Return
<1>2. TypeOK'
  BY <1>1 DEF TypeOK, IInv, Coherent
<1> QED
  BY <1>1, <1>2, SectorsUntouched, NothingFilled DEF IInv, Coherent

(* A write hit makes the one copy of the sector dirty.                     *)
LEMMA WriteHitStep ==
  ASSUME IInv, NEW l \in Lba, NEW d \in Data, WriteHit(l, d)
  PROVE  IInv'
<1>1. PICK i \in Slot : Holds(i, l) /\ cache' = [cache EXCEPT ![i].dirty = TRUE, ![i].data = d]
  BY DEF WriteHit
<1>2. /\ UNCHANGED <<device_dirty, device, pending>>
      /\ call' = NoCall
  BY DEF WriteHit, Return
<1>3. TypeOK'
  BY <1>1, <1>2 DEF TypeOK, Entry, IInv, Coherent
<1>4. /\ cache'[i].valid /\ cache'[i].dirty /\ cache'[i].lba = cache[i].lba
      /\ \A j \in Slot \ {i} : cache'[j] = cache[j]
  BY <1>1 DEF TypeOK, Entry, IInv, Coherent, Holds
<1>5. Once'
  <2>1. \A j \in Slot : cache'[j].valid => cache[j].valid /\ cache'[j].lba = cache[j].lba
    BY <1>1, <1>4 DEF Holds
  <2> QED
    BY <2>1 DEF IInv, Coherent, Once
<1>6. CleanIsStored'
  BY <1>2, <1>4 DEF IInv, Coherent, CleanIsStored
<1>7. DeviceIsPending'
  BY <1>2 DEF IInv, Coherent, DeviceIsPending
<1>8. LossIsKnown'
  BY <1>2, <1>4 DEF IInv, Coherent, LossIsKnown, DirtyLba, Holds
<1> QED
  BY <1>2, <1>3, <1>5, <1>6, <1>7, <1>8, NothingFilled DEF IInv, Coherent

-----------------------------------------------------------------------------
(* What a read answers: the one copy in the cache, or what the device has. *)
LEMMA CachedDataIs ==
  ASSUME Coherent, NEW l \in Lba
  PROVE  /\ \A i \in Slot : Holds(i, l) => CachedData[l] = cache[i].data
         /\ ~Cached(l) => CachedData[l] = device[l]
         /\ CachedData[l] \in Data
<1>1. ASSUME NEW i \in Slot, Holds(i, l)
      PROVE  CachedData[l] = cache[i].data
  <2>1. \A j \in Slot : Holds(j, l) => j = i
    BY <1>1 DEF Coherent, Once, Holds
  <2>2. (CHOOSE j \in Slot : Holds(j, l)) = i
    BY <1>1, <2>1
  <2> QED
    BY <1>1, <2>2 DEF CachedData, Cached
<1>2. ~Cached(l) => CachedData[l] = device[l]
  BY DEF CachedData
<1>3. CachedData[l] \in Data
  BY <1>1, <1>2 DEF Cached, Coherent, TypeOK, Entry
<1> QED
  BY <1>1, <1>2, <1>3

(* A write command of the data the cache has for the sectors of S.         *)
LEMMA StoreKeeps ==
  ASSUME Coherent, NEW S, NEW value, \A l \in Lba \cap S : value[l] \in Data, Store(S, value)
  PROVE  /\ device' \in [Lba -> Data]
         /\ pending' \in [Lba -> SUBSET Data]
         /\ DeviceIsPending'
  BY DEF Store, Coherent, TypeOK, DeviceIsPending

(* The victim is written back: its copy is now clean, and the device is.   *)
LEMMA EvictStep == IInv /\ Evict => IInv'
<1> SUFFICES ASSUME IInv, Evict PROVE IInv'
  OBVIOUS
<1> DEFINE i == call.slot
<1>1. i \in Slot /\ Dirty(i)
  BY CallTyped DEF Evict, IInv, Coherent
<1>2. cache[i].lba \in Lba /\ cache[i].data \in Data
  BY <1>1 DEF IInv, Coherent, TypeOK, Entry
<1>3. /\ cache' = [cache EXCEPT ![i].dirty = FALSE]
      /\ device_dirty' = TRUE
      /\ call' = call
      /\ Store({cache[i].lba}, [l \in Lba |-> cache[i].data])
  BY DEF Evict
<1>4. device' \in [Lba -> Data] /\ pending' \in [Lba -> SUBSET Data] /\ DeviceIsPending'
  BY <1>2, <1>3, StoreKeeps DEF IInv
<1>5. TypeOK'
  BY <1>1, <1>3, <1>4 DEF TypeOK, Entry, IInv, Coherent
<1>6. /\ cache'[i].lba = cache[i].lba /\ cache'[i].data = cache[i].data
      /\ \A j \in Slot \ {i} : cache'[j] = cache[j]
  BY <1>1, <1>3 DEF TypeOK, Entry, IInv, Coherent
<1>7. \A j \in Slot : cache'[j].valid => cache[j].valid /\ cache'[j].lba = cache[j].lba
  BY <1>1, <1>6 DEF Dirty
<1>8. Once'
  BY <1>7 DEF IInv, Coherent, Once
<1>9. CleanIsStored'
  <2> SUFFICES ASSUME NEW j \in Slot, cache'[j].valid, ~cache'[j].dirty
               PROVE  cache'[j].data = device'[cache'[j].lba]
    BY DEF CleanIsStored
  <2>1. CASE j = i
    BY <1>2, <1>3, <1>6, <2>1 DEF Store
  <2>2. CASE j # i
    <3>1. cache[j].lba # cache[i].lba
      BY <1>1, <1>6, <2>2 DEF IInv, Coherent, Once, Dirty
    <3>2. cache[j].lba \in Lba
      BY DEF IInv, Coherent, TypeOK, Entry
    <3> QED
      BY <1>3, <1>6, <2>2, <3>1, <3>2 DEF IInv, Coherent, CleanIsStored, Store
  <2> QED
    BY <2>1, <2>2
<1>10. LossIsKnown'
  BY <1>3 DEF LossIsKnown
<1>11. NotYet'
  BY <1>3, <1>7 DEF IInv, NotYet, Filling, Cached, Holds
<1> QED
  BY <1>4, <1>5, <1>8, <1>9, <1>10, <1>11 DEF IInv, Coherent

(* A write command that fails leaves the copies dirty.                     *)
LEMMA FailedWriteStep ==
  ASSUME IInv, NEW S \in SUBSET Lba, \A l \in S : DirtyLba(l),
         NEW value, \A l \in S : value[l] \in Data, Store(S, value),
         call' = NoCall, UNCHANGED <<cache, device_dirty>>
  PROVE  IInv'
<1>1. device' \in [Lba -> Data] /\ pending' \in [Lba -> SUBSET Data] /\ DeviceIsPending'
  BY StoreKeeps DEF IInv
<1>2. TypeOK' /\ Once'
  BY <1>1 DEF TypeOK, Once, IInv, Coherent
<1>3. CleanIsStored'
  <2> SUFFICES ASSUME NEW j \in Slot, cache[j].valid, ~cache[j].dirty
               PROVE  cache[j].data = device'[cache[j].lba]
    BY DEF CleanIsStored
  <2>1. cache[j].lba \in Lba
    BY DEF IInv, Coherent, TypeOK, Entry
  <2>2. cache[j].lba \notin S
    BY DEF DirtyLba, Holds, IInv, Coherent, Once
  <2> QED
    BY <2>1, <2>2 DEF IInv, Coherent, CleanIsStored, Store
<1>4. LossIsKnown'
  <2> SUFFICES ASSUME ~device_dirty, NEW l \in Lba
               PROVE  DirtyLba(l)' \/ pending'[l] = {device'[l]}
    BY DEF LossIsKnown
  <2>1. DirtyLba(l)' <=> DirtyLba(l)
    BY DEF DirtyLba, Holds
  <2> QED
    BY <2>1 DEF IInv, Coherent, LossIsKnown, Store
<1> QED
  BY <1>1, <1>2, <1>3, <1>4, NothingFilled DEF IInv, Coherent

LEMMA EvictFailsStep == IInv /\ EvictFails => IInv'
<1> SUFFICES ASSUME IInv, EvictFails PROVE IInv'
  OBVIOUS
<1> DEFINE i == call.slot
<1>1. i \in Slot /\ Dirty(i)
  BY CallTyped DEF EvictFails, IInv, Coherent
<1>2. cache[i].lba \in Lba /\ cache[i].data \in Data /\ DirtyLba(cache[i].lba)
  BY <1>1 DEF IInv, Coherent, TypeOK, Entry, Dirty, DirtyLba, Holds
<1>3. PICK S \in SUBSET {cache[i].lba} : Store(S, [l \in Lba |-> cache[i].data])
  BY DEF EvictFails
<1>4. call' = NoCall /\ UNCHANGED <<cache, device_dirty>>
  BY DEF EvictFails, Return
<1> HIDE DEF i
<1> QED
  BY <1>2, <1>3, <1>4, FailedWriteStep

(* What block_cache_flush writes in one command.                           *)
LEMMA RunIsDirty == ASSUME NEW f \in Lba PROVE Run(f) \subseteq Lba /\ \A l \in Run(f) : DirtyLba(l)
  BY SectorsAssumption DEF Run

LEMMA FlushBatchFailsStep == IInv /\ FlushBatchFails => IInv'
<1> SUFFICES ASSUME IInv, FlushBatchFails PROVE IInv'
  OBVIOUS
<1>1. PICK f \in Lba : \E n \in 0 .. Batch : Store({l \in Run(f) : l < f + n}, CachedData)
  BY DEF FlushBatchFails
<1>2. PICK n \in 0 .. Batch : Store({l \in Run(f) : l < f + n}, CachedData)
  BY <1>1
<1> DEFINE S == {l \in Run(f) : l < f + n}
<1>3. S \in SUBSET Lba /\ \A l \in S : DirtyLba(l)
  BY RunIsDirty
<1>4. \A l \in S : CachedData[l] \in Data
  BY <1>3, CachedDataIs DEF IInv
<1>5. call' = NoCall /\ UNCHANGED <<cache, device_dirty>>
  BY DEF FlushBatchFails, Return
<1>6. Store(S, CachedData)
  BY <1>2
<1> HIDE DEF S
<1> QED
  BY <1>3, <1>4, <1>5, <1>6, FailedWriteStep

(* The picked entry, which is clean, is given the sector that was missed.  *)
LEMMA FillStep ==
  ASSUME IInv, Filling, ~Dirty(call.slot),
         NEW e \in Entry, e.valid, e.lba = call.lba,
         e.dirty \/ e.data = device[call.lba],
         cache' = [cache EXCEPT ![call.slot] = e],
         call' = NoCall, UNCHANGED <<device_dirty, device, pending>>
  PROVE  IInv'
<1> DEFINE i == call.slot
<1>1. i \in Slot /\ call.lba \in Lba
  BY CallTyped DEF IInv, Coherent
<1>2. cache'[i] = e /\ \A j \in Slot \ {i} : cache'[j] = cache[j]
  BY <1>1 DEF IInv, Coherent, TypeOK
<1>3. TypeOK'
  BY <1>1 DEF IInv, Coherent, TypeOK
<1>4. \A j \in Slot : cache[j].valid => cache[j].lba # call.lba
  BY DEF IInv, NotYet, Cached, Holds
<1>5. Once'
  <2> SUFFICES ASSUME NEW j \in Slot, NEW k \in Slot, cache'[j].valid, cache'[k].valid,
                      cache'[j].lba = cache'[k].lba
               PROVE  j = k
    BY DEF Once
  <2>1. CASE j # i /\ k # i
    BY <1>2, <2>1 DEF IInv, Coherent, Once
  <2>2. CASE j = i \/ k = i
    BY <1>2, <1>4, <2>2
  <2> QED
    BY <2>1, <2>2
<1>6. CleanIsStored'
  <2> SUFFICES ASSUME NEW j \in Slot, cache'[j].valid, ~cache'[j].dirty
               PROVE  cache'[j].data = device[cache'[j].lba]
    BY DEF CleanIsStored
  <2>1. CASE j = i
    BY <1>2, <2>1
  <2>2. CASE j # i
    BY <1>2, <2>2 DEF IInv, Coherent, CleanIsStored
  <2> QED
    BY <2>1, <2>2
<1>7. DeviceIsPending'
  BY DEF IInv, Coherent, DeviceIsPending
<1>8. LossIsKnown'
  <2>1. \A l \in Lba : DirtyLba(l) => DirtyLba(l)'
    BY <1>2 DEF DirtyLba, Holds, Dirty
  <2> QED
    BY <2>1 DEF IInv, Coherent, LossIsKnown
<1> QED
  BY <1>3, <1>5, <1>6, <1>7, <1>8, NothingFilled DEF IInv, Coherent

LEMMA FillingStep == IInv /\ (Fill \/ Overwrite) => IInv'
<1>1. ASSUME IInv, Fill PROVE IInv'
  <2> DEFINE e == [valid |-> TRUE, dirty |-> FALSE, lba |-> call.lba, data |-> device[call.lba]]
  <2>1. Filling /\ ~Dirty(call.slot) /\ cache' = [cache EXCEPT ![call.slot] = e]
    BY <1>1 DEF Fill, Filling
  <2>2. call' = NoCall /\ UNCHANGED <<device_dirty, device, pending>>
    BY <1>1 DEF Fill, ReturnData
  <2>3. e \in Entry
    BY <1>1, <2>1, CallTyped DEF IInv, Coherent, TypeOK, Entry
  <2> QED
    BY <1>1, <2>1, <2>2, <2>3, FillStep
<1>2. ASSUME IInv, Overwrite PROVE IInv'
  <2> DEFINE e == [valid |-> TRUE, dirty |-> TRUE, lba |-> call.lba, data |-> call.data]
  <2>1. Filling /\ ~Dirty(call.slot) /\ cache' = [cache EXCEPT ![call.slot] = e]
    BY <1>2 DEF Overwrite, Filling
  <2>2. call' = NoCall /\ UNCHANGED <<device_dirty, device, pending>>
    BY <1>2 DEF Overwrite, Return
  <2>3. e \in Entry
    BY <1>2, <2>1, CallTyped, WriteTyped DEF IInv, Coherent, Entry, Overwrite
  <2> QED
    BY <1>2, <2>1, <2>2, <2>3, FillStep
<1> QED
  BY <1>1, <1>2

(* A batch is written: its copies are clean and the device has them.       *)
LEMMA FlushBatchStep == IInv /\ FlushBatch => IInv'
<1> SUFFICES ASSUME IInv, FlushBatch PROVE IInv'
  OBVIOUS
<1>1. PICK f \in Lba :
        /\ Store(Run(f), CachedData)
        /\ cache' = [i \in Slot |->
             IF cache[i].valid /\ cache[i].lba \in Run(f) THEN [cache[i] EXCEPT !.dirty = FALSE]
                                                          ELSE cache[i]]
  BY DEF FlushBatch
<1>2. device_dirty' = TRUE /\ call' = call /\ call.op = "flush"
  BY DEF FlushBatch
<1>3. \A l \in Lba \cap Run(f) : CachedData[l] \in Data
  BY CachedDataIs DEF IInv
<1>4. device' \in [Lba -> Data] /\ pending' \in [Lba -> SUBSET Data] /\ DeviceIsPending'
  BY <1>1, <1>3, StoreKeeps DEF IInv
<1>5. TypeOK'
  BY <1>1, <1>2, <1>4 DEF TypeOK, Entry, IInv, Coherent
<1>6. \A i \in Slot : /\ cache'[i].valid = cache[i].valid
                      /\ cache'[i].lba = cache[i].lba
                      /\ cache'[i].data = cache[i].data
                      /\ ~(cache[i].valid /\ cache[i].lba \in Run(f)) => cache'[i] = cache[i]
  BY <1>1 DEF TypeOK, Entry, IInv, Coherent
<1>7. Once'
  BY <1>6 DEF IInv, Coherent, Once
<1>8. CleanIsStored'
  <2> SUFFICES ASSUME NEW i \in Slot, cache'[i].valid, ~cache'[i].dirty
               PROVE  cache'[i].data = device'[cache'[i].lba]
    BY DEF CleanIsStored
  <2>1. cache[i].valid /\ cache[i].lba \in Lba
    BY <1>6 DEF IInv, Coherent, TypeOK, Entry
  <2>2. CASE cache[i].lba \in Run(f)
    <3>1. CachedData[cache[i].lba] = cache[i].data
      BY <2>1, CachedDataIs DEF IInv, Holds
    <3> QED
      BY <1>1, <1>6, <2>1, <2>2, <3>1 DEF Store
  <2>3. CASE cache[i].lba \notin Run(f)
    BY <1>1, <1>6, <2>1, <2>3 DEF IInv, Coherent, CleanIsStored, Store
  <2> QED
    BY <2>2, <2>3
<1>9. LossIsKnown' /\ NotYet'
  BY <1>2 DEF LossIsKnown, NotYet, Filling
<1> QED
  BY <1>4, <1>5, <1>7, <1>8, <1>9 DEF IInv, Coherent

(* The device's own flush: what was not known to be lost cannot be lost.   *)
LEMMA FlushDeviceStep == IInv /\ FlushDevice => IInv'
<1> SUFFICES ASSUME IInv, FlushDevice PROVE IInv'
  OBVIOUS
<1>1. pending' = [l \in Lba |-> {device[l]}] \/ (~device_dirty /\ pending' = pending)
  BY DEF FlushDevice
<1>2. /\ call' = NoCall /\ device_dirty' = FALSE /\ cache' = cache /\ device' = device
      /\ \A l \in Lba : ~DirtyLba(l)
  BY DEF FlushDevice, Return
<1>3. \A l \in Lba : pending'[l] = {device[l]}
  BY <1>1, <1>2 DEF IInv, Coherent, LossIsKnown
<1>4. TypeOK'
  <2>1. pending' \in [Lba -> SUBSET Data]
    <3>1. \A l \in Lba : {device[l]} \in SUBSET Data
      BY DEF IInv, Coherent, TypeOK
    <3> QED
      BY <1>1, <3>1 DEF IInv, Coherent, TypeOK
  <2> QED
    BY <1>2, <2>1 DEF IInv, Coherent, TypeOK
<1>5. Once' /\ CleanIsStored' /\ DeviceIsPending' /\ LossIsKnown'
  BY <1>2, <1>3 DEF IInv, Coherent, Once, CleanIsStored, DeviceIsPending, LossIsKnown
<1> QED
  BY <1>2, <1>4, <1>5, NothingFilled DEF IInv, Coherent

LEMMA PowerLossStep == IInv /\ PowerLoss => IInv'
<1> SUFFICES ASSUME IInv, PowerLoss PROVE IInv'
  OBVIOUS
<1>1. \A i \in Slot : ~cache'[i].valid
  BY DEF PowerLoss, IInv, Coherent, TypeOK, Entry
<1>2. TypeOK'
  BY DEF PowerLoss, IInv, Coherent, TypeOK, Entry
<1>3. Once' /\ CleanIsStored'
  BY <1>1 DEF Once, CleanIsStored
<1>4. DeviceIsPending' /\ LossIsKnown'
  BY DEF PowerLoss, DeviceIsPending, LossIsKnown
<1> QED
  BY <1>2, <1>3, <1>4, NothingFilled DEF IInv, Coherent, PowerLoss

LEMMA StutterStep == IInv /\ UNCHANGED vars => IInv'
<1> SUFFICES ASSUME IInv, UNCHANGED vars PROVE IInv'
  OBVIOUS
<1>1. UNCHANGED <<cache, device_dirty, device, pending, call>>
  BY DEF vars
<1>2. TypeOK' /\ NotYet'
  BY <1>1 DEF IInv, Coherent, TypeOK, NotYet, Filling, Cached, Holds
<1> QED
  BY <1>1, <1>2, SectorsUntouched DEF IInv, Coherent

LEMMA NextIInv == IInv /\ [Next]_vars => IInv'
<1> SUFFICES ASSUME IInv, [Next]_vars PROVE IInv'
  OBVIOUS
<1>1. ASSUME NEW l \in Lba, NEW d \in Data, NEW i \in Slot,
             ReadMiss(l, i) \/ WriteHit(l, d) \/ WriteMiss(l, d, i)
      PROVE  IInv'
  BY <1>1, BeginStep, WriteHitStep
<1>2. CASE Evict \/ EvictFails \/ Fill \/ Overwrite \/ FlushBatch \/ FlushBatchFails
           \/ FlushDevice \/ PowerLoss
  BY <1>2, EvictStep, EvictFailsStep, FillingStep, FlushBatchStep, FlushBatchFailsStep,
     FlushDeviceStep, PowerLossStep
<1>3. CASE UNCHANGED vars
  BY <1>3, StutterStep
<1>4. CASE (\E l \in Lba : ReadHit(l)) \/ FillFails \/ Flush \/ FlushDeviceFails
  BY <1>4, AnswerStep, FlushStep
<1>5. CASE \E l \in Lba : \/ \E i \in Slot : ReadMiss(l, i)
                         \/ \E d \in Data : WriteHit(l, d) \/ \E i \in Slot : WriteMiss(l, d, i)
  BY <1>1, <1>5, DataAssumption, BlocksAssumption
<1> QED
  BY <1>2, <1>3, <1>4, <1>5 DEF Next

(* The cache never holds a sector twice or a clean copy that differs from  *)
(* the device, and knows what a loss of power could take.                  *)
THEOREM CacheIsCoherent == Spec => []Coherent
<1>1. IInv => Coherent
  BY DEF IInv
<1> QED
  BY <1>1, InitIInv, NextIInv, PTL DEF Spec

-----------------------------------------------------------------------------
(* The refinement.  CachedData is what the cache answers, in a state and   *)
(* in the next one.                                                        *)
Answered ==
  \A l \in Lba : /\ \A i \in Slot : Holds(i, l) => CachedData[l] = cache[i].data
                 /\ ~Cached(l) => CachedData[l] = device[l]
                 /\ CachedData[l] \in Data

LEMMA AnsweredNow == Coherent => Answered
  BY CachedDataIs DEF Answered

LEMMA AnsweredNext == Coherent' => Answered'
  BY AnsweredNow, PTL

LEMMA ContentsAre ==
  /\ CachedData = [l \in Lba |-> CachedData[l]]
  /\ CachedData' = [l \in Lba |-> CachedData'[l]]
  BY DEF CachedData

(* No call that ends a step of the disk changes what is read.              *)
LEMMA SameContents ==
  ASSUME IInv, IInv',
         \A i \in Slot : /\ cache'[i].valid = cache[i].valid /\ cache'[i].lba = cache[i].lba
                         /\ cache'[i].data = cache[i].data,
         \A l \in Lba : ~Cached(l) => device'[l] = device[l]
  PROVE  CachedData' = CachedData
<1>1. \A l \in Lba : CachedData'[l] = CachedData[l]
  <2> SUFFICES ASSUME NEW l \in Lba PROVE CachedData'[l] = CachedData[l]
    OBVIOUS
  <2>1. Answered /\ Answered'
    BY AnsweredNow, AnsweredNext DEF IInv
  <2>2. CASE Cached(l)
    <3>1. PICK i \in Slot : Holds(i, l)
      BY <2>2 DEF Cached
    <3>2. Holds(i, l)'
      BY <3>1 DEF Holds
    <3> QED
      BY <2>1, <3>1, <3>2 DEF Answered
  <2>3. CASE ~Cached(l)
    <3>1. ~Cached(l)'
      BY <2>3 DEF Cached, Holds
    <3> QED
      BY <2>1, <2>3, <3>1 DEF Answered
  <2> QED
    BY <2>2, <2>3
<1> QED
  BY <1>1, ContentsAre

LEMMA PendingTyped == Coherent' => pending' \in [Lba -> (SUBSET Data) \ {{}}]
<1>1. Coherent' => pending' \in [Lba -> SUBSET Data] /\ \A l \in Lba : device'[l] \in pending'[l]
  BY DEF Coherent, TypeOK, DeviceIsPending
<1> QED
  BY <1>1

(* What reaches the device of the sectors that are dirty is what they hold. *)
LEMMA StoreSettles ==
  ASSUME IInv, IInv', NEW S, NEW value,
         \A l \in Lba \cap S : value[l] = CachedData[l], Store(S, value)
  PROVE  Abstract!Settle
<1>1. pending' \in [Lba -> (SUBSET Data) \ {{}}]
  BY PendingTyped DEF IInv
<1>2. \A l \in Lba : pending'[l] \subseteq pending[l] \cup {CachedData[l]}
  BY DEF Store, IInv, Coherent, TypeOK
<1> QED
  BY <1>1, <1>2 DEF Abstract!Settle

LEMMA NothingSettles ==
  ASSUME IInv, IInv', pending' = pending
  PROVE  Abstract!Settle
<1>1. pending' \in [Lba -> (SUBSET Data) \ {{}}]
  BY PendingTyped DEF IInv
<1> QED
  BY <1>1 DEF Abstract!Settle

(* A call begins: the disk does nothing.                                   *)
LEMMA RefineBegin ==
  ASSUME IInv, IInv', UNCHANGED <<cache, device, pending>>, answer' = Silence
  PROVE  Abstract!Next
<1>1. CachedData' = CachedData
  BY SameContents
<1> QED
  BY <1>1, NothingSettles DEF Abstract!Next, Abstract!Drift, Abstract!Silence, Silence

(* The commands that move sectors between the cache and the device.        *)
LEMMA RefineEvict ==
  ASSUME IInv, IInv', Evict \/ EvictFails
  PROVE  Abstract!Next
<1> DEFINE i == call.slot
           value == [l \in Lba |-> cache[i].data]
<1>1. i \in Slot /\ Dirty(i) /\ cache[i].lba \in Lba
  BY CallTyped DEF Evict, EvictFails, IInv, Coherent, Dirty, TypeOK, Entry
<1>2. CachedData[cache[i].lba] = cache[i].data
  BY <1>1, AnsweredNow DEF IInv, Answered, Holds, Dirty
<1>3. PICK S \in SUBSET {cache[i].lba} : Store(S, value)
  BY DEF Evict, EvictFails
<1>4. \A l \in Lba \cap S : value[l] = CachedData[l]
  BY <1>2
<1>5. Abstract!Settle
  BY <1>3, <1>4, StoreSettles
<1>6. CachedData' = CachedData
  <2>1. \A j \in Slot : /\ cache'[j].valid = cache[j].valid /\ cache'[j].lba = cache[j].lba
                        /\ cache'[j].data = cache[j].data
    BY <1>1 DEF Evict, EvictFails, IInv, Coherent, TypeOK, Entry
  <2>2. \A l \in Lba : ~Cached(l) => device'[l] = device[l]
    BY <1>1, <1>3 DEF Store, Cached, Holds, Dirty, IInv, Coherent, TypeOK
  <2> QED
    BY <2>1, <2>2, SameContents
<1>7. CASE Evict
  BY <1>5, <1>6, <1>7 DEF Evict, Abstract!Next, Abstract!Drift, Abstract!Silence, Silence
<1>8. CASE EvictFails
  <2>1. answer' = [call |-> call.op, code |-> -1] /\ call.op \in {"read", "write"}
    BY <1>8 DEF EvictFails, Return, Filling
  <2> QED
    BY <1>5, <1>6, <2>1 DEF Abstract!Next, Abstract!Fail, Abstract!Answers
<1> QED
  BY <1>7, <1>8

LEMMA RefineFlushBatch ==
  ASSUME IInv, IInv', FlushBatch \/ FlushBatchFails
  PROVE  Abstract!Next
<1>1. PICK f \in Lba : \E S \in SUBSET Run(f) :
        /\ Store(S, CachedData)
        /\ \A i \in Slot : /\ cache'[i].valid = cache[i].valid /\ cache'[i].lba = cache[i].lba
                           /\ cache'[i].data = cache[i].data
  <2>1. CASE FlushBatch
    <3>1. PICK f \in Lba :
            /\ Store(Run(f), CachedData)
            /\ cache' = [i \in Slot |->
                 IF cache[i].valid /\ cache[i].lba \in Run(f)
                 THEN [cache[i] EXCEPT !.dirty = FALSE] ELSE cache[i]]
      BY <2>1 DEF FlushBatch
    <3>2. \A i \in Slot : /\ cache'[i].valid = cache[i].valid /\ cache'[i].lba = cache[i].lba
                          /\ cache'[i].data = cache[i].data
      BY <3>1 DEF IInv, Coherent, TypeOK, Entry
    <3> QED
      BY <3>1, <3>2
  <2>2. CASE FlushBatchFails
    BY <2>2 DEF FlushBatchFails
  <2> QED
    BY <2>1, <2>2
<1> PICK S \in SUBSET Run(f) :
        /\ Store(S, CachedData)
        /\ \A i \in Slot : /\ cache'[i].valid = cache[i].valid /\ cache'[i].lba = cache[i].lba
                           /\ cache'[i].data = cache[i].data
  BY <1>1
<1>2. Abstract!Settle
  BY <1>1, StoreSettles
<1>3. CachedData' = CachedData
  <2>1. \A l \in Lba : ~Cached(l) => l \notin S
    BY <1>1, RunIsDirty DEF DirtyLba, Cached
  <2>2. \A l \in Lba : ~Cached(l) => device'[l] = device[l]
    BY <1>1, <2>1 DEF Store, IInv, Coherent, TypeOK
  <2> QED
    BY <1>1, <2>2, SameContents
<1>4. answer' = Silence \/ answer' = [call |-> "flush", code |-> -1]
  BY DEF FlushBatch, FlushBatchFails, Return
<1> QED
  BY <1>2, <1>3, <1>4 DEF Abstract!Next, Abstract!Drift, Abstract!Fail, Abstract!Answers,
     Abstract!Silence, Silence

(* Calls that end without touching a sector.                               *)
LEMMA RefineAnswer ==
  ASSUME IInv, IInv', (\E l \in Lba : ReadHit(l)) \/ FillFails \/ FlushDeviceFails
  PROVE  Abstract!Next
<1>1. UNCHANGED <<cache, device, pending>>
  BY DEF ReadHit, FillFails, FlushDeviceFails
<1>2. CachedData' = CachedData
  BY <1>1, SameContents
<1>3. ASSUME NEW l \in Lba, ReadHit(l) PROVE Abstract!Next
  <2>1. answer' = [call |-> "read", code |-> 0, lba |-> l, data |-> CachedData[l]]
    BY <1>3, AnsweredNow DEF IInv, Answered, ReadHit, ReturnData
  <2>2. Abstract!Read(l)
    BY <1>1, <1>2, <2>1 DEF Abstract!Read
  <2> QED
    BY <2>2 DEF Abstract!Next
<1>4. CASE FillFails \/ FlushDeviceFails
  BY <1>1, <1>2, <1>4, NothingSettles
     DEF FillFails, FlushDeviceFails, Return, Abstract!Next, Abstract!Fail, Abstract!Answers
<1> QED
  BY <1>3, <1>4

(* The picked entry, which is clean, is given the sector that was missed,   *)
(* and so is the disk.                                                     *)
LEMMA FilledContents ==
  ASSUME IInv, IInv', NEW i \in Slot, NEW l \in Lba, NEW w \in Data, NEW b \in BOOLEAN, ~Dirty(i),
         cache' = [cache EXCEPT ![i] = [valid |-> TRUE, dirty |-> b, lba |-> l, data |-> w]],
         device' = device
  PROVE  CachedData' = [CachedData EXCEPT ![l] = w]
<1>1. \A j \in Slot \ {i} : cache'[j] = cache[j]
  OBVIOUS
<1>2. cache'[i] = [valid |-> TRUE, dirty |-> b, lba |-> l, data |-> w]
  BY DEF IInv, Coherent, TypeOK
<1>3. Holds(i, l)'
  BY <1>2 DEF Holds
<1>4. Answered /\ Answered'
  BY AnsweredNow, AnsweredNext DEF IInv
<1>5. CachedData'[l] = w
  BY <1>2, <1>3, <1>4 DEF Answered
<1>6. ASSUME NEW k \in Lba \ {l} PROVE CachedData'[k] = CachedData[k]
  <2>1. CASE \E j \in Slot \ {i} : Holds(j, k)
    <3>1. PICK j \in Slot \ {i} : Holds(j, k)
      BY <2>1
    <3>2. Holds(j, k)'
      BY <1>1, <3>1 DEF Holds
    <3> QED
      BY <1>1, <1>4, <3>1, <3>2 DEF Answered
  <2>2. CASE \A j \in Slot \ {i} : ~Holds(j, k)
    <3>1. ~Cached(k)'
      BY <1>1, <1>2, <2>2 DEF Cached, Holds
    <3>2. CachedData[k] = device[k]
      BY <1>4, <2>2 DEF Answered, Cached, Holds, Dirty, IInv, Coherent, CleanIsStored
    <3> QED
      BY <1>4, <3>1, <3>2 DEF Answered
  <2> QED
    BY <2>1, <2>2
<1> QED
  BY <1>5, <1>6, ContentsAre

LEMMA RefineFill ==
  ASSUME IInv, IInv', Fill
  PROVE  Abstract!Next
<1>1. PICK i \in Slot, l \in Lba : i = call.slot /\ l = call.lba
  BY CallTyped DEF IInv, Coherent, Fill, Filling
<1>2. ~Dirty(i) /\ ~Cached(l)
  BY <1>1 DEF IInv, NotYet, Fill, Filling
<1>3. /\ cache' = [cache EXCEPT ![i] =
                    [valid |-> TRUE, dirty |-> FALSE, lba |-> l, data |-> device[l]]]
      /\ answer' = [call |-> "read", code |-> 0, lba |-> l, data |-> device[l]]
      /\ device' = device /\ pending' = pending
  BY <1>1 DEF Fill, ReturnData
<1>4. CachedData[l] = device[l] /\ device[l] \in Data
  BY <1>2, AnsweredNow DEF IInv, Answered
<1>5. CachedData' = [CachedData EXCEPT ![l] = device[l]]
  BY <1>2, <1>3, <1>4, FilledContents
<1>6. CachedData' = CachedData
  BY <1>4, <1>5, ContentsAre
<1>7. Abstract!Read(l)
  BY <1>3, <1>4, <1>6 DEF Abstract!Read
<1> QED
  BY <1>7 DEF Abstract!Next

LEMMA RefineOverwrite ==
  ASSUME IInv, IInv', Overwrite
  PROVE  Abstract!Next
<1>1. PICK i \in Slot, l \in Lba, d \in Data : i = call.slot /\ l = call.lba /\ d = call.data
  BY CallTyped, WriteTyped DEF IInv, Coherent, Overwrite, Filling
<1>2. /\ cache' = [cache EXCEPT ![i] = [valid |-> TRUE, dirty |-> TRUE, lba |-> l, data |-> d]]
      /\ answer' = [call |-> "write", code |-> 0]
      /\ device' = device /\ pending' = pending /\ ~Dirty(i)
  BY <1>1 DEF Overwrite, Return
<1>3. CachedData' = [CachedData EXCEPT ![l] = d]
  BY <1>2, FilledContents
<1>4. Abstract!Write(l, d)
  BY <1>2, <1>3 DEF Abstract!Write, Abstract!Answers
<1> QED
  BY <1>4 DEF Abstract!Next

LEMMA RefineWriteHit ==
  ASSUME IInv, IInv', NEW l \in Lba, NEW d \in Data, WriteHit(l, d)
  PROVE  Abstract!Next
<1>1. PICK i \in Slot : Holds(i, l) /\ cache' = [cache EXCEPT ![i].dirty = TRUE, ![i].data = d]
  BY DEF WriteHit
<1>2. answer' = [call |-> "write", code |-> 0] /\ device' = device /\ pending' = pending
  BY DEF WriteHit, Return
<1>3. /\ \A j \in Slot : cache'[j].valid = cache[j].valid /\ cache'[j].lba = cache[j].lba
      /\ \A j \in Slot \ {i} : cache'[j] = cache[j]
      /\ cache'[i].data = d
  BY <1>1 DEF IInv, Coherent, TypeOK, Entry
<1>4. Answered /\ Answered'
  BY AnsweredNow, AnsweredNext DEF IInv
<1>5. CachedData'[l] = d
  <2>1. Holds(i, l)'
    BY <1>1, <1>3 DEF Holds
  <2> QED
    BY <1>3, <1>4, <2>1 DEF Answered
<1>6. ASSUME NEW k \in Lba \ {l} PROVE CachedData'[k] = CachedData[k]
  <2>1. CASE Cached(k)
    <3>1. PICK j \in Slot : Holds(j, k)
      BY <2>1 DEF Cached
    <3>2. j # i /\ Holds(j, k)'
      BY <1>1, <1>3, <3>1 DEF Holds
    <3> QED
      BY <1>3, <1>4, <3>1, <3>2 DEF Answered
  <2>2. CASE ~Cached(k)
    <3>1. ~Cached(k)'
      BY <1>3, <2>2 DEF Cached, Holds
    <3> QED
      BY <1>2, <1>4, <2>2, <3>1 DEF Answered
  <2> QED
    BY <2>1, <2>2
<1>7. CachedData' = [CachedData EXCEPT ![l] = d]
  BY <1>5, <1>6, ContentsAre
<1>8. Abstract!Write(l, d)
  BY <1>2, <1>7 DEF Abstract!Write, Abstract!Answers
<1> QED
  BY <1>8 DEF Abstract!Next

(* Nothing is dirty, so the device holds what is read; and what it might    *)
(* lose, it has been told to store or was known to have stored.            *)
LEMMA RefineFlushDevice ==
  ASSUME IInv, IInv', FlushDevice
  PROVE  Abstract!Next
<1>1. /\ call' = NoCall /\ answer' = [call |-> "flush", code |-> 0]
      /\ cache' = cache /\ device' = device
      /\ \A l \in Lba : ~DirtyLba(l)
      /\ pending' = [l \in Lba |-> {device[l]}] \/ (~device_dirty /\ pending' = pending)
  BY DEF FlushDevice, Return
<1>2. CachedData' = CachedData
  BY <1>1, SameContents
<1>3. \A l \in Lba : CachedData[l] = device[l]
  <2> SUFFICES ASSUME NEW l \in Lba PROVE CachedData[l] = device[l]
    OBVIOUS
  <2>1. CASE Cached(l)
    BY <1>1, <2>1, AnsweredNow
       DEF IInv, Answered, Cached, Holds, DirtyLba, Coherent, CleanIsStored
  <2>2. CASE ~Cached(l)
    BY <2>2, AnsweredNow DEF IInv, Answered
  <2> QED
    BY <2>1, <2>2
<1>4. \A l \in Lba : pending'[l] = {CachedData[l]}
  BY <1>1, <1>3 DEF IInv, Coherent, LossIsKnown
<1>5. pending' = [l \in Lba |-> {CachedData[l]}]
  BY <1>4 DEF IInv, Coherent, TypeOK
<1>6. Abstract!Flush
  BY <1>1, <1>2, <1>5 DEF Abstract!Flush, Abstract!Answers
<1> QED
  BY <1>6 DEF Abstract!Next

LEMMA RefinePowerLoss ==
  ASSUME IInv, IInv', PowerLoss
  PROVE  Abstract!Next
<1>1. /\ device' \in [Lba -> Data] /\ \A l \in Lba : device'[l] \in pending[l]
      /\ pending' = [l \in Lba |-> {device'[l]}] /\ answer' = Silence
  BY DEF PowerLoss
<1>2. \A l \in Lba : ~Cached(l)'
  BY DEF PowerLoss, IInv, Coherent, TypeOK, Entry, Cached, Holds
<1>3. \A l \in Lba : CachedData'[l] = device'[l]
  BY <1>2, AnsweredNext DEF IInv, Answered
<1>4. CachedData' = device'
  BY <1>1, <1>3, ContentsAre
<1>5. Abstract!PowerLoss
  BY <1>1, <1>4 DEF Abstract!PowerLoss, Abstract!Silence, Silence
<1> QED
  BY <1>5 DEF Abstract!Next

LEMMA RefineStutter ==
  ASSUME IInv, IInv', UNCHANGED vars
  PROVE  UNCHANGED Abstract!vars
<1>1. UNCHANGED <<cache, device, pending, answer>>
  BY DEF vars
<1>2. CachedData' = CachedData
  BY <1>1, SameContents
<1> QED
  BY <1>1, <1>2 DEF Abstract!vars

LEMMA RefineInit == Init => Abstract!Init
<1> SUFFICES ASSUME Init PROVE Abstract!Init
  OBVIOUS
<1>1. \A l \in Lba : ~Cached(l)
  BY DEF Init, Cached, Holds
<1>2. CachedData = device
  BY <1>1 DEF CachedData, Init
<1> QED
  BY <1>2 DEF Init, Abstract!Init, Abstract!Silence, Silence

LEMMA RefineNext ==
  ASSUME IInv, IInv', [Next]_vars
  PROVE  Abstract!Next \/ UNCHANGED Abstract!vars
<1>1. CASE UNCHANGED vars
  BY <1>1, RefineStutter
<1> SUFFICES ASSUME Next PROVE Abstract!Next
  BY <1>1
<1>2. CASE Evict \/ EvictFails \/ Fill \/ FillFails \/ Overwrite
  BY <1>2, RefineEvict, RefineFill, RefineAnswer, RefineOverwrite
<1>3. CASE FlushBatch \/ FlushBatchFails \/ FlushDevice \/ FlushDeviceFails \/ PowerLoss
  BY <1>3, RefineFlushBatch, RefineAnswer, RefineFlushDevice, RefinePowerLoss
<1>4. CASE Flush
  BY <1>4, RefineBegin DEF Flush
<1>5. ASSUME NEW l \in Lba, ReadHit(l) PROVE Abstract!Next
  BY <1>5, RefineAnswer
<1>6. ASSUME NEW l \in Lba, NEW i \in Slot, ReadMiss(l, i) PROVE Abstract!Next
  BY <1>6, RefineBegin DEF ReadMiss, Miss
<1>7. ASSUME NEW l \in Lba, NEW d \in Data, WriteHit(l, d) PROVE Abstract!Next
  BY <1>7, RefineWriteHit
<1>8. ASSUME NEW l \in Lba, NEW d \in Data, NEW i \in Slot, WriteMiss(l, d, i) PROVE Abstract!Next
  BY <1>8, RefineBegin DEF WriteMiss, Miss
<1> QED
  BY <1>2, <1>3, <1>4, <1>5, <1>6, <1>7, <1>8 DEF Next

(* Whatever the sizes, the cache over a disk with a write cache of its own  *)
(* is the disk the file system expects: reads answer the last write, and    *)
(* a flush that answered 0 cannot be undone by a loss of power.            *)
THEOREM CacheImplementsDisk == Spec => ImplementsDisk
<1>1. Spec => []IInv
  BY InitIInv, NextIInv, PTL DEF Spec
<1>2. IInv /\ [Next]_vars => [Abstract!Next]_(Abstract!vars)
  BY RefineNext, NextIInv
<1> QED
  BY <1>1, <1>2, RefineInit, PTL DEF Spec, ImplementsDisk, Abstract!Spec
=============================================================================
