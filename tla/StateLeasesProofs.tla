------------------------- MODULE StateLeasesProofs -------------------------
(* Proofs about StateLeases for every set of processes, requests in flight  *)
(* and lease ids and for every bound: its types and its three safety        *)
(* properties.  They rest on four facts: who waits for which request, who   *)
(* knows which lease id, what the lease table holds, and that a process     *)
(* which is inside and did not lose its lease is in that table.             *)
EXTENDS StateLeases, FiniteSetTheorems, TLAPS

Waits(c) ==
    /\ waits[c] # None => request[waits[c]] # None
    /\ renewal[c] # None => request[renewal[c]] # None
    /\ \A d \in Clients :
          /\ waits[c] # None => waits[c] # renewal[d] /\ (waits[c] = waits[d] => c = d)
          /\ renewal[c] # None /\ renewal[c] = renewal[d] => c = d

(* Every request has at most one reader, and a free place has no result.    *)
OneReader ==
    /\ \A s \in Slots : result[s] # None => request[s] # None
    /\ \A c \in Clients : Waits(c)

(* What a process waits for, and what it knows, at each point.              *)
At(c) ==
    /\ pc[c] \in {"idle", "acquiring"} => lease[c] = None
    /\ pc[c] \in {"acquiring", "uploading", "writing"} <=> waits[c] # None
    /\ pc[c] = "acquiring" => request[waits[c]].object = object[c]
    /\ pc[c] = "uploading" => count[c] < MaxWrites /\ seen[c] # Unread
    /\ pc[c] = "writing" => <<c, count[c]>> \in request[waits[c]].value

EachAt == \A c \in Clients : At(c)

(* A lease id is known to one process, or is the result of one request that *)
(* nobody has read; the id of a queued release to nobody any more.          *)
KnownOnce ==
    /\ \A c, d \in Clients : lease[c] # None /\ lease[c] = lease[d] => c = d
    /\ \A s, t \in Slots : result[s] \in LeaseIds /\ result[s] = result[t] => s = t
    /\ \A s \in Slots, c \in Clients : result[s] \in LeaseIds => lease[c] # result[s]
    /\ \A s \in Slots :
          request[s] # None /\ request[s].kind = "release" /\ request[s].lease # None =>
              /\ \A c \in Clients : lease[c] # request[s].lease
              /\ \A t \in Slots : result[t] # request[s].lease

(* The table has one entry per id and one live entry per lock, and everyone *)
(* who knows an id knows the lock it is for.                                *)
OneLeasePerLock ==
    /\ \A l, m \in leases : l.id = m.id => l = m
    /\ \A l, m \in leases : l.left > 0 /\ m.left > 0 /\ l.object = m.object => l = m
    /\ \A l \in leases :
          /\ \A c \in Clients : lease[c] = l.id => object[c] = l.object
          /\ \A s \in Slots : result[s] = l.id => request[s].object = l.object
          /\ \A s \in Slots :
                request[s] # None /\ request[s].kind = "write" /\ request[s].lease = l.id
                    => request[s].object = l.object

HoldersAreLive ==
    \A c \in Clients :
        pc[c] \in Inside /\ ~lost[c] => \E l \in leases : l.id = lease[c] /\ l.left > 0

(* Every write only adds to what it expects to find, and an acquisition     *)
(* names a lock.                                                            *)
RequestsAreSound ==
    \A s \in Slots : request[s] # None =>
        /\ request[s].expected \subseteq request[s].value
        /\ request[s].kind = "acquire" => request[s].object \in Objects

IndInv ==
    /\ TypeOK /\ IsFiniteSet(leases)
    /\ OneReader /\ EachAt /\ KnownOnce /\ OneLeasePerLock /\ HoldersAreLive
    /\ RequestsAreSound /\ AcknowledgedChangesStay

----------------------------------------------------------------------------
LEMMA SlotIsFree == Free # {} => Slot \in Slots /\ request[Slot] = None
  BY DEF Slot, Free

LEMMA NewIdIsFresh == LeaseIds \ InUse # {} => NewId \in LeaseIds /\ NewId \notin InUse
  BY DEF NewId

LEMMA RequestType ==
  ASSUME NEW kind \in Kinds, NEW o \in Objects \cup {None}, NEW id \in LeaseIds \cup {None},
         NEW expected \in SUBSET Changes, NEW value \in SUBSET Changes
  PROVE  /\ Request(kind, o, id, expected, value) \in Requests
         /\ Request(kind, o, id, expected, value) # None
  BY ConstantsAssumption DEF Request, Requests

LEMMA AcquireStep ==
  ASSUME IndInv, NEW c \in Clients, NEW o \in Objects, Acquire(c, o)
  PROVE  IndInv'
  <1> USE ConstantsAssumption DEF IndInv, queue, process, history, Acquire, Submit,
         Request
  <1>1. TypeOK' /\ IsFiniteSet(leases)'
    BY SlotIsFree, RequestType DEF TypeOK, Results, Requests, Kinds, Objects, Inside,
       Changes
  <1>2. OneReader'
    BY SlotIsFree, RequestType DEF OneReader, Waits, TypeOK, Requests, Kinds, Objects,
       Inside, Changes
  <1>3. EachAt'
    BY SlotIsFree DEF EachAt, At, OneReader, Waits, TypeOK
  <1>4. KnownOnce'
    BY SlotIsFree DEF KnownOnce, OneReader, Waits, EachAt, At, TypeOK, Requests
  <1>5. OneLeasePerLock'
    <2>1. \A l, m \in leases' : l.id = m.id => l = m
      BY DEF OneLeasePerLock
    <2>2. \A l, m \in leases' : l.left > 0 /\ m.left > 0 /\ l.object = m.object => l = m
      BY DEF OneLeasePerLock
    <2>3. ASSUME NEW l \in leases', NEW d \in Clients, lease'[d] = l.id
          PROVE  object'[d] = l.object
      <3>1. CASE d = c
        <4>1. lease'[c] = None
          BY DEF EachAt, At
        <4>2. l.id \in LeaseIds
          BY DEF Leases, TypeOK
        <4> QED
          BY <2>3, <3>1, <4>1, <4>2
      <3>2. CASE d # c
        BY <2>3, <3>2 DEF OneLeasePerLock, TypeOK
      <3> QED
        BY <3>1, <3>2
    <2>4. ASSUME NEW l \in leases', NEW s \in Slots, result'[s] = l.id
          PROVE  request'[s].object = l.object
      BY SlotIsFree, <2>4 DEF OneLeasePerLock, Leases, OneReader, TypeOK
    <2>5. ASSUME NEW l \in leases', NEW s \in Slots,
                 request'[s] # None, request'[s].kind = "write", request'[s].lease = l.id
          PROVE  request'[s].object = l.object
      BY SlotIsFree, <2>5 DEF OneLeasePerLock, OneReader, TypeOK
    <2> QED
      BY <2>1, <2>2, <2>3, <2>4, <2>5 DEF OneLeasePerLock
  <1>6. HoldersAreLive' /\ RequestsAreSound' /\ AcknowledgedChangesStay'
    BY SlotIsFree DEF HoldersAreLive, Inside, EachAt, At, TypeOK, RequestsAreSound, OneReader,
       AcknowledgedChangesStay
  <1> QED
    BY <1>1, <1>2, <1>3, <1>4, <1>5, <1>6

LEMMA ObserveStep ==
  ASSUME IndInv, NEW c \in Clients, Observe(c)
  PROVE  IndInv'
  <1> USE ConstantsAssumption DEF IndInv, queue, process, history, Observe
  <1>1. TypeOK' /\ IsFiniteSet(leases)'
    BY DEF TypeOK, Results, Requests, Kinds, Objects, Inside, Changes
  <1>2. OneReader' /\ EachAt'
    BY DEF OneReader, Waits, TypeOK, Requests, Kinds, Objects, Inside, Changes, EachAt,
       At
  <1>3. KnownOnce' /\ OneLeasePerLock'
    BY DEF KnownOnce, OneReader, Waits, EachAt, At, TypeOK, Requests, OneLeasePerLock,
       Leases
  <1>4. HoldersAreLive' /\ RequestsAreSound' /\ AcknowledgedChangesStay'
    BY DEF HoldersAreLive, Inside, EachAt, At, TypeOK, RequestsAreSound, OneReader,
       AcknowledgedChangesStay
  <1> QED
    BY <1>1, <1>2, <1>3, <1>4

LEMMA BeginWriteStep ==
  ASSUME IndInv, NEW c \in Clients, BeginWrite(c)
  PROVE  IndInv'
  <1> USE ConstantsAssumption DEF IndInv, queue, process, history, BeginWrite, Submit,
         Request
  <1>1. TypeOK' /\ IsFiniteSet(leases)'
    BY SlotIsFree, RequestType DEF TypeOK, Results, Requests, Kinds, Objects, Inside,
       Changes
  <1>2. OneReader'
    BY SlotIsFree, RequestType DEF OneReader, Waits, TypeOK, Requests, Kinds, Objects,
       Inside, Changes
  <1>3. EachAt'
    BY SlotIsFree DEF EachAt, At, OneReader, Waits, TypeOK
  <1>4. KnownOnce' /\ OneLeasePerLock'
    BY SlotIsFree DEF KnownOnce, OneReader, Waits, EachAt, At, TypeOK, Requests,
       OneLeasePerLock, Leases
  <1>5. HoldersAreLive' /\ RequestsAreSound' /\ AcknowledgedChangesStay'
    BY SlotIsFree DEF HoldersAreLive, Inside, EachAt, At, TypeOK, RequestsAreSound, OneReader,
       AcknowledgedChangesStay
  <1> QED
    BY <1>1, <1>2, <1>3, <1>4, <1>5

LEMMA WriteStep ==
  ASSUME IndInv, NEW c \in Clients, Write(c)
  PROVE  IndInv'
  <1> USE ConstantsAssumption DEF IndInv, queue, process, history, Write, Request,
         Change
  <1>0. /\ waits[c] \in Slots /\ count'[c] \in 0..MaxWrites
        /\ Request("write", object[c], lease[c], seen[c], seen[c] \cup {Change(c)}) \in Requests
    <2>1. seen[c] \in SUBSET Changes
      BY DEF TypeOK, EachAt, At
    <2>2. count[c] \in Nat /\ count[c] < MaxWrites /\ count'[c] \in 0..MaxWrites
      <3>1. pc[c] = "uploading" /\ count[c] \in 0..MaxWrites /\ count' = [count EXCEPT ![c] = @ + 1]
        BY DEF TypeOK
      <3>2. count[c] < MaxWrites
        BY <3>1 DEF EachAt, At
      <3> QED
        BY <3>1, <3>2 DEF TypeOK
    <2>3. <<c, count[c] + 1>> \in Changes
      BY <2>2 DEF Changes
    <2>4. object[c] \in Objects \cup {None} /\ lease[c] \in LeaseIds \cup {None} /\ waits[c] \in Slots
      BY DEF TypeOK, EachAt, At
    <2>5. Request("write", object[c], lease[c], seen[c], seen[c] \cup {Change(c)}) \in Requests
      <3> HIDE DEF Request
      <3> QED
        BY <2>1, <2>3, <2>4, RequestType DEF Kinds
    <2> QED
      BY <2>2, <2>4, <2>5
  <1>1. TypeOK'
    <2>1. request' \in [Slots -> Requests \cup {None}]
      <3> HIDE DEF Request
      <3> QED
        BY <1>0 DEF TypeOK
    <2>2. count' \in [Clients -> 0..MaxWrites]
      BY <1>0 DEF TypeOK
    <2> QED
      BY <2>1, <2>2 DEF TypeOK, Results, Inside
  <1>2. IsFiniteSet(leases)'
    OBVIOUS
  <1>3. OneReader'
    <2>1. request'[waits[c]] # None
      <3> HIDE DEF Request
      <3> QED
        BY <1>0 DEF TypeOK
    <2> QED
      BY <1>0, <2>1 DEF OneReader, Waits, TypeOK
  <1>4. EachAt'
    BY DEF EachAt, At, OneReader, Waits, TypeOK
  <1>5. KnownOnce' /\ OneLeasePerLock'
    BY DEF KnownOnce, OneReader, Waits, EachAt, At, TypeOK, Requests, OneLeasePerLock,
       Leases
  <1>6. HoldersAreLive' /\ RequestsAreSound' /\ AcknowledgedChangesStay'
    BY DEF HoldersAreLive, Inside, EachAt, At, TypeOK, RequestsAreSound, OneReader,
       AcknowledgedChangesStay
  <1> QED
    BY <1>1, <1>2, <1>3, <1>4, <1>5, <1>6

LEMMA GrantedStep ==
  ASSUME IndInv, NEW c \in Clients, Granted(c)
  PROVE  IndInv'
  <1> USE ConstantsAssumption DEF IndInv, queue, process, history, Granted, Consume,
         Unlost
  <1>1. TypeOK' /\ IsFiniteSet(leases)'
    BY DEF TypeOK, Results, Requests, Kinds, Objects, Inside, Changes
  <1>2. OneReader' /\ EachAt'
    BY DEF OneReader, Waits, TypeOK, Requests, Kinds, Objects, Inside, Changes, EachAt,
       At
  <1>3. KnownOnce'
    <2>1. lease' = [lease EXCEPT ![c] = result[waits[c]]] /\ waits[c] \in Slots
      BY DEF TypeOK, EachAt, At
    <2>2. ASSUME NEW d \in Clients, NEW e \in Clients, lease'[d] # None, lease'[d] = lease'[e]
          PROVE  d = e
      BY <2>1, <2>2 DEF KnownOnce, TypeOK
    <2>3. ASSUME NEW s \in Slots, NEW t \in Slots, result'[s] \in LeaseIds, result'[s] = result'[t]
          PROVE  s = t
      BY <2>1, <2>3 DEF KnownOnce, TypeOK
    <2>4. ASSUME NEW s \in Slots, NEW d \in Clients, result'[s] \in LeaseIds
          PROVE  lease'[d] # result'[s]
      BY <2>1, <2>4 DEF KnownOnce, TypeOK
    <2>5. ASSUME NEW s \in Slots,
                 request'[s] # None, request'[s].kind = "release", request'[s].lease # None
          PROVE  /\ \A d \in Clients : lease'[d] # request'[s].lease
                 /\ \A t \in Slots : result'[t] # request'[s].lease
      <3>1. s # waits[c] /\ request'[s] = request[s]
        BY <2>1, <2>5 DEF TypeOK
      <3> QED
        BY <2>1, <2>5, <3>1 DEF KnownOnce, TypeOK
    <2> QED
      BY <2>2, <2>3, <2>4, <2>5 DEF KnownOnce
  <1>4. OneLeasePerLock'
    <2>1. \A l, m \in leases' : l.id = m.id => l = m
      BY DEF OneLeasePerLock
    <2>2. \A l, m \in leases' : l.left > 0 /\ m.left > 0 /\ l.object = m.object => l = m
      BY DEF OneLeasePerLock
    <2>3. ASSUME NEW l \in leases', NEW d \in Clients, lease'[d] = l.id
          PROVE  object'[d] = l.object
      <3>1. CASE d = c
        <4>1. waits[c] \in Slots /\ result[waits[c]] = l.id /\ request[waits[c]].object = object[c]
          BY <2>3, <3>1 DEF TypeOK, EachAt, At
        <4> QED
          BY <3>1, <4>1 DEF OneLeasePerLock, TypeOK
      <3>2. CASE d # c
        BY <2>3, <3>2 DEF OneLeasePerLock, TypeOK
      <3> QED
        BY <3>1, <3>2
    <2>4. ASSUME NEW l \in leases', NEW s \in Slots, result'[s] = l.id
          PROVE  request'[s].object = l.object
      BY <2>4 DEF OneLeasePerLock, Leases, OneReader, TypeOK
    <2>5. ASSUME NEW l \in leases', NEW s \in Slots,
                 request'[s] # None, request'[s].kind = "write", request'[s].lease = l.id
          PROVE  request'[s].object = l.object
      BY <2>5 DEF OneLeasePerLock, OneReader, TypeOK
    <2> QED
      BY <2>1, <2>2, <2>3, <2>4, <2>5 DEF OneLeasePerLock
  <1>5. HoldersAreLive' /\ RequestsAreSound' /\ AcknowledgedChangesStay'
    BY DEF HoldersAreLive, Inside, EachAt, At, TypeOK, RequestsAreSound, OneReader,
       AcknowledgedChangesStay
  <1> QED
    BY <1>1, <1>2, <1>3, <1>4, <1>5

LEMMA WrittenStep ==
  ASSUME IndInv, NEW c \in Clients, Written(c)
  PROVE  IndInv'
  <1> USE ConstantsAssumption DEF IndInv, queue, process, history, Written, Consume
  <1>1. TypeOK'
    <2>1. request[waits[c]] \in Requests /\ <<c, count[c]>> \in request[waits[c]].value
      BY DEF TypeOK, EachAt, At, OneReader, Waits
    <2>2. request[waits[c]].value \in SUBSET Changes /\ <<c, count[c]>> \in Changes
      BY <2>1 DEF Requests
    <2>3. seen' \in [Clients -> (SUBSET Changes) \cup {Unread}] /\ acked' \subseteq Changes
      BY <2>2 DEF TypeOK
    <2>4. pc' \in [Clients -> Inside \cup {"idle", "acquiring"}]
      BY DEF TypeOK, Inside
    <2>5. waits' \in [Clients -> Slots \cup {None}] /\ request' \in [Slots -> Requests \cup {None}]
             /\ result' \in [Slots -> Results \cup {None}]
      BY DEF TypeOK
    <2> QED
      BY <2>3, <2>4, <2>5 DEF TypeOK
  <1>2. IsFiniteSet(leases)'
    OBVIOUS
  <1>3. OneReader' /\ EachAt'
    BY DEF OneReader, Waits, TypeOK, Requests, Kinds, Objects, Inside, Changes, EachAt,
       At
  <1>4. KnownOnce' /\ OneLeasePerLock'
    BY DEF KnownOnce, OneReader, Waits, EachAt, At, TypeOK, Requests, OneLeasePerLock,
       Leases
  <1>5. HoldersAreLive' /\ RequestsAreSound' /\ AcknowledgedChangesStay'
    BY DEF HoldersAreLive, Inside, EachAt, At, TypeOK, RequestsAreSound, OneReader,
       AcknowledgedChangesStay
  <1> QED
    BY <1>1, <1>2, <1>3, <1>4, <1>5

LEMMA RefusedStep ==
  ASSUME IndInv, NEW c \in Clients, Refused(c)
  PROVE  IndInv'
  <1> USE ConstantsAssumption DEF IndInv, queue, process, history, Refused, Consume,
         GiveUp
  <1>1. TypeOK' /\ IsFiniteSet(leases)'
    BY DEF TypeOK, Results, Requests, Kinds, Objects, Inside, Changes
  <1>2. OneReader' /\ EachAt'
    BY DEF OneReader, Waits, TypeOK, Requests, Kinds, Objects, Inside, Changes, EachAt,
       At
  <1>3. KnownOnce' /\ OneLeasePerLock'
    BY DEF KnownOnce, OneReader, Waits, EachAt, At, TypeOK, Requests, OneLeasePerLock,
       Leases
  <1>4. HoldersAreLive' /\ RequestsAreSound' /\ AcknowledgedChangesStay'
    BY DEF HoldersAreLive, Inside, EachAt, At, TypeOK, RequestsAreSound, OneReader,
       AcknowledgedChangesStay
  <1> QED
    BY <1>1, <1>2, <1>3, <1>4

LEMMA TimesOutStep ==
  ASSUME IndInv, NEW c \in Clients, TimesOut(c)
  PROVE  IndInv'
  <1> USE ConstantsAssumption DEF IndInv, queue, process, history, TimesOut, Fault,
         Forget, GiveUp
  <1>1. TypeOK' /\ IsFiniteSet(leases)'
    BY DEF TypeOK, Results, Requests, Kinds, Objects, Inside, Changes
  <1>2. OneReader' /\ EachAt'
    BY DEF OneReader, Waits, TypeOK, Requests, Kinds, Objects, Inside, Changes, EachAt,
       At
  <1>3. KnownOnce' /\ OneLeasePerLock'
    BY DEF KnownOnce, OneReader, Waits, EachAt, At, TypeOK, Requests, OneLeasePerLock,
       Leases
  <1>4. HoldersAreLive' /\ RequestsAreSound' /\ AcknowledgedChangesStay'
    BY DEF HoldersAreLive, Inside, EachAt, At, TypeOK, RequestsAreSound, OneReader,
       AcknowledgedChangesStay
  <1> QED
    BY <1>1, <1>2, <1>3, <1>4

LEMMA DropStep ==
  ASSUME IndInv, NEW c \in Clients, Drop(c)
  PROVE  IndInv'
  <1> USE ConstantsAssumption DEF IndInv, queue, process, history, Drop
  <1>1. TypeOK' /\ IsFiniteSet(leases)'
    BY DEF TypeOK, Results, Requests, Kinds, Objects, Inside, Changes
  <1>2. OneReader' /\ EachAt'
    BY DEF OneReader, Waits, TypeOK, Requests, Kinds, Objects, Inside, Changes, EachAt,
       At
  <1>3. KnownOnce' /\ OneLeasePerLock'
    BY DEF KnownOnce, OneReader, Waits, EachAt, At, TypeOK, Requests, OneLeasePerLock,
       Leases
  <1>4. HoldersAreLive' /\ RequestsAreSound' /\ AcknowledgedChangesStay'
    BY DEF HoldersAreLive, Inside, EachAt, At, TypeOK, RequestsAreSound, OneReader,
       AcknowledgedChangesStay
  <1> QED
    BY <1>1, <1>2, <1>3, <1>4

LEMMA ReleaseStep ==
  ASSUME IndInv, NEW c \in Clients, Release(c)
  PROVE  IndInv'
  <1> USE ConstantsAssumption DEF IndInv, queue, process, history, Release, Submit,
         Request, Leave
  <1>1. TypeOK' /\ IsFiniteSet(leases)'
    BY SlotIsFree, RequestType DEF TypeOK, Results, Requests, Kinds, Objects, Inside,
       Changes
  <1>2. OneReader'
    BY SlotIsFree, RequestType DEF OneReader, Waits, TypeOK, Requests, Kinds, Objects,
       Inside, Changes
  <1>3. EachAt'
    BY SlotIsFree DEF EachAt, At, OneReader, Waits, TypeOK
  <1>4. KnownOnce' /\ OneLeasePerLock'
    BY SlotIsFree DEF KnownOnce, OneReader, Waits, EachAt, At, TypeOK, Requests,
       OneLeasePerLock, Leases
  <1>5. HoldersAreLive' /\ RequestsAreSound' /\ AcknowledgedChangesStay'
    BY SlotIsFree DEF HoldersAreLive, Inside, EachAt, At, TypeOK, RequestsAreSound, OneReader,
       AcknowledgedChangesStay
  <1> QED
    BY <1>1, <1>2, <1>3, <1>4, <1>5

LEMMA ReleaseFailsStep ==
  ASSUME IndInv, NEW c \in Clients, ReleaseFails(c)
  PROVE  IndInv'
  <1> USE ConstantsAssumption DEF IndInv, queue, process, history, ReleaseFails, Fault,
         Leave
  <1>1. TypeOK' /\ IsFiniteSet(leases)'
    BY DEF TypeOK, Results, Requests, Kinds, Objects, Inside, Changes
  <1>2. OneReader' /\ EachAt'
    BY DEF OneReader, Waits, TypeOK, Requests, Kinds, Objects, Inside, Changes, EachAt,
       At
  <1>3. KnownOnce' /\ OneLeasePerLock'
    BY DEF KnownOnce, OneReader, Waits, EachAt, At, TypeOK, Requests, OneLeasePerLock,
       Leases
  <1>4. HoldersAreLive' /\ RequestsAreSound' /\ AcknowledgedChangesStay'
    BY DEF HoldersAreLive, Inside, EachAt, At, TypeOK, RequestsAreSound, OneReader,
       AcknowledgedChangesStay
  <1> QED
    BY <1>1, <1>2, <1>3, <1>4

LEMMA DieStep ==
  ASSUME IndInv, NEW c \in Clients, Die(c)
  PROVE  IndInv'
  <1> USE ConstantsAssumption DEF IndInv, queue, process, history, Die, Fault, Leave,
         Forget
  <1>1. TypeOK' /\ IsFiniteSet(leases)'
    BY DEF TypeOK, Results, Requests, Kinds, Objects, Inside, Changes
  <1>2. OneReader' /\ EachAt'
    BY DEF OneReader, Waits, TypeOK, Requests, Kinds, Objects, Inside, Changes, EachAt,
       At
  <1>3. KnownOnce' /\ OneLeasePerLock'
    BY DEF KnownOnce, OneReader, Waits, EachAt, At, TypeOK, Requests, OneLeasePerLock,
       Leases
  <1>4. HoldersAreLive' /\ RequestsAreSound' /\ AcknowledgedChangesStay'
    BY DEF HoldersAreLive, Inside, EachAt, At, TypeOK, RequestsAreSound, OneReader,
       AcknowledgedChangesStay
  <1> QED
    BY <1>1, <1>2, <1>3, <1>4

LEMMA RenewStep ==
  ASSUME IndInv, NEW c \in Clients, Renew(c)
  PROVE  IndInv'
  <1> USE ConstantsAssumption DEF IndInv, queue, process, history, Renew, Submit,
         Request
  <1>1. TypeOK' /\ IsFiniteSet(leases)'
    BY SlotIsFree, RequestType DEF TypeOK, Results, Requests, Kinds, Objects, Inside,
       Changes
  <1>2. OneReader' /\ EachAt'
    BY SlotIsFree, RequestType DEF OneReader, Waits, TypeOK, Requests, Kinds, Objects,
       Inside, Changes, EachAt, At
  <1>3. KnownOnce' /\ OneLeasePerLock'
    BY SlotIsFree DEF KnownOnce, OneReader, Waits, EachAt, At, TypeOK, Requests,
       OneLeasePerLock, Leases
  <1>4. HoldersAreLive' /\ RequestsAreSound' /\ AcknowledgedChangesStay'
    BY SlotIsFree DEF HoldersAreLive, Inside, EachAt, At, TypeOK, RequestsAreSound, OneReader,
       AcknowledgedChangesStay
  <1> QED
    BY <1>1, <1>2, <1>3, <1>4

LEMMA RenewedStep ==
  ASSUME IndInv, NEW c \in Clients, Renewed(c)
  PROVE  IndInv'
  <1> USE ConstantsAssumption DEF IndInv, queue, process, history, Renewed, Consume
  <1>1. TypeOK' /\ IsFiniteSet(leases)'
    BY DEF TypeOK, Results, Requests, Kinds, Objects, Inside, Changes
  <1>2. OneReader' /\ EachAt'
    BY DEF OneReader, Waits, TypeOK, Requests, Kinds, Objects, Inside, Changes, EachAt,
       At
  <1>3. KnownOnce' /\ OneLeasePerLock'
    BY DEF KnownOnce, OneReader, Waits, EachAt, At, TypeOK, Requests, OneLeasePerLock,
       Leases
  <1>4. HoldersAreLive' /\ RequestsAreSound' /\ AcknowledgedChangesStay'
    BY DEF HoldersAreLive, Inside, EachAt, At, TypeOK, RequestsAreSound, OneReader,
       AcknowledgedChangesStay
  <1> QED
    BY <1>1, <1>2, <1>3, <1>4

LEMMA RenewalTimesOutStep ==
  ASSUME IndInv, NEW c \in Clients, RenewalTimesOut(c)
  PROVE  IndInv'
  <1> USE ConstantsAssumption DEF IndInv, queue, process, history, RenewalTimesOut,
         Fault, Forget
  <1>1. TypeOK' /\ IsFiniteSet(leases)'
    BY DEF TypeOK, Results, Requests, Kinds, Objects, Inside, Changes
  <1>2. OneReader' /\ EachAt'
    BY DEF OneReader, Waits, TypeOK, Requests, Kinds, Objects, Inside, Changes, EachAt,
       At
  <1>3. KnownOnce' /\ OneLeasePerLock'
    BY DEF KnownOnce, OneReader, Waits, EachAt, At, TypeOK, Requests, OneLeasePerLock,
       Leases
  <1>4. HoldersAreLive' /\ RequestsAreSound' /\ AcknowledgedChangesStay'
    BY DEF HoldersAreLive, Inside, EachAt, At, TypeOK, RequestsAreSound, OneReader,
       AcknowledgedChangesStay
  <1> QED
    BY <1>1, <1>2, <1>3, <1>4

----------------------------------------------------------------------------
(* Answering a request, or failing to, takes nothing away from anybody who  *)
(* waits, as long as an id that is handed out is new.                       *)
LEMMA ReplyFacts ==
  ASSUME IndInv, NEW s \in Slots, IsQueued(s), NEW r \in Results, Reply(s, r),
         r \in LeaseIds => r \notin InUse,
         UNCHANGED <<process, count>>
  PROVE  /\ request' \in [Slots -> Requests \cup {None}]
         /\ result' \in [Slots -> Results \cup {None}]
         /\ faults' \in 0..MaxFaults
         /\ \A t \in Slots : request'[t] \in {request[t], None}
         /\ \A t \in Slots : \/ result'[t] \in {result[t], None}
                             \/ t = s /\ result'[t] = r /\ request'[t] = request[t]
         /\ OneReader' /\ EachAt' /\ KnownOnce' /\ RequestsAreSound'
  <1> USE ConstantsAssumption DEF IndInv, IsQueued, Reply, Consume, Abandoned, Fault, queue, process
  <1>1. request' \in [Slots -> Requests \cup {None}] /\ result' \in [Slots -> Results \cup {None}]
    BY DEF TypeOK
  <1>2. faults' \in 0..MaxFaults
    BY DEF TypeOK
  <1>3. \A t \in Slots : request'[t] \in {request[t], None}
    BY DEF TypeOK
  <1>4. \A t \in Slots : \/ result'[t] \in {result[t], None}
                         \/ t = s /\ result'[t] = r /\ request'[t] = request[t]
    BY DEF TypeOK
  <1>5. ASSUME NEW c \in Clients
        PROVE  /\ waits[c] # None => request'[waits[c]] = request[waits[c]]
               /\ renewal[c] # None => request'[renewal[c]] = request[renewal[c]]
    BY DEF TypeOK
  <1>6. OneReader'
    BY <1>5 DEF OneReader, Waits, TypeOK
  <1>7. EachAt'
    BY <1>5 DEF EachAt, At
  <1>8. ASSUME r \in LeaseIds
        PROVE  /\ \A c \in Clients : lease[c] # r
               /\ \A t \in Slots : result[t] # r /\ (request[t] # None => request[t].lease # r)
    BY <1>8 DEF InUse, Free
  <1>9. KnownOnce'
    <2>1. \A c, d \in Clients : lease'[c] # None /\ lease'[c] = lease'[d] => c = d
      BY DEF KnownOnce
    <2>2. \A t, u \in Slots : result'[t] \in LeaseIds /\ result'[t] = result'[u] => t = u
      BY <1>4, <1>8 DEF KnownOnce
    <2>3. \A t \in Slots, c \in Clients : result'[t] \in LeaseIds => lease'[c] # result'[t]
      BY <1>4, <1>8 DEF KnownOnce
    <2>4. ASSUME NEW t \in Slots,
                 request'[t] # None, request'[t].kind = "release", request'[t].lease # None
          PROVE  /\ \A c \in Clients : lease'[c] # request'[t].lease
                 /\ \A u \in Slots : result'[u] # request'[t].lease
      <3>1. request'[t] = request[t] /\ request[t].lease \in LeaseIds
        BY <1>3, <2>4 DEF TypeOK, Requests
      <3>2. \A c \in Clients : lease[c] # request[t].lease
        BY <2>4, <3>1 DEF KnownOnce
      <3>3. \A u \in Slots : result[u] # request[t].lease
        BY <2>4, <3>1 DEF KnownOnce
      <3> QED
        BY <1>4, <1>8, <2>4, <3>1, <3>2, <3>3
    <2> QED
      BY <2>1, <2>2, <2>3, <2>4 DEF KnownOnce
  <1>10. RequestsAreSound'
    BY <1>3 DEF RequestsAreSound
  <1> QED
    BY <1>1, <1>2, <1>3, <1>4, <1>6, <1>7, <1>9, <1>10

(* The request at t is gone, or is for what it was for.                     *)
SameRequest(t) ==
    request'[t] = None \/ /\ request[t] # None
                          /\ request'[t].kind = request[t].kind
                          /\ request'[t].lease = request[t].lease
                          /\ request'[t].object = request[t].object

(* Dropping leases, and changing how long the others live, keeps the table  *)
(* in order if no dead one is revived.                                      *)
LEMMA ChangedLeases ==
  ASSUME IndInv, UNCHANGED process, OneReader',
         NEW L \in SUBSET leases, NEW f \in [L -> Leases],
         \A l \in L : f[l].id = l.id /\ f[l].object = l.object /\ (f[l].left > 0 => l.left > 0),
         leases' = {f[l] : l \in L},
         \A t \in Slots : SameRequest(t),
         \A t \in Slots : result'[t] \in {result[t], None} \/ result'[t] \notin LeaseIds
  PROVE  /\ leases' \subseteq Leases /\ IsFiniteSet(leases') /\ Cardinality(leases') <= MaxLeases
         /\ OneLeasePerLock'
  <1> USE ConstantsAssumption DEF IndInv, process
  <1>1. IsFiniteSet(L) /\ Cardinality(L) <= Cardinality(leases)
    BY FS_Subset
  <1>2. f \in Surjection(L, leases')
    BY DEF Surjection
  <1>3. IsFiniteSet(leases') /\ Cardinality(leases') <= Cardinality(L)
    BY <1>1, <1>2, FS_Surjection
  <1>4. Cardinality(leases) \in Nat /\ Cardinality(L) \in Nat /\ Cardinality(leases') \in Nat
    BY <1>1, <1>3, FS_CardinalityType
  <1>5. leases' \subseteq Leases /\ Cardinality(leases') <= MaxLeases
    BY <1>1, <1>3, <1>4 DEF TypeOK
  <1>6. \A l \in leases' : l.id \in LeaseIds /\ l.id # None
    BY <1>5 DEF Leases
  <1>7. OneLeasePerLock'
    <2>1. \A l, m \in leases' : l.id = m.id => l = m
      BY DEF OneLeasePerLock
    <2>2. \A l, m \in leases' : l.left > 0 /\ m.left > 0 /\ l.object = m.object => l = m
      BY DEF OneLeasePerLock
    <2>3. \A l \in leases', c \in Clients : lease'[c] = l.id => object'[c] = l.object
      BY DEF OneLeasePerLock
    <2>4. ASSUME NEW l \in leases', NEW s \in Slots, result'[s] = l.id
          PROVE  request'[s].object = l.object
      <3>1. result[s] = l.id /\ request'[s].object = request[s].object
        BY <1>6, <2>4 DEF OneReader, SameRequest
      <3> QED
        BY <3>1 DEF OneLeasePerLock
    <2>5. ASSUME NEW l \in leases', NEW s \in Slots,
                 request'[s] # None, request'[s].kind = "write", request'[s].lease = l.id
          PROVE  request'[s].object = l.object
      BY <2>5 DEF OneLeasePerLock, SameRequest
    <2> QED
      BY <2>1, <2>2, <2>3, <2>4, <2>5 DEF OneLeasePerLock
  <1> QED
    BY <1>3, <1>5, <1>7

LEMMA FewerLeases ==
  ASSUME IndInv, UNCHANGED process, OneReader', leases' \subseteq leases,
         \A t \in Slots : request'[t] \in {request[t], None},
         \A t \in Slots : result'[t] \in {result[t], None} \/ result'[t] \notin LeaseIds
  PROVE  /\ leases' \subseteq Leases /\ IsFiniteSet(leases') /\ Cardinality(leases') <= MaxLeases
         /\ OneLeasePerLock'
  <1> DEFINE f == [l \in leases' |-> l]
  <1>1. f \in [leases' -> Leases] /\ leases' = {f[l] : l \in leases'}
    BY DEF IndInv, TypeOK
  <1>2. \A l \in leases' : f[l].id = l.id /\ f[l].object = l.object /\ (f[l].left > 0 => l.left > 0)
    OBVIOUS
  <1>3. \A t \in Slots : SameRequest(t)
    BY DEF SameRequest
  <1> HIDE DEF f
  <1> QED
    BY <1>1, <1>2, <1>3, ChangedLeases

(* A held lease that is not dropped stays live.                             *)
LEMMA StillLive ==
  ASSUME IndInv, UNCHANGED <<process, lost>>,
         \A l \in leases, c \in Clients :
             l.left > 0 /\ l.id = lease[c] => \E m \in leases' : m.id = l.id /\ m.left > 0
  PROVE  HoldersAreLive'
  BY DEF IndInv, HoldersAreLive, process

LEMMA ServeExpiredStep ==
  ASSUME IndInv, NEW s \in Slots, ServeExpired(s)
  PROVE  IndInv'
  <1> USE DEF ServeExpired
  <1>1. "error" \in Results /\ "error" \notin LeaseIds
    BY ConstantsAssumption DEF Results
  <1>2. UNCHANGED <<process, count, leases, file, acked, lost>>
    OBVIOUS
  <1>3. /\ request' \in [Slots -> Requests \cup {None}]
        /\ result' \in [Slots -> Results \cup {None}]
        /\ faults' \in 0..MaxFaults
        /\ \A t \in Slots : request'[t] \in {request[t], None}
        /\ \A t \in Slots : result'[t] \in {result[t], None, "error"}
        /\ OneReader' /\ EachAt' /\ KnownOnce' /\ RequestsAreSound'
    BY <1>1, <1>2, ReplyFacts
  <1>4. OneLeasePerLock'
    BY <1>1, <1>2, <1>3, FewerLeases
  <1>5. HoldersAreLive'
    BY <1>2, StillLive
  <1> QED
    BY <1>2, <1>3, <1>4, <1>5 DEF IndInv, TypeOK, process, AcknowledgedChangesStay

LEMMA ServeReleaseStep ==
  ASSUME IndInv, NEW s \in Slots, ServeRelease(s)
  PROVE  IndInv'
  <1> USE DEF ServeRelease, CanServe
  <1>1. "ok" \in Results /\ "ok" \notin LeaseIds
    BY ConstantsAssumption DEF Results
  <1>2. UNCHANGED <<process, count, file, acked, lost>> /\ leases' \subseteq leases
    BY DEF Retained
  <1>3. /\ request' \in [Slots -> Requests \cup {None}]
        /\ result' \in [Slots -> Results \cup {None}]
        /\ faults' \in 0..MaxFaults
        /\ \A t \in Slots : request'[t] \in {request[t], None}
        /\ \A t \in Slots : result'[t] \in {result[t], None, "ok"}
        /\ OneReader' /\ EachAt' /\ KnownOnce' /\ RequestsAreSound'
    BY <1>1, <1>2, ReplyFacts
  <1>4. /\ leases' \subseteq Leases /\ IsFiniteSet(leases') /\ Cardinality(leases') <= MaxLeases
        /\ OneLeasePerLock'
    BY <1>1, <1>2, <1>3, FewerLeases
  <1>5. ASSUME NEW l \in leases, NEW c \in Clients, l.left > 0, l.id = lease[c]
        PROVE  \E m \in leases' : m.id = l.id /\ m.left > 0
    <2>1. l.id \in LeaseIds /\ l.id # None
      BY ConstantsAssumption DEF IndInv, TypeOK, Leases
    <2>2. request[s].lease # l.id
      BY <1>5, <2>1 DEF IndInv, KnownOnce, IsQueued
    <2> QED
      BY <1>5, <2>2 DEF Retained
  <1>6. HoldersAreLive'
    BY <1>2, <1>5, StillLive
  <1> QED
    BY <1>2, <1>3, <1>4, <1>6 DEF IndInv, TypeOK, process, AcknowledgedChangesStay

LEMMA ServeWriteStep ==
  ASSUME IndInv, NEW s \in Slots, ServeWrite(s)
  PROVE  IndInv'
  <1> USE DEF ServeWrite, CanServe
  <1>1. {"ok", "error"} \subseteq Results /\ "ok" \notin LeaseIds /\ "error" \notin LeaseIds
    BY ConstantsAssumption DEF Results
  <1>2. UNCHANGED <<process, count, acked, lost>> /\ leases' \subseteq leases
    BY DEF Retained
  <1>3. PICK reply \in {"ok", "error"} : Reply(s, reply)
    OBVIOUS
  <1>4. /\ request' \in [Slots -> Requests \cup {None}]
        /\ result' \in [Slots -> Results \cup {None}]
        /\ faults' \in 0..MaxFaults
        /\ \A t \in Slots : request'[t] \in {request[t], None}
        /\ \A t \in Slots : result'[t] \in {result[t], None, reply}
        /\ OneReader' /\ EachAt' /\ KnownOnce' /\ RequestsAreSound'
    BY <1>1, <1>2, <1>3, ReplyFacts
  <1>5. /\ leases' \subseteq Leases /\ IsFiniteSet(leases') /\ Cardinality(leases') <= MaxLeases
        /\ OneLeasePerLock'
    BY <1>1, <1>2, <1>4, FewerLeases
  <1>6. HoldersAreLive'
    BY <1>2, StillLive DEF Retained
  <1>7. file \subseteq file' /\ file' \subseteq Changes
    <2>1. request[s] \in Requests /\ request[s].expected \subseteq request[s].value
      BY DEF IndInv, TypeOK, RequestsAreSound, IsQueued
    <2> QED
      BY <2>1 DEF Requests, MayReplace, IndInv, TypeOK
  <1> QED
    BY <1>2, <1>4, <1>5, <1>6, <1>7 DEF IndInv, TypeOK, process, AcknowledgedChangesStay


LEMMA ServeRenewStep ==
  ASSUME IndInv, NEW s \in Slots, ServeRenew(s)
  PROVE  IndInv'
  <1> USE DEF ServeRenew, CanServe
  <1> DEFINE Renewal(l) == IF l.id = request[s].lease THEN [l EXCEPT !.left = LeaseTime] ELSE l
             f == [l \in Retained |-> Renewal(l)]
  <1>1. {"ok", "error"} \subseteq Results /\ "ok" \notin LeaseIds /\ "error" \notin LeaseIds
    BY ConstantsAssumption DEF Results
  <1>2. UNCHANGED <<process, count, file, acked, lost>> /\ leases' = {Renewal(l) : l \in Retained}
    OBVIOUS
  <1>3. PICK reply \in {"ok", "error"} : Reply(s, reply)
    OBVIOUS
  <1>4. /\ request' \in [Slots -> Requests \cup {None}]
        /\ result' \in [Slots -> Results \cup {None}]
        /\ faults' \in 0..MaxFaults
        /\ \A t \in Slots : request'[t] \in {request[t], None}
        /\ \A t \in Slots : result'[t] \in {result[t], None, reply}
        /\ OneReader' /\ EachAt' /\ KnownOnce' /\ RequestsAreSound'
    BY <1>1, <1>2, <1>3, ReplyFacts
  <1>5. Retained \in SUBSET leases /\ \A l \in Retained : l \in Leases /\ l.left > 0
    BY DEF Retained, IndInv, TypeOK
  <1>6. \A l \in Retained : /\ Renewal(l) \in Leases
                            /\ Renewal(l).id = l.id /\ Renewal(l).object = l.object
                            /\ Renewal(l).left > 0
    BY <1>5, ConstantsAssumption DEF Leases
  <1>7. /\ f \in [Retained -> Leases] /\ leases' = {f[l] : l \in Retained}
        /\ \A l \in Retained : f[l].id = l.id /\ f[l].object = l.object /\ (f[l].left > 0 => l.left > 0)
    BY <1>2, <1>5, <1>6
  <1>8. /\ \A t \in Slots : SameRequest(t)
        /\ \A t \in Slots : result'[t] \in {result[t], None} \/ result'[t] \notin LeaseIds
    BY <1>1, <1>4 DEF SameRequest
  <1> HIDE DEF f
  <1>9. /\ leases' \subseteq Leases /\ IsFiniteSet(leases') /\ Cardinality(leases') <= MaxLeases
        /\ OneLeasePerLock'
    <2> HIDE DEF ServeRenew
    <2> QED
      BY <1>2, <1>4, <1>5, <1>7, <1>8, ChangedLeases
  <1>10. HoldersAreLive'
    <2>1. ASSUME NEW l \in leases, NEW c \in Clients, l.left > 0, l.id = lease[c]
          PROVE  \E m \in leases' : m.id = l.id /\ m.left > 0
      <3>1. l \in Retained
        BY <2>1 DEF Retained
      <3>2. Renewal(l) \in leases'
        BY <1>2, <3>1
      <3>3. Renewal(l).id = l.id /\ Renewal(l).left > 0
        BY <1>6, <3>1
      <3> QED
        BY <3>2, <3>3
    <2> QED
      BY <1>2, <2>1, StillLive
  <1> QED
    BY <1>2, <1>4, <1>9, <1>10 DEF IndInv, TypeOK, process, AcknowledgedChangesStay

LEMMA OneMore ==
  ASSUME NEW S, NEW x, NEW T, IsFiniteSet(S), T = S \cup {x}
  PROVE  IsFiniteSet(T) /\ Cardinality(T) <= Cardinality(S) + 1
  <1>1. Cardinality(S) \in Nat
    BY FS_CardinalityType
  <1>2. IsFiniteSet(S \cup {x}) /\ Cardinality(S \cup {x}) \in {Cardinality(S), Cardinality(S) + 1}
    BY FS_AddElement
  <1> QED
    BY <1>1, <1>2

(* A grant puts a new id into the table, for a lock nobody has.             *)
LEMMA ServeAcquireStep ==
  ASSUME IndInv, NEW s \in Slots, ServeAcquire(s)
  PROVE  IndInv'
  <1> USE DEF ServeAcquire, CanServe
  <1> DEFINE o == request[s].object
  <1>1. UNCHANGED <<process, count, file, acked, lost>>
    OBVIOUS
  <1>2. NewId \in LeaseIds /\ NewId \notin InUse
    BY NewIdIsFresh
  <1>3. {"ok", "error"} \subseteq Results /\ "error" \notin LeaseIds /\ NewId \in Results
    BY <1>2, ConstantsAssumption DEF Results
  <1>4. CASE ~IsFree(o)
    <2>1. leases' \subseteq leases /\ leases' = Retained /\ Reply(s, "error")
      BY <1>4 DEF Retained
    <2>2. /\ request' \in [Slots -> Requests \cup {None}]
          /\ result' \in [Slots -> Results \cup {None}]
          /\ faults' \in 0..MaxFaults
          /\ \A t \in Slots : request'[t] \in {request[t], None}
          /\ \A t \in Slots : result'[t] \in {result[t], None, "error"}
          /\ OneReader' /\ EachAt' /\ KnownOnce' /\ RequestsAreSound'
      BY <1>1, <1>3, <2>1, ReplyFacts
    <2>3. /\ leases' \subseteq Leases /\ IsFiniteSet(leases') /\ Cardinality(leases') <= MaxLeases
          /\ OneLeasePerLock'
      BY <1>1, <1>3, <2>1, <2>2, FewerLeases
    <2>4. HoldersAreLive'
      BY <1>1, <2>1, StillLive DEF Retained
    <2> QED
      BY <1>1, <2>2, <2>3, <2>4 DEF IndInv, TypeOK, process, AcknowledgedChangesStay
  <1>5. CASE IsFree(o)
    <2> DEFINE new == [id |-> NewId, object |-> o, left |-> LeaseTime]
    <2>1. leases' = Retained \cup {new} /\ Reply(s, NewId)
      BY <1>5
    <2>2. /\ request' \in [Slots -> Requests \cup {None}]
          /\ result' \in [Slots -> Results \cup {None}]
          /\ faults' \in 0..MaxFaults
          /\ \A t \in Slots : request'[t] \in {request[t], None}
          /\ \A t \in Slots : \/ result'[t] \in {result[t], None}
                              \/ t = s /\ result'[t] = NewId /\ request'[t] = request[t]
          /\ OneReader' /\ EachAt' /\ KnownOnce' /\ RequestsAreSound'
      BY <1>1, <1>2, <1>3, <2>1, ReplyFacts
    <2>3. Retained \subseteq leases /\ leases \subseteq Leases /\ IsFiniteSet(leases)
      BY DEF Retained, IndInv, TypeOK
    <2>4. o \in Objects /\ request[s] \in Requests
      BY DEF IndInv, TypeOK, RequestsAreSound, IsQueued
    <2>5. new \in Leases /\ LeaseTime > 0
      BY <1>2, <2>4, ConstantsAssumption DEF Leases
    <2>6. leases' \subseteq Leases
      BY <2>1, <2>3, <2>5
    <2>7. IsFiniteSet(leases') /\ Cardinality(leases') <= MaxLeases
      <3>1. IsFiniteSet(Retained) /\ Cardinality(Retained) \in Nat
        BY <2>3, FS_Subset, FS_CardinalityType
      <3>2. IsFiniteSet(leases') /\ Cardinality(leases') <= Cardinality(Retained) + 1
        <4> HIDE DEF new, ServeAcquire
        <4>1. leases' = Retained \cup {new} /\ IsFiniteSet(Retained)
          BY <2>1, <3>1
        <4> QED
          BY <4>1, OneMore
      <3>3. Cardinality(leases') \in Nat /\ Cardinality(Retained) < MaxLeases
        BY <1>5, <3>2, FS_CardinalityType DEF IsFree
      <3> QED
        BY <3>1, <3>2, <3>3, ConstantsAssumption
    <2>8. OneLeasePerLock'
      <3>1. /\ \A l \in leases : l.id # NewId
            /\ \A c \in Clients : lease'[c] # NewId
            /\ \A t \in Slots : result[t] # NewId
            /\ \A t \in Slots : request[t] # None => request[t].lease # NewId
        BY <1>1, <1>2 DEF InUse, Free, process
      <3>2. \A l, m \in leases' : l.id = m.id => l = m
        BY <2>1, <2>3, <3>1 DEF IndInv, OneLeasePerLock
      <3>3. \A l, m \in leases' : l.left > 0 /\ m.left > 0 /\ l.object = m.object => l = m
        BY <1>5, <2>1, <2>3 DEF IsFree, IndInv, OneLeasePerLock
      <3>4. ASSUME NEW l \in leases', NEW c \in Clients, lease'[c] = l.id
            PROVE  object'[c] = l.object
        BY <1>1, <2>1, <2>3, <3>1, <3>4 DEF IndInv, OneLeasePerLock, process
      <3>5. ASSUME NEW l \in leases', NEW t \in Slots, result'[t] = l.id
            PROVE  request'[t].object = l.object
        <4>1. l.id # None /\ request'[t] = request[t]
          BY <2>2, <2>6, <3>5, ConstantsAssumption DEF Leases, OneReader
        <4>2. CASE result'[t] = result[t]
          <5>1. l.id # NewId
            BY <3>1, <3>5, <4>2
          <5>2. l \in leases
            BY <2>1, <2>3, <5>1
          <5>3. \A k \in leases, u \in Slots : result[u] = k.id => request[u].object = k.object
            BY DEF IndInv, OneLeasePerLock
          <5> QED
            BY <3>5, <4>1, <4>2, <5>2, <5>3
        <4>3. CASE t = s /\ result'[t] = NewId
          BY <2>1, <2>3, <3>1, <3>5, <4>1, <4>3
        <4> QED
          BY <2>2, <3>5, <4>1, <4>2, <4>3
      <3>6. ASSUME NEW l \in leases', NEW t \in Slots,
                   request'[t] # None, request'[t].kind = "write", request'[t].lease = l.id
            PROVE  request'[t].object = l.object
        <4>1. request'[t] = request[t]
          BY <2>2, <3>6
        <4>2. l \in leases
          BY <2>1, <2>3, <3>1, <3>6, <4>1
        <4> QED
          BY <3>6, <4>1, <4>2 DEF IndInv, OneLeasePerLock
      <3> QED
        BY <3>2, <3>3, <3>4, <3>5, <3>6 DEF OneLeasePerLock
    <2>9. HoldersAreLive'
      BY <1>1, <2>1, StillLive DEF Retained
    <2> QED
      BY <1>1, <2>2, <2>6, <2>7, <2>8, <2>9 DEF IndInv, TypeOK, process, AcknowledgedChangesStay
  <1> QED
    BY <1>4, <1>5

LEMMA RestartStep ==
  ASSUME IndInv, Restart
  PROVE  IndInv'
  <1> USE DEF Restart, Fault
  <1>1. UNCHANGED <<queue, process, file, count, acked>> /\ leases' = {}
    OBVIOUS
  <1>2. OneReader' /\ EachAt' /\ KnownOnce' /\ RequestsAreSound'
    BY <1>1 DEF IndInv, OneReader, Waits, EachAt, At, KnownOnce, RequestsAreSound, queue, process
  <1>3. /\ leases' \subseteq Leases /\ IsFiniteSet(leases') /\ Cardinality(leases') <= MaxLeases
        /\ OneLeasePerLock'
    BY <1>1, <1>2, FewerLeases DEF queue
  <1>4. HoldersAreLive'
    BY <1>1 DEF HoldersAreLive, process, IndInv, TypeOK
  <1>5. lost' \in [Clients -> BOOLEAN] /\ faults' \in 0..MaxFaults
    BY ConstantsAssumption DEF IndInv, TypeOK, Inside
  <1> QED
    BY <1>1, <1>2, <1>3, <1>4, <1>5 DEF IndInv, TypeOK, queue, process, AcknowledgedChangesStay

LEMMA OlderFacts ==
  ASSUME NEW n \in Nat
  PROVE  Older(n) \in Nat /\ Older(n) <= n /\ (n > 1 => Older(n) > 0) /\ (Older(n) > 0 => n > 0)
  BY DEF Older

LEMMA TickStep ==
  ASSUME IndInv, Tick
  PROVE  IndInv'
  <1> DEFINE Aged(l) == [l EXCEPT !.left = Older(@)]
             f == [l \in leases |-> Aged(l)]
  <1>1. /\ UNCHANGED <<result, file, process, count, acked>>
        /\ leases' = {Aged(l) : l \in leases}
    BY DEF Tick
  <1>2. \A l \in leases : /\ Aged(l) \in Leases /\ l.left \in Nat
                          /\ Aged(l).id = l.id /\ Aged(l).object = l.object
                          /\ (Aged(l).left > 0 => l.left > 0) /\ (l.left > 1 => Aged(l).left > 0)
    BY OlderFacts, ConstantsAssumption DEF IndInv, TypeOK, Leases
  <1>3. /\ request' \in [Slots -> Requests \cup {None}]
        /\ \A t \in Slots : /\ request'[t] = None <=> request[t] = None
                            /\ request[t] # None =>
                                  /\ request'[t].kind = request[t].kind
                                  /\ request'[t].lease = request[t].lease
                                  /\ request'[t].object = request[t].object
                                  /\ request'[t].expected = request[t].expected
                                  /\ request'[t].value = request[t].value
    <2> DEFINE older(t) == [request[t] EXCEPT !.left = Older(@)]
    <2>1. ASSUME NEW t \in Slots, request[t] # None
          PROVE  /\ older(t) \in Requests /\ older(t) # None
                 /\ older(t).kind = request[t].kind /\ older(t).lease = request[t].lease
                 /\ older(t).object = request[t].object
                 /\ older(t).expected = request[t].expected /\ older(t).value = request[t].value
      <3>1. request[t] \in Requests
        BY <2>1 DEF IndInv, TypeOK
      <3>2. Older(request[t].left) \in 0..Lifetime
        BY <3>1, OlderFacts, ConstantsAssumption DEF Requests
      <3>3. older(t) \in Requests
        BY <3>1, <3>2 DEF Requests
      <3> QED
        BY <3>1, <3>3, ConstantsAssumption DEF Requests
    <2>2. request' = [t \in Slots |-> IF t \in Waiting THEN older(t) ELSE request[t]]
      BY DEF Tick
    <2>3. \A t \in Waiting : request[t] # None
      BY DEF Waiting, IsQueued
    <2>4. request \in [Slots -> Requests \cup {None}]
      BY DEF IndInv, TypeOK
    <2> HIDE DEF older
    <2> QED
      BY <2>1, <2>2, <2>3, <2>4
  <1>4. OneReader'
    BY <1>1, <1>3 DEF IndInv, OneReader, Waits, process, TypeOK
  <1>5. EachAt'
    <2>1. \A c \in Clients : waits[c] # None => waits[c] \in Slots /\ request[waits[c]] # None
      BY DEF IndInv, TypeOK, OneReader, Waits
    <2> QED
      BY <1>1, <1>3, <2>1 DEF IndInv, EachAt, At, process
  <1>6. KnownOnce'
    BY <1>1, <1>3 DEF IndInv, KnownOnce, process
  <1>7. RequestsAreSound'
    BY <1>3 DEF IndInv, RequestsAreSound
  <1>8. /\ f \in [leases -> Leases] /\ leases' = {f[l] : l \in leases}
        /\ \A l \in leases : f[l].id = l.id /\ f[l].object = l.object /\ (f[l].left > 0 => l.left > 0)
    BY <1>1, <1>2
  <1>9. \A t \in Slots : SameRequest(t)
    BY <1>3 DEF SameRequest
  <1>10. \A t \in Slots : result'[t] \in {result[t], None}
    BY <1>1
  <1> HIDE DEF f
  <1>11. /\ leases' \subseteq Leases /\ IsFiniteSet(leases') /\ Cardinality(leases') <= MaxLeases
         /\ OneLeasePerLock'
    BY <1>1, <1>4, <1>8, <1>9, <1>10, ChangedLeases
  <1>12. HoldersAreLive'
    <2>1. ASSUME NEW c \in Clients, pc'[c] \in Inside, ~lost'[c]
          PROVE  \E m \in leases' : m.id = lease'[c] /\ m.left > 0
      <3>1. pc[c] \in Inside /\ lease'[c] = lease[c]
        BY <1>1, <2>1 DEF process
      <3>2. ~lost[c] /\ \A l \in leases : l.id = lease[c] => ~(l.left <= 1)
        BY <2>1 DEF Tick, IndInv, TypeOK
      <3>3. PICK l \in leases : l.id = lease[c] /\ l.left > 0
        BY <3>1, <3>2 DEF IndInv, HoldersAreLive
      <3>4. Aged(l) \in leases'
        BY <1>1
      <3>5. l.left > 1
        <4>1. l.left \in Nat
          BY <3>3, ConstantsAssumption DEF IndInv, TypeOK, Leases
        <4>2. ~(l.left <= 1)
          BY <3>2, <3>3
        <4> QED
          BY <4>1, <4>2
      <3>6. Aged(l).id = l.id /\ Aged(l).left > 0
        BY <1>2, <3>5
      <3> QED
        BY <3>1, <3>3, <3>4, <3>6
    <2> QED
      BY <2>1 DEF HoldersAreLive
  <1>13. lost' \in [Clients -> BOOLEAN] /\ faults' \in 0..MaxFaults
    BY ConstantsAssumption DEF Tick, Fault, IndInv, TypeOK
  <1> QED
    BY <1>1, <1>3, <1>4, <1>5, <1>6, <1>7, <1>11, <1>12, <1>13
       DEF IndInv, TypeOK, process, AcknowledgedChangesStay

----------------------------------------------------------------------------
LEMMA InitIndInv == Init => IndInv
  <1> SUFFICES ASSUME Init PROVE IndInv
    OBVIOUS
  <1> USE ConstantsAssumption DEF Init
  <1>1. IsFiniteSet({}) /\ Cardinality({}) = 0
    BY FS_EmptySet
  <1>2. TypeOK
    BY <1>1 DEF TypeOK, Results, Changes
  <1>3. OneReader /\ EachAt
    BY DEF OneReader, Waits, EachAt, At
  <1>4. KnownOnce /\ OneLeasePerLock /\ HoldersAreLive /\ RequestsAreSound /\ AcknowledgedChangesStay
    BY DEF KnownOnce, OneLeasePerLock, HoldersAreLive, Inside, RequestsAreSound, AcknowledgedChangesStay
  <1> QED
    BY <1>1, <1>2, <1>3, <1>4 DEF IndInv

LEMMA NextIndInv == IndInv /\ [Next]_vars => IndInv'
  <1> SUFFICES ASSUME IndInv, [Next]_vars PROVE IndInv'
    OBVIOUS
  <1>1. ASSUME NEW c \in Clients, Process(c) PROVE IndInv'
    BY <1>1, AcquireStep, ObserveStep, BeginWriteStep, WriteStep, GrantedStep, WrittenStep,
       RefusedStep, DropStep, ReleaseStep, RenewStep, RenewedStep DEF Process
  <1>2. ASSUME NEW c \in Clients, TimesOut(c) \/ ReleaseFails(c) \/ Die(c) \/ RenewalTimesOut(c)
        PROVE  IndInv'
    BY <1>2, TimesOutStep, ReleaseFailsStep, DieStep, RenewalTimesOutStep
  <1>3. ASSUME NEW s \in Slots, Executes(s) PROVE IndInv'
    BY <1>3, ServeExpiredStep, ServeAcquireStep, ServeReleaseStep, ServeRenewStep,
       ServeWriteStep DEF Executes
  <1>4. CASE UNCHANGED vars
    BY <1>4 DEF vars, queue, process, history, IndInv, TypeOK, OneReader, Waits, EachAt, At,
       KnownOnce, OneLeasePerLock, HoldersAreLive, RequestsAreSound, AcknowledgedChangesStay
  <1> QED
    BY <1>1, <1>2, <1>3, <1>4, RestartStep, TickStep DEF Next

(* The inductive invariant, and with it each of the four facts, always holds.*)
THEOREM Invariance == Spec => []IndInv
  BY InitIndInv, NextIndInv, PTL DEF Spec

(* Every variable keeps its type, and the lease table its limit, for any    *)
(* processes, requests in flight, lease ids and bounds.                     *)
THEOREM TypeCorrect == Spec => []TypeOK
  <1>1. IndInv => TypeOK
    BY DEF IndInv
  <1> QED
    BY <1>1, Invariance, PTL

(* A change the client was told is written stays in the goal file, whatever *)
(* is executed late or twice, lost or forgotten, and however many holders   *)
(* of the two locks write at a time.                                        *)
THEOREM ChangesSafe == Spec => []AcknowledgedChangesStay
  <1>1. IndInv => AcknowledgedChangesStay
    BY DEF IndInv
  <1> QED
    BY <1>1, Invariance, PTL

(* Two processes that are inside one lock and lost no lease have live       *)
(* leases of it, so they have the same one, and an id is known once.        *)
THEOREM ExclusionSafe == Spec => []ExclusiveUnlessLost
  <1>1. ASSUME IndInv, NEW c \in Clients, NEW d \in Clients,
               pc[c] \in Inside, pc[d] \in Inside, object[c] = object[d], ~lost[c], ~lost[d]
        PROVE  c = d
    <2>1. PICK l \in leases : l.id = lease[c] /\ l.left > 0
      BY <1>1 DEF IndInv, HoldersAreLive
    <2>2. PICK m \in leases : m.id = lease[d] /\ m.left > 0
      BY <1>1 DEF IndInv, HoldersAreLive
    <2>3. l.object = object[c] /\ m.object = object[d]
      BY <1>1, <2>1, <2>2 DEF IndInv, OneLeasePerLock
    <2>4. l = m
      BY <1>1, <2>1, <2>2, <2>3 DEF IndInv, OneLeasePerLock
    <2>5. l.id # None
      BY <1>1, ConstantsAssumption DEF IndInv, TypeOK, Leases
    <2> QED
      BY <1>1, <2>1, <2>2, <2>4, <2>5 DEF IndInv, KnownOnce
  <1>2. IndInv => ExclusiveUnlessLost
    BY <1>1 DEF ExclusiveUnlessLost
  <1> QED
    BY <1>2, Invariance, PTL

(* Only ServeWrite changes the file, under a live lease of the lock the     *)
(* write was asked for under; any other holder of that lock has lost its.   *)
LEMMA FileStep ==
  ASSUME [Next]_vars, file' # file
  PROVE  \E s \in Slots : ServeWrite(s)
  <1>1. ASSUME NEW c \in Clients,
               Process(c) \/ TimesOut(c) \/ ReleaseFails(c) \/ Die(c) \/ RenewalTimesOut(c)
        PROVE  FALSE
    BY <1>1 DEF Process, Acquire, Observe, BeginWrite, Write, Granted, Written, Refused, TimesOut,
       GiveUp, Drop, Release, ReleaseFails, Die, Renew, Renewed, RenewalTimesOut
  <1>2. ASSUME NEW s \in Slots, Executes(s) PROVE ServeWrite(s)
    BY <1>2 DEF Executes, ServeExpired, ServeAcquire, ServeRelease, ServeRenew
  <1> QED
    BY <1>1, <1>2 DEF Next, Restart, Tick, vars

THEOREM WritesSafe == Spec => WritesAreFenced
  <1>1. ASSUME IndInv, NEW s \in Slots, ServeWrite(s), file' # file
        PROVE  IsQueued(s) /\ request[s].kind = "write" /\ request[s].value = file'
    BY <1>1 DEF ServeWrite, CanServe
  <1>2. ASSUME IndInv, NEW s \in Slots, ServeWrite(s), file' # file,
               NEW c \in Clients, pc[c] \in Inside, object[c] = request[s].object,
               lease[c] # request[s].lease, ~lost[c]
        PROVE  FALSE
    <2>1. PICK l \in leases : l.id = request[s].lease /\ l.left > 0
      BY <1>2 DEF ServeWrite, Covers, Retained
    <2>2. PICK m \in leases : m.id = lease[c] /\ m.left > 0
      BY <1>2 DEF IndInv, HoldersAreLive
    <2>3. l.object = request[s].object
      BY <1>1, <1>2, <2>1 DEF IndInv, OneLeasePerLock, IsQueued
    <2>4. m.object = object[c]
      BY <1>2, <2>2 DEF IndInv, OneLeasePerLock
    <2>5. l = m
      BY <1>2, <2>1, <2>2, <2>3, <2>4 DEF IndInv, OneLeasePerLock
    <2> QED
      BY <1>2, <2>1, <2>2, <2>5
  <1> DEFINE Step == file' # file =>
                \E s \in Slots : /\ IsQueued(s) /\ request[s].kind = "write"
                                 /\ request[s].value = file' /\ Fenced(request[s])
  <1>3. IndInv /\ [Next]_vars => [Step]_vars
    BY <1>1, <1>2, FileStep DEF Fenced
  <1> QED
    BY <1>3, Invariance, PTL DEF Spec, WritesAreFenced
=============================================================================
