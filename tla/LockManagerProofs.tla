-------------------------- MODULE LockManagerProofs --------------------------
(***************************************************************************)
(* Proofs about LockManager, for any threads and any paths.                *)
(***************************************************************************)
EXTENDS LockManager, SequenceTheorems, TLAPS

(* The places where a thread has found its item, and has its lock.         *)
AtItem == {"address", "lock", "inside", "unlock"}
Holding == {"inside", "unlock"}

(* pathListMutex excludes: it is held by the one thread that searches or   *)
(* appends.                                                                *)
ListInv ==
  /\ \A t \in Threads : t \in list <=> pc[t] \in {"search", "append"}
  /\ \A t, u \in list : t = u

(* The array: room for an item, no path twice, none that is being added.   *)
ArrayInv ==
  /\ Len(mutex) = Len(path)
  /\ Len(path) <= capacity - 1
  /\ OneMutexPerPath
  /\ \A t \in Threads : pc[t] = "append" =>
       /\ ~Has(key[t])
       /\ Len(path) <= capacity - 2

(* Indices stay good: the array only grows at its end.                     *)
SlotInv ==
  \A t \in Threads : pc[t] \in AtItem =>
    slot[t] \in 1 .. Len(path) /\ path[slot[t]] = key[t]

(* Until a move catches a thread, every address in use is good and one     *)
(* thread has each lock.                                                   *)
Held ==
  /\ \A t \in Threads : pc[t] \in {"lock", "unlock"} => addr[t] = block
  /\ \A t \in Threads : pc[t] \in Holding => mutex[slot[t]] = "locked"
  /\ \A t, u \in Threads :
       pc[t] \in Holding /\ pc[u] \in Holding /\ slot[t] = slot[u] => t = u
HeldInv == caught = {} => Held

IInv == TypeOK /\ ListInv /\ ArrayInv /\ SlotInv

-----------------------------------------------------------------------------
(* What appending an item, and locking or unlocking one, make of the array.*)
LEMMA AppendedItem ==
  ASSUME TypeOK, Len(mutex) = Len(path), NEW k \in Keys,
         path' = Append(path, k), mutex' = Append(mutex, "locked")
  PROVE  /\ path' \in Seq(Keys) /\ mutex' \in Seq({"free", "locked"})
         /\ Len(path') = Len(path) + 1 /\ Len(mutex') = Len(path')
         /\ \A i \in 1 .. Len(path) : path'[i] = path[i] /\ mutex'[i] = mutex[i]
         /\ path'[Len(path) + 1] = k /\ mutex'[Len(path) + 1] = "locked"
<1>1. path \in Seq(Keys) /\ mutex \in Seq({"free", "locked"})
  BY DEF TypeOK
<1>2. /\ path' \in Seq(Keys) /\ Len(path') = Len(path) + 1
      /\ \A i \in 1 .. Len(path) : path'[i] = path[i]
      /\ path'[Len(path) + 1] = k
  BY <1>1, AppendProperties
<1>3. /\ mutex' \in Seq({"free", "locked"}) /\ Len(mutex') = Len(mutex) + 1
      /\ \A i \in 1 .. Len(mutex) : mutex'[i] = mutex[i]
      /\ mutex'[Len(mutex) + 1] = "locked"
  BY <1>1, AppendProperties
<1>4. QED
  BY <1>2, <1>3

(* Locking or unlocking one item leaves the others alone.                 *)
LEMMA SetItem ==
  ASSUME TypeOK, Len(mutex) = Len(path), NEW i \in 1 .. Len(path),
         NEW b \in {"free", "locked"}, mutex' = [mutex EXCEPT ![i] = b]
  PROVE  /\ mutex' \in Seq({"free", "locked"}) /\ Len(mutex') = Len(mutex)
         /\ \A j \in 1 .. Len(path) :
              mutex'[j] = IF j = i THEN b ELSE mutex[j]
  BY ExceptSeq DEF TypeOK

(* initArray starts from an empty array with room for an item and with no  *)
(* thread in takeLock.                                                     *)
LEMMA InitIInv == Init => IInv
  BY DEF Init, IInv, TypeOK, ListInv, ArrayInv, SlotInv, OneMutexPerPath,
         AtItem, Labels, Has

(* No step of takeLock or unlockLock takes a variable out of its type.     *)
LEMMA NextTypeOK ==
  ASSUME IInv, [Next]_lvars PROVE TypeOK'
<1> USE DEF IInv, TypeOK, Labels, Goto
<1>1. ASSUME NEW t \in Threads, NEW k \in Keys, TakeLock(t, k) PROVE TypeOK'
  BY <1>1 DEF TakeLock
<1>2. ASSUME NEW t \in Threads, LockList(t) PROVE TypeOK'
  BY <1>2 DEF LockList
<1>3. ASSUME NEW t \in Threads, Found(t) PROVE TypeOK'
  BY <1>3 DEF Found
<1>4. ASSUME NEW t \in Threads, Grow(t) PROVE TypeOK'
  BY <1>4 DEF Grow, Full
<1>5. ASSUME NEW t \in Threads, AppendItem(t) PROVE TypeOK'
  BY <1>5, AppendedItem DEF AppendItem, ArrayInv
<1>6. ASSUME NEW t \in Threads, Address(t) PROVE TypeOK'
  BY <1>6 DEF Address
<1>7. ASSUME NEW t \in Threads, Lock(t) PROVE TypeOK'
  BY <1>7, SetItem DEF Lock, SlotInv, ArrayInv, AtItem
<1>8. ASSUME NEW t \in Threads, LockStale(t) PROVE TypeOK'
  BY <1>8 DEF LockStale
<1>9. ASSUME NEW t \in Threads, UnlockLock(t) PROVE TypeOK'
  BY <1>9 DEF UnlockLock
<1>10. ASSUME NEW t \in Threads, Unlock(t) PROVE TypeOK'
  BY <1>10, SetItem DEF Unlock, SlotInv, ArrayInv, AtItem
<1>11. CASE UNCHANGED lvars
  BY <1>11 DEF lvars
<1>12. QED
  BY <1>1, <1>2, <1>3, <1>4, <1>5, <1>6, <1>7, <1>8, <1>9, <1>10, <1>11 DEF Next, Step

(* pathListMutex keeps the threads that search and append apart.           *)
LEMMA NextListInv ==
  ASSUME IInv, [Next]_lvars PROVE ListInv'
<1> USE DEF IInv, TypeOK, ListInv, Labels, Goto
<1>1. ASSUME NEW t \in Threads, NEW k \in Keys, TakeLock(t, k) PROVE ListInv'
  BY <1>1 DEF TakeLock
<1>2. ASSUME NEW t \in Threads, LockList(t) PROVE ListInv'
  BY <1>2 DEF LockList
<1>3. ASSUME NEW t \in Threads, Found(t) PROVE ListInv'
  BY <1>3 DEF Found
<1>4. ASSUME NEW t \in Threads, Grow(t) PROVE ListInv'
  BY <1>4 DEF Grow
<1>5. ASSUME NEW t \in Threads, AppendItem(t) PROVE ListInv'
  BY <1>5 DEF AppendItem
<1>6. ASSUME NEW t \in Threads, Address(t) PROVE ListInv'
  BY <1>6 DEF Address
<1>7. ASSUME NEW t \in Threads, Lock(t) PROVE ListInv'
  BY <1>7 DEF Lock
<1>8. ASSUME NEW t \in Threads, LockStale(t) PROVE ListInv'
  BY <1>8 DEF LockStale
<1>9. ASSUME NEW t \in Threads, UnlockLock(t) PROVE ListInv'
  BY <1>9 DEF UnlockLock
<1>10. ASSUME NEW t \in Threads, Unlock(t) PROVE ListInv'
  BY <1>10 DEF Unlock
<1>11. CASE UNCHANGED lvars
  BY <1>11 DEF lvars
<1>12. QED
  BY <1>1, <1>2, <1>3, <1>4, <1>5, <1>6, <1>7, <1>8, <1>9, <1>10, <1>11 DEF Next, Step

(* The array stays as long as its mutexes, with room for one more item and *)
(* no path twice: addItem runs under pathListMutex, after a search that    *)
(* found nothing.                                                          *)
LEMMA NextArrayInv ==
  ASSUME IInv, [Next]_lvars PROVE ArrayInv'
<1> USE DEF IInv, TypeOK, ListInv, ArrayInv, OneMutexPerPath, Has, Labels, Goto
<1>1. ASSUME NEW t \in Threads, NEW k \in Keys, TakeLock(t, k) PROVE ArrayInv'
  BY <1>1 DEF TakeLock
<1>2. ASSUME NEW t \in Threads, LockList(t) PROVE ArrayInv'
  BY <1>2 DEF LockList
<1>3. ASSUME NEW t \in Threads, Found(t) PROVE ArrayInv'
  BY <1>3 DEF Found
<1>4. ASSUME NEW t \in Threads, Grow(t) PROVE ArrayInv'
  BY <1>4 DEF Grow, Full
<1>5. ASSUME NEW t \in Threads, AppendItem(t) PROVE ArrayInv'
  BY <1>5, AppendedItem DEF AppendItem
<1>6. ASSUME NEW t \in Threads, Address(t) PROVE ArrayInv'
  BY <1>6 DEF Address
<1>7. ASSUME NEW t \in Threads, Lock(t) PROVE ArrayInv'
  BY <1>7, SetItem DEF Lock, SlotInv, AtItem
<1>8. ASSUME NEW t \in Threads, LockStale(t) PROVE ArrayInv'
  BY <1>8 DEF LockStale
<1>9. ASSUME NEW t \in Threads, UnlockLock(t) PROVE ArrayInv'
  BY <1>9 DEF UnlockLock
<1>10. ASSUME NEW t \in Threads, Unlock(t) PROVE ArrayInv'
  BY <1>10, SetItem DEF Unlock, SlotInv, AtItem
<1>11. CASE UNCHANGED lvars
  BY <1>11 DEF lvars
<1>12. QED
  BY <1>1, <1>2, <1>3, <1>4, <1>5, <1>6, <1>7, <1>8, <1>9, <1>10, <1>11 DEF Next, Step

(* The index a thread found in takeLock stays the index of its path: items *)
(* are added at the end and never removed.                                 *)
LEMMA NextSlotInv ==
  ASSUME IInv, [Next]_lvars PROVE SlotInv'
<1> USE DEF IInv, TypeOK, ListInv, ArrayInv, SlotInv, AtItem, Labels, Goto
<1>1. ASSUME NEW t \in Threads, NEW k \in Keys, TakeLock(t, k) PROVE SlotInv'
  BY <1>1 DEF TakeLock
<1>2. ASSUME NEW t \in Threads, LockList(t) PROVE SlotInv'
  BY <1>2 DEF LockList
<1>3. ASSUME NEW t \in Threads, Found(t) PROVE SlotInv'
  BY <1>3 DEF Found
<1>4. ASSUME NEW t \in Threads, Grow(t) PROVE SlotInv'
  BY <1>4 DEF Grow
<1>5. ASSUME NEW t \in Threads, AppendItem(t) PROVE SlotInv'
  BY <1>5, AppendedItem DEF AppendItem
<1>6. ASSUME NEW t \in Threads, Address(t) PROVE SlotInv'
  BY <1>6 DEF Address
<1>7. ASSUME NEW t \in Threads, Lock(t) PROVE SlotInv'
  BY <1>7 DEF Lock
<1>8. ASSUME NEW t \in Threads, LockStale(t) PROVE SlotInv'
  BY <1>8 DEF LockStale
<1>9. ASSUME NEW t \in Threads, UnlockLock(t) PROVE SlotInv'
  BY <1>9 DEF UnlockLock
<1>10. ASSUME NEW t \in Threads, Unlock(t) PROVE SlotInv'
  BY <1>10 DEF Unlock
<1>11. CASE UNCHANGED lvars
  BY <1>11 DEF lvars
<1>12. QED
  BY <1>1, <1>2, <1>3, <1>4, <1>5, <1>6, <1>7, <1>8, <1>9, <1>10, <1>11 DEF Next, Step

(* A thread that comes to hold a lock found it free or has just made it.   *)
LEMMA NextHeldInv ==
  ASSUME IInv, HeldInv, [Next]_lvars PROVE HeldInv'
<1> USE DEF IInv, TypeOK, ListInv, ArrayInv, SlotInv, HeldInv, Held, AtItem,
            Holding, Labels, Goto
<1>1. ASSUME NEW t \in Threads, NEW k \in Keys, TakeLock(t, k) PROVE HeldInv'
  BY <1>1 DEF TakeLock
<1>2. ASSUME NEW t \in Threads, LockList(t) PROVE HeldInv'
  BY <1>2 DEF LockList
<1>3. ASSUME NEW t \in Threads, Found(t) PROVE HeldInv'
  BY <1>3 DEF Found
<1>4. ASSUME NEW t \in Threads, Grow(t) PROVE HeldInv'
  BY <1>4 DEF Grow
<1>5. ASSUME NEW t \in Threads, AppendItem(t) PROVE HeldInv'
  BY <1>5, AppendedItem DEF AppendItem
<1>6. ASSUME NEW t \in Threads, Address(t) PROVE HeldInv'
  BY <1>6 DEF Address
<1>7. ASSUME NEW t \in Threads, Lock(t) PROVE HeldInv'
  BY <1>7, SetItem DEF Lock
<1>8. ASSUME NEW t \in Threads, LockStale(t) PROVE HeldInv'
  BY <1>8 DEF LockStale
<1>9. ASSUME NEW t \in Threads, UnlockLock(t) PROVE HeldInv'
  BY <1>9 DEF UnlockLock
<1>10. ASSUME NEW t \in Threads, Unlock(t) PROVE HeldInv'
  BY <1>10, SetItem DEF Unlock
<1>11. CASE UNCHANGED lvars
  BY <1>11 DEF lvars
<1>12. QED
  BY <1>1, <1>2, <1>3, <1>4, <1>5, <1>6, <1>7, <1>8, <1>9, <1>10, <1>11 DEF Next, Step

-----------------------------------------------------------------------------
(* The invariant is inductive.                                             *)
LEMMA NextIInv == IInv /\ [Next]_lvars => IInv'
  BY NextTypeOK, NextListInv, NextArrayInv, NextSlotInv DEF IInv

(* lockManager.c keeps the inductive invariant in every execution.         *)
THEOREM Invariance == Spec => []IInv
  BY InitIInv, NextIInv, PTL DEF Spec

(* Every variable keeps its type.                                          *)
THEOREM TypeCorrect == Spec => []TypeOK
<1>1. IInv => TypeOK
  BY DEF IInv
<1>2. QED
  BY <1>1, Invariance, PTL

(* takeLock never makes two mutexes for one path, whether or not realloc   *)
(* moves the array.                                                        *)
THEOREM DistinctPaths == Spec => []OneMutexPerPath
<1>1. IInv => OneMutexPerPath
  BY DEF IInv, ArrayInv
<1>2. QED
  BY <1>1, Invariance, PTL

(* addItem never writes outside the array, however many paths are locked.  *)
THEOREM WritesInBounds == Spec => []InBounds
<1>1. IInv => InBounds
  BY DEF IInv, TypeOK, ArrayInv, InBounds
<1>2. QED
  BY <1>1, Invariance, PTL

(* Until a move of the array catches a thread between the address of a     *)
(* mutex and its use, unlockLock unlocks the mutex that takeLock locked.   *)
LEMMA HeldInvariance == Spec => [](IInv /\ HeldInv)
<1>1. Init => HeldInv
  BY DEF Init, HeldInv, Held, Holding
<1>2. IInv /\ HeldInv /\ [Next]_lvars => HeldInv'
  BY NextHeldInv
<1>3. QED
  BY <1>1, <1>2, InitIInv, NextIInv, PTL DEF Spec

(* Two threads are never at work under the lock of one path, however often *)
(* realloc moves the array, until a move catches a thread between the      *)
(* address of a mutex and its use.                                         *)
THEOREM LocksExclude == Spec => []MutualExclusion
<1>1. IInv /\ HeldInv => MutualExclusion
  <2> SUFFICES ASSUME IInv, Held, NEW t \in Threads, NEW u \in Threads,
                      pc[t] = "inside", pc[u] = "inside", t # u
               PROVE  key[t] # key[u]
    BY DEF MutualExclusion, HeldInv
  <2>1. slot[t] \in 1 .. Len(path) /\ path[slot[t]] = key[t]
    BY DEF IInv, SlotInv, AtItem
  <2>2. slot[u] \in 1 .. Len(path) /\ path[slot[u]] = key[u]
    BY DEF IInv, SlotInv, AtItem
  <2>3. slot[t] # slot[u]
    BY DEF Held, Holding
  <2>4. QED
    BY <2>1, <2>2, <2>3 DEF IInv, ArrayInv, OneMutexPerPath, TypeOK
<1>2. QED
  BY <1>1, HeldInvariance, PTL

-----------------------------------------------------------------------------
(* The abstract state of the refinement.                                   *)
PathStates == [t \in Threads |-> PathState(t)]

(* A thread that moves on changes its own abstract state and no other's.   *)
LEMMA MovedState ==
  ASSUME TypeOK, NEW t \in Threads, NEW l \in Labels, Goto(t, l)
  PROVE  PathStates' =
           [PathStates EXCEPT ![t] = CASE l = "idle" -> "out"
                                       [] l \in {"inside", "unlock"} -> "in"
                                       [] OTHER -> "waiting"]
  BY DEF TypeOK, PathStates, PathState, Goto, Labels

(* A step that does not change what a thread is for the others is a        *)
(* stutter of PathMutex.                                                   *)
LEMMA SameState ==
  ASSUME TypeOK, NEW t \in Threads, NEW l \in Labels, Goto(t, l),
         PathState(t) = CASE l = "idle" -> "out"
                          [] l \in {"inside", "unlock"} -> "in"
                          [] OTHER -> "waiting",
         UNCHANGED key
  PROVE  UNCHANGED Mutex!pvars
<1>1. PathStates' = PathStates
  BY MovedState DEF PathStates
<1>2. QED
  BY <1>1 DEF Mutex!pvars, PathStates

(* A thread that gets a lock finds nobody else with the lock of its path.  *)
LEMMA EnterAlone ==
  ASSUME IInv, NEW t \in Threads, PathState(t) = "waiting",
         Goto(t, "inside"), UNCHANGED key,
         \A u \in Threads : pc[u] \in Holding => key[u] # key[t]
  PROVE  Mutex!Enter(t)
<1>1. PathStates' = [PathStates EXCEPT ![t] = "in"]
  BY MovedState DEF IInv, Labels
<1>2. \A u \in Threads : PathStates[u] = "in" => pc[u] \in Holding
  BY DEF PathStates, PathState, Holding
<1>3. PathStates[t] = "waiting"
  BY DEF PathStates
<1>4. QED
  BY <1>1, <1>2, <1>3 DEF Mutex!Enter, PathStates

(* A step of lockManager.c after which no thread is caught is a step of    *)
(* PathMutex or a stutter. None was caught before it: caught only grows.   *)
LEMMA StepRefines ==
  ASSUME IInv, HeldInv, [Next]_lvars
  PROVE  [caught' = {} => Mutex!PNext]_(Mutex!pvars)
<1> SUFFICES ASSUME caught' = {} PROVE [Mutex!PNext]_(Mutex!pvars)
  OBVIOUS
<1>0. caught = {} /\ Held
  BY DEF Next, Step, TakeLock, LockList, Found, Grow, AppendItem, Address, Lock,
         LockStale, UnlockLock, Unlock, lvars, HeldInv
<1>1. ASSUME NEW t \in Threads, NEW k \in Keys, TakeLock(t, k)
      PROVE  Mutex!Ask(t)
  <2>1. PathStates' = [PathStates EXCEPT ![t] = "waiting"]
    BY <1>1, MovedState DEF TakeLock, IInv, Labels
  <2>2. PathStates[t] = "out"
    BY <1>1 DEF TakeLock, PathStates, PathState
  <2>3. QED
    BY <1>1, <2>1, <2>2 DEF TakeLock, Mutex!Ask, PathStates
<1>2. ASSUME NEW t \in Threads,
             LockList(t) \/ Found(t) \/ Grow(t) \/ Address(t)
      PROVE  UNCHANGED Mutex!pvars
  <2>1. PathState(t) = "waiting" /\ UNCHANGED key
    BY <1>2 DEF LockList, Found, Grow, Address, PathState
  <2>2. Goto(t, "search") \/ Goto(t, "address") \/ Goto(t, "append")
          \/ Goto(t, "lock")
    BY <1>2 DEF LockList, Found, Grow, Address
  <2>3. QED
    BY <2>1, <2>2, SameState DEF IInv, Labels
<1>3. ASSUME NEW t \in Threads, AppendItem(t) PROVE Mutex!Enter(t)
  <2>1. \A u \in Threads : pc[u] \in Holding => key[u] # key[t]
    BY <1>3 DEF AppendItem, IInv, ArrayInv, SlotInv, AtItem, Holding, Has, TypeOK
  <2>2. PathState(t) = "waiting"
    BY <1>3 DEF AppendItem, PathState
  <2>3. QED
    BY <1>3, <2>1, <2>2, EnterAlone DEF AppendItem
<1>4. ASSUME NEW t \in Threads, Lock(t) PROVE Mutex!Enter(t)
  <2>1. \A u \in Threads : pc[u] \in Holding => key[u] # key[t]
    BY <1>0, <1>4 DEF Lock, IInv, ArrayInv, SlotInv, Held, AtItem, Holding,
                OneMutexPerPath, TypeOK
  <2>2. PathState(t) = "waiting"
    BY <1>4 DEF Lock, PathState
  <2>3. QED
    BY <1>4, <2>1, <2>2, EnterAlone DEF Lock
<1>5. ASSUME NEW t \in Threads, LockStale(t) PROVE FALSE
  BY <1>0, <1>5 DEF LockStale, Held
<1>6. ASSUME NEW t \in Threads, UnlockLock(t) PROVE UNCHANGED Mutex!pvars
  <2>1. PathState(t) = "in" /\ UNCHANGED key /\ Goto(t, "unlock")
    BY <1>6 DEF UnlockLock, PathState
  <2>2. QED
    BY <2>1, SameState DEF IInv, Labels
<1>7. ASSUME NEW t \in Threads, Unlock(t) PROVE Mutex!Leave(t)
  <2>1. PathStates' = [PathStates EXCEPT ![t] = "out"]
    BY <1>7, MovedState DEF Unlock, IInv, Labels
  <2>2. PathStates[t] = "in"
    BY <1>7 DEF Unlock, PathStates, PathState
  <2>3. QED
    BY <1>7, <2>1, <2>2 DEF Unlock, Mutex!Leave, PathStates
<1>8. CASE UNCHANGED lvars
  BY <1>8 DEF lvars, Mutex!pvars, PathState
<1>9. QED
  BY <1>1, <1>2, <1>3, <1>4, <1>5, <1>6, <1>7, <1>8
     DEF Next, Step, Mutex!PNext

(* lockManager.c is a mutex per path: every step of its threads is a step  *)
(* of PathMutex or invisible there, though realloc moves the array, until  *)
(* a move catches a thread between the address of a mutex and its use.     *)
THEOREM Refinement == Spec => ImplementsPathMutex
<1>1. Init => Mutex!PInit
  BY DEF Init, Mutex!PInit, PathState
<1>2. QED
  BY <1>1, StepRefines, HeldInvariance, PTL
     DEF Spec, ImplementsPathMutex

=============================================================================
