---------------------------- MODULE LockManager ----------------------------
(***************************************************************************)
(* lockManager.c: one mutex per path, made when a path is first locked and *)
(* kept in an array that grows. The server's threads call takeLock before  *)
(* they touch a client's directory and unlockLock after, and never ask for *)
(* a second lock while they have one.                                      *)
(*                                                                         *)
(* realloc may move the array, and the mutexes in it, while threads wait   *)
(* on them or are about to lock or unlock them: block numbers the memory   *)
(* blocks the array has lived in. What a thread does with the address of   *)
(* a mutex in a block that is gone is undefined; LockStale and Unlock give *)
(* the outcomes. A thread at work under a lock has no such address: it     *)
(* takes a new one to unlock. So a move does harm only to the threads that *)
(* stand between the address of a mutex and its use, and caught names them *)
(* for the properties.                                                     *)
(***************************************************************************)
EXTENDS Naturals, Sequences

CONSTANTS
  Threads,   (* The threads of the server's pool.                            *)
  Keys       (* The paths they lock.                                         *)

VARIABLES
  path,      (* mutexArr.array[i].path for each i < mutexArr.size.           *)
  mutex,     (* mutexArr.array[i].mutex: "free" or "locked".                 *)
  capacity,  (* mutexArr.capacity.                                           *)
  block,     (* The block of memory mutexArr.array points to.                *)
  list,      (* The threads that hold pathListMutex.                         *)
  pc,        (* pc[t]: where thread t is in takeLock or unlockLock.          *)
  key,       (* key[t]: the path t locks or unlocks.                         *)
  slot,      (* slot[t]: the index it has found for it.                      *)
  addr,      (* addr[t]: the block its address of that mutex lies in.        *)
  caught     (* History: the threads that had the address of a mutex in hand *)
             (* when realloc moved the array.                                *)

lvars == << path, mutex, capacity, block, list, pc, key, slot, addr, caught >>

Labels == {"idle", "take", "search", "append", "address", "lock", "inside",
           "unlock", "hung"}

Goto(t, l) == pc' = [pc EXCEPT ![t] = l]

Has(k) == \E i \in DOMAIN path : path[i] = k

-----------------------------------------------------------------------------
(* initArray, and a pool of threads that hold no lock.                     *)
Init ==
  /\ path = << >> /\ mutex = << >>
  /\ capacity = 1
  /\ block = 0
  /\ list = {}
  /\ pc = [t \in Threads |-> "idle"]
  /\ key \in [Threads -> Keys]
  /\ slot = [t \in Threads |-> 0]
  /\ addr = [t \in Threads |-> 0]
  /\ caught = {}

(* takeLock(k) is called.                                                  *)
TakeLock(t, k) ==
  /\ pc[t] = "idle"
  /\ key' = [key EXCEPT ![t] = k]
  /\ Goto(t, "take")
  /\ UNCHANGED << path, mutex, capacity, block, list, slot, addr, caught >>

(* Mutant: the list is searched without its mutex.                         *)
LockListNot(t) ==
  /\ pc[t] = "take"
  /\ list' = {t}
  /\ Goto(t, "search")
  /\ UNCHANGED << path, mutex, capacity, block, key, slot, addr, caught >>

(* pthread_mutex_lock(&pathListMutex).                                     *)
LockList(t) ==
  /\ pc[t] = "take" /\ list = {}
  /\ list' = {t}
  /\ Goto(t, "search")
  /\ UNCHANGED << path, mutex, capacity, block, key, slot, addr, caught >>

(* The path is in the array: the list is unlocked before the item is       *)
(* locked.                                                                 *)
Found(t) ==
  /\ pc[t] = "search"
  /\ \E i \in DOMAIN path : /\ path[i] = key[t]
                            /\ slot' = [slot EXCEPT ![t] = i]
  /\ list' = list \ {t}
  /\ Goto(t, "address")
  /\ UNCHANGED << path, mutex, capacity, block, key, addr, caught >>

(* Mutant: the array grows when it is too late.                            *)
FullLate == Len(path) = capacity + 1

(* Mutant: the mutexes of the grown array are initialised again.           *)
GrowAfresh(t) ==
  /\ pc[t] = "search" /\ ~Has(key[t])
  /\ capacity' = IF Len(path) = capacity - 1 THEN capacity * 2 ELSE capacity
  /\ mutex' = IF capacity' # capacity THEN [i \in DOMAIN mutex |-> "free"]
                                      ELSE mutex
  /\ Goto(t, "append")
  /\ UNCHANGED << path, block, list, key, slot, addr, caught >>

(* addItem: the array doubles one item before it is full. realloc copies   *)
(* the items, locked mutexes included, if it moves them.                   *)
Full == Len(path) = capacity - 1
Grow(t) ==
  /\ pc[t] = "search" /\ ~Has(key[t])
  /\ capacity' = IF Full THEN capacity * 2 ELSE capacity
  /\ \/ UNCHANGED << block, caught >>
     \/ /\ Full
        /\ block' = block + 1
        /\ caught' = caught \cup {u \in Threads : pc[u] \in {"lock", "unlock"}}
  /\ Goto(t, "append")
  /\ UNCHANGED << path, mutex, list, key, slot, addr >>

(* Mutants: the new item's mutex is left as realloc leaves it, or it is    *)
(* initialised and not locked.                                             *)
AppendItemRaw(t) ==
  /\ pc[t] = "append"
  /\ path' = Append(path, key[t])
  /\ mutex' = Append(mutex, "garbage")
  /\ slot' = [slot EXCEPT ![t] = Len(path) + 1]
  /\ list' = list \ {t}
  /\ Goto(t, "inside")
  /\ UNCHANGED << capacity, block, key, addr, caught >>
AppendItemFree(t) ==
  /\ pc[t] = "append"
  /\ path' = Append(path, key[t])
  /\ mutex' = Append(mutex, "free")
  /\ slot' = [slot EXCEPT ![t] = Len(path) + 1]
  /\ list' = list \ {t}
  /\ Goto(t, "inside")
  /\ UNCHANGED << capacity, block, key, addr, caught >>

(* addItem writes the item, lockItemMutex locks it, and the list is        *)
(* unlocked. Nobody can have found the item before.                        *)
AppendItem(t) ==
  /\ pc[t] = "append"
  /\ path' = Append(path, key[t])
  /\ mutex' = Append(mutex, "locked")
  /\ slot' = [slot EXCEPT ![t] = Len(path) + 1]
  /\ list' = list \ {t}
  /\ Goto(t, "inside")
  /\ UNCHANGED << capacity, block, key, addr, caught >>

(* &(mutexArr.array[i].mutex), read without pathListMutex.                 *)
Address(t) ==
  /\ pc[t] = "address"
  /\ addr' = [addr EXCEPT ![t] = block]
  /\ Goto(t, "lock")
  /\ UNCHANGED << path, mutex, capacity, block, list, key, slot, caught >>

(* pthread_mutex_lock on the item: waits until it is free.                 *)
Lock(t) ==
  /\ pc[t] = "lock" /\ addr[t] = block
  /\ mutex[slot[t]] = "free"
  /\ mutex' = [mutex EXCEPT ![slot[t]] = "locked"]
  /\ Goto(t, "inside")
  /\ UNCHANGED << path, capacity, block, list, key, slot, addr, caught >>

(* The array has moved under a thread that waits or is about to: what is   *)
(* left in the old block is free or locked for ever.                       *)
LockStale(t) ==
  /\ pc[t] = "lock" /\ addr[t] # block
  /\ Goto(t, "inside") \/ Goto(t, "hung")
  /\ UNCHANGED << path, mutex, capacity, block, list, key, slot, addr, caught >>

(* unlockLock: the address is taken without pathListMutex ...              *)
UnlockLock(t) ==
  /\ pc[t] = "inside"
  /\ addr' = [addr EXCEPT ![t] = block]
  /\ Goto(t, "unlock")
  /\ UNCHANGED << path, mutex, capacity, block, list, key, slot, caught >>

(* Mutant: the thread goes on without unlocking.                           *)
UnlockNot(t) ==
  /\ pc[t] = "unlock"
  /\ Goto(t, "idle")
  /\ UNCHANGED << path, mutex, capacity, block, list, key, slot, addr, caught >>

(* ... and the mutex there is unlocked; in a block that is gone this does  *)
(* nothing to the mutex the others lock.                                   *)
Unlock(t) ==
  /\ pc[t] = "unlock"
  /\ mutex' = IF addr[t] = block THEN [mutex EXCEPT ![slot[t]] = "free"]
                                 ELSE mutex
  /\ Goto(t, "idle")
  /\ UNCHANGED << path, capacity, block, list, key, slot, addr, caught >>

Step(t) ==
  \/ LockList(t) \/ Found(t) \/ Grow(t) \/ AppendItem(t) \/ Address(t)
  \/ Lock(t) \/ LockStale(t) \/ UnlockLock(t) \/ Unlock(t)

Next == \E t \in Threads : Step(t) \/ \E k \in Keys : TakeLock(t, k)

Spec == Init /\ [][Next]_lvars

(* Every thread runs; in particular the work under a lock comes to an end. *)
(* Nothing makes a thread ask for a lock.                                  *)
FairSpec == Spec /\ \A t \in Threads : WF_lvars(Step(t))

-----------------------------------------------------------------------------
(* Type invariant: every variable has its type.                            *)
TypeOK ==
  /\ path \in Seq(Keys)
  /\ mutex \in Seq({"free", "locked"})
  /\ capacity \in Nat \ {0}
  /\ block \in Nat
  /\ list \in SUBSET Threads
  /\ pc \in [Threads -> Labels]
  /\ key \in [Threads -> Keys]
  /\ slot \in [Threads -> Nat]
  /\ addr \in [Threads -> Nat]
  /\ caught \in SUBSET Threads

(* Two threads are never at work under the lock of one path: takeLock and  *)
(* unlockLock keep them apart though the item is locked after the list has *)
(* been unlocked, and though realloc moves the mutexes while they are      *)
(* locked. Only a move that catches a thread between the address of a      *)
(* mutex and its use ends this.                                            *)
MutualExclusion ==
  caught = {} =>
    \A t, u \in Threads :
      pc[t] = "inside" /\ pc[u] = "inside" /\ t # u => key[t] # key[u]

(* No path has two mutexes, however the threads race to add it: unlockLock *)
(* would unlock the first, whoever locked the second.                      *)
OneMutexPerPath ==
  \A i, j \in DOMAIN path : path[i] = path[j] => i = j

(* addItem writes inside the memory it has, with the capacity it starts    *)
(* from and grows to.                                                      *)
InBounds ==
  /\ Len(path) <= capacity
  /\ \A t \in Threads : pc[t] = "append" => Len(path) < capacity

(* Once takeLock has the list, the lock it looks for is had by somebody in *)
(* the end, by this thread or another one: no unlock is lost and no waiter *)
(* forgotten, if the work under the locks always ends and no move of the   *)
(* array catches a thread.                                                 *)
Wants(t, k) == pc[t] \in {"search", "append", "address", "lock", "hung"}
               /\ key[t] = k
Progress ==
  \A k \in Keys : (\E t \in Threads : Wants(t, k))
        ~> \/ \E t \in Threads : pc[t] = "inside" /\ key[t] = k
           \/ caught # {}

(* lockManager.c implements a mutex per path: every step of its threads is *)
(* a step of PathMutex, until a move of the array has caught a thread.     *)
PathState(t) ==
  CASE pc[t] = "idle" -> "out"
    [] pc[t] \in {"inside", "unlock"} -> "in"
    [] OTHER -> "waiting"
Mutex == INSTANCE PathMutex WITH
  want <- key, state <- [t \in Threads |-> PathState(t)]
ImplementsPathMutex ==
  Mutex!PInit /\ [][caught' = {} => Mutex!PNext]_(Mutex!pvars)
=============================================================================
