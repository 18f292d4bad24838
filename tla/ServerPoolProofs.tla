-------------------------- MODULE ServerPoolProofs --------------------------
(***************************************************************************)
(* Proofs about ServerPool, for any number of threads and of clients, and  *)
(* whether the threads all wait before the first client comes or not.      *)
(***************************************************************************)
EXTENDS ServerPool, FiniteSetTheorems, TLAPS

-----------------------------------------------------------------------------
(* Types. A thread from its signal to the end of its session is marked     *)
(* busy and has a connection, and the main thread out of accept has one;   *)
(* the thread that main has found has not been signalled yet.              *)
Clearing(w) == pc[w] \in {"clear", "leaveClear"}
Giving == main \in {"read", "write", "assign"}

Signalled ==
  /\ \A w \in Workers : Counting(w) \/ Clearing(w) => isBusy[w]
  /\ \A w \in Workers : pc[w] = "woken" => fd[w] \in Conns
  /\ main # "accept" => accepted # 0
  /\ Giving => isBusy[slot] /\ ~Counting(slot) /\ ~Clearing(slot)

TInv == TypeOK /\ Signalled

LEMMA WorkersFacts ==
  /\ IsFiniteSet(Workers) /\ Cardinality(Workers) = threadPoolSize
  /\ threadPoolSize \in Workers /\ 1 \in Workers
  /\ Nobody \notin Workers /\ MainThread \notin Workers
  /\ MainThread # Nobody
<1>1. threadPoolSize \in Nat \ {0}
  BY PoolAssumption
<1>2. 1 \in Int /\ threadPoolSize \in Int /\ ~(1 > threadPoolSize)
  BY <1>1
<1>3. IsFiniteSet(1 .. threadPoolSize)
      /\ Cardinality(1 .. threadPoolSize) = threadPoolSize - 1 + 1
  BY <1>2, FS_Interval, Zenon
<1>4. QED
  BY <1>1, <1>3 DEF Workers, Nobody, MainThread

(* The flags have truth values.                                            *)
LEMMA InitFlags == Init => Flags
  BY Zenon DEF Init, Flags

LEMMA StepFlags == ASSUME Flags, [Next]_vars PROVE Flags'
<1> USE DEF Flags, poolVars, mainVars, endVars, history
<1>1. CASE Accept \/ Sigint \/ Main
  <2>1. CASE Accept \/ Sigint \/ LockMain
    BY <2>1, Zenon DEF Accept, Sigint, LockMain
  <2>2. CASE WaitThread \/ ThreadAvailable \/ NoWait \/ FindNone
    BY <2>2, Zenon DEF WaitThread, ThreadAvailable, NoWait, FindNone, Unlock
  <2>3. CASE ReadMain \/ WriteMain \/ Assign \/ UnlockMain
    BY <2>3, Zenon DEF ReadMain, WriteMain, Assign, UnlockMain, Unlock
  <2>4. CASE \E w \in Workers : Find(w)
    BY <2>4, Zenon DEF Find
  <2>5. QED
    BY <1>1, <2>1, <2>2, <2>3, <2>4 DEF Main
<1>2. ASSUME NEW w \in Workers, Worker(w) PROVE Flags'
  <2>1. CASE Top(w) \/ EnterWait(w) \/ StartSession(w) \/ SetFileName(w)
    BY <2>1, Zenon DEF Top, EnterWait, StartSession, SetFileName, Unlock
  <2>2. CASE Request(w) \/ RequestExits(w) \/ SyncDone(w) \/ NapOver(w)
             \/ RoundDone(w) \/ LockEnd(w)
    BY <2>2, Zenon DEF Request, RequestExits, SyncDone, NapOver, RoundDone,
                       LockEnd
  <2>3. CASE EndSession(w) \/ EndOnSigint(w) \/ ReadBusy(w) \/ WriteBusy(w)
             \/ ClearBusy(w) \/ FreeName(w) \/ TellHandler(w)
    BY <2>3, Zenon DEF EndSession, EndOnSigint, ReadBusy, WriteBusy, ClearBusy,
                       FreeName, TellHandler
  <2>4. CASE UnlockEnd(w) \/ Cleanup(w) \/ CancelWait(w)
    BY <2>4, Zenon DEF UnlockEnd, Cleanup, CancelWait, Unlock
  <2>5. QED
    BY <1>2, <2>1, <2>2, <2>3, <2>4 DEF Worker
<1>3. CASE Handler
  BY <1>3, Zenon DEF Handler, HandlerLock, SessionsLeft, HandlerWait, AllEnded,
                     Cancel, Join, Unlock
<1>4. CASE UNCHANGED vars
  BY <1>4, Zenon DEF vars
<1>5. QED
  BY <1>1, <1>2, <1>3, <1>4 DEF Next

LEMMA InitTInv == Init => TInv
<1> SUFFICES ASSUME Init PROVE TInv
  OBVIOUS
<1>1. 0 \in 0 .. MaxConns
  BY PoolAssumption
<1>2. TypeOK
  <2>1. /\ slot \in Workers /\ victim \in Workers
        /\ accepted \in 0 .. MaxConns
    BY <1>1, WorkersFacts DEF Init
  <2>2. QED
    BY <2>1, InitFlags DEF Init, TypeOK
<1>3. Signalled
  BY DEF Init, Signalled, Counting, Clearing, Giving, InSession
<1>4. QED
  BY <1>2, <1>3 DEF TInv

(* The main thread up to a thread it has found, and SIGINT on top of it.   *)
LEMMA MainTyped ==
  ASSUME TInv, Accept \/ Sigint \/ Main, Flags' PROVE TInv'
<1> USE DEF TInv, MainRuns, poolVars, mainVars, endVars, history
<1>1. CASE Accept
  BY <1>1, PoolAssumption DEF Accept, TypeOK, Signalled, Counting, Clearing,
                              Giving, InSession
<1>2. CASE Sigint
  BY <1>2 DEF Sigint, TypeOK, Signalled, Counting, Clearing, Giving, InSession
<1>3. CASE LockMain
  BY <1>3 DEF LockMain, Lock, Threads, TypeOK, Signalled, Counting, Clearing,
              Giving, InSession
<1>4. CASE WaitThread \/ ThreadAvailable \/ NoWait
  BY <1>4 DEF WaitThread, ThreadAvailable, NoWait, Lock, Unlock, Threads,
              TypeOK, Signalled, Counting, Clearing, Giving, InSession
<1>5. CASE FindNone \/ UnlockMain
  BY <1>5 DEF FindNone, UnlockMain, Unlock, TypeOK, Signalled, Counting,
              Clearing, Giving, InSession
<1>6. CASE ReadMain \/ WriteMain
  <2>1. MainThread \in Threads
    BY DEF Threads
  <2>2. TypeOK'
    BY <1>6, <2>1 DEF ReadMain, WriteMain, Read, Write, TypeOK
  <2>3. Signalled'
    BY <1>6 DEF ReadMain, WriteMain, Signalled, Counting, Clearing, Giving,
                InSession
  <2>4. QED
    BY <2>2, <2>3
<1>7. CASE Assign
  <2>1. accepted \in Conns /\ slot \in Workers
    BY <1>7, PoolAssumption DEF Assign, Signalled, TypeOK, Conns
  <2>2. TypeOK'
    BY <1>7, <2>1 DEF Assign, Goto, TypeOK
  <2>3. Signalled'
    BY <1>7, <2>1 DEF Assign, Goto, TypeOK, Signalled, Counting, Clearing,
                      Giving, InSession
  <2>4. QED
    BY <2>2, <2>3
<1>8. CASE \E w \in Workers : Find(w)
  BY <1>8 DEF Find, FirstFree, TypeOK, Signalled, Counting, Clearing, Giving,
              InSession
<1>9. QED
  BY <1>1, <1>2, <1>3, <1>4, <1>5, <1>6, <1>7, <1>8 DEF Main

LEMMA WorkerTyped ==
  ASSUME TInv, NEW w \in Workers, Worker(w), Flags' PROVE TInv'
<1> USE DEF TInv, At, Goto, poolVars, mainVars, endVars, history
<1> w \in Threads
  BY DEF Threads
<1>1. CASE Top(w) \/ EnterWait(w)
  <2>1. TypeOK'
    <3>1. CASE Top(w)
      BY <3>1 DEF Top, TypeOK
    <3>2. CASE EnterWait(w)
      BY <3>2 DEF EnterWait, Unlock, TypeOK
    <3>3. QED
      BY <1>1, <3>1, <3>2
  <2>2. Signalled'
    BY <1>1 DEF Top, EnterWait, TypeOK, Signalled,
                Counting, Clearing, Giving, InSession
  <2>3. QED
    BY <2>1, <2>2
<1>2. CASE StartSession(w) \/ SetFileName(w)
  BY <1>2 DEF StartSession, SetFileName, TypeOK, Signalled, Counting, Clearing,
              Giving, InSession
<1>3. CASE Request(w) \/ RequestExits(w) \/ SyncDone(w)
  BY <1>3 DEF Request, RequestExits, SyncDone, TypeOK, Signalled, Counting,
              Clearing, Giving, InSession
<1>4. CASE NapOver(w) \/ RoundDone(w)
  BY <1>4 DEF NapOver, RoundDone, TypeOK, Signalled, Counting, Clearing,
              Giving, InSession
<1>5. CASE LockEnd(w) \/ EndSession(w) \/ EndOnSigint(w)
  BY <1>5 DEF LockEnd, Lock, EndSession, EndOnSigint, TypeOK, Signalled,
              Counting, Clearing, Giving, InSession
<1>6. CASE ReadBusy(w) \/ WriteBusy(w)
  <2>1. TypeOK'
    BY <1>6 DEF ReadBusy, WriteBusy, Read, Write, TypeOK
  <2>2. Signalled'
    BY <1>6 DEF ReadBusy, WriteBusy, TypeOK, Signalled, Counting, Clearing,
                Giving, InSession
  <2>3. QED
    BY <2>1, <2>2
<1>7. CASE ClearBusy(w) \/ FreeName(w) \/ TellHandler(w)
  <2>1. TypeOK'
    BY <1>7 DEF ClearBusy, FreeName, TellHandler, TypeOK
  <2>2. Signalled'
    BY <1>7 DEF ClearBusy, FreeName, TellHandler, TypeOK, Signalled,
                Counting, Clearing, Giving, InSession
  <2>3. QED
    BY <2>1, <2>2
<1>8. CASE UnlockEnd(w) \/ Cleanup(w) \/ CancelWait(w)
  <2>1. TypeOK'
    BY <1>8 DEF UnlockEnd, Cleanup, CancelWait, Unlock, TypeOK
  <2>2. Signalled'
    BY <1>8 DEF UnlockEnd, Cleanup, CancelWait, TypeOK, Signalled,
                Counting, Clearing, Giving, InSession
  <2>3. QED
    BY <2>1, <2>2
<1>9. QED
  BY <1>1, <1>2, <1>3, <1>4, <1>5, <1>6, <1>7, <1>8 DEF Worker

LEMMA HandlerTyped == ASSUME TInv, Handler, Flags' PROVE TInv'
<1> USE DEF TInv, HandlerRuns, poolVars, mainVars, endVars, history
<1>1. Signalled'
  BY DEF Handler, HandlerLock, SessionsLeft, HandlerWait, AllEnded, Cancel,
         Join, Signalled, Counting, Clearing, Giving, InSession
<1>2. TypeOK'
  <2>1. CASE HandlerLock \/ SessionsLeft \/ AllEnded
    BY <2>1 DEF HandlerLock, SessionsLeft, AllEnded, Lock, Threads, TypeOK
  <2>3. CASE HandlerWait
    BY <2>3 DEF HandlerWait, Unlock, TypeOK
  <2>4. CASE Cancel
    BY <2>4 DEF Cancel, Unlock, TypeOK
  <2>2. CASE Join
    <3>1. victim # threadPoolSize => victim + 1 \in Workers
      BY PoolAssumption DEF TypeOK, Workers
    <3>2. QED
      BY <2>2, <3>1 DEF Join, Lock, Threads, TypeOK
  <2>5. QED
    BY <2>1, <2>2, <2>3, <2>4 DEF Handler
<1>3. QED
  BY <1>1, <1>2

LEMMA StillTyped == ASSUME TInv, Flags', UNCHANGED vars PROVE TInv'
  BY DEF vars, poolVars, mainVars, endVars, history, TInv, TypeOK, Signalled,
         Counting, Clearing, Giving, InSession

LEMMA StepTInv == ASSUME TInv, [Next]_vars PROVE TInv'
<1>1. Flags'
  BY StepFlags DEF TInv, TypeOK
<1>2. QED
  BY <1>1, MainTyped, WorkerTyped, HandlerTyped, StillTyped DEF Next

(* Every variable of the pool keeps its type, SIGINT and aborts included;  *)
(* the connection that is handed out and the thread it is handed to are    *)
(* ones that exist.                                                        *)
THEOREM TypeCorrect == Spec => []TypeOK
<1>1. TInv /\ [Next]_vars => TInv'
  BY StepTInv
<1>2. TInv => TypeOK
  BY DEF TInv
<1>3. QED
  BY InitTInv, <1>1, <1>2, PTL DEF Spec

-----------------------------------------------------------------------------
(* The mutex. As long as no unlock has taken it from another, one that is  *)
(* between its lock and its unlock holds it: a thread that ends its        *)
(* session, the main thread while it hands out, the handler while it looks.*)
InEnd(w) ==
  pc[w] \in {"end", "read", "write", "clear", "free", "leaveRead",
            "leaveWrite", "leaveClear", "tell", "unlock"}
MainIn == main \in {"check", "find", "read", "write", "assign", "unlock"}
HandlerIn == handler \in {"check", "enter", "cancel"}

Owned ==
  ~stolen =>
    /\ \A w \in Workers : InEnd(w) => thread_m = w
    /\ MainIn \/ HandlerIn => thread_m = MainThread
    /\ ~(MainIn /\ HandlerIn)

LEMMA InitOwned == Init => Owned
  BY DEF Init, Owned, InEnd, MainIn, HandlerIn

(* What an unlock and a lock leave of a history without a theft.           *)
LEMMA UnlockFacts ==
  ASSUME NEW t, Unlock(t), Flags, ~stolen'
  PROVE  ~stolen /\ thread_m \in {Nobody, t} /\ thread_m' = Nobody
  BY Zenon DEF Unlock, Flags

LEMMA StepOwned == ASSUME TInv, Owned, [Next]_vars PROVE Owned'
<1> SUFFICES ASSUME ~stolen' PROVE Owned'
  BY DEF Owned
<1> Flags
  BY DEF TInv, TypeOK
<1> USE DEF poolVars, mainVars, endVars, history
<1>1. CASE Accept \/ Sigint \/ Main
  <2> USE DEF MainRuns
  <2>1. CASE Accept \/ Sigint \/ NoWait \/ FindNone
    BY <2>1 DEF Accept, Sigint, NoWait, FindNone, Owned, InEnd, MainIn,
                HandlerIn
  <2>2. CASE LockMain \/ ThreadAvailable
    BY <2>2, WorkersFacts DEF LockMain, ThreadAvailable, Lock, Owned, InEnd,
                              MainIn, HandlerIn
  <2>3. CASE WaitThread \/ UnlockMain
    <3>1. ~stolen /\ thread_m' = Nobody
      BY <2>3, UnlockFacts DEF WaitThread, UnlockMain
    <3>2. thread_m = MainThread
      BY <2>3, <3>1 DEF WaitThread, UnlockMain, Owned, MainIn
    <3>3. QED
      BY <2>3, <3>1, <3>2, WorkersFacts DEF WaitThread, UnlockMain, Owned,
                                            InEnd, MainIn, HandlerIn
  <2>4. CASE ReadMain \/ WriteMain
    BY <2>4 DEF ReadMain, WriteMain, Owned, InEnd, MainIn, HandlerIn
  <2>5. CASE Assign
    BY <2>5 DEF Assign, Goto, TInv, TypeOK, Owned, InEnd, MainIn, HandlerIn
  <2>6. CASE \E w \in Workers : Find(w)
    BY <2>6 DEF Find, Owned, InEnd, MainIn, HandlerIn
  <2>7. QED
    BY <1>1, <2>1, <2>2, <2>3, <2>4, <2>5, <2>6 DEF Main
<1>2. ASSUME NEW w \in Workers, Worker(w) PROVE Owned'
  <2> USE DEF At, Goto, TInv, TypeOK
  <2>1. CASE Top(w) \/ StartSession(w) \/ SetFileName(w) \/ Request(w)
             \/ RequestExits(w) \/ SyncDone(w) \/ NapOver(w) \/ RoundDone(w)
    BY <2>1 DEF Top, StartSession, SetFileName, Request, RequestExits,
                SyncDone, NapOver, RoundDone, Owned, InEnd, MainIn, HandlerIn
  <2>2. CASE LockEnd(w)
    BY <2>2, WorkersFacts DEF LockEnd, Lock, Owned, InEnd, MainIn, HandlerIn
  <2>3. CASE EndSession(w) \/ EndOnSigint(w) \/ ReadBusy(w) \/ WriteBusy(w)
    BY <2>3 DEF EndSession, EndOnSigint, ReadBusy, WriteBusy, Owned, InEnd,
                MainIn, HandlerIn
  <2>4. CASE ClearBusy(w) \/ FreeName(w) \/ TellHandler(w) \/ CancelWait(w)
    BY <2>4 DEF ClearBusy, FreeName, TellHandler, CancelWait, Owned, InEnd,
                MainIn, HandlerIn
  <2>5. CASE EnterWait(w) \/ UnlockEnd(w) \/ Cleanup(w)
    <3>1. ~stolen /\ thread_m \in {Nobody, w} /\ thread_m' = Nobody
      BY <2>5, UnlockFacts DEF EnterWait, UnlockEnd, Cleanup
    <3>2. \A v \in Workers : v # w => ~InEnd(v)
      BY <3>1, WorkersFacts DEF Owned
    <3>3. ~MainIn /\ ~HandlerIn
      BY <3>1, WorkersFacts DEF Owned
    <3>4. QED
      BY <2>5, <3>2, <3>3 DEF EnterWait, UnlockEnd, Cleanup, Owned, InEnd,
                              MainIn, HandlerIn
  <2>6. QED
    BY <1>2, <2>1, <2>2, <2>3, <2>4, <2>5 DEF Worker
<1>3. CASE Handler
  <2> USE DEF HandlerRuns
  <2>1. CASE HandlerLock \/ Join
    BY <2>1, WorkersFacts DEF HandlerLock, Join, Lock, Owned, InEnd, MainIn,
                              HandlerIn
  <2>2. CASE SessionsLeft \/ AllEnded
    BY <2>2 DEF SessionsLeft, AllEnded, Owned, InEnd, MainIn, HandlerIn
  <2>3. CASE HandlerWait \/ Cancel
    <3>1. ~stolen /\ thread_m' = Nobody
      BY <2>3, UnlockFacts DEF HandlerWait, Cancel
    <3>2. thread_m = MainThread /\ ~MainIn
      BY <2>3, <3>1 DEF HandlerWait, Cancel, Owned, HandlerIn
    <3>3. QED
      BY <2>3, <3>1, <3>2, WorkersFacts DEF HandlerWait, Cancel, Owned, InEnd,
                                            MainIn, HandlerIn
  <2>4. QED
    BY <1>3, <2>1, <2>2, <2>3 DEF Handler
<1>4. CASE UNCHANGED vars
  BY <1>4 DEF vars, Owned, InEnd, MainIn, HandlerIn
<1>5. QED
  BY <1>1, <1>2, <1>3, <1>4 DEF Next

-----------------------------------------------------------------------------
(* The count. To count are the threads that are marked and not between the *)
(* mark and the count.                                                     *)
ToCount == Marked \ Uncounted
Writing(w) == pc[w] \in {"write", "leaveWrite"}

Counted ==
  ~stolen =>
    /\ busyThreads = Cardinality(ToCount)
    /\ \A w \in Workers : Writing(w) => seen[w] = busyThreads
    /\ main = "write" => seen[MainThread] = busyThreads

LEMMA CountFacts ==
  ASSUME NEW S \in SUBSET Workers
  PROVE  /\ IsFiniteSet(S) /\ Cardinality(S) \in Nat
         /\ Cardinality(S) # threadPoolSize => \E w \in Workers : w \notin S
<1>1. IsFiniteSet(S)
  BY WorkersFacts, FS_Subset
<1>2. Cardinality(S) # threadPoolSize => S # Workers
  BY WorkersFacts
<1>3. QED
  BY <1>1, <1>2, FS_CardinalityType

LEMMA ToCountSet == ToCount \in SUBSET Workers
  BY DEF ToCount, Marked

(* The set of the counted changes in two steps only: main writes its new   *)
(* count, a thread writes its own.                                         *)
LEMMA ToCountKept ==
  ASSUME TInv, [Next]_vars, ~WriteMain, \A w \in Workers : ~WriteBusy(w)
  PROVE  ToCount' = ToCount /\ busyThreads' = busyThreads
<1> USE DEF poolVars, mainVars, endVars, history, TInv, TypeOK
<1>1. CASE \E w \in Workers : Find(w)
  BY <1>1 DEF Find, FirstFree, ToCount, Marked, Uncounted, Free
<1>2. CASE Accept \/ Sigint \/ LockMain \/ WaitThread \/ ThreadAvailable
           \/ NoWait \/ FindNone \/ UnlockMain
  BY <1>2 DEF Accept, Sigint, LockMain, WaitThread, ThreadAvailable, NoWait,
              FindNone, UnlockMain, ToCount, Marked, Uncounted, Free
<1>3. CASE ReadMain
  BY <1>3 DEF ReadMain, Read, ToCount, Marked, Uncounted, Free
<1>4. CASE Assign
  BY <1>4 DEF Assign, Goto, ToCount, Marked, Uncounted, Free
<1>5. ASSUME NEW w \in Workers, Worker(w) PROVE ToCount' = ToCount /\ busyThreads' = busyThreads
  <2> USE DEF At, Goto
  <2>1. CASE ClearBusy(w)
    BY <2>1 DEF ClearBusy, ToCount, Marked, Uncounted, Free, Signalled, Giving,
                Clearing
  <2>2. CASE Top(w) \/ EnterWait(w) \/ StartSession(w) \/ SetFileName(w)
             \/ Request(w) \/ RequestExits(w) \/ SyncDone(w)
    BY <2>2 DEF Top, EnterWait, StartSession, SetFileName, Request,
                RequestExits, SyncDone, ToCount, Marked, Uncounted, Free
  <2>3. CASE NapOver(w) \/ RoundDone(w) \/ LockEnd(w) \/ EndOnSigint(w)
             \/ FreeName(w) \/ TellHandler(w) \/ UnlockEnd(w) \/ Cleanup(w)
             \/ CancelWait(w)
    BY <2>3 DEF NapOver, RoundDone, LockEnd, EndOnSigint, FreeName,
                TellHandler, UnlockEnd, Cleanup, CancelWait, ToCount, Marked,
                Uncounted, Free
  <2>4. CASE EndSession(w)
    BY <2>4 DEF EndSession, ToCount, Marked, Uncounted, Free
  <2>5. CASE ReadBusy(w)
    BY <2>5 DEF ReadBusy, Read, ToCount, Marked, Uncounted, Free
  <2>6. QED
    BY <1>5, <2>1, <2>2, <2>3, <2>4, <2>5 DEF Worker
<1>6. CASE Handler
  BY <1>6 DEF Handler, HandlerLock, SessionsLeft, HandlerWait, AllEnded, Cancel,
              Join, ToCount, Marked, Uncounted, Free
<1>7. CASE UNCHANGED vars
  BY <1>7 DEF vars, ToCount, Marked, Uncounted, Free
<1>8. QED
  BY <1>1, <1>2, <1>3, <1>4, <1>5, <1>6, <1>7 DEF Next, Main

LEMMA ToCountUp ==
  ASSUME TInv, WriteMain
  PROVE  Cardinality(ToCount') = Cardinality(ToCount) + 1
<1>1. ToCount' = ToCount \cup {slot} /\ slot \notin ToCount
  BY DEF WriteMain, TInv, TypeOK, Signalled, Giving, Clearing, ToCount, Marked,
         Uncounted, Free, endVars
<1>2. IsFiniteSet(ToCount)
  BY CountFacts, ToCountSet
<1>3. QED
  BY <1>1, <1>2, FS_AddElement

LEMMA ToCountDown ==
  ASSUME TInv, NEW w \in Workers, WriteBusy(w)
  PROVE  Cardinality(ToCount') = Cardinality(ToCount) - 1
<1>1. ToCount' = ToCount \ {w} /\ w \in ToCount
  BY DEF WriteBusy, At, Goto, TInv, TypeOK, Signalled, Counting, Giving,
         ToCount, Marked, Uncounted, Free, mainVars
<1>2. IsFiniteSet(ToCount)
  BY CountFacts, ToCountSet
<1>3. QED
  BY <1>1, <1>2, FS_RemoveElement

(* What a thread has read to write it is read or used up in four steps.    *)
Counts(w) == ReadBusy(w) \/ WriteBusy(w)

LEMMA SeenKept ==
  ASSUME TInv, [Next]_vars, ~ReadMain, ~WriteMain,
         \A w \in Workers : ~Counts(w)
  PROVE  /\ seen' = seen
         /\ \A w \in Workers : Writing(w)' => Writing(w)
         /\ main' = "write" => main = "write"
<1> USE DEF poolVars, mainVars, endVars, history, TInv, TypeOK, Writing
<1>1. CASE \E w \in Workers : Find(w)
  BY <1>1 DEF Find
<1>2. CASE Accept \/ Sigint \/ LockMain \/ WaitThread \/ ThreadAvailable
           \/ NoWait \/ FindNone \/ UnlockMain
  BY <1>2 DEF Accept, Sigint, LockMain, WaitThread, ThreadAvailable, NoWait,
              FindNone, UnlockMain
<1>3. CASE Assign
  BY <1>3 DEF Assign, Goto
<1>4. ASSUME NEW w \in Workers, Worker(w)
      PROVE  /\ seen' = seen
             /\ \A v \in Workers : Writing(v)' => Writing(v)
             /\ main' = "write" => main = "write"
  <2> USE DEF At, Goto
  <2>1. CASE Top(w) \/ EnterWait(w) \/ StartSession(w) \/ SetFileName(w)
             \/ Request(w) \/ RequestExits(w) \/ SyncDone(w)
    BY <2>1 DEF Top, EnterWait, StartSession, SetFileName, Request,
                RequestExits, SyncDone
  <2>2. CASE NapOver(w) \/ RoundDone(w) \/ LockEnd(w) \/ EndOnSigint(w)
             \/ EndSession(w) \/ ClearBusy(w)
    BY <2>2 DEF NapOver, RoundDone, LockEnd, EndOnSigint, EndSession, ClearBusy
  <2>3. CASE FreeName(w) \/ TellHandler(w) \/ UnlockEnd(w) \/ Cleanup(w)
             \/ CancelWait(w)
    BY <2>3 DEF FreeName, TellHandler, UnlockEnd, Cleanup, CancelWait
  <2>4. QED
    BY <1>4, <2>1, <2>2, <2>3 DEF Worker, Counts
<1>5. CASE Handler
  BY <1>5 DEF Handler, HandlerLock, SessionsLeft, HandlerWait, AllEnded, Cancel,
              Join
<1>6. CASE UNCHANGED vars
  BY <1>6 DEF vars
<1>7. QED
  BY <1>1, <1>2, <1>3, <1>4, <1>5, <1>6 DEF Next, Main

(* A theft is never undone, nor a connection that came early.              *)
LEMMA HistoryStays ==
  ASSUME Flags, [Next]_vars PROVE (~stolen' => ~stolen) /\ (~early' => ~early)
<1> USE DEF Flags, poolVars, mainVars, endVars, history
<1>1. CASE Accept \/ Sigint \/ Main
  <2>1. CASE Accept \/ Sigint \/ LockMain
    BY <2>1, Zenon DEF Accept, Sigint, LockMain
  <2>2. CASE WaitThread \/ ThreadAvailable \/ NoWait \/ FindNone
    BY <2>2, Zenon DEF WaitThread, ThreadAvailable, NoWait, FindNone, Unlock
  <2>3. CASE ReadMain \/ WriteMain \/ Assign \/ UnlockMain
    BY <2>3, Zenon DEF ReadMain, WriteMain, Assign, UnlockMain, Unlock
  <2>4. CASE \E w \in Workers : Find(w)
    <3>1. UNCHANGED history
      BY <2>4 DEF Find
    <3>2. QED
      BY <3>1, Zenon
  <2>5. QED
    BY <1>1, <2>1, <2>2, <2>3, <2>4 DEF Main
<1>2. ASSUME NEW w \in Workers, Worker(w)
      PROVE  (~stolen' => ~stolen) /\ (~early' => ~early)
  <2>1. CASE Top(w) \/ EnterWait(w) \/ StartSession(w) \/ SetFileName(w)
    BY <2>1, Zenon DEF Top, EnterWait, StartSession, SetFileName, Unlock
  <2>2. CASE Request(w) \/ RequestExits(w) \/ SyncDone(w) \/ NapOver(w)
             \/ RoundDone(w) \/ LockEnd(w)
    BY <2>2, Zenon DEF Request, RequestExits, SyncDone, NapOver, RoundDone,
                       LockEnd
  <2>3. CASE EndSession(w) \/ EndOnSigint(w) \/ ReadBusy(w) \/ WriteBusy(w)
             \/ ClearBusy(w) \/ FreeName(w) \/ TellHandler(w)
    BY <2>3, Zenon DEF EndSession, EndOnSigint, ReadBusy, WriteBusy, ClearBusy,
                       FreeName, TellHandler
  <2>4. CASE UnlockEnd(w) \/ Cleanup(w) \/ CancelWait(w)
    BY <2>4, Zenon DEF UnlockEnd, Cleanup, CancelWait, Unlock
  <2>5. QED
    BY <1>2, <2>1, <2>2, <2>3, <2>4 DEF Worker
<1>3. CASE Handler
  BY <1>3, Zenon DEF Handler, HandlerLock, SessionsLeft, HandlerWait, AllEnded,
                     Cancel, Join, Unlock
<1>4. CASE UNCHANGED vars
  BY <1>4, Zenon DEF vars
<1>5. QED
  BY <1>1, <1>2, <1>3, <1>4 DEF Next

LEMMA InitCounted == Init => Counted
<1> SUFFICES ASSUME Init PROVE Counted
  OBVIOUS
<1>1. ToCount = {}
  BY DEF Init, ToCount, Marked, Free
<1>2. QED
  BY <1>1, FS_EmptySet DEF Init, Counted, Writing

LEMMA StepCounted == ASSUME TInv, Owned, Counted, [Next]_vars PROVE Counted'
<1> SUFFICES ASSUME ~stolen' PROVE Counted'
  BY DEF Counted
<1>0. ~stolen
  BY HistoryStays DEF TInv, TypeOK
<1>1. CASE WriteMain
  <2>1. \A w \in Workers : ~Writing(w)
    BY <1>0, <1>1, WorkersFacts DEF WriteMain, Owned, MainIn, InEnd, Writing
  <2>2. busyThreads' = busyThreads + 1
    BY <1>0, <1>1 DEF WriteMain, Write, Counted
  <2>3. QED
    BY <1>0, <1>1, <2>1, <2>2, ToCountUp DEF WriteMain, Counted, Writing,
                                             endVars
<1>2. ASSUME NEW w \in Workers, WriteBusy(w) PROVE Counted'
  <2>1. InEnd(w) /\ Writing(w)
    BY <1>2 DEF WriteBusy, At, InEnd, Writing
  <2>2. main # "write" /\ \A v \in Workers : v # w => ~Writing(v)
    BY <1>0, <2>1, WorkersFacts DEF Owned, MainIn, InEnd, Writing
  <2>3. busyThreads' = busyThreads - 1
    BY <1>0, <1>2, <2>1, PoolAssumption
       DEF WriteBusy, Write, Counted, TInv, TypeOK
  <2>4. main' # "write" /\ \A v \in Workers : ~Writing(v)'
    BY <1>2, <2>2 DEF WriteBusy, At, Goto, Writing, mainVars, TInv, TypeOK
  <2>5. Cardinality(ToCount') = Cardinality(ToCount) - 1
    BY <1>2, ToCountDown
  <2>6. QED
    BY <1>0, <2>3, <2>4, <2>5 DEF Counted
<1>3. CASE ~WriteMain /\ \A w \in Workers : ~WriteBusy(w)
  <2>1. ToCount' = ToCount /\ busyThreads' = busyThreads
    BY <1>3, ToCountKept
  <2>2. CASE ReadMain
    <3>1. /\ seen' = [seen EXCEPT ![MainThread] = busyThreads]
          /\ pc' = pc
      BY <2>2 DEF ReadMain, Read
    <3>2. \A w \in Workers : w # MainThread
      BY WorkersFacts
    <3>3. MainThread \in Threads /\ seen \in [Threads -> Int]
      BY DEF Threads, TInv, TypeOK
    <3>4. /\ seen'[MainThread] = busyThreads
          /\ \A w \in Workers : seen'[w] = seen[w]
      BY <3>1, <3>2, <3>3 DEF Threads
    <3>5. QED
      BY <1>0, <2>1, <3>1, <3>4 DEF Counted, Writing
  <2>3. ASSUME NEW w \in Workers, ReadBusy(w) PROVE Counted'
    <3>1. seen' = [seen EXCEPT ![w] = busyThreads]
      BY <2>3 DEF ReadBusy, Read
    <3>2. w # MainThread /\ w \in Threads /\ MainThread \in Threads
      BY WorkersFacts DEF Threads
    <3>3. main' = main /\ \A v \in Workers : v # w => pc'[v] = pc[v]
      BY <2>3 DEF ReadBusy, At, Goto, mainVars, TInv, TypeOK
    <3>4. seen'[w] = busyThreads /\ seen'[MainThread] = seen[MainThread]
      BY <3>1, <3>2 DEF TInv, TypeOK
    <3>5. \A v \in Workers : Writing(v)' => seen'[v] = busyThreads
      BY <1>0, <3>1, <3>3, <3>4 DEF Counted, Writing, TInv, TypeOK, Threads
    <3>6. QED
      BY <1>0, <2>1, <3>3, <3>4, <3>5 DEF Counted
  <2>4. CASE ~ReadMain /\ \A w \in Workers : ~ReadBusy(w)
    <3>1. /\ seen' = seen
          /\ \A w \in Workers : Writing(w)' => Writing(w)
          /\ main' = "write" => main = "write"
      BY <1>3, <2>4, SeenKept DEF Counts
    <3>2. QED
      BY <1>0, <2>1, <3>1 DEF Counted
  <2>5. QED
    BY <2>2, <2>3, <2>4
<1>4. QED
  BY <1>1, <1>2, <1>3

CInv == TInv /\ Owned /\ Counted

LEMMA StepCInv == ASSUME CInv, [Next]_vars PROVE CInv'
  BY StepTInv, StepOwned, StepCounted DEF CInv

(* The counter and the marks agree, up to the threads between the two      *)
(* statements, for any number of threads, through all ends of sessions,    *)
(* early connections, first waits without the mutex and SIGINT, as long as *)
(* no unlock has taken thread_m from a thread that held it.                *)
THEOREM CountCorrect == Spec => []BusyCount
<1>1. CInv => BusyCount
  BY DEF CInv, Counted, BusyCount, ToCount
<1>2. Init => CInv
  BY InitTInv, InitOwned, InitCounted DEF CInv
<1>3. CInv /\ [Next]_vars => CInv'
  BY StepCInv
<1>4. QED
  BY <1>1, <1>2, <1>3, PTL DEF Spec

-----------------------------------------------------------------------------
(* Before SIGINT, and unless a connection came before the threads all      *)
(* waited, nothing has been stolen: either no client has come yet and      *)
(* nobody holds thread_m, or a thread that is on its way back to its wait  *)
(* still holds it.                                                         *)
Fresh ==
  /\ thread_m = Nobody /\ main \in {"accept", "lock"}
  /\ \A w \in Workers : pc[w] \in {"top", "enter", "wait"}

Guarded ==
  handler = "none" /\ ~early =>
    /\ ~stolen /\ ~isSIGINT /\ cancelled = {}
    /\ \A w \in Workers : pc[w] \notin {"leaveRead", "leaveWrite", "leaveClear",
                                      "tell", "unlock", "cleanup", "gone"}
    /\ Fresh \/ \A w \in Workers : pc[w] \in {"top", "enter"} => thread_m = w

LEMMA InitGuarded == Init => Guarded
  BY DEF Init, Guarded, Fresh

LEMMA HonestUnlock ==
  ASSUME NEW t, Unlock(t), thread_m \in {Nobody, t}, ~stolen
  PROVE  ~stolen' /\ thread_m' = Nobody
  BY Zenon DEF Unlock

LEMMA LateEnough ==
  ASSUME LockMain, ~early'
  PROVE  \A w \in Workers : pc[w] \notin {"top", "enter"}
  BY Zenon DEF LockMain

LEMMA StepGuarded == ASSUME CInv, Guarded, [Next]_vars PROVE Guarded'
<1> SUFFICES ASSUME handler' = "none", ~early' PROVE Guarded'
  BY DEF Guarded
<1>0. ~early
  BY HistoryStays DEF CInv, TInv, TypeOK
<1> USE <1>0 DEF poolVars, mainVars, endVars, history
<1>1. CASE Accept \/ Sigint \/ Main
  <2> USE DEF MainRuns
  <2>1. CASE Accept \/ NoWait \/ FindNone \/ ReadMain \/ WriteMain
    BY <2>1 DEF Accept, NoWait, FindNone, ReadMain, WriteMain, Guarded, Fresh
  <2>2. CASE Sigint
    BY <2>2 DEF Sigint
  <2>3. CASE LockMain
    BY <2>3, LateEnough DEF LockMain, Guarded
  <2>4. CASE ThreadAvailable
    BY <2>4, WorkersFacts DEF ThreadAvailable, Lock, Guarded, Fresh
  <2>5. CASE WaitThread \/ UnlockMain
    <3>1. thread_m = MainThread /\ ~stolen /\ ~Fresh
      BY <2>5 DEF WaitThread, UnlockMain, Guarded, Fresh, CInv, Owned, MainIn
    <3>2. ~stolen'
      BY <2>5, <3>1, HonestUnlock DEF WaitThread, UnlockMain
    <3>3. QED
      BY <2>5, <3>1, <3>2, WorkersFacts DEF WaitThread, UnlockMain, Guarded
  <2>6. CASE Assign
    BY <2>6 DEF Assign, Goto, Guarded, Fresh, CInv, TInv, TypeOK
  <2>7. CASE \E w \in Workers : Find(w)
    BY <2>7 DEF Find, Guarded, Fresh
  <2>8. QED
    BY <1>1, <2>1, <2>2, <2>3, <2>4, <2>5, <2>6, <2>7 DEF Main
<1>2. ASSUME NEW w \in Workers, Worker(w) PROVE Guarded'
  <2> USE DEF At, Goto, CInv, TInv, TypeOK
  <2>1. CASE Top(w) \/ StartSession(w) \/ SetFileName(w) \/ Request(w)
             \/ RequestExits(w) \/ SyncDone(w) \/ NapOver(w) \/ RoundDone(w)
    BY <2>1 DEF Top, StartSession, SetFileName, Request, RequestExits,
                SyncDone, NapOver, RoundDone, Guarded, Fresh
  <2>2. CASE LockEnd(w)
    BY <2>2, WorkersFacts DEF LockEnd, Lock, Guarded, Fresh
  <2>3. CASE EndSession(w) \/ ReadBusy(w) \/ WriteBusy(w) \/ ClearBusy(w)
    BY <2>3 DEF EndSession, ReadBusy, WriteBusy, ClearBusy, Guarded, Fresh
  <2>4. CASE FreeName(w)
    BY <2>4 DEF FreeName, Guarded, Fresh, Owned, InEnd
  <2>5. CASE EndOnSigint(w) \/ TellHandler(w) \/ UnlockEnd(w) \/ Cleanup(w)
             \/ CancelWait(w)
    BY <2>5 DEF EndOnSigint, TellHandler, UnlockEnd, Cleanup, CancelWait,
                Guarded
  <2>6. CASE EnterWait(w)
    <3>1. thread_m \in {Nobody, w} /\ ~stolen /\ handler = "none"
      BY <2>6 DEF EnterWait, Guarded, Fresh
    <3>2. ~stolen' /\ thread_m' = Nobody
      BY <2>6, <3>1, HonestUnlock DEF EnterWait
    <3>3. CASE Fresh
      BY <2>6, <3>1, <3>2, <3>3 DEF EnterWait, Guarded, Fresh
    <3>4. CASE ~Fresh
      <4>1. \A v \in Workers : v # w => pc[v] \notin {"top", "enter"}
        BY <2>6, <3>1, <3>4 DEF EnterWait, Guarded
      <4>2. QED
        BY <2>6, <3>1, <3>2, <4>1 DEF EnterWait, Guarded
    <3>5. QED
      BY <3>3, <3>4
  <2>7. QED
    BY <1>2, <2>1, <2>2, <2>3, <2>4, <2>5, <2>6 DEF Worker
<1>3. CASE Handler
  BY <1>3 DEF Handler, HandlerLock, SessionsLeft, HandlerWait, AllEnded, Cancel,
              Join, HandlerRuns
<1>4. CASE UNCHANGED vars
  BY <1>4 DEF vars, Guarded, Fresh
<1>5. QED
  BY <1>1, <1>2, <1>3, <1>4 DEF Next

-----------------------------------------------------------------------------
(* The end. Two threads may count down at once after SIGINT, but then a    *)
(* count is lost, never made twice: the counter covers the sessions. So    *)
(* the handler that sees it at zero finds no session, and none begins, as  *)
(* the main thread stands still under it.                                  *)
Covered ==
  ~early =>
    /\ busyThreads >= Cardinality(ToCount)
    /\ \A w \in Workers : Writing(w) => seen[w] >= Cardinality(ToCount)

Ending ==
  /\ cancelled # {} => handler \in {"cancel", "join"}
  /\ ~early /\ handler \in {"cancel", "join"} =>
       \A w \in Workers : ~Counting(w)

EInv == CInv /\ Guarded /\ Covered /\ Ending

LEMMA CountedCovers == ASSUME TypeOK, Counted, ~stolen PROVE Covered
<1>1. Cardinality(ToCount) \in Nat
  BY CountFacts, ToCountSet
<1>2. QED
  BY <1>1 DEF Counted, Covered

LEMMA InitEInv == Init => EInv
<1> SUFFICES ASSUME Init PROVE EInv
  OBVIOUS
<1>1. CInv
  BY InitTInv, InitOwned, InitCounted DEF CInv
<1>2. ~stolen
  BY DEF Init
<1>3. Covered
  BY <1>1, <1>2, CountedCovers DEF CInv, TInv
<1>4. Ending
  BY DEF Init, Ending
<1>5. QED
  BY <1>1, <1>3, <1>4, InitGuarded DEF EInv

LEMMA StepCovered ==
  ASSUME EInv, CInv', Guarded', [Next]_vars PROVE Covered'
<1> SUFFICES ASSUME ~early' PROVE Covered'
  BY DEF Covered
<1>0. ~early
  BY HistoryStays DEF EInv, CInv, TInv, TypeOK
<1>1. CASE handler' = "none"
  <2>1. ~stolen'
    BY <1>1 DEF Guarded
  <2>2. TypeOK' /\ Counted'
    BY DEF CInv, TInv
  <2>3. Cardinality(ToCount') \in Nat
    <3>1. ToCount' \in SUBSET Workers
      BY DEF ToCount, Marked
    <3>2. QED
      BY <3>1, CountFacts
  <2>4. QED
    BY <2>1, <2>2, <2>3 DEF Counted, Covered
<1>2. CASE handler' # "none"
  <2>0. ~ReadMain /\ ~WriteMain
    BY <1>2 DEF ReadMain, WriteMain, MainRuns, endVars
  <2>1. Cardinality(ToCount) \in Nat
    BY CountFacts, ToCountSet
  <2>2. ASSUME NEW w \in Workers, WriteBusy(w) PROVE Covered'
    <3>1. seen' = [seen EXCEPT ![w] = 0] /\ busyThreads' = seen[w] - 1
      BY <2>2, PoolAssumption DEF WriteBusy, Write, EInv, CInv, TInv, TypeOK,
                                  Threads
    <3>2. Writing(w)
      BY <2>2 DEF WriteBusy, At, Writing
    <3>3. ~Writing(w)' /\ \A v \in Workers : v # w => pc'[v] = pc[v]
      BY <2>2 DEF WriteBusy, At, Goto, Writing, EInv, CInv, TInv, TypeOK
    <3>4. Cardinality(ToCount') = Cardinality(ToCount) - 1
      BY <2>2, ToCountDown DEF EInv, CInv
    <3>5. seen[w] \in Int /\ \A v \in Workers : seen[v] \in Int
      BY DEF EInv, CInv, TInv, TypeOK, Threads
    <3>6. busyThreads' >= Cardinality(ToCount')
      BY <1>0, <2>1, <3>1, <3>2, <3>4, <3>5 DEF EInv, Covered
    <3>7. \A v \in Workers : v # w => seen'[v] = seen[v]
      BY <3>1 DEF EInv, CInv, TInv, TypeOK, Threads
    <3>8. \A v \in Workers : Writing(v)' => seen'[v] >= Cardinality(ToCount')
      BY <1>0, <2>1, <3>3, <3>4, <3>5, <3>7 DEF EInv, Covered, Writing
    <3>9. QED
      BY <3>6, <3>8 DEF Covered
  <2>3. CASE \A w \in Workers : ~WriteBusy(w)
    <3>1. ToCount' = ToCount /\ busyThreads' = busyThreads
      BY <2>0, <2>3, ToCountKept DEF EInv, CInv
    <3>2. ASSUME NEW w \in Workers, ReadBusy(w) PROVE Covered'
      <4>1. seen' = [seen EXCEPT ![w] = busyThreads]
        BY <3>2 DEF ReadBusy, Read
      <4>2. w \in Threads /\ seen \in [Threads -> Int]
        BY DEF Threads, EInv, CInv, TInv, TypeOK
      <4>3. /\ seen'[w] = busyThreads
            /\ \A v \in Workers : v # w => seen'[v] = seen[v] /\ pc'[v] = pc[v]
        BY <3>2, <4>1, <4>2 DEF ReadBusy, At, Goto, EInv, CInv, TInv, TypeOK,
                                Threads
      <4>4. QED
        BY <1>0, <3>1, <4>3 DEF EInv, Covered, Writing
    <3>3. CASE \A w \in Workers : ~ReadBusy(w)
      <4>1. seen' = seen /\ \A w \in Workers : Writing(w)' => Writing(w)
        BY <2>0, <2>3, <3>3, SeenKept DEF Counts, EInv, CInv
      <4>2. QED
        BY <1>0, <3>1, <4>1 DEF EInv, Covered
    <3>4. QED
      BY <3>2, <3>3
  <2>4. QED
    BY <2>2, <2>3
<1>3. QED
  BY <1>1, <1>2

LEMMA NobodyCounts ==
  ASSUME EInv, ~early, busyThreads = 0
  PROVE  \A w \in Workers : ~Counting(w)
<1>1. IsFiniteSet(ToCount) /\ Cardinality(ToCount) \in Nat
  BY CountFacts, ToCountSet
<1>2. Cardinality(ToCount) = 0
  BY <1>1 DEF EInv, Covered
<1>3. ToCount = {}
  BY <1>1, <1>2, FS_EmptySet
<1>4. ASSUME NEW w \in Workers, Counting(w) PROVE w \in ToCount
  BY <1>4 DEF EInv, CInv, TInv, Signalled, Counting, InSession, Giving,
              ToCount, Marked, Uncounted, Free
<1>5. QED
  BY <1>3, <1>4

LEMMA StepEnding == ASSUME EInv, [Next]_vars PROVE Ending'
<1>0. ~early' => ~early
  BY HistoryStays DEF EInv, CInv, TInv, TypeOK
<1> USE DEF poolVars, mainVars, endVars, history, EInv, Ending
<1>1. CASE Accept \/ Sigint \/ Main
  BY <1>1 DEF Accept, Sigint, Main, LockMain, WaitThread, ThreadAvailable,
              NoWait, Find, FindNone, ReadMain, WriteMain, Assign, UnlockMain,
              MainRuns
<1>2. ASSUME NEW w \in Workers, Worker(w) PROVE Ending'
  <2> USE DEF At, Goto
  <2>1. cancelled' = cancelled
    BY <1>2 DEF Worker, Top, EnterWait, StartSession, SetFileName, Request,
                RequestExits, SyncDone, NapOver, RoundDone, LockEnd,
                EndSession, EndOnSigint, ReadBusy, WriteBusy, ClearBusy,
                FreeName, TellHandler, UnlockEnd, Cleanup, CancelWait
  <2>2. handler \in {"cancel", "join"} <=> handler' \in {"cancel", "join"}
    BY <1>2 DEF Worker, Top, EnterWait, StartSession, SetFileName, Request,
                RequestExits, SyncDone, NapOver, RoundDone, LockEnd,
                EndSession, EndOnSigint, ReadBusy, WriteBusy, ClearBusy,
                FreeName, TellHandler, UnlockEnd, Cleanup, CancelWait
  <2>3. \A v \in Workers : Counting(v)' => Counting(v)
    <3> USE DEF CInv, TInv, TypeOK, Counting, InSession
    <3>1. CASE Top(w) \/ EnterWait(w) \/ StartSession(w) \/ SetFileName(w)
               \/ Request(w) \/ RequestExits(w) \/ SyncDone(w)
      BY <3>1 DEF Top, EnterWait, StartSession, SetFileName, Request,
                  RequestExits, SyncDone
    <3>2. CASE NapOver(w) \/ RoundDone(w) \/ LockEnd(w) \/ EndSession(w)
               \/ EndOnSigint(w) \/ ReadBusy(w) \/ WriteBusy(w)
      BY <3>2 DEF NapOver, RoundDone, LockEnd, EndSession, EndOnSigint,
                  ReadBusy, WriteBusy
    <3>3. CASE ClearBusy(w) \/ FreeName(w) \/ TellHandler(w) \/ UnlockEnd(w)
               \/ Cleanup(w) \/ CancelWait(w)
      BY <3>3 DEF ClearBusy, FreeName, TellHandler, UnlockEnd, Cleanup,
                  CancelWait
    <3>4. QED
      BY <1>2, <3>1, <3>2, <3>3 DEF Worker
  <2>4. QED
    BY <1>0, <2>1, <2>2, <2>3
<1>3. CASE HandlerLock \/ SessionsLeft \/ HandlerWait
  BY <1>3 DEF HandlerLock, SessionsLeft, HandlerWait
<1>4. CASE AllEnded
  BY <1>0, <1>4, NobodyCounts DEF AllEnded, Counting, InSession
<1>5. CASE Cancel \/ Join
  BY <1>0, <1>5 DEF Cancel, Join, Counting, InSession
<1>6. CASE UNCHANGED vars
  BY <1>0, <1>6 DEF vars, Counting, InSession
<1>7. QED
  BY <1>1, <1>2, <1>3, <1>4, <1>5, <1>6 DEF Next, Handler

LEMMA StepEInv == ASSUME EInv, [Next]_vars PROVE EInv'
<1>1. CInv'
  BY StepCInv DEF EInv
<1>2. Guarded'
  BY StepGuarded DEF EInv
<1>3. QED
  BY <1>1, <1>2, StepCovered, StepEnding DEF EInv

(* The handler cancels no thread that has a session to begin, to serve or  *)
(* to count down, for any number of sessions that were running at SIGINT,  *)
(* any order in which they end, and with counts lost between them, where   *)
(* no connection came before the threads all waited for the first time.    *)
THEOREM SessionsOutlive == Spec => []NoSessionFreed
<1>1. EInv => NoSessionFreed
  BY DEF EInv, CInv, TInv, TypeOK, Ending, NoSessionFreed
<1>2. EInv /\ [Next]_vars => EInv'
  BY StepEInv
<1>3. QED
  BY InitEInv, <1>1, <1>2, PTL DEF Spec

-----------------------------------------------------------------------------
(* Handing over. A main thread that was woken finds a thread, as the one   *)
(* that woke it clears its mark before it lets go of thread_m, and nobody  *)
(* but main marks one.                                                     *)
FreeLeft ==
  handler = "none" /\ ~early =>
    /\ main = "woken" =>
         Free # {} \/ \E w \in Workers : pc[w] \in {"read", "write", "clear"}
    /\ main = "find" => Free # {}

HInv == EInv /\ FreeLeft

LEMMA StepFreeLeft == ASSUME HInv, [Next]_vars PROVE FreeLeft'
<1> SUFFICES ASSUME handler' = "none", ~early' PROVE FreeLeft'
  BY DEF FreeLeft
<1>0. ~early
  BY HistoryStays DEF HInv, EInv, CInv, TInv, TypeOK
<1> USE <1>0 DEF poolVars, mainVars, endVars, history, Free, FreeLeft
<1>1. CASE NoWait
  <2>1. ~stolen /\ thread_m = MainThread
    BY <1>1 DEF NoWait, MainRuns, HInv, EInv, CInv, Guarded, Owned, MainIn
  <2>2. \A w \in Workers : ~InEnd(w)
    BY <2>1, WorkersFacts DEF HInv, EInv, CInv, Owned
  <2>3. ToCount = Marked
    BY <1>1, <2>2 DEF NoWait, ToCount, Uncounted, InEnd
  <2>4. Cardinality(Marked) # threadPoolSize
    BY <1>1, <2>1, <2>3 DEF NoWait, HInv, EInv, CInv, Counted
  <2>5. \E w \in Workers : w \notin Marked
    BY <2>4, CountFacts DEF Marked
  <2>6. QED
    BY <1>1, <2>5 DEF NoWait, Marked
<1>2. CASE ThreadAvailable
  <2>1. ~stolen /\ thread_m = Nobody /\ main = "woken" /\ handler = "none"
    BY <1>2 DEF ThreadAvailable, Lock, MainRuns, HInv, EInv, Guarded
  <2>2. \A w \in Workers : ~InEnd(w)
    BY <2>1, WorkersFacts DEF HInv, EInv, CInv, Owned
  <2>3. Free # {}
    BY <2>1, <2>2 DEF HInv, InEnd
  <2>4. QED
    BY <1>2, <2>3 DEF ThreadAvailable
<1>3. CASE Accept \/ Sigint \/ LockMain \/ WaitThread \/ FindNone \/ ReadMain
           \/ WriteMain \/ Assign \/ UnlockMain \/ \E w \in Workers : Find(w)
  BY <1>3 DEF Accept, Sigint, LockMain, WaitThread, FindNone, ReadMain,
              WriteMain, Assign, UnlockMain, Find
<1>4. ASSUME NEW w \in Workers, Worker(w) PROVE FreeLeft'
  <2> USE DEF At, Goto, HInv, EInv, CInv, TInv, TypeOK
  <2>1. CASE Top(w) \/ EnterWait(w) \/ StartSession(w) \/ SetFileName(w)
             \/ Request(w) \/ RequestExits(w) \/ SyncDone(w)
    BY <2>1 DEF Top, EnterWait, StartSession, SetFileName, Request,
                RequestExits, SyncDone
  <2>2. CASE NapOver(w) \/ RoundDone(w) \/ LockEnd(w) \/ EndOnSigint(w)
    BY <2>2 DEF NapOver, RoundDone, LockEnd, EndOnSigint
  <2>3. CASE EndSession(w)
    BY <2>3 DEF EndSession
  <2>4. CASE ReadBusy(w) \/ WriteBusy(w)
    BY <2>4 DEF ReadBusy, WriteBusy
  <2>5. CASE ClearBusy(w)
    BY <2>5 DEF ClearBusy
  <2>6. CASE FreeName(w) \/ UnlockEnd(w) \/ Cleanup(w) \/ CancelWait(w)
    BY <2>6 DEF FreeName, UnlockEnd, Cleanup, CancelWait
  <2>7. CASE TellHandler(w)
    BY <2>7 DEF TellHandler
  <2>8. QED
    BY <1>4, <2>1, <2>2, <2>3, <2>4, <2>5, <2>6, <2>7 DEF Worker
<1>5. CASE Handler
  BY <1>5 DEF Handler, HandlerLock, SessionsLeft, HandlerWait, AllEnded, Cancel,
              Join, HInv
<1>6. CASE UNCHANGED vars
  BY <1>6 DEF vars, HInv
<1>7. QED
  BY <1>1, <1>2, <1>3, <1>4, <1>5, <1>6 DEF Next, Main

(* Until a connection has come before the threads all waited, every        *)
(* connection finds a free thread, and one that looks: the branch that the *)
(* code lacks, for no free thread, is not needed, for any number of        *)
(* threads and clients, and however sessions end.                          *)
THEOREM ConnectionsHandedOver == Spec => []HandOver
<1>1. Init => HInv
  BY InitEInv DEF Init, HInv, FreeLeft
<1>2. HInv /\ [Next]_vars => HInv'
  BY StepEInv, StepFreeLeft DEF HInv
<1>3. HInv => HandOver
  <2> SUFFICES ASSUME HInv, MainRuns, main = "find", ~early
               PROVE  Free # {} /\ \A w \in Free : pc[w] = "wait"
    BY DEF HandOver
  <2>1. Free # {}
    BY DEF HInv, FreeLeft, MainRuns
  <2>2. ASSUME NEW w \in Free PROVE pc[w] = "wait"
    <3>1. w \in Workers /\ ~isBusy[w]
      BY DEF Free
    <3>2. thread_m = MainThread /\ ~stolen
      BY DEF HInv, EInv, CInv, Guarded, Owned, MainIn, MainRuns
    <3>3. ~InEnd(w)
      BY <3>1, <3>2, WorkersFacts DEF HInv, EInv, CInv, Owned
    <3>4. ~Counting(w)
      BY <3>1 DEF HInv, EInv, CInv, TInv, Signalled
    <3>5. pc[w] \notin {"top", "enter", "cleanup", "gone"}
      BY <3>1, <3>2, WorkersFacts DEF HInv, EInv, Guarded, Fresh, MainRuns
    <3>6. QED
      BY <3>1, <3>3, <3>4, <3>5
         DEF HInv, EInv, CInv, TInv, TypeOK, InEnd, Counting, InSession
  <2>3. QED
    BY <2>1, <2>2
<1>4. QED
  BY <1>1, <1>2, <1>3, PTL DEF Spec
=============================================================================
