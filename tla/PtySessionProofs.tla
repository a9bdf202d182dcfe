-------------------------- MODULE PtySessionProofs --------------------------
(***************************************************************************)
(* The safety properties of PtySession, for any number of children, keys   *)
(* and pastes, any tokens and any short writes: term.lock excludes, every  *)
(* worker keeps to its own pty, no output is lost, and writes arrive in    *)
(* order.                                                                  *)
(*                                                                         *)
(* The first two rest on the lock and on who serves which child (Inv).     *)
(* The others also need what has become of the children before the newest  *)
(* one, and that nothing is written to those after it (HistoryInv).        *)
(*                                                                         *)
(* Most steps move one thread and leave the descriptor alone.  Moves,      *)
(* Takes and Gives say what such steps preserve, by what they do with the  *)
(* lock; only the steps that replace a child need an argument of their     *)
(* own.                                                                    *)
(***************************************************************************)
EXTENDS PtySession, TLAPS, SequenceTheorems

\* Where a worker has no business with any pty, and where it is between its
\* own pty and the next one.
Away == {"none", "forked", "done"}
Between == {"closed", "fork"}

\* Where a thread can be.
Places ==
  {"none", "idle", "start", "started", "send", "check", "write", "resize", "scroll", "draw",
   "clamp", "drawn", "poll", "read", "lock", "parse", "paste", "exit", "close", "closed",
   "fork", "forked", "done"}

TypeInv ==
  /\ pc \in [Threads -> Places]
  /\ lock \in Threads \cup {NoOne}
  /\ fd \in {NoFd, PtyFd} /\ open \in 0 .. MaxForks

\* Who is between the two ends of a critical section has the lock.
LockInv == \A t \in Threads : pc[t] \in Holding => lock = t

\* One worker at most is in the service of a child, and term.fd is what this
\* worker has made of it.
ServiceInv ==
  \A g \in Children :
    pc[g] \notin Away =>
      /\ \A h \in Children : pc[h] \notin Away => h = g
      /\ pc[g] = "closed" => fd = PtyFd /\ open = 0
      /\ pc[g] = "fork" => fd = NoFd /\ open = 0
      /\ pc[g] \notin Between => fd = PtyFd /\ open = g

\* Children are numbered in the order in which they are forked.
LastForked(n) ==
  /\ \A h \in Children : h <= n => pc[h] # "none"
  /\ \A h \in Children : h > n => pc[h] = "none"

ChildrenInv == \E n \in 0 .. MaxForks : LastForked(n)

Inv == TypeInv /\ LockInv /\ ServiceInv /\ ChildrenInv

\* The part of the state that Inv is about.
core == <<pc, lock, fd, open>>

\* A state a worker can be in that serves its child.
Ordinary(a) == a \in Places /\ a \notin Away /\ a \notin Between
-----------------------------------------------------------------------------
(* Threads                                                                 *)

LEMMA ThreadFacts ==
  /\ MaxForks \in Nat \ {0}
  /\ UI \in Threads /\ Render \in Threads /\ Children \subseteq Threads
  /\ UI \notin Children /\ Render \notin Children /\ UI # Render
  /\ NoOne \notin Threads
  /\ NoFd # PtyFd
  /\ 0 \notin Children
BY PtyAssumption DEF UI, Render, NoOne, NoFd, PtyFd, Threads, Children

\* The newest child is the last one that was forked.
LEMMA NewestIsLast ==
  ASSUME ChildrenInv
  PROVE  Newest \in 0 .. MaxForks /\ LastForked(Newest)
BY DEF ChildrenInv, Newest, LastForked

LEMMA Unchanged ==
  ASSUME Inv, UNCHANGED core
  PROVE  Inv'
BY DEF Inv, TypeInv, LockInv, ServiceInv, ChildrenInv, LastForked, core, Away, Between, Holding

\* A thread moves and leaves the lock alone.
LEMMA Moves ==
  ASSUME Inv, NEW t \in Threads, NEW STATE a, NEW STATE b,
         Goes(t, a, b), UNCHANGED <<lock, fd, open>>,
         Ordinary(a), Ordinary(b),
         b \in Holding => lock = t
  PROVE  Inv'
<1>1. pc[t] = a /\ pc' = [pc EXCEPT ![t] = b]
  BY DEF Goes
<1>2. TypeInv'
  BY <1>1 DEF Inv, TypeInv, Ordinary
<1>3. LockInv'
  BY <1>1 DEF Inv, TypeInv, LockInv
<1>4. ServiceInv'
  BY <1>1, ThreadFacts DEF Inv, TypeInv, ServiceInv, Ordinary, Away, Between
<1>5. ChildrenInv'
  BY <1>1, ThreadFacts DEF Inv, TypeInv, ChildrenInv, LastForked, Ordinary, Away, Between
<1> QED
  BY <1>2, <1>3, <1>4, <1>5 DEF Inv

\* A thread moves and takes the lock.
LEMMA Takes ==
  ASSUME Inv, NEW t \in Threads, NEW STATE a, NEW STATE b,
         Goes(t, a, b), Lock(t), UNCHANGED <<fd, open>>,
         Ordinary(a), Ordinary(b)
  PROVE  Inv'
<1>1. pc[t] = a /\ pc' = [pc EXCEPT ![t] = b] /\ lock = NoOne /\ lock' = t
  BY DEF Goes, Lock
<1>2. TypeInv'
  BY <1>1 DEF Inv, TypeInv, Ordinary
<1>3. LockInv'
  BY <1>1, ThreadFacts DEF Inv, TypeInv, LockInv
<1>4. ServiceInv'
  BY <1>1, ThreadFacts DEF Inv, TypeInv, ServiceInv, Ordinary, Away, Between
<1>5. ChildrenInv'
  BY <1>1, ThreadFacts DEF Inv, TypeInv, ChildrenInv, LastForked, Ordinary, Away, Between
<1> QED
  BY <1>2, <1>3, <1>4, <1>5 DEF Inv

\* A thread moves and gives the lock back.
LEMMA Gives ==
  ASSUME Inv, NEW t \in Threads, NEW STATE a, NEW STATE b,
         Goes(t, a, b), Unlock(t), UNCHANGED <<fd, open>>,
         Ordinary(a), Ordinary(b), b \notin Holding
  PROVE  Inv'
<1>1. pc[t] = a /\ pc' = [pc EXCEPT ![t] = b] /\ lock = t /\ lock' = NoOne
  BY DEF Goes, Unlock
<1>2. TypeInv'
  BY <1>1 DEF Inv, TypeInv, Ordinary
<1>3. LockInv'
  BY <1>1, ThreadFacts DEF Inv, TypeInv, LockInv
<1>4. ServiceInv'
  BY <1>1, ThreadFacts DEF Inv, TypeInv, ServiceInv, Ordinary, Away, Between
<1>5. ChildrenInv'
  BY <1>1, ThreadFacts DEF Inv, TypeInv, ChildrenInv, LastForked, Ordinary, Away, Between
<1> QED
  BY <1>2, <1>3, <1>4, <1>5 DEF Inv
-----------------------------------------------------------------------------
(* The steps that replace a child                                          *)

\* The first child: nobody serves one, for fd is free and the only worker
\* that could be about to fork would hold the lock.
LEMMA StartForkKeepsInv ==
  ASSUME Inv, StartFork
  PROVE  Inv'
<1>1. PICK n \in 0 .. MaxForks : n = Newest /\ LastForked(n) /\ n < MaxForks
  BY NewestIsLast DEF Inv, StartFork, Fork
<1>2. n + 1 \in Children
  BY <1>1, ThreadFacts DEF Children
<1>3. /\ pc[UI] = "started" /\ fd = NoFd /\ lock = UI /\ lock' = NoOne
      /\ pc' = [pc EXCEPT ![UI] = "idle", ![n + 1] = "poll"]
      /\ open' = n + 1 /\ fd' = PtyFd
  BY <1>1 DEF StartFork, Fork, Unlock
<1>4. \A g \in Children : pc[g] \in Away
  BY <1>3, ThreadFacts DEF Inv, LockInv, ServiceInv, Between, Holding
<1>5. TypeInv'
  BY <1>1, <1>2, <1>3, ThreadFacts DEF Inv, TypeInv, Places, Children
<1>6. LockInv'
  BY <1>2, <1>3, ThreadFacts DEF Inv, TypeInv, LockInv, Holding
<1>7. ServiceInv'
  BY <1>2, <1>3, <1>4, ThreadFacts DEF Inv, TypeInv, ServiceInv, Away, Between
<1>8. LastForked(n + 1)'
  BY <1>1, <1>2, <1>3, ThreadFacts DEF Inv, TypeInv, LastForked, Children
<1>9. ChildrenInv'
  BY <1>1, <1>8, ThreadFacts DEF ChildrenInv
<1> QED
  BY <1>5, <1>6, <1>7, <1>9 DEF Inv

LEMMA CloseKeepsInv ==
  ASSUME Inv, NEW g \in Children, Close(g)
  PROVE  Inv'
<1>1. /\ pc[g] = "close" /\ pc' = [pc EXCEPT ![g] = "closed"]
      /\ open' = 0 /\ UNCHANGED <<lock, fd>>
  BY DEF Close, Goes
<1>2. TypeInv'
  BY <1>1, ThreadFacts DEF Inv, TypeInv, Places
<1>3. LockInv'
  BY <1>1, ThreadFacts DEF Inv, TypeInv, LockInv, Holding
<1>4. ServiceInv'
  BY <1>1, ThreadFacts DEF Inv, TypeInv, ServiceInv, Away, Between
<1>5. ChildrenInv'
  BY <1>1, ThreadFacts DEF Inv, TypeInv, ChildrenInv, LastForked
<1> QED
  BY <1>2, <1>3, <1>4, <1>5 DEF Inv

LEMMA ClearFdKeepsInv ==
  ASSUME Inv, NEW g \in Children, ClearFd(g)
  PROVE  Inv'
<1>1. /\ pc[g] = "closed" /\ pc' = [pc EXCEPT ![g] = "fork"]
      /\ fd' = NoFd /\ UNCHANGED <<lock, open>>
  BY DEF ClearFd, Goes
<1>2. TypeInv'
  BY <1>1, ThreadFacts DEF Inv, TypeInv, Places
<1>3. LockInv'
  BY <1>1, ThreadFacts DEF Inv, TypeInv, LockInv, Holding
<1>4. ServiceInv'
  BY <1>1, ThreadFacts DEF Inv, TypeInv, ServiceInv, Away, Between
<1>5. ChildrenInv'
  BY <1>1, ThreadFacts DEF Inv, TypeInv, ChildrenInv, LastForked
<1> QED
  BY <1>2, <1>3, <1>4, <1>5 DEF Inv

\* The next child: its worker is the only one in service, for the old one was
\* and is not any more.
LEMMA ForkNextKeepsInv ==
  ASSUME Inv, NEW g \in Children, ForkNext(g)
  PROVE  Inv'
<1>1. PICK n \in 0 .. MaxForks : n = Newest /\ LastForked(n) /\ n < MaxForks
  BY NewestIsLast DEF Inv, ForkNext, Fork
<1>2. n + 1 \in Children
  BY <1>1, ThreadFacts DEF Children
<1>3. /\ pc[g] = "fork" /\ UNCHANGED lock
      /\ pc' = [pc EXCEPT ![g] = "forked", ![n + 1] = "poll"]
      /\ open' = n + 1 /\ fd' = PtyFd
  BY <1>1 DEF ForkNext, Fork
<1>4. pc[n + 1] = "none" /\ n + 1 # g
  BY <1>1, <1>2, <1>3 DEF LastForked
<1>5. \A h \in Children \ {g} : pc[h] \in Away
  BY <1>3 DEF Inv, ServiceInv, Away
<1>6. TypeInv'
  BY <1>1, <1>2, <1>3, ThreadFacts DEF Inv, TypeInv, Places, Children
<1>7. LockInv'
  BY <1>2, <1>3, <1>4, ThreadFacts DEF Inv, TypeInv, LockInv, Holding
<1>8. ServiceInv'
  BY <1>2, <1>3, <1>4, <1>5, ThreadFacts DEF Inv, TypeInv, ServiceInv, Away, Between
<1>9. LastForked(n + 1)'
  BY <1>1, <1>2, <1>3, <1>4, ThreadFacts DEF Inv, TypeInv, LastForked, Children
<1>10. ChildrenInv'
  BY <1>1, <1>9, ThreadFacts DEF ChildrenInv
<1> QED
  BY <1>6, <1>7, <1>8, <1>10 DEF Inv

LEMMA ExitUnlockKeepsInv ==
  ASSUME Inv, NEW g \in Children, ExitUnlock(g)
  PROVE  Inv'
<1>1. /\ pc[g] = "forked" /\ pc' = [pc EXCEPT ![g] = "done"]
      /\ lock = g /\ lock' = NoOne /\ UNCHANGED <<fd, open>>
  BY DEF ExitUnlock, Goes, Unlock
<1>2. TypeInv'
  BY <1>1, ThreadFacts DEF Inv, TypeInv, Places
<1>3. LockInv'
  BY <1>1, ThreadFacts DEF Inv, TypeInv, LockInv, Holding
<1>4. ServiceInv'
  BY <1>1, ThreadFacts DEF Inv, TypeInv, ServiceInv, Away, Between
<1>5. ChildrenInv'
  BY <1>1, ThreadFacts DEF Inv, TypeInv, ChildrenInv, LastForked
<1> QED
  BY <1>2, <1>3, <1>4, <1>5 DEF Inv
-----------------------------------------------------------------------------
(* The other steps                                                         *)

\* Writing keeps the lock as it is: a reply is written with it, a key or a
\* pasted text without.
LEMMA WriteKeepsInv ==
  ASSUME Inv, NEW t \in {UI} \cup Children, WriteFull(t)
  PROVE  Inv'
<1> t \in Threads
  BY ThreadFacts
<1>1. Ordinary(AfterWrite(t)) /\ (AfterWrite(t) \in Holding => lock = t)
  BY DEF AfterWrite, Ordinary, Places, Away, Between, Holding
<1>2. Ordinary("check") /\ Ordinary("write") /\ "write" \notin Holding
  BY DEF Ordinary, Places, Away, Between, Holding
<1>3. CASE WriteNothing(t)
  BY <1>1, <1>2, <1>3, Moves DEF WriteNothing
<1>4. CASE WriteStart(t)
  BY <1>2, <1>4, Moves DEF WriteStart
<1>5. CASE WriteSome(t)
  <2>1. PICK n \in 1 .. left[t] : Goes(t, "write", IF n = left[t] THEN AfterWrite(t) ELSE "write")
    BY <1>5 DEF WriteSome
  <2>2. UNCHANGED <<lock, fd, open>>
    BY <1>5 DEF WriteSome
  <2> DEFINE b == IF n = left[t] THEN AfterWrite(t) ELSE "write"
  <2>3. Ordinary(b) /\ (b \in Holding => lock = t)
    BY <1>1, <1>2
  <2> HIDE DEF b
  <2>4. Goes(t, "write", b)
    BY <2>1 DEF b
  <2> QED
    BY <1>2, <2>2, <2>3, <2>4, Moves
<1>6. CASE WriteFails(t)
  BY <1>6, Unchanged DEF WriteFails, core
<1> QED
  BY <1>3, <1>4, <1>5, <1>6 DEF WriteFull

LEMMA UIKeepsInv ==
  ASSUME Inv, UICall \/ UIStep
  PROVE  Inv'
<1> UI \in Threads
  BY ThreadFacts
<1> USE DEF Ordinary, Places, Away, Between, Holding
<1>1. CASE StartCall
  BY <1>1, Moves DEF StartCall
<1>2. CASE SendData
  BY <1>2, Moves DEF SendData
<1>3. CASE ResizeCall
  BY <1>3, Moves DEF ResizeCall
<1>4. CASE ScrollCall
  BY <1>4, Moves DEF ScrollCall
<1>5. CASE StartLock
  BY <1>5, Takes DEF StartLock
<1>6. CASE StartTwice
  BY <1>6, Moves DEF StartTwice
<1>7. CASE StartFork
  BY <1>7, StartForkKeepsInv
<1>8. CASE SendReset
  BY <1>8, Moves DEF SendReset
<1>9. CASE WriteFull(UI)
  BY <1>9, WriteKeepsInv
<1>10. CASE Resize
  BY <1>10, Moves DEF Resize
<1>11. CASE ScrollBy
  BY <1>11, Moves DEF ScrollBy
<1>12. CASE ForkFails(UI)
  BY <1>12, Unchanged DEF ForkFails, core
<1> QED
  BY <1>1, <1>2, <1>3, <1>4, <1>5, <1>6, <1>7, <1>8, <1>9, <1>10, <1>11, <1>12
     DEF UICall, UIStep

LEMMA RenderKeepsInv ==
  ASSUME Inv, DrawLock \/ RenderStep
  PROVE  Inv'
<1> Render \in Threads
  BY ThreadFacts
<1> USE DEF Ordinary, Places, Away, Between, Holding
<1>1. CASE DrawLock
  BY <1>1, Takes DEF DrawLock
<1>2. CASE DrawLook
  <2>1. lock = Render
    BY <1>2 DEF DrawLook, Goes, Inv, LockInv
  <2> QED
    BY <1>2, <2>1, Moves DEF DrawLook
<1>3. CASE DrawClamp
  <2>1. lock = Render
    BY <1>3 DEF DrawClamp, Goes, Inv, LockInv
  <2> QED
    BY <1>3, <2>1, Moves DEF DrawClamp
<1>4. CASE DrawUnlock
  BY <1>4, Gives DEF DrawUnlock
<1> QED
  BY <1>1, <1>2, <1>3, <1>4 DEF RenderStep

LEMMA WorkerKeepsInv ==
  ASSUME Inv, NEW g \in Children, WorkerStep(g)
  PROVE  Inv'
<1> g \in Threads
  BY ThreadFacts
<1> USE DEF Ordinary, Places, Away, Between, Holding
<1>1. CASE Poll(g)
  BY <1>1, Moves DEF Poll
<1>2. CASE Read(g)
  <2>1. UNCHANGED <<lock, fd, open>>
    BY <1>2 DEF Read
  <2>2. Goes(g, "read", "lock") \/ Goes(g, "read", "exit") \/ Goes(g, "read", "paste")
    BY <1>2 DEF Read
  <2> QED
    BY <2>1, <2>2, Moves
<1>3. CASE ParseLock(g)
  BY <1>3, Takes DEF ParseLock
<1>4. CASE ParseToken(g)
  <2>1. UNCHANGED <<lock, fd, open>>
    BY <1>4 DEF ParseToken
  <2>2. Goes(g, "parse", "check") \/ Goes(g, "parse", "parse")
    BY <1>4 DEF ParseToken
  <2>3. lock = g
    BY <2>2 DEF Goes, Inv, LockInv
  <2> QED
    BY <2>1, <2>2, <2>3, Moves
<1>5. CASE ParseUnlock(g)
  BY <1>5, Gives DEF ParseUnlock
<1>6. CASE NoPaste(g)
  BY <1>6, Moves DEF NoPaste
<1>7. CASE Paste(g)
  BY <1>7, Moves DEF Paste
<1>8. CASE WriteFull(g)
  BY <1>8, WriteKeepsInv
<1>9. CASE ExitLock(g)
  BY <1>9, Takes DEF ExitLock
<1>10. CASE Close(g)
  BY <1>10, CloseKeepsInv
<1>11. CASE ClearFd(g)
  BY <1>11, ClearFdKeepsInv
<1>12. CASE ForkNext(g)
  BY <1>12, ForkNextKeepsInv
<1>13. CASE ExitUnlock(g)
  BY <1>13, ExitUnlockKeepsInv
<1>14. CASE ForkFails(g)
  BY <1>14, Unchanged DEF ForkFails, core
<1> QED
  BY <1>1, <1>2, <1>3, <1>4, <1>5, <1>6, <1>7, <1>8, <1>9, <1>10, <1>11, <1>12, <1>13, <1>14
     DEF WorkerStep

LEMMA ChildKeepsInv ==
  ASSUME Inv, NEW g \in Children, ChildStep(g)
  PROVE  Inv'
BY Unchanged DEF ChildStep, PrintToken, Drain, Exit, core
-----------------------------------------------------------------------------
LEMMA InitInv == Init => Inv
<1> SUFFICES ASSUME Init PROVE Inv
  OBVIOUS
<1>1. TypeInv
  BY ThreadFacts DEF Init, TypeInv, Places
<1>2. LockInv
  BY DEF Init, LockInv, Holding
<1>3. \A g \in Children : pc[g] = "none"
  BY ThreadFacts DEF Init, Threads
<1>4. ServiceInv
  BY <1>3 DEF ServiceInv, Away
<1>5. LastForked(0)
  BY <1>3 DEF LastForked, Children
<1>6. ChildrenInv
  BY <1>5, ThreadFacts DEF ChildrenInv
<1> QED
  BY <1>1, <1>2, <1>4, <1>6 DEF Inv

LEMMA NextInv == Inv /\ [Next]_vars => Inv'
<1> SUFFICES ASSUME Inv, [Next]_vars PROVE Inv'
  OBVIOUS
<1>1. CASE UICall \/ UIStep
  BY <1>1, UIKeepsInv
<1>2. CASE DrawLock \/ RenderStep
  BY <1>2, RenderKeepsInv
<1>3. CASE \E g \in Children : WorkerStep(g) \/ ChildStep(g)
  BY <1>3, WorkerKeepsInv, ChildKeepsInv
<1>4. CASE UNCHANGED vars
  BY <1>4, Unchanged DEF vars, core
<1> QED
  BY <1>1, <1>2, <1>3, <1>4 DEF Next

\* At most one thread is inside a critical section of term.lock, also a worker
\* that writes a reply in the middle of parsing.
THEOREM LockExcludes == Spec => []MutualExclusion
<1>1. Inv => MutualExclusion
  BY DEF Inv, LockInv, MutualExclusion
<1> QED
  BY <1>1, InitInv, NextInv, PTL DEF Spec

\* A worker polls, reads and writes its own child's pty, though term.fd is read
\* without the lock, other workers close it and forkpty gives the number again.
THEOREM WorkersKeepToTheirPty == Spec => []OwnPty
<1>1. Inv => OwnPty
  BY DEF Inv, ServiceInv, Away, Between, OwnPty
<1> QED
  BY <1>1, InitInv, NextInv, PTL DEF Spec
-----------------------------------------------------------------------------
(* Children that have gone, and children that are still to come            *)

Tokens == [by : Children, nth : Nat, kind : {"text", "query"}]

OutputTypes ==
  /\ printed \in [Children -> Nat]
  /\ unread \in [Children -> Seq(Tokens)]
  /\ got \in [Children -> Seq(Tokens)]
  /\ parsed \in Seq(Tokens)

WriterTypes ==
  /\ left \in [Threads -> Nat] /\ sent \in [Threads -> Nat]
  /\ input \in [Children -> Seq(Threads \X Nat)]

\* A worker that has found its child gone, and one that has been replaced.
HasGone == {"exit", "close", "closed", "fork", "forked", "done"}
Replaced == {"forked", "done"}

\* The worker of a child that has gone has read everything.
GoneAt(g) == pc[g] \in HasGone => g \notin alive /\ unread[g] = <<>>

\* Only between reading and the end of parsing is there something to parse: a
\* reply is written with the lock held, so that WriteFull goes back to parsing.
BusyAt(g) ==
  got[g] # <<>> => pc[g] = "lock" \/ (lock = g /\ pc[g] \in {"parse", "check", "write"})

ServedInv == \A g \in Children : GoneAt(g) /\ BusyAt(g)

\* Children before the newest one are replaced for good.
PastInv ==
  \A n \in 0 .. MaxForks : LastForked(n) =>
    \A g \in Children : g < n => pc[g] \in Replaced

\* The pty that is open is the newest child's, and nothing has been written to
\* children that are still to come.
OpenInv == open # 0 => LastForked(open)
FreshInv == \A g \in Children : pc[g] = "none" => input[g] = <<>>

HistoryInv == ServedInv /\ PastInv /\ OpenInv /\ FreshInv

LEMMA OneLast ==
  ASSUME NEW m \in 0 .. MaxForks, NEW n \in 0 .. MaxForks, LastForked(m), LastForked(n)
  PROVE  m = n
<1>1. MaxForks \in Nat
  BY PtyAssumption
<1>2. ~ (m < n)
  BY <1>1 DEF LastForked, Children
<1>3. ~ (n < m)
  BY <1>1 DEF LastForked, Children
<1>4. QED
  BY <1>1, <1>2, <1>3

\* A step of thread t that starts no child.
LEMMA ThreadKeepsHistory ==
  ASSUME TypeInv, HistoryInv, NEW t \in Threads, NEW b,
         pc' = [pc EXCEPT ![t] = b], pc[t] # "none", b # "none",
         pc[t] \in Replaced => b \in Replaced,
         lock' = lock \/ (lock = NoOne /\ lock' = t) \/ (lock = t /\ lock' = NoOne),
         open' \in {open, 0}, alive' = alive,
         \A h \in Children \ {t} : unread'[h] = unread[h] /\ got'[h] = got[h],
         \A h \in Children : pc[h] = "none" => input'[h] = input[h],
         t \in Children => GoneAt(t)' /\ BusyAt(t)'
  PROVE  HistoryInv'
<1>1. \A h \in Children : h \in Threads /\ h # NoOne
  BY ThreadFacts
<1>2. \A h \in Children \ {t} : pc'[h] = pc[h]
  BY <1>1 DEF TypeInv
<1>3. \A h \in Children : pc'[h] = "none" <=> pc[h] = "none"
  BY <1>1, <1>2 DEF TypeInv
<1>4. ServedInv'
  <2>1. ASSUME NEW h \in Children \ {t}
        PROVE  GoneAt(h)' /\ BusyAt(h)'
    <3>1. pc'[h] = pc[h] /\ unread'[h] = unread[h] /\ got'[h] = got[h]
      BY <1>2
    <3>2. lock = h => lock' = h
      BY <1>1
    <3>3. GoneAt(h) /\ BusyAt(h)
      BY DEF HistoryInv, ServedInv
    <3>4. QED
      BY <3>1, <3>2, <3>3 DEF GoneAt, BusyAt
  <2>2. QED
    BY <2>1 DEF ServedInv
<1>5. \A n : LastForked(n)' <=> LastForked(n)
  BY <1>3 DEF LastForked
<1>6. PastInv'
  <2>1. ASSUME NEW n \in 0 .. MaxForks, LastForked(n)', NEW g \in Children, g < n
        PROVE  pc'[g] \in Replaced
    <3>1. pc[g] \in Replaced
      BY <1>5, <2>1 DEF HistoryInv, PastInv
    <3>2. QED
      BY <1>1, <1>2, <3>1 DEF TypeInv
  <2>2. QED
    BY <2>1 DEF PastInv
<1>7. OpenInv'
  BY <1>5 DEF HistoryInv, OpenInv
<1>8. FreshInv'
  BY <1>3 DEF HistoryInv, FreshInv
<1>9. QED
  BY <1>4, <1>6, <1>7, <1>8 DEF HistoryInv

\* A step that moves no thread.
LEMMA StillHistory ==
  ASSUME HistoryInv, UNCHANGED <<pc, lock, open, got, input>>, alive' \subseteq alive,
         \A g \in Children : unread'[g] = unread[g] \/ g \in alive
  PROVE  HistoryInv'
<1>1. ServedInv'
  BY DEF HistoryInv, ServedInv, GoneAt, BusyAt
<1>2. \A n : LastForked(n)' <=> LastForked(n)
  BY DEF LastForked
<1>3. QED
  BY <1>1, <1>2 DEF HistoryInv, PastInv, OpenInv, FreshInv

\* A new child: nobody is in service any more.
LEMMA ForkKeepsHistory ==
  ASSUME Inv, HistoryInv, NEW t \in Threads, NEW b, Fork(t, b),
         pc[t] # "none", b # "none", t \in Children => pc[t] = "fork" /\ b = "forked",
         \A g \in Children \ {t} : pc[g] \in Away,
         lock' = lock \/ (lock = t /\ t = UI /\ lock' = NoOne),
         UNCHANGED <<output, input>>
  PROVE  HistoryInv'
<1>1. PICK n \in 0 .. MaxForks : n = Newest /\ LastForked(n) /\ n < MaxForks
  BY NewestIsLast DEF Inv, Fork
<1>2. n + 1 \in Children /\ n + 1 \in 0 .. MaxForks
  BY <1>1, ThreadFacts DEF Children
<1>3. /\ pc' = [pc EXCEPT ![t] = b, ![n + 1] = "poll"]
      /\ open' = n + 1 /\ alive' = alive \cup {n + 1}
  BY <1>1 DEF Fork
<1>4. pc[n + 1] = "none" /\ n + 1 # t
  BY <1>1, <1>2, ThreadFacts DEF LastForked
<1>5. \A h \in Children : pc'[h] = IF h = n + 1 THEN "poll" ELSE IF h = t THEN b ELSE pc[h]
  BY <1>2, <1>3, <1>4, ThreadFacts DEF Inv, TypeInv
<1>6. ServedInv'
  <2>1. ASSUME NEW h \in Children
        PROVE  GoneAt(h)' /\ BusyAt(h)'
    <3>1. GoneAt(h) /\ BusyAt(h) /\ unread'[h] = unread[h] /\ got'[h] = got[h]
      BY DEF HistoryInv, ServedInv, output
    <3>2. CASE h = n + 1
      BY <1>4, <1>5, <3>1, <3>2 DEF GoneAt, BusyAt, HasGone
    <3>3. CASE h # n + 1 /\ h = t
      BY <1>3, <1>5, <3>1, <3>3 DEF GoneAt, BusyAt, HasGone
    <3>4. CASE h # n + 1 /\ h # t
      <4>1. lock = h => lock' = h
        BY ThreadFacts
      <4>2. pc'[h] = pc[h] /\ (h \in alive' => h \in alive)
        BY <1>3, <1>5, <3>4
      <4>3. QED
        BY <3>1, <4>1, <4>2 DEF GoneAt, BusyAt
    <3>5. QED
      BY <3>2, <3>3, <3>4
  <2>2. QED
    BY <2>1 DEF ServedInv
<1>7. LastForked(n + 1)'
  BY <1>1, <1>2, <1>5, ThreadFacts DEF LastForked, Children
<1>8. PastInv'
  <2>1. ASSUME NEW m \in 0 .. MaxForks, LastForked(m)', NEW g \in Children, g < m
        PROVE  pc'[g] \in Replaced
    <3>1. MaxForks \in Nat
      BY ThreadFacts
    <3>2. m <= n + 1
      BY <1>2, <1>7, <2>1, <3>1 DEF LastForked, Children
    <3>3. g <= n /\ g # n + 1
      BY <1>1, <2>1, <3>1, <3>2 DEF Children
    <3>4. pc[g] # "none"
      BY <1>1, <3>3 DEF LastForked
    <3>5. QED
      BY <1>5, <3>3, <3>4 DEF Away, Replaced
  <2>2. QED
    BY <2>1 DEF PastInv
<1>9. OpenInv'
  BY <1>3, <1>7 DEF OpenInv
<1>10. FreshInv'
  BY <1>5 DEF HistoryInv, FreshInv
<1>11. QED
  BY <1>6, <1>8, <1>9, <1>10 DEF HistoryInv
-----------------------------------------------------------------------------
(* The types of what is printed and written                                *)

DataTypes == OutputTypes /\ WriterTypes

\* A sequence and what is left of it after its first n elements.
LEMMA CutInTwo ==
  ASSUME NEW S, NEW w \in Seq(S), NEW n \in 1 .. Len(w)
  PROVE  /\ SubSeq(w, 1, n) \in Seq(S) /\ Len(SubSeq(w, 1, n)) = n
         /\ SubSeq(w, n + 1, Len(w)) \in Seq(S) /\ Len(SubSeq(w, n + 1, Len(w))) = Len(w) - n
         /\ \A i \in 1 .. n : SubSeq(w, 1, n)[i] = w[i]
         /\ \A i \in 1 .. Len(w) - n : SubSeq(w, n + 1, Len(w))[i] = w[n + i]
OBVIOUS

LEMMA SameOutputTypes ==
  ASSUME OutputTypes, UNCHANGED <<printed, output>>
  PROVE  OutputTypes'
BY DEF OutputTypes, output

LEMMA SameWriterTypes ==
  ASSUME WriterTypes, UNCHANGED writer
  PROVE  WriterTypes'
BY DEF WriterTypes, writer

\* A write of n bytes to the pty that is open.
LEMMA WrittenTypes ==
  ASSUME TypeInv, WriterTypes, NEW t \in Threads, WriteSome(t)
  PROVE  WriterTypes'
<1>1. PICK n \in 1 .. left[t] :
        /\ left' = [left EXCEPT ![t] = @ - n]
        /\ input' = [input EXCEPT ![open] = @ \o [i \in 1 .. n |-> <<t, sent[t] + i>>]]
        /\ sent' = [sent EXCEPT ![t] = @ + n]
  BY DEF WriteSome
<1>2. left[t] \in Nat /\ sent[t] \in Nat /\ n \in Nat /\ left[t] - n \in Nat
  BY DEF WriterTypes
<1>3. [i \in 1 .. n |-> <<t, sent[t] + i>>] \in Seq(Threads \X Nat)
  <2>1. [i \in 1 .. n |-> <<t, sent[t] + i>>] \in [1 .. n -> Threads \X Nat]
    BY <1>2
  <2>2. QED
    BY <1>2, <2>1
<1>4. open \in Children
  BY DEF WriteSome, TypeInv, Children
<1>5. input[open] \in Seq(Threads \X Nat)
  BY <1>4 DEF WriterTypes
<1>6. input[open] \o [i \in 1 .. n |-> <<t, sent[t] + i>>] \in Seq(Threads \X Nat)
  BY <1>3, <1>5, ConcatProperties
<1>7. input' \in [Children -> Seq(Threads \X Nat)]
  <2> DEFINE more == [i \in 1 .. n |-> <<t, sent[t] + i>>]
             S == Seq(Threads \X Nat)
  <2>1. input \in [Children -> S] /\ input[open] \o more \in S
    BY <1>6 DEF WriterTypes
  <2>2. input' = [input EXCEPT ![open] = @ \o more]
    BY <1>1
  <2> HIDE DEF more, S
  <2>3. input' \in [Children -> S]
    BY <2>1, <2>2
  <2>4. QED
    BY <2>3 DEF S
<1>8. left' \in [Threads -> Nat] /\ sent' \in [Threads -> Nat]
  <2>1. left \in [Threads -> Nat] /\ sent \in [Threads -> Nat]
    BY DEF WriterTypes
  <2>2. sent[t] + n \in Nat
    BY <1>2
  <2>3. left' = [left EXCEPT ![t] = left[t] - n] /\ sent' = [sent EXCEPT ![t] = sent[t] + n]
    BY <1>1
  <2>4. QED
    BY <1>2, <2>1, <2>2, <2>3
<1>9. QED
  BY <1>7, <1>8 DEF WriterTypes

LEMMA WriteFullTypes ==
  ASSUME TypeInv, DataTypes, NEW t \in Threads, WriteFull(t)
  PROVE  DataTypes'
<1>1. UNCHANGED <<printed, output>>
  BY DEF WriteFull, WriteNothing, WriteStart, WriteSome, WriteFails, child
<1>2. WriterTypes'
  <2>1. CASE WriteNothing(t)
    BY <2>1 DEF WriteNothing, DataTypes, WriterTypes
  <2>2. CASE WriteStart(t) \/ WriteFails(t)
    BY <2>2, SameWriterTypes DEF WriteStart, WriteFails, DataTypes
  <2>3. CASE WriteSome(t)
    BY <2>3, WrittenTypes DEF DataTypes
  <2>4. QED
    BY <2>1, <2>2, <2>3 DEF WriteFull
<1>3. QED
  BY <1>1, <1>2, SameOutputTypes DEF DataTypes

\* DataTypes is inductive.
LEMMA DataStep ==
  ASSUME TypeInv, DataTypes, [Next]_vars
  PROVE  DataTypes'
<1> USE ThreadFacts
<1>1. CASE UICall
  BY <1>1, SameOutputTypes, SameWriterTypes
  DEF UICall, StartCall, SendData, ResizeCall, ScrollCall, child, DataTypes
<1>2. CASE UIStep
  <2>1. CASE StartLock \/ StartTwice \/ StartFork \/ ForkFails(UI) \/ Resize \/ ScrollBy
    BY <2>1, SameOutputTypes, SameWriterTypes
    DEF StartLock, StartTwice, StartFork, ForkFails, Resize, ScrollBy, child, DataTypes
  <2>2. CASE SendReset
    <3>1. WriterTypes'
      BY <2>2, PtyAssumption DEF SendReset, DataTypes, WriterTypes
    <3>2. QED
      BY <2>2, <3>1, SameOutputTypes DEF SendReset, child, DataTypes
  <2>3. CASE WriteFull(UI)
    BY <2>3, WriteFullTypes
  <2>4. QED
    BY <1>2, <2>1, <2>2, <2>3 DEF UIStep
<1>3. CASE DrawLock \/ RenderStep
  BY <1>3, SameOutputTypes, SameWriterTypes
  DEF DrawLock, RenderStep, DrawLook, DrawClamp, DrawUnlock, child, DataTypes
<1>4. ASSUME NEW g \in Children, WorkerStep(g)
      PROVE  DataTypes'
  <2>1. CASE \/ Poll(g) \/ ParseLock(g) \/ ParseUnlock(g) \/ NoPaste(g) \/ ExitLock(g)
             \/ Close(g) \/ ClearFd(g) \/ ForkNext(g) \/ ForkFails(g) \/ ExitUnlock(g)
    BY <2>1, SameOutputTypes, SameWriterTypes
    DEF Poll, ParseLock, ParseUnlock, NoPaste, ExitLock, Close, ClearFd, ForkNext, ForkFails,
        ExitUnlock, child, DataTypes
  <2>2. CASE Read(g)
    <3>1. WriterTypes'
      BY <2>2, SameWriterTypes DEF Read, DataTypes
    <3>2. OutputTypes'
      <4>1. CASE UNCHANGED <<unread, got>>
        BY <2>2, <4>1 DEF Read, DataTypes, OutputTypes, child
      <4>2. CASE open # 0 /\ \E n \in 1 .. Len(unread[open]) : TakeFromPty(g, n)
        <5>1. open \in Children
          BY <4>2 DEF TypeInv, Children
        <5>2. PICK n \in 1 .. Len(unread[open]) : TakeFromPty(g, n)
          BY <4>2
        <5>3. unread[open] \in Seq(Tokens)
          BY <5>1 DEF DataTypes, OutputTypes
        <5>4. /\ SubSeq(unread[open], 1, n) \in Seq(Tokens)
              /\ SubSeq(unread[open], n + 1, Len(unread[open])) \in Seq(Tokens)
          BY <5>2, <5>3, CutInTwo
        <5>5. QED
          BY <2>2, <5>1, <5>2, <5>4 DEF Read, TakeFromPty, DataTypes, OutputTypes, child
      <4>3. QED
        BY <2>2, <4>1, <4>2 DEF Read
    <3>3. QED
      BY <3>1, <3>2 DEF DataTypes
  <2>3. CASE ParseToken(g)
    <3>1. WriterTypes'
      BY <2>3, PtyAssumption DEF ParseToken, DataTypes, WriterTypes
    <3>2. got[g] \in Seq(Tokens) /\ got[g] # << >>
      BY <2>3 DEF ParseToken, DataTypes, OutputTypes
    <3>3. Head(got[g]) \in Tokens /\ Tail(got[g]) \in Seq(Tokens)
      BY <3>2, HeadTailProperties
    <3>4. Append(parsed, Head(got[g])) \in Seq(Tokens)
      BY <3>3, AppendProperties DEF DataTypes, OutputTypes
    <3>5. OutputTypes'
      BY <2>3, <3>3, <3>4 DEF ParseToken, DataTypes, OutputTypes, child
    <3>6. QED
      BY <3>1, <3>5 DEF DataTypes
  <2>4. CASE Paste(g)
    <3>1. WriterTypes'
      BY <2>4, PtyAssumption DEF Paste, DataTypes, WriterTypes
    <3>2. QED
      BY <2>4, <3>1, SameOutputTypes DEF Paste, child, DataTypes
  <2>5. CASE WriteFull(g)
    BY <2>5, WriteFullTypes
  <2>6. QED
    BY <1>4, <2>1, <2>2, <2>3, <2>4, <2>5 DEF WorkerStep
<1>5. ASSUME NEW g \in Children, ChildStep(g)
      PROVE  DataTypes'
  <2>1. CASE \E kind \in {"text", "query"} : PrintToken(g, kind)
    <3>1. PICK kind \in {"text", "query"} : PrintToken(g, kind)
      BY <2>1
    <3> DEFINE token == [by |-> g, nth |-> printed[g] + 1, kind |-> kind]
    <3>2. token \in Tokens /\ printed[g] + 1 \in Nat /\ unread[g] \in Seq(Tokens)
      <4>1. printed[g] + 1 \in Nat /\ unread[g] \in Seq(Tokens)
        BY DEF DataTypes, OutputTypes
      <4>2. token \in Tokens
        BY <4>1 DEF Tokens
      <4>3. QED
        BY <4>1, <4>2
    <3>3. Append(unread[g], token) \in Seq(Tokens)
      BY <3>2, AppendProperties
    <3>4. OutputTypes'
      BY <3>1, <3>2, <3>3 DEF PrintToken, DataTypes, OutputTypes
    <3>5. QED
      BY <3>1, <3>4, SameWriterTypes DEF PrintToken, DataTypes
  <2>2. CASE Drain(g) \/ Exit(g)
    BY <2>2, SameOutputTypes, SameWriterTypes DEF Drain, Exit, DataTypes
  <2>3. QED
    BY <1>5, <2>1, <2>2 DEF ChildStep
<1>6. CASE UNCHANGED vars
  BY <1>6, SameOutputTypes, SameWriterTypes DEF vars, child, DataTypes
<1>7. QED
  BY <1>1, <1>2, <1>3, <1>4, <1>5, <1>6 DEF Next
-----------------------------------------------------------------------------
(* HistoryInv is inductive                                                 *)

\* A thread moves, and what is read, written to others and alive stays.
LEMMA PlainMove ==
  ASSUME TypeInv, HistoryInv, NEW t \in Threads, NEW a, NEW b, Goes(t, a, b),
         a \notin {"none", "forked", "done"}, b # "none",
         lock' = lock \/ Lock(t) \/ Unlock(t), open' \in {open, 0},
         UNCHANGED <<alive, unread, got>>,
         \A h \in Children : pc[h] = "none" => input'[h] = input[h],
         t \in Children => GoneAt(t)' /\ BusyAt(t)'
  PROVE  HistoryInv'
<1>1. pc' = [pc EXCEPT ![t] = b] /\ pc[t] = a
  BY DEF Goes
<1>2. lock' = lock \/ (lock = NoOne /\ lock' = t) \/ (lock = t /\ lock' = NoOne)
  BY DEF Lock, Unlock
<1>3. QED
  BY <1>1, <1>2, ThreadKeepsHistory DEF Replaced

\* A worker that has nothing to parse goes on, and not to the end.
LEMMA IdleMove ==
  ASSUME TypeInv, HistoryInv, NEW t \in Children, NEW a, NEW b, Goes(t, a, b),
         a \notin {"none", "forked", "done"}, b # "none",
         got[t] = << >>, a \in HasGone \/ b \notin HasGone,
         lock' = lock \/ Lock(t) \/ Unlock(t), open' \in {open, 0},
         UNCHANGED <<alive, unread, got, input>>
  PROVE  HistoryInv'
<1>1. pc[t] = a /\ pc'[t] = b /\ t \in Threads
  BY ThreadFacts DEF Goes, TypeInv
<1>2. GoneAt(t)' /\ BusyAt(t)'
  BY <1>1 DEF HistoryInv, ServedInv, GoneAt, BusyAt
<1>3. QED
  BY <1>1, <1>2, PlainMove

\* Elsewhere there is nothing to parse.
LEMMA NothingRead ==
  ASSUME HistoryInv, NEW g \in Children, pc[g] \notin {"lock", "parse", "check", "write"}
  PROVE  got[g] = << >>
BY DEF HistoryInv, ServedInv, BusyAt

\* A thread that is writing: a worker that was parsing goes on with it.
LEMMA WritingMove ==
  ASSUME TypeInv, HistoryInv, NEW t \in Threads, NEW a \in {"check", "write"}, NEW b,
         Goes(t, a, b), b \in {"check", "write", AfterWrite(t)}, lock' = lock, open' = open,
         UNCHANGED <<alive, unread, got>>,
         \A h \in Children : pc[h] = "none" => input'[h] = input[h]
  PROVE  HistoryInv'
<1>1. pc[t] = a /\ pc'[t] = b
  BY DEF Goes, TypeInv
<1>2. AfterWrite(t) \in {"idle", "parse", "poll"} /\ (lock = t => AfterWrite(t) \in {"idle", "parse"})
  BY DEF AfterWrite
<1>3. ASSUME t \in Children
      PROVE  GoneAt(t)' /\ BusyAt(t)'
  <2>1. t # UI
    BY <1>3, ThreadFacts
  <2>2. lock = t => b \in {"check", "write", "parse"}
    BY <2>1 DEF AfterWrite
  <2>3. BusyAt(t)
    BY <1>3 DEF HistoryInv, ServedInv
  <2>4. QED
    BY <1>1, <1>2, <2>2, <2>3 DEF GoneAt, BusyAt, HasGone
<1>4. QED
  BY <1>2, <1>3, PlainMove

LEMMA WriteKeepsHistory ==
  ASSUME TypeInv, DataTypes, HistoryInv, NEW t \in Threads, WriteFull(t)
  PROVE  HistoryInv'
<1>1. CASE WriteNothing(t)
  BY <1>1, WritingMove DEF WriteNothing, child, output
<1>2. CASE WriteStart(t)
  BY <1>2, WritingMove DEF WriteStart, child, output, writer
<1>3. CASE WriteSome(t)
  <2>1. PICK n \in 1 .. left[t] :
          /\ Goes(t, "write", IF n = left[t] THEN AfterWrite(t) ELSE "write")
          /\ input' = [input EXCEPT ![open] = @ \o [i \in 1 .. n |-> <<t, sent[t] + i>>]]
    BY <1>3 DEF WriteSome
  <2>2. UNCHANGED <<lock, open, alive, unread, got>>
    BY <1>3 DEF WriteSome, child, output
  <2>3. open \in Children
    BY <1>3 DEF WriteSome, TypeInv, Children
  <2>4. pc[open] # "none"
    <3>1. LastForked(open)
      BY <2>3, ThreadFacts DEF HistoryInv, OpenInv
    <3>2. open <= open
      BY <2>3, ThreadFacts DEF Children
    <3>3. QED
      BY <2>3, <3>1, <3>2 DEF LastForked
  <2>5. \A h \in Children : pc[h] = "none" => input'[h] = input[h]
    BY <2>1, <2>4 DEF DataTypes, WriterTypes
  <2> DEFINE b == IF n = left[t] THEN AfterWrite(t) ELSE "write"
  <2>6. b \in {"check", "write", AfterWrite(t)}
    OBVIOUS
  <2>7. Goes(t, "write", b)
    BY <2>1
  <2> HIDE DEF b
  <2>8. QED
    BY <2>2, <2>5, <2>6, <2>7, WritingMove
<1>4. CASE WriteFails(t)
  BY <1>4, StillHistory DEF WriteFails, child, output, writer
<1>5. QED
  BY <1>1, <1>2, <1>3, <1>4 DEF WriteFull

LEMMA UIKeepsHistory ==
  ASSUME Inv, DataTypes, HistoryInv, UICall \/ UIStep
  PROVE  HistoryInv'
<1> UI \in Threads /\ UI \notin Children
  BY ThreadFacts
<1> TypeInv
  BY DEF Inv
<1>1. CASE UICall
  BY <1>1, PlainMove
  DEF UICall, StartCall, SendData, ResizeCall, ScrollCall, child, output, writer
<1>2. CASE StartLock \/ StartTwice \/ Resize \/ ScrollBy
  BY <1>2, PlainMove DEF StartLock, StartTwice, Resize, ScrollBy, child, output, writer
<1>7. CASE ForkFails(UI)
  BY <1>7, StillHistory DEF ForkFails, child, output, writer
<1>3. CASE StartFork
  <2>1. Fork(UI, "idle") /\ pc[UI] = "started" /\ fd = NoFd
    BY <1>3 DEF StartFork
  <2>2. lock = UI /\ lock' = NoOne /\ UNCHANGED <<output, input>>
    BY <1>3 DEF StartFork, Unlock, writer
  <2>3. \A g \in Children : pc[g] \in Away
    BY <2>1, <2>2, ThreadFacts DEF Inv, LockInv, ServiceInv, Between, Holding
  <2>4. QED
    BY <2>1, <2>2, <2>3, ForkKeepsHistory
<1>4. CASE SendReset
  BY <1>4, PlainMove DEF SendReset, child, output
<1>5. CASE WriteFull(UI)
  BY <1>5, WriteKeepsHistory
<1>6. QED
  BY <1>1, <1>2, <1>3, <1>4, <1>5, <1>7 DEF UIStep

LEMMA RenderKeepsHistory ==
  ASSUME TypeInv, HistoryInv, DrawLock \/ RenderStep
  PROVE  HistoryInv'
<1> Render \in Threads /\ Render \notin Children
  BY ThreadFacts
<1>1. UNCHANGED <<open, child, output, input>>
  BY DEF DrawLock, RenderStep, DrawLook, DrawClamp, DrawUnlock, writer
<1>2. lock' = lock \/ Lock(Render) \/ Unlock(Render)
  BY DEF DrawLock, RenderStep, DrawLook, DrawClamp, DrawUnlock
<1>3. PICK a \in {"idle", "draw", "clamp", "drawn"}, b \in {"idle", "draw", "clamp", "drawn"} :
        Goes(Render, a, b)
  BY DEF DrawLock, RenderStep, DrawLook, DrawClamp, DrawUnlock
<1>4. QED
  BY <1>1, <1>2, <1>3, PlainMove DEF child, output

\* Everything that is read is the worker's own child's.
LEMMA ReadsOwn ==
  ASSUME Inv, NEW g \in Children, pc[g] = "read"
  PROVE  open = g /\ fd # NoFd
BY ThreadFacts DEF Inv, ServiceInv, Away, Between

LEMMA WorkerKeepsHistory ==
  ASSUME Inv, DataTypes, HistoryInv, NEW g \in Children, WorkerStep(g)
  PROVE  HistoryInv'
<1> g \in Threads /\ TypeInv
  BY ThreadFacts DEF Inv
<1>1. CASE Poll(g) \/ NoPaste(g) \/ ExitLock(g) \/ Close(g) \/ ClearFd(g)
  <2>1. PICK a \in {"poll", "paste", "exit", "close", "closed"},
             b \in {"read", "paste", "poll", "close", "closed", "fork"} :
          Goes(g, a, b) /\ (a \in HasGone \/ b \notin HasGone)
    BY <1>1 DEF Poll, NoPaste, ExitLock, Close, ClearFd, HasGone
  <2>2. got[g] = << >>
    BY <2>1, NothingRead DEF Goes
  <2>3. UNCHANGED <<alive, unread, got, input>> /\ open' \in {open, 0}
    BY <1>1 DEF Poll, NoPaste, ExitLock, Close, ClearFd, child, output, writer
  <2>4. lock' = lock \/ Lock(g) \/ Unlock(g)
    BY <1>1 DEF Poll, NoPaste, ExitLock, Close, ClearFd
  <2>5. QED
    BY <2>1, <2>2, <2>3, <2>4, IdleMove
<1>2. CASE Read(g)
  <2>1. pc[g] = "read"
    BY <1>2 DEF Read, Goes
  <2>2. open = g /\ fd # NoFd
    BY <2>1, ReadsOwn
  <2>3. UNCHANGED <<lock, fd, open, alive, input>>
    BY <1>2 DEF Read, child, writer
  <2>4. CASE unread[g] # << >>
    <3>1. Goes(g, "read", "lock") /\ \E n \in 1 .. Len(unread[g]) : TakeFromPty(g, n)
      BY <1>2, <2>2, <2>4, ThreadFacts DEF Read
    <3>2. pc' = [pc EXCEPT ![g] = "lock"] /\ pc'[g] = "lock"
      BY <3>1 DEF Goes, TypeInv
    <3>3. GoneAt(g)' /\ BusyAt(g)'
      BY <3>2 DEF GoneAt, BusyAt, HasGone
    <3>4. \A h \in Children \ {g} : unread'[h] = unread[h] /\ got'[h] = got[h]
      BY <2>2, <3>1 DEF TakeFromPty, DataTypes, OutputTypes
    <3>5. QED
      BY <2>1, <2>3, <3>2, <3>3, <3>4, ThreadKeepsHistory DEF Replaced
  <2>5. CASE unread[g] = << >>
    <3>1. /\ Goes(g, "read", IF g \notin alive THEN "exit" ELSE "paste")
          /\ UNCHANGED <<unread, got>>
      BY <1>2, <2>2, <2>5, ThreadFacts DEF Read
    <3>2. pc'[g] = IF g \notin alive THEN "exit" ELSE "paste"
      BY <3>1 DEF Goes, TypeInv
    <3>3. GoneAt(g)' /\ BusyAt(g)'
      BY <2>1, <2>3, <2>5, <3>1, <3>2, NothingRead DEF GoneAt, BusyAt, HasGone
    <3>4. QED
      BY <2>3, <3>1, <3>3, PlainMove
  <2>6. QED
    BY <2>4, <2>5
<1>3. CASE ParseLock(g)
  <2>1. /\ Goes(g, "lock", "parse") /\ lock' = g /\ Lock(g)
        /\ UNCHANGED <<open, alive, unread, got, input>>
    BY <1>3 DEF ParseLock, Lock, child, output, writer
  <2>2. pc'[g] = "parse"
    BY <2>1 DEF Goes, TypeInv
  <2>3. GoneAt(g)' /\ BusyAt(g)'
    BY <2>1, <2>2 DEF GoneAt, BusyAt, HasGone
  <2>4. QED
    BY <2>1, <2>3, PlainMove
<1>4. CASE ParseToken(g)
  <2>1. PICK b \in {"check", "parse"} : Goes(g, "parse", b)
    BY <1>4 DEF ParseToken
  <2>2. /\ UNCHANGED <<lock, open, alive, unread, input>>
        /\ got' = [got EXCEPT ![g] = Tail(@)]
    BY <1>4 DEF ParseToken, child
  <2>3. pc' = [pc EXCEPT ![g] = b] /\ pc'[g] = b /\ pc[g] = "parse" /\ lock = g
    BY <2>1 DEF Goes, Inv, TypeInv, LockInv, Holding
  <2>4. GoneAt(g)' /\ BusyAt(g)'
    BY <2>2, <2>3 DEF GoneAt, BusyAt, HasGone
  <2>5. \A h \in Children \ {g} : unread'[h] = unread[h] /\ got'[h] = got[h]
    BY <2>2 DEF DataTypes, OutputTypes
  <2>6. QED
    BY <2>2, <2>3, <2>4, <2>5, ThreadKeepsHistory DEF Replaced
<1>5. CASE ParseUnlock(g)
  BY <1>5, IdleMove DEF ParseUnlock, HasGone, child, output, writer
<1>6. CASE Paste(g)
  <2>1. Goes(g, "paste", "check") /\ UNCHANGED <<lock, open, alive, unread, got, input>>
    BY <1>6 DEF Paste, child, output
  <2>2. got[g] = << >>
    BY <2>1, NothingRead DEF Goes
  <2>3. QED
    BY <2>1, <2>2, IdleMove DEF HasGone
<1>7. CASE WriteFull(g)
  BY <1>7, WriteKeepsHistory
<1>8. CASE ForkNext(g)
  <2>1. Fork(g, "forked") /\ pc[g] = "fork" /\ UNCHANGED <<lock, output, input>>
    BY <1>8 DEF ForkNext, writer
  <2>2. \A h \in Children \ {g} : pc[h] \in Away
    BY <2>1 DEF Inv, ServiceInv, Away
  <2>3. QED
    BY <2>1, <2>2, ForkKeepsHistory
<1>9. CASE ExitUnlock(g)
  <2>1. /\ pc[g] = "forked" /\ pc' = [pc EXCEPT ![g] = "done"] /\ lock = g /\ lock' = NoOne
        /\ UNCHANGED <<open, alive, unread, got, input>>
    BY <1>9 DEF ExitUnlock, Goes, Unlock, child, output, writer
  <2>2. pc'[g] = "done"
    BY <2>1 DEF TypeInv
  <2>3. GoneAt(g)' /\ BusyAt(g)'
    BY <2>1, <2>2, NothingRead DEF HistoryInv, ServedInv, GoneAt, BusyAt, HasGone
  <2>4. QED
    BY <2>1, <2>3, ThreadKeepsHistory DEF Replaced
<1>10. CASE ForkFails(g)
  BY <1>10, StillHistory DEF ForkFails, child, output, writer
<1>11. QED
  BY <1>1, <1>2, <1>3, <1>4, <1>5, <1>6, <1>7, <1>8, <1>9, <1>10 DEF WorkerStep

LEMMA ChildKeepsHistory ==
  ASSUME DataTypes, HistoryInv, NEW g \in Children, ChildStep(g)
  PROVE  HistoryInv'
<1>1. UNCHANGED <<pc, lock, open, got, input>> /\ alive' \subseteq alive
  BY DEF ChildStep, PrintToken, Drain, Exit, output, writer
<1>2. \A h \in Children : unread'[h] = unread[h] \/ h \in alive
  <2>1. CASE UNCHANGED unread
    BY <2>1
  <2>2. CASE PrintToken(g, "text") \/ PrintToken(g, "query")
    BY <2>2 DEF PrintToken, DataTypes, OutputTypes
  <2>3. QED
    BY <2>1, <2>2 DEF ChildStep, Drain, Exit, output
<1>3. QED
  BY <1>1, <1>2, StillHistory

LEMMA HistoryStep ==
  ASSUME Inv, DataTypes, HistoryInv, [Next]_vars
  PROVE  HistoryInv'
<1>1. CASE UICall \/ UIStep
  BY <1>1, UIKeepsHistory
<1>2. CASE DrawLock \/ RenderStep
  BY <1>2, RenderKeepsHistory DEF Inv
<1>3. CASE \E g \in Children : WorkerStep(g) \/ ChildStep(g)
  BY <1>3, WorkerKeepsHistory, ChildKeepsHistory
<1>4. CASE UNCHANGED vars
  BY <1>4, StillHistory DEF vars, child, output, writer
<1>5. QED
  BY <1>1, <1>2, <1>3, <1>4 DEF Next
-----------------------------------------------------------------------------
(* What a child prints, from its pty to the screen                         *)

\* Tokens w are those of child g after the first n.
Numbered(w, g, n) == \A i \in 1 .. Len(w) : w[i].by = g /\ w[i].nth = n + i

\* How many tokens of child g are parsed, if none is lost.
Done(g) == printed[g] - Len(got[g]) - Len(unread[g])

\* The tokens of a child are cut into those that are parsed, those its worker
\* has read, and those that are in the pty.
TokensAt(g) ==
  /\ Done(g) \in Nat
  /\ ParsedInOrder(g, Done(g))
  /\ Numbered(got[g], g, Done(g))
  /\ Numbered(unread[g], g, Done(g) + Len(got[g]))

TokensInv == \A g \in Children : TokensAt(g)

LEMMA NumberedAppend ==
  ASSUME NEW w \in Seq(Tokens), NEW g, NEW n \in Nat, Numbered(w, g, n),
         NEW token \in Tokens, token.by = g, token.nth = n + Len(w) + 1
  PROVE  Numbered(Append(w, token), g, n)
<1>1. Len(w) \in Nat
  BY LenProperties
<1>2. /\ Len(Append(w, token)) = Len(w) + 1
      /\ \A i \in 1 .. Len(w) : Append(w, token)[i] = w[i]
      /\ Append(w, token)[Len(w) + 1] = token
  BY AppendProperties
<1>3. ASSUME NEW i \in 1 .. Len(w) + 1
      PROVE  Append(w, token)[i].by = g /\ Append(w, token)[i].nth = n + i
  <2>1. CASE i \in 1 .. Len(w)
    BY <1>2, <2>1 DEF Numbered
  <2>2. CASE i = Len(w) + 1
    <3>1. n + i = n + Len(w) + 1
      BY <1>1, <2>2
    <3>2. QED
      BY <1>2, <2>2, <3>1
  <2>3. QED
    BY <1>1, <2>1, <2>2
<1>4. QED
  BY <1>2, <1>3 DEF Numbered

LEMMA NumberedTail ==
  ASSUME NEW w \in Seq(Tokens), w # << >>, NEW g, NEW n \in Nat, Numbered(w, g, n)
  PROVE  /\ Head(w) \in Tokens /\ Head(w).by = g /\ Head(w).nth = n + 1
         /\ Len(w) \in Nat \ {0} /\ Len(Tail(w)) = Len(w) - 1
         /\ Numbered(Tail(w), g, n + 1)
<1>1. Len(w) \in Nat \ {0}
  BY LenProperties, EmptySeq
<1>2. /\ Head(w) \in Tokens /\ Len(Tail(w)) = Len(w) - 1
      /\ \A i \in 1 .. Len(Tail(w)) : Tail(w)[i] = w[i + 1]
  BY HeadTailProperties
<1>3. Head(w).by = g /\ Head(w).nth = n + 1
  <2>1. Head(w) = w[1] /\ 1 \in 1 .. Len(w)
    BY <1>1
  <2>2. QED
    BY <2>1 DEF Numbered
<1>4. ASSUME NEW i \in 1 .. Len(Tail(w))
      PROVE  Tail(w)[i].by = g /\ Tail(w)[i].nth = n + 1 + i
  <2>1. i + 1 \in 1 .. Len(w) /\ n + 1 + i = n + (i + 1)
    BY <1>1, <1>2
  <2>2. QED
    BY <1>2, <2>1 DEF Numbered
<1>5. QED
  BY <1>1, <1>2, <1>3, <1>4 DEF Numbered

\* A step that neither prints, reads nor parses.
LEMMA NumberedCut ==
  ASSUME NEW w \in Seq(Tokens), NEW n \in 1 .. Len(w), NEW g, NEW m \in Nat, Numbered(w, g, m)
  PROVE  /\ Numbered(SubSeq(w, 1, n), g, m)
         /\ Numbered(SubSeq(w, n + 1, Len(w)), g, m + n)
<1>1. Len(w) \in Nat /\ n \in Nat /\ n <= Len(w)
  BY LenProperties
<1>2. ASSUME NEW i \in 1 .. n
      PROVE  SubSeq(w, 1, n)[i].by = g /\ SubSeq(w, 1, n)[i].nth = m + i
  <2>1. i \in 1 .. Len(w) /\ SubSeq(w, 1, n)[i] = w[i]
    BY <1>1, CutInTwo
  <2>2. QED
    BY <2>1 DEF Numbered
<1>3. ASSUME NEW i \in 1 .. Len(w) - n
      PROVE  /\ SubSeq(w, n + 1, Len(w))[i].by = g
             /\ SubSeq(w, n + 1, Len(w))[i].nth = (m + n) + i
  <2>1. n + i \in 1 .. Len(w) /\ m + (n + i) = (m + n) + i
    BY <1>1
  <2>2. SubSeq(w, n + 1, Len(w))[i] = w[n + i]
    BY CutInTwo
  <2>3. QED
    BY <2>1, <2>2 DEF Numbered
<1>4. Len(SubSeq(w, 1, n)) = n /\ Len(SubSeq(w, n + 1, Len(w))) = Len(w) - n
  BY CutInTwo
<1>5. QED
  BY <1>2, <1>3, <1>4 DEF Numbered

LEMMA SameTokens ==
  ASSUME TokensInv, UNCHANGED <<printed, output>>
  PROVE  TokensInv'
BY DEF TokensInv, TokensAt, Done, ParsedInOrder, ParsedAt, output

\* Parsing one more token is parsing the next one of its child, and none of
\* the others.
LEMMA ParsedOneMore ==
  ASSUME NEW token \in Tokens, parsed \in Seq(Tokens), parsed' = Append(parsed, token),
         NEW g \in Children, NEW n \in Nat, ParsedInOrder(g, n)
  PROVE  /\ token.by # g => ParsedInOrder(g, n)'
         /\ token.by = g /\ token.nth = n + 1 => ParsedInOrder(g, n + 1)'
<1> DEFINE last == Len(parsed) + 1
<1>1. Len(parsed) \in Nat
  BY LenProperties
<1>2. /\ Len(parsed') = last
      /\ \A k \in 1 .. Len(parsed) : parsed'[k] = parsed[k]
      /\ parsed'[last] = token
  BY AppendProperties
<1>3. 1 .. last = (1 .. Len(parsed)) \cup {last} /\ last \notin 1 .. Len(parsed)
  BY <1>1
<1>4. \A k \in 1 .. Len(parsed) : k < last
  BY <1>1
<1> HIDE DEF last
<1>5. CASE token.by # g
  <2>1. ParsedAt(g)' = ParsedAt(g)
    BY <1>2, <1>3, <1>5 DEF ParsedAt
  <2>2. \A k \in ParsedAt(g) : parsed'[k] = parsed[k]
    BY <1>2 DEF ParsedAt
  <2>3. {parsed'[k].nth : k \in ParsedAt(g)'} = {parsed[k].nth : k \in ParsedAt(g)}
    BY <2>1, <2>2
  <2>4. \A j, k \in ParsedAt(g)' : j < k => parsed'[j].nth < parsed'[k].nth
    BY <2>1, <2>2 DEF ParsedInOrder
  <2>5. QED
    BY <1>5, <2>3, <2>4 DEF ParsedInOrder
<1>6. CASE token.by = g /\ token.nth = n + 1
  <2>1. ParsedAt(g)' = ParsedAt(g) \cup {last} /\ last \notin ParsedAt(g)
    BY <1>2, <1>3, <1>6 DEF ParsedAt
  <2>2. \A k \in ParsedAt(g) : parsed'[k].nth = parsed[k].nth /\ k < last
    BY <1>2, <1>4 DEF ParsedAt
  <2>3. \A k \in ParsedAt(g) : parsed[k].nth \in 1 .. n
    BY DEF ParsedInOrder
  <2>4. {parsed'[k].nth : k \in ParsedAt(g)'} = 1 .. n + 1
    <3>1. {parsed'[k].nth : k \in ParsedAt(g)'} = {parsed[k].nth : k \in ParsedAt(g)} \cup {n + 1}
      <4>1. ASSUME NEW k \in ParsedAt(g)'
            PROVE  parsed'[k].nth \in {parsed[i].nth : i \in ParsedAt(g)} \cup {n + 1}
        <5>1. CASE k = last
          BY <1>2, <1>6, <5>1
        <5>2. CASE k \in ParsedAt(g)
          BY <2>2, <5>2
        <5>3. QED
          BY <2>1, <4>1, <5>1, <5>2
      <4>2. ASSUME NEW k \in ParsedAt(g)
            PROVE  parsed[k].nth \in {parsed'[i].nth : i \in ParsedAt(g)'}
        <5>1. k \in ParsedAt(g)' /\ parsed'[k].nth = parsed[k].nth
          BY <2>1, <2>2
        <5>2. QED
          BY <5>1
      <4>3. n + 1 \in {parsed'[i].nth : i \in ParsedAt(g)'}
        <5>1. last \in ParsedAt(g)' /\ parsed'[last].nth = n + 1
          BY <1>2, <1>6, <2>1
        <5>2. QED
          BY <5>1
      <4>4. QED
        BY <4>1, <4>2, <4>3
    <3>2. 1 .. n + 1 = (1 .. n) \cup {n + 1}
      OBVIOUS
    <3>3. QED
      BY <3>1, <3>2 DEF ParsedInOrder
  <2>5. ASSUME NEW j \in ParsedAt(g)', NEW k \in ParsedAt(g)', j < k
        PROVE  parsed'[j].nth < parsed'[k].nth
    <3>1. j \in Nat /\ k \in Nat /\ last \in Nat
      <4>1. \A i \in ParsedAt(g) : i \in Nat
        BY DEF ParsedAt
      <4>2. last \in Nat
        BY <1>1 DEF last
      <4>3. QED
        BY <2>1, <4>1, <4>2
    <3>2. j \in ParsedAt(g)
      <4>1. j # last
        BY <2>1, <2>2, <2>5, <3>1
      <4>2. QED
        BY <2>1, <4>1
    <3>3. CASE k \in ParsedAt(g)
      BY <2>2, <2>5, <3>2, <3>3 DEF ParsedInOrder
    <3>4. CASE k = last
      <4>1. parsed'[k].nth = n + 1 /\ parsed'[j].nth \in 1 .. n
        BY <1>2, <1>6, <2>2, <2>3, <3>2, <3>4
      <4>2. \A x, y : x = n + 1 /\ y \in 1 .. n => y < x
        OBVIOUS
      <4>3. QED
        BY <4>1, <4>2
    <3>5. QED
      BY <2>1, <3>3, <3>4
  <2>6. QED
    BY <1>6, <2>4, <2>5 DEF ParsedInOrder
<1>7. QED
  BY <1>5, <1>6

LEMMA SameParsed ==
  ASSUME NEW g, NEW n, ParsedInOrder(g, n), UNCHANGED parsed
  PROVE  ParsedInOrder(g, n)'
BY DEF ParsedInOrder, ParsedAt

LEMMA PrintKeepsTokens ==
  ASSUME DataTypes, TokensInv, NEW g \in Children, NEW kind \in {"text", "query"},
         PrintToken(g, kind)
  PROVE  TokensInv'
<1> DEFINE token == [by |-> g, nth |-> printed[g] + 1, kind |-> kind]
           w == unread[g]
<1>1. /\ printed \in [Children -> Nat] /\ unread \in [Children -> Seq(Tokens)]
      /\ got \in [Children -> Seq(Tokens)]
  BY DEF DataTypes, OutputTypes
<1>2. /\ printed' = [printed EXCEPT ![g] = printed[g] + 1]
      /\ unread' = [unread EXCEPT ![g] = Append(w, token)]
      /\ UNCHANGED <<got, parsed>>
  BY DEF PrintToken
<1>3. printed[g] \in Nat /\ w \in Seq(Tokens) /\ Len(w) \in Nat /\ Len(got[g]) \in Nat
  BY <1>1, LenProperties
<1>4. token \in Tokens /\ token.by = g /\ token.nth = printed[g] + 1
  <2>1. printed[g] + 1 \in Nat
    BY <1>3
  <2>2. QED
    BY <2>1 DEF Tokens
<1> HIDE DEF token
<1>5. Len(Append(w, token)) = Len(w) + 1
  BY <1>3, <1>4, AppendProperties
<1> HIDE DEF w
<1>6. TokensAt(g)'
  <2>1. /\ Done(g) \in Nat /\ ParsedInOrder(g, Done(g)) /\ Numbered(got[g], g, Done(g))
        /\ Numbered(w, g, Done(g) + Len(got[g]))
        /\ Done(g) = printed[g] - Len(got[g]) - Len(w)
    BY DEF TokensInv, TokensAt, Done, w
  <2>2. printed'[g] = printed[g] + 1 /\ unread'[g] = Append(w, token) /\ got'[g] = got[g]
    BY <1>1, <1>2
  <2>3. Done(g)' = Done(g)
    <3>1. Done(g)' = (printed[g] + 1) - Len(got[g]) - (Len(w) + 1)
      <4>1. Done(g)' = printed'[g] - Len(got'[g]) - Len(unread'[g])
        BY DEF Done
      <4>2. Len(unread'[g]) = Len(w) + 1
        BY <1>5, <2>2
      <4>3. printed'[g] = printed[g] + 1 /\ Len(got'[g]) = Len(got[g])
        BY <2>2
      <4>4. QED
        BY <1>3, <4>1, <4>2, <4>3
    <3>2. Done(g) = printed[g] - Len(got[g]) - Len(w)
      BY <2>1
    <3>3. printed[g] \in Nat /\ Len(w) \in Nat /\ Len(got[g]) \in Nat
      BY <1>3
    <3>4. QED
      BY <3>1, <3>2, <3>3
  <2>4. Numbered(Append(w, token), g, Done(g) + Len(got[g]))
    <3>1. Done(g) + Len(got[g]) \in Nat
      BY <1>3, <2>1
    <3>2. token.nth = (Done(g) + Len(got[g])) + Len(w) + 1
      BY <1>3, <1>4, <2>1
    <3>3. QED
      BY <1>3, <1>4, <2>1, <3>1, <3>2, NumberedAppend
  <2>5. ParsedInOrder(g, Done(g))'
    BY <1>2, <2>1, <2>3, SameParsed
  <2>6. QED
    BY <2>1, <2>2, <2>3, <2>4, <2>5 DEF TokensAt
<1>7. ASSUME NEW h \in Children \ {g}
      PROVE  TokensAt(h)'
  <2>1. printed'[h] = printed[h] /\ unread'[h] = unread[h] /\ got'[h] = got[h] /\ parsed' = parsed
    BY <1>1, <1>2
  <2>2. QED
    BY <2>1 DEF TokensInv, TokensAt, Done, ParsedInOrder, ParsedAt
<1>8. QED
  BY <1>6, <1>7 DEF TokensInv

LEMMA ReadKeepsTokens ==
  ASSUME Inv, DataTypes, HistoryInv, TokensInv, NEW g \in Children, Read(g)
  PROVE  TokensInv'
<1>1. pc[g] = "read"
  BY DEF Read, Goes
<1>2. open = g /\ fd # NoFd /\ got[g] = << >> /\ g # 0
  BY <1>1, ReadsOwn, NothingRead, ThreadFacts
<1>3. UNCHANGED <<printed, parsed>>
  BY DEF Read, child
<1>4. CASE unread[g] = << >>
  <2>1. UNCHANGED <<unread, got>>
    BY <1>2, <1>4 DEF Read
  <2>2. QED
    BY <1>3, <2>1, SameTokens DEF output
<1>5. CASE unread[g] # << >>
  <2>1. /\ printed \in [Children -> Nat] /\ unread \in [Children -> Seq(Tokens)]
        /\ got \in [Children -> Seq(Tokens)]
    BY DEF DataTypes, OutputTypes
  <2>2. PICK n \in 1 .. Len(unread[g]) :
          /\ got' = [got EXCEPT ![g] = SubSeq(unread[g], 1, n)]
          /\ unread' = [unread EXCEPT ![g] = SubSeq(unread[g], n + 1, Len(unread[g]))]
    BY <1>2, <1>5 DEF Read, TakeFromPty
  <2>3. TokensAt(g)'
    <3> DEFINE w == unread[g]
    <3>1. w \in Seq(Tokens) /\ Len(w) \in Nat /\ printed[g] \in Nat /\ Len(got[g]) = 0
      BY <1>2, <2>1, LenProperties
    <3>0. n \in 1 .. Len(w)
      OBVIOUS
    <3>2. /\ printed'[g] = printed[g]
          /\ got'[g] = SubSeq(w, 1, n) /\ unread'[g] = SubSeq(w, n + 1, Len(w))
      BY <1>3, <2>1, <2>2
    <3>10. Len(got'[g]) = n /\ Len(unread'[g]) = Len(w) - n
      BY <3>0, <3>1, <3>2, CutInTwo
    <3>3. /\ Done(g) \in Nat /\ ParsedInOrder(g, Done(g))
          /\ Numbered(w, g, Done(g) + Len(got[g]))
          /\ Done(g) = printed[g] - Len(got[g]) - Len(w)
          /\ Done(g)' = printed'[g] - Len(got'[g]) - Len(unread'[g])
      BY DEF TokensInv, TokensAt, Done
    <3> HIDE DEF w
    <3>4. Done(g)' = Done(g)
      <4>1. Done(g) = printed[g] - 0 - Len(w)
        BY <3>1, <3>3, Zenon
      <4>2. Done(g)' = printed[g] - n - (Len(w) - n)
        BY <3>2, <3>3, <3>10, Zenon
      <4>3. QED
        BY <3>0, <3>1, <4>1, <4>2
    <3>5. Done(g) + Len(got[g]) = Done(g)
      BY <3>1, <3>3
    <3>11. /\ Numbered(SubSeq(w, 1, n), g, Done(g))
           /\ Numbered(SubSeq(w, n + 1, Len(w)), g, Done(g) + n)
      BY <3>0, <3>1, <3>3, <3>5, NumberedCut
    <3>6. Numbered(got'[g], g, Done(g)')
      BY <3>2, <3>4, <3>11
    <3>7. Numbered(unread'[g], g, Done(g)' + Len(got'[g]))
      BY <3>2, <3>4, <3>10, <3>11
    <3>8. ParsedInOrder(g, Done(g))'
      BY <1>3, <3>3, <3>4, SameParsed
    <3>9. QED
      BY <3>3, <3>4, <3>6, <3>7, <3>8 DEF TokensAt
  <2>4. ASSUME NEW h \in Children \ {g}
        PROVE  TokensAt(h)'
    <3>1. printed'[h] = printed[h] /\ unread'[h] = unread[h] /\ got'[h] = got[h] /\ parsed' = parsed
      BY <1>3, <2>1, <2>2
    <3>2. QED
      BY <3>1 DEF TokensInv, TokensAt, Done, ParsedInOrder, ParsedAt
  <2>5. QED
    BY <2>3, <2>4 DEF TokensInv
<1>6. QED
  BY <1>4, <1>5

LEMMA ParseKeepsTokens ==
  ASSUME DataTypes, TokensInv, NEW g \in Children, ParseToken(g)
  PROVE  TokensInv'
<1> DEFINE w == got[g]
           token == Head(w)
<1>1. /\ printed \in [Children -> Nat] /\ unread \in [Children -> Seq(Tokens)]
      /\ got \in [Children -> Seq(Tokens)] /\ parsed \in Seq(Tokens)
  BY DEF DataTypes, OutputTypes
<1>2. /\ w # << >> /\ got' = [got EXCEPT ![g] = Tail(w)] /\ parsed' = Append(parsed, token)
      /\ UNCHANGED <<printed, unread>>
  BY DEF ParseToken, child
<1>3. w \in Seq(Tokens) /\ printed[g] \in Nat /\ Len(unread[g]) \in Nat
  BY <1>1, LenProperties
<1>4. /\ Done(g) \in Nat /\ ParsedInOrder(g, Done(g)) /\ Numbered(w, g, Done(g))
      /\ Numbered(unread[g], g, Done(g) + Len(w))
      /\ Done(g) = printed[g] - Len(w) - Len(unread[g])
  BY DEF TokensInv, TokensAt, Done
<1> HIDE DEF w
<1>5. /\ token \in Tokens /\ token.by = g /\ token.nth = Done(g) + 1
      /\ Len(w) \in Nat \ {0} /\ Len(Tail(w)) = Len(w) - 1
      /\ Numbered(Tail(w), g, Done(g) + 1)
  BY <1>2, <1>3, <1>4, NumberedTail
<1> HIDE DEF token
<1>6. TokensAt(g)'
  <2>1. printed'[g] = printed[g] /\ got'[g] = Tail(w) /\ unread'[g] = unread[g]
    BY <1>1, <1>2
  <2>2. Done(g)' = Done(g) + 1
    <3>1. Done(g)' = printed'[g] - Len(got'[g]) - Len(unread'[g])
      BY DEF Done
    <3>2. Done(g)' = printed[g] - (Len(w) - 1) - Len(unread[g])
      BY <1>5, <2>1, <3>1, Zenon
    <3>3. QED
      BY <1>3, <1>4, <1>5, <3>2
  <2>3. Done(g)' \in Nat /\ Done(g)' + Len(got'[g]) = Done(g) + Len(w)
    <3>1. Len(got'[g]) = Len(w) - 1 /\ Len(w) \in Nat
      BY <1>5, <2>1
    <3>2. Done(g) \in Nat
      BY <1>4
    <3>3. QED
      BY <2>2, <3>1, <3>2
  <2>4. PICK n \in Nat : n = Done(g)
    BY <1>4
  <2>5. ParsedInOrder(g, n + 1)'
    <3>1. ParsedInOrder(g, n) /\ token \in Tokens /\ token.by = g /\ token.nth = n + 1
      BY <1>4, <1>5, <2>4
    <3>2. parsed \in Seq(Tokens) /\ parsed' = Append(parsed, token)
      BY <1>1, <1>2
    <3>3. QED
      BY <3>1, <3>2, ParsedOneMore
  <2>6. ParsedInOrder(g, Done(g))'
    <3>1. Done(g)' = n + 1
      BY <2>2, <2>4
    <3>2. QED
      BY <2>5, <3>1
  <2>7. QED
    BY <1>4, <1>5, <2>1, <2>2, <2>3, <2>6 DEF TokensAt
<1>7. ASSUME NEW h \in Children \ {g}
      PROVE  TokensAt(h)'
  <2>1. printed'[h] = printed[h] /\ unread'[h] = unread[h] /\ got'[h] = got[h]
    BY <1>1, <1>2
  <2>2. /\ Done(h) \in Nat /\ ParsedInOrder(h, Done(h)) /\ Numbered(got[h], h, Done(h))
        /\ Numbered(unread[h], h, Done(h) + Len(got[h]))
    BY DEF TokensInv, TokensAt
  <2>3. Done(h)' = Done(h)
    BY <2>1 DEF Done
  <2>4. token.by # h
    BY <1>5
  <2>5. ParsedInOrder(h, Done(h))'
    <3>1. \A n \in Nat : ParsedInOrder(h, n) => ParsedInOrder(h, n)'
      BY <1>1, <1>2, <1>5, <2>4, ParsedOneMore
    <3>2. QED
      BY <2>2, <2>3, <3>1 DEF ParsedInOrder
  <2>6. QED
    BY <2>1, <2>2, <2>3, <2>5 DEF TokensAt
<1>8. QED
  BY <1>6, <1>7 DEF TokensInv

\* TokensInv is inductive.
LEMMA TokensStep ==
  ASSUME Inv, DataTypes, HistoryInv, TokensInv, [Next]_vars
  PROVE  TokensInv'
<1>1. ASSUME NEW t \in Threads, WriteFull(t)
      PROVE  TokensInv'
  BY <1>1, SameTokens DEF WriteFull, WriteNothing, WriteStart, WriteSome, WriteFails, child
<1>2. CASE UICall
  BY <1>2, SameTokens DEF UICall, StartCall, SendData, ResizeCall, ScrollCall, child
<1>3. CASE UIStep
  BY <1>1, <1>3, ThreadFacts, SameTokens
  DEF UIStep, StartLock, StartTwice, StartFork, ForkFails, SendReset, Resize, ScrollBy, child
<1>4. CASE DrawLock \/ RenderStep
  BY <1>4, SameTokens DEF DrawLock, RenderStep, DrawLook, DrawClamp, DrawUnlock, child
<1>5. ASSUME NEW g \in Children, WorkerStep(g)
      PROVE  TokensInv'
  <2>1. CASE \/ Poll(g) \/ ParseLock(g) \/ ParseUnlock(g) \/ NoPaste(g) \/ Paste(g)
             \/ ExitLock(g) \/ Close(g) \/ ClearFd(g) \/ ForkNext(g) \/ ForkFails(g)
             \/ ExitUnlock(g)
    BY <2>1, SameTokens
    DEF Poll, ParseLock, ParseUnlock, NoPaste, Paste, ExitLock, Close, ClearFd, ForkNext,
        ForkFails, ExitUnlock, child
  <2>2. CASE Read(g)
    BY <2>2, ReadKeepsTokens
  <2>3. CASE ParseToken(g)
    BY <2>3, ParseKeepsTokens
  <2>4. CASE WriteFull(g)
    BY <1>1, <2>4, ThreadFacts
  <2>5. QED
    BY <1>5, <2>1, <2>2, <2>3, <2>4 DEF WorkerStep
<1>6. ASSUME NEW g \in Children, ChildStep(g)
      PROVE  TokensInv'
  BY <1>6, PrintKeepsTokens, SameTokens DEF ChildStep, Drain, Exit
<1>7. CASE UNCHANGED vars
  BY <1>7, SameTokens DEF vars, child
<1>8. QED
  BY <1>2, <1>3, <1>4, <1>5, <1>6, <1>7 DEF Next

LEMMA InitData ==
  ASSUME Init
  PROVE  DataTypes /\ HistoryInv /\ TokensInv
<1>1. DataTypes
  <2>1. << >> \in Seq(Tokens) /\ << >> \in Seq(Threads \X Nat)
    BY EmptySeq
  <2>2. QED
    BY <2>1 DEF Init, DataTypes, OutputTypes, WriterTypes
<1>2. \A g \in Children : /\ pc[g] = "none" /\ printed[g] = 0 /\ input[g] = << >>
                          /\ unread[g] = << >> /\ got[g] = << >>
  BY ThreadFacts DEF Init, Threads
<1>3. HistoryInv
  <2>1. ServedInv /\ FreshInv /\ OpenInv
    BY <1>2 DEF Init, ServedInv, GoneAt, BusyAt, HasGone, FreshInv, OpenInv
  <2>2. PastInv
    BY <1>2, ThreadFacts DEF PastInv, LastForked, Children
  <2>3. QED
    BY <2>1, <2>2 DEF HistoryInv
<1>4. TokensInv
  <2>1. parsed = << >>
    BY DEF Init
  <2>2. ASSUME NEW g \in Children
        PROVE  TokensAt(g)
    <3>1. Len(got[g]) = 0 /\ Len(unread[g]) = 0
      BY <1>2
    <3>2. Done(g) = 0
      BY <1>2, <3>1 DEF Done
    <3>3. ParsedAt(g) = {} /\ 1 .. 0 = {}
      BY <2>1 DEF ParsedAt
    <3>4. ParsedInOrder(g, 0)
      BY <3>3 DEF ParsedInOrder
    <3>5. Numbered(got[g], g, 0) /\ Numbered(unread[g], g, 0 + Len(got[g]))
      BY <3>1 DEF Numbered
    <3>6. QED
      BY <3>2, <3>4, <3>5 DEF TokensAt
  <2>3. QED
    BY <2>2 DEF TokensInv
<1>5. QED
  BY <1>1, <1>3, <1>4

LEMMA NumberedConcat ==
  ASSUME NEW v \in Seq(Tokens), NEW w \in Seq(Tokens), NEW g, NEW n \in Nat,
         Numbered(v, g, n), Numbered(w, g, n + Len(v))
  PROVE  v \o w \in Seq(Tokens) /\ Len(v \o w) = Len(v) + Len(w) /\ Numbered(v \o w, g, n)
<1>1. Len(v) \in Nat /\ Len(w) \in Nat
  BY LenProperties
<1>2. /\ v \o w \in Seq(Tokens) /\ Len(v \o w) = Len(v) + Len(w)
      /\ \A i \in 1 .. Len(v) + Len(w) :
           (v \o w)[i] = IF i <= Len(v) THEN v[i] ELSE w[i - Len(v)]
  BY ConcatProperties
<1>3. ASSUME NEW i \in 1 .. Len(v) + Len(w)
      PROVE  (v \o w)[i].by = g /\ (v \o w)[i].nth = n + i
  <2>1. CASE i <= Len(v)
    <3>1. i \in 1 .. Len(v) /\ (v \o w)[i] = v[i]
      BY <1>1, <1>2, <2>1
    <3>2. QED
      BY <3>1 DEF Numbered
  <2>2. CASE ~ (i <= Len(v))
    <3> DEFINE j == i - Len(v)
    <3>1. j \in 1 .. Len(w) /\ n + Len(v) + j = n + i
      BY <1>1, <2>2
    <3>2. (v \o w)[i] = w[j]
      BY <1>2, <2>2
    <3> HIDE DEF j
    <3>3. w[j].by = g /\ w[j].nth = n + Len(v) + j
      BY <3>1 DEF Numbered
    <3>4. QED
      BY <3>1, <3>2, <3>3
  <2>3. QED
    BY <2>1, <2>2
<1>4. QED
  BY <1>2, <1>3 DEF Numbered

\* What is waiting for the worker of g is what it has read and what it has not.
LEMMA TokensTogether ==
  ASSUME Inv, DataTypes, HistoryInv, TokensInv
  PROVE  NoOutputLost
<1> SUFFICES ASSUME NEW g \in Children
             PROVE  LET n == printed[g] - Len(Waiting(g))
                    IN /\ n >= 0
                       /\ ParsedInOrder(g, n)
                       /\ \A i \in 1 .. Len(Waiting(g)) :
                            Waiting(g)[i].by = g /\ Waiting(g)[i].nth = n + i
                       /\ g < Newest => Waiting(g) = << >>
  BY DEF NoOutputLost
<1>1. /\ printed[g] \in Nat /\ got[g] \in Seq(Tokens) /\ unread[g] \in Seq(Tokens)
      /\ Len(got[g]) \in Nat /\ Len(unread[g]) \in Nat
  BY LenProperties DEF DataTypes, OutputTypes
<1>2. /\ Done(g) \in Nat /\ ParsedInOrder(g, Done(g)) /\ Numbered(got[g], g, Done(g))
      /\ Numbered(unread[g], g, Done(g) + Len(got[g]))
  BY DEF TokensInv, TokensAt
<1>3. /\ Waiting(g) \in Seq(Tokens) /\ Len(Waiting(g)) = Len(got[g]) + Len(unread[g])
      /\ Numbered(Waiting(g), g, Done(g))
  BY <1>1, <1>2, NumberedConcat DEF Waiting
<1>4. printed[g] - Len(Waiting(g)) = Done(g)
  <2>1. printed[g] \in Nat /\ Len(got[g]) \in Nat /\ Len(unread[g]) \in Nat
    BY <1>1
  <2>2. Len(Waiting(g)) = Len(got[g]) + Len(unread[g])
    BY <1>3
  <2>3. printed[g] - (Len(got[g]) + Len(unread[g])) = printed[g] - Len(got[g]) - Len(unread[g])
    <3>1. \A p, a, b \in Nat : p - (a + b) = p - a - b
      OBVIOUS
    <3>2. QED
      BY <2>1, <3>1, Zenon
  <2>4. QED
    BY <2>2, <2>3, Zenon DEF Done
<1>5. Done(g) >= 0
  BY <1>2
<1>6. \A i \in 1 .. Len(Waiting(g)) : Waiting(g)[i].by = g /\ Waiting(g)[i].nth = Done(g) + i
  BY <1>3 DEF Numbered
<1>7. ASSUME g < Newest
      PROVE  Waiting(g) = << >>
  <2>1. pc[g] \in Replaced
    BY <1>7, NewestIsLast DEF Inv, HistoryInv, PastInv
  <2>2. unread[g] = << >>
    BY <2>1 DEF HistoryInv, ServedInv, GoneAt, HasGone, Replaced
  <2>3. got[g] = << >>
    BY <2>1, NothingRead DEF Replaced
  <2>4. Len(got[g]) = 0 /\ Len(unread[g]) = 0
    BY <2>2, <2>3
  <2>5. Len(Waiting(g)) = 0 /\ Waiting(g) \in Seq(Tokens)
    BY <1>3, <2>4
  <2>6. QED
    BY <2>5, EmptySeq
<1>8. QED
  BY <1>2, <1>4, <1>5, <1>6, <1>7

\* The inductive invariant of the whole session: who serves, what has become of
\* earlier children, and where every token is.
SessionInv == Inv /\ DataTypes /\ HistoryInv /\ TokensInv

LEMMA SessionInvariant == Spec => []SessionInv
<1>1. Init => SessionInv
  BY InitInv, InitData DEF SessionInv
<1>2. SessionInv /\ [Next]_vars => SessionInv'
  <2> SUFFICES ASSUME SessionInv, [Next]_vars
               PROVE  SessionInv'
    OBVIOUS
  <2>1. Inv'
    BY NextInv DEF SessionInv
  <2>2. DataTypes'
    BY DataStep DEF SessionInv, Inv
  <2>3. HistoryInv' /\ TokensInv'
    BY HistoryStep, TokensStep DEF SessionInv
  <2>4. QED
    BY <2>1, <2>2, <2>3 DEF SessionInv
<1>3. QED
  BY <1>1, <1>2, PTL DEF Spec

\* For any number of children and tokens, and whatever is read at once:
\* everything a child prints is parsed once and in order, and a child is only
\* started when everything of those before it has been.
THEOREM OutputReachesTheScreen == Spec => []NoOutputLost
<1>1. SessionInv => NoOutputLost
  BY TokensTogether DEF SessionInv
<1>2. QED
  BY <1>1, SessionInvariant, PTL
-----------------------------------------------------------------------------
(* What a thread writes, from WriteFull to the ptys                        *)

\* The bytes of thread u in what the ptys accepted, I, are numbered 1 to n in
\* the order in which they stand there.
AllThere(I, u, n) ==
  \A i \in 1 .. n : \E g \in Children : \E k \in 1 .. Len(I[g]) :
    I[g][k][1] = u /\ I[g][k][2] = i

InRange(I, u, n) ==
  \A g \in Children : \A k \in 1 .. Len(I[g]) : I[g][k][1] = u => I[g][k][2] \in 1 .. n

Ascending(I, u) ==
  \A g \in Children : \A h \in Children :
    \A j \in 1 .. Len(I[g]) : \A k \in 1 .. Len(I[h]) :
      I[g][j][1] = u /\ I[h][k][1] = u /\ (g < h \/ (g = h /\ j < k)) => I[g][j][2] < I[h][k][2]

InOrder(I, u, n) == AllThere(I, u, n) /\ InRange(I, u, n) /\ Ascending(I, u)

\* J is I with n bytes of thread t, numbered from s + 1, at the end of child o's.
Extended(I, J, o, t, s, n) ==
  /\ \A g \in Children : \A k \in 1 .. Len(J[g]) :
       \/ k \in 1 .. Len(I[g]) /\ J[g][k] = I[g][k]
       \/ g = o /\ k > Len(I[o]) /\ J[g][k][1] = t /\ J[g][k][2] = s + (k - Len(I[o]))
  /\ \A g \in Children : \A k \in 1 .. Len(I[g]) : k \in 1 .. Len(J[g]) /\ J[g][k] = I[g][k]
  /\ \A i \in 1 .. n : \E k \in 1 .. Len(J[o]) : J[o][k][1] = t /\ J[o][k][2] = s + i
  /\ Len(J[o]) = Len(I[o]) + n

LEMMA AppendedBytes ==
  ASSUME NEW I \in [Children -> Seq(Threads \X Nat)], NEW o \in Children,
         NEW t \in Threads, NEW s \in Nat, NEW n \in Nat, NEW J,
         J = [I EXCEPT ![o] = @ \o [i \in 1 .. n |-> <<t, s + i>>]]
  PROVE  Extended(I, J, o, t, s, n)
<1> DEFINE more == [i \in 1 .. n |-> <<t, s + i>>]
           v == I[o]
           w == v \o more
<1>1. more \in Seq(Threads \X Nat) /\ Len(more) = n /\ \A i \in 1 .. n : more[i] = <<t, s + i>>
  <2>1. more \in [1 .. n -> Threads \X Nat]
    OBVIOUS
  <2>2. QED
    BY <2>1, LenProperties
<1>2. v \in Seq(Threads \X Nat) /\ Len(v) \in Nat
  BY LenProperties
<1>3. J[o] = w /\ \A g \in Children \ {o} : J[g] = I[g]
  BY DEF more
<1> HIDE DEF more, v
<1>4. /\ Len(w) = Len(v) + n
      /\ \A k \in 1 .. Len(v) + n : w[k] = IF k <= Len(v) THEN v[k] ELSE more[k - Len(v)]
  BY <1>1, <1>2, ConcatProperties
<1> HIDE DEF w
<1>5. \A k \in 1 .. Len(v) : k \in 1 .. Len(w) /\ w[k] = v[k]
  BY <1>2, <1>4
<1>6. ASSUME NEW k \in 1 .. Len(w), k > Len(v)
      PROVE  w[k][1] = t /\ w[k][2] = s + (k - Len(v))
  <2>1. k - Len(v) \in 1 .. n
    BY <1>2, <1>4, <1>6
  <2>2. w[k] = more[k - Len(v)]
    BY <1>2, <1>4, <1>6
  <2>3. QED
    BY <1>1, <2>1, <2>2
<1>7. \A k \in 1 .. Len(w) : k \in 1 .. Len(v) \/ k > Len(v)
  BY <1>2, <1>4
<1>8. ASSUME NEW i \in 1 .. n
      PROVE  \E k \in 1 .. Len(w) : w[k][1] = t /\ w[k][2] = s + i
  <2>1. Len(v) + i \in 1 .. Len(w) /\ Len(v) + i > Len(v) /\ (Len(v) + i) - Len(v) = i
    BY <1>2, <1>4
  <2>2. QED
    BY <1>6, <2>1
<1>9. ASSUME NEW g \in Children, NEW k \in 1 .. Len(J[g])
      PROVE  \/ k \in 1 .. Len(I[g]) /\ J[g][k] = I[g][k]
             \/ g = o /\ k > Len(v) /\ J[g][k][1] = t /\ J[g][k][2] = s + (k - Len(v))
  <2>1. CASE g = o
    BY <1>3, <1>5, <1>6, <1>7, <1>9, <2>1 DEF v
  <2>2. CASE g # o
    BY <1>3, <1>9, <2>2
  <2>3. QED
    BY <2>1, <2>2
<1>10. \A g \in Children : \A k \in 1 .. Len(I[g]) : k \in 1 .. Len(J[g]) /\ J[g][k] = I[g][k]
  BY <1>3, <1>5 DEF v
<1>11. \A i \in 1 .. n : \E k \in 1 .. Len(J[o]) : J[o][k][1] = t /\ J[o][k][2] = s + i
  BY <1>3, <1>8
<1>12. Len(J[o]) = Len(I[o]) + n
  BY <1>3, <1>4 DEF v
<1>13. \A g \in Children : \A k \in 1 .. Len(J[g]) :
         \/ k \in 1 .. Len(I[g]) /\ J[g][k] = I[g][k]
         \/ g = o /\ k > Len(I[o]) /\ J[g][k][1] = t /\ J[g][k][2] = s + (k - Len(I[o]))
  BY <1>9 DEF v
<1>14. QED
  BY <1>10, <1>11, <1>12, <1>13 DEF Extended

\* Other threads' bytes stay in order.
LEMMA OthersInOrder ==
  ASSUME NEW I, NEW J, NEW o \in Children, NEW t, NEW s, NEW n, Extended(I, J, o, t, s, n),
         NEW u, u # t, NEW m, InOrder(I, u, m)
  PROVE  InOrder(J, u, m)
<1>1. \A g \in Children : \A k \in 1 .. Len(J[g]) :
        J[g][k][1] = u => k \in 1 .. Len(I[g]) /\ J[g][k] = I[g][k]
  BY DEF Extended
<1>2. \A g \in Children : \A k \in 1 .. Len(I[g]) : k \in 1 .. Len(J[g]) /\ J[g][k] = I[g][k]
  BY DEF Extended
<1>3. AllThere(J, u, m)
  BY <1>2 DEF InOrder, AllThere
<1>4. InRange(J, u, m)
  BY <1>1 DEF InOrder, InRange
<1>5. Ascending(J, u)
  BY <1>1 DEF InOrder, Ascending
<1>6. QED
  BY <1>3, <1>4, <1>5 DEF InOrder

\* The bytes of the thread that writes stay in order, for nothing has been
\* written to later children.
LEMMA OwnInOrder ==
  ASSUME NEW I \in [Children -> Seq(Threads \X Nat)], NEW o \in Children,
         \A h \in Children : h > o => I[h] = << >>,
         NEW J, NEW t, NEW s \in Nat, NEW n \in Nat, Extended(I, J, o, t, s, n),
         InOrder(I, t, s)
  PROVE  InOrder(J, t, s + n)
<1>1. \A g \in Children : Len(I[g]) \in Nat /\ g \in Nat
  BY LenProperties DEF Children
<1>2. \A g \in Children : \A k \in 1 .. Len(J[g]) :
        \/ k \in 1 .. Len(I[g]) /\ J[g][k] = I[g][k]
        \/ g = o /\ k > Len(I[o]) /\ J[g][k][1] = t /\ J[g][k][2] = s + (k - Len(I[o]))
  BY DEF Extended
<1>3. Len(J[o]) = Len(I[o]) + n
  BY DEF Extended
<1>4. AllThere(J, t, s + n)
  <2>1. ASSUME NEW i \in 1 .. s + n
        PROVE  \E g \in Children : \E k \in 1 .. Len(J[g]) : J[g][k][1] = t /\ J[g][k][2] = i
    <3>1. CASE i \in 1 .. s
      <4>1. PICK g \in Children : \E k \in 1 .. Len(I[g]) : I[g][k][1] = t /\ I[g][k][2] = i
        BY <3>1 DEF InOrder, AllThere
      <4>2. PICK k \in 1 .. Len(I[g]) : I[g][k][1] = t /\ I[g][k][2] = i
        BY <4>1
      <4>3. k \in 1 .. Len(J[g]) /\ J[g][k] = I[g][k]
        BY DEF Extended
      <4>4. QED
        BY <4>2, <4>3
    <3>2. CASE i \notin 1 .. s
      <4>1. i - s \in 1 .. n /\ s + (i - s) = i
        BY <3>2
      <4>2. \E k \in 1 .. Len(J[o]) : J[o][k][1] = t /\ J[o][k][2] = s + (i - s)
        BY <4>1 DEF Extended
      <4>3. QED
        BY <4>1, <4>2
    <3>3. QED
      BY <3>1, <3>2
  <2>2. QED
    BY <2>1 DEF AllThere
<1>5. InRange(J, t, s + n)
  <2>1. ASSUME NEW g \in Children, NEW k \in 1 .. Len(J[g]), J[g][k][1] = t
        PROVE  J[g][k][2] \in 1 .. s + n
    <3>1. CASE k \in 1 .. Len(I[g]) /\ J[g][k] = I[g][k]
      <4>1. J[g][k][2] \in 1 .. s
        BY <2>1, <3>1 DEF InOrder, InRange
      <4>2. QED
        BY <4>1
    <3>2. CASE g = o /\ k > Len(I[o]) /\ J[g][k][2] = s + (k - Len(I[o]))
      <4>1. k \in 1 .. Len(I[o]) + n /\ k > Len(I[o]) /\ Len(I[o]) \in Nat
        BY <1>1, <1>3, <3>2
      <4>2. s + (k - Len(I[o])) \in 1 .. s + n
        BY <4>1
      <4>3. QED
        BY <3>2, <4>2
    <3>3. QED
      BY <1>2, <3>1, <3>2
  <2>2. QED
    BY <2>1 DEF InRange
<1>6. Ascending(J, t)
  <2>1. ASSUME NEW g \in Children, NEW h \in Children,
               NEW j \in 1 .. Len(J[g]), NEW k \in 1 .. Len(J[h]),
               J[g][j][1] = t, J[h][k][1] = t, g < h \/ (g = h /\ j < k)
        PROVE  J[g][j][2] < J[h][k][2]
    <3>1. CASE /\ j \in 1 .. Len(I[g]) /\ J[g][j] = I[g][j]
               /\ k \in 1 .. Len(I[h]) /\ J[h][k] = I[h][k]
      BY <2>1, <3>1 DEF InOrder, Ascending
    <3>2. CASE /\ j \in 1 .. Len(I[g]) /\ J[g][j] = I[g][j]
               /\ h = o /\ k > Len(I[o]) /\ J[h][k][2] = s + (k - Len(I[o]))
      <4>1. J[g][j][2] \in 1 .. s
        BY <2>1, <3>2 DEF InOrder, InRange
      <4>2. Len(I[o]) \in Nat /\ k \in Int
        BY <1>1
      <4>3. s + (k - Len(I[o])) > s
        BY <3>2, <4>2
      <4>4. QED
        BY <3>2, <4>1, <4>2, <4>3
    <3>3. CASE /\ g = o /\ j > Len(I[o])
               /\ k \in 1 .. Len(I[h]) /\ J[h][k] = I[h][k]
      <4>1. ~ (h > o)
        <5>1. ASSUME h > o
              PROVE  FALSE
          <6>1. Len(I[h]) = 0
            BY <5>1
          <6>2. QED
            BY <3>3, <6>1
        <5>2. QED
          BY <5>1
      <4>2. g = h /\ j < k
        BY <1>1, <2>1, <3>3, <4>1
      <4>3. Len(I[o]) \in Nat /\ j \in Int /\ k \in 1 .. Len(I[o])
        BY <1>1, <3>3, <4>2
      <4>4. QED
        BY <3>3, <4>2, <4>3
    <3>4. CASE /\ g = o /\ j > Len(I[o]) /\ J[g][j][2] = s + (j - Len(I[o]))
               /\ h = o /\ k > Len(I[o]) /\ J[h][k][2] = s + (k - Len(I[o]))
      <4>1. g = h /\ j < k
        BY <1>1, <2>1, <3>4
      <4>2. Len(I[o]) \in Nat /\ j \in Int /\ k \in Int
        BY <1>1
      <4>3. s + (j - Len(I[o])) < s + (k - Len(I[o]))
        BY <4>1, <4>2
      <4>4. QED
        BY <3>4, <4>3
    <3>5. QED
      BY <1>2, <3>1, <3>2, <3>3, <3>4
  <2>2. QED
    BY <2>1 DEF Ascending
<1>7. QED
  BY <1>4, <1>5, <1>6 DEF InOrder

\* Every thread's bytes are in order.
WritesInv == \A t \in Threads : InOrder(input, t, sent[t])

LEMMA SameWrites ==
  ASSUME WritesInv, UNCHANGED <<input, sent>>
  PROVE  WritesInv'
BY DEF WritesInv

LEMMA WriteKeepsWrites ==
  ASSUME TypeInv, DataTypes, HistoryInv, WritesInv, NEW t \in Threads, WriteSome(t)
  PROVE  WritesInv'
<1>1. /\ input \in [Children -> Seq(Threads \X Nat)] /\ sent \in [Threads -> Nat]
      /\ left[t] \in Nat /\ sent[t] \in Nat
  BY DEF DataTypes, WriterTypes
<1>2. PICK n \in 1 .. left[t] :
        /\ input' = [input EXCEPT ![open] = @ \o [i \in 1 .. n |-> <<t, sent[t] + i>>]]
        /\ sent' = [sent EXCEPT ![t] = @ + n]
  BY DEF WriteSome
<1>3. n \in Nat
  BY <1>1
<1>4. open \in Children
  BY DEF WriteSome, TypeInv, Children
<1>5. \A h \in Children : h > open => input[h] = << >>
  <2>1. LastForked(open)
    BY <1>4, ThreadFacts DEF HistoryInv, OpenInv
  <2>2. QED
    BY <1>4, <2>1 DEF LastForked, HistoryInv, FreshInv
<1>6. Extended(input, input', open, t, sent[t], n)
  BY <1>1, <1>2, <1>3, <1>4, AppendedBytes
<1>7. InOrder(input', t, sent[t] + n)
  <2>1. InOrder(input, t, sent[t])
    BY DEF WritesInv
  <2>2. QED
    BY <1>1, <1>3, <1>4, <1>5, <1>6, <2>1, OwnInOrder
<1>8. \A u \in Threads : u # t => InOrder(input', u, sent[u])
  <2>1. ASSUME NEW u \in Threads, u # t
        PROVE  InOrder(input', u, sent[u])
    <3>1. InOrder(input, u, sent[u])
      BY DEF WritesInv
    <3>2. QED
      BY <1>4, <1>6, <2>1, <3>1, OthersInOrder
  <2>2. QED
    BY <2>1
<1>9. \A u \in Threads : sent'[u] = IF u = t THEN sent[t] + n ELSE sent[u]
  BY <1>1, <1>2
<1>10. QED
  BY <1>7, <1>8, <1>9 DEF WritesInv

LEMMA WriteFullKeepsWrites ==
  ASSUME TypeInv, DataTypes, HistoryInv, WritesInv, NEW t \in Threads, WriteFull(t)
  PROVE  WritesInv'
BY WriteKeepsWrites, SameWrites DEF WriteFull, WriteNothing, WriteStart, WriteFails, writer

\* WritesInv is inductive.
LEMMA WritesStep ==
  ASSUME TypeInv, DataTypes, HistoryInv, WritesInv, [Next]_vars
  PROVE  WritesInv'
<1>1. CASE UICall
  BY <1>1, SameWrites DEF UICall, StartCall, SendData, ResizeCall, ScrollCall, writer
<1>2. CASE UIStep
  BY <1>2, WriteFullKeepsWrites, ThreadFacts, SameWrites
  DEF UIStep, StartLock, StartTwice, StartFork, ForkFails, SendReset, Resize, ScrollBy, writer
<1>3. CASE DrawLock \/ RenderStep
  BY <1>3, SameWrites DEF DrawLock, RenderStep, DrawLook, DrawClamp, DrawUnlock, writer
<1>4. ASSUME NEW g \in Children, WorkerStep(g)
      PROVE  WritesInv'
  <2>1. CASE WriteFull(g)
    BY <2>1, WriteFullKeepsWrites, ThreadFacts
  <2>2. CASE \/ Poll(g) \/ Read(g) \/ ParseLock(g) \/ ParseToken(g) \/ ParseUnlock(g)
             \/ NoPaste(g) \/ Paste(g) \/ ExitLock(g) \/ Close(g) \/ ClearFd(g)
             \/ ForkNext(g) \/ ForkFails(g) \/ ExitUnlock(g)
    BY <2>2, SameWrites
    DEF Poll, Read, ParseLock, ParseToken, ParseUnlock, NoPaste, Paste, ExitLock, Close, ClearFd,
        ForkNext, ForkFails, ExitUnlock, writer
  <2>3. QED
    BY <1>4, <2>1, <2>2 DEF WorkerStep
<1>5. ASSUME NEW g \in Children, ChildStep(g)
      PROVE  WritesInv'
  BY <1>5, SameWrites DEF ChildStep, PrintToken, Drain, Exit, writer
<1>6. CASE UNCHANGED vars
  BY <1>6, SameWrites DEF vars, writer
<1>7. QED
  BY <1>1, <1>2, <1>3, <1>4, <1>5, <1>6 DEF Next

LEMMA InitWrites ==
  ASSUME Init
  PROVE  WritesInv
<1>1. \A t \in Threads : sent[t] = 0
  BY DEF Init
<1>2. \A g \in Children : Len(input[g]) = 0
  BY DEF Init
<1>3. \A t \in Threads : InOrder(input, t, 0)
  BY <1>2 DEF InOrder, AllThere, InRange, Ascending
<1>4. QED
  BY <1>1, <1>3 DEF WritesInv

\* The bytes of thread t at their places.
LEMMA BytesInOrder ==
  ASSUME NEW t, NEW n, InOrder(input, t, n)
  PROVE  /\ {NumberAt(p) : p \in WrittenBy(t)} = 1 .. n
         /\ \A p, q \in WrittenBy(t) : Before(p, q) => NumberAt(p) < NumberAt(q)
<1>1. ASSUME NEW p \in WrittenBy(t)
      PROVE  p[1] \in Children /\ p[2] \in 1 .. Len(input[p[1]]) /\ input[p[1]][p[2]][1] = t
  BY DEF WrittenBy
<1>2. ASSUME NEW p \in WrittenBy(t)
      PROVE  NumberAt(p) \in 1 .. n
  BY <1>1 DEF NumberAt, InOrder, InRange
<1>3. ASSUME NEW i \in 1 .. n
      PROVE  i \in {NumberAt(p) : p \in WrittenBy(t)}
  <2>1. PICK g \in Children : \E k \in 1 .. Len(input[g]) : input[g][k][1] = t /\ input[g][k][2] = i
    BY DEF InOrder, AllThere
  <2>2. PICK k \in 1 .. Len(input[g]) : input[g][k][1] = t /\ input[g][k][2] = i
    BY <2>1
  <2>3. <<g, k>> \in WrittenBy(t)
    BY <2>2 DEF WrittenBy
  <2>4. NumberAt(<<g, k>>) = i
    BY <2>2 DEF NumberAt
  <2>5. QED
    BY <2>3, <2>4
<1>4. ASSUME NEW p \in WrittenBy(t), NEW q \in WrittenBy(t), Before(p, q)
      PROVE  NumberAt(p) < NumberAt(q)
  BY <1>1, <1>4 DEF Before, NumberAt, InOrder, Ascending
<1>5. QED
  BY <1>2, <1>3, <1>4

\* For any number of threads' keys, replies and pastes, of any length, cut into
\* any short writes: what a thread writes arrives once and in order, also when a
\* new child has taken over the descriptor in between.
THEOREM WritesArriveInOrder == Spec => []WritesInOrder
<1>1. Init => WritesInv
  BY InitWrites
<1>2. SessionInv /\ WritesInv /\ [Next]_vars => WritesInv'
  BY WritesStep DEF SessionInv, Inv
<1>3. WritesInv => WritesInOrder
  BY BytesInOrder DEF WritesInv, WritesInOrder
<1>4. QED
  BY <1>1, <1>2, <1>3, SessionInvariant, PTL DEF Spec
=============================================================================
