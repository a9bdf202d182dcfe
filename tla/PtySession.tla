----------------------------- MODULE PtySession -----------------------------
(***************************************************************************)
(* The threads around the pty of the terminal: the UI thread that starts   *)
(* the session, types, resizes and scrolls, one worker thread per child    *)
(* program, the render thread, and the child programs themselves           *)
(* (entry/src/main/cpp/terminal.cpp and napi_init.cpp).                    *)
(*                                                                         *)
(* A step is what a thread does between two accesses to what others see.   *)
(* term.lock is held by the worker while it parses and while it replaces a *)
(* child, and by the render thread while it draws; the UI thread types     *)
(* without it, and the worker polls, reads and answers a paste without it. *)
(*                                                                         *)
(* The screen is left to Terminal: here the output of a child is a         *)
(* sequence of tokens, and parsing a "query" writes a reply to the pty.    *)
(* forkpty gives the lowest free descriptor, the one just closed, so all   *)
(* ptys have the same number and only one of them is open at a time.       *)
(***************************************************************************)
EXTENDS Integers, Sequences

CONSTANTS
  MaxForks,      \* children the user ever sees
  MaxStarts,     \* times the page calls Start
  MaxKeys,       \* times the user types
  MaxPastes,     \* pasted texts the workers find in the paste queue
  Prints,        \* Prints[g]: how many tokens child g prints at most
  DataLen,       \* bytes of a key, a reply or a pasted text
  Capacity,      \* bytes the kernel keeps for a child that does not read
  ReadSize,      \* tokens a worker reads at once, at most
  MaxScroll, ShownScroll   \* how far the user scrolls; how far Draw lets them

ASSUME PtyAssumption ==
  /\ MaxForks \in Nat \ {0} /\ MaxStarts \in Nat /\ MaxKeys \in Nat /\ MaxPastes \in Nat
  /\ Prints \in [1 .. MaxForks -> Nat]
  /\ DataLen \in Nat \ {0} /\ Capacity \in Nat /\ ReadSize \in Nat \ {0}
  /\ MaxScroll \in Nat /\ ShownScroll \in 0 .. MaxScroll

VARIABLES
  pc,             \* where each thread is
  lock,           \* who holds term.lock
  fd,             \* term.fd: NoFd, or the number the ptys get
  open,           \* the child whose pty is open under that number, 0: closed
  alive,          \* children that run
  printed,        \* number of tokens each child has printed
  unread,         \* child -> tokens printed and not yet read from its pty
  got,            \* worker -> tokens read and not yet parsed
  parsed,         \* tokens parsed so far, of all children
  left,           \* thread -> bytes WriteFull still has to write
  sent,           \* thread -> bytes it has written so far
  input,          \* child -> bytes its pty accepted
  drained,        \* child -> how many of them it has read
  starts, keys, pastes,     \* how often it happened
  scroll_offset,
  fault           \* "none", or the assert that failed

child  == <<alive, printed, drained>>
output == <<unread, got, parsed>>
writer == <<left, sent, input>>
counts == <<starts, keys, pastes>>
vars == <<pc, lock, fd, open, child, output, writer, counts, scroll_offset, fault>>

Children == 1 .. MaxForks

\* Worker g is the thread that serves child g.
UI == 0
Render == -1
NoOne == -2
Threads == {Render, UI} \cup Children

NoFd == -1
PtyFd == 3

\* Threads between the two ends of a critical section.
Holding == {"started", "draw", "clamp", "drawn", "parse", "close", "closed", "fork", "forked"}

Init ==
  /\ pc = [t \in Threads |-> IF t \in {UI, Render} THEN "idle" ELSE "none"]
  /\ lock = NoOne /\ fd = NoFd /\ open = 0
  /\ alive = {}
  /\ printed = [g \in Children |-> 0]
  /\ unread = [g \in Children |-> <<>>]
  /\ got = [g \in Children |-> <<>>]
  /\ parsed = <<>>
  /\ left = [t \in Threads |-> 0]
  /\ sent = [t \in Threads |-> 0]
  /\ input = [g \in Children |-> <<>>]
  /\ drained = [g \in Children |-> 0]
  /\ starts = 0 /\ keys = 0 /\ pastes = 0
  /\ scroll_offset = 0
  /\ fault = "none"

\* Thread t is at a and goes to b.
Goes(t, a, b) == fault = "none" /\ pc[t] = a /\ pc' = [pc EXCEPT ![t] = b]

Lock(t) == lock = NoOne /\ lock' = t
Unlock(t) == lock = t /\ lock' = NoOne

\* The child that is forked next: children are numbered in order.
Newest == CHOOSE g \in 0 .. MaxForks :
            /\ \A h \in Children : h <= g => pc[h] # "none"
            /\ \A h \in Children : h > g => pc[h] = "none"
-----------------------------------------------------------------------------
(* WriteFull: writes until everything is written, asserting that no write  *)
(* fails.  It reads term.fd without taking the lock.                       *)

\* Where thread t goes on after WriteFull.
AfterWrite(t) == IF t = UI THEN "idle" ELSE IF lock = t THEN "parse" ELSE "poll"

\* No pty: nothing is sent.
WriteNothing(t) ==
  /\ fd = NoFd
  /\ Goes(t, "check", AfterWrite(t))
  /\ left' = [left EXCEPT ![t] = 0]
  /\ UNCHANGED <<lock, fd, open, child, output, sent, input, counts, scroll_offset, fault>>

WriteStart(t) ==
  /\ fd # NoFd
  /\ Goes(t, "check", "write")
  /\ UNCHANGED <<lock, fd, open, child, output, writer, counts, scroll_offset, fault>>

\* Defect: what a short write has written is written again.
WriteSome_Again(t) ==
  /\ fd # NoFd /\ open # 0
  /\ \E n \in 1 .. left[t] :
       /\ Len(input[open]) - drained[open] + n <= Capacity
       /\ Goes(t, "write", IF n = left[t] THEN AfterWrite(t) ELSE "write")
       /\ left' = [left EXCEPT ![t] = @ - n]
       /\ input' = [input EXCEPT ![open] = @ \o [i \in 1 .. n |-> <<t, i>>]]
       /\ sent' = [sent EXCEPT ![t] = @ + n]
  /\ UNCHANGED <<lock, fd, open, child, output, counts, scroll_offset, fault>>

\* The kernel takes some of the bytes, as many as it has room for at most.
WriteSome(t) ==
  /\ fd # NoFd /\ open # 0
  /\ \E n \in 1 .. left[t] :
       /\ Len(input[open]) - drained[open] + n <= Capacity
       /\ Goes(t, "write", IF n = left[t] THEN AfterWrite(t) ELSE "write")
       /\ left' = [left EXCEPT ![t] = @ - n]
       /\ input' = [input EXCEPT ![open] = @ \o [i \in 1 .. n |-> <<t, sent[t] + i>>]]
       /\ sent' = [sent EXCEPT ![t] = @ + n]
  /\ UNCHANGED <<lock, fd, open, child, output, counts, scroll_offset, fault>>

\* assert(size >= 0): the descriptor is closed, no child has the other end
\* open, or the pty is full, for it does not block.
WriteFails(t) ==
  /\ pc[t] = "write" /\ fault = "none"
  /\ \/ fd = NoFd
     \/ open = 0
     \/ open \notin alive
     \/ open # 0 /\ Len(input[open]) - drained[open] = Capacity
  /\ fault' = "write"
  /\ UNCHANGED <<pc, lock, fd, open, child, output, writer, counts, scroll_offset>>

WriteFull(t) == WriteNothing(t) \/ WriteStart(t) \/ WriteSome(t) \/ WriteFails(t)
-----------------------------------------------------------------------------
(* Fork                                                                    *)

\* forkpty and fcntl, and a worker thread for the new child.
Fork(t, next) ==
  /\ Newest < MaxForks
  /\ fault = "none"
  /\ pc' = [pc EXCEPT ![t] = next, ![Newest + 1] = "poll"]
  /\ open' = Newest + 1
  /\ fd' = PtyFd
  /\ alive' = alive \cup {Newest + 1}

\* assert(res == 0): forkpty fails and leaves term.fd alone, which is no
\* descriptor, so fcntl fails.
ForkFails(t) ==
  /\ fault = "none"
  /\ fd = NoFd /\ pc[t] \in {"started", "fork"}
  /\ fault' = "fork"
  /\ UNCHANGED <<pc, lock, fd, open, child, output, writer, counts, scroll_offset>>
-----------------------------------------------------------------------------
(* The UI thread: one call at a time                                       *)

\* Start
StartCall ==
  /\ starts < MaxStarts
  /\ Goes(UI, "idle", "start")
  /\ starts' = starts + 1
  /\ UNCHANGED <<lock, fd, open, child, output, writer, keys, pastes, scroll_offset, fault>>

StartLock ==
  /\ Goes(UI, "start", "started")
  /\ Lock(UI)
  /\ UNCHANGED <<fd, open, child, output, writer, counts, scroll_offset, fault>>

\* Start returns, and the lock stays locked.
StartTwice ==
  /\ fd # NoFd
  /\ Goes(UI, "started", "idle")
  /\ UNCHANGED <<lock, fd, open, child, output, writer, counts, scroll_offset, fault>>

StartFork ==
  /\ pc[UI] = "started" /\ fd = NoFd
  /\ Fork(UI, "idle")
  /\ Unlock(UI)
  /\ UNCHANGED <<printed, drained, output, writer, counts, scroll_offset, fault>>

\* SendData: a pty is there ...
SendData ==
  /\ keys < MaxKeys
  /\ keys' = keys + 1
  /\ Goes(UI, "idle", IF fd = NoFd THEN "idle" ELSE "send")
  /\ UNCHANGED <<lock, fd, open, child, output, writer, starts, pastes, scroll_offset, fault>>

\* ... so the view goes back to the bottom, and the data is written.
SendReset ==
  /\ Goes(UI, "send", "check")
  /\ scroll_offset' = 0
  /\ left' = [left EXCEPT ![UI] = DataLen]
  /\ UNCHANGED <<lock, fd, open, child, output, sent, input, counts, fault>>

\* Resize: ioctl on whatever fd is, under the lock.
ResizeCall ==
  /\ Goes(UI, "idle", "resize")
  /\ UNCHANGED <<lock, fd, open, child, output, writer, counts, scroll_offset, fault>>

Resize ==
  /\ lock = NoOne
  /\ Goes(UI, "resize", "idle")
  /\ UNCHANGED <<lock, fd, open, child, output, writer, counts, scroll_offset, fault>>

\* ScrollBy
ScrollCall ==
  /\ Goes(UI, "idle", "scroll")
  /\ UNCHANGED <<lock, fd, open, child, output, writer, counts, scroll_offset, fault>>

ScrollBy ==
  /\ lock = NoOne
  /\ Goes(UI, "scroll", "idle")
  /\ scroll_offset' \in 0 .. MaxScroll
  /\ UNCHANGED <<lock, fd, open, child, output, writer, counts, fault>>
-----------------------------------------------------------------------------
(* The render thread: Draw                                                 *)

DrawLock ==
  /\ Goes(Render, "idle", "draw")
  /\ Lock(Render)
  /\ UNCHANGED <<fd, open, child, output, writer, counts, scroll_offset, fault>>

\* It looks how far the view is scrolled ...
DrawLook ==
  /\ Goes(Render, "draw", IF scroll_offset > ShownScroll THEN "clamp" ELSE "drawn")
  /\ UNCHANGED <<lock, fd, open, child, output, writer, counts, scroll_offset, fault>>

\* ... and, so that one line at least is shown, takes it back.
DrawClamp ==
  /\ Goes(Render, "clamp", "drawn")
  /\ scroll_offset' = ShownScroll
  /\ UNCHANGED <<lock, fd, open, child, output, writer, counts, fault>>

DrawUnlock ==
  /\ Goes(Render, "drawn", "idle")
  /\ Unlock(Render)
  /\ UNCHANGED <<fd, open, child, output, writer, counts, scroll_offset, fault>>
-----------------------------------------------------------------------------
(* Worker g                                                                *)

\* Defect: poll reports data, and no hangup.
Poll_DataOnly(g) ==
  /\ Goes(g, "poll", IF fd # NoFd /\ open # 0 /\ unread[open] # <<>> THEN "read" ELSE "paste")
  /\ UNCHANGED <<lock, fd, open, child, output, writer, counts, scroll_offset, fault>>

\* The pty has something to read, or its child has gone, or 100 ms pass.
Poll(g) ==
  /\ Goes(g, "poll",
       IF fd # NoFd /\ open # 0 /\ (unread[open] # <<>> \/ open \notin alive)
       THEN "read" ELSE "paste")
  /\ UNCHANGED <<lock, fd, open, child, output, writer, counts, scroll_offset, fault>>

\* Worker g has read the first n tokens.
TakeFromPty(g, n) ==
  /\ got' = [got EXCEPT ![g] = SubSeq(unread[open], 1, n)]
  /\ unread' = [unread EXCEPT ![open] = SubSeq(@, n + 1, Len(@))]

\* Defect: a read that finds the child gone is the last one.
Read_Hangup(g) ==
  /\ IF open # 0 /\ open \notin alive
     THEN Goes(g, "read", "exit") /\ UNCHANGED <<unread, got>>
     ELSE IF open # 0 /\ unread[open] # <<>>
     THEN /\ Goes(g, "read", "lock")
          /\ \E n \in 1 .. Len(unread[open]) : n <= ReadSize /\ TakeFromPty(g, n)
     ELSE Goes(g, "read", "paste") /\ UNCHANGED <<unread, got>>
  /\ UNCHANGED <<lock, fd, open, child, parsed, writer, counts, scroll_offset, fault>>

\* The buffer has room for the first n tokens, which differ in length; the rest
\* waits for the next poll.  A pty that is empty and has lost its child gives EIO.
Read(g) ==
  /\ IF fd # NoFd /\ open # 0 /\ unread[open] # <<>>
     THEN /\ Goes(g, "read", "lock")
          /\ \E n \in 1 .. Len(unread[open]) : n <= ReadSize /\ TakeFromPty(g, n)
     ELSE /\ Goes(g, "read",
               IF fd # NoFd /\ open # 0 /\ open \notin alive THEN "exit" ELSE "paste")
          /\ UNCHANGED <<unread, got>>
  /\ UNCHANGED <<lock, fd, open, child, parsed, writer, counts, scroll_offset, fault>>

\* Defect: parsing does not wait for the lock.
ParseLock_Unlocked(g) ==
  /\ Goes(g, "lock", "parse")
  /\ UNCHANGED <<lock, fd, open, child, output, writer, counts, scroll_offset, fault>>

ParseLock(g) ==
  /\ Goes(g, "lock", "parse")
  /\ Lock(g)
  /\ UNCHANGED <<fd, open, child, output, writer, counts, scroll_offset, fault>>

\* Defect: what follows a query in the same read is dropped.
ParseToken_DropsRest(g) ==
  /\ got[g] # <<>>
  /\ LET query == Head(got[g]).kind = "query"
     IN /\ Goes(g, "parse", IF query THEN "check" ELSE "parse")
        /\ left' = [left EXCEPT ![g] = IF query THEN DataLen ELSE 0]
        /\ got' = [got EXCEPT ![g] = IF query THEN <<>> ELSE Tail(@)]
  /\ parsed' = Append(parsed, Head(got[g]))
  /\ UNCHANGED <<lock, fd, open, child, unread, sent, input, counts, scroll_offset, fault>>

\* A token is parsed; a query is answered on the way.
ParseToken(g) ==
  /\ got[g] # <<>>
  /\ LET query == Head(got[g]).kind = "query"
     IN /\ Goes(g, "parse", IF query THEN "check" ELSE "parse")
        /\ left' = [left EXCEPT ![g] = IF query THEN DataLen ELSE 0]
  /\ got' = [got EXCEPT ![g] = Tail(@)]
  /\ parsed' = Append(parsed, Head(got[g]))
  /\ UNCHANGED <<lock, fd, open, child, unread, sent, input, counts, scroll_offset, fault>>

ParseUnlock(g) ==
  /\ got[g] = <<>>
  /\ Goes(g, "parse", "paste")
  /\ Unlock(g)
  /\ UNCHANGED <<fd, open, child, output, writer, counts, scroll_offset, fault>>

\* GetPaste finds nothing, or a text that is written to the pty.
NoPaste(g) ==
  /\ Goes(g, "paste", "poll")
  /\ UNCHANGED <<lock, fd, open, child, output, writer, counts, scroll_offset, fault>>

Paste(g) ==
  /\ pastes < MaxPastes
  /\ pastes' = pastes + 1
  /\ Goes(g, "paste", "check")
  /\ left' = [left EXCEPT ![g] = DataLen]
  /\ UNCHANGED <<lock, fd, open, child, output, sent, input, starts, keys, scroll_offset, fault>>

\* The child has gone.
ExitLock(g) ==
  /\ Goes(g, "exit", "close")
  /\ Lock(g)
  /\ UNCHANGED <<fd, open, child, output, writer, counts, scroll_offset, fault>>

\* close(fd)
Close(g) ==
  /\ Goes(g, "close", "closed")
  /\ open' = 0
  /\ UNCHANGED <<lock, fd, child, output, writer, counts, scroll_offset, fault>>

\* fd = -1, and the notice
ClearFd(g) ==
  /\ Goes(g, "closed", "fork")
  /\ fd' = NoFd
  /\ UNCHANGED <<lock, open, child, output, writer, counts, scroll_offset, fault>>

ForkNext(g) ==
  /\ pc[g] = "fork"
  /\ Fork(g, "forked")
  /\ UNCHANGED <<lock, printed, drained, output, writer, counts, scroll_offset, fault>>

\* Defect: the old worker goes on polling.
ExitUnlock_NoBreak(g) ==
  /\ Goes(g, "forked", "paste")
  /\ Unlock(g)
  /\ UNCHANGED <<fd, open, child, output, writer, counts, scroll_offset, fault>>

\* Defect: the thread ends with the lock held.
ExitUnlock_Keeps(g) ==
  /\ Goes(g, "forked", "done")
  /\ UNCHANGED <<lock, fd, open, child, output, writer, counts, scroll_offset, fault>>

\* The lock is released and the thread ends.
ExitUnlock(g) ==
  /\ Goes(g, "forked", "done")
  /\ Unlock(g)
  /\ UNCHANGED <<fd, open, child, output, writer, counts, scroll_offset, fault>>
-----------------------------------------------------------------------------
(* The programs                                                            *)

PrintToken(g, kind) ==
  /\ fault = "none" /\ g \in alive /\ printed[g] < Prints[g]
  /\ printed' = [printed EXCEPT ![g] = @ + 1]
  /\ unread' = [unread EXCEPT ![g] = Append(@, [by |-> g, nth |-> printed[g] + 1, kind |-> kind])]
  /\ UNCHANGED <<pc, lock, fd, open, alive, drained, got, parsed, writer, counts, scroll_offset,
                 fault>>

Drain(g) ==
  /\ fault = "none" /\ g \in alive /\ drained[g] < Len(input[g])
  /\ drained' = [drained EXCEPT ![g] = Len(input[g])]
  /\ UNCHANGED <<pc, lock, fd, open, alive, printed, output, writer, counts, scroll_offset, fault>>

\* The last child does not exit: what its worker would do is what the workers
\* before it have done.
Exit(g) ==
  /\ fault = "none" /\ g \in alive /\ g < MaxForks
  /\ alive' = alive \ {g}
  /\ UNCHANGED <<pc, lock, fd, open, printed, drained, output, writer, counts, scroll_offset,
                 fault>>
-----------------------------------------------------------------------------
UIStep ==
  \/ StartLock \/ StartTwice \/ StartFork \/ ForkFails(UI)
  \/ SendReset \/ WriteFull(UI)
  \/ Resize \/ ScrollBy

UICall == StartCall \/ SendData \/ ResizeCall \/ ScrollCall

RenderStep == DrawLook \/ DrawClamp \/ DrawUnlock

WorkerStep(g) ==
  \/ Poll(g) \/ Read(g)
  \/ ParseLock(g) \/ ParseToken(g) \/ ParseUnlock(g)
  \/ NoPaste(g) \/ Paste(g) \/ WriteFull(g)
  \/ ExitLock(g) \/ Close(g) \/ ClearFd(g) \/ ForkNext(g) \/ ForkFails(g)
  \/ ExitUnlock(g)

ChildStep(g) == PrintToken(g, "text") \/ PrintToken(g, "query") \/ Drain(g) \/ Exit(g)

Next ==
  \/ UICall \/ UIStep
  \/ DrawLock \/ RenderStep
  \/ \E g \in Children : WorkerStep(g) \/ ChildStep(g)

\* The scheduler runs every thread that can run, and a thread that waits for
\* the lock gets it if it is free again and again: nobody holds it for long, and
\* the render thread sleeps between two frames without it.  Nothing makes the
\* user act or a program print, read or exit.
Fairness ==
  /\ SF_vars(UIStep)
  /\ WF_vars(RenderStep)
  /\ \A g \in Children : SF_vars(WorkerStep(g))

Spec == Init /\ [][Next]_vars /\ Fairness
-----------------------------------------------------------------------------
(* Properties                                                              *)

\* A worker only touches the pty of its own child, though it reads term.fd
\* again, without the lock, for every poll, read and write, and though the
\* workers before it and after it use the same variable.
OwnPty ==
  \A g \in Children :
    /\ pc[g] \notin {"none", "closed", "fork", "forked", "done"} => fd = PtyFd /\ open = g
    /\ pc[g] \in {"closed", "fork"} => open = 0

\* At most one thread is between taking the lock and giving it back, whatever
\* way it got there.
MutualExclusion ==
  \A t \in Threads :
    pc[t] \in Holding \/ (t # UI /\ lock = t) => /\ lock = t
                                             /\ \A u \in Threads \ {t} : pc[u] \notin Holding

\* What child g has printed and is not yet parsed, and where the rest of it is
\* in what has been parsed.
Waiting(g) == got[g] \o unread[g]
ParsedAt(g) == {k \in 1 .. Len(parsed) : parsed[k].by = g}

\* The first n tokens of child g are parsed, each of them once and in order.
ParsedInOrder(g, n) ==
  /\ {parsed[k].nth : k \in ParsedAt(g)} = 1 .. n
  /\ \A j, k \in ParsedAt(g) : j < k => parsed[j].nth < parsed[k].nth

\* Everything a child prints is parsed once and in order, also what it printed
\* just before it exited: it is all there before the next child is started.
NoOutputLost ==
  \A g \in Children :
    LET n == printed[g] - Len(Waiting(g))
    IN /\ n >= 0
       /\ ParsedInOrder(g, n)
       /\ \A i \in 1 .. Len(Waiting(g)) : Waiting(g)[i].by = g /\ Waiting(g)[i].nth = n + i
       /\ g < Newest => Waiting(g) = <<>>

\* The bytes thread t wrote: byte k of what the pty of child g accepted, in the
\* order in which the children have followed each other.
WrittenBy(t) ==
  {p \in UNION {{g} \X (1 .. Len(input[g])) : g \in Children} : input[p[1]][p[2]][1] = t}
NumberAt(p) == input[p[1]][p[2]][2]
Before(p, q) == p[1] < q[1] \/ (p[1] = q[1] /\ p[2] < q[2])

\* What a thread writes arrives once and in order, through short writes, other
\* threads' writes in between, and a new child taking over the descriptor.
WritesInOrder ==
  \A t \in Threads :
    /\ {NumberAt(p) : p \in WrittenBy(t)} = 1 .. sent[t]
    /\ \A p, q \in WrittenBy(t) : Before(p, q) => NumberAt(p) < NumberAt(q)

\* Whoever takes the lock gives it back.
LockReleased == \A t \in Threads : lock = t ~> lock # t \/ fault # "none"

\* A child that exits is replaced.
ChildReplaced ==
  \A g \in 1 .. MaxForks - 1 :
    pc[g] # "none" /\ g \notin alive ~> pc[g + 1] # "none" \/ fault # "none"

\* Whatever is printed gets parsed, whatever the other threads do.
OutputParsed ==
  \A g \in Children : \A i \in 1 .. Prints[g] :
    printed[g] >= i ~> \/ fault # "none"
                      \/ \E k \in 1 .. Len(parsed) : parsed[k].by = g /\ parsed[k].nth = i

=============================================================================
