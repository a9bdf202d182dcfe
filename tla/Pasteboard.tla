----------------------------- MODULE Pasteboard -----------------------------
(***************************************************************************)
(* Copy and paste by the programs in the terminal (OSC 52): the queues in  *)
(* entry/src/main/cpp/napi_init.cpp between the worker thread and the page *)
(* of entry/src/main/ets/pages/Index.ets, whose 100 ms timer moves copied  *)
(* texts to the system pasteboard and pasteboard contents to the programs. *)
(*                                                                         *)
(* The JS thread runs one callback at a time; what it waits for (the       *)
(* user's permission, the pasteboard's data, the end of a setData) is      *)
(* answered in any order.  A step is what one thread does between two      *)
(* accesses to the queues, which pasteboard_lock makes atomic.             *)
(*                                                                         *)
(* What the programs are is left to PtySession: the worker that takes an   *)
(* answer writes it to the pty of its own child, and what one child copied *)
(* or asked for is still there when the next child has taken over.         *)
(***************************************************************************)
EXTENDS Integers, Sequences, SequencesExt

CONSTANTS
  Texts,         \* texts that are copied; "" is the empty one
  Encoded,       \* those that decodeSync of Base64Helper accepts
  Contents,      \* what other apps put on the pasteboard: texts, a record each
  MaxCopies, MaxRequests, MaxHides

ASSUME PasteboardAssumption ==
  /\ Contents \subseteq Seq(Texts)
  /\ {MaxCopies, MaxRequests, MaxHides} \subseteq Nat

VARIABLES
  copy_queue, paste_requests, paste_queue,
  shown, timer,    \* whether the page is shown, and its timer runs
  js,              \* what the JS thread is in: "idle", "tick" or "push"
  setting,         \* texts of the setData calls not done yet
  asking,          \* requests that wait for the user's permission
  reading,         \* requests that wait for the pasteboard
  fetched,         \* contents read and not yet looked at by the page
  pushing,         \* texts the page still has to push
  pasteboard,      \* its records
  copied,          \* all texts ever copied,
  taken, set,      \* taken from the queue by a tick, and given to setData
  pushed, popped,  \* all texts ever pushed, and taken by a worker
  requested, served,       \* requests made, and those the page is done with
  waiting,         \* programs that asked and still wait for the answer
  hides            \* times the page was hidden

queues == <<copy_queue, paste_requests, paste_queue>>
pending == <<setting, asking, reading, fetched, pushing>>
history == <<copied, taken, set, pushed, popped, requested, served>>
vars == <<queues, shown, timer, js, pending, pasteboard, history, waiting, hides>>

Init ==
  /\ copy_queue = <<>> /\ paste_requests = 0 /\ paste_queue = <<>>
  /\ shown = FALSE /\ timer = FALSE /\ js = "idle"
  /\ setting = <<>> /\ asking = 0 /\ reading = 0 /\ fetched = <<>> /\ pushing = <<>>
  /\ pasteboard \in Contents
  /\ copied = <<>> /\ taken = <<>> /\ set = <<>> /\ pushed = <<>> /\ popped = <<>>
  /\ requested = 0 /\ served = 0
  /\ waiting = 0 /\ hides = 0
-----------------------------------------------------------------------------
(* The worker thread                                                       *)

\* OSC 52 ; c ; text BEL
Copy ==
  /\ Len(copied) < MaxCopies
  /\ \E text \in Texts :
       /\ copy_queue' = Append(copy_queue, text)
       /\ copied' = Append(copied, text)
  /\ UNCHANGED <<paste_requests, paste_queue, shown, timer, js, pending, pasteboard,
                 taken, set, pushed, popped, requested, served, waiting, hides>>

\* OSC 52 ; c ; ? BEL
RequestPaste ==
  /\ requested < MaxRequests
  /\ requested' = requested + 1
  /\ waiting' = waiting + 1
  /\ paste_requests' = paste_requests + 1
  /\ UNCHANGED <<copy_queue, paste_queue, shown, timer, js, pending, pasteboard,
                 copied, taken, set, pushed, popped, served, hides>>

\* pbpaste waits for a second only, however long the user takes to answer.
Timeout ==
  /\ waiting > 0
  /\ waiting' = waiting - 1
  /\ UNCHANGED <<queues, shown, timer, js, pending, pasteboard, history, hides>>

\* An answer on the pty is read by a program that waits for one, if any does;
\* otherwise it is typed at the prompt.
Answered(text) ==
  waiting' = IF text = "" \/ waiting = 0 THEN waiting ELSE waiting - 1

\* Defect: an empty answer stays at the front.
GetPaste_StopsAtEmpty ==
  /\ paste_queue # <<>> /\ Head(paste_queue) # ""
  /\ paste_queue' = Tail(paste_queue)
  /\ popped' = Append(popped, Head(paste_queue))
  /\ Answered(Head(paste_queue))
  /\ UNCHANGED <<copy_queue, paste_requests, shown, timer, js, pending, pasteboard,
                 copied, taken, set, pushed, requested, served, hides>>

\* Defect: the answer is read and not removed.
GetPaste_Keeps ==
  /\ paste_queue # <<>>
  /\ popped' = Append(popped, Head(paste_queue))
  /\ Answered(Head(paste_queue))
  /\ Len(popped) <= Len(pushed)
  /\ UNCHANGED <<queues, shown, timer, js, pending, pasteboard,
                 copied, taken, set, pushed, requested, served, hides>>

\* The text goes to the pty; an empty one is taken and not sent.
GetPaste ==
  /\ paste_queue # <<>>
  /\ paste_queue' = Tail(paste_queue)
  /\ popped' = Append(popped, Head(paste_queue))
  /\ Answered(Head(paste_queue))
  /\ UNCHANGED <<copy_queue, paste_requests, shown, timer, js, pending, pasteboard,
                 copied, taken, set, pushed, requested, served, hides>>
-----------------------------------------------------------------------------
(* The JS thread                                                           *)

\* Defect: the timer is only started the first time.
OnPageShow_Once ==
  /\ js = "idle" /\ ~shown
  /\ shown' = TRUE
  /\ timer' = (hides = 0)
  /\ UNCHANGED <<queues, js, pending, pasteboard, history, waiting, hides>>

OnPageShow ==
  /\ js = "idle" /\ ~shown
  /\ shown' = TRUE
  /\ timer' = TRUE
  /\ UNCHANGED <<queues, js, pending, pasteboard, history, waiting, hides>>

OnPageHide ==
  /\ js = "idle" /\ shown /\ hides < MaxHides
  /\ hides' = hides + 1
  /\ shown' = FALSE
  /\ timer' = FALSE
  /\ UNCHANGED <<queues, js, pending, pasteboard, history, waiting>>

\* Defect: the text copied last goes first.
CheckCopy_Newest ==
  /\ timer /\ js = "idle"
  /\ \/ /\ copy_queue = <<>> /\ js' = "tick" /\ UNCHANGED <<copy_queue, taken, setting, set>>
     \/ /\ copy_queue # <<>> /\ copy_queue' = Front(copy_queue)
        /\ taken' = Append(taken, Last(copy_queue))
        /\ js' = "tick" /\ setting' = Append(setting, Last(copy_queue)) /\ set' = Append(set, Last(copy_queue))
  /\ UNCHANGED <<paste_requests, paste_queue, shown, timer, asking, reading, fetched, pushing,
                 pasteboard, copied, pushed, popped, requested, served, waiting, hides>>

\* A tick of the timer: one copied text, if there is one, goes to setData, or
\* decodeSync throws and the text is lost with the rest of the tick ...
CheckCopy ==
  /\ timer /\ js = "idle"
  /\ \/ /\ copy_queue = <<>> /\ js' = "tick" /\ UNCHANGED <<copy_queue, taken, setting, set>>
     \/ /\ copy_queue # <<>> /\ copy_queue' = Tail(copy_queue)
        /\ taken' = Append(taken, Head(copy_queue))
        /\ IF Head(copy_queue) \in Encoded
           THEN /\ js' = "tick" /\ setting' = Append(setting, Head(copy_queue))
                /\ set' = Append(set, Head(copy_queue))
           ELSE UNCHANGED <<js, setting, set>>
  /\ UNCHANGED <<paste_requests, paste_queue, shown, timer, asking, reading, fetched, pushing,
                 pasteboard, copied, pushed, popped, requested, served, waiting, hides>>

\* Defect: one answer for all the requests there are.
CheckPaste_AllAtOnce ==
  /\ js = "tick"
  /\ js' = "idle"
  /\ paste_requests' = 0
  /\ asking' = IF paste_requests > 0 THEN asking + 1 ELSE asking
  /\ UNCHANGED <<copy_queue, paste_queue, shown, timer, setting, reading, fetched, pushing,
                 pasteboard, history, waiting, hides>>

\* Defect: a single request is not seen.
CheckPaste_OffByOne ==
  /\ js = "tick"
  /\ js' = "idle"
  /\ IF paste_requests > 1
     THEN paste_requests' = paste_requests - 1 /\ asking' = asking + 1
     ELSE UNCHANGED <<paste_requests, asking>>
  /\ UNCHANGED <<copy_queue, paste_queue, shown, timer, setting, reading, fetched, pushing,
                 pasteboard, history, waiting, hides>>

\* ... and one request, if there is one, asks for the user's permission.
CheckPaste ==
  /\ js = "tick"
  /\ js' = "idle"
  /\ IF paste_requests > 0
     THEN paste_requests' = paste_requests - 1 /\ asking' = asking + 1
     ELSE UNCHANGED <<paste_requests, asking>>
  /\ UNCHANGED <<copy_queue, paste_queue, shown, timer, setting, reading, fetched, pushing,
                 pasteboard, history, waiting, hides>>

\* The user has answered, whatever the answer: the page calls getData.
Asked ==
  /\ js = "idle" /\ asking > 0
  /\ asking' = asking - 1
  /\ reading' = reading + 1
  /\ UNCHANGED <<queues, shown, timer, js, setting, fetched, pushing, pasteboard, history,
                 waiting, hides>>

\* getData is refused or fails: nobody catches it, and the request is over.
Refused ==
  /\ js = "idle" /\ reading > 0
  /\ reading' = reading - 1
  /\ served' = served + 1
  /\ UNCHANGED <<queues, shown, timer, js, setting, asking, fetched, pushing, pasteboard,
                 copied, taken, set, pushed, popped, requested, waiting, hides>>

\* getData has resolved: the page goes through the records ...
Resolved ==
  /\ js = "idle"
  /\ \E i \in 1 .. Len(fetched) :
       /\ fetched' = RemoveAt(fetched, i)
       /\ pushing' = fetched[i]
  /\ js' = "push"
  /\ UNCHANGED <<queues, shown, timer, setting, asking, reading, pasteboard, history,
                 waiting, hides>>

\* ... and pushes one after the other.
PushPaste ==
  /\ js = "push" /\ pushing # <<>>
  /\ pushing' = Tail(pushing)
  /\ paste_queue' = Append(paste_queue, Head(pushing))
  /\ pushed' = Append(pushed, Head(pushing))
  /\ UNCHANGED <<copy_queue, paste_requests, shown, timer, js, setting, asking, reading, fetched,
                 pasteboard, copied, taken, set, popped, requested, served, waiting, hides>>

Pushed ==
  /\ js = "push" /\ pushing = <<>>
  /\ js' = "idle"
  /\ served' = served + 1
  /\ UNCHANGED <<queues, shown, timer, pending, pasteboard, copied, taken, set, pushed, popped,
                 requested, waiting, hides>>
-----------------------------------------------------------------------------
(* The system pasteboard                                                   *)

\* A setData may fail: the page only logs it.
SetData ==
  /\ \E i \in 1 .. Len(setting) :
       /\ setting' = RemoveAt(setting, i)
       /\ pasteboard' \in {pasteboard, <<setting[i]>>}
  /\ UNCHANGED <<queues, shown, timer, js, asking, reading, fetched, pushing, history,
                 waiting, hides>>

GetData ==
  /\ reading > 0
  /\ reading' = reading - 1
  /\ fetched' = Append(fetched, pasteboard)
  /\ UNCHANGED <<queues, shown, timer, js, setting, asking, pushing, pasteboard, history,
                 waiting, hides>>

OtherApp ==
  /\ pasteboard' \in Contents
  /\ UNCHANGED <<queues, shown, timer, js, pending, history, waiting, hides>>
-----------------------------------------------------------------------------
Tick == CheckCopy \/ CheckPaste

PageStep == Asked \/ Resolved \/ PushPaste \/ Pushed

Next ==
  \/ Copy \/ RequestPaste \/ Timeout \/ GetPaste
  \/ OnPageShow \/ OnPageHide \/ Tick \/ PageStep \/ Refused
  \/ SetData \/ GetData \/ OtherApp

\* The worker looks at the paste queue every 100 ms at the latest, the timer
\* ticks while the page is shown, a callback that can run does in the end, and
\* the system answers every call, if only to refuse it.  Nothing makes a program
\* copy or ask, or the user come back to the page.
Fairness ==
  /\ WF_vars(GetPaste)
  /\ SF_vars(CheckCopy) /\ WF_vars(CheckPaste)
  /\ SF_vars(Asked) /\ SF_vars(Resolved) /\ WF_vars(PushPaste \/ Pushed)
  /\ WF_vars(GetData \/ Refused)

Spec == Init /\ [][Next]_vars /\ Fairness
-----------------------------------------------------------------------------
(* Properties                                                              *)

\* Every text a program copies is taken by a tick once, in the order in which
\* they were copied, over any number of ticks and of hidden pages.
Copies == INSTANCE Fifo WITH Item <- Texts, put <- copied
CopiesInOrder == Copies!Spec

\* Every text the page pushes is taken by a worker once, in order, whichever
\* worker it is.
Pastes == INSTANCE Fifo WITH Item <- Texts, put <- pushed, taken <- popped
PastesInOrder == Pastes!Spec

\* The pasteboard is read once for every request, never without one: a request
\* is in one place on its way through the queue, the promises and the page.
OneReadPerRequest ==
  requested = paste_requests + asking + reading + Len(fetched) + served
              + (IF js = "push" THEN 1 ELSE 0)

\* If the page is shown from some time on, every copied text that decodeSync
\* accepts gets to setData in its turn, though a tick takes only one, and though
\* another text ends a tick.
Valid(texts) == SelectSeq(texts, LAMBDA text : text \in Encoded)
CopiesArrive ==
  <>[]shown => \A n \in 1 .. MaxCopies :
                 Len(Valid(copied)) >= n ~> Len(set) >= n /\ IsPrefix(set, Valid(copied))

\* ... and every request is answered or refused.
RequestsServed ==
  <>[]shown => \A n \in 1 .. MaxRequests : requested >= n ~> served >= n

\* Whatever the page pushes is taken, an empty text does not block the queue.
PastesTaken == \A n \in 1 .. 2 * MaxRequests : Len(pushed) >= n ~> Len(popped) >= n

=============================================================================
