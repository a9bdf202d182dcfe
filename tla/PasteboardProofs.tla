-------------------------- MODULE PasteboardProofs --------------------------
(***************************************************************************)
(* Safety of Pasteboard for any number of copies, requests and hidden      *)
(* pages and for any texts: no request is lost or answered twice, and both *)
(* queues are Fifo queues.                                                 *)
(***************************************************************************)
EXTENDS Pasteboard, TLAPS, SequenceTheorems

TypeInv ==
  /\ copy_queue \in Seq(Texts) /\ copied \in Seq(Texts) /\ taken \in Seq(Texts)
  /\ paste_queue \in Seq(Texts) /\ pushed \in Seq(Texts) /\ popped \in Seq(Texts)
  /\ setting \in Seq(Texts)
  /\ pasteboard \in Seq(Texts)
  /\ fetched \in Seq(Seq(Texts)) /\ pushing \in Seq(Texts)
  /\ paste_requests \in Nat /\ asking \in Nat /\ reading \in Nat
  /\ requested \in Nat /\ served \in Nat

\* What went into a queue is what came out, and then what is still in it.
Splits(whole, out, queue) == whole = out \o queue

CopyInv == Splits(copied, taken, copy_queue)
PasteInv == Splits(pushed, popped, paste_queue)

Inv == TypeInv /\ CopyInv /\ PasteInv
-----------------------------------------------------------------------------
(* Sequences                                                               *)

\* Adding to the end of a queue adds to the end of all that went in.
LEMMA PutSplits ==
  ASSUME NEW S, NEW whole \in Seq(S), NEW out \in Seq(S), NEW queue \in Seq(S), NEW e \in S,
         Splits(whole, out, queue)
  PROVE  Splits(Append(whole, e), out, Append(queue, e))
<1>1. <<e>> \in Seq(S) /\ whole = out \o queue
  BY DEF Splits
<1>2. Append(whole, e) = whole \o <<e>>
  BY AppendIsConcat
<1>3. Append(queue, e) = queue \o <<e>>
  BY AppendIsConcat
<1> QED
  BY <1>1, <1>2, <1>3, ConcatAssociative DEF Splits

\* Taking the front of a queue takes what comes next of all that went in.
LEMMA TakeSplits ==
  ASSUME NEW S, NEW whole \in Seq(S), NEW out \in Seq(S), NEW queue \in Seq(S), queue # <<>>,
         Splits(whole, out, queue)
  PROVE  /\ Splits(whole, Append(out, Head(queue)), Tail(queue))
         /\ Len(out) < Len(whole)
         /\ whole[Len(out) + 1] = Head(queue)
<1>1. Head(queue) \in S /\ Tail(queue) \in Seq(S)
  BY HeadTailProperties
<1>2. Splits(whole, Append(out, Head(queue)), Tail(queue))
  <2>1. queue = <<Head(queue)>> \o Tail(queue)
    BY HeadTailProperties, <1>1
  <2>2. Append(out, Head(queue)) = out \o <<Head(queue)>>
    BY <1>1, AppendIsConcat
  <2>3. <<Head(queue)>> \in Seq(S)
    BY <1>1
  <2> QED
    BY <1>1, <2>1, <2>2, <2>3, ConcatAssociative DEF Splits
<1>3. Len(queue) >= 1 /\ queue[1] = Head(queue)
  BY HeadTailProperties, LenProperties
<1> QED
  BY <1>2, <1>3, ConcatProperties, LenProperties DEF Splits

\* Taking an element out of a sequence leaves a sequence one shorter.
LEMMA RemoveAtProperties ==
  ASSUME NEW S, NEW s \in Seq(S), NEW i \in 1 .. Len(s)
  PROVE  /\ s[i] \in S
         /\ RemoveAt(s, i) \in Seq(S)
         /\ Len(RemoveAt(s, i)) = Len(s) - 1
<1>1. Len(s) \in Nat /\ s[i] \in S
  BY LenProperties, ElementOfSeq
<1>2. SubSeq(s, 1, i - 1) \in Seq(S) /\ Len(SubSeq(s, 1, i - 1)) = i - 1
  BY <1>1, SubSeqProperties
<1>3. SubSeq(s, i + 1, Len(s)) \in Seq(S) /\ Len(SubSeq(s, i + 1, Len(s))) = Len(s) - i
  BY <1>1, SubSeqProperties
<1> DEFINE front == SubSeq(s, 1, i - 1)
           back == SubSeq(s, i + 1, Len(s))
<1>4. RemoveAt(s, i) = front \o back
  BY DEF RemoveAt
<1> HIDE DEF front, back
<1>5. front \o back \in Seq(S) /\ Len(front \o back) = Len(front) + Len(back)
  BY <1>2, <1>3, ConcatProperties DEF front, back
<1>6. Len(front) = i - 1 /\ Len(back) = Len(s) - i
  BY <1>2, <1>3 DEF front, back
<1> QED
  BY <1>1, <1>4, <1>5, <1>6
-----------------------------------------------------------------------------
(* The invariant                                                           *)

LEMMA InitInv == Init => Inv /\ OneReadPerRequest
<1> SUFFICES ASSUME Init PROVE Inv /\ OneReadPerRequest
  OBVIOUS
<1>1. TypeInv
  BY PasteboardAssumption, EmptySeq DEF Init, TypeInv
<1>2. CopyInv /\ PasteInv
  BY ConcatEmptySeq, EmptySeq DEF Init, CopyInv, PasteInv, Splits
<1>3. OneReadPerRequest
  BY LenProperties, EmptySeq DEF Init, OneReadPerRequest
<1> QED
  BY <1>1, <1>2, <1>3 DEF Inv

\* Types, one step per action.
LEMMA TypeStep == TypeInv /\ [Next]_vars => TypeInv'
<1> SUFFICES ASSUME TypeInv, [Next]_vars PROVE TypeInv'
  OBVIOUS
<1> USE DEF TypeInv, queues, pending, history
<1>1. CASE Copy
  BY <1>1, AppendProperties DEF Copy
<1>2. CASE RequestPaste
  BY <1>2 DEF RequestPaste
<1>3. CASE Timeout
  BY <1>3 DEF Timeout
<1>4. CASE GetPaste
  BY <1>4, HeadTailProperties, AppendProperties DEF GetPaste
<1>5. CASE OnPageShow \/ OnPageHide
  BY <1>5 DEF OnPageShow, OnPageHide
<1>6. CASE CheckCopy
  <2>1. CASE copy_queue = <<>>
    BY <1>6, <2>1 DEF CheckCopy
  <2>2. CASE copy_queue # <<>>
    <3>1. Head(copy_queue) \in Texts /\ Tail(copy_queue) \in Seq(Texts)
      BY <2>2, HeadTailProperties
    <3>2. /\ Append(setting, Head(copy_queue)) \in Seq(Texts)
          /\ Append(taken, Head(copy_queue)) \in Seq(Texts)
      BY <3>1, AppendProperties
    <3> QED
      BY <1>6, <2>2, <3>1, <3>2 DEF CheckCopy
  <2> QED
    BY <2>1, <2>2
<1>7. CASE CheckPaste
  BY <1>7 DEF CheckPaste
<1>8. CASE Asked
  BY <1>8 DEF Asked
<1>9. CASE Resolved
  <2>1. PICK i \in 1 .. Len(fetched) :
          fetched' = RemoveAt(fetched, i) /\ pushing' = fetched[i]
    BY <1>9 DEF Resolved
  <2>2. fetched' \in Seq(Seq(Texts)) /\ pushing' \in Seq(Texts)
    BY <2>1, RemoveAtProperties
  <2> QED
    BY <1>9, <2>2 DEF Resolved
<1>10. CASE PushPaste
  BY <1>10, HeadTailProperties, AppendProperties DEF PushPaste
<1>11. CASE Pushed
  BY <1>11 DEF Pushed
<1>12. CASE Refused
  BY <1>12 DEF Refused
<1>13. CASE SetData
  <2>1. PICK i \in 1 .. Len(setting) :
          /\ setting' = RemoveAt(setting, i)
          /\ pasteboard' \in {pasteboard, <<setting[i]>>}
    BY <1>13 DEF SetData
  <2>2. setting' \in Seq(Texts) /\ setting[i] \in Texts
    BY <2>1, RemoveAtProperties
  <2>3. ASSUME NEW text \in Texts PROVE <<text>> \in Seq(Texts)
    OBVIOUS
  <2>4. pasteboard' \in Seq(Texts)
    BY <2>1, <2>2, <2>3
  <2> QED
    BY <1>13, <2>2, <2>4 DEF SetData
<1>14. CASE GetData
  BY <1>14, AppendProperties DEF GetData
<1>15. CASE OtherApp
  BY <1>15, PasteboardAssumption DEF OtherApp
<1>16. CASE UNCHANGED vars
  BY <1>16 DEF vars
<1> QED
  BY <1>1, <1>2, <1>3, <1>4, <1>5, <1>6, <1>7, <1>8, <1>9, <1>10, <1>11, <1>12, <1>13, <1>14,
     <1>15, <1>16 DEF Next, Tick, PageStep

\* Both queues keep what went in and did not come out.
LEMMA QueueStep == Inv /\ [Next]_vars => CopyInv' /\ PasteInv'
<1> SUFFICES ASSUME Inv, [Next]_vars PROVE CopyInv' /\ PasteInv'
  OBVIOUS
<1> USE DEF Inv, TypeInv, CopyInv, PasteInv, queues, history
<1>1. CASE Copy
  <2>1. PICK text \in Texts :
          copy_queue' = Append(copy_queue, text) /\ copied' = Append(copied, text)
    BY <1>1 DEF Copy
  <2> QED
    BY <1>1, <2>1, PutSplits DEF Copy
<1>2. CASE CheckCopy
  <2>1. CASE copy_queue = <<>>
    BY <1>2, <2>1 DEF CheckCopy
  <2>2. CASE copy_queue # <<>>
    BY <1>2, <2>2, TakeSplits DEF CheckCopy
  <2> QED
    BY <2>1, <2>2
<1>3. CASE GetPaste
  BY <1>3, TakeSplits DEF GetPaste
<1>4. CASE PushPaste
  <2>1. Head(pushing) \in Texts
    BY <1>4, HeadTailProperties DEF PushPaste
  <2> QED
    BY <1>4, <2>1, PutSplits DEF PushPaste
<1>5. CASE UNCHANGED <<copy_queue, paste_queue, copied, taken, pushed, popped>>
  BY <1>5
<1>6. CASE RequestPaste \/ Timeout \/ OnPageShow \/ OnPageHide \/ CheckPaste \/ Asked
  BY <1>5, <1>6 DEF RequestPaste, Timeout, OnPageShow, OnPageHide, CheckPaste, Asked
<1>7. CASE Resolved \/ Pushed \/ Refused \/ SetData \/ GetData \/ OtherApp
  BY <1>5, <1>7 DEF Resolved, Pushed, Refused, SetData, GetData, OtherApp
<1>8. CASE UNCHANGED vars
  BY <1>5, <1>8 DEF vars
<1> QED
  BY <1>1, <1>2, <1>3, <1>4, <1>6, <1>7, <1>8 DEF Next, Tick, PageStep

LEMMA NextInv == Inv /\ [Next]_vars => Inv'
BY TypeStep, QueueStep DEF Inv
-----------------------------------------------------------------------------
(* Theorems                                                                *)

LEMMA CopyRefines == Inv /\ [Next]_vars => [Copies!Put \/ Copies!Take]_<<copied, taken>>
<1> SUFFICES ASSUME Inv, [Next]_vars
             PROVE  [Copies!Put \/ Copies!Take]_<<copied, taken>>
  OBVIOUS
<1>1. CASE Copy
  BY <1>1 DEF Copy, Copies!Put
<1>2. CASE CheckCopy
  <2>1. CASE copy_queue = <<>>
    BY <1>2, <2>1 DEF CheckCopy
  <2>2. CASE copy_queue # <<>>
    <3>1. /\ taken' = Append(taken, Head(copy_queue)) /\ UNCHANGED copied
      BY <1>2, <2>2 DEF CheckCopy
    <3>2. Len(taken) < Len(copied) /\ copied[Len(taken) + 1] = Head(copy_queue)
      BY <2>2, TakeSplits DEF Inv, TypeInv, CopyInv
    <3> QED
      BY <3>1, <3>2 DEF Copies!Take
  <2> QED
    BY <2>1, <2>2
<1>3. CASE UNCHANGED <<copied, taken>>
  BY <1>3
<1>4. CASE RequestPaste \/ Timeout \/ GetPaste \/ OnPageShow \/ OnPageHide \/ CheckPaste \/ Asked
  BY <1>3, <1>4
     DEF RequestPaste, Timeout, GetPaste, OnPageShow, OnPageHide, CheckPaste, Asked, history
<1>5. CASE Resolved \/ PushPaste \/ Pushed \/ Refused \/ SetData \/ GetData \/ OtherApp
  BY <1>3, <1>5 DEF Resolved, PushPaste, Pushed, Refused, SetData, GetData, OtherApp, history
<1>6. CASE UNCHANGED vars
  BY <1>3, <1>6 DEF vars, history
<1> QED
  BY <1>1, <1>2, <1>4, <1>5, <1>6 DEF Next, Tick, PageStep

LEMMA PasteRefines == Inv /\ [Next]_vars => [Pastes!Put \/ Pastes!Take]_<<pushed, popped>>
<1> SUFFICES ASSUME Inv, [Next]_vars
             PROVE  [Pastes!Put \/ Pastes!Take]_<<pushed, popped>>
  OBVIOUS
<1>1. CASE PushPaste
  <2>1. Head(pushing) \in Texts
    BY <1>1, HeadTailProperties DEF PushPaste, Inv, TypeInv
  <2>2. pushed' = Append(pushed, Head(pushing)) /\ UNCHANGED popped
    BY <1>1 DEF PushPaste
  <2> QED
    BY <2>1, <2>2 DEF Pastes!Put
<1>2. CASE GetPaste
  <2>1. paste_queue # <<>> /\ popped' = Append(popped, Head(paste_queue)) /\ UNCHANGED pushed
    BY <1>2 DEF GetPaste
  <2>2. Len(popped) < Len(pushed) /\ pushed[Len(popped) + 1] = Head(paste_queue)
    BY <2>1, TakeSplits DEF Inv, TypeInv, PasteInv
  <2> QED
    BY <2>1, <2>2 DEF Pastes!Take
<1>3. CASE UNCHANGED <<pushed, popped>>
  BY <1>3
<1>4. CASE Copy \/ RequestPaste \/ Timeout \/ OnPageShow \/ OnPageHide \/ Tick \/ Asked
  BY <1>3, <1>4
     DEF Copy, RequestPaste, Timeout, OnPageShow, OnPageHide, Tick, CheckCopy, CheckPaste, Asked,
         history
<1>5. CASE Resolved \/ Pushed \/ Refused \/ SetData \/ GetData \/ OtherApp
  BY <1>3, <1>5 DEF Resolved, Pushed, Refused, SetData, GetData, OtherApp, history
<1>6. CASE UNCHANGED vars
  BY <1>3, <1>6 DEF vars, history
<1> QED
  BY <1>1, <1>2, <1>4, <1>5, <1>6 DEF Next, PageStep

\* A request is in one place on its way: in the queue, with the user, with the
\* system, with the page, or done.
LEMMA RequestStep == TypeInv /\ OneReadPerRequest /\ [Next]_vars => OneReadPerRequest'
<1> SUFFICES ASSUME TypeInv, OneReadPerRequest, [Next]_vars PROVE OneReadPerRequest'
  OBVIOUS
<1> USE DEF TypeInv, OneReadPerRequest, queues, pending, history
<1>1. CASE RequestPaste
  BY <1>1, LenProperties DEF RequestPaste
<1>2. CASE CheckCopy
  <2>1. (js' = "push") = (js = "push") /\ served' = served
    BY <1>2 DEF CheckCopy
  <2> QED BY <1>2, <2>1 DEF CheckCopy
<1>3. CASE CheckPaste
  <2>1. CASE paste_requests > 0
    BY <1>3, <2>1, LenProperties DEF CheckPaste
  <2>2. CASE ~ (paste_requests > 0)
    BY <1>3, <2>2, LenProperties DEF CheckPaste
  <2> QED
    BY <2>1, <2>2
<1>4. CASE Asked
  BY <1>4, LenProperties DEF Asked
<1>5. CASE Refused
  BY <1>5, LenProperties DEF Refused
<1>6. CASE GetData
  BY <1>6, AppendProperties, LenProperties DEF GetData
<1>7. CASE Resolved
  <2>1. PICK i \in 1 .. Len(fetched) : fetched' = RemoveAt(fetched, i)
    BY <1>7 DEF Resolved
  <2>2. Len(fetched') = Len(fetched) - 1
    BY <2>1, RemoveAtProperties
  <2> QED
    BY <1>7, <2>2, LenProperties DEF Resolved
<1>8. CASE PushPaste
  BY <1>8 DEF PushPaste
<1>9. CASE Pushed
  BY <1>9, LenProperties DEF Pushed
<1>10. CASE Copy \/ Timeout \/ GetPaste \/ OnPageShow \/ OnPageHide
  BY <1>10 DEF Copy, Timeout, GetPaste, OnPageShow, OnPageHide
<1>11. CASE SetData \/ OtherApp \/ UNCHANGED vars
  BY <1>11 DEF SetData, OtherApp, vars
<1> QED
  BY <1>1, <1>2, <1>3, <1>4, <1>5, <1>6, <1>7, <1>8, <1>9, <1>10, <1>11 DEF Next, Tick, PageStep

\* However the callbacks interleave, the pasteboard is read once for a request.
THEOREM RequestsReadOnce == Spec => []OneReadPerRequest
<1>1. TypeInv /\ OneReadPerRequest /\ [Next]_vars => (TypeInv /\ OneReadPerRequest)'
  BY TypeStep, RequestStep
<1>2. Init => TypeInv /\ OneReadPerRequest
  BY InitInv DEF Inv
<1> QED
  BY <1>1, <1>2, PTL DEF Spec

\* The copy queue, drained by one tick at a time, is a Fifo queue.
THEOREM CopyQueueIsFifo == Spec => CopiesInOrder
<1>1. Init => Copies!Init
  BY DEF Init, Copies!Init
<1>2. Init => Inv
  BY InitInv
<1> QED
  BY <1>1, <1>2, NextInv, CopyRefines, PTL DEF Spec, CopiesInOrder, Copies!Spec

\* The paste queue, drained by whichever worker is running, is a Fifo queue.
THEOREM PasteQueueIsFifo == Spec => PastesInOrder
<1>1. Init => Pastes!Init
  BY DEF Init, Pastes!Init
<1>2. Init => Inv
  BY InitInv
<1> QED
  BY <1>1, <1>2, NextInv, PasteRefines, PTL DEF Spec, PastesInOrder, Pastes!Spec
=============================================================================
