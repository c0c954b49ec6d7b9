--------------------------- MODULE ReadPathProofs ---------------------------
(* TLAPS proofs about ReadPath, for every width of i32 and usize, every    *)
(* buffer bound, stack depth and set of error codes.                        *)
EXTENDS ReadPath, SequenceTheorems, TLAPS

(* A frame may call only these: File::read enters PR_Read, which reaches a  *)
(* box's read callback or the native descriptor; a box's read callback      *)
(* calls its inner File or its user transport.                              *)
Calls == {<<"File", "Wrapper">>, <<"File", "Native">>,
          <<"Wrapper", "File">>, <<"Wrapper", "Transport">>}

(* The inductive invariant, one definition per conjunct.                  *)
(* The program is idle exactly when no read is running.                    *)
IdleEmpty == status = "idle" => stack = <<>> /\ ret = None
BusyNonEmpty == status = "busy" => stack # <<>>
(* The call stack: File::read outermost, each frame waits for the next.    *)
OuterFile == stack # <<>> => stack[1].op = "File"
StackLinked ==
    \A i \in 1..(Len(stack) - 1) :
        /\ stack[i].phase = "wait"
        /\ <<stack[i].op, stack[i + 1].op>> \in Calls
LeafEntry == stack # <<>> /\ Top.op \in {"Native", "Transport"} => Top.phase = "entry"
(* Below File::read, the caller's length fits an i32.                      *)
LenFits == Len(stack) > 1 => len <= IntMax
(* What is being returned, and to whom.                                     *)
EntryNoRet == stack # <<>> /\ Top.phase = "entry" => ret = None
RetWaits == ret # None => stack # <<>> /\ Top.phase = "wait"
RetToFile == ret # None /\ Top.op = "File" => ret.tag = "Int"
RetToWrapper == ret # None /\ Top.op = "Wrapper" => ret.tag \in {"Ok", "Err"}
(* No error is raised before a leaf fails, and a raised error travels up   *)
(* with the failure: as -1 with the thread's error state set to it, or as  *)
(* Err of it.                                                               *)
NoCauseYet == status = "busy" /\ ret = None => cause = None
IntRet ==
    ret # None /\ ret.tag = "Int" =>
        /\ ret.val < 0 => ret.val = -1 /\ cause # None /\ err = cause
        /\ ret.val >= 0 => cause = None /\ ret.val <= len
OkRet == ret # None /\ ret.tag = "Ok" => cause = None
ErrRet == ret # None /\ ret.tag = "Err" => cause # None /\ ret.val = cause

IInv ==
    /\ TypeOK
    /\ IdleEmpty /\ BusyNonEmpty
    /\ OuterFile /\ StackLinked /\ LeafEntry
    /\ AmountFaithful /\ LenFits
    /\ EntryNoRet /\ RetWaits /\ RetToFile /\ RetToWrapper
    /\ NoCauseYet /\ IntRet /\ OkRet /\ ErrRet
    /\ ErrorFresh

-----------------------------------------------------------------------------
(* Casts of a count that fits an i32 do not change it.                      *)
LEMMA CastSmall ==
    ASSUME NEW n \in 0..IntMax
    PROVE  /\ ToI32(n) = n
           /\ ToUsize(n) = n
BY WidthAssumption DEF ToI32, ToUsize

(* `as usize` always yields a usize.                                       *)
LEMMA ToUsizeType ==
    ASSUME NEW n \in Int
    PROVE  ToUsize(n) \in 0..UsizeMax
BY WidthAssumption DEF ToUsize

(* Marking the innermost frame as waiting keeps the other frames and the   *)
(* innermost frame's call.  Lengths are named by n: the provers reason     *)
(* about n - 1 more easily than about Len(stack) - 1.                      *)
LEMMA WaitFacts ==
    ASSUME stack \in Seq(FrameType), NEW n \in Nat, n >= 1, Len(stack) = n
    PROVE  /\ Wait \in Seq(FrameType)
           /\ Len(Wait) = n
           /\ \A i \in 1..(n - 1) : Wait[i] = stack[i]
           /\ Wait[n].op = stack[n].op
           /\ Wait[n].arg = stack[n].arg
           /\ Wait[n].phase = "wait"
<1>1. n \in 1..Len(stack) /\ stack[n] \in FrameType
  BY ElementOfSeq
<1>2. [stack[n] EXCEPT !.phase = "wait"] \in FrameType
  BY <1>1 DEF FrameType
<1>3. /\ [stack EXCEPT ![n] = [stack[n] EXCEPT !.phase = "wait"]] \in Seq(FrameType)
      /\ Len([stack EXCEPT ![n] = [stack[n] EXCEPT !.phase = "wait"]]) = n
      /\ \A j \in 1..n : [stack EXCEPT ![n] = [stack[n] EXCEPT !.phase = "wait"]][j] =
             IF j = n THEN [stack[n] EXCEPT !.phase = "wait"] ELSE stack[j]
  BY <1>1, <1>2, ExceptSeq
<1>4. Wait = [stack EXCEPT ![n] = [stack[n] EXCEPT !.phase = "wait"]]
  BY Zenon DEF Wait
<1> QED
  BY <1>1, <1>3, <1>4

(* Pushing a frame after marking the innermost one as waiting.             *)
LEMMA PushFacts ==
    ASSUME stack \in Seq(FrameType), NEW n \in Nat, n >= 1, Len(stack) = n,
           NEW f \in FrameType
    PROVE  /\ Append(Wait, f) \in Seq(FrameType)
           /\ Len(Append(Wait, f)) = n + 1
           /\ \A i \in 1..(n - 1) : Append(Wait, f)[i] = stack[i]
           /\ Append(Wait, f)[n].op = stack[n].op
           /\ Append(Wait, f)[n].arg = stack[n].arg
           /\ Append(Wait, f)[n].phase = "wait"
           /\ Append(Wait, f)[n + 1] = f
<1>1. /\ Wait \in Seq(FrameType)
      /\ Len(Wait) = n
      /\ \A i \in 1..(n - 1) : Wait[i] = stack[i]
      /\ Wait[n].op = stack[n].op
      /\ Wait[n].arg = stack[n].arg
      /\ Wait[n].phase = "wait"
  BY WaitFacts
<1>2. /\ Append(Wait, f) \in Seq(FrameType)
      /\ Len(Append(Wait, f)) = n + 1
      /\ \A i \in 1..n : Append(Wait, f)[i] = Wait[i]
      /\ Append(Wait, f)[n + 1] = f
  BY <1>1, AppendProperties
<1> QED
  BY <1>1, <1>2

(* Popping the innermost frame keeps the others.                            *)
LEMMA PopFacts ==
    ASSUME stack \in Seq(FrameType), NEW n \in Nat, n >= 1, Len(stack) = n
    PROVE  /\ Pop \in Seq(FrameType)
           /\ Len(Pop) = n - 1
           /\ \A i \in 1..(n - 1) : Pop[i] = stack[i]
<1>1. \A i \in 1..(n - 1) : stack[i] \in FrameType
  BY ElementOfSeq
<1>2. /\ SubSeq(stack, 1, n - 1) \in Seq(FrameType)
      /\ Len(SubSeq(stack, 1, n - 1)) = IF 1 <= n - 1 THEN n - 1 ELSE 0
      /\ \A i \in 1..(n - 1 - 1 + 1) : SubSeq(stack, 1, n - 1)[i] = stack[1 + i - 1]
  BY <1>1, SubSeqProperties
<1>3. /\ SubSeq(stack, 1, n - 1) \in Seq(FrameType)
      /\ Len(SubSeq(stack, 1, n - 1)) = n - 1
      /\ \A i \in 1..(n - 1) : SubSeq(stack, 1, n - 1)[i] = stack[i]
  BY <1>2
<1> QED
  BY <1>3, Zenon DEF Pop

(* A non-empty stack has a length n >= 1.                                   *)
LEMMA StackLen ==
    ASSUME stack \in Seq(FrameType), stack # <<>>
    PROVE  \E n \in Nat : n >= 1 /\ Len(stack) = n
BY LenProperties, EmptySeq

(* A new frame is a frame.                                                  *)
LEMMA FrameTyped ==
    ASSUME NEW op \in Ops, NEW a \in Int, NEW l \in Nat
    PROVE  Frame(op, a, l) \in FrameType
BY DEF Frame, FrameType

-----------------------------------------------------------------------------
(* A frame other than the outermost returns: the stack below it is intact  *)
(* and its caller, now innermost, waits for the result.                     *)
LEMMA PopStructure ==
    ASSUME IInv, NEW n \in Nat, n >= 2, Len(stack) = n, stack' = Pop,
           len' = len
    PROVE  /\ stack' \in Seq(FrameType)
           /\ Len(stack') = n - 1
           /\ stack' # <<>>
           /\ Top' = stack[n - 1]
           /\ Top'.phase = "wait"
           /\ <<Top'.op, stack[n].op>> \in Calls
           /\ Top'.op \in {"File", "Wrapper"}
           /\ OuterFile' /\ StackLinked' /\ AmountFaithful' /\ LeafEntry'
           /\ LenFits'
<1>1. /\ stack' \in Seq(FrameType)
      /\ Len(stack') = n - 1
      /\ \A i \in 1..(n - 1) : stack'[i] = stack[i]
  BY PopFacts DEF IInv, TypeOK
<1>2. stack' # <<>>
  BY <1>1
<1>3. Top' = stack[n - 1]
  BY <1>1 DEF Top
<1>4. stack[n - 1].phase = "wait" /\ <<stack[n - 1].op, stack[n].op>> \in Calls
  BY DEF IInv, StackLinked
<1>5. stack[n - 1].op \in {"File", "Wrapper"}
  BY <1>4 DEF Calls
<1>6. StackLinked'
  <2>0. 1..(Len(stack') - 1) = 1..(n - 2)
    BY <1>1
  <2> SUFFICES ASSUME NEW i \in 1..(n - 2)
               PROVE  /\ stack'[i].phase = "wait"
                      /\ <<stack'[i].op, stack'[i + 1].op>> \in Calls
    BY <2>0, Zenon DEF StackLinked
  <2> QED
    BY <1>1 DEF IInv, StackLinked
<1>7. OuterFile' /\ AmountFaithful' /\ LenFits'
  BY <1>1 DEF IInv, OuterFile, AmountFaithful, LenFits
<1>8. LeafEntry'
  BY <1>2, <1>3, <1>5 DEF LeafEntry
<1> QED
  BY <1>1, <1>2, <1>3, <1>4, <1>5, <1>6, <1>7, <1>8

(* The initial state satisfies the inductive invariant.                     *)
LEMMA InitIInv == Init => IInv
BY NoneAssumption, BoundsAssumption
   DEF Init, IInv, TypeOK, IdleEmpty, BusyNonEmpty, OuterFile, StackLinked,
       LeafEntry, AmountFaithful, LenFits, EntryNoRet, RetWaits, RetToFile,
       RetToWrapper, NoCauseYet, IntRet, OkRet, ErrRet, ErrorFresh

(* Every step of File::read, wrapper_methods::read, wrap_ffi and the leaf  *)
(* reads keeps the inductive invariant.                                    *)
THEOREM IInvInductive == IInv /\ [Next]_vars => IInv'
<1> SUFFICES ASSUME IInv, [Next]_vars PROVE IInv'
  OBVIOUS
<1> USE NoneAssumption, WidthAssumption, BoundsAssumption
<1>1. CASE Call
  <2>1. PICK L \in 0..MaxLen : stack' = <<Frame("File", L, 0)>> /\ len' = L
    BY <1>1 DEF Call
  <2>2. /\ stack' \in Seq(FrameType)
        /\ Len(stack') = 1
        /\ stack'[1] = Frame("File", L, 0)
        /\ stack' # <<>>
    BY <2>1, FrameTyped DEF Ops
  <2> QED
    BY <1>1, <2>1, <2>2
    DEF Call, IInv, TypeOK, IdleEmpty, BusyNonEmpty, OuterFile, StackLinked,
        LeafEntry, AmountFaithful, LenFits, EntryNoRet, RetWaits, RetToFile,
        RetToWrapper, NoCauseYet, IntRet, OkRet, ErrRet, ErrorFresh, Frame, Top
<1>2. CASE FileRead
  <2>0. /\ stack # <<>> /\ Top.op = "File" /\ Top.phase = "entry"
        /\ status = "busy"
    BY <1>2 DEF FileRead
  <2>1. PICK n \in Nat : n >= 1 /\ Len(stack) = n
    BY <2>0, StackLen DEF IInv, TypeOK
  <2>2. Top = stack[n] /\ stack[n] \in FrameType
    BY <2>1, ElementOfSeq DEF Top, IInv, TypeOK
  <2>3. ret = None /\ cause = None
    BY <2>0 DEF IInv, EntryNoRet, NoCauseYet
  <2>4. stack[n].arg = len /\ len \in 0..MaxLen
    BY <2>1 DEF IInv, AmountFaithful, TypeOK
  <2>5. CASE Top.arg > IntMax /\ Trap
    BY <2>5, <2>3 DEF Trap, IInv, TypeOK, IdleEmpty, BusyNonEmpty, OuterFile, StackLinked,
        LeafEntry, AmountFaithful, LenFits, EntryNoRet, RetWaits, RetToFile,
        RetToWrapper, NoCauseYet, IntRet, OkRet, ErrRet, ErrorFresh, Top
  <2>6. CASE /\ Top.arg <= IntMax
             /\ stack' = Append(Wait, Frame(IF Top.lvl < boxes THEN "Wrapper"
                                                                ELSE "Native",
                                            ToI32(Top.arg), Top.lvl))
             /\ UNCHANGED <<boxes, leaf, ret, err, cause, len, result, status, calls>>
    <3> DEFINE G == Frame(IF stack[n].lvl < boxes THEN "Wrapper" ELSE "Native",
                          len, stack[n].lvl)
    <3>1. len \in 0..IntMax
      BY <2>2, <2>4, <2>6
    <3>2. stack' = Append(Wait, G)
      BY <2>2, <2>4, <2>6, <3>1, CastSmall
    <3>3. G \in FrameType /\ G.op \in {"Wrapper", "Native"} /\ G.phase = "entry"
          /\ G.arg = len
      BY <2>2, <3>1, FrameTyped DEF Ops, FrameType, Frame
    <3>4. /\ stack' \in Seq(FrameType)
          /\ Len(stack') = n + 1
          /\ \A i \in 1..(n - 1) : stack'[i] = stack[i]
          /\ stack'[n].op = "File"
          /\ stack'[n].arg = len
          /\ stack'[n].phase = "wait"
          /\ stack'[n + 1] = G
      BY <2>0, <2>1, <2>2, <2>4, <3>2, <3>3, PushFacts, IInv DEF IInv, TypeOK, Top
    <3>5. StackLinked'
      <4> SUFFICES ASSUME NEW i \in 1..n
                   PROVE  /\ stack'[i].phase = "wait"
                          /\ <<stack'[i].op, stack'[i + 1].op>> \in Calls
        BY <3>4 DEF StackLinked
      <4>1. CASE i < n - 1
        BY <4>1, <2>1, <3>4 DEF IInv, StackLinked
      <4>2. CASE i = n - 1
        BY <4>2, <2>0, <2>1, <2>2, <3>4 DEF IInv, StackLinked
      <4>3. CASE i = n
        BY <4>3, <3>3, <3>4 DEF Calls
      <4> QED
        BY <4>1, <4>2, <4>3
    <3>6. AmountFaithful'
      BY <2>1, <3>3, <3>4, <2>6 DEF IInv, AmountFaithful
    <3>7. Top' = G
      BY <3>4 DEF Top
    <3>8. OuterFile'
      BY <2>1, <2>2, <3>4 DEF IInv, OuterFile, Top
    <3>9. stack' # <<>> /\ Len(stack') > 1
      BY <2>1, <3>4
    <3>10. TypeOK'
      BY <2>6, <3>4 DEF IInv, TypeOK
    <3>11. (LeafEntry /\ LenFits /\ EntryNoRet)'
      BY <2>3, <2>6, <3>1, <3>3, <3>7, <3>9 DEF LeafEntry, LenFits, EntryNoRet
    <3> QED
      BY <2>0, <2>3, <2>6, <3>5, <3>6, <3>8, <3>9, <3>10, <3>11
      DEF IInv, IdleEmpty, BusyNonEmpty, RetWaits, RetToFile,
          RetToWrapper, NoCauseYet, IntRet, OkRet, ErrRet, ErrorFresh
  <2> QED
    BY <1>2, <2>5, <2>6 DEF FileRead
<1>3. CASE WrapperRead
  <2>0. /\ stack # <<>> /\ Top.op = "Wrapper" /\ Top.phase = "entry"
        /\ status = "busy"
    BY <1>3 DEF WrapperRead
  <2>1. PICK n \in Nat : n >= 1 /\ Len(stack) = n
    BY <2>0, StackLen DEF IInv, TypeOK
  <2>2. Top = stack[n] /\ stack[n] \in FrameType
    BY <2>1, ElementOfSeq DEF Top, IInv, TypeOK
  <2>3. ret = None /\ cause = None
    BY <2>0 DEF IInv, EntryNoRet, NoCauseYet
  <2>4. stack[n].arg = len /\ len \in 0..MaxLen
    BY <2>1 DEF IInv, AmountFaithful, TypeOK
  <2>5. n > 1
    BY <2>0, <2>1, <2>2 DEF IInv, OuterFile
  <2>6. len \in 0..IntMax
    BY <2>1, <2>4, <2>5 DEF IInv, LenFits
  <2> DEFINE G == IF stack[n].lvl = boxes - 1 /\ leaf = "Transport"
                    THEN Frame("Transport", len, stack[n].lvl)
                    ELSE Frame("File", len, stack[n].lvl + 1)
  <2>7. stack' = Append(Wait, G) /\ UNCHANGED <<boxes, leaf, ret, err, cause, len, result, status, calls>>
    BY <1>3, <2>2, <2>4, <2>6, CastSmall DEF WrapperRead
  <2>8. G \in FrameType /\ G.op \in {"Transport", "File"} /\ G.phase = "entry"
        /\ G.arg = len
    BY <2>2, <2>6, FrameTyped DEF Ops, FrameType, Frame
  <2>9. /\ stack' \in Seq(FrameType)
        /\ Len(stack') = n + 1
        /\ \A i \in 1..(n - 1) : stack'[i] = stack[i]
        /\ stack'[n].op = "Wrapper"
        /\ stack'[n].arg = len
        /\ stack'[n].phase = "wait"
        /\ stack'[n + 1] = G
    BY <2>0, <2>1, <2>2, <2>4, <2>7, <2>8, PushFacts DEF IInv, TypeOK, Top
  <2>10. StackLinked'
    <3> SUFFICES ASSUME NEW i \in 1..n
                 PROVE  /\ stack'[i].phase = "wait"
                        /\ <<stack'[i].op, stack'[i + 1].op>> \in Calls
      BY <2>9 DEF StackLinked
    <3>1. CASE i < n - 1
      BY <3>1, <2>1, <2>9 DEF IInv, StackLinked
    <3>2. CASE i = n - 1
      BY <3>2, <2>0, <2>1, <2>2, <2>9 DEF IInv, StackLinked
    <3>3. CASE i = n
      BY <3>3, <2>8, <2>9 DEF Calls
    <3> QED
      BY <3>1, <3>2, <3>3
  <2>11. AmountFaithful'
    BY <2>1, <2>8, <2>9, <2>7 DEF IInv, AmountFaithful
  <2>12. Top' = G
    BY <2>9 DEF Top
  <2>13. OuterFile'
    BY <2>1, <2>5, <2>9 DEF IInv, OuterFile
  <2>14. stack' # <<>> /\ Len(stack') > 1
    BY <2>1, <2>9
  <2>15. TypeOK'
    BY <2>7, <2>9 DEF IInv, TypeOK
  <2>16. (LeafEntry /\ LenFits /\ EntryNoRet)'
    BY <2>3, <2>6, <2>7, <2>8, <2>12, <2>14 DEF LeafEntry, LenFits, EntryNoRet
  <2> QED
    BY <2>0, <2>3, <2>7, <2>10, <2>11, <2>13, <2>14, <2>15, <2>16
    DEF IInv, IdleEmpty, BusyNonEmpty, RetWaits, RetToFile,
        RetToWrapper, NoCauseYet, IntRet, OkRet, ErrRet, ErrorFresh
<1>4. CASE WrapperReturn
  <2>0. /\ stack # <<>> /\ Top.op = "Wrapper" /\ Top.phase = "wait"
        /\ status = "busy" /\ ret # None
        /\ UNCHANGED <<boxes, leaf, cause, len, calls>>
    BY <1>4 DEF WrapperReturn
  <2>1. PICK n \in Nat : n >= 1 /\ Len(stack) = n
    BY <2>0, StackLen DEF IInv, TypeOK
  <2>2. Top = stack[n] /\ stack[n] \in FrameType /\ stack[n].arg = len
    BY <2>1, ElementOfSeq DEF Top, IInv, TypeOK, AmountFaithful
  <2>3. n >= 2
    BY <2>0, <2>1, <2>2 DEF IInv, OuterFile
  <2>4. len \in 0..IntMax /\ ToUsize(Top.arg) = len
    BY <2>1, <2>2, <2>3, CastSmall DEF IInv, LenFits, TypeOK
  <2>5. ret.tag \in {"Ok", "Err"}
    BY <2>0 DEF IInv, RetToWrapper
  <2>6. CASE ret.tag = "Ok" /\ ret.val > ToUsize(Top.arg) /\ Trap
    BY <2>0, <2>6 DEF Trap, IInv, TypeOK, IdleEmpty, BusyNonEmpty, OuterFile,
       StackLinked, LeafEntry, AmountFaithful, LenFits, EntryNoRet, RetWaits,
       RetToFile, RetToWrapper, NoCauseYet, IntRet, OkRet, ErrRet, ErrorFresh, Top
  <2>7. CASE /\ ret.tag = "Ok" /\ ret.val <= ToUsize(Top.arg)
             /\ Return(CInt(ToI32(ret.val))) /\ UNCHANGED err
    <3>1. ret.val \in 0..IntMax /\ ret.val <= len /\ cause = None
      BY <2>0, <2>4, <2>7 DEF IInv, TypeOK, Result, OkRet
    <3>2. ret' = CInt(ret.val)
      BY <2>7, <3>1, CastSmall DEF Return
    <3>3. /\ stack' \in Seq(FrameType) /\ stack' # <<>>
          /\ Top'.phase = "wait" /\ Top'.op = "File"
          /\ OuterFile' /\ StackLinked' /\ AmountFaithful' /\ LeafEntry'
          /\ LenFits'
      BY <2>0, <2>1, <2>2, <2>3, <2>7, PopStructure DEF Return, Calls
    <3> QED
      BY <2>0, <2>7, <3>1, <3>2, <3>3
      DEF Return, CInt, IInv, TypeOK, IdleEmpty, BusyNonEmpty, EntryNoRet,
          RetWaits, RetToFile, RetToWrapper, NoCauseYet, IntRet, OkRet, ErrRet,
          ErrorFresh
  <2>8. CASE /\ ret.tag = "Err" /\ err' = ret.val /\ Return(CInt(-1))
    <3>1. cause # None /\ ret.val = cause /\ cause \in Errors
      BY <2>0, <2>8 DEF IInv, ErrRet, TypeOK
    <3>2. /\ stack' \in Seq(FrameType) /\ stack' # <<>>
          /\ Top'.phase = "wait" /\ Top'.op = "File"
          /\ OuterFile' /\ StackLinked' /\ AmountFaithful' /\ LeafEntry'
          /\ LenFits'
      BY <2>0, <2>1, <2>2, <2>3, <2>8, PopStructure DEF Return, Calls
    <3>3. ret' = CInt(-1) /\ err' = cause /\ status' = "busy" /\ result' = result
      BY <2>0, <2>8, <3>1 DEF Return
    <3>4. TypeOK'
      BY <2>0, <3>1, <3>2, <3>3 DEF IInv, TypeOK, CInt
    <3>5. (IdleEmpty /\ BusyNonEmpty /\ EntryNoRet /\ RetWaits)'
      BY <3>2, <3>3 DEF CInt, IdleEmpty, BusyNonEmpty, EntryNoRet, RetWaits
    <3>6. (RetToFile /\ RetToWrapper /\ NoCauseYet)'
      BY <3>2, <3>3 DEF CInt, RetToFile, RetToWrapper, NoCauseYet
    <3>7. (IntRet /\ OkRet /\ ErrRet)'
      BY <2>0, <3>1, <3>3 DEF CInt, IntRet, OkRet, ErrRet
    <3>8. ErrorFresh'
      BY <2>0, <3>3 DEF IInv, ErrorFresh
    <3> QED
      BY <3>2, <3>4, <3>5, <3>6, <3>7, <3>8 DEF IInv
  <2> QED
    BY <1>4, <2>5, <2>6, <2>7, <2>8 DEF WrapperReturn
<1>5. CASE WrapFfi
  <2> DEFINE r == IF ret.val < 0 THEN Err(err) ELSE Ok(ToUsize(ret.val))
  <2>0. /\ stack # <<>> /\ Top.op = "File" /\ Top.phase = "wait"
        /\ status = "busy" /\ ret # None
        /\ UNCHANGED <<boxes, leaf, err, cause, len, calls>>
    BY <1>5 DEF WrapFfi
  <2>1. PICK n \in Nat : n >= 1 /\ Len(stack) = n
    BY <2>0, StackLen DEF IInv, TypeOK
  <2>2. ret.tag = "Int" /\ ret.val \in Int
    BY <2>0 DEF IInv, RetToFile, TypeOK, Result
  <2>3. r \in Result
    <3>1. CASE ret.val < 0
      BY <3>1 DEF IInv, TypeOK, Result, Err
    <3>2. CASE ret.val >= 0
      BY <2>2, <3>2, ToUsizeType DEF Result, Ok
    <3> QED
      BY <2>2, <3>1, <3>2
  <2>4. r.tag = "Ok" => cause = None
    BY <2>0, <2>2 DEF IInv, IntRet, Ok, Err
  <2>5. r.tag = "Err" => cause # None /\ r.val = cause
    BY <2>0, <2>2 DEF IInv, IntRet, Ok, Err
  <2>6. CASE Len(stack) > 1 /\ Return(r)
    <3>1. n >= 2
      BY <2>1, <2>6
    <3>2. /\ stack' \in Seq(FrameType) /\ stack' # <<>>
          /\ Top'.phase = "wait" /\ Top'.op = "Wrapper"
          /\ OuterFile' /\ StackLinked' /\ AmountFaithful' /\ LeafEntry'
          /\ LenFits'
      <4>1. Top = stack[n]
        BY <2>1 DEF Top
      <4> QED
        BY <2>0, <2>1, <2>6, <3>1, <4>1, PopStructure DEF Return, Calls
    <3>3. ret' = r /\ status' = "busy" /\ result' = result
      BY <2>0, <2>6 DEF Return
    <3>4. TypeOK'
      BY <2>0, <2>3, <3>2, <3>3 DEF IInv, TypeOK
    <3>5. (IdleEmpty /\ BusyNonEmpty /\ EntryNoRet /\ RetWaits)'
      BY <2>3, <3>2, <3>3, NoneAssumption DEF IdleEmpty, BusyNonEmpty, EntryNoRet,
         RetWaits, Result
    <3>6. (RetToFile /\ RetToWrapper /\ NoCauseYet)'
      BY <2>3, <3>2, <3>3, NoneAssumption DEF RetToFile, RetToWrapper, NoCauseYet,
         Result
    <3>7. (IntRet /\ OkRet /\ ErrRet)'
      BY <2>0, <2>3, <2>4, <2>5, <3>3 DEF IntRet, OkRet, ErrRet, Result
    <3>8. ErrorFresh'
      BY <2>0, <3>3 DEF IInv, ErrorFresh
    <3> QED
      BY <3>2, <3>4, <3>5, <3>6, <3>7, <3>8 DEF IInv
  <2>7. CASE Len(stack) = 1 /\ Deliver(r)
    <3>1. stack' = <<>> /\ ret' = None /\ result' = r /\ status' = "idle"
      BY <2>7 DEF Deliver
    <3>2. TypeOK'
      BY <2>0, <2>3, <3>1 DEF IInv, TypeOK, Result
    <3>3. (OuterFile /\ StackLinked /\ LeafEntry /\ AmountFaithful /\ LenFits)'
      BY <3>1 DEF OuterFile, StackLinked, LeafEntry, AmountFaithful, LenFits
    <3>4. ErrorFresh'
      BY <2>0, <2>5, <3>1 DEF ErrorFresh
    <3> QED
      BY <3>1, <3>2, <3>3, <3>4
      DEF IInv, IdleEmpty, BusyNonEmpty, EntryNoRet, RetWaits, RetToFile,
          RetToWrapper, NoCauseYet, IntRet, OkRet, ErrRet
  <2> QED
    BY <1>5, <2>6, <2>7 DEF WrapFfi
<1>6. CASE NativeRead
  <2>0. /\ stack # <<>> /\ Top.op = "Native" /\ status = "busy"
        /\ UNCHANGED <<boxes, leaf, len, calls>>
    BY <1>6 DEF NativeRead
  <2>1. PICK n \in Nat : n >= 1 /\ Len(stack) = n
    BY <2>0, StackLen DEF IInv, TypeOK
  <2>2. Top = stack[n] /\ stack[n].arg = len
    BY <2>1 DEF Top, IInv, AmountFaithful
  <2>3. ret = None /\ cause = None
    BY <2>0 DEF IInv, LeafEntry, EntryNoRet, NoCauseYet
  <2>4. n >= 2
    BY <2>0, <2>1, <2>2 DEF IInv, OuterFile
  <2>5. /\ stack' \in Seq(FrameType) /\ stack' # <<>>
        /\ Top'.phase = "wait" /\ Top'.op = "File"
        /\ OuterFile' /\ StackLinked' /\ AmountFaithful' /\ LeafEntry'
        /\ LenFits'
        /\ status' = "busy" /\ result' = result
    BY <2>0, <1>6, <2>1, <2>2, <2>4, PopStructure DEF NativeRead, Return, Calls
  <2>6. len \in 0..IntMax
    BY <2>1, <2>4 DEF IInv, LenFits, TypeOK
  <2>7. CASE \E m \in 0..Top.arg : Return(CInt(m)) /\ UNCHANGED <<err, cause>>
    <3>1. PICK m \in 0..len : ret' = CInt(m) /\ UNCHANGED <<err, cause>>
      BY <2>2, <2>7 DEF Return
    <3>2. TypeOK'
      BY <2>0, <2>5, <2>6, <3>1 DEF IInv, TypeOK, CInt
    <3>3. (IdleEmpty /\ BusyNonEmpty /\ EntryNoRet /\ RetWaits /\ RetToFile
           /\ RetToWrapper /\ NoCauseYet /\ IntRet /\ OkRet /\ ErrRet)'
      BY <2>0, <2>3, <2>5, <2>6, <3>1, NoneAssumption
      DEF IdleEmpty, BusyNonEmpty, EntryNoRet, RetWaits, RetToFile,
          RetToWrapper, NoCauseYet, IntRet, OkRet, ErrRet, CInt
    <3>4. ErrorFresh'
      BY <2>5, <3>1 DEF IInv, ErrorFresh
    <3> QED
      BY <2>5, <3>2, <3>3, <3>4 DEF IInv
  <2>8. CASE \E e \in Errors : err' = e /\ cause' = e /\ Return(CInt(-1))
    <3>1. PICK e \in Errors : err' = e /\ cause' = e /\ ret' = CInt(-1)
      BY <2>8 DEF Return
    <3>2. TypeOK'
      BY <2>0, <2>5, <3>1 DEF IInv, TypeOK, CInt
    <3>3. (IdleEmpty /\ BusyNonEmpty /\ EntryNoRet /\ RetWaits /\ RetToFile
           /\ RetToWrapper /\ NoCauseYet /\ IntRet /\ OkRet /\ ErrRet)'
      BY <2>0, <2>5, <3>1, NoneAssumption
      DEF IdleEmpty, BusyNonEmpty, EntryNoRet, RetWaits, RetToFile,
          RetToWrapper, NoCauseYet, IntRet, OkRet, ErrRet, CInt
    <3>4. ErrorFresh'
      <4>1. result = None \/ result.tag = "Ok"
        BY <2>3, NoneAssumption DEF IInv, ErrorFresh, TypeOK, Result
      <4> QED
        BY <2>5, <4>1 DEF ErrorFresh
    <3> QED
      BY <2>5, <3>2, <3>3, <3>4 DEF IInv
  <2> QED
    BY <1>6, <2>7, <2>8 DEF NativeRead
<1>7. CASE TransportRead
  <2>0. /\ stack # <<>> /\ Top.op = "Transport" /\ status = "busy"
        /\ UNCHANGED <<boxes, leaf, len, calls>>
    BY <1>7 DEF TransportRead
  <2>1. PICK n \in Nat : n >= 1 /\ Len(stack) = n
    BY <2>0, StackLen DEF IInv, TypeOK
  <2>2. Top = stack[n] /\ stack[n].arg = len
    BY <2>1 DEF Top, IInv, AmountFaithful
  <2>3. ret = None /\ cause = None
    BY <2>0 DEF IInv, LeafEntry, EntryNoRet, NoCauseYet
  <2>4. n >= 2
    BY <2>0, <2>1, <2>2 DEF IInv, OuterFile
  <2>5. /\ stack' \in Seq(FrameType) /\ stack' # <<>>
        /\ Top'.phase = "wait" /\ Top'.op = "Wrapper"
        /\ OuterFile' /\ StackLinked' /\ AmountFaithful' /\ LeafEntry'
        /\ LenFits'
        /\ status' = "busy" /\ result' = result
    BY <2>0, <1>7, <2>1, <2>2, <2>4, PopStructure DEF TransportRead, Return, Calls
  <2>7. CASE \E m \in 0..UsizeMax : Return(Ok(m)) /\ UNCHANGED cause
    <3>1. PICK m \in 0..UsizeMax : ret' = Ok(m) /\ UNCHANGED <<err, cause>>
      BY <2>7, <1>7 DEF Return, TransportRead
    <3>2. TypeOK'
      BY <2>0, <2>5, <3>1 DEF IInv, TypeOK, Ok, Result
    <3>3. (IdleEmpty /\ BusyNonEmpty /\ EntryNoRet /\ RetWaits /\ RetToFile
           /\ RetToWrapper /\ NoCauseYet /\ IntRet /\ OkRet /\ ErrRet)'
      BY <2>0, <2>3, <2>5, <3>1, NoneAssumption
      DEF IdleEmpty, BusyNonEmpty, EntryNoRet, RetWaits, RetToFile,
          RetToWrapper, NoCauseYet, IntRet, OkRet, ErrRet, Ok
    <3>4. ErrorFresh'
      BY <2>5, <3>1 DEF IInv, ErrorFresh
    <3> QED
      BY <2>5, <3>2, <3>3, <3>4 DEF IInv
  <2>8. CASE \E e \in Errors : cause' = e /\ Return(Err(e))
    <3>1. PICK e \in Errors : cause' = e /\ ret' = Err(e) /\ UNCHANGED err
      BY <2>8, <1>7 DEF Return, TransportRead
    <3>2. TypeOK'
      BY <2>0, <2>5, <3>1 DEF IInv, TypeOK, Err, Result
    <3>3. (IdleEmpty /\ BusyNonEmpty /\ EntryNoRet /\ RetWaits /\ RetToFile
           /\ RetToWrapper /\ NoCauseYet /\ IntRet /\ OkRet /\ ErrRet)'
      BY <2>0, <2>5, <3>1, NoneAssumption
      DEF IdleEmpty, BusyNonEmpty, EntryNoRet, RetWaits, RetToFile,
          RetToWrapper, NoCauseYet, IntRet, OkRet, ErrRet, Err
    <3>4. ErrorFresh'
      <4>1. result = None \/ result.tag = "Ok"
        BY <2>3, NoneAssumption DEF IInv, ErrorFresh, TypeOK, Result
      <4> QED
        BY <2>5, <4>1 DEF ErrorFresh
    <3> QED
      BY <2>5, <3>2, <3>3, <3>4 DEF IInv
  <2> QED
    BY <1>7, <2>7, <2>8 DEF TransportRead
<1>9. CASE UNCHANGED vars
  BY <1>9 DEF vars, IInv, TypeOK, IdleEmpty, BusyNonEmpty, OuterFile, StackLinked,
        LeafEntry, AmountFaithful, LenFits, EntryNoRet, RetWaits, RetToFile,
        RetToWrapper, NoCauseYet, IntRet, OkRet, ErrRet, ErrorFresh, Top
<1> QED
  BY <1>1, <1>2, <1>3, <1>4, <1>5, <1>6, <1>7, <1>9 DEF Next
-----------------------------------------------------------------------------
(* The strengthened invariant holds in every state a sequence of           *)
(* File::read calls through nested boxes can reach.                         *)
THEOREM ReadPathInvariant == Spec => []IInv
<1>1. Init => IInv
  BY InitIInv
<1>2. IInv /\ [Next]_vars => IInv'
  BY IInvInductive
<1> QED
  BY <1>1, <1>2, PTL DEF Spec

(* Every state of a read is well typed: byte counts stay integers of the   *)
(* frames' types, the thread's error state always holds an error code, and *)
(* a result is Ok of a usize or Err of an error code.                      *)
THEOREM ReadPathTypeCorrect == Spec => []TypeOK
<1>1. IInv => TypeOK
  BY DEF IInv
<1> QED
  BY <1>1, ReadPathInvariant, PTL

(* Every frame of a read, File::read, wrapper_methods::read and the leaf    *)
(* below them, is called with exactly the caller's buffer length: the       *)
(* `len as i32` and `amount as usize` casts never change it (fd.rs:157-158, *)
(* fd.rs:391).                                                              *)
THEOREM AmountFaithfulHolds == Spec => []AmountFaithful
<1>1. IInv => AmountFaithful
  BY DEF IInv
<1> QED
  BY <1>1, ReadPathInvariant, PTL

(* An Err returned by File::read carries the error raised below it during   *)
(* this read: wrap_callback's err.set() and wrap_ffi's PR_GetError() never  *)
(* hand back a stale thread-local error (fd.rs:158, fd.rs:395).             *)
THEOREM ErrorFreshHolds == Spec => []ErrorFresh
<1>1. IInv => ErrorFresh
  BY DEF IInv
<1> QED
  BY <1>1, ReadPathInvariant, PTL

-----------------------------------------------------------------------------
(* `as usize` leaves a count that already fits a usize unchanged.          *)
LEMMA UsizeSmall ==
    ASSUME NEW v \in 0..UsizeMax
    PROVE  ToUsize(v) = v
BY WidthAssumption DEF ToUsize

(* Every step of the read path is a step of AbstractRead or leaves its      *)
(* variables alone.                                                         *)
LEMMA RefineStep == IInv /\ [Next]_vars => [AR!Next]_AR!vars
<1> SUFFICES ASSUME IInv, [Next]_vars PROVE [AR!Next]_AR!vars
  OBVIOUS
<1> DEFINE Stutter == UNCHANGED <<status, len, result, cause>>
<1>0. Stutter => [AR!Next]_AR!vars
  BY DEF AR!vars
(* The leaf frame and a frame in entry phase have no return value yet, so   *)
(* nothing has been raised.                                                 *)
<1>a. ASSUME status = "busy", stack # <<>>, Top.phase = "entry"
      PROVE  cause = None
  BY <1>a DEF IInv, EntryNoRet, NoCauseYet
<1>b. ASSUME status = "busy", stack # <<>>, Top.op \in {"Native", "Transport"}
      PROVE  cause = None
  BY <1>a, <1>b DEF IInv, LeafEntry
<1>1. CASE Call
  <2>1. AR!Begin
    BY <1>1 DEF Call, AR!Begin
  <2> QED
    BY <2>1 DEF AR!Next
<1>2. CASE FileRead
  <2>0. status = "busy" /\ stack # <<>> /\ Top.phase = "entry"
    BY <1>2 DEF FileRead
  <2>1. CASE Trap
    BY <2>0, <2>1, <1>a DEF Trap, AR!Next, AR!Abort
  <2>2. CASE UNCHANGED <<len, result, status, cause>>
    BY <2>2, <1>0
  <2> QED
    BY <1>2, <2>1, <2>2 DEF FileRead
<1>3. CASE WrapperRead
  BY <1>3, <1>0 DEF WrapperRead
<1>4. CASE WrapperReturn
  <2>0. status = "busy" /\ ret # None
    BY <1>4 DEF WrapperReturn
  <2>1. CASE Trap /\ ret.tag = "Ok"
    <3>1. cause = None
      BY <2>0, <2>1 DEF IInv, OkRet
    <3> QED
      BY <2>0, <2>1, <3>1 DEF Trap, AR!Next, AR!Abort
  <2>2. CASE UNCHANGED <<len, result, status, cause>>
    BY <2>2, <1>0
  <2> QED
    BY <1>4, <2>1, <2>2 DEF WrapperReturn, Return
<1>5. CASE WrapFfi
  <2>0. /\ status = "busy" /\ stack # <<>> /\ Top.op = "File" /\ ret # None
        /\ UNCHANGED <<len, cause>>
    BY <1>5 DEF WrapFfi
  <2>1. ret.tag = "Int" /\ ret.val \in Int
    BY <2>0, NoneAssumption DEF IInv, RetToFile, TypeOK, Result
  <2> DEFINE r == IF ret.val < 0 THEN Err(err) ELSE Ok(ToUsize(ret.val))
  <2>2. CASE Deliver(r)
    <3>1. CASE ret.val < 0
      <4>1. cause # None /\ err = cause
        BY <2>0, <2>1, <3>1 DEF IInv, IntRet
      <4>2. result' = [tag |-> "Err", val |-> cause] /\ status' = "idle"
        BY <2>2, <3>1, <4>1 DEF Deliver, Err
      <4> QED
        BY <2>0, <4>1, <4>2 DEF AR!Next, AR!CompleteErr
    <3>2. CASE ~(ret.val < 0)
      <4>1. cause = None /\ ret.val \in 0..len
        BY <2>0, <2>1, <3>2 DEF IInv, IntRet, TypeOK
      <4>2. ret.val \in 0..UsizeMax
        <5>1. len \in 0..MaxLen
          BY DEF IInv, TypeOK
        <5> QED
          BY <4>1, <5>1, LenAssumption, BoundsAssumption, WidthAssumption
      <4>3. result' = [tag |-> "Ok", val |-> ret.val] /\ status' = "idle"
        BY <2>2, <3>2, <4>2, UsizeSmall DEF Deliver, Ok
      <4> QED
        BY <2>0, <4>1, <4>3 DEF AR!Next, AR!CompleteOk
    <3> QED
      BY <3>1, <3>2
  <2>3. CASE Return(r)
    BY <2>0, <2>3, <1>0 DEF Return
  <2> QED
    BY <1>5, <2>2, <2>3 DEF WrapFfi
<1>6. CASE NativeRead
  <2>0. status = "busy" /\ stack # <<>> /\ Top.op = "Native" /\ UNCHANGED len
    BY <1>6 DEF NativeRead
  <2>1. CASE \E e \in Errors : cause' = e /\ Return(CInt(-1))
    BY <2>0, <2>1, <1>b DEF Return, AR!Next, AR!Raise
  <2>2. CASE UNCHANGED <<len, result, status, cause>>
    BY <2>2, <1>0
  <2> QED
    BY <1>6, <2>1, <2>2 DEF NativeRead, Return
<1>7. CASE TransportRead
  <2>0. status = "busy" /\ stack # <<>> /\ Top.op = "Transport" /\ UNCHANGED len
    BY <1>7 DEF TransportRead
  <2>1. CASE \E e \in Errors : cause' = e /\ Return(Err(e))
    BY <2>0, <2>1, <1>b DEF Return, AR!Next, AR!Raise
  <2>2. CASE UNCHANGED <<len, result, status, cause>>
    BY <2>2, <1>0
  <2> QED
    BY <1>7, <2>1, <2>2 DEF TransportRead, Return
<1>9. CASE UNCHANGED vars
  BY <1>9, <1>0 DEF vars
<1> QED
  BY <1>1, <1>2, <1>3, <1>4, <1>5, <1>6, <1>7, <1>9 DEF Next

(* File::read implements AbstractRead: whatever stack of wrappers and      *)
(* transports lies below it, a read returns Ok(n) with n <= len, the Err    *)
(* raised below it in this read, or aborts on a failed assert, and never    *)
(* aborts after an error was raised (fd.rs:156-165, fd.rs:383-398).         *)
THEOREM Refinement == Spec => ImplementsAbstractRead
<1>1. Init => AR!Init
  BY DEF Init, AR!Init
<1>2. IInv /\ [Next]_vars => [AR!Next]_AR!vars
  BY RefineStep
<1> QED
  BY <1>1, <1>2, ReadPathInvariant, PTL DEF Spec, ImplementsAbstractRead, AR!Spec
=============
