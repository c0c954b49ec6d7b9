------------------------------ MODULE ReadPath ------------------------------
(* A read through a File whose descriptor is a stack of FileWrapper boxes   *)
(* (fd.rs), with byte counts kept as machine integers and NSPR's            *)
(* thread-local error channel kept as a variable.                           *)
(*                                                                          *)
(* The File at level i holds descriptor i.  Descriptor i is a Rust box for  *)
(* i < boxes; the box's inner transport is the File at level i+1, except    *)
(* the last box of a stack whose leaf is "Transport": its inner is a user   *)
(* transport (any FileMethods impl).  If the leaf is "Native", descriptor   *)
(* `boxes` is a native NSPR descriptor.  The nested calls of one read are   *)
(* kept as a call stack of frames, innermost last.                          *)
EXTENDS Integers, Sequences

CONSTANTS
    IntMax,      \* i32::MAX, 2^(w-1) - 1 for the width w of PRInt32
    UsizeMax,    \* usize::MAX, 2^u - 1 for the width u of usize
    MaxLen,      \* the longest buffer a caller passes to File::read
    Depth,       \* the most boxes stacked under one File
    MaxCalls,    \* the reads the program makes on this thread
    Errors,      \* PRErrorCode values
    None         \* no value

(* usize is at least twice as wide as i32 (64 and 32 bits in the build).   *)
ASSUME WidthAssumption ==
    /\ IntMax \in Nat
    /\ UsizeMax \in Nat
    /\ 2 * IntMax + 1 < UsizeMax
ASSUME BoundsAssumption ==
    /\ MaxLen \in Nat
    /\ Depth \in Nat
    /\ MaxCalls \in Nat
(* A buffer's length is a usize.                                           *)
ASSUME LenAssumption == MaxLen <= UsizeMax
(* None is neither an error code nor a result.                             *)
ASSUME NoneAssumption ==
    /\ None \notin Errors
    /\ None \notin [tag : {"Ok", "Err", "Int"}, val : Int \cup Errors]

(* `n as i32`: the low w bits of n, read in two's complement.              *)
ToI32(n) ==
    LET m == n % (2 * (IntMax + 1))
    IN  IF m > IntMax THEN m - 2 * (IntMax + 1) ELSE m

(* `n as usize` for an i32 n: the low u bits.                              *)
ToUsize(n) == n % (UsizeMax + 1)

(* Results: a Rust Result<usize> and a C PRInt32 return value.              *)
Ok(n) == [tag |-> "Ok", val |-> n]
Err(e) == [tag |-> "Err", val |-> e]
CInt(r) == [tag |-> "Int", val |-> r]

(* A frame: a call of `op` on level `lvl` with the length or amount `arg`.  *)
Frame(op, arg, lvl) == [op |-> op, arg |-> arg, lvl |-> lvl, phase |-> "entry"]

VARIABLES
    boxes,    \* the number of boxes in the descriptor stack
    leaf,     \* what the last box (or the File itself) reads from
    stack,    \* the call stack of the running read, innermost frame last
    ret,      \* the value the innermost frame has just returned, or None
    err,      \* NSPR's thread-local error code (PR_GetError)
    cause,    \* the error raised at the bottom of the running read, or None
    len,      \* the length of the caller's buffer
    result,   \* what the last File::read returned to the caller, or None
    status,   \* "idle", "busy", or "trapped" once an assert has failed
    calls     \* the reads made so far

vars == <<boxes, leaf, stack, ret, err, cause, len, result, status, calls>>

Top == stack[Len(stack)]
Pop == SubSeq(stack, 1, Len(stack) - 1)
(* The innermost frame has made its call and waits for its callee.         *)
Wait == [stack EXCEPT ![Len(stack)].phase = "wait"]

(* A failed assert aborts the process: nothing runs afterwards.             *)
Trap ==
    /\ status' = "trapped"
    /\ UNCHANGED <<boxes, leaf, stack, ret, err, cause, len, result, calls>>

(* The innermost frame returns r to the frame that called it.              *)
Return(r) ==
    /\ stack' = Pop
    /\ ret' = r
    /\ UNCHANGED <<result, status>>

(* The outermost File::read returns r to the program.                     *)
Deliver(r) ==
    /\ stack' = <<>>
    /\ ret' = None
    /\ result' = r
    /\ status' = "idle"

Init ==
    /\ boxes \in 0..Depth
    /\ leaf \in {"Native", "Transport"}
    /\ leaf = "Transport" => boxes > 0
    /\ stack = <<>>
    /\ ret = None
    /\ err \in Errors          \* left over from earlier calls on the thread
    /\ cause = None
    /\ len = 0
    /\ result = None
    /\ status = "idle"
    /\ calls = 0

(* The program calls File::read on the outermost File with a buffer of L   *)
(* bytes.                                                                   *)
Call ==
    /\ status = "idle"
    /\ calls < MaxCalls
    /\ \E L \in 0..MaxLen :
         /\ stack' = <<Frame("File", L, 0)>>
         /\ len' = L
    /\ ret' = None
    /\ cause' = None
    /\ result' = None
    /\ status' = "busy"
    /\ calls' = calls + 1
    /\ UNCHANGED <<boxes, leaf, err>>

(* Mutant of FileRead: no length assert, `len as i32` may wrap.            *)
FileReadNoAssert ==
    /\ status = "busy"
    /\ stack # <<>>
    /\ Top.op = "File"
    /\ Top.phase = "entry"
    /\ stack' = Append(Wait, Frame(IF Top.lvl < boxes THEN "Wrapper" ELSE "Native",
                                   ToI32(Top.arg), Top.lvl))
    /\ UNCHANGED <<boxes, leaf, ret, err, cause, len, result, status, calls>>

(* File::read: assert the length fits an i32, then PR_Read(fd, buf,        *)
(* len as i32), which NSPR dispatches to the box's read callback or to the  *)
(* native descriptor.                                                       *)
FileRead ==
    /\ status = "busy"
    /\ stack # <<>>
    /\ Top.op = "File"
    /\ Top.phase = "entry"
    /\ \/ /\ Top.arg > IntMax
          /\ Trap
       \/ /\ Top.arg <= IntMax
          /\ stack' = Append(Wait, Frame(IF Top.lvl < boxes THEN "Wrapper"
                                                             ELSE "Native",
                                         ToI32(Top.arg), Top.lvl))
          /\ UNCHANGED <<boxes, leaf, ret, err, cause, len, result, status, calls>>

(* wrapper_methods::read up to the inner call: xlate_fd, assert amount >= 0 *)
(* (the abort when it fails is a state with no successor: every amount     *)
(* reaching here comes from File::read, which already checked it), then    *)
(* read the inner transport into the first `amount as usize` bytes.         *)
WrapperRead ==
    /\ status = "busy"
    /\ stack # <<>>
    /\ Top.op = "Wrapper"
    /\ Top.phase = "entry"
    /\ Top.arg >= 0
    /\ stack' = Append(Wait,
           IF Top.lvl = boxes - 1 /\ leaf = "Transport"
             THEN Frame("Transport", ToUsize(Top.arg), Top.lvl)
             ELSE Frame("File", ToUsize(Top.arg), Top.lvl + 1))
    /\ UNCHANGED <<boxes, leaf, ret, err, cause, len, result, status, calls>>

(* Mutant of WrapperReturn: the count is narrowed without the assert.      *)
WrapperReturnNoAssert ==
    /\ status = "busy"
    /\ stack # <<>>
    /\ Top.op = "Wrapper"
    /\ Top.phase = "wait"
    /\ ret # None
    /\ \/ /\ ret.tag = "Ok"
          /\ Return(CInt(ToI32(ret.val)))
          /\ UNCHANGED err
       \/ /\ ret.tag = "Err"
          /\ err' = ret.val
          /\ Return(CInt(-1))
    /\ UNCHANGED <<boxes, leaf, cause, len, calls>>

(* Mutant of WrapperReturn: an Err is turned into -1 without setting the    *)
(* thread's error state.                                                    *)
WrapperReturnNoErrSet ==
    /\ status = "busy"
    /\ stack # <<>>
    /\ Top.op = "Wrapper"
    /\ Top.phase = "wait"
    /\ ret # None
    /\ \/ /\ ret.tag = "Ok"
          /\ \/ /\ ret.val > ToUsize(Top.arg)
                /\ Trap
             \/ /\ ret.val <= ToUsize(Top.arg)
                /\ Return(CInt(ToI32(ret.val)))
       \/ /\ ret.tag = "Err"
          /\ Return(CInt(-1))
    /\ UNCHANGED <<boxes, leaf, err, cause, len, calls>>

(* The inner read has returned.  Ok(len): assert len <= amount, narrow it   *)
(* with `len as PRInt32`.  Err(e): wrap_callback stores e in the thread's   *)
(* error state and returns -1.                                              *)
WrapperReturn ==
    /\ status = "busy"
    /\ stack # <<>>
    /\ Top.op = "Wrapper"
    /\ Top.phase = "wait"
    /\ ret # None
    /\ \/ /\ ret.tag = "Ok"
          /\ \/ /\ ret.val > ToUsize(Top.arg)
                /\ Trap
             \/ /\ ret.val <= ToUsize(Top.arg)
                /\ Return(CInt(ToI32(ret.val)))
                /\ UNCHANGED err
       \/ /\ ret.tag = "Err"
          /\ err' = ret.val
          /\ Return(CInt(-1))
    /\ UNCHANGED <<boxes, leaf, cause, len, calls>>

(* wrap_ffi around PR_Read in File::read: a negative return becomes        *)
(* Err(PR_GetError()), any other r becomes Ok(r as usize).                  *)
WrapFfi ==
    /\ status = "busy"
    /\ stack # <<>>
    /\ Top.op = "File"
    /\ Top.phase = "wait"
    /\ ret # None
    /\ LET r == IF ret.val < 0 THEN Err(err) ELSE Ok(ToUsize(ret.val))
       IN  \/ Len(stack) > 1 /\ Return(r)
           \/ Len(stack) = 1 /\ Deliver(r)
    /\ UNCHANGED <<boxes, leaf, err, cause, len, calls>>

(* PR_Read on a native descriptor: at most `amount` bytes, or -1 with the   *)
(* error code set.  A negative amount is refused.                           *)
NativeRead ==
    /\ status = "busy"
    /\ stack # <<>>
    /\ Top.op = "Native"
    /\ \/ /\ Top.arg >= 0
          /\ \E n \in 0..Top.arg : Return(CInt(n))
          /\ UNCHANGED <<err, cause>>
       \/ \E e \in Errors :
            /\ err' = e
            /\ cause' = e
            /\ Return(CInt(-1))
    /\ UNCHANGED <<boxes, leaf, len, calls>>

(* FileMethods::read of a user transport: any Ok count, or any error.       *)
TransportRead ==
    /\ status = "busy"
    /\ stack # <<>>
    /\ Top.op = "Transport"
    /\ \/ \E n \in 0..UsizeMax :
            /\ Return(Ok(n))
            /\ UNCHANGED cause
       \/ \E e \in Errors :
            /\ cause' = e
            /\ Return(Err(e))
    /\ UNCHANGED <<boxes, leaf, err, len, calls>>

Next ==
    \/ Call
    \/ FileRead
    \/ WrapperRead
    \/ WrapperReturn
    \/ WrapFfi
    \/ NativeRead
    \/ TransportRead

Spec == Init /\ [][Next]_vars

-----------------------------------------------------------------------------
Result == [tag : {"Ok"}, val : 0..UsizeMax] \cup [tag : {"Err"}, val : Errors]

Ops == {"File", "Wrapper", "Native", "Transport"}
FrameType == [op : Ops, arg : Int, lvl : Nat, phase : {"entry", "wait"}]

TypeOK ==
    /\ boxes \in 0..Depth
    /\ leaf \in {"Native", "Transport"}
    /\ stack \in Seq(FrameType)
    /\ ret \in Result \cup [tag : {"Int"}, val : Int] \cup {None}
    /\ err \in Errors
    /\ cause \in Errors \cup {None}
    /\ len \in 0..MaxLen
    /\ result \in Result \cup {None}
    /\ status \in {"idle", "busy", "trapped"}
    /\ calls \in 0..MaxCalls

(* Every layer is asked for exactly the caller's length: File::read's      *)
(* assert (fd.rs:157) keeps `len as i32` from wrapping, so no wrapper or    *)
(* native read below sees a different, possibly negative, amount.           *)
AmountFaithful == \A i \in 1..Len(stack) : stack[i].arg = len

(* A read that fails reports the error raised by the failing layer of this  *)
(* very read, never a stale one left in the thread-local error state: a     *)
(* negative PRInt32 reaches wrap_ffi only together with a fresh error code  *)
(* (the narrowing after the assert at fd.rs:394 never wraps to negative).   *)
ErrorFresh == result # None /\ result.tag = "Err" => result.val = cause

(* The read path implements the abstract read (AbstractRead): with the      *)
(* asserts of File::read (fd.rs:157) and wrapper_methods::read (fd.rs:390,  *)
(* 394), every read the program makes returns a count that fits its buffer *)
(* or the error raised below it during that read, or aborts; no transport   *)
(* can make it return more bytes than asked for.                            *)
AR == INSTANCE AbstractRead WITH phase <- status

ImplementsAbstractRead == AR!Spec
=============================================================================
