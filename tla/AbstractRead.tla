---------------------------- MODULE AbstractRead ----------------------------
(* What a read on a File promises its caller, whatever stack of wrappers   *)
(* and transports lies below: a read into a buffer of `len` bytes either    *)
(* returns Ok(n) with n <= len, or fails with the error that something      *)
(* below it raised during this read, or aborts the process; an abort never  *)
(* follows a raised error, and a raised error is never swallowed.           *)
EXTENDS Naturals

CONSTANTS MaxLen, Errors, None

VARIABLES
    phase,   \* "idle", "busy" or "trapped"
    len,     \* the caller's buffer length
    result,  \* the last read's result, or None
    cause    \* the error raised during the running read, or None

vars == <<phase, len, result, cause>>

Init ==
    /\ phase = "idle"
    /\ len = 0
    /\ result = None
    /\ cause = None

(* The caller starts a read into a buffer of some length.                   *)
Begin ==
    /\ phase = "idle"
    /\ phase' = "busy"
    /\ len' \in 0..MaxLen
    /\ result' = None
    /\ cause' = None

(* Something below the read fails with an error.                            *)
Raise ==
    /\ phase = "busy"
    /\ cause = None
    /\ cause' \in Errors
    /\ UNCHANGED <<phase, len, result>>

(* The read returns a count that fits the buffer.                           *)
CompleteOk ==
    /\ phase = "busy"
    /\ cause = None
    /\ phase' = "idle"
    /\ result' \in {[tag |-> "Ok", val |-> n] : n \in 0..len}
    /\ UNCHANGED <<len, cause>>

(* The read returns the error raised below it.                              *)
CompleteErr ==
    /\ phase = "busy"
    /\ cause # None
    /\ phase' = "idle"
    /\ result' = [tag |-> "Err", val |-> cause]
    /\ UNCHANGED <<len, cause>>

(* The read aborts the process instead of returning a wrong answer.         *)
Abort ==
    /\ phase = "busy"
    /\ cause = None
    /\ phase' = "trapped"
    /\ UNCHANGED <<len, result, cause>>

Next == Begin \/ Raise \/ CompleteOk \/ CompleteErr \/ Abort

Spec == Init /\ [][Next]_vars
=============================================================================
