---------------------------- MODULE LayeredFile ----------------------------
(***************************************************************************)
(* The I/O layering core of nss-rs (src/src/nspr/fd.rs, src/src/lib.rs):   *)
(* owning File handles, BorrowedFile views, FileWrapper::wrap boxes, the   *)
(* wrapper_methods dispatch callbacks, and TLSSocket, which pushes an SSL   *)
(* layer on top of a File with SSL_ImportFD.                                *)
(*                                                                         *)
(* Memory is a set of PRFileDesc header addresses.  A header holds the     *)
(* layer's kind (our "Rust" identity, the "SSL" layer, or a "Native" NSPR  *)
(* descriptor), its secret (for a Rust header: the address of the box that *)
(* owns it), and the lower/higher stack links.  PR_PushIOLayer and         *)
(* PR_PopIOLayer swap header contents in place, so a Rust header may sit at *)
(* an address that is not its box's: that is the relocation the close      *)
(* callback asserts away.  Freed memory is never reused, so a freed        *)
(* address stays recognisable.                                             *)
(*                                                                         *)
(* The client program is a set of variable Slots holding a File, a         *)
(* TLSSocket or a BorrowedFile; Rust's move semantics are kept (a value     *)
(* moved out of a slot leaves it Empty).  A drop, a read/write call and    *)
(* each callback run synchronously on the caller's thread: closing and io  *)
(* hold the descriptor the current nested PR_Close / PR_Read call is at,   *)
(* and no other call starts until it returns.                              *)
(***************************************************************************)
EXTENDS FiniteSets

CONSTANTS
  Addr,   \* addresses of PRFileDesc headers (boxes, SSL layers, native fds)
  Slot,   \* locations of the client program's variables
  Null    \* the null pointer

ASSUME NullAssumption == Null \notin Addr /\ Null \notin Slot

VARIABLES
  alloc,   \* alloc[a]: "unused", "live" or "freed" memory at address a
  mem,     \* mem[a]: the PRFileDesc header stored at address a
  inner,   \* inner[b]: the File a box at b owns as its inner transport
  slot,    \* slot[s]: the value held in program variable s
  closing, \* the descriptor the running PR_Close call is at, or Null
  io       \* the descriptor the running PR_Read/PR_Write call is at, or Null

vars == <<alloc, mem, inner, slot, closing, io>>

AddrOrNull == Addr \cup {Null}
Kind == {"None", "Rust", "SSL", "Native"}
Header == [kind : Kind, secret : AddrOrNull, lower : AddrOrNull,
           higher : AddrOrNull, hook : Slot \cup {Null}]
SlotKind == {"Empty", "File", "TLS", "Borrowed"}
(* An empty variable holds no pointer; every value holds a non-null one   *)
(* (File::from_raw_prfd and BorrowedFile::from_raw_prfd assert it).        *)
SlotVal == {[kind |-> "Empty", fd |-> Null]}
           \cup [kind : SlotKind \ {"Empty"}, fd : Addr]

NoHeader == [kind |-> "None", secret |-> Null, lower |-> Null,
             higher |-> Null, hook |-> Null]
EmptySlot == [kind |-> "Empty", fd |-> Null]

TypeOK ==
  /\ alloc \in [Addr -> {"unused", "live", "freed"}]
  /\ mem \in [Addr -> Header]
  /\ inner \in [Addr -> AddrOrNull]
  /\ slot \in [Slot -> SlotVal]
  /\ closing \in AddrOrNull
  /\ io \in AddrOrNull

Live(a) == alloc[a] = "live"
Idle == closing = Null /\ io = Null
Owning(s) == slot[s].kind \in {"File", "TLS"}

-----------------------------------------------------------------------------
(* The NSPR layering primitives the code relies on (external to nss-rs).   *)

(* PR_PushIOLayer(stack, PR_TOP_IO_LAYER, layer): the new layer's contents  *)
(* go to the stack's address, and the old top moves to the layer's memory. *)
PushTop(m, f, n, layer) ==
  LET old == m[f] IN
  [x \in Addr |->
     IF x = f THEN [layer EXCEPT !.lower = n, !.higher = Null]
     ELSE IF x = n THEN [old EXCEPT !.higher = f]
     ELSE IF x = old.lower THEN [m[x] EXCEPT !.higher = n]
     ELSE m[x]]

(* PR_PopIOLayer(stack, PR_TOP_IO_LAYER): the layer below moves back to   *)
(* the stack's address; the popped contents go to the lower memory, which  *)
(* the popped layer's destructor then frees.                              *)
PopTop(m, a) ==
  LET l == m[a].lower IN
  [x \in Addr |->
     IF x = a THEN [m[l] EXCEPT !.higher = Null]
     ELSE IF x = l THEN m[a]
     ELSE IF x = m[l].lower THEN [m[x] EXCEPT !.higher = a]
     ELSE m[x]]

(* The header SSL_ImportFD creates for the SSL layer: no hooks set.        *)
SslHeader == [kind |-> "SSL", secret |-> Null, lower |-> Null,
              higher |-> Null, hook |-> Null]

-----------------------------------------------------------------------------
(* Operations of the library, called by the client program.               *)

Init ==
  /\ alloc = [a \in Addr |-> "unused"]
  /\ mem = [a \in Addr |-> NoHeader]
  /\ inner = [a \in Addr |-> Null]
  /\ slot = [s \in Slot |-> EmptySlot]
  /\ closing = Null
  /\ io = Null

(* new_pipe: PR_CreatePipe returns two native descriptors, each wrapped in *)
(* an owning File.  Its failure path returns Err and changes nothing.      *)
NewPipe(r, w, x, y) ==
  /\ Idle
  /\ r # w /\ slot[r].kind = "Empty" /\ slot[w].kind = "Empty"
  /\ x # y /\ alloc[x] = "unused" /\ alloc[y] = "unused"
  /\ alloc' = [alloc EXCEPT ![x] = "live", ![y] = "live"]
  /\ mem' = [mem EXCEPT ![x] = [NoHeader EXCEPT !.kind = "Native"],
                        ![y] = [NoHeader EXCEPT !.kind = "Native"]]
  /\ slot' = [slot EXCEPT ![r] = [kind |-> "File", fd |-> x],
                          ![w] = [kind |-> "File", fd |-> y]]
  /\ UNCHANGED <<inner, closing, io>>

(* The header FileWrapper::wrap writes into a new box at b: our identity,  *)
(* secret back-filled with the box's own address, no stack links.         *)
RustHeader(b) == [NoHeader EXCEPT !.kind = "Rust", !.secret = b]

(* FileWrapper::wrap of a transport that is not a File (a fake socket):    *)
(* a fresh box, returned as a File into an empty variable.                 *)
WrapTransport(t, b) ==
  /\ Idle
  /\ slot[t].kind = "Empty"
  /\ alloc[b] = "unused"
  /\ alloc' = [alloc EXCEPT ![b] = "live"]
  /\ mem' = [mem EXCEPT ![b] = RustHeader(b)]
  /\ inner' = [inner EXCEPT ![b] = Null]
  /\ slot' = [slot EXCEPT ![t] = [kind |-> "File", fd |-> b]]
  /\ UNCHANGED <<closing, io>>

(* FileWrapper::wrap of a File: the File moves into the box as its inner   *)
(* transport (reader = wrapper.wrap(reader)).                              *)
WrapFile(s, b) ==
  /\ Idle
  /\ slot[s].kind = "File"
  /\ alloc[b] = "unused"
  /\ alloc' = [alloc EXCEPT ![b] = "live"]
  /\ mem' = [mem EXCEPT ![b] = RustHeader(b)]
  /\ inner' = [inner EXCEPT ![b] = slot[s].fd]
  /\ slot' = [slot EXCEPT ![s] = [kind |-> "File", fd |-> b]]
  /\ UNCHANGED <<closing, io>>

(* Mutant of TLSNew: the inner File is not forgotten after the import, so *)
(* it is dropped (and closed) when the function returns.                   *)
TLSNewNoForget(s, n) ==
  /\ Idle
  /\ slot[s].kind = "File"
  /\ LET f == slot[s].fd IN
     /\ alloc[n] = "unused"
     /\ alloc' = [alloc EXCEPT ![n] = "live"]
     /\ mem' = PushTop(mem, f, n, SslHeader)
     /\ slot' = [slot EXCEPT ![s] = [kind |-> "TLS", fd |-> f]]
     /\ closing' = f
  /\ UNCHANGED <<inner, io>>

(* TLSSocket::new: SSL_ImportFD(null, inner) pushes an SSL layer on top of *)
(* the inner File and returns the same descriptor, and the inner File is   *)
(* forgotten.  On failure the function returns Err and drops inner, which  *)
(* closes it.                                                              *)
TLSNew(s, n) ==
  /\ Idle
  /\ slot[s].kind = "File"
  /\ LET f == slot[s].fd IN
     \/ /\ alloc[n] = "unused"
        /\ alloc' = [alloc EXCEPT ![n] = "live"]
        /\ mem' = PushTop(mem, f, n, SslHeader)
        /\ slot' = [slot EXCEPT ![s] = [kind |-> "TLS", fd |-> f]]
        /\ UNCHANGED closing
     \/ /\ slot' = [slot EXCEPT ![s] = EmptySlot]
        /\ closing' = f
        /\ UNCHANGED <<alloc, mem>>
  /\ UNCHANGED <<inner, io>>

(* Mutant of DropSlot: a BorrowedFile closes its descriptor when dropped,  *)
(* as an owning File does.                                                 *)
DropSlotBorrowedCloses(s) ==
  /\ Idle
  /\ slot[s].kind # "Empty"
  /\ slot' = [slot EXCEPT ![s] = EmptySlot]
  /\ closing' = slot[s].fd
  /\ UNCHANGED <<alloc, mem, inner, io>>

(* Drop of a File or a TLSSocket calls PR_Close on its descriptor; a       *)
(* BorrowedFile has no Drop.                                               *)
DropSlot(s) ==
  /\ Idle
  /\ slot[s].kind # "Empty"
  /\ slot' = [slot EXCEPT ![s] = EmptySlot]
  /\ closing' = IF Owning(s) THEN slot[s].fd ELSE Null
  /\ UNCHANGED <<alloc, mem, inner, io>>

(* A Rust move of a value from one variable to another.                    *)
MoveSlot(s, t) ==
  /\ Idle
  /\ s # t /\ slot[s].kind # "Empty" /\ slot[t].kind = "Empty"
  /\ slot' = [slot EXCEPT ![t] = slot[s], ![s] = EmptySlot]
  /\ UNCHANGED <<alloc, mem, inner, closing, io>>

(* TLSSocket::cleartext: a BorrowedFile of the layer below the SSL layer; *)
(* BorrowedFile::from_raw_prfd asserts that the lower link is not null.    *)
Cleartext(s, t) ==
  /\ Idle
  /\ slot[s].kind = "TLS" /\ slot[t].kind = "Empty"
  /\ mem[slot[s].fd].lower # Null
  /\ slot' = [slot EXCEPT ![t] = [kind |-> "Borrowed",
                                  fd |-> mem[slot[s].fd].lower]]
  /\ UNCHANGED <<alloc, mem, inner, closing, io>>

(* use_auth_certificate_hook registers raw_auth_certificate_hook with the  *)
(* address of the TLSSocket (the variable s it lives in) as its argument. *)
UseAuthHook(s) ==
  /\ Idle
  /\ slot[s].kind = "TLS"
  /\ mem' = [mem EXCEPT ![slot[s].fd].hook = s]
  /\ UNCHANGED <<alloc, inner, slot, closing, io>>

(* unset_auth_certificate_hook removes the hook.                           *)
UnsetAuthHook(s) ==
  /\ Idle
  /\ slot[s].kind = "TLS"
  /\ mem' = [mem EXCEPT ![slot[s].fd].hook = Null]
  /\ UNCHANGED <<alloc, inner, slot, closing, io>>

(* A FileMethods call (read, write, recv, send, connect, ...) on a File,   *)
(* a TLSSocket or a BorrowedFile enters PR_Read & co. on its descriptor.   *)
StartIO(s) ==
  /\ Idle
  /\ slot[s].kind # "Empty"
  /\ io' = slot[s].fd
  /\ UNCHANGED <<alloc, mem, inner, slot, closing>>

-----------------------------------------------------------------------------
(* The steps of a running PR_Read (or any other I/O method) call.          *)

(* The SSL layer either forwards the call to the layer below, or ends it   *)
(* (record data already buffered, or a handshake failure).                 *)
SslIO ==
  /\ io # Null /\ Live(io) /\ mem[io].kind = "SSL"
  /\ io' \in {mem[io].lower, Null}
  /\ UNCHANGED <<alloc, mem, inner, slot, closing>>

(* raw_auth_certificate_hook, run by the SSL layer during the handshake:   *)
(* it takes its argument as the TLSSocket and asserts that the socket's    *)
(* descriptor is the one the hook was called for; the callbacks' Err sets  *)
(* the error and fails the handshake, which ends the call.                 *)
AuthCertificateHook ==
  /\ io # Null /\ Live(io) /\ mem[io].kind = "SSL"
  /\ mem[io].hook # Null
  /\ slot[mem[io].hook].fd = io
  /\ io' = Null
  /\ UNCHANGED <<alloc, mem, inner, slot, closing>>

(* wrapper_methods::read & co.: xlate_fd asserts our identity, get_ref     *)
(* reads the box through the secret, and the inner transport's method is  *)
(* called: a File's method enters PR_Read on its descriptor, any other    *)
(* transport returns.                                                      *)
RustIO ==
  /\ io # Null /\ Live(io) /\ mem[io].kind = "Rust"
  /\ io' = inner[mem[io].secret]
  /\ UNCHANGED <<alloc, mem, inner, slot, closing>>

(* PR_Read on a native descriptor returns to its caller.                   *)
NativeIO ==
  /\ io # Null /\ Live(io) /\ mem[io].kind = "Native"
  /\ io' = Null
  /\ UNCHANGED <<alloc, mem, inner, slot, closing>>

-----------------------------------------------------------------------------
(* The steps of a running PR_Close call.                                   *)

(* ssl_DefClose: pops the SSL layer (its memory is freed by the popped     *)
(* layer's destructor), then calls close on the descriptor, which again   *)
(* holds the layer below.                                                  *)
SslClose ==
  /\ closing # Null /\ Live(closing) /\ mem[closing].kind = "SSL"
  /\ mem' = PopTop(mem, closing)
  /\ alloc' = [alloc EXCEPT ![mem[closing].lower] = "freed"]
  /\ UNCHANGED <<inner, slot, closing, io>>

(* wrapper_methods::close: asserts that the header is back inside its own  *)
(* box (the secret is the descriptor's address), frees the box, and drops *)
(* its inner transport, which closes the inner File if there is one.       *)
RustClose ==
  /\ closing # Null /\ Live(closing) /\ mem[closing].kind = "Rust"
  /\ mem[closing].secret = closing
  /\ alloc' = [alloc EXCEPT ![closing] = "freed"]
  /\ closing' = inner[closing]
  /\ UNCHANGED <<mem, inner, slot, io>>

(* PR_Close of a native descriptor frees it and returns.                   *)
NativeClose ==
  /\ closing # Null /\ Live(closing) /\ mem[closing].kind = "Native"
  /\ alloc' = [alloc EXCEPT ![closing] = "freed"]
  /\ closing' = Null
  /\ UNCHANGED <<mem, inner, slot, io>>

-----------------------------------------------------------------------------

Client ==
  \/ \E r, w \in Slot, x, y \in Addr : NewPipe(r, w, x, y)
  \/ \E t \in Slot, b \in Addr : WrapTransport(t, b) \/ WrapFile(t, b)
  \/ \E s \in Slot, n \in Addr : TLSNew(s, n)
  \/ \E s, t \in Slot : MoveSlot(s, t) \/ Cleartext(s, t)
  \/ \E s \in Slot : DropSlot(s) \/ UseAuthHook(s) \/ UnsetAuthHook(s)
                     \/ StartIO(s)

Dispatch == SslIO \/ AuthCertificateHook \/ RustIO \/ NativeIO

CloseStep == SslClose \/ RustClose \/ NativeClose

Next == Client \/ Dispatch \/ CloseStep

(* A PR_Close or PR_Read call is a synchronous chain of nested calls on    *)
(* the caller's thread: once started it keeps running.                     *)
Fairness == WF_vars(CloseStep) /\ WF_vars(Dispatch)

Spec == Init /\ [][Next]_vars /\ Fairness

-----------------------------------------------------------------------------
(* Properties                                                              *)

(* The owners of the descriptor at x: the variables holding a File or a    *)
(* TLSSocket on it, the live boxes whose inner File it is, the live layer *)
(* stacked directly on it, and a running PR_Close on it.                   *)
Owners(x) ==
  {<<"slot", s>> : s \in {s \in Slot : Owning(s) /\ slot[s].fd = x}}
  \cup {<<"box", b>> : b \in {b \in Addr : Live(b) /\ inner[b] = x}}
  \cup {<<"layer", y>> : y \in {y \in Addr : Live(y) /\ mem[y].lower = x}}
  \cup (IF closing = x THEN {<<"closing">>} ELSE {})

(* Ownership of File, WrappedFileImpl boxes and layers: every live         *)
(* descriptor has exactly one owner and no freed one has any, whatever the *)
(* sequence of wraps, TLS imports, moves, drops and cascaded closes.  Two  *)
(* owners mean a double PR_Close (e.g. TLSSocket::new without              *)
(* mem::forget(inner)); none means a leak.                                 *)
OwnedExactlyOnce ==
  \A x \in Addr : Cardinality(Owners(x)) = IF Live(x) THEN 1 ELSE 0

(* Memory is freed only by the running PR_Close that solely owns it:      *)
(* wrapper_methods::close and PR_Close free the descriptor they were       *)
(* called on, ssl_DefClose the layer memory below the SSL header, and      *)
(* never while a variable, a box or another layer still holds it (which    *)
(* would be a double close or a later use after free).                     *)
FreeOnlyOwned ==
  [][\A x \in Addr :
       Live(x) /\ ~Live(x)' =>
         closing # Null /\ Owners(x) \in {{<<"closing">>}, {<<"layer", closing>>}}
    ]_vars

(* The close callback's assert_eq (fd.rs:375): whenever PR_Close reaches a *)
(* Rust header, the header is back at its box's address, after every       *)
(* in-place swap the SSL layer's push and pop made.                        *)
CloseAtHome ==
  closing # Null /\ Live(closing) /\ mem[closing].kind = "Rust"
    => mem[closing].secret = closing

(* Every PR_Close started by a drop completes: the cascade through SSL     *)
(* pops, boxes and their inner Files reaches its end.                      *)
CloseCompletes == closing # Null ~> closing = Null

(* No I/O dispatch reads freed memory: a BorrowedFile is only used while   *)
(* its owner lives (fd.rs:77-79).                                          *)
NoUseAfterFree == io # Null => Live(io)

(* When the SSL layer runs the auth hook, its argument is the live         *)
(* TLSSocket whose descriptor the hook is called for (lib.rs:168-170).     *)
HookArgValid ==
  io # Null /\ Live(io) /\ mem[io].kind = "SSL" /\ mem[io].hook # Null
    => slot[mem[io].hook].kind = "TLS" /\ slot[mem[io].hook].fd = io

=============================================================================
