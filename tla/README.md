# Verification of the nss-rs I/O layering core

TLA+ models, TLC runs and TLAPS proofs for the layered-file core of nss-rs
(`src/src/nspr/fd.rs`, `src/src/lib.rs`): owning `File` handles,
`BorrowedFile` views, `FileWrapper::wrap` boxes, the `wrapper_methods`
callbacks NSPR dispatches into, and `TLSSocket`, which pushes the NSS SSL
layer on top of a `File`.

## 1. The system

### Parts and how they interact

| Part | Code | State it owns | Operations |
|---|---|---|---|
| `File` | fd.rs:24-75 | one `PRFileDesc*` | drop (`PR_Close`, pointer replaced by null), `from_raw_prfd` (non-null assert), `into_raw_prfd` |
| `BorrowedFile` | fd.rs:80-111 | a `PRFileDesc*` it does not own | no `Drop`; `from_raw_prfd` asserts non-null; `get_ref` reads the box through `secret` |
| `new_pipe` | fd.rs:113-121 | — | two native descriptors, each in a `File` |
| `FileMethods for File` | fd.rs:155-242 | — | read/write/connect/recv/send/... enter `PR_Read` & co. on the descriptor |
| `FileWrapper::wrap` | fd.rs:319-342 | a heap `WrappedFileImpl` (header, methods `Arc`, inner transport) | writes a header with the Rust identity, back-fills `secret` with the box address |
| `wrapper_methods` | fd.rs:345-524 | — | `close` asserts the header is inside its own box (fd.rs:375), frees the box and drops the inner transport; read & co. call the inner transport through `secret` |
| `TLSSocket` | lib.rs:51-154 | a `File` on the SSL layer, callbacks | `new` (`SSL_ImportFD`, then `mem::forget(inner)`; on failure inner is dropped), `cleartext`, `use/unset_auth_certificate_hook`, bad-cert hooks, `set_url`, `peer_cert` |
| `raw_auth_certificate_hook` | lib.rs:161-177 | — | transmutes its argument to a `TLSSocket`, asserts its descriptor is the hooked one, runs the callback |
| NSPR / NSS (external) | — | the header stack | `PR_PushIOLayer` / `PR_PopIOLayer` swap header *contents* in place; `ssl_DefClose` pops the SSL layer, frees it and closes what is below |

A stack is built from the bottom: a native descriptor (or a fake
transport) is wrapped, possibly many times (each box owns the `File`
below it as its inner transport), and `TLSSocket::new` pushes the SSL
layer on top. Because the push swaps contents in place, the SSL header
ends up at the address the `File` held, and the Rust header moves to the
memory NSS allocated for the layer. Until the pop undoes that, the Rust
header is outside its box. A drop of the top `File` runs one synchronous
chain of nested `close` calls down the whole stack.

### What is hard here

* Ownership across the FFI boundary. A descriptor is owned by a variable,
  a box (as its inner `File`), the layer stacked on it, or the close call
  running on it. A second owner means a double close; none means a leak.
* In-place relocation. The close callback asserts (fd.rs:375) that the
  header is back at its box, which depends on the push/pop order in NSS.
* Borrowed views without lifetimes: `cleartext` (lib.rs:127) and the hook
  argument (lib.rs:139).
* Failure paths: `SSL_ImportFD` failing after `inner` was handed over
  (lib.rs:88).
* Termination of the close cascade.

## 2. Modules

| Module | Models |
|---|---|
| `LayeredFile.tla` | the whole core: memory (`alloc`, `mem`), boxes' inner transports (`inner`), program variables (`slot`), and the running close and I/O calls (`closing`, `io`) |
| `MCLayeredFile.tla` | TLC instance: symmetry over addresses and variables |
| `LayeredFileProofs.tla` | TLAPS proofs: type correctness and `CloseAtHome` for all constants |
| `OwnershipProofs.tla` | TLAPS proofs: `OwnedExactlyOnce` and `FreeOnlyOwned` for all constants |
| `ReadPath.tla` | one `File::read` through a stack of boxes, with byte counts as machine integers and NSPR's thread-local error state (section 2.1) |
| `AbstractRead.tla` | what a read promises its caller, whatever lies below it |
| `MCReadPath.tla` | TLC instance of `ReadPath` |
| `ReadPathProofs.tla` | TLAPS proofs: `AmountFaithful`, `ErrorFresh` and the refinement of `AbstractRead`, for all widths and depths |

### State

* `alloc[a]`: `"unused"`, `"live"` or `"freed"`. Freed memory is never
  reused, so a dangling pointer stays recognisable.
* `mem[a]`: the header at address `a`. Its fields are the kind (`"Rust"`
  for our identity, `"SSL"`, `"Native"`), `secret` (for a Rust header, its
  box), `lower`/`higher` links, and `hook` (the registered auth-hook
  argument).
* `inner[b]`: the `File` the box at `b` owns, or `Null` for a non-`File`
  transport.
* `slot[s]`: a program variable holding nothing, a `File`, a `TLSSocket`
  or a `BorrowedFile`, with its descriptor. A Rust move empties the source
  (`MoveSlot`).
* `closing` / `io`: the descriptor the running `PR_Close` / `PR_Read`
  chain is at. Client operations require both to be `Null` (`Idle`):
  every call is synchronous on the caller's thread.

### Actions, and the code they model

| Action | Code |
|---|---|
| `NewPipe` | `new_pipe` fd.rs:113-121 |
| `WrapTransport`, `WrapFile` | `FileWrapper::wrap` fd.rs:319-342, of a fake transport / of a `File` |
| `TLSNew` | `TLSSocket::new_with_model` lib.rs:75-95: push and forget, or fail and drop `inner` |
| `DropSlot` | `File::drop` fd.rs:28-35 (a `TLSSocket` drops its `File`; a `BorrowedFile` does nothing) |
| `MoveSlot` | a Rust move (language semantics, not in the map) |
| `Cleartext` | `TLSSocket::cleartext` lib.rs:127-131 with the assert of fd.rs:98 |
| `UseAuthHook`, `UnsetAuthHook` | lib.rs:133-147 |
| `StartIO` | `FileMethods for File` fd.rs:155-242 |
| `RustIO` | `wrapper_methods::read` & co. fd.rs:383-523 |
| `RustClose` | `wrapper_methods::close` fd.rs:360-381 |
| `AuthCertificateHook` | `raw_auth_certificate_hook` lib.rs:161-177 |
| `SslIO`, `SslClose`, `NativeIO`, `NativeClose`, `PushTop`, `PopTop` | NSPR/NSS behaviour the code relies on (spec-modelled) |

Data is abstracted: buffers, counts, addresses and timeouts are left
out, since no ownership decision depends on them.

### 2.1 The read path (`ReadPath.tla`)

`LayeredFile` abstracts byte counts away. `ReadPath` keeps them, and it
keeps the error channel, for one operation: `File::read` on a File whose
descriptor is `boxes` nested `FileWrapper` boxes. Below the last box is
either a native descriptor or a user transport (any `FileMethods` impl).

State:
* `stack` is the call stack of the running read, innermost frame last.
  Each frame records the function (`File`, `Wrapper`, `Native`,
  `Transport`), its length or amount argument, the level, and whether it
  has made its call yet.
* `ret` is the value the innermost frame returned: `Int(r)` across C,
  `Ok(n)`/`Err(e)` across Rust.
* `err` is `PR_GetError()`. Its initial value is arbitrary, left over
  from earlier calls on the thread.
* `cause` is the error raised at the bottom of the running read. It is
  ghost state for the properties.
* `len`, `result` and `status` are the caller's length, the last result
  and idle/busy/trapped. A failed assert traps the process.

Actions:

| Action | Code |
|---|---|
| `Call` | the program calls `File::read` |
| `FileRead` | fd.rs:156-165: assert `len <= i32::MAX`, then `PR_Read(fd, buf, len as i32)` |
| `WrapperRead` | fd.rs:383-391: `assert!(amount >= 0)`, inner read on `amount as usize` bytes |
| `WrapperReturn` | fd.rs:392-397: `assert!(len <= amount as usize)`, `len as PRInt32`, or an `Err` becomes -1 with the error set (`wrap_callback`) |
| `WrapFfi` | `wrap_ffi` in `File::read`: a negative return becomes `Err(PR_GetError())` |
| `NativeRead` / `TransportRead` | the leaf: at most `amount` bytes or -1 with an error; any count or any error |

Casts keep their width. `ToI32` takes the low bits in two's complement.
`ToUsize` takes the low bits. `wrap_ffi`, `wrap_callback` and the error
state live in `nspr/mod.rs`, which is not in this tree, so they are
modelled from their documentation (`spec_modelled`). `write`, `recv` and
`send` (fd.rs:166-215, 400-476) have exactly the control of `read`, so
the same argument covers them. They are not separate actions.

`AbstractRead` is the promise. A read begins with some length. It then
either completes with `Ok(n)`, `n <= len`, or raises an error below and
completes with that error, or aborts, but never after an error was
raised. `ReadPath` implements it under the mapping
`phase <- status` (`ImplementsAbstractRead == AR!Spec`):
* `Call` is `Begin`;
* a leaf failure is `Raise`;
* the outermost `wrap_ffi` is `CompleteOk` or `CompleteErr`;
* a failed assert is `Abort`;
* everything else stutters.

## 3. Runs

The first five runs use `MCLayeredFile`. Deadlock checking is off: the program may
stop at any point (every variable empty, nothing running).

| Run | cfg | Bounds | Checks | Result |
|---|---|---|---|---|
| owner | `MCLayeredFile_owner.cfg` | 6 addresses, 3 variables, symmetry | `OwnedExactlyOnce`, `FreeOnlyOwned` | pass (55,781 states) |
| home | `MCLayeredFile_home.cfg` | same | `CloseAtHome` | pass |
| live | `MCLayeredFile_live.cfg` | 4 addresses, 2 variables, fairness | `CloseCompletes` | pass (54,713 states) |
| nouaf | `MCLayeredFile_NoUseAfterFree.cfg` | 3 addresses, 2 variables | `NoUseAfterFree` | violation (finding) |
| hook | `MCLayeredFile_HookArgValid.cfg` | 3 addresses, 2 variables | `HookArgValid` | violation (finding) |
| path | `MCReadPath_path.cfg` | 3-bit i32, 4-bit usize, lengths 0..5, up to 3 boxes, 3 reads, 2 errors | `AmountFaithful`, `ErrorFresh`, `ImplementsAbstractRead` | pass (5,978 states) |

Why the bounds are enough. Six addresses allow a native pipe end wrapped
twice under an SSL layer (pipe 2, boxes 2, layer 1), next to a second
stack. That covers nested boxes, a push onto a box, a pop back, and a
cascade through two boxes. Three variables allow a `TLSSocket`, a
borrowed view of it, and a target for a move. The liveness run drops the
symmetry, which is unsound with liveness checking, and so uses smaller
sets. They still hold an SSL layer over a box over a pipe end.

Bounds of `path`. With `IntMax = 3`, lengths 4 and 5 exceed `i32::MAX`,
so `File::read`'s assert fires. A transport can return any count up to
`usize::MAX = 15`, so it can report more than the amount it was given,
and more than `i32::MAX`; these reach the `len <= amount` assert, and,
without it, the wrapping `len as PRInt32`. Three boxes give four C/Rust
crossings. Three reads on the thread let a later read meet the error a
former one left in `err`. Deadlock checking is off for `path`: the
program stops after its reads, and an abort stops everything. `path`
checks no liveness. A read may block forever in a native descriptor or a
user transport, so no fairness is justified below `File::read`.

Fairness. `WF_vars(CloseStep) /\ WF_vars(Dispatch)`. A started
`PR_Close` or `PR_Read` is a chain of nested synchronous calls on the
caller's thread, so it keeps running. Client operations get no fairness:
a program may stop.

Every property of a passing run has a mutant, which TLC must catch:

* `TLSNewNoForget`: no `mem::forget(inner)`, which causes a double close.
* `DropSlotBorrowedCloses`: a `BorrowedFile` closes its descriptor on
  drop. In `owner`, the close then frees a descriptor that its owning
  variable still holds, and `FreeOnlyOwned` fails. Dropping a `cleartext` view then closes the pushed-down Rust
  header away from its box, and `CloseAtHome` fails.
* `TLSNewNoForget` again, under fairness: the later drop of the socket
  starts a close on freed memory that can never finish, and
  `CloseCompletes` fails.
* `FileReadNoAssert`: no length assert in `File::read`, so `len as i32`
  wraps and `AmountFaithful` fails.
* `WrapperReturnNoErrSet`: an `Err` turned into -1 without setting the
  thread's error. `File::read` then returns a stale error, and
  `ErrorFresh` fails.
* `WrapperReturnNoAssert`: no `len <= amount` assert. A transport's
  oversized count crosses back, and `ImplementsAbstractRead` fails (an
  `Ok` beyond the buffer, or a wrapped negative count read as an error).

### Findings

1. **`cleartext` outlives its socket** (lib.rs:127). The
   `BorrowedFile` carries no lifetime. Dropping the `TLSSocket` frees the
   SSL layer and the box below it, and a read on the view then dispatches
   through freed memory (run `nouaf`, 8 steps).
2. **The auth-hook argument goes stale on a move** (lib.rs:139). The hook
   is registered with the socket's current address. After a move, the hook
   transmutes the old location into a `TLSSocket` (run `hook`). The code
   marks this spot with "TODO: check identity?".

## 4. Proofs (`LayeredFileProofs.tla`)

These results hold for every finite or infinite `Addr` and `Slot`, under
the single assumption `NullAssumption` (the null pointer is neither an
address nor a variable).

* `TypeCorrect: Spec => []TypeOK`, a lemma for the other proofs; no run
  checks `TypeOK` as a property of its own. `TypeOK` is not inductive on its own.
  `SslClose` needs the SSL header's `lower` to be an address, and
  `RustIO` needs a Rust header's `secret` to be one, so the proof goes
  through `TypeInv == TypeOK /\ HeadersLinked`. It uses the lemmas
  `PushTopType`, `PopTopType`, `PushTopLinked`, `PopTopLinked` and
  `TypeInvInductive`.
* `CloseAtHomeHolds: Spec => []CloseAtHome`. The inductive invariant
  `Inv` has 20 conjuncts:
  * everything owned or linked is live, and `lower`/`higher` links agree;
  * what a variable, a box or the running close owns is the top of its
    stack;
  * no two top-level owners share a descriptor;
  * stacks are a Rust or native leaf, possibly under one SSL layer;
  * `RustSecret`: a Rust header's secret is its own address when it is on
    top, and the SSL layer's address when it has been pushed down.

  `CloseAtHome` follows because close only reaches tops. `Inv` needs the
  ownership conjuncts because a close must never reach a descriptor
  still held elsewhere. TLC checked `Inv` as an invariant before it was
  proved. `HomeInvInductive` has one step per action and one sub-step per
  conjunct the action can disturb.

Model-checked only: `CloseCompletes`. It is a liveness property under
fairness, and TLAPS does not handle those here.

### Ownership (`OwnershipProofs.tla`)

`OwnedExactlyOnceHolds: Spec => []OwnedExactlyOnce` holds for every
`Addr` and `Slot`. `Inv` already says that no two owners share a
descriptor. It does not say that every live descriptor has an owner.
The proof adds `OwnInv`, three conjuncts, which TLC checked on the
`owner` instance before they were proved:
* `TopOwned`: a live descriptor at the top of its stack is held by an
  owning variable, a live box or the running close. A pushed-down one
  is held by the layer on it.
* `LowerNoInner`: the memory below an SSL layer is never a box with an
  inner transport. Without it, `ssl_DefClose` freeing that memory could
  orphan an inner `File`.
* `BoxHeader`: a box with an inner transport holds a Rust header, or an
  SSL header over one. So `PR_Close` of a native descriptor drops no
  inner.

`OwnershipInvariant: Spec => [](TypeInv /\ Inv /\ OwnInv)` combines
`TypeInvInductive`, `HomeInvInductive` and `OwnInvInductive`.
`OwnInvInductive` has one step per action. Counting then gives the
theorem. `LiveOwnedOnce` shows that the owner set of a live descriptor
is a singleton, and `DeadUnowned` that a dead one's is empty. The
library's `FS_Singleton` and `FS_EmptySet` turn those facts into
cardinalities.

`FreeOnlyOwnedHolds: Spec => FreeOnlyOwned` is an action property.
Every step that frees memory frees a descriptor whose only owner is the
running `PR_Close`, or the layer memory whose only owner is the SSL
layer being closed. The lemma `FreeStep` proves it from the same
invariant: only the three close steps free memory, and each frees what
`LiveOwnedOnce` shows is solely theirs.

## 4.1 Proofs about the read path (`ReadPathProofs.tla`)

These hold for all `IntMax`, `UsizeMax`, `MaxLen`, `Depth`, `MaxCalls`
and `Errors` under the assumptions of `ReadPath`:
* `WidthAssumption`: usize is more than twice as wide as i32;
* `LenAssumption`: a buffer length is a usize;
* `NoneAssumption`: `None` is no error and no result.

`AmountFaithfulHolds`, `ErrorFreshHolds` and `Refinement`
(`Spec => ImplementsAbstractRead`) all rest on the inductive invariant
`IInv` (`ReadPathInvariant: Spec => []IInv`). `IInv` says:
* the stack starts with a `File` frame, and each frame waits for a callee
  it may call;
* only the innermost frame can be a leaf;
* below the outermost `File`, `len <= IntMax`;
* the tag of `ret` matches the frame it returns to;
* a negative `Int` is -1 with `err = cause`, a non-negative one is at
  most `len` with no cause, an `Ok` has no cause, and an `Err` carries
  the cause;
* nothing is raised before a leaf returns.

`AmountFaithful` alone is not inductive: it needs `len <= IntMax` for the
casts. `ErrorFresh` needs the whole chain of return values.
`ReadPathTypeCorrect` is the type invariant, also from `IInv`.
`IInvInductive` has one step per action. Each popping step goes through
the lemma `PopStructure`, and the lemmas `CastSmall` and `UsizeSmall`
give the casts of small counts. `RefineStep` maps each step to an
`AbstractRead` step or a stutter.

## 5. Not modelled, and the plan

* `FileWrapper::new`'s shared methods table (`Arc`) and the lazily
  initialised `WRAPPED_FILE_IDENT` (fd.rs:526-532) are immutable once
  built.
* `result_secstatus`, `init` and `cert` are conversions or external calls.
  They keep no state.
* Bad-cert hooks, `set_url` and `peer_cert` set state inside NSS that no
  modelled step reads.
* `new_with_model` with a model is `unimplemented!()` (lib.rs:81-84).
* Plan for later work:
  * `write`, `recv` and `send` as actions of `ReadPath`, if their control
    ever departs from `read`'s;
  * an abstract `OwnedFile` specification (handles that are open or
    closed) with `LayeredFile` shown to refine it;
  * a property that dispatch through `secret` always reaches a live box.
