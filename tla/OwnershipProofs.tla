-------------------------- MODULE OwnershipProofs --------------------------
(* Proof that every live descriptor has exactly one owner and no freed or  *)
(* unused one has any (OwnedExactlyOnce), for every set of addresses and   *)
(* program variables.  The invariant Inv behind CloseAtHome already says   *)
(* that two owners never share a descriptor; what it lacks is that every   *)
(* live descriptor has an owner at all.                                    *)
EXTENDS LayeredFileProofs, FiniteSetTheorems

(* A live descriptor at the top of its stack is held by an owning          *)
(* variable, by a live box as its inner File, or by the running PR_Close:  *)
(* no wrap, import, move, drop or close step loses it (a leak).            *)
OwnedBy(x) ==
  \/ \E s \in Slot : Owning(s) /\ slot[s].fd = x
  \/ \E b \in Addr : Live(b) /\ inner[b] = x
  \/ closing = x
TopOwned == \A x \in Addr : Live(x) /\ mem[x].higher = Null => OwnedBy(x)

(* The memory below an SSL layer is the layer's own allocation, never a    *)
(* box with an inner transport, so freeing it in ssl_DefClose drops none.  *)
LowerNoInner ==
  \A y \in Addr : Live(y) /\ mem[y].lower # Null => inner[mem[y].lower] = Null

(* A box with an inner transport holds its Rust header at its address, or  *)
(* the SSL layer pushed onto it with the Rust header right below: never a  *)
(* native descriptor, so PR_Close of a native descriptor drops no inner.  *)
BoxHeader ==
  \A b \in Addr : Live(b) /\ inner[b] # Null =>
    \/ mem[b].kind = "Rust"
    \/ mem[b].kind = "SSL" /\ mem[mem[b].lower].kind = "Rust"

OwnInv == TopOwned /\ LowerNoInner /\ BoxHeader

-----------------------------------------------------------------------------
(* The owner sets of Owners(x), one per kind of owner.                     *)
SlotOwners(x) == {s \in Slot : Owning(s) /\ slot[s].fd = x}
BoxOwners(x) == {b \in Addr : Live(b) /\ inner[b] = x}
LayerOwners(x) == {y \in Addr : Live(y) /\ mem[y].lower = x}

(* Owners(x) is the union of the tagged owner sets.                         *)
LEMMA OwnersSplit ==
  ASSUME NEW x
  PROVE  Owners(x) =
           {<<"slot", s>> : s \in SlotOwners(x)}
           \cup {<<"box", b>> : b \in BoxOwners(x)}
           \cup {<<"layer", y>> : y \in LayerOwners(x)}
           \cup (IF closing = x THEN {<<"closing">>} ELSE {})
BY DEF Owners, SlotOwners, BoxOwners, LayerOwners

(* Under Inv, a descriptor that is not live has no owner.                  *)
LEMMA DeadUnowned ==
  ASSUME TypeInv, Inv, NEW x \in Addr, ~Live(x)
  PROVE  Owners(x) = {}
<1> USE NullAssumption DEF TypeInv, TypeOK, AddrOrNull, Inv, Header
<1>1. SlotOwners(x) = {}
  BY DEF SlotOwners, OwnedSlotLive
<1>2. BoxOwners(x) = {}
  BY DEF BoxOwners, InnerLive
<1>3. LayerOwners(x) = {}
  BY DEF LayerOwners, LowerLinked
<1>4. closing # x
  BY DEF ClosingLive
<1> QED
  BY <1>1, <1>2, <1>3, <1>4, OwnersSplit

(* Under Inv and TopOwned, a live descriptor has exactly one owner.        *)
LEMMA LiveOwnedOnce ==
  ASSUME TypeInv, Inv, TopOwned, NEW x \in Addr, Live(x)
  PROVE  \E o : Owners(x) = {o}
<1> USE NullAssumption DEF TypeInv, TypeOK, AddrOrNull, Inv, Header
<1>1. CASE mem[x].higher # Null
  <2> DEFINE y == mem[x].higher
  <2>1. y \in Addr /\ Live(y) /\ mem[y].lower = x
    BY <1>1 DEF HigherLinked
  <2>2. LayerOwners(x) = {y}
    BY <2>1 DEF LayerOwners, LowerLinked
  <2>3. SlotOwners(x) = {} /\ BoxOwners(x) = {} /\ closing # x
    BY <1>1 DEF SlotOwners, BoxOwners, SlotTop, InnerTop, ClosingTop
  <2>4. Owners(x) = {<<"layer", y>>}
    BY <2>2, <2>3, OwnersSplit, Zenon
  <2> QED
    BY <2>4
<1>2. CASE mem[x].higher = Null
  <2>1. LayerOwners(x) = {}
    BY <1>2 DEF LayerOwners, LowerLinked
  <2>2. CASE \E s \in Slot : Owning(s) /\ slot[s].fd = x
    <3>1. PICK s \in Slot : Owning(s) /\ slot[s].fd = x
      BY <2>2
    <3>2. SlotOwners(x) = {s}
      BY <3>1 DEF SlotOwners, SlotsDistinct
    <3>3. BoxOwners(x) = {} /\ closing # x
      BY <3>1 DEF BoxOwners, SlotNotInner, SlotNotClosing
    <3>4. Owners(x) = {<<"slot", s>>}
      BY <2>1, <3>2, <3>3, OwnersSplit, Zenon
    <3> QED
      BY <3>4
  <2>3. CASE \E b \in Addr : Live(b) /\ inner[b] = x
    <3>1. PICK b \in Addr : Live(b) /\ inner[b] = x
      BY <2>3
    <3>2. BoxOwners(x) = {b}
      BY <3>1 DEF BoxOwners, InnersDistinct
    <3>3. SlotOwners(x) = {} /\ closing # x
      BY <3>1 DEF SlotOwners, SlotNotInner, InnerNotClosing
    <3>4. Owners(x) = {<<"box", b>>}
      BY <2>1, <3>2, <3>3, OwnersSplit, Zenon
    <3> QED
      BY <3>4
  <2>4. CASE closing = x
    <3>1. SlotOwners(x) = {} /\ BoxOwners(x) = {}
      BY <2>4 DEF SlotOwners, BoxOwners, SlotNotClosing, InnerNotClosing
    <3>2. Owners(x) = {<<"closing">>}
      BY <2>1, <2>4, <3>1, OwnersSplit, Zenon
    <3> QED
      BY <3>2
  <2> QED
    BY <1>2, <2>2, <2>3, <2>4 DEF TopOwned, OwnedBy
<1> QED
  BY <1>1, <1>2

(* OwnedExactlyOnce follows from Inv and TopOwned by counting.            *)
LEMMA OwnedFromInv ==
  TypeInv /\ Inv /\ TopOwned => OwnedExactlyOnce
<1> SUFFICES ASSUME TypeInv, Inv, TopOwned, NEW x \in Addr
             PROVE  Cardinality(Owners(x)) = IF Live(x) THEN 1 ELSE 0
  BY DEF OwnedExactlyOnce
<1>1. CASE Live(x)
  BY <1>1, LiveOwnedOnce, FS_Singleton
<1>2. CASE ~Live(x)
  BY <1>2, DeadUnowned, FS_EmptySet
<1> QED
  BY <1>1, <1>2
-----------------------------------------------------------------------------
(* Every step keeps OwnInv: no operation of the library leaves a live      *)
(* descriptor at the top of a stack without an owner.                      *)
LEMMA OwnInvInductive ==
  TypeInv /\ Inv /\ OwnInv /\ [Next]_vars => OwnInv'
<1> SUFFICES ASSUME TypeInv, Inv, TopOwned, LowerNoInner, BoxHeader,
                    [Next]_vars
             PROVE  TopOwned' /\ LowerNoInner' /\ BoxHeader'
  BY DEF OwnInv
<1> USE NullAssumption DEF TypeInv, TypeOK, AddrOrNull, Inv, Header, Live,
                           Owning
<1>1. ASSUME NEW r \in Slot, NEW w \in Slot, NEW x \in Addr, NEW y \in Addr,
             NewPipe(r, w, x, y)
      PROVE  TopOwned' /\ LowerNoInner' /\ BoxHeader'
  <2>0. /\ alloc[x] = "unused" /\ alloc[y] = "unused"
        /\ slot[r].kind = "Empty" /\ slot[w].kind = "Empty"
        /\ inner[x] = Null /\ inner[y] = Null
        /\ \A z \in Addr \ {x, y} : mem'[z] = mem[z] /\ alloc'[z] = alloc[z]
        /\ \A z \in {x, y} : mem'[z].lower = Null /\ alloc'[z] = "live"
        /\ slot' = [slot EXCEPT ![r] = [kind |-> "File", fd |-> x],
                                ![w] = [kind |-> "File", fd |-> y]]
        /\ UNCHANGED <<inner, closing>>
    BY <1>1 DEF NewPipe, NoHeader, UnusedNoInner
  <2>1. TopOwned'
    <3> SUFFICES ASSUME NEW z \in Addr, Live(z)', mem'[z].higher = Null
                 PROVE  OwnedBy(z)'
      BY DEF TopOwned
    <3>1. CASE z \in {x, y}
      BY <2>0, <3>1 DEF OwnedBy
    <3>2. CASE z \notin {x, y}
      <4>1. OwnedBy(z)
        BY <2>0, <3>2 DEF TopOwned
      <4> QED
        BY <2>0, <3>2, <4>1 DEF OwnedBy
    <3> QED
      BY <3>1, <3>2
  <2>2. LowerNoInner'
    BY <2>0 DEF LowerNoInner
  <2>3. BoxHeader'
    <3> SUFFICES ASSUME NEW b \in Addr, Live(b)', inner'[b] # Null
                 PROVE  \/ mem'[b].kind = "Rust"
                        \/ mem'[b].kind = "SSL" /\ mem'[mem'[b].lower].kind = "Rust"
      BY DEF BoxHeader
    <3>1. b \notin {x, y} /\ Live(b) /\ mem'[b] = mem[b] /\ inner[b] # Null
      BY <2>0
    <3>2. mem[b].kind = "SSL" => mem[b].lower \in Addr \ {x, y}
      BY <2>0, <3>1 DEF SslShape, LowerLinked
    <3> QED
      BY <2>0, <3>1, <3>2 DEF BoxHeader
  <2> QED
    BY <2>1, <2>2, <2>3
<1>2. ASSUME NEW t \in Slot, NEW b \in Addr,
             WrapTransport(t, b) \/ WrapFile(t, b)
      PROVE  TopOwned' /\ LowerNoInner' /\ BoxHeader'
  <2>0. /\ alloc[b] = "unused" /\ inner[b] = Null
        /\ alloc' = [alloc EXCEPT ![b] = "live"]
        /\ mem' = [mem EXCEPT ![b] = RustHeader(b)]
        /\ slot[t].kind \in {"Empty", "File"}
        /\ slot'[t] = [kind |-> "File", fd |-> b]
        /\ \A u \in Slot \ {t} : slot'[u] = slot[u]
        /\ \A c \in Addr \ {b} : inner'[c] = inner[c]
        /\ inner'[b] = IF slot[t].kind = "File" THEN slot[t].fd ELSE Null
        /\ UNCHANGED closing
    BY <1>2 DEF WrapTransport, WrapFile, UnusedNoInner, SlotVal
  <2>a. \A z \in Addr : Live(z) => /\ mem[z].lower # b /\ mem[z].higher # b
                                   /\ inner[z] # b
    BY <2>0 DEF LowerLinked, HigherLinked, InnerLive
  <2>1. TopOwned'
    <3> SUFFICES ASSUME NEW z \in Addr, Live(z)', mem'[z].higher = Null
                 PROVE  OwnedBy(z)'
      BY DEF TopOwned
    <3>1. CASE z = b
      BY <2>0, <3>1 DEF OwnedBy
    <3>2. CASE z # b /\ slot[t].kind = "File" /\ slot[t].fd = z
      BY <2>0, <3>2 DEF OwnedBy, RustHeader, NoHeader
    <3>3. CASE z # b /\ ~(slot[t].kind = "File" /\ slot[t].fd = z)
      <4>1. Live(z) /\ mem'[z] = mem[z]
        BY <2>0, <3>3
      <4>2. OwnedBy(z)
        BY <4>1 DEF TopOwned
      <4> QED
        BY <2>0, <2>a, <3>3, <4>1, <4>2 DEF OwnedBy
    <3> QED
      BY <3>1, <3>2, <3>3
  <2>2. LowerNoInner'
    BY <2>0, <2>a DEF LowerNoInner, RustHeader, NoHeader
  <2>3. BoxHeader'
    BY <2>0, <2>a DEF BoxHeader, RustHeader, NoHeader
  <2> QED
    BY <2>1, <2>2, <2>3
<1>3. ASSUME NEW s \in Slot, NEW n \in Addr, TLSNew(s, n)
      PROVE  TopOwned' /\ LowerNoInner' /\ BoxHeader'
  <2> DEFINE f == slot[s].fd
  <2>0. /\ slot[s].kind = "File" /\ f \in Addr /\ Live(f)
        /\ mem[f].kind \in {"Rust", "Native"}
        /\ mem[f].lower = Null /\ mem[f].higher = Null
        /\ closing = Null /\ UNCHANGED inner
    BY <1>3 DEF TLSNew, SlotVal, OwnedSlotLive, FileOnLeaf, LeafNoLower,
                SlotTop, Idle
  <2>1. CASE /\ alloc[n] = "unused"
             /\ alloc' = [alloc EXCEPT ![n] = "live"]
             /\ mem' = PushTop(mem, f, n, SslHeader)
             /\ slot' = [slot EXCEPT ![s] = [kind |-> "TLS", fd |-> f]]
             /\ UNCHANGED closing
    <3>0. /\ n # f /\ inner[n] = Null
          /\ mem'[f].kind = "SSL" /\ mem'[f].lower = n
          /\ mem'[f].higher = Null
          /\ mem'[n] = [mem[f] EXCEPT !.higher = f]
          /\ \A z \in Addr \ {f, n} : mem'[z] = mem[z] /\ alloc'[z] = alloc[z]
          /\ alloc'[f] = "live" /\ alloc'[n] = "live"
      BY <2>0, <2>1 DEF PushTop, SslHeader, UnusedNoInner
    <3>a. \A z \in Addr : Live(z) => inner[z] # n
      BY <2>1 DEF InnerLive
    <3>1. TopOwned'
      <4> SUFFICES ASSUME NEW z \in Addr, Live(z)', mem'[z].higher = Null
                   PROVE  OwnedBy(z)'
        BY DEF TopOwned
      <4>1. CASE z = f
        BY <2>1, <4>1 DEF OwnedBy
      <4>2. CASE z # f
        <5>0. mem'[n].higher = f
          BY <2>0, <3>0
        <5>1. z # n /\ Live(z) /\ mem'[z] = mem[z]
          BY <2>0, <3>0, <4>2, <5>0
        <5>2. OwnedBy(z)
          BY <5>1 DEF TopOwned
        <5> QED
          BY <2>0, <2>1, <3>0, <3>a, <4>2, <5>1, <5>2 DEF OwnedBy
      <4> QED
        BY <4>1, <4>2
    <3>2. LowerNoInner'
      BY <2>0, <3>0 DEF LowerNoInner
    <3>3. BoxHeader'
      <4> SUFFICES ASSUME NEW b \in Addr, Live(b)', inner'[b] # Null
                   PROVE  \/ mem'[b].kind = "Rust"
                          \/ mem'[b].kind = "SSL" /\ mem'[mem'[b].lower].kind = "Rust"
        BY DEF BoxHeader
      <4>1. CASE b = f
        BY <2>0, <3>0, <4>1 DEF BoxHeader
      <4>2. CASE b # f
        <5>1. b # n /\ Live(b) /\ mem'[b] = mem[b]
          BY <2>0, <3>0, <4>2
        <5>2. mem[b].kind = "SSL" => mem[b].lower \in Addr \ {f, n}
          BY <2>0, <2>1, <4>2, <5>1 DEF LowerLinked, SslShape
        <5> QED
          BY <2>0, <3>0, <5>1, <5>2 DEF BoxHeader
      <4> QED
        BY <4>1, <4>2
    <3> QED
      BY <3>1, <3>2, <3>3
  <2>2. CASE /\ slot' = [slot EXCEPT ![s] = EmptySlot]
             /\ closing' = f
             /\ UNCHANGED <<alloc, mem>>
    <3>1. TopOwned'
      <4> SUFFICES ASSUME NEW z \in Addr, Live(z)', mem'[z].higher = Null
                   PROVE  OwnedBy(z)'
        BY DEF TopOwned
      <4>1. OwnedBy(z)
        BY <2>2 DEF TopOwned
      <4> QED
        BY <2>0, <2>2, <4>1 DEF OwnedBy, EmptySlot
    <3> QED
      BY <2>0, <2>2, <3>1 DEF LowerNoInner, BoxHeader
  <2> QED
    BY <1>3, <2>1, <2>2 DEF TLSNew
<1>4. ASSUME NEW s \in Slot, NEW t \in Slot, MoveSlot(s, t) \/ Cleartext(s, t)
      PROVE  TopOwned' /\ LowerNoInner' /\ BoxHeader'
  <2>0. /\ slot[t].kind = "Empty" /\ UNCHANGED <<alloc, mem, inner, closing>>
        /\ \A u \in Slot \ {s, t} : slot'[u] = slot[u]
    BY <1>4 DEF MoveSlot, Cleartext
  (* The owning variables after the step own what some variable owned     *)
  (* before it: a move hands the value from s to t, a cleartext view is   *)
  (* borrowed and leaves s as it was.                                     *)
  <2>1. \A u \in Slot : Owning(u) => \E v \in Slot : Owning(v)' /\ slot'[v].fd = slot[u].fd
    <3> SUFFICES ASSUME NEW u \in Slot, Owning(u)
                 PROVE  \E v \in Slot : Owning(v)' /\ slot'[v].fd = slot[u].fd
      OBVIOUS
    <3>1. u # t
      BY <2>0
    <3>2. CASE MoveSlot(s, t)
      <4>1. s # t /\ slot'[t] = slot[s] /\ slot'[s] = EmptySlot
        BY <3>2 DEF MoveSlot
      <4>2. CASE u = s
        BY <3>2, <4>1, <4>2
      <4>3. CASE u # s
        BY <2>0, <3>1, <4>3
      <4> QED
        BY <4>2, <4>3
    <3>3. CASE Cleartext(s, t)
      <4>1. slot'[s] = slot[s]
        BY <3>3 DEF Cleartext
      <4> QED
        BY <2>0, <3>1, <4>1
    <3> QED
      BY <1>4, <3>2, <3>3
  <2>2. TopOwned'
    <3> SUFFICES ASSUME NEW z \in Addr, Live(z)', mem'[z].higher = Null
                 PROVE  OwnedBy(z)'
      BY DEF TopOwned
    <3>1. OwnedBy(z)
      BY <2>0 DEF TopOwned
    <3> QED
      BY <2>0, <2>1, <3>1 DEF OwnedBy
  <2> QED
    BY <2>0, <2>2 DEF LowerNoInner, BoxHeader
<1>5. ASSUME NEW s \in Slot, DropSlot(s)
      PROVE  TopOwned' /\ LowerNoInner' /\ BoxHeader'
  <2>0. /\ UNCHANGED <<alloc, mem, inner>>
        /\ slot' = [slot EXCEPT ![s] = EmptySlot]
        /\ closing' = IF Owning(s) THEN slot[s].fd ELSE Null
        /\ closing = Null
    BY <1>5 DEF DropSlot, Idle
  <2>1. TopOwned'
    <3> SUFFICES ASSUME NEW z \in Addr, Live(z)', mem'[z].higher = Null
                 PROVE  OwnedBy(z)'
      BY DEF TopOwned
    <3>1. OwnedBy(z)
      BY <2>0 DEF TopOwned
    <3> QED
      BY <2>0, <3>1 DEF OwnedBy, EmptySlot
  <2> QED
    BY <2>0, <2>1 DEF LowerNoInner, BoxHeader
<1>6. ASSUME NEW s \in Slot, UseAuthHook(s) \/ UnsetAuthHook(s)
      PROVE  TopOwned' /\ LowerNoInner' /\ BoxHeader'
  <2>0. /\ UNCHANGED <<alloc, inner, slot, closing>>
        /\ \A z \in Addr : /\ mem'[z].kind = mem[z].kind
                           /\ mem'[z].lower = mem[z].lower
                           /\ mem'[z].higher = mem[z].higher
    BY <1>6 DEF UseAuthHook, UnsetAuthHook
  <2>1. \A z \in Addr : OwnedBy(z)' = OwnedBy(z)
    BY <2>0 DEF OwnedBy
  <2>2. TopOwned'
    BY <2>0, <2>1 DEF TopOwned
  <2>3. LowerNoInner'
    BY <2>0 DEF LowerNoInner
  <2>4. BoxHeader'
    <3> SUFFICES ASSUME NEW b \in Addr, Live(b)', inner'[b] # Null
                 PROVE  \/ mem'[b].kind = "Rust"
                        \/ mem'[b].kind = "SSL" /\ mem'[mem'[b].lower].kind = "Rust"
      BY DEF BoxHeader
    <3>1. mem[b].kind = "SSL" => mem[b].lower \in Addr
      BY DEF HeadersLinked
    <3> QED
      BY <2>0, <3>1 DEF BoxHeader
  <2> QED
    BY <2>2, <2>3, <2>4
<1>7. CASE (\E s \in Slot : StartIO(s)) \/ Dispatch
  <2>0. UNCHANGED <<alloc, mem, inner, slot, closing>>
    BY <1>7 DEF StartIO, Dispatch, SslIO, AuthCertificateHook, RustIO, NativeIO
  <2> QED
    BY <2>0 DEF TopOwned, OwnedBy, LowerNoInner, BoxHeader
<1>8. CASE SslClose
  <2> DEFINE a == closing
  <2> DEFINE l == mem[a].lower
  <2>0. /\ a \in Addr /\ Live(a) /\ mem[a].kind = "SSL"
        /\ l \in Addr /\ Live(l) /\ mem[l].higher = a /\ mem[a].higher = Null
        /\ mem[l].kind \in {"Rust", "Native"} /\ mem[l].lower = Null
        /\ a # l /\ inner[l] = Null
        /\ mem' = PopTop(mem, a)
        /\ alloc' = [alloc EXCEPT ![l] = "freed"]
        /\ UNCHANGED <<inner, slot, closing>>
    BY <1>8 DEF SslClose, SslShape, LowerLinked, LeafNoLower, LowerNoInner
  <2>1. /\ mem'[a] = [mem[l] EXCEPT !.higher = Null]
        /\ \A z \in Addr \ {a, l} : mem'[z] = mem[z] /\ alloc'[z] = alloc[z]
        /\ alloc'[a] = "live" /\ alloc'[l] = "freed"
    <3>1. mem'[a] = [mem[l] EXCEPT !.higher = Null]
      BY <2>0 DEF PopTop
    <3>2. \A z \in Addr \ {a, l} : mem'[z] = mem[z]
      BY <2>0 DEF PopTop
    <3>3. \A z \in Addr \ {l} : alloc'[z] = alloc[z]
      BY <2>0
    <3>4. alloc'[l] = "freed"
      BY <2>0
    <3> QED
      BY <2>0, <3>1, <3>2, <3>3, <3>4
  <2>2. TopOwned'
    <3> SUFFICES ASSUME NEW z \in Addr, Live(z)', mem'[z].higher = Null
                 PROVE  OwnedBy(z)'
      BY DEF TopOwned
    <3>1. CASE z = a
      BY <2>0, <3>1 DEF OwnedBy
    <3>2. CASE z # a
      <4>1. z # l /\ Live(z) /\ mem'[z] = mem[z]
        BY <2>1, <3>2
      <4>2. OwnedBy(z)
        BY <4>1 DEF TopOwned
      <4> QED
        BY <2>0, <2>1, <3>2, <4>1, <4>2 DEF OwnedBy
    <3> QED
      BY <3>1, <3>2
  <2>3. LowerNoInner'
    <3> SUFFICES ASSUME NEW y \in Addr, Live(y)', mem'[y].lower # Null
                 PROVE  inner'[mem'[y].lower] = Null
      BY DEF LowerNoInner
    <3>1. y # a /\ y # l
      BY <2>0, <2>1
    <3> QED
      BY <2>0, <2>1, <3>1 DEF LowerNoInner
  <2>4. BoxHeader'
    <3> SUFFICES ASSUME NEW b \in Addr, Live(b)', inner'[b] # Null
                 PROVE  \/ mem'[b].kind = "Rust"
                        \/ mem'[b].kind = "SSL" /\ mem'[mem'[b].lower].kind = "Rust"
      BY DEF BoxHeader
    <3>1. CASE b = a
      BY <2>0, <2>1, <3>1 DEF BoxHeader
    <3>2. CASE b # a
      <4>1. b # l /\ Live(b) /\ mem'[b] = mem[b]
        BY <2>1, <3>2
      <4>2. mem[b].kind = "SSL" => mem[b].lower \in Addr \ {a, l}
        BY <2>0, <3>2, <4>1 DEF LowerLinked, SslShape
      <4> QED
        BY <2>0, <2>1, <4>1, <4>2 DEF BoxHeader
    <3> QED
      BY <3>1, <3>2
  <2> QED
    BY <2>2, <2>3, <2>4
<1>9. CASE RustClose \/ NativeClose
  <2> DEFINE c == closing
  <2>0. /\ c \in Addr /\ Live(c)
        /\ alloc' = [alloc EXCEPT ![c] = "freed"]
        /\ closing' = IF RustClose THEN inner[c] ELSE Null
        /\ ~RustClose => inner[c] = Null
        /\ UNCHANGED <<mem, inner, slot>>
    BY <1>9 DEF RustClose, NativeClose, BoxHeader
  <2>1. TopOwned'
    <3> SUFFICES ASSUME NEW z \in Addr, Live(z)', mem'[z].higher = Null
                 PROVE  OwnedBy(z)'
      BY DEF TopOwned
    <3>1. z # c /\ Live(z)
      BY <2>0
    <3>2. OwnedBy(z)
      BY <2>0, <3>1 DEF TopOwned
    <3> QED
      BY <2>0, <3>1, <3>2 DEF OwnedBy
  <2> QED
    BY <2>0, <2>1 DEF LowerNoInner, BoxHeader
<1>10. CASE UNCHANGED vars
  BY <1>10 DEF vars, TopOwned, OwnedBy, LowerNoInner, BoxHeader
<1> QED
  BY <1>1, <1>2, <1>3, <1>4, <1>5, <1>6, <1>7, <1>8, <1>9, <1>10
  DEF Next, Client, CloseStep
(* The initial state, with no memory allocated, satisfies OwnInv.          *)
LEMMA InitOwnInv == Init => OwnInv
BY DEF Init, OwnInv, TopOwned, LowerNoInner, BoxHeader, Live

(* The invariants behind CloseAtHome and OwnedExactlyOnce hold in every    *)
(* state the library's operations can reach.                              *)
THEOREM OwnershipInvariant == Spec => [](TypeInv /\ Inv /\ OwnInv)
<1>1. Init => TypeInv /\ Inv /\ OwnInv
  <2> SUFFICES ASSUME Init PROVE TypeInv /\ Inv /\ OwnInv
    OBVIOUS
  <2>1. TypeInv
    BY DEF Init, TypeInv, TypeOK, HeadersLinked, Header, NoHeader,
           SlotVal, EmptySlot, AddrOrNull, Kind
  <2>2. Inv
    BY NullAssumption
    DEF Init, NoHeader, EmptySlot, Live, Owning, Inv, OwnedSlotLive,
        InnerLive, ClosingLive, LowerLinked, HigherLinked, SlotTop, InnerTop,
        ClosingTop, SlotsDistinct, SlotNotInner, SlotNotClosing,
        InnersDistinct, InnerNotClosing, LeafNoLower, SslShape, RustSecret,
        TlsOnSsl, FileOnLeaf, InnerOnLeaf, UnusedNoInner
  <2> QED
    BY <2>1, <2>2, InitOwnInv
<1>2. TypeInv /\ Inv /\ OwnInv /\ [Next]_vars => (TypeInv /\ Inv /\ OwnInv)'
  BY TypeInvInductive, HomeInvInductive, OwnInvInductive
<1> QED
  BY <1>1, <1>2, PTL DEF Spec

(* Ownership of File, WrappedFileImpl boxes and SSL layers is exact in     *)
(* every behaviour, for any number of descriptors and variables: every     *)
(* live descriptor has exactly one owner (a variable, a box's inner File,  *)
(* the layer stacked on it, or the running PR_Close) and no freed one has  *)
(* any, so no sequence of wraps, TLSSocket::new and its failure path,     *)
(* moves, drops and cascaded closes double-closes or leaks a descriptor.   *)
THEOREM OwnedExactlyOnceHolds == Spec => []OwnedExactlyOnce
<1>1. TypeInv /\ Inv /\ OwnInv => OwnedExactlyOnce
  BY OwnedFromInv DEF OwnInv
<1> QED
  BY <1>1, OwnershipInvariant, PTL

(* A step that frees memory frees what the running PR_Close solely owns.   *)
LEMMA FreeStep ==
  ASSUME TypeInv, Inv, OwnInv, [Next]_vars,
         NEW x \in Addr, Live(x), ~Live(x)'
  PROVE  closing # Null /\ Owners(x) \in {{<<"closing">>}, {<<"layer", closing>>}}
<1> USE NullAssumption DEF TypeInv, TypeOK, AddrOrNull, Inv, Header, Live
<1>1. PICK o : Owners(x) = {o}
  BY LiveOwnedOnce DEF OwnInv
<1>2. CASE SslClose
  <2>1. x = mem[closing].lower /\ closing # Null
    BY <1>2 DEF SslClose
  <2>2. <<"layer", closing>> \in Owners(x)
    BY <1>2, <2>1 DEF SslClose, Owners
  <2> QED
    BY <1>1, <2>1, <2>2
<1>3. CASE RustClose \/ NativeClose
  <2>1. x = closing /\ closing # Null
    BY <1>3 DEF RustClose, NativeClose
  <2>2. <<"closing">> \in Owners(x)
    BY <2>1 DEF Owners
  <2> QED
    BY <1>1, <2>1, <2>2
<1>4. CASE ~SslClose /\ ~RustClose /\ ~NativeClose
  <2>1. Live(x)'
    BY <1>4 DEF Next, Client, Dispatch, CloseStep, vars, NewPipe,
       WrapTransport, WrapFile, TLSNew, DropSlot, MoveSlot, Cleartext,
       UseAuthHook, UnsetAuthHook, StartIO, SslIO, AuthCertificateHook,
       RustIO, NativeIO
  <2> QED
    BY <2>1
<1> QED
  BY <1>2, <1>3, <1>4

(* PR_Close, wrapper_methods::close and ssl_DefClose only free memory that *)
(* the running close solely owns, in every behaviour: no variable, box or  *)
(* other layer is left holding freed memory by a close.                    *)
THEOREM FreeOnlyOwnedHolds == Spec => FreeOnlyOwned
<1>1. TypeInv /\ Inv /\ OwnInv /\ [Next]_vars =>
        [\A x \in Addr :
           Live(x) /\ ~Live(x)' =>
             closing # Null /\ Owners(x) \in {{<<"closing">>}, {<<"layer", closing>>}}
        ]_vars
  BY FreeStep
<1> QED
  BY <1>1, OwnershipInvariant, PTL DEF FreeOnlyOwned, Spec
=============
