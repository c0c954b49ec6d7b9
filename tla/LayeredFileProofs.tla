------------------------- MODULE LayeredFileProofs -------------------------
(* Proofs about LayeredFile that hold for every set of addresses and       *)
(* program variables.                                                      *)
EXTENDS LayeredFile, TLAPS

(* The two NSPR stack primitives keep every header a header.               *)
LEMMA PushTopType ==
  ASSUME NEW m \in [Addr -> Header], NEW f \in Addr, NEW n \in Addr,
         NEW layer \in Header
  PROVE  PushTop(m, f, n, layer) \in [Addr -> Header]
BY DEF PushTop, Header, AddrOrNull

LEMMA PopTopType ==
  ASSUME NEW m \in [Addr -> Header], NEW a \in Addr, m[a].lower \in Addr
  PROVE  PopTop(m, a) \in [Addr -> Header]
BY DEF PopTop, Header, AddrOrNull

(* TypeOK strengthened by the two facts about headers the dispatch needs: *)
(* an SSL layer always has a layer below it (cleartext borrows it, ssl     *)
(* close pops it) and a Rust header's secret is a box address.             *)
HeadersLinked ==
  \A a \in Addr :
    /\ mem[a].kind = "SSL" => mem[a].lower \in Addr
    /\ mem[a].kind = "Rust" => mem[a].secret \in Addr

TypeInv == TypeOK /\ HeadersLinked

Linked(m) ==
  \A a \in Addr :
    /\ m[a].kind = "SSL" => m[a].lower \in Addr
    /\ m[a].kind = "Rust" => m[a].secret \in Addr

LEMMA PushTopLinked ==
  ASSUME NEW m \in [Addr -> Header], NEW f \in Addr, NEW n \in Addr,
         NEW layer \in Header, layer.kind = "SSL", Linked(m)
  PROVE  Linked(PushTop(m, f, n, layer))
BY DEF PushTop, Linked, Header, AddrOrNull

LEMMA PopTopLinked ==
  ASSUME NEW m \in [Addr -> Header], NEW a \in Addr, m[a].lower \in Addr,
         Linked(m)
  PROVE  Linked(PopTop(m, a))
BY DEF PopTop, Linked, Header, AddrOrNull

(* Every step of the library keeps the state well typed; in particular an *)
(* empty program variable never keeps a stale pointer (File::drop,         *)
(* fd.rs:30, replaces it by null).                                         *)
LEMMA TypeInvInductive == TypeInv /\ [Next]_vars => TypeInv'
<1> SUFFICES ASSUME TypeOK, Linked(mem), [Next]_vars
             PROVE TypeOK' /\ Linked(mem')
  BY DEF TypeInv, HeadersLinked, Linked
<1> USE DEF TypeOK, AddrOrNull
<1>1. ASSUME NEW r \in Slot, NEW w \in Slot, NEW x \in Addr, NEW y \in Addr,
             NewPipe(r, w, x, y)
      PROVE TypeOK' /\ Linked(mem')
  BY <1>1 DEF NewPipe, Header, NoHeader, Kind, SlotVal, SlotKind, Linked
<1>2. ASSUME NEW t \in Slot, NEW b \in Addr, WrapTransport(t, b)
      PROVE TypeOK' /\ Linked(mem')
  BY <1>2 DEF WrapTransport, RustHeader, Header, NoHeader, Kind, SlotVal,
              SlotKind, Linked
<1>3. ASSUME NEW t \in Slot, NEW b \in Addr, WrapFile(t, b)
      PROVE TypeOK' /\ Linked(mem')
  <2>1. slot[t].fd \in Addr
    BY <1>3 DEF WrapFile, SlotVal
  <2> QED
  BY <1>3, <2>1 DEF WrapFile, RustHeader, Header, NoHeader, Kind, SlotVal, SlotKind,
              Linked
<1>4. ASSUME NEW s \in Slot, NEW n \in Addr, TLSNew(s, n)
      PROVE TypeOK' /\ Linked(mem')
  <2>1. slot[s].fd \in Addr
    BY <1>4 DEF TLSNew, SlotVal
  <2>2. SslHeader \in Header /\ SslHeader.kind = "SSL"
    BY DEF SslHeader, Header, Kind
  <2>3. /\ PushTop(mem, slot[s].fd, n, SslHeader) \in [Addr -> Header]
        /\ Linked(PushTop(mem, slot[s].fd, n, SslHeader))
    BY <2>1, <2>2, PushTopType, PushTopLinked
  <2> QED
    BY <1>4, <2>3 DEF TLSNew, SlotVal, SlotKind, EmptySlot
<1>5. ASSUME NEW s \in Slot, NEW t \in Slot, MoveSlot(s, t)
      PROVE TypeOK' /\ Linked(mem')
  BY <1>5 DEF MoveSlot, SlotVal, EmptySlot
<1>6. ASSUME NEW s \in Slot, NEW t \in Slot, Cleartext(s, t)
      PROVE TypeOK' /\ Linked(mem')
  <2>1. slot[s].fd \in Addr
    BY <1>6 DEF Cleartext, SlotVal
  <2>2. mem[slot[s].fd].lower \in Addr
    BY <1>6, <2>1 DEF Cleartext, Header
  <2> QED
    BY <1>6, <2>2 DEF Cleartext, SlotVal, SlotKind
<1>7. ASSUME NEW s \in Slot, DropSlot(s)
      PROVE TypeOK' /\ Linked(mem')
  BY <1>7 DEF DropSlot, SlotVal, EmptySlot, Owning
<1>8. ASSUME NEW s \in Slot, UseAuthHook(s) \/ UnsetAuthHook(s)
      PROVE TypeOK' /\ Linked(mem')
  BY <1>8 DEF UseAuthHook, UnsetAuthHook, Header, SlotVal, Linked
<1>9. ASSUME NEW s \in Slot, StartIO(s)
      PROVE TypeOK' /\ Linked(mem')
  BY <1>9 DEF StartIO, SlotVal
<1>10. CASE Dispatch
  BY <1>10 DEF Dispatch, SslIO, AuthCertificateHook, RustIO, NativeIO, Header,
               Linked
<1>11. CASE SslClose
  <2>1. closing \in Addr /\ mem[closing].lower \in Addr
    BY <1>11 DEF SslClose, Linked
  <2>2. PopTop(mem, closing) \in [Addr -> Header]
        /\ Linked(PopTop(mem, closing))
    BY <2>1, PopTopType, PopTopLinked
  <2> QED
    BY <1>11, <2>1, <2>2 DEF SslClose
<1>12. CASE RustClose \/ NativeClose
  BY <1>12 DEF RustClose, NativeClose
<1>13. CASE UNCHANGED vars
  BY <1>13 DEF vars
<1> QED
  BY <1>1, <1>2, <1>3, <1>4, <1>5, <1>6, <1>7, <1>8, <1>9, <1>10, <1>11,
     <1>12, <1>13 DEF Next, Client, CloseStep

(* The state stays well typed in every behaviour.                          *)
THEOREM TypeCorrect == Spec => []TypeOK
<1>1. Init => TypeInv
  BY DEF Init, TypeInv, TypeOK, HeadersLinked, Header, NoHeader, SlotVal,
         EmptySlot, AddrOrNull, Kind
<1>2. TypeInv => TypeOK
  BY DEF TypeInv
<1> QED
  BY <1>1, <1>2, TypeInvInductive, PTL DEF Spec
-----------------------------------------------------------------------------
(* The inductive invariant behind CloseAtHome.  The owners of a descriptor *)
(* at the top of a stack are variables, boxes and the running PR_Close;    *)
(* the descriptor below an SSL layer is owned through the stack links.     *)

(* Every pointer an owner or a stack link holds is to live memory, and the *)
(* lower and higher links of live headers agree.                           *)
OwnedSlotLive == \A s \in Slot : Owning(s) => Live(slot[s].fd)
InnerLive == \A b \in Addr : Live(b) /\ inner[b] # Null => Live(inner[b])
ClosingLive == closing # Null => Live(closing)
LowerLinked ==
  \A y \in Addr : Live(y) /\ mem[y].lower # Null =>
    Live(mem[y].lower) /\ mem[mem[y].lower].higher = y
HigherLinked ==
  \A y \in Addr : Live(y) /\ mem[y].higher # Null =>
    Live(mem[y].higher) /\ mem[mem[y].higher].lower = y

(* What a variable, a box or PR_Close owns is the top of its stack.        *)
SlotTop == \A s \in Slot : Owning(s) => mem[slot[s].fd].higher = Null
InnerTop ==
  \A b \in Addr : Live(b) /\ inner[b] # Null => mem[inner[b]].higher = Null
ClosingTop == closing # Null => mem[closing].higher = Null

(* No two top-level owners hold the same descriptor.                       *)
SlotsDistinct ==
  \A s, t \in Slot : Owning(s) /\ Owning(t) /\ s # t => slot[s].fd # slot[t].fd
SlotNotInner ==
  \A s \in Slot, b \in Addr : Owning(s) /\ Live(b) => inner[b] # slot[s].fd
SlotNotClosing == \A s \in Slot : Owning(s) => closing # slot[s].fd
InnersDistinct ==
  \A b, c \in Addr : Live(b) /\ Live(c) /\ b # c /\ inner[b] # Null =>
    inner[b] # inner[c]
InnerNotClosing ==
  \A b \in Addr : Live(b) /\ inner[b] # Null => inner[b] # closing

(* Stacks are a Rust or native descriptor, possibly under one SSL layer;  *)
(* a Rust header's secret is its own address when it is on top and the     *)
(* SSL layer's (its box's) address when it has been pushed down.          *)
LeafNoLower ==
  \A x \in Addr : Live(x) /\ mem[x].kind \in {"Rust", "Native"} =>
    mem[x].lower = Null
SslShape ==
  \A x \in Addr : Live(x) /\ mem[x].kind = "SSL" =>
    /\ mem[x].lower # Null
    /\ mem[mem[x].lower].kind \in {"Rust", "Native"}
    /\ mem[x].higher = Null
RustSecret ==
  \A x \in Addr : Live(x) /\ mem[x].kind = "Rust" =>
    mem[x].secret = IF mem[x].higher = Null THEN x ELSE mem[x].higher
TlsOnSsl == \A s \in Slot : slot[s].kind = "TLS" => mem[slot[s].fd].kind = "SSL"
FileOnLeaf ==
  \A s \in Slot : slot[s].kind = "File" =>
    mem[slot[s].fd].kind \in {"Rust", "Native"}
InnerOnLeaf ==
  \A b \in Addr : Live(b) /\ inner[b] # Null =>
    mem[inner[b]].kind \in {"Rust", "Native"}
UnusedNoInner == \A x \in Addr : alloc[x] = "unused" => inner[x] = Null

Inv ==
  /\ OwnedSlotLive /\ InnerLive /\ ClosingLive /\ LowerLinked /\ HigherLinked
  /\ SlotTop /\ InnerTop /\ ClosingTop
  /\ SlotsDistinct /\ SlotNotInner /\ SlotNotClosing /\ InnersDistinct
  /\ InnerNotClosing
  /\ LeafNoLower /\ SslShape /\ RustSecret /\ TlsOnSsl /\ FileOnLeaf
  /\ InnerOnLeaf /\ UnusedNoInner

LEMMA HomeInvInductive ==
  TypeInv /\ Inv /\ [Next]_vars => Inv'
<1> SUFFICES ASSUME TypeInv, Inv, [Next]_vars, TypeInv' PROVE Inv'
  BY TypeInvInductive
<1> USE NullAssumption DEF TypeInv, TypeOK, AddrOrNull, Live, Owning, Inv, Header
<1>1. ASSUME NEW r \in Slot, NEW w \in Slot, NEW x \in Addr, NEW y \in Addr,
             NewPipe(r, w, x, y)
      PROVE Inv'
  <2>a. /\ x # y /\ alloc[x] = "unused" /\ alloc[y] = "unused"
        /\ \A z \in Addr \ {x, y} : mem'[z] = mem[z] /\ alloc'[z] = alloc[z]
        /\ \A z \in {x, y} : mem'[z].lower = Null /\ mem'[z].higher = Null
                             /\ mem'[z].kind = "Native"
    BY <1>1 DEF NewPipe, NoHeader
  <2>b. \A z \in Addr : Live(z) => /\ mem[z].lower \notin {x, y}
                                   /\ mem[z].higher \notin {x, y}
    BY <2>a DEF LowerLinked, HigherLinked
  <2>1. OwnedSlotLive'
    BY <1>1 DEF NewPipe, NoHeader, SlotVal, OwnedSlotLive
  <2>2. InnerLive'
    BY <1>1 DEF NewPipe, NoHeader, SlotVal, InnerLive, OwnedSlotLive, InnerLive, ClosingLive, LowerLinked, HigherLinked, UnusedNoInner
  <2>3. ClosingLive'
    BY <1>1 DEF NewPipe, NoHeader, SlotVal, ClosingLive
  <2>4. LowerLinked'
    <3> SUFFICES ASSUME NEW z \in Addr, Live(z)', mem'[z].lower # Null
                 PROVE  Live(mem[z].lower)' /\ mem'[mem'[z].lower].higher = z
      BY DEF LowerLinked
    <3>1. z \notin {x, y} /\ Live(z) /\ mem'[z] = mem[z]
      BY <2>a
    <3>2. Live(mem[z].lower) /\ mem[mem[z].lower].higher = z
      BY <3>1 DEF LowerLinked
    <3> QED
      BY <3>1, <3>2, <2>a, <2>b
  <2>5. HigherLinked'
    <3> SUFFICES ASSUME NEW z \in Addr, Live(z)', mem'[z].higher # Null
                 PROVE  Live(mem[z].higher)' /\ mem'[mem'[z].higher].lower = z
      BY DEF HigherLinked
    <3>1. z \notin {x, y} /\ Live(z) /\ mem'[z] = mem[z]
      BY <2>a
    <3>2. Live(mem[z].higher) /\ mem[mem[z].higher].lower = z
      BY <3>1 DEF HigherLinked
    <3> QED
      BY <3>1, <3>2, <2>a, <2>b
  <2>6. SlotTop'
    BY <1>1 DEF NewPipe, NoHeader, SlotVal, SlotTop
  <2>7. InnerTop'
    BY <1>1 DEF NewPipe, NoHeader, SlotVal, InnerTop, OwnedSlotLive, InnerLive, ClosingLive, LowerLinked, HigherLinked, UnusedNoInner
  <2>8. ClosingTop'
    BY <1>1 DEF NewPipe, NoHeader, SlotVal, ClosingTop
  <2>9. SlotsDistinct'
    BY <1>1 DEF NewPipe, NoHeader, SlotVal, SlotsDistinct, OwnedSlotLive, InnerLive, ClosingLive, LowerLinked, HigherLinked, UnusedNoInner
  <2>10. SlotNotInner'
    BY <1>1 DEF NewPipe, NoHeader, SlotVal, SlotNotInner, OwnedSlotLive, InnerLive, ClosingLive, LowerLinked, HigherLinked, UnusedNoInner
  <2>11. SlotNotClosing'
    BY <1>1 DEF NewPipe, NoHeader, SlotVal, SlotNotClosing, OwnedSlotLive, InnerLive, ClosingLive, LowerLinked, HigherLinked, UnusedNoInner
  <2>12. InnersDistinct'
    BY <1>1 DEF NewPipe, NoHeader, SlotVal, InnersDistinct, OwnedSlotLive, InnerLive, ClosingLive, LowerLinked, HigherLinked, UnusedNoInner
  <2>13. InnerNotClosing'
    BY <1>1 DEF NewPipe, NoHeader, SlotVal, InnerNotClosing, OwnedSlotLive, InnerLive, ClosingLive, LowerLinked, HigherLinked, UnusedNoInner
  <2>14. LeafNoLower'
    BY <1>1 DEF NewPipe, NoHeader, SlotVal, LeafNoLower
  <2>15. SslShape'
    <3> SUFFICES ASSUME NEW z \in Addr, Live(z)', mem'[z].kind = "SSL"
                 PROVE  /\ mem'[z].lower # Null
                        /\ mem'[mem'[z].lower].kind \in {"Rust", "Native"}
                        /\ mem'[z].higher = Null
      BY DEF SslShape
    <3>1. z \notin {x, y} /\ Live(z) /\ mem'[z] = mem[z]
      BY <2>a
    <3>2. /\ mem[z].lower # Null
          /\ mem[mem[z].lower].kind \in {"Rust", "Native"}
          /\ mem[z].higher = Null
          /\ Live(mem[z].lower)
      BY <3>1 DEF SslShape, LowerLinked
    <3> QED
      BY <3>1, <3>2, <2>a, <2>b
  <2>16. RustSecret'
    BY <1>1 DEF NewPipe, NoHeader, SlotVal, RustSecret
  <2>17. TlsOnSsl'
    BY <1>1 DEF NewPipe, NoHeader, SlotVal, TlsOnSsl, OwnedSlotLive, InnerLive, ClosingLive, LowerLinked, HigherLinked, UnusedNoInner
  <2>18. FileOnLeaf'
    BY <1>1 DEF NewPipe, NoHeader, SlotVal, FileOnLeaf
  <2>19. InnerOnLeaf'
    BY <1>1 DEF NewPipe, NoHeader, SlotVal, InnerOnLeaf, OwnedSlotLive, InnerLive, ClosingLive, LowerLinked, HigherLinked, UnusedNoInner
  <2>20. UnusedNoInner'
    BY <1>1 DEF NewPipe, NoHeader, SlotVal, UnusedNoInner
  <2> QED
    BY <2>1, <2>2, <2>3, <2>4, <2>5, <2>6, <2>7, <2>8, <2>9, <2>10, <2>11, <2>12, <2>13, <2>14, <2>15, <2>16, <2>17, <2>18, <2>19, <2>20
<1>2. ASSUME NEW t \in Slot, NEW b \in Addr, WrapTransport(t, b)
      PROVE Inv'
  <2>1. OwnedSlotLive'
    BY <1>2 DEF WrapTransport, RustHeader, NoHeader, SlotVal, OwnedSlotLive
  <2>2. InnerLive'
    BY <1>2 DEF WrapTransport, RustHeader, NoHeader, SlotVal, InnerLive
  <2>3. ClosingLive'
    BY <1>2 DEF WrapTransport, RustHeader, NoHeader, SlotVal, ClosingLive
  <2>4. LowerLinked'
    BY <1>2 DEF WrapTransport, RustHeader, NoHeader, SlotVal, LowerLinked
  <2>5. HigherLinked'
    BY <1>2 DEF WrapTransport, RustHeader, NoHeader, SlotVal, HigherLinked
  <2>6. SlotTop'
    BY <1>2 DEF WrapTransport, RustHeader, NoHeader, SlotVal, SlotTop
  <2>7. InnerTop'
    BY <1>2 DEF WrapTransport, RustHeader, NoHeader, SlotVal, InnerTop
  <2>8. ClosingTop'
    BY <1>2 DEF WrapTransport, RustHeader, NoHeader, SlotVal, ClosingTop
  <2>9. SlotsDistinct'
    BY <1>2 DEF WrapTransport, RustHeader, NoHeader, SlotVal, SlotsDistinct, OwnedSlotLive, InnerLive, ClosingLive, LowerLinked, HigherLinked, UnusedNoInner
  <2>10. SlotNotInner'
    BY <1>2 DEF WrapTransport, RustHeader, NoHeader, SlotVal, SlotNotInner, OwnedSlotLive, InnerLive, ClosingLive, LowerLinked, HigherLinked, UnusedNoInner
  <2>11. SlotNotClosing'
    BY <1>2 DEF WrapTransport, RustHeader, NoHeader, SlotVal, SlotNotClosing, OwnedSlotLive, InnerLive, ClosingLive, LowerLinked, HigherLinked, UnusedNoInner
  <2>12. InnersDistinct'
    BY <1>2 DEF WrapTransport, RustHeader, NoHeader, SlotVal, InnersDistinct
  <2>13. InnerNotClosing'
    BY <1>2 DEF WrapTransport, RustHeader, NoHeader, SlotVal, InnerNotClosing
  <2>14. LeafNoLower'
    BY <1>2 DEF WrapTransport, RustHeader, NoHeader, SlotVal, LeafNoLower
  <2>15. SslShape'
    BY <1>2 DEF WrapTransport, RustHeader, NoHeader, SlotVal, SslShape
  <2>16. RustSecret'
    BY <1>2 DEF WrapTransport, RustHeader, NoHeader, SlotVal, RustSecret
  <2>17. TlsOnSsl'
    BY <1>2 DEF WrapTransport, RustHeader, NoHeader, SlotVal, TlsOnSsl, OwnedSlotLive, InnerLive, ClosingLive, LowerLinked, HigherLinked, UnusedNoInner
  <2>18. FileOnLeaf'
    BY <1>2 DEF WrapTransport, RustHeader, NoHeader, SlotVal, FileOnLeaf
  <2>19. InnerOnLeaf'
    BY <1>2 DEF WrapTransport, RustHeader, NoHeader, SlotVal, InnerOnLeaf
  <2>20. UnusedNoInner'
    BY <1>2 DEF WrapTransport, RustHeader, NoHeader, SlotVal, UnusedNoInner
  <2> QED
    BY <2>1, <2>2, <2>3, <2>4, <2>5, <2>6, <2>7, <2>8, <2>9, <2>10, <2>11, <2>12, <2>13, <2>14, <2>15, <2>16, <2>17, <2>18, <2>19, <2>20
<1>3. ASSUME NEW t \in Slot, NEW b \in Addr, WrapFile(t, b)
      PROVE Inv'
  <2>a. /\ slot[t].fd \in Addr /\ Live(slot[t].fd) /\ Owning(t)
        /\ mem[slot[t].fd].higher = Null
        /\ mem[slot[t].fd].kind \in {"Rust", "Native"}
        /\ alloc[b] = "unused" /\ b # slot[t].fd /\ closing = Null
    BY <1>3 DEF WrapFile, SlotVal, Idle, OwnedSlotLive, SlotTop, FileOnLeaf
  <2>b. /\ \A z \in Addr \ {b} : /\ mem'[z] = mem[z] /\ alloc'[z] = alloc[z]
                                /\ inner'[z] = inner[z]
        /\ mem'[b] = RustHeader(b) /\ alloc'[b] = "live"
        /\ inner'[b] = slot[t].fd /\ closing' = Null
        /\ slot'[t] = [kind |-> "File", fd |-> b]
        /\ \A s \in Slot \ {t} : slot'[s] = slot[s]
    BY <1>3, <2>a DEF WrapFile
  <2>c. \A z \in Addr : Live(z) => inner[z] # b /\ inner[z] # slot[t].fd
    BY <2>a DEF InnerLive, SlotNotInner
  <2>d. \A s \in Slot \ {t} : Owning(s) => slot[s].fd # b /\ slot[s].fd # slot[t].fd
    BY <2>a DEF OwnedSlotLive, SlotsDistinct
  <2>1. OwnedSlotLive'
    BY <1>3 DEF WrapFile, RustHeader, NoHeader, SlotVal, OwnedSlotLive
  <2>2. InnerLive'
    BY <1>3 DEF WrapFile, RustHeader, NoHeader, SlotVal, InnerLive, OwnedSlotLive, InnerLive, ClosingLive, LowerLinked, HigherLinked, UnusedNoInner
  <2>3. ClosingLive'
    BY <1>3 DEF WrapFile, RustHeader, NoHeader, SlotVal, ClosingLive
  <2>4. LowerLinked'
    BY <1>3 DEF WrapFile, RustHeader, NoHeader, SlotVal, LowerLinked
  <2>5. HigherLinked'
    BY <1>3 DEF WrapFile, RustHeader, NoHeader, SlotVal, HigherLinked
  <2>6. SlotTop'
    BY <1>3 DEF WrapFile, RustHeader, NoHeader, SlotVal, SlotTop
  <2>7. InnerTop'
    BY <2>a, <2>b, <2>c, <2>d DEF RustHeader, NoHeader, InnerTop
  <2>8. ClosingTop'
    BY <1>3 DEF WrapFile, RustHeader, NoHeader, SlotVal, ClosingTop
  <2>9. SlotsDistinct'
    BY <1>3 DEF WrapFile, RustHeader, NoHeader, SlotVal, SlotsDistinct, OwnedSlotLive, InnerLive, ClosingLive, LowerLinked, HigherLinked, UnusedNoInner
  <2>10. SlotNotInner'
    BY <2>a, <2>b, <2>c, <2>d DEF RustHeader, NoHeader, SlotNotInner
  <2>11. SlotNotClosing'
    BY <1>3 DEF WrapFile, RustHeader, NoHeader, SlotVal, SlotNotClosing, OwnedSlotLive, InnerLive, ClosingLive, LowerLinked, HigherLinked, UnusedNoInner
  <2>12. InnersDistinct'
    BY <2>a, <2>b, <2>c, <2>d DEF RustHeader, NoHeader, InnersDistinct
  <2>13. InnerNotClosing'
    BY <2>a, <2>b, <2>c, <2>d DEF RustHeader, NoHeader, InnerNotClosing
  <2>14. LeafNoLower'
    BY <1>3 DEF WrapFile, RustHeader, NoHeader, SlotVal, LeafNoLower
  <2>15. SslShape'
    BY <1>3 DEF WrapFile, RustHeader, NoHeader, SlotVal, SslShape
  <2>16. RustSecret'
    BY <1>3 DEF WrapFile, RustHeader, NoHeader, SlotVal, RustSecret
  <2>17. TlsOnSsl'
    BY <1>3 DEF WrapFile, RustHeader, NoHeader, SlotVal, TlsOnSsl, OwnedSlotLive, InnerLive, ClosingLive, LowerLinked, HigherLinked, UnusedNoInner
  <2>18. FileOnLeaf'
    BY <1>3 DEF WrapFile, RustHeader, NoHeader, SlotVal, FileOnLeaf
  <2>19. InnerOnLeaf'
    BY <2>a, <2>b, <2>c, <2>d DEF RustHeader, NoHeader, InnerOnLeaf
  <2>20. UnusedNoInner'
    BY <1>3 DEF WrapFile, RustHeader, NoHeader, SlotVal, UnusedNoInner
  <2> QED
    BY <2>1, <2>2, <2>3, <2>4, <2>5, <2>6, <2>7, <2>8, <2>9, <2>10, <2>11, <2>12, <2>13, <2>14, <2>15, <2>16, <2>17, <2>18, <2>19, <2>20
<1>4. ASSUME NEW s \in Slot, NEW n \in Addr, TLSNew(s, n)
      PROVE Inv'
  <2> DEFINE f == slot[s].fd
  <2>a. /\ f \in Addr /\ Live(f) /\ Owning(s) /\ closing = Null
        /\ mem[f].higher = Null /\ mem[f].lower = Null
        /\ mem[f].kind \in {"Rust", "Native"}
        /\ mem[f].kind = "Rust" => mem[f].secret = f
    BY <1>4 DEF TLSNew, SlotVal, Idle, OwnedSlotLive, SlotTop, FileOnLeaf,
                LeafNoLower, RustSecret
  <2>b. /\ \A z \in Addr : Live(z) => inner[z] # f /\ mem[z].lower # f
        /\ \A u \in Slot \ {s} : Owning(u) => slot[u].fd # f
    BY <2>a DEF SlotNotInner, LowerLinked, SlotsDistinct
  <2>1. CASE /\ alloc[n] = "unused"
             /\ alloc' = [alloc EXCEPT ![n] = "live"]
             /\ mem' = PushTop(mem, f, n, SslHeader)
             /\ slot' = [slot EXCEPT ![s] = [kind |-> "TLS", fd |-> f]]
             /\ UNCHANGED <<closing, inner>>
    <3>a. /\ n # f
          /\ \A z \in Addr : Live(z) => /\ inner[z] # n /\ mem[z].lower # n
                                         /\ mem[z].higher # n
          /\ \A u \in Slot : Owning(u) => slot[u].fd # n
          /\ inner[n] = Null
      BY <2>a, <2>1 DEF InnerLive, LowerLinked, HigherLinked, OwnedSlotLive,
                        UnusedNoInner
    <3>m1. mem'[f] = [kind |-> "SSL", secret |-> Null, lower |-> n,
                      higher |-> Null, hook |-> Null]
      BY <2>a, <2>1 DEF PushTop, SslHeader
    <3>m2. mem'[n] = [mem[f] EXCEPT !.higher = f]
      BY <2>a, <2>1, <3>a DEF PushTop
    <3>m3. \A z \in Addr \ {f, n} : mem'[z] = mem[z]
      BY <2>a, <2>1 DEF PushTop
    <3>m. /\ mem'[f] = [kind |-> "SSL", secret |-> Null, lower |-> n,
                        higher |-> Null, hook |-> Null]
          /\ mem'[n] = [mem[f] EXCEPT !.higher = f]
          /\ \A z \in Addr \ {f, n} : mem'[z] = mem[z]
      BY <3>m1, <3>m2, <3>m3
    <3>b. /\ mem'[f] = [kind |-> "SSL", secret |-> Null, lower |-> n,
                        higher |-> Null, hook |-> Null]
          /\ mem'[n] = [mem[f] EXCEPT !.higher = f]
          /\ \A z \in Addr \ {f, n} : mem'[z] = mem[z]
          /\ alloc'[n] = "live"
          /\ \A z \in Addr \ {n} : alloc'[z] = alloc[z]
          /\ slot'[s] = [kind |-> "TLS", fd |-> f]
          /\ \A u \in Slot \ {s} : slot'[u] = slot[u]
          /\ inner' = inner /\ closing' = Null
      BY <2>a, <2>1, <3>a, <3>m
    <3>1. OwnedSlotLive'
      <4> SUFFICES ASSUME NEW u \in Slot, Owning(u)' PROVE Live(slot[u].fd)'
        BY DEF OwnedSlotLive
      <4>1. CASE u = s
        BY <4>1, <2>a, <2>b, <3>a, <3>b
      <4>2. CASE u # s
        BY <4>2, <2>a, <2>b, <3>a, <3>b DEF OwnedSlotLive, SlotVal
      <4> QED
        BY <4>1, <4>2
    <3>2. InnerLive'
      BY <2>a, <2>b, <3>a, <3>b DEF InnerLive
    <3>3. ClosingLive'
      BY <2>a, <2>b, <3>a, <3>b DEF ClosingLive
    <3>4. LowerLinked'
      <4> SUFFICES ASSUME NEW z \in Addr, Live(z)', mem'[z].lower # Null
                   PROVE  Live(mem[z].lower)' /\ mem'[mem'[z].lower].higher = z
        BY DEF LowerLinked
      <4>1. CASE z = f
        BY <4>1, <2>a, <2>b, <3>a, <3>b
      <4>2. CASE z = n
        BY <4>2, <2>a, <2>b, <3>a, <3>b
      <4>3. CASE z \notin {f, n}
        <5>1. Live(z) /\ mem'[z] = mem[z]
          BY <4>3, <2>a, <2>b, <3>a, <3>b
        <5>2. Live(mem[z].lower) /\ mem[mem[z].lower].higher = z
              /\ mem[z].lower \notin {f, n}
          BY <5>1, <2>a, <2>b, <3>a, <3>b DEF LowerLinked
        <5> QED
          BY <5>1, <5>2, <2>a, <2>b, <3>a, <3>b
      <4> QED
        BY <4>1, <4>2, <4>3
    <3>5. HigherLinked'
      <4> SUFFICES ASSUME NEW z \in Addr, Live(z)', mem'[z].higher # Null
                   PROVE  Live(mem[z].higher)' /\ mem'[mem'[z].higher].lower = z
        BY DEF HigherLinked
      <4>1. CASE z = f
        BY <4>1, <2>a, <2>b, <3>a, <3>b
      <4>2. CASE z = n
        BY <4>2, <2>a, <2>b, <3>a, <3>b
      <4>3. CASE z \notin {f, n}
        <5>1. Live(z) /\ mem'[z] = mem[z]
          BY <4>3, <2>a, <2>b, <3>a, <3>b
        <5>2. Live(mem[z].higher) /\ mem[mem[z].higher].lower = z
          BY <5>1 DEF HigherLinked
        <5>3. mem[z].higher \notin {f, n}
          BY <5>1, <5>2, <2>a, <2>b, <3>a, <3>b
        <5> QED
          BY <5>1, <5>2, <5>3, <2>a, <2>b, <3>a, <3>b
      <4> QED
        BY <4>1, <4>2, <4>3
    <3>6. SlotTop'
      <4> SUFFICES ASSUME NEW u \in Slot, Owning(u)'
                   PROVE  mem'[slot'[u].fd].higher = Null
        BY DEF SlotTop
      <4>1. CASE u = s
        BY <4>1, <2>a, <2>b, <3>a, <3>b
      <4>2. CASE u # s
        <5>1. Owning(u) /\ slot'[u] = slot[u] /\ slot[u].fd \notin {f, n}
          BY <4>2, <2>a, <2>b, <3>a, <3>b
        <5>2. slot[u].fd \in Addr
          BY <5>1 DEF SlotVal
        <5> QED
          BY <5>1, <5>2, <2>a, <2>b, <3>a, <3>b DEF SlotTop
      <4> QED
        BY <4>1, <4>2
    <3>7. InnerTop'
      BY <2>a, <2>b, <3>a, <3>b DEF InnerTop
    <3>8. ClosingTop'
      BY <2>a, <2>b, <3>a, <3>b DEF ClosingTop
    <3>9. SlotsDistinct'
      BY <2>a, <2>b, <3>a, <3>b DEF SlotsDistinct
    <3>10. SlotNotInner'
      <4> SUFFICES ASSUME NEW u \in Slot, NEW c \in Addr, Owning(u)', Live(c)'
                   PROVE  inner'[c] # slot'[u].fd
        BY DEF SlotNotInner
      <4>1. CASE c = n
        BY <4>1, <2>a, <2>b, <3>a, <3>b DEF SlotVal
      <4>2. CASE c # n /\ u = s
        BY <4>2, <2>a, <2>b, <3>a, <3>b
      <4>3. CASE c # n /\ u # s
        BY <4>3, <2>a, <2>b, <3>a, <3>b DEF SlotNotInner
      <4> QED
        BY <4>1, <4>2, <4>3
    <3>11. SlotNotClosing'
      BY <2>a, <2>b, <3>a, <3>b DEF SlotNotClosing
    <3>12. InnersDistinct'
      BY <2>a, <2>b, <3>a, <3>b DEF InnersDistinct
    <3>13. InnerNotClosing'
      BY <2>a, <2>b, <3>a, <3>b DEF InnerNotClosing
    <3>14. LeafNoLower'
      <4> SUFFICES ASSUME NEW z \in Addr, Live(z)',
                          mem'[z].kind \in {"Rust", "Native"}
                   PROVE  mem'[z].lower = Null
        BY DEF LeafNoLower
      <4>1. CASE z = f
        BY <4>1, <2>a, <2>b, <3>a, <3>b
      <4>2. CASE z = n
        BY <4>2, <2>a, <2>b, <3>a, <3>b
      <4>3. CASE z \notin {f, n}
        BY <4>3, <2>a, <2>b, <3>a, <3>b DEF LeafNoLower
      <4> QED
        BY <4>1, <4>2, <4>3
    <3>15. SslShape'
      <4> SUFFICES ASSUME NEW z \in Addr, Live(z)', mem'[z].kind = "SSL"
                   PROVE  /\ mem'[z].lower # Null
                          /\ mem'[mem'[z].lower].kind \in {"Rust", "Native"}
                          /\ mem'[z].higher = Null
        BY DEF SslShape
      <4>1. CASE z = f
        BY <4>1, <2>a, <2>b, <3>a, <3>b
      <4>2. CASE z = n
        BY <4>2, <2>a, <2>b, <3>a, <3>b
      <4>3. CASE z \notin {f, n}
        <5>1. Live(z) /\ mem'[z] = mem[z]
          BY <4>3, <2>a, <2>b, <3>a, <3>b
        <5>2. /\ mem[z].lower # Null
              /\ mem[mem[z].lower].kind \in {"Rust", "Native"}
              /\ mem[z].higher = Null
              /\ Live(mem[z].lower) /\ mem[mem[z].lower].higher = z
          BY <5>1 DEF SslShape, LowerLinked
        <5>3. mem[z].lower \notin {f, n}
          BY <5>1, <5>2, <2>a, <2>b, <3>a, <3>b
        <5> QED
          BY <5>1, <5>2, <5>3, <2>a, <2>b, <3>a, <3>b
      <4> QED
        BY <4>1, <4>2, <4>3
    <3>16. RustSecret'
      <4> SUFFICES ASSUME NEW z \in Addr, Live(z)', mem'[z].kind = "Rust"
                   PROVE  mem'[z].secret = IF mem'[z].higher = Null THEN z
                                           ELSE mem'[z].higher
        BY DEF RustSecret
      <4>1. CASE z = f
        BY <4>1, <2>a, <2>b, <3>a, <3>b
      <4>2. CASE z = n
        BY <4>2, <2>a, <2>b, <3>a, <3>b
      <4>3. CASE z \notin {f, n}
        BY <4>3, <2>a, <2>b, <3>a, <3>b DEF RustSecret
      <4> QED
        BY <4>1, <4>2, <4>3
    <3>17. TlsOnSsl'
      <4> SUFFICES ASSUME NEW u \in Slot, slot'[u].kind = "TLS"
                   PROVE  mem'[slot'[u].fd].kind = "SSL"
        BY DEF TlsOnSsl
      <4>1. CASE u = s
        BY <4>1, <2>a, <2>b, <3>a, <3>b
      <4>2. CASE u # s
        <5>1. Owning(u) /\ slot'[u] = slot[u] /\ slot[u].fd \notin {f, n}
          BY <4>2, <2>a, <2>b, <3>a, <3>b
        <5>2. slot[u].fd \in Addr
          BY <5>1 DEF SlotVal
        <5> QED
          BY <5>1, <5>2, <2>a, <2>b, <3>a, <3>b DEF TlsOnSsl
      <4> QED
        BY <4>1, <4>2
    <3>18. FileOnLeaf'
      <4> SUFFICES ASSUME NEW u \in Slot, slot'[u].kind = "File"
                   PROVE  mem'[slot'[u].fd].kind \in {"Rust", "Native"}
        BY DEF FileOnLeaf
      <4>1. u # s
        BY <2>a, <2>b, <3>a, <3>b
      <4>2. Owning(u) /\ slot'[u] = slot[u] /\ slot[u].fd \notin {f, n}
        BY <4>1, <2>a, <2>b, <3>a, <3>b
      <4>3. slot[u].fd \in Addr
        BY <4>2 DEF SlotVal
      <4> QED
        BY <4>2, <4>3, <2>a, <2>b, <3>a, <3>b DEF FileOnLeaf
    <3>19. InnerOnLeaf'
      BY <2>a, <2>b, <3>a, <3>b DEF InnerOnLeaf
    <3>20. UnusedNoInner'
      BY <2>a, <2>b, <3>a, <3>b DEF UnusedNoInner
    <3> QED
      BY <3>1, <3>2, <3>3, <3>4, <3>5, <3>6, <3>7, <3>8, <3>9, <3>10, <3>11, <3>12, <3>13, <3>14, <3>15, <3>16, <3>17, <3>18, <3>19, <3>20
  <2>2. CASE /\ slot' = [slot EXCEPT ![s] = EmptySlot]
             /\ closing' = f
             /\ UNCHANGED <<alloc, mem, inner>>
    <3>b. /\ slot'[s] = EmptySlot
          /\ \A u \in Slot \ {s} : slot'[u] = slot[u]
      BY <2>2
    <3>1. OwnedSlotLive'
      BY <2>a, <2>b, <2>2, <3>b DEF EmptySlot, OwnedSlotLive
    <3>2. InnerLive'
      BY <2>a, <2>b, <2>2, <3>b DEF EmptySlot, InnerLive
    <3>3. ClosingLive'
      BY <2>a, <2>b, <2>2, <3>b DEF EmptySlot, ClosingLive
    <3>4. LowerLinked'
      BY <2>a, <2>b, <2>2, <3>b DEF EmptySlot, LowerLinked
    <3>5. HigherLinked'
      BY <2>a, <2>b, <2>2, <3>b DEF EmptySlot, HigherLinked
    <3>6. SlotTop'
      BY <2>a, <2>b, <2>2, <3>b DEF EmptySlot, SlotTop
    <3>7. InnerTop'
      BY <2>a, <2>b, <2>2, <3>b DEF EmptySlot, InnerTop
    <3>8. ClosingTop'
      BY <2>a, <2>b, <2>2, <3>b DEF EmptySlot, ClosingTop
    <3>9. SlotsDistinct'
      BY <2>a, <2>b, <2>2, <3>b DEF EmptySlot, SlotsDistinct
    <3>10. SlotNotInner'
      BY <2>a, <2>b, <2>2, <3>b DEF EmptySlot, SlotNotInner
    <3>11. SlotNotClosing'
      BY <2>a, <2>b, <2>2, <3>b DEF EmptySlot, SlotNotClosing
    <3>12. InnersDistinct'
      BY <2>a, <2>b, <2>2, <3>b DEF EmptySlot, InnersDistinct
    <3>13. InnerNotClosing'
      BY <2>a, <2>b, <2>2, <3>b DEF EmptySlot, InnerNotClosing
    <3>14. LeafNoLower'
      BY <2>a, <2>b, <2>2, <3>b DEF EmptySlot, LeafNoLower
    <3>15. SslShape'
      BY <2>a, <2>b, <2>2, <3>b DEF EmptySlot, SslShape
    <3>16. RustSecret'
      BY <2>a, <2>b, <2>2, <3>b DEF EmptySlot, RustSecret
    <3>17. TlsOnSsl'
      BY <2>a, <2>b, <2>2, <3>b DEF EmptySlot, TlsOnSsl
    <3>18. FileOnLeaf'
      BY <2>a, <2>b, <2>2, <3>b DEF EmptySlot, FileOnLeaf
    <3>19. InnerOnLeaf'
      BY <2>a, <2>b, <2>2, <3>b DEF EmptySlot, InnerOnLeaf
    <3>20. UnusedNoInner'
      BY <2>a, <2>b, <2>2, <3>b DEF EmptySlot, UnusedNoInner
    <3> QED
      BY <3>1, <3>2, <3>3, <3>4, <3>5, <3>6, <3>7, <3>8, <3>9, <3>10, <3>11, <3>12, <3>13, <3>14, <3>15, <3>16, <3>17, <3>18, <3>19, <3>20
  <2> QED
    BY <1>4, <2>1, <2>2 DEF TLSNew
<1>5. ASSUME NEW s \in Slot, NEW t \in Slot, MoveSlot(s, t)
      PROVE Inv'
  <2>1. OwnedSlotLive'
    BY <1>5 DEF MoveSlot, SlotVal, EmptySlot, OwnedSlotLive
  <2>2. InnerLive'
    BY <1>5 DEF MoveSlot, SlotVal, EmptySlot, InnerLive
  <2>3. ClosingLive'
    BY <1>5 DEF MoveSlot, SlotVal, EmptySlot, ClosingLive
  <2>4. LowerLinked'
    BY <1>5 DEF MoveSlot, SlotVal, EmptySlot, LowerLinked
  <2>5. HigherLinked'
    BY <1>5 DEF MoveSlot, SlotVal, EmptySlot, HigherLinked
  <2>6. SlotTop'
    BY <1>5 DEF MoveSlot, SlotVal, EmptySlot, SlotTop
  <2>7. InnerTop'
    BY <1>5 DEF MoveSlot, SlotVal, EmptySlot, InnerTop
  <2>8. ClosingTop'
    BY <1>5 DEF MoveSlot, SlotVal, EmptySlot, ClosingTop
  <2>9. SlotsDistinct'
    BY <1>5 DEF MoveSlot, SlotVal, EmptySlot, SlotsDistinct
  <2>10. SlotNotInner'
    BY <1>5 DEF MoveSlot, SlotVal, EmptySlot, SlotNotInner
  <2>11. SlotNotClosing'
    BY <1>5 DEF MoveSlot, SlotVal, EmptySlot, SlotNotClosing
  <2>12. InnersDistinct'
    BY <1>5 DEF MoveSlot, SlotVal, EmptySlot, InnersDistinct
  <2>13. InnerNotClosing'
    BY <1>5 DEF MoveSlot, SlotVal, EmptySlot, InnerNotClosing
  <2>14. LeafNoLower'
    BY <1>5 DEF MoveSlot, SlotVal, EmptySlot, LeafNoLower
  <2>15. SslShape'
    BY <1>5 DEF MoveSlot, SlotVal, EmptySlot, SslShape
  <2>16. RustSecret'
    BY <1>5 DEF MoveSlot, SlotVal, EmptySlot, RustSecret
  <2>17. TlsOnSsl'
    BY <1>5 DEF MoveSlot, SlotVal, EmptySlot, TlsOnSsl
  <2>18. FileOnLeaf'
    BY <1>5 DEF MoveSlot, SlotVal, EmptySlot, FileOnLeaf
  <2>19. InnerOnLeaf'
    BY <1>5 DEF MoveSlot, SlotVal, EmptySlot, InnerOnLeaf
  <2>20. UnusedNoInner'
    BY <1>5 DEF MoveSlot, SlotVal, EmptySlot, UnusedNoInner
  <2> QED
    BY <2>1, <2>2, <2>3, <2>4, <2>5, <2>6, <2>7, <2>8, <2>9, <2>10, <2>11, <2>12, <2>13, <2>14, <2>15, <2>16, <2>17, <2>18, <2>19, <2>20
<1>6. ASSUME NEW s \in Slot, NEW t \in Slot, Cleartext(s, t)
      PROVE Inv'
  <2>1. OwnedSlotLive'
    BY <1>6 DEF Cleartext, SlotVal, OwnedSlotLive
  <2>2. InnerLive'
    BY <1>6 DEF Cleartext, SlotVal, InnerLive
  <2>3. ClosingLive'
    BY <1>6 DEF Cleartext, SlotVal, ClosingLive
  <2>4. LowerLinked'
    BY <1>6 DEF Cleartext, SlotVal, LowerLinked
  <2>5. HigherLinked'
    BY <1>6 DEF Cleartext, SlotVal, HigherLinked
  <2>6. SlotTop'
    BY <1>6 DEF Cleartext, SlotVal, SlotTop
  <2>7. InnerTop'
    BY <1>6 DEF Cleartext, SlotVal, InnerTop
  <2>8. ClosingTop'
    BY <1>6 DEF Cleartext, SlotVal, ClosingTop
  <2>9. SlotsDistinct'
    BY <1>6 DEF Cleartext, SlotVal, SlotsDistinct
  <2>10. SlotNotInner'
    BY <1>6 DEF Cleartext, SlotVal, SlotNotInner
  <2>11. SlotNotClosing'
    BY <1>6 DEF Cleartext, SlotVal, SlotNotClosing
  <2>12. InnersDistinct'
    BY <1>6 DEF Cleartext, SlotVal, InnersDistinct
  <2>13. InnerNotClosing'
    BY <1>6 DEF Cleartext, SlotVal, InnerNotClosing
  <2>14. LeafNoLower'
    BY <1>6 DEF Cleartext, SlotVal, LeafNoLower
  <2>15. SslShape'
    BY <1>6 DEF Cleartext, SlotVal, SslShape
  <2>16. RustSecret'
    BY <1>6 DEF Cleartext, SlotVal, RustSecret
  <2>17. TlsOnSsl'
    BY <1>6 DEF Cleartext, SlotVal, TlsOnSsl
  <2>18. FileOnLeaf'
    BY <1>6 DEF Cleartext, SlotVal, FileOnLeaf
  <2>19. InnerOnLeaf'
    BY <1>6 DEF Cleartext, SlotVal, InnerOnLeaf
  <2>20. UnusedNoInner'
    BY <1>6 DEF Cleartext, SlotVal, UnusedNoInner
  <2> QED
    BY <2>1, <2>2, <2>3, <2>4, <2>5, <2>6, <2>7, <2>8, <2>9, <2>10, <2>11, <2>12, <2>13, <2>14, <2>15, <2>16, <2>17, <2>18, <2>19, <2>20
<1>7. ASSUME NEW s \in Slot, DropSlot(s)
      PROVE Inv'
  <2>a. /\ closing = Null
        /\ slot'[s] = EmptySlot /\ \A u \in Slot \ {s} : slot'[u] = slot[u]
        /\ UNCHANGED <<alloc, mem, inner>>
        /\ closing' = IF Owning(s) THEN slot[s].fd ELSE Null
    BY <1>7 DEF DropSlot, Idle
  <2>b. Owning(s) =>
          /\ slot[s].fd \in Addr /\ mem[slot[s].fd].higher = Null
          /\ \A u \in Slot \ {s} : Owning(u) => slot[u].fd # slot[s].fd
          /\ \A c \in Addr : Live(c) => inner[c] # slot[s].fd
    BY DEF SlotVal, SlotTop, SlotsDistinct, SlotNotInner
  <2>1. OwnedSlotLive'
    BY <1>7 DEF DropSlot, SlotVal, EmptySlot, OwnedSlotLive
  <2>2. InnerLive'
    BY <1>7 DEF DropSlot, SlotVal, EmptySlot, InnerLive
  <2>3. ClosingLive'
    BY <1>7 DEF DropSlot, SlotVal, EmptySlot, ClosingLive, OwnedSlotLive, InnerLive, ClosingLive, LowerLinked, HigherLinked, UnusedNoInner
  <2>4. LowerLinked'
    BY <1>7 DEF DropSlot, SlotVal, EmptySlot, LowerLinked
  <2>5. HigherLinked'
    BY <1>7 DEF DropSlot, SlotVal, EmptySlot, HigherLinked
  <2>6. SlotTop'
    BY <1>7 DEF DropSlot, SlotVal, EmptySlot, SlotTop
  <2>7. InnerTop'
    BY <1>7 DEF DropSlot, SlotVal, EmptySlot, InnerTop
  <2>8. ClosingTop'
    <3>1. CASE Owning(s)
      BY <3>1, <2>a, <2>b DEF EmptySlot, ClosingTop
    <3>2. CASE ~Owning(s)
      BY <3>2, <2>a DEF EmptySlot, ClosingTop
    <3> QED
      BY <3>1, <3>2
  <2>9. SlotsDistinct'
    BY <1>7 DEF DropSlot, SlotVal, EmptySlot, SlotsDistinct
  <2>10. SlotNotInner'
    BY <1>7 DEF DropSlot, SlotVal, EmptySlot, SlotNotInner
  <2>11. SlotNotClosing'
    <3>1. CASE Owning(s)
      BY <3>1, <2>a, <2>b DEF EmptySlot, SlotNotClosing
    <3>2. CASE ~Owning(s)
      BY <3>2, <2>a DEF EmptySlot, SlotNotClosing
    <3> QED
      BY <3>1, <3>2
  <2>12. InnersDistinct'
    BY <1>7 DEF DropSlot, SlotVal, EmptySlot, InnersDistinct
  <2>13. InnerNotClosing'
    <3>1. CASE Owning(s)
      BY <3>1, <2>a, <2>b DEF EmptySlot, InnerNotClosing
    <3>2. CASE ~Owning(s)
      BY <3>2, <2>a DEF EmptySlot, InnerNotClosing
    <3> QED
      BY <3>1, <3>2
  <2>14. LeafNoLower'
    BY <1>7 DEF DropSlot, SlotVal, EmptySlot, LeafNoLower
  <2>15. SslShape'
    BY <1>7 DEF DropSlot, SlotVal, EmptySlot, SslShape
  <2>16. RustSecret'
    BY <1>7 DEF DropSlot, SlotVal, EmptySlot, RustSecret
  <2>17. TlsOnSsl'
    BY <1>7 DEF DropSlot, SlotVal, EmptySlot, TlsOnSsl
  <2>18. FileOnLeaf'
    BY <1>7 DEF DropSlot, SlotVal, EmptySlot, FileOnLeaf
  <2>19. InnerOnLeaf'
    BY <1>7 DEF DropSlot, SlotVal, EmptySlot, InnerOnLeaf
  <2>20. UnusedNoInner'
    BY <1>7 DEF DropSlot, SlotVal, EmptySlot, UnusedNoInner
  <2> QED
    BY <2>1, <2>2, <2>3, <2>4, <2>5, <2>6, <2>7, <2>8, <2>9, <2>10, <2>11, <2>12, <2>13, <2>14, <2>15, <2>16, <2>17, <2>18, <2>19, <2>20
<1>8. ASSUME NEW s \in Slot, UseAuthHook(s) \/ UnsetAuthHook(s)
      PROVE Inv'
  <2>a. /\ slot[s].fd \in Addr
        /\ UNCHANGED <<alloc, inner, slot, closing, io>>
        /\ \A z \in Addr : /\ mem'[z].kind = mem[z].kind
                           /\ mem'[z].lower = mem[z].lower
                           /\ mem'[z].higher = mem[z].higher
                           /\ mem'[z].secret = mem[z].secret
    BY <1>8 DEF UseAuthHook, UnsetAuthHook, SlotVal
  <2>1. OwnedSlotLive'
    BY <1>8 DEF UseAuthHook, UnsetAuthHook, SlotVal, OwnedSlotLive
  <2>2. InnerLive'
    BY <1>8 DEF UseAuthHook, UnsetAuthHook, SlotVal, InnerLive
  <2>3. ClosingLive'
    BY <1>8 DEF UseAuthHook, UnsetAuthHook, SlotVal, ClosingLive
  <2>4. LowerLinked'
    BY <2>a DEF LowerLinked
  <2>5. HigherLinked'
    BY <2>a DEF HigherLinked
  <2>6. SlotTop'
    <3> SUFFICES ASSUME NEW u \in Slot, Owning(u)'
                 PROVE  mem'[slot'[u].fd].higher = Null
      BY DEF SlotTop
    <3>1. slot[u].fd \in Addr /\ Owning(u)
      BY <2>a DEF SlotVal
    <3> QED
      BY <3>1, <2>a DEF SlotTop
  <2>7. InnerTop'
    BY <2>a DEF InnerTop
  <2>8. ClosingTop'
    BY <2>a DEF ClosingTop
  <2>9. SlotsDistinct'
    BY <1>8 DEF UseAuthHook, UnsetAuthHook, SlotVal, SlotsDistinct
  <2>10. SlotNotInner'
    BY <1>8 DEF UseAuthHook, UnsetAuthHook, SlotVal, SlotNotInner
  <2>11. SlotNotClosing'
    BY <1>8 DEF UseAuthHook, UnsetAuthHook, SlotVal, SlotNotClosing
  <2>12. InnersDistinct'
    BY <1>8 DEF UseAuthHook, UnsetAuthHook, SlotVal, InnersDistinct
  <2>13. InnerNotClosing'
    BY <1>8 DEF UseAuthHook, UnsetAuthHook, SlotVal, InnerNotClosing
  <2>14. LeafNoLower'
    BY <2>a DEF LeafNoLower
  <2>15. SslShape'
    BY <2>a DEF SslShape
  <2>16. RustSecret'
    BY <2>a DEF RustSecret
  <2>17. TlsOnSsl'
    <3> SUFFICES ASSUME NEW u \in Slot, slot'[u].kind = "TLS"
                 PROVE  mem'[slot'[u].fd].kind = "SSL"
      BY DEF TlsOnSsl
    <3>1. slot[u].fd \in Addr /\ slot[u].kind = "TLS"
      BY <2>a DEF SlotVal
    <3> QED
      BY <3>1, <2>a DEF TlsOnSsl
  <2>18. FileOnLeaf'
    <3> SUFFICES ASSUME NEW u \in Slot, slot'[u].kind = "File"
                 PROVE  mem'[slot'[u].fd].kind \in {"Rust", "Native"}
      BY DEF FileOnLeaf
    <3>1. slot[u].fd \in Addr /\ slot[u].kind = "File"
      BY <2>a DEF SlotVal
    <3> QED
      BY <3>1, <2>a DEF FileOnLeaf
  <2>19. InnerOnLeaf'
    BY <2>a DEF InnerOnLeaf
  <2>20. UnusedNoInner'
    BY <1>8 DEF UseAuthHook, UnsetAuthHook, SlotVal, UnusedNoInner
  <2> QED
    BY <2>1, <2>2, <2>3, <2>4, <2>5, <2>6, <2>7, <2>8, <2>9, <2>10, <2>11, <2>12, <2>13, <2>14, <2>15, <2>16, <2>17, <2>18, <2>19, <2>20
<1>9. ASSUME NEW s \in Slot, StartIO(s)
      PROVE Inv'
  <2>1. OwnedSlotLive'
    BY <1>9 DEF StartIO, OwnedSlotLive
  <2>2. InnerLive'
    BY <1>9 DEF StartIO, InnerLive
  <2>3. ClosingLive'
    BY <1>9 DEF StartIO, ClosingLive
  <2>4. LowerLinked'
    BY <1>9 DEF StartIO, LowerLinked
  <2>5. HigherLinked'
    BY <1>9 DEF StartIO, HigherLinked
  <2>6. SlotTop'
    BY <1>9 DEF StartIO, SlotTop
  <2>7. InnerTop'
    BY <1>9 DEF StartIO, InnerTop
  <2>8. ClosingTop'
    BY <1>9 DEF StartIO, ClosingTop
  <2>9. SlotsDistinct'
    BY <1>9 DEF StartIO, SlotsDistinct
  <2>10. SlotNotInner'
    BY <1>9 DEF StartIO, SlotNotInner
  <2>11. SlotNotClosing'
    BY <1>9 DEF StartIO, SlotNotClosing
  <2>12. InnersDistinct'
    BY <1>9 DEF StartIO, InnersDistinct
  <2>13. InnerNotClosing'
    BY <1>9 DEF StartIO, InnerNotClosing
  <2>14. LeafNoLower'
    BY <1>9 DEF StartIO, LeafNoLower
  <2>15. SslShape'
    BY <1>9 DEF StartIO, SslShape
  <2>16. RustSecret'
    BY <1>9 DEF StartIO, RustSecret
  <2>17. TlsOnSsl'
    BY <1>9 DEF StartIO, TlsOnSsl
  <2>18. FileOnLeaf'
    BY <1>9 DEF StartIO, FileOnLeaf
  <2>19. InnerOnLeaf'
    BY <1>9 DEF StartIO, InnerOnLeaf
  <2>20. UnusedNoInner'
    BY <1>9 DEF StartIO, UnusedNoInner
  <2> QED
    BY <2>1, <2>2, <2>3, <2>4, <2>5, <2>6, <2>7, <2>8, <2>9, <2>10, <2>11, <2>12, <2>13, <2>14, <2>15, <2>16, <2>17, <2>18, <2>19, <2>20
<1>10. CASE Dispatch
  <2>1. OwnedSlotLive'
    BY <1>10 DEF Dispatch, SslIO, AuthCertificateHook, RustIO, NativeIO, OwnedSlotLive
  <2>2. InnerLive'
    BY <1>10 DEF Dispatch, SslIO, AuthCertificateHook, RustIO, NativeIO, InnerLive
  <2>3. ClosingLive'
    BY <1>10 DEF Dispatch, SslIO, AuthCertificateHook, RustIO, NativeIO, ClosingLive
  <2>4. LowerLinked'
    BY <1>10 DEF Dispatch, SslIO, AuthCertificateHook, RustIO, NativeIO, LowerLinked
  <2>5. HigherLinked'
    BY <1>10 DEF Dispatch, SslIO, AuthCertificateHook, RustIO, NativeIO, HigherLinked
  <2>6. SlotTop'
    BY <1>10 DEF Dispatch, SslIO, AuthCertificateHook, RustIO, NativeIO, SlotTop
  <2>7. InnerTop'
    BY <1>10 DEF Dispatch, SslIO, AuthCertificateHook, RustIO, NativeIO, InnerTop
  <2>8. ClosingTop'
    BY <1>10 DEF Dispatch, SslIO, AuthCertificateHook, RustIO, NativeIO, ClosingTop
  <2>9. SlotsDistinct'
    BY <1>10 DEF Dispatch, SslIO, AuthCertificateHook, RustIO, NativeIO, SlotsDistinct
  <2>10. SlotNotInner'
    BY <1>10 DEF Dispatch, SslIO, AuthCertificateHook, RustIO, NativeIO, SlotNotInner
  <2>11. SlotNotClosing'
    BY <1>10 DEF Dispatch, SslIO, AuthCertificateHook, RustIO, NativeIO, SlotNotClosing
  <2>12. InnersDistinct'
    BY <1>10 DEF Dispatch, SslIO, AuthCertificateHook, RustIO, NativeIO, InnersDistinct
  <2>13. InnerNotClosing'
    BY <1>10 DEF Dispatch, SslIO, AuthCertificateHook, RustIO, NativeIO, InnerNotClosing
  <2>14. LeafNoLower'
    BY <1>10 DEF Dispatch, SslIO, AuthCertificateHook, RustIO, NativeIO, LeafNoLower
  <2>15. SslShape'
    BY <1>10 DEF Dispatch, SslIO, AuthCertificateHook, RustIO, NativeIO, SslShape
  <2>16. RustSecret'
    BY <1>10 DEF Dispatch, SslIO, AuthCertificateHook, RustIO, NativeIO, RustSecret
  <2>17. TlsOnSsl'
    BY <1>10 DEF Dispatch, SslIO, AuthCertificateHook, RustIO, NativeIO, TlsOnSsl
  <2>18. FileOnLeaf'
    BY <1>10 DEF Dispatch, SslIO, AuthCertificateHook, RustIO, NativeIO, FileOnLeaf
  <2>19. InnerOnLeaf'
    BY <1>10 DEF Dispatch, SslIO, AuthCertificateHook, RustIO, NativeIO, InnerOnLeaf
  <2>20. UnusedNoInner'
    BY <1>10 DEF Dispatch, SslIO, AuthCertificateHook, RustIO, NativeIO, UnusedNoInner
  <2> QED
    BY <2>1, <2>2, <2>3, <2>4, <2>5, <2>6, <2>7, <2>8, <2>9, <2>10, <2>11, <2>12, <2>13, <2>14, <2>15, <2>16, <2>17, <2>18, <2>19, <2>20
<1>11. CASE SslClose
  <2> DEFINE a == closing
             l == mem[closing].lower
  <2>a. /\ a \in Addr /\ Live(a) /\ mem[a].kind = "SSL" /\ mem[a].higher = Null
        /\ l \in Addr /\ Live(l) /\ mem[l].higher = a /\ mem[l].lower = Null
        /\ mem[l].kind \in {"Rust", "Native"}
        /\ mem[l].kind = "Rust" => mem[l].secret = a
    BY <1>11 DEF SslClose, SslShape, LowerLinked, LeafNoLower, RustSecret,
                 ClosingTop
  <2>a2. a # l
    BY <2>a
  <2>m1. mem'[a] = [mem[l] EXCEPT !.higher = Null]
    BY <1>11 DEF SslClose, PopTop
  <2>m2. mem'[l] = mem[a]
    BY <1>11, <2>a2 DEF SslClose, PopTop
  <2>m3. \A z \in Addr \ {a, l} : mem'[z] = mem[z]
    BY <1>11, <2>a DEF SslClose, PopTop
  <2>b. /\ alloc'[l] = "freed" /\ \A z \in Addr \ {l} : alloc'[z] = alloc[z]
        /\ UNCHANGED <<inner, slot, closing, io>>
    BY <1>11, <2>a DEF SslClose
  <2>c. \A y \in Addr : Live(y) =>
          /\ mem[y].lower # a
          /\ mem[y].lower = l => y = a
          /\ mem[y].higher = a => y = l
          /\ mem[y].higher # l
    BY <2>a DEF LowerLinked, HigherLinked
  <2>d. /\ \A u \in Slot : Owning(u) => slot[u].fd \notin {a, l}
        /\ \A b \in Addr : Live(b) => inner[b] \notin {a, l}
    BY <2>a, <2>a2 DEF SlotNotClosing, SlotTop, InnerNotClosing, InnerTop
  <2>1. OwnedSlotLive'
    <3> SUFFICES ASSUME NEW u \in Slot, Owning(u)'
                 PROVE  Live(slot[u].fd)'
      BY DEF OwnedSlotLive
    <3>1. slot'[u] = slot[u] /\ Owning(u) /\ slot[u].fd \in Addr \ {a, l}
      BY <2>b, <2>d DEF SlotVal
    <3> QED
      BY <3>1, <2>a, <2>a2, <2>m1, <2>m2, <2>m3, <2>b, <2>c, <2>d DEF OwnedSlotLive
  <2>2. InnerLive'
    BY <2>a, <2>a2, <2>m1, <2>m2, <2>m3, <2>b, <2>c, <2>d DEF InnerLive
  <2>3. ClosingLive'
    BY <2>a, <2>a2, <2>m1, <2>m2, <2>m3, <2>b, <2>c, <2>d DEF ClosingLive
  <2>4. LowerLinked'
    BY <2>a, <2>a2, <2>m1, <2>m2, <2>m3, <2>b, <2>c, <2>d DEF LowerLinked
  <2>5. HigherLinked'
    BY <2>a, <2>a2, <2>m1, <2>m2, <2>m3, <2>b, <2>c, <2>d DEF HigherLinked
  <2>6. SlotTop'
    <3> SUFFICES ASSUME NEW u \in Slot, Owning(u)'
                 PROVE  mem'[slot'[u].fd].higher = Null
      BY DEF SlotTop
    <3>1. slot'[u] = slot[u] /\ Owning(u) /\ slot[u].fd \in Addr \ {a, l}
      BY <2>b, <2>d DEF SlotVal
    <3> QED
      BY <3>1, <2>a, <2>a2, <2>m1, <2>m2, <2>m3, <2>b, <2>c, <2>d DEF SlotTop
  <2>7. InnerTop'
    BY <2>a, <2>a2, <2>m1, <2>m2, <2>m3, <2>b, <2>c, <2>d DEF InnerTop
  <2>8. ClosingTop'
    BY <2>a, <2>a2, <2>m1, <2>m2, <2>m3, <2>b, <2>c, <2>d DEF ClosingTop
  <2>9. SlotsDistinct'
    BY <2>a, <2>a2, <2>m1, <2>m2, <2>m3, <2>b, <2>c, <2>d DEF SlotsDistinct
  <2>10. SlotNotInner'
    BY <2>a, <2>a2, <2>m1, <2>m2, <2>m3, <2>b, <2>c, <2>d DEF SlotNotInner
  <2>11. SlotNotClosing'
    BY <2>a, <2>a2, <2>m1, <2>m2, <2>m3, <2>b, <2>c, <2>d DEF SlotNotClosing
  <2>12. InnersDistinct'
    BY <2>a, <2>a2, <2>m1, <2>m2, <2>m3, <2>b, <2>c, <2>d DEF InnersDistinct
  <2>13. InnerNotClosing'
    BY <2>a, <2>a2, <2>m1, <2>m2, <2>m3, <2>b, <2>c, <2>d DEF InnerNotClosing
  <2>14. LeafNoLower'
    BY <2>a, <2>a2, <2>m1, <2>m2, <2>m3, <2>b, <2>c, <2>d DEF LeafNoLower
  <2>15. SslShape'
    BY <2>a, <2>a2, <2>m1, <2>m2, <2>m3, <2>b, <2>c, <2>d DEF SslShape
  <2>16. RustSecret'
    BY <2>a, <2>a2, <2>m1, <2>m2, <2>m3, <2>b, <2>c, <2>d DEF RustSecret
  <2>17. TlsOnSsl'
    <3> SUFFICES ASSUME NEW u \in Slot, slot'[u].kind = "TLS"
                 PROVE  mem'[slot'[u].fd].kind = "SSL"
      BY DEF TlsOnSsl
    <3>1. slot'[u] = slot[u] /\ Owning(u) /\ slot[u].fd \in Addr \ {a, l}
      BY <2>b, <2>d DEF SlotVal
    <3> QED
      BY <3>1, <2>a, <2>a2, <2>m1, <2>m2, <2>m3, <2>b, <2>c, <2>d DEF TlsOnSsl
  <2>18. FileOnLeaf'
    <3> SUFFICES ASSUME NEW u \in Slot, slot'[u].kind = "File"
                 PROVE  mem'[slot'[u].fd].kind \in {"Rust", "Native"}
      BY DEF FileOnLeaf
    <3>1. slot'[u] = slot[u] /\ Owning(u) /\ slot[u].fd \in Addr \ {a, l}
      BY <2>b, <2>d DEF SlotVal
    <3> QED
      BY <3>1, <2>a, <2>a2, <2>m1, <2>m2, <2>m3, <2>b, <2>c, <2>d DEF FileOnLeaf
  <2>19. InnerOnLeaf'
    BY <2>a, <2>a2, <2>m1, <2>m2, <2>m3, <2>b, <2>c, <2>d DEF InnerOnLeaf
  <2>20. UnusedNoInner'
    BY <2>a, <2>a2, <2>m1, <2>m2, <2>m3, <2>b, <2>c, <2>d DEF UnusedNoInner
  <2> QED
    BY <2>1, <2>2, <2>3, <2>4, <2>5, <2>6, <2>7, <2>8, <2>9, <2>10, <2>11, <2>12, <2>13, <2>14, <2>15, <2>16, <2>17, <2>18, <2>19, <2>20
<1>12. CASE RustClose
  <2> DEFINE a == closing
             i == inner[closing]
  <2>a. /\ a \in Addr /\ Live(a) /\ mem[a].kind = "Rust"
        /\ mem[a].higher = Null /\ mem[a].lower = Null
        /\ alloc'[a] = "freed" /\ \A z \in Addr \ {a} : alloc'[z] = alloc[z]
        /\ closing' = i /\ UNCHANGED <<mem, inner, slot, io>>
    BY <1>12 DEF RustClose, ClosingTop, LeafNoLower
  <2>b. /\ \A u \in Slot : Owning(u) => slot[u].fd # a
        /\ \A b \in Addr : Live(b) => inner[b] # a
        /\ \A y \in Addr : Live(y) => mem[y].lower # a /\ mem[y].higher # a
    BY <2>a DEF SlotNotClosing, InnerNotClosing, LowerLinked, HigherLinked
  <2>c. i # Null =>
          /\ i \in Addr /\ Live(i) /\ i # a /\ mem[i].higher = Null
          /\ \A u \in Slot : Owning(u) => slot[u].fd # i
          /\ \A b \in Addr \ {a} : Live(b) => inner[b] # i
    BY <2>a DEF InnerLive, InnerTop, InnerNotClosing, SlotNotInner,
                InnersDistinct
  <2>1. OwnedSlotLive'
    <3> SUFFICES ASSUME NEW u \in Slot, Owning(u)' PROVE Live(slot[u].fd)'
      BY DEF OwnedSlotLive
    <3>1. slot'[u] = slot[u] /\ Owning(u) /\ slot[u].fd \in Addr \ {a}
      BY <2>a, <2>b DEF SlotVal
    <3> QED
      BY <3>1, <2>a DEF OwnedSlotLive
  <2>2. InnerLive'
    BY <2>a, <2>b, <2>c DEF InnerLive
  <2>3. ClosingLive'
    BY <2>a, <2>b, <2>c DEF ClosingLive
  <2>4. LowerLinked'
    BY <2>a, <2>b, <2>c DEF LowerLinked
  <2>5. HigherLinked'
    BY <2>a, <2>b, <2>c DEF HigherLinked
  <2>6. SlotTop'
    BY <1>12 DEF RustClose, SlotTop
  <2>7. InnerTop'
    BY <1>12 DEF RustClose, InnerTop
  <2>8. ClosingTop'
    BY <2>a, <2>b, <2>c DEF ClosingTop
  <2>9. SlotsDistinct'
    BY <1>12 DEF RustClose, SlotsDistinct
  <2>10. SlotNotInner'
    BY <1>12 DEF RustClose, SlotNotInner
  <2>11. SlotNotClosing'
    <3> SUFFICES ASSUME NEW u \in Slot, Owning(u)' PROVE closing' # slot'[u].fd
      BY DEF SlotNotClosing
    <3>1. slot'[u] = slot[u] /\ Owning(u) /\ slot[u].fd \in Addr
      BY <2>a DEF SlotVal
    <3>2. CASE i = Null
      BY <3>1, <3>2, <2>a
    <3>3. CASE i # Null
      BY <3>1, <3>3, <2>a, <2>c
    <3> QED
      BY <3>2, <3>3
  <2>12. InnersDistinct'
    BY <1>12 DEF RustClose, InnersDistinct
  <2>13. InnerNotClosing'
    BY <2>a, <2>b, <2>c DEF InnerNotClosing
  <2>14. LeafNoLower'
    BY <1>12 DEF RustClose, LeafNoLower
  <2>15. SslShape'
    BY <1>12 DEF RustClose, SslShape
  <2>16. RustSecret'
    BY <1>12 DEF RustClose, RustSecret
  <2>17. TlsOnSsl'
    BY <1>12 DEF RustClose, TlsOnSsl
  <2>18. FileOnLeaf'
    BY <1>12 DEF RustClose, FileOnLeaf
  <2>19. InnerOnLeaf'
    BY <1>12 DEF RustClose, InnerOnLeaf
  <2>20. UnusedNoInner'
    BY <1>12 DEF RustClose, UnusedNoInner
  <2> QED
    BY <2>1, <2>2, <2>3, <2>4, <2>5, <2>6, <2>7, <2>8, <2>9, <2>10, <2>11, <2>12, <2>13, <2>14, <2>15, <2>16, <2>17, <2>18, <2>19, <2>20
<1>13. CASE NativeClose
  <2> DEFINE a == closing
  <2>a. /\ a \in Addr /\ Live(a) /\ mem[a].kind = "Native"
        /\ mem[a].higher = Null /\ mem[a].lower = Null
        /\ alloc'[a] = "freed" /\ \A z \in Addr \ {a} : alloc'[z] = alloc[z]
        /\ closing' = Null /\ UNCHANGED <<mem, inner, slot, io>>
    BY <1>13 DEF NativeClose, ClosingTop, LeafNoLower
  <2>b. /\ \A u \in Slot : Owning(u) => slot[u].fd # a
        /\ \A b \in Addr : Live(b) => inner[b] # a
        /\ \A y \in Addr : Live(y) => mem[y].lower # a /\ mem[y].higher # a
    BY <2>a DEF SlotNotClosing, InnerNotClosing, LowerLinked, HigherLinked
  <2>1. OwnedSlotLive'
    <3> SUFFICES ASSUME NEW u \in Slot, Owning(u)' PROVE Live(slot[u].fd)'
      BY DEF OwnedSlotLive
    <3>1. slot'[u] = slot[u] /\ Owning(u) /\ slot[u].fd \in Addr \ {a}
      BY <2>a, <2>b DEF SlotVal
    <3> QED
      BY <3>1, <2>a DEF OwnedSlotLive
  <2>2. InnerLive'
    BY <2>a, <2>b DEF InnerLive
  <2>3. ClosingLive'
    BY <1>13 DEF NativeClose, ClosingLive
  <2>4. LowerLinked'
    BY <2>a, <2>b DEF LowerLinked
  <2>5. HigherLinked'
    BY <2>a, <2>b DEF HigherLinked
  <2>6. SlotTop'
    BY <1>13 DEF NativeClose, SlotTop
  <2>7. InnerTop'
    BY <1>13 DEF NativeClose, InnerTop
  <2>8. ClosingTop'
    BY <1>13 DEF NativeClose, ClosingTop
  <2>9. SlotsDistinct'
    BY <1>13 DEF NativeClose, SlotsDistinct
  <2>10. SlotNotInner'
    BY <1>13 DEF NativeClose, SlotNotInner
  <2>11. SlotNotClosing'
    <3> SUFFICES ASSUME NEW u \in Slot, Owning(u)' PROVE closing' # slot'[u].fd
      BY DEF SlotNotClosing
    <3>1. slot'[u] = slot[u] /\ slot[u].fd \in Addr
      BY <2>a DEF SlotVal
    <3> QED
      BY <3>1, <2>a
  <2>12. InnersDistinct'
    BY <1>13 DEF NativeClose, InnersDistinct
  <2>13. InnerNotClosing'
    BY <1>13 DEF NativeClose, InnerNotClosing
  <2>14. LeafNoLower'
    BY <1>13 DEF NativeClose, LeafNoLower
  <2>15. SslShape'
    BY <1>13 DEF NativeClose, SslShape
  <2>16. RustSecret'
    BY <1>13 DEF NativeClose, RustSecret
  <2>17. TlsOnSsl'
    BY <1>13 DEF NativeClose, TlsOnSsl
  <2>18. FileOnLeaf'
    BY <1>13 DEF NativeClose, FileOnLeaf
  <2>19. InnerOnLeaf'
    BY <1>13 DEF NativeClose, InnerOnLeaf
  <2>20. UnusedNoInner'
    BY <1>13 DEF NativeClose, UnusedNoInner
  <2> QED
    BY <2>1, <2>2, <2>3, <2>4, <2>5, <2>6, <2>7, <2>8, <2>9, <2>10, <2>11, <2>12, <2>13, <2>14, <2>15, <2>16, <2>17, <2>18, <2>19, <2>20
<1>14. CASE UNCHANGED vars
  <2>1. OwnedSlotLive'
    BY <1>14 DEF vars, OwnedSlotLive
  <2>2. InnerLive'
    BY <1>14 DEF vars, InnerLive
  <2>3. ClosingLive'
    BY <1>14 DEF vars, ClosingLive
  <2>4. LowerLinked'
    BY <1>14 DEF vars, LowerLinked
  <2>5. HigherLinked'
    BY <1>14 DEF vars, HigherLinked
  <2>6. SlotTop'
    BY <1>14 DEF vars, SlotTop
  <2>7. InnerTop'
    BY <1>14 DEF vars, InnerTop
  <2>8. ClosingTop'
    BY <1>14 DEF vars, ClosingTop
  <2>9. SlotsDistinct'
    BY <1>14 DEF vars, SlotsDistinct
  <2>10. SlotNotInner'
    BY <1>14 DEF vars, SlotNotInner
  <2>11. SlotNotClosing'
    BY <1>14 DEF vars, SlotNotClosing
  <2>12. InnersDistinct'
    BY <1>14 DEF vars, InnersDistinct
  <2>13. InnerNotClosing'
    BY <1>14 DEF vars, InnerNotClosing
  <2>14. LeafNoLower'
    BY <1>14 DEF vars, LeafNoLower
  <2>15. SslShape'
    BY <1>14 DEF vars, SslShape
  <2>16. RustSecret'
    BY <1>14 DEF vars, RustSecret
  <2>17. TlsOnSsl'
    BY <1>14 DEF vars, TlsOnSsl
  <2>18. FileOnLeaf'
    BY <1>14 DEF vars, FileOnLeaf
  <2>19. InnerOnLeaf'
    BY <1>14 DEF vars, InnerOnLeaf
  <2>20. UnusedNoInner'
    BY <1>14 DEF vars, UnusedNoInner
  <2> QED
    BY <2>1, <2>2, <2>3, <2>4, <2>5, <2>6, <2>7, <2>8, <2>9, <2>10, <2>11, <2>12, <2>13, <2>14, <2>15, <2>16, <2>17, <2>18, <2>19, <2>20
<1> QED
  BY <1>1, <1>2, <1>3, <1>4, <1>5, <1>6, <1>7, <1>8, <1>9, <1>10, <1>11,
     <1>12, <1>13, <1>14 DEF Next, Client, CloseStep

(* The close callback's assertion that a Rust header is back inside its    *)
(* own box when PR_Close reaches it (wrapper_methods::close, fd.rs:375)    *)
(* holds in every behaviour, for any number of descriptors and variables:  *)
(* the SSL layer's in-place push and pop always leave a Rust header whose  *)
(* secret differs from its address below the SSL layer, and PR_Close only  *)
(* ever reaches the top of a stack.                                        *)
THEOREM CloseAtHomeHolds == Spec => []CloseAtHome
<1>1. Init => TypeInv /\ Inv
  <2> SUFFICES ASSUME Init PROVE TypeInv /\ Inv
    OBVIOUS
  <2>1. TypeInv
    BY TypeCorrect DEF Init, TypeInv, TypeOK, HeadersLinked, Header, NoHeader,
                       SlotVal, EmptySlot, AddrOrNull, Kind
  <2>2. Inv
    BY NullAssumption
    DEF Init, NoHeader, EmptySlot, Live, Owning, Inv, OwnedSlotLive,
        InnerLive, ClosingLive, LowerLinked, HigherLinked, SlotTop, InnerTop,
        ClosingTop, SlotsDistinct, SlotNotInner, SlotNotClosing,
        InnersDistinct, InnerNotClosing, LeafNoLower, SslShape, RustSecret,
        TlsOnSsl, FileOnLeaf, InnerOnLeaf, UnusedNoInner
  <2> QED
    BY <2>1, <2>2
<1>2. TypeInv /\ Inv => CloseAtHome
  BY DEF TypeInv, TypeOK, AddrOrNull, Inv, RustSecret, ClosingTop, CloseAtHome,
         Live
<1>3. TypeInv /\ Inv /\ [Next]_vars => (TypeInv /\ Inv)'
  BY TypeInvInductive, HomeInvInductive
<1> QED
  BY <1>1, <1>2, <1>3, PTL DEF Spec
=============================================================================
