--------------------------- MODULE FocusKeys_proofs ---------------------------
(***************************************************************************)
(* Proofs about where FocusRoute sends the keys, for every set of windows  *)
(* and panes, every kind a window may have and every scenario.             *)
(*                                                                         *)
(* The first property relates the keyboard to the reported focus: its      *)
(* invariant says, step by step, what a handler that is under way has      *)
(* still to do.  The second is about the window that was clicked: that the *)
(* agenda leads to it and to no other.                                     *)
(***************************************************************************)
EXTENDS FocusRoute_proofs

-----------------------------------------------------------------------------
(* What a handler has still to do, as a list: the first of it is done next *)

IsList(q) == q \in Seq(Range(q))

LEMMA ListOf ==
  ASSUME NEW T, NEW q \in Seq(T)
  PROVE  IsList(q)
<1>1. DOMAIN q = 1 .. Len(q) /\ Len(q) \in Nat /\ \A i \in 1 .. Len(q) : q[i] \in Range(q)
  BY DEF Range
<1>2. q \in [1 .. Len(q) -> Range(q)] BY <1>1
<1> QED BY <1>1, <1>2 DEF IsList

LEMMA EmptyList == IsList(<<>>) /\ Range(<<>>) = {}
<1>1. Range(<<>>) = {} BY DEF Range
<1> QED BY <1>1 DEF IsList

LEMMA ConsList ==
  ASSUME NEW q, IsList(q), NEW e
  PROVE  /\ IsList(Cons(e, q)) /\ Range(Cons(e, q)) = {e} \cup Range(q)
         /\ Cons(e, q) # <<>> /\ Head(Cons(e, q)) = e /\ Tail(Cons(e, q)) = q
<1> DEFINE T == {e} \cup Range(q)
           r == <<e>> \o q
<1>1. <<e>> \in Seq(T) /\ q \in Seq(T) BY DEF IsList
<1>2. Range(<<e>>) = {e}
  <2>1. DOMAIN <<e>> = {1} /\ <<e>>[1] = e OBVIOUS
  <2> QED BY <2>1 DEF Range
<1>3. r \in Seq(T) /\ Range(r) = {e} \cup Range(q)
  <2> HIDE DEF T
  <2>1. r \in Seq(T) /\ Range(r) = Range(<<e>>) \cup Range(q) BY <1>1, ConcatElements
  <2> QED BY <1>2, <2>1
<1>4. /\ Len(r) = Len(q) + 1 /\ Len(q) \in Nat /\ r[1] = e /\ DOMAIN q = 1 .. Len(q)
      /\ \A i \in 1 .. Len(q) : r[i + 1] = q[i]
  BY <1>1
<1> HIDE DEF r
<1>5. r # <<>> /\ Head(r) = e BY <1>3, <1>4
<1>6. Tail(r) = q
  <2>1. /\ Tail(r) \in Seq(T) /\ Len(Tail(r)) = Len(q)
        /\ \A i \in 1 .. Len(q) : Tail(r)[i] = r[i + 1]
    BY <1>3, <1>4, <1>5
  <2>2. \A i \in 1 .. Len(q) : Tail(r)[i] = q[i] BY <1>4, <2>1
  <2> HIDE DEF T
  <2> QED BY <1>1, <2>1, <2>2
<1> QED BY <1>3, <1>5, <1>6, ListOf DEF Cons, r

LEMMA ConsLast ==
  ASSUME NEW q, IsList(q), NEW e
  PROVE  Last(Cons(e, q)) = IF q = <<>> THEN e ELSE Last(q)
<1> DEFINE r == <<e>> \o q
           T == {e} \cup Range(q)
<1>1. <<e>> \in Seq(T) /\ q \in Seq(T) BY DEF IsList
<1>2. /\ Len(r) = Len(q) + 1 /\ Len(q) \in Nat /\ r[1] = e /\ DOMAIN q = 1 .. Len(q)
      /\ \A i \in 1 .. Len(q) : r[i + 1] = q[i]
  BY <1>1
<1>3. Last(r) = r[Len(r)] /\ Last(q) = q[Len(q)] BY DEF Last
<1>4. q = <<>> <=> Len(q) = 0 BY <1>1
<1> HIDE DEF r, T
<1>5. ASSUME q = <<>> PROVE Last(r) = e
  <2>1. Len(r) = 1 BY <1>2, <1>4, <1>5
  <2> QED BY <1>2, <1>3, <2>1
<1>6. ASSUME q # <<>> PROVE Last(r) = Last(q)
  <2>1. Len(q) \in 1 .. Len(q) BY <1>2, <1>4, <1>6
  <2>2. r[Len(q) + 1] = q[Len(q)] BY <1>2, <2>1
  <2> QED BY <1>2, <1>3, <2>2
<1>7. Last(r) = IF q = <<>> THEN e ELSE Last(q) BY <1>5, <1>6
<1> QED BY <1>7 DEF Cons, r

LEMMA TailList ==
  ASSUME NEW q, IsList(q), q # <<>>
  PROVE  /\ IsList(Tail(q)) /\ q = Cons(Head(q), Tail(q))
         /\ Head(q) \in Range(q) /\ Range(Tail(q)) \subseteq Range(q)
         /\ Range(q) = {Head(q)} \cup Range(Tail(q))
         /\ Last(q) = IF Tail(q) = <<>> THEN Head(q) ELSE Last(Tail(q))
<1> DEFINE T == Range(q)
           r == Cons(Head(q), Tail(q))
<1>1. q \in Seq(T) /\ Len(q) \in Nat \ {0} /\ DOMAIN q = 1 .. Len(q) BY DEF IsList
<1>2. /\ Tail(q) \in Seq(T) /\ Len(Tail(q)) = Len(q) - 1 /\ Head(q) = q[1]
      /\ \A i \in 1 .. Len(q) - 1 : Tail(q)[i] = q[i + 1]
  BY <1>1
<1>3. IsList(Tail(q)) BY <1>2, ListOf
<1>4. Head(q) \in Range(q) BY <1>1, <1>2 DEF Range
<1>5. r = q
  <2> DEFINE t == Tail(q)
             s == <<q[1]>> \o t
  <2>1. /\ s \in Seq(T) /\ Len(s) = Len(t) + 1 /\ s[1] = q[1]
        /\ \A i \in 1 .. Len(t) : s[i + 1] = t[i]
    BY <1>2, <1>4
  <2> HIDE DEF s, t, T
  <2>2. Len(s) = Len(q) BY <1>1, <1>2, <2>1 DEF t
  <2>3. \A i \in 1 .. Len(q) : s[i] = q[i]
    <3> TAKE i \in 1 .. Len(q)
    <3>1. CASE i = 1 BY <2>1, <3>1
    <3>2. CASE i # 1
      <4>1. i - 1 \in 1 .. Len(q) - 1 /\ (i - 1) + 1 = i BY <1>1, <3>2
      <4>2. s[i] = t[i - 1] /\ t[i - 1] = q[i] BY <1>2, <2>1, <4>1 DEF t
      <4> QED BY <4>2
    <3> QED BY <3>1, <3>2
  <2>4. s = q BY <1>1, <2>1, <2>2, <2>3
  <2> QED BY <1>2, <2>4 DEF Cons, s, t
<1>6. Range(r) = {Head(q)} \cup Range(Tail(q)) BY <1>3, ConsList
<1>7. Last(r) = IF Tail(q) = <<>> THEN Head(q) ELSE Last(Tail(q)) BY <1>3, ConsLast
<1> HIDE DEF r
<1> QED BY <1>3, <1>4, <1>5, <1>6, <1>7 DEF r

LEMMA ConsTwo ==
  ASSUME NEW q, IsList(q), NEW a, NEW b
  PROVE  <<a, b>> \o q = Cons(a, Cons(b, q))
<1> DEFINE T == {a, b} \cup Range(q)
           x == <<a, b>> \o q
           y == <<a>> \o (<<b>> \o q)
<1>1. <<a, b>> \in Seq(T) /\ <<a>> \in Seq(T) /\ <<b>> \in Seq(T) /\ q \in Seq(T) BY DEF IsList
<1>2. <<b>> \o q \in Seq(T) /\ Len(<<b>> \o q) = Len(q) + 1
      /\ (<<b>> \o q)[1] = b /\ \A i \in 1 .. Len(q) : (<<b>> \o q)[i + 1] = q[i]
  BY <1>1
<1>3. x \in Seq(T) /\ Len(x) = Len(q) + 2 /\ x[1] = a /\ x[2] = b
      /\ \A i \in 1 .. Len(q) : x[i + 2] = q[i]
  BY <1>1
<1> DEFINE z == <<b>> \o q
<1>4. y \in Seq(T) /\ Len(y) = Len(z) + 1 /\ y[1] = a /\ \A i \in 1 .. Len(z) : y[i + 1] = z[i]
  <2> HIDE DEF z
  <2>1. z \in Seq(T) BY <1>2 DEF z
  <2>2. <<a>> \o z \in Seq(T) /\ Len(<<a>> \o z) = Len(z) + 1 /\ (<<a>> \o z)[1] = a
        /\ \A i \in 1 .. Len(z) : (<<a>> \o z)[i + 1] = z[i]
    BY <1>1, <2>1
  <2> QED BY <2>2 DEF z
<1> HIDE DEF x, y, z, T
<1>5. Len(q) \in Nat BY <1>1
<1>6. Len(y) = Len(q) + 2 BY <1>2, <1>4, <1>5 DEF z
<1>7. \A i \in 1 .. Len(q) + 2 : x[i] = y[i]
  <2> TAKE i \in 1 .. Len(q) + 2
  <2>0. 1 \in 1 .. Len(z) /\ Len(z) = Len(q) + 1 BY <1>2, <1>5 DEF z
  <2>1. CASE i = 1 BY <1>3, <1>4, <2>1
  <2>2. CASE i = 2
    <3>1. y[1 + 1] = z[1] BY <1>4, <2>0
    <3> QED BY <1>2, <1>3, <2>2, <3>1 DEF z
  <2>3. CASE i # 1 /\ i # 2
    <3>1. i - 2 \in 1 .. Len(q) /\ (i - 2) + 2 = i /\ (i - 2) + 1 = i - 1 BY <1>5, <2>3
    <3>2. i - 1 \in 1 .. Len(z) /\ (i - 1) + 1 = i BY <1>5, <2>0, <2>3
    <3>3. y[i] = z[i - 1] BY <1>4, <3>2
    <3>4. z[i - 1] = q[i - 2] BY <1>2, <3>1 DEF z
    <3>5. x[i] = q[i - 2] BY <1>3, <3>1
    <3> QED BY <3>3, <3>4, <3>5
  <2> QED BY <2>1, <2>2, <2>3
<1>8. x = y BY <1>3, <1>4, <1>6, <1>7
<1> QED BY <1>8 DEF x, y, Cons

\* The ways the handlers put steps before the others
LEMMA ConsForms ==
  ASSUME NEW q, IsList(q)
  PROVE  /\ <<>> \o q = q
         /\ \A a : <<a>> \o q = Cons(a, q)
         /\ \A a, b : <<a, b>> \o q = Cons(a, Cons(b, q))
         /\ \A a : <<a>> = Cons(a, <<>>)
         /\ \A a, b : <<a, b>> = Cons(a, Cons(b, <<>>))
         /\ \A a, b, d : <<a, b, d>> = Cons(a, Cons(b, Cons(d, <<>>)))
         /\ \A a, b, d, e : <<a, b, d, e>> = Cons(a, Cons(b, Cons(d, Cons(e, <<>>))))
<1>1. <<>> \o q = q BY DEF IsList
<1>2. \A a : <<a>> \o q = Cons(a, q) BY DEF Cons
<1>3. \A a, b : <<a, b>> \o q = Cons(a, Cons(b, q)) BY ConsTwo
<1>4. \A a : <<a>> = Cons(a, <<>>)
  <2>1. ASSUME NEW a PROVE <<a>> \o <<>> = <<a>>
    <3>1. <<a>> \in Seq({a}) OBVIOUS
    <3> QED BY <3>1
  <2> QED BY <2>1 DEF Cons
<1>5. \A a, b : <<a, b>> = Cons(a, Cons(b, <<>>))
  <2>1. ASSUME NEW a, NEW b PROVE <<a, b>> \o <<>> = <<a, b>>
    <3>1. <<a, b>> \in Seq({a, b}) OBVIOUS
    <3> QED BY <3>1
  <2> QED BY <2>1, ConsTwo, EmptyList
<1>6. ASSUME NEW a, NEW b, NEW d PROVE <<a, b, d>> = Cons(a, Cons(b, Cons(d, <<>>)))
  <2> DEFINE x == <<a, b>> \o <<d>>
  <2>1. <<a, b>> \in Seq({a, b, d}) /\ <<d>> \in Seq({a, b, d}) OBVIOUS
  <2>2. x \in Seq({a, b, d}) /\ Len(x) = 3 /\ x[1] = a /\ x[2] = b /\ x[3] = d BY <2>1
  <2> HIDE DEF x
  <2>3. x = <<a, b, d>> BY <2>2
  <2>4. IsList(<<d>>) /\ <<d>> = Cons(d, <<>>) BY <1>4, ConsList, EmptyList
  <2>5. x = Cons(a, Cons(b, <<d>>)) BY <2>4, ConsTwo DEF x
  <2> QED BY <2>3, <2>4, <2>5
<1>7. ASSUME NEW a, NEW b, NEW d, NEW e
      PROVE  <<a, b, d, e>> = Cons(a, Cons(b, Cons(d, Cons(e, <<>>))))
  <2> DEFINE x == <<a, b>> \o <<d, e>>
  <2>1. <<a, b>> \in Seq({a, b, d, e}) /\ <<d, e>> \in Seq({a, b, d, e}) OBVIOUS
  <2>2. x \in Seq({a, b, d, e}) /\ Len(x) = 4 /\ x[1] = a /\ x[2] = b /\ x[3] = d /\ x[4] = e
    BY <2>1
  <2> HIDE DEF x
  <2>3. x = <<a, b, d, e>> BY <2>2
  <2>4. IsList(<<d, e>>) /\ <<d, e>> = Cons(d, Cons(e, <<>>)) BY <1>5, ConsList, EmptyList
  <2>5. x = Cons(a, Cons(b, <<d, e>>)) BY <2>4, ConsTwo DEF x
  <2> QED BY <2>3, <2>4, <2>5
<1> QED BY <1>1, <1>2, <1>3, <1>4, <1>5, <1>6, <1>7

-----------------------------------------------------------------------------
(* Roles: the windows that have one, and whose it is                       *)

Placed(s) ==
  ({s.main, s.overlay} \cup {s.root[p] : p \in Pane} \cup Range(s.dialogs) \cup Range(s.popups)) \ {NoWin}

Listing(s) == Placed(s) \cup Range(s.ordinary)

Role(s, w) == IF w \in Placed(s) THEN Owner(w) ELSE NoFocus

Tops == {"main", "overlay"}

LEMMA OwnerKinds ==
  ASSUME NEW w \in Window
  PROVE  /\ KindOf[w] \in Tops \cup {"ordinary"} => Owner(w) = KindOf[w]
         /\ KindOf[w] \in {"root", "dialog"} => Owner(w) = PaneOf[w] /\ PaneOf[w] \in Pane
         /\ KindOf[w] = "popup" => Owner(w) = Owner(ParentOf[w]) /\ ParentOf[w] \in Window
                                   /\ KindOf[ParentOf[w]] \in Tops \cup {"root", "dialog"}
         /\ KindOf[w] # "ordinary" => Owner(w) \in Pane \cup Tops
<1>1. KindOf[w] \in {"main", "overlay", "root", "dialog", "popup", "ordinary"} BY FocusAssumption
<1>2. KindOf[w] \in Tops \cup {"ordinary"} => Owner(w) = KindOf[w] BY DEF Owner, Tops
<1>3. KindOf[w] \in {"root", "dialog"} => Owner(w) = PaneOf[w] /\ PaneOf[w] \in Pane
  BY FocusAssumption DEF Owner
<1>4. ASSUME KindOf[w] = "popup"
      PROVE  /\ Owner(w) = Owner(ParentOf[w]) /\ ParentOf[w] \in Window
             /\ KindOf[ParentOf[w]] \in Tops \cup {"root", "dialog"}
             /\ Owner(w) \in Pane \cup Tops
  <2> DEFINE k == ParentOf[w]
  <2>1. k \in Window /\ KindOf[k] \notin {"popup", "ordinary"} BY <1>4, FocusAssumption
  <2>2. KindOf[k] \in Tops \cup {"root", "dialog"} BY <2>1, FocusAssumption DEF Tops
  <2>3. Owner(w) = Owner(k) BY <1>4, <2>1 DEF Owner
  <2>4. Owner(k) \in Pane \cup Tops BY <2>1, <2>2, FocusAssumption DEF Owner, Tops
  <2> QED BY <2>1, <2>2, <2>3, <2>4
<1> QED BY <1>1, <1>2, <1>3, <1>4 DEF Tops

\* Every window with a role has one of a top or of a pane
LEMMA PlacedRole ==
  ASSUME NEW s, Listed(s)
  PROVE  /\ \A w \in Placed(s) : w \in Window /\ KindOf[w] # "ordinary" /\ Owner(w) \in Pane \cup Tops
         /\ \A w : Role(s, w) \in Pane \cup Tops \cup {NoFocus}
         /\ \A w : Role(s, w) = NoFocus <=> w \notin Placed(s)
         /\ \A w \in Listing(s) : w \in Window /\ w # NoWin
         /\ NoFocus \notin Pane \cup Tops
<1>1. \A w \in Placed(s) : w \in Window /\ KindOf[w] # "ordinary"
  <2>1. \A w \in Range(s.dialogs) : w \in OfKind("dialog") BY DEF Listed, Range
  <2>2. \A w \in Range(s.popups) : w \in OfKind("popup") BY DEF Listed, Range
  <2> QED BY <2>1, <2>2 DEF Listed, Placed, OfKind
<1>2. \A w \in Placed(s) : Owner(w) \in Pane \cup Tops BY <1>1, OwnerKinds
<1>3. NoFocus \notin Pane \cup Tops BY PresentationAssumption DEF NoFocus, Tops
<1>4. \A w \in Range(s.ordinary) : w \in Window BY DEF Listed, Range, OfKind
<1> QED BY <1>1, <1>2, <1>3, <1>4, PresentationAssumption DEF Role, Listing

LEMMA PlacedWindows ==
  ASSUME NEW s, Listed(s)
  PROVE  /\ s.main # NoWin => s.main \in Placed(s) /\ Owner(s.main) = "main"
         /\ s.overlay # NoWin => s.overlay \in Placed(s) /\ Owner(s.overlay) = "overlay"
         /\ \A p \in Pane : s.root[p] # NoWin => s.root[p] \in Placed(s) /\ Owner(s.root[p]) = p
         /\ \A w \in Range(s.dialogs) : w \in Placed(s) /\ w \in OfKind("dialog")
         /\ \A w \in Range(s.popups) : w \in Placed(s) /\ w \in OfKind("popup")
<1>1. \A w \in Range(s.dialogs) : w \in OfKind("dialog") BY DEF Listed, Range
<1>2. \A w \in Range(s.popups) : w \in OfKind("popup") BY DEF Listed, Range
<1>3. s.main # NoWin => Owner(s.main) = "main" BY OwnerKinds DEF Listed, OfKind, Tops
<1>4. s.overlay # NoWin => Owner(s.overlay) = "overlay" BY OwnerKinds DEF Listed, OfKind, Tops
<1>5. \A p \in Pane : s.root[p] # NoWin => Owner(s.root[p]) = p BY OwnerKinds DEF Listed, OfKind
<1>6. NoWin \notin Window BY PresentationAssumption
<1> QED BY <1>1, <1>2, <1>3, <1>4, <1>5, <1>6 DEF Placed, OfKind

\* A window with the role of a top is that top, or a popup
LEMMA PlacedTop ==
  ASSUME NEW s, Listed(s), NEW w \in Placed(s)
  PROVE  /\ Owner(w) \in Tops => w \in {s.main, s.overlay} \cup Range(s.popups)
         /\ w = s.main => Owner(w) = "main"
         /\ w = s.overlay => Owner(w) = "overlay"
         /\ Owner(w) \in Pane => w # s.main /\ w # s.overlay
<1>1. Pane \cap Tops = {} BY PresentationAssumption DEF Tops
<1>2. \A d \in Range(s.dialogs) : Owner(d) \in Pane BY PlacedWindows, OwnerKinds DEF OfKind
<1>3. w # NoWin BY DEF Placed
<1> QED BY <1>1, <1>2, <1>3, PlacedWindows DEF Placed, Tops

\* role_for_surface, in these terms
LEMMA RoleOfIs ==
  ASSUME NEW s, Listed(s), NEW w
  PROVE  RoleOf(s, w) = Role(s, w)
<1> DEFINE rooted == \E p \in Pane : w = s.root[p]
           pick == CHOOSE p \in Pane : s.root[p] = w
           rest == w \in Range(s.dialogs) \cup Range(s.popups)
<1>0. RoleOf(s, w) = IF w = NoWin THEN NoFocus
                     ELSE CASE w = s.main -> "main"
                            [] w = s.overlay -> "overlay"
                            [] rooted -> pick
                            [] rest -> Owner(w)
                            [] OTHER -> NoFocus
  BY DEF RoleOf
<1>1. rooted /\ w # NoWin => Owner(w) = pick BY PlacedWindows
<1>2. w \in Placed(s) <=> w # NoWin /\ (w = s.main \/ w = s.overlay \/ rooted \/ rest) BY DEF Placed
<1>3. /\ w # NoWin /\ w = s.main => Owner(w) = "main"
      /\ w # NoWin /\ w = s.overlay => Owner(w) = "overlay"
  BY PlacedWindows
<1>4. /\ w # NoWin /\ (rooted \/ rest) => w # s.main \/ w = s.main OBVIOUS
<1>5. w # NoWin /\ w = s.main => w # s.overlay BY DEF Listed, OfKind
<1>6. w # NoWin /\ rooted => w # s.main /\ w # s.overlay BY DEF Listed, OfKind
<1>7. rest => w # s.main /\ w # s.overlay /\ w # NoWin /\ ~rooted
  <2>1. rest => w \in OfKind("dialog") \cup OfKind("popup") BY PlacedWindows
  <2> QED BY <2>1, PresentationAssumption DEF Listed, OfKind
<1> HIDE DEF rooted, pick, rest
<1>8. Role(s, w) = IF w \in Placed(s) THEN Owner(w) ELSE NoFocus BY DEF Role
<1> QED
  <2>1. CASE w = NoWin BY <1>0, <1>2, <1>8, <2>1
  <2>2. CASE w # NoWin /\ w = s.main BY <1>0, <1>2, <1>3, <1>5, <1>6, <1>7, <1>8, <2>2
  <2>3. CASE w # NoWin /\ w = s.overlay
    BY <1>0, <1>2, <1>3, <1>5, <1>6, <1>7, <1>8, <2>3
  <2>4. CASE w # NoWin /\ rooted BY <1>0, <1>1, <1>2, <1>6, <1>8, <2>4
  <2>5. CASE rest BY <1>0, <1>2, <1>7, <1>8, <2>5
  <2>6. CASE w # NoWin /\ w # s.main /\ w # s.overlay /\ ~rooted /\ ~rest
    BY <1>0, <1>2, <1>8, <2>6
  <2> QED BY <2>1, <2>2, <2>3, <2>4, <2>5, <2>6

\* The tree of a pane: the windows with its role, while it has a window
LEMMA TreeRole ==
  ASSUME NEW s, Listed(s), NEW p \in Pane, NEW w
  PROVE  InTree(s, p, w) <=> w \in Placed(s) /\ Owner(w) = p /\ s.root[p] # NoWin
<1>1. InTree(s, p, w) <=> s.root[p] # NoWin /\ (w = s.root[p] \/
                            (w \in Range(s.dialogs) \cup Range(s.popups) /\ Owner(w) = p))
  BY DEF InTree, Members, InPane
<1>2. w \in Placed(s) /\ Owner(w) = p => w # s.main /\ w # s.overlay BY PlacedTop
<1>3. \A q \in Pane : w = s.root[q] /\ w # NoWin => Owner(w) = q BY PlacedWindows
<1>4. w \in Range(s.dialogs) \cup Range(s.popups) => w \in Placed(s) BY PlacedWindows
<1> QED BY <1>1, <1>2, <1>3, <1>4, PlacedWindows DEF Placed

LEMMA CanFocusRole ==
  ASSUME NEW s, Listed(s), NEW p \in Pane, NEW w, CanFocus(s, p, w)
  PROVE  w \in Placed(s) /\ Owner(w) = p /\ w # NoWin
<1>1. \/ w = s.root[p] /\ w # NoWin
      \/ w \in Range(s.dialogs) \cup Range(s.popups) /\ Owner(w) = p
  BY DEF CanFocus, Members, InPane
<1> QED BY <1>1, PlacedWindows DEF Placed

\* Handlers that leave the lists alone leave the roles alone
LEMMA SameRoles ==
  ASSUME NEW s, NEW t, SameLists(s, t)
  PROVE  /\ Placed(t) = Placed(s) /\ Listing(t) = Listing(s)
         /\ \A w : Role(t, w) = Role(s, w)
         /\ \A p : Members(t, p) = Members(s, p)
         /\ \A p, w : InTree(t, p, w) <=> InTree(s, p, w)
         /\ t.mapped = s.mapped => \A p, w : CanFocus(t, p, w) <=> CanFocus(s, p, w)
<1>1. /\ t.main = s.main /\ t.overlay = s.overlay /\ t.root = s.root
      /\ t.dialogs = s.dialogs /\ t.popups = s.popups /\ t.ordinary = s.ordinary
  BY DEF SameLists
<1>2. Placed(t) = Placed(s) BY <1>1 DEF Placed
<1>3. \A p : Members(t, p) = Members(s, p) BY <1>1 DEF Members
<1> QED BY <1>1, <1>2, <1>3 DEF Listing, Role, InTree, CanFocus

-----------------------------------------------------------------------------
(* What the seat remembers of the focus, and what the routes make of it    *)

MemoryFields == {"focused", "history", "kbd", "ordFocus", "mapped"}

Memory(s) ==
  /\ MemoryFields \subseteq DOMAIN s
  /\ DOMAIN s.focused = Pane /\ DOMAIN s.history = Pane
  /\ \A p \in Pane : IsList(s.history[p])
  /\ {"win", "target"} \subseteq DOMAIN s.ordFocus

\* What is remembered of the panes changes, the keyboard does not
Refocused(s, t) ==
  /\ DOMAIN t = DOMAIN s
  /\ \A f \in DOMAIN s \ {"focused", "history"} : t[f] = s[f]

LEMMA RefocusedParts ==
  ASSUME NEW s, NEW t, Listed(s), Memory(s), Refocused(s, t)
  PROVE  /\ SameLists(s, t) /\ t.mapped = s.mapped /\ t.kbd = s.kbd /\ t.ordFocus = s.ordFocus
         /\ MemoryFields \subseteq DOMAIN t
BY DEF Listed, ListFields, SameLists, Memory, MemoryFields, Refocused

LEMMA ToLastList ==
  ASSUME NEW q, IsList(q), NEW w
  PROVE  IsList(ToLast(q, w))
<1> DEFINE T == Range(q) \cup {w}
           left == Without(q, w)
<1>1. q \in Seq(T) BY DEF IsList
<1> HIDE DEF T
<1>2. left \in Seq(T) BY <1>1, WithoutElements
<1> HIDE DEF left
<1>3. Append(left, w) \in Seq(T) BY <1>2 DEF T
<1> QED BY <1>3, ListOf DEF ToLast, left

\* What of a pane's history may have the focus
Past(s, p) == Within(s.history[p], {w \in Range(s.history[p]) : CanFocus(s, p, w)})

LEMMA PastFocus ==
  ASSUME NEW s, NEW p \in Pane, Memory(s), Past(s, p) # <<>>
  PROVE  CanFocus(s, p, Last(Past(s, p)))
<1> DEFINE list == s.history[p]
           S == {w \in Range(list) : CanFocus(s, p, w)}
           past == Within(list, S)
<1>1. Past(s, p) = past BY DEF Past
<1>2. list \in Seq(Range(list)) BY DEF Memory, IsList
<1>3. past \in Seq(Range(list)) /\ Range(past) = Range(list) \cap S
  <2> HIDE DEF list, S
  <2> QED BY <1>2, WithinElements
<1>4. past # <<>> BY <1>1
<1> HIDE DEF past
<1>5. Last(past) \in Range(past)
  <2>1. Len(past) \in Nat \ {0} /\ DOMAIN past = 1 .. Len(past) BY <1>3, <1>4
  <2> QED BY <2>1 DEF Last, Range
<1>6. Last(past) \in S BY <1>3, <1>5
<1> QED BY <1>1, <1>6

LEMMA FocusedAt ==
  ASSUME NEW s, NEW p \in Pane, NEW w, Memory(s)
  PROVE  LET t == [s EXCEPT !.focused[p] = w]
         IN /\ Refocused(s, t) /\ Memory(t) /\ t.focused[p] = w
            /\ \A q \in Pane \ {p} : t.focused[q] = s.focused[q]
<1> DEFINE t == [s EXCEPT !.focused[p] = w]
<1>1. MemoryFields \subseteq DOMAIN s /\ DOMAIN s.focused = Pane /\ DOMAIN s.history = Pane BY DEF Memory
<1>2. /\ DOMAIN t = DOMAIN s /\ \A g \in DOMAIN s \ {"focused"} : t[g] = s[g]
      /\ t.focused = [s.focused EXCEPT ![p] = w]
  BY <1>1 DEF MemoryFields
<1> HIDE DEF t
<1>3. Refocused(s, t) BY <1>2 DEF Refocused
<1>4. t.history = s.history /\ t.ordFocus = s.ordFocus BY <1>1, <1>2 DEF MemoryFields
<1>5. Memory(t) BY <1>1, <1>2, <1>4 DEF Memory
<1> QED BY <1>1, <1>2, <1>3, <1>5 DEF t

\* native_pane_focus_surface finds a window that may have the focus, and the
\* one that has it where there is one; it finds none only without a root window
LEMMA PaneFocusFinds ==
  ASSUME NEW s, NEW p \in Pane, Listed(s), Memory(s)
  PROVE  LET f == PaneFocus(s, p)
         IN /\ Refocused(s, f.h) /\ Memory(f.h)
            /\ f.h.focused[p] = f.win
            /\ \A q \in Pane \ {p} : f.h.focused[q] = s.focused[q]
            /\ f.win # NoWin => CanFocus(s, p, f.win)
            /\ f.win = NoWin => s.root[p] = NoWin
            /\ s.focused[p] # NoWin /\ CanFocus(s, p, s.focused[p])
                 => f.win = s.focused[p] /\ f.h = s
<1> DEFINE past == Past(s, p)
           kept == s.focused[p] # NoWin /\ CanFocus(s, p, s.focused[p])
           a == [s EXCEPT !.focused[p] = Last(past)]
           b == [s EXCEPT !.focused[p] = s.root[p], !.history[p] = ToLast(@, s.root[p])]
           d == [s EXCEPT !.focused[p] = NoWin]
           f == PaneFocus(s, p)
<1>0. f = IF kept THEN [win |-> s.focused[p], h |-> s]
          ELSE IF past # <<>> THEN [win |-> Last(past), h |-> a]
          ELSE IF s.root[p] # NoWin THEN [win |-> s.root[p], h |-> b]
          ELSE [win |-> NoWin, h |-> d]
  BY DEF PaneFocus, Past, Only
<1>1. MemoryFields \subseteq DOMAIN s /\ DOMAIN s.focused = Pane /\ DOMAIN s.history = Pane BY DEF Memory
<1>2. past # <<>> => CanFocus(s, p, Last(past)) BY PastFocus
<1>3. s.root[p] # NoWin => CanFocus(s, p, s.root[p]) BY DEF CanFocus
<1> HIDE DEF past
<1>5. /\ Refocused(s, b) /\ Memory(b) /\ b.focused[p] = s.root[p]
      /\ \A q \in Pane \ {p} : b.focused[q] = s.focused[q]
  <2> DEFINE list == ToLast(s.history[p], s.root[p])
  <2>1. b = [s EXCEPT !.focused[p] = s.root[p], !.history[p] = list] OBVIOUS
  <2>2. IsList(list) BY ToLastList DEF Memory
  <2> HIDE DEF list, b
  <2>3. /\ DOMAIN b = DOMAIN s /\ \A g \in DOMAIN s \ {"focused", "history"} : b[g] = s[g]
        /\ b.focused = [s.focused EXCEPT ![p] = s.root[p]]
        /\ b.history = [s.history EXCEPT ![p] = list]
    BY <1>1, <2>1 DEF MemoryFields
  <2>4. Refocused(s, b) BY <2>3 DEF Refocused
  <2>5. b.ordFocus = s.ordFocus BY <1>1, <2>3 DEF MemoryFields
  <2>6. DOMAIN b.history = Pane /\ \A q \in Pane : IsList(b.history[q])
    BY <1>1, <2>2, <2>3 DEF Memory
  <2>7. Memory(b) BY <1>1, <2>3, <2>5, <2>6 DEF Memory
  <2> QED BY <1>1, <2>3, <2>4, <2>7
<1>6. /\ Refocused(s, a) /\ Memory(a) /\ a.focused[p] = Last(past)
      /\ \A q \in Pane \ {p} : a.focused[q] = s.focused[q]
      /\ Refocused(s, d) /\ Memory(d) /\ d.focused[p] = NoWin
      /\ \A q \in Pane \ {p} : d.focused[q] = s.focused[q]
  <2>1. /\ Refocused(s, a) /\ Memory(a) /\ a.focused[p] = Last(past)
        /\ \A q \in Pane \ {p} : a.focused[q] = s.focused[q]
    BY FocusedAt
  <2>2. /\ Refocused(s, d) /\ Memory(d) /\ d.focused[p] = NoWin
        /\ \A q \in Pane \ {p} : d.focused[q] = s.focused[q]
    BY FocusedAt
  <2> HIDE DEF a, d
  <2> QED BY <2>1, <2>2
<1>7. Refocused(s, s) /\ Memory(s) BY DEF Refocused
<1>8. CanFocus(s, p, s.root[p]) => s.root[p] # NoWin
  <2>1. NoWin \notin Placed(s) BY DEF Placed
  <2> QED BY <2>1, CanFocusRole
<1>9. \A w : CanFocus(s, p, w) => w # NoWin BY CanFocusRole
<1> HIDE DEF a, b, d, f
<1>10. CASE kept BY <1>0, <1>7, <1>10 DEF f
<1>11. CASE ~kept /\ past # <<>>
  <2>1. f = [win |-> Last(past), h |-> a]
    <3> HIDE DEF kept
    <3> QED BY <1>0, <1>11
  <2>2. Last(past) # NoWin BY <1>2, <1>9, <1>11
  <2> QED BY <1>2, <1>6, <1>11, <2>1, <2>2 DEF f
<1>12. CASE ~kept /\ past = <<>> /\ s.root[p] # NoWin
  <2>1. f = [win |-> s.root[p], h |-> b]
    <3> HIDE DEF kept
    <3> QED BY <1>0, <1>12
  <2> QED BY <1>3, <1>5, <1>12, <2>1 DEF f
<1>13. CASE ~kept /\ past = <<>> /\ s.root[p] = NoWin
  <2>1. f = [win |-> NoWin, h |-> d]
    <3> HIDE DEF kept
    <3> QED BY <1>0, <1>13
  <2> QED BY <1>6, <1>13, <2>1 DEF f
<1> QED BY <1>10, <1>11, <1>12, <1>13

\* note_native_pane_surface_focus: a window of the tree has the focus of its pane
LEMMA NotedFocus ==
  ASSUME NEW s, NEW w, Listed(s), Memory(s)
  PROVE  LET p == Owner(w)
         IN /\ Refocused(s, Noted(s, w)) /\ Memory(Noted(s, w))
            /\ p \in Pane /\ InTree(s, p, w)
                 => /\ Noted(s, w).focused[p] = w
                    /\ \A q \in Pane \ {p} : Noted(s, w).focused[q] = s.focused[q]
            /\ ~(p \in Pane /\ InTree(s, p, w)) => Noted(s, w) = s
<1> DEFINE p == Owner(w)
           known == p \in Pane /\ InTree(s, p, w)
           list == ToLast(s.history[p], w)
           a == [s EXCEPT !.focused[p] = w, !.history[p] = list]
<1>1. Noted(s, w) = IF known THEN a ELSE s BY DEF Noted
<1>2. ASSUME p \in Pane
      PROVE  /\ Refocused(s, a) /\ Memory(a) /\ a.focused[p] = w
             /\ \A q \in Pane \ {p} : a.focused[q] = s.focused[q]
  <2>0. MemoryFields \subseteq DOMAIN s /\ DOMAIN s.focused = Pane /\ DOMAIN s.history = Pane BY DEF Memory
  <2>1. a = [s EXCEPT !.focused[p] = w, !.history[p] = list] OBVIOUS
  <2>2. IsList(list) BY <1>2, ToLastList DEF Memory
  <2> HIDE DEF list, a, p
  <2>3. /\ DOMAIN a = DOMAIN s /\ \A g \in DOMAIN s \ {"focused", "history"} : a[g] = s[g]
        /\ a.focused = [s.focused EXCEPT ![p] = w]
        /\ a.history = [s.history EXCEPT ![p] = list]
    BY <2>0, <2>1 DEF MemoryFields
  <2>4. Refocused(s, a) BY <2>3 DEF Refocused
  <2>5. a.ordFocus = s.ordFocus BY <2>0, <2>3 DEF MemoryFields
  <2>6. DOMAIN a.history = Pane /\ \A q \in Pane : IsList(a.history[q])
    BY <1>2, <2>0, <2>2, <2>3 DEF Memory
  <2>7. Memory(a) BY <2>0, <2>3, <2>5, <2>6 DEF Memory
  <2> QED BY <1>2, <2>0, <2>3, <2>4, <2>7
<1>3. Refocused(s, s) BY DEF Refocused
<1> HIDE DEF a
<1>4. CASE known BY <1>1, <1>2, <1>4
<1>5. CASE ~known
  <2>1. Noted(s, w) = s
    <3> HIDE DEF known
    <3> QED BY <1>1, <1>5
  <2> QED BY <1>3, <1>5, <2>1
<1> QED BY <1>4, <1>5

\* KeyboardHandle::set_focus: the keyboard has the window, and CompositorState
\* is told of it where it had another
LEMMA KeyboardMoves ==
  ASSUME NEW s, NEW w, NEW next, Listed(s), Memory(s), IsList(next), Keyboard(s, w, next)
  PROVE  /\ SameLists(s, h') /\ Memory(h')
         /\ h'.mapped = s.mapped /\ h'.focused = s.focused /\ h'.history = s.history
         /\ h'.kbd = w
         /\ s.kbd = w => h' = s /\ todo' = next
         /\ s.kbd # w =>
              /\ todo' = Cons([op |-> "told", t |-> Role(s, w)], next)
              /\ h'.ordFocus.target = NoFocus
              /\ w \in Range(s.ordinary) => h'.ordFocus = [win |-> w, target |-> NoFocus]
<1>1. CASE s.kbd = w
  <2>1. h' = s /\ todo' = next BY <1>1 DEF Keyboard
  <2>2. SameLists(s, s) BY DEF SameLists, Listed
  <2> QED BY <1>1, <2>1, <2>2
<1>2. CASE s.kbd # w
  <2> DEFINE o == IF w \in Range(s.ordinary) THEN [win |-> w, target |-> NoFocus] ELSE NoOrd
  <2>1. h' = [s EXCEPT !.kbd = w, !.ordFocus = o] BY <1>2 DEF Keyboard
  <2>2. todo' = Cons([op |-> "told", t |-> Role(s, w)], next)
    BY <1>2, RoleOfIs DEF Keyboard, Cons
  <2>3. o.target = NoFocus /\ {"win", "target"} \subseteq DOMAIN o
        /\ (w \in Range(s.ordinary) => o = [win |-> w, target |-> NoFocus])
    BY DEF NoOrd
  <2> HIDE DEF o
  <2>4. MemoryFields \subseteq DOMAIN s BY DEF Memory
  <2>5. /\ DOMAIN h' = DOMAIN s /\ h'.kbd = w /\ h'.ordFocus = o
        /\ \A f \in DOMAIN s \ {"kbd", "ordFocus"} : h'[f] = s[f]
    BY <2>1, <2>4 DEF MemoryFields
  <2>6. h'.mapped = s.mapped /\ h'.focused = s.focused /\ h'.history = s.history
    BY <2>4, <2>5 DEF MemoryFields
  <2>7. SameLists(s, h') BY <2>5 DEF Listed, ListFields, SameLists
  <2>8. Memory(h') BY <2>3, <2>4, <2>5, <2>6 DEF Memory
  <2> QED BY <1>2, <2>2, <2>3, <2>5, <2>6, <2>7, <2>8
<1> QED BY <1>1, <1>2

\* What the target resolves to has the role that is told of it
LEMMA ResolvedFinds ==
  ASSUME NEW s, Listed(s), Memory(s)
  PROVE  LET r == Resolved(s)
         IN /\ Refocused(s, r.h) /\ Memory(r.h)
            /\ r.t = Role(s, r.win)
            /\ r.win # NoWin => r.win \in Placed(s)
<1> DEFINE main    == [t |-> "main", win |-> s.main, h |-> s]
           overlay == [t |-> "overlay", win |-> s.overlay, h |-> s]
           pane    == PaneFocus(s, c.target)
           left    == IF c.target \in Pane THEN pane.h ELSE s
           gone    == c.target \in Pane /\ s.root[c.target] = NoWin
           found   == [t |-> c.target, win |-> pane.win, h |-> pane.h]
           instead == IF ~gone /\ s.overlay # NoWin THEN [overlay EXCEPT !.h = left]
                      ELSE IF s.main # NoWin THEN [main EXCEPT !.h = left]
                      ELSE [t |-> NoFocus, win |-> NoWin, h |-> left]
           Good(r) == /\ Refocused(s, r.h) /\ Memory(r.h) /\ r.t = Role(s, r.win)
                      /\ r.win # NoWin => r.win \in Placed(s)
<1>0. Resolved(s) = IF c.shell /\ s.overlay # NoWin THEN overlay
                    ELSE CASE c.target = "main" /\ s.main # NoWin -> main
                           [] c.target = "overlay" /\ s.overlay # NoWin -> overlay
                           [] c.target \in Pane /\ pane.win # NoWin -> found
                           [] OTHER -> instead
  BY DEF Resolved
<1>1. Refocused(s, s) BY DEF Refocused
<1>2. s.main # NoWin => Role(s, s.main) = "main" /\ s.main \in Placed(s) BY PlacedWindows DEF Role
<1>3. s.overlay # NoWin => Role(s, s.overlay) = "overlay" /\ s.overlay \in Placed(s)
  BY PlacedWindows DEF Role
<1>4. Role(s, NoWin) = NoFocus BY DEF Role, Placed
<1>5. s.main # NoWin => Good(main) BY <1>1, <1>2
<1>6. s.overlay # NoWin => Good(overlay) BY <1>1, <1>3
<1>7. ASSUME c.target \in Pane, pane.win # NoWin PROVE Good(found)
  <2>1. Refocused(s, pane.h) /\ Memory(pane.h) /\ CanFocus(s, c.target, pane.win)
    BY <1>7, PaneFocusFinds
  <2> HIDE DEF pane
  <2>2. pane.win \in Placed(s) /\ Owner(pane.win) = c.target BY <1>7, <2>1, CanFocusRole
  <2> QED BY <2>1, <2>2 DEF Role
<1>8. Refocused(s, left) /\ Memory(left)
  <2>1. c.target \in Pane => Refocused(s, pane.h) /\ Memory(pane.h) BY PaneFocusFinds
  <2> HIDE DEF pane
  <2> QED BY <1>1, <2>1
<1>9. Good(instead)
  <2> HIDE DEF left, gone
  <2>1. s.overlay # NoWin => Good([overlay EXCEPT !.h = left]) BY <1>3, <1>8
  <2>2. s.main # NoWin => Good([main EXCEPT !.h = left]) BY <1>2, <1>8
  <2>3. Good([t |-> NoFocus, win |-> NoWin, h |-> left]) BY <1>4, <1>8
  <2> HIDE DEF Good, main, overlay
  <2> QED BY <2>1, <2>2, <2>3
<1>10. Good(Resolved(s))
  <2> HIDE DEF Good, main, overlay, pane, found, instead
  <2> QED BY <1>0, <1>5, <1>6, <1>7, <1>9
<1> QED BY <1>10

\* The window that was pressed last gets the keyboard again: a popup of a top
\* hands it to its top
Keyed(w) == IF KindOf[w] = "popup" /\ Owner(w) \in Tops THEN ParentOf[w] ELSE w

LEMMA ResolvedTarget ==
  ASSUME NEW s, Listed(s), Memory(s), ~c.shell,
         NEW w \in Placed(s), c.target = Owner(w),
         Owner(w) \in Pane => CanFocus(s, Owner(w), w) /\ s.focused[Owner(w)] = w,
         w \in Range(s.popups) /\ Owner(w) \in Tops => ParentOf[w] \in {s.main, s.overlay}
  PROVE  LET r == Resolved(s)
         IN r.t = c.target /\ r.win = Keyed(w) /\ r.h = s
<1> DEFINE main    == [t |-> "main", win |-> s.main, h |-> s]
           overlay == [t |-> "overlay", win |-> s.overlay, h |-> s]
           pane    == PaneFocus(s, c.target)
           found   == [t |-> c.target, win |-> pane.win, h |-> pane.h]
<1>0. \E x : Resolved(s) = CASE c.target = "main" /\ s.main # NoWin -> main
                             [] c.target = "overlay" /\ s.overlay # NoWin -> overlay
                             [] c.target \in Pane /\ pane.win # NoWin -> found
                             [] OTHER -> x
  BY DEF Resolved
<1>1. w \in Window /\ w # NoWin /\ Owner(w) \in Pane \cup Tops /\ KindOf[w] # "ordinary"
  BY PlacedRole DEF Listing
<1>2. Pane \cap Tops = {} BY PresentationAssumption DEF Tops
<1>3. \A q \in Range(s.popups) : KindOf[q] = "popup" BY PlacedWindows DEF OfKind
<1>4. CASE Owner(w) \in Pane
  <2>1. pane.win = w /\ pane.h = s BY <1>1, <1>4, PaneFocusFinds
  <2>2. c.target # "main" /\ c.target # "overlay" BY <1>2, <1>4 DEF Tops
  <2> HIDE DEF pane, main, overlay
  <2>3. Resolved(s) = found BY <1>0, <1>1, <1>4, <2>1, <2>2
  <2> QED BY <1>2, <1>4, <2>1, <2>3 DEF Keyed
<1>5. CASE Owner(w) \in Tops
  <2>1. w \in {s.main, s.overlay} \/ (KindOf[w] = "popup" /\ ParentOf[w] \in {s.main, s.overlay})
    BY <1>3, <1>5, PlacedTop
  <2>2. w \in {s.main, s.overlay} => KindOf[w] # "popup" BY <1>1 DEF Listed, OfKind
  <2>3. Keyed(w) \in {s.main, s.overlay} /\ Owner(Keyed(w)) = Owner(w) /\ Keyed(w) \in Window
    BY <1>1, <1>5, <2>1, <2>2, OwnerKinds DEF Keyed
  <2>4. Keyed(w) # NoWin BY <2>3, PresentationAssumption
  <2>5. \/ c.target = "main" /\ s.main = Keyed(w)
        \/ c.target = "overlay" /\ s.overlay = Keyed(w)
    <3>1. s.main # NoWin => Owner(s.main) = "main" BY PlacedWindows
    <3>2. s.overlay # NoWin => Owner(s.overlay) = "overlay" BY PlacedWindows
    <3> QED BY <2>3, <2>4, <3>1, <3>2
  <2>6. c.target \notin Pane BY <1>2, <1>5
  <2>7. \/ Resolved(s) = main /\ s.main = Keyed(w) /\ c.target = "main"
        \/ Resolved(s) = overlay /\ s.overlay = Keyed(w) /\ c.target = "overlay"
    <3>1. PICK x : Resolved(s) = CASE c.target = "main" /\ s.main # NoWin -> main
                                   [] c.target = "overlay" /\ s.overlay # NoWin -> overlay
                                   [] c.target \in Pane /\ pane.win # NoWin -> found
                                   [] OTHER -> x
      BY <1>0
    <3> HIDE DEF pane, main, overlay, found
    <3> QED BY <2>4, <2>5, <2>6, <3>1
  <2> QED BY <2>7
<1> QED BY <1>1, <1>4, <1>5

-----------------------------------------------------------------------------
(* The window groups of the panes, as CompositorState changes them         *)

Grouped(x, p)  == Shows(x, p) /\ x.panes[p].group # NoGroup
GroupFields    == {"prim", "foc", "members"}
GroupShaped(x) == \A p \in Pane : Grouped(x, p) => GroupFields \subseteq DOMAIN x.panes[p].group
GroupWin(x, p) == LET g == x.panes[p].group IN IF g.foc \in g.members THEN g.foc ELSE g.prim

\* A change that leaves the focus alone and the groups it does not clear
FocusKept(x, y) ==
  /\ y.target = x.target /\ y.shell = x.shell
  /\ \A p \in Pane : Grouped(y, p) => /\ Grouped(x, p) /\ y.panes[p].group = x.panes[p].group
                                      /\ y.panes[p].st = x.panes[p].st

LEMMA FocusKeptItself ==
  ASSUME NEW x
  PROVE  FocusKept(x, x)
BY DEF FocusKept

LEMMA FocusKeptTransitive ==
  ASSUME NEW x, NEW y, NEW z, FocusKept(x, y), FocusKept(y, z)
  PROVE  FocusKept(x, z)
BY DEF FocusKept

LEMMA FocusKeptFrom ==
  ASSUME NEW x, NEW y, y.panes = x.panes, y.target = x.target, y.shell = x.shell
  PROVE  FocusKept(x, y)
BY DEF FocusKept, Grouped, Shows

LEMMA PrunedFocus ==
  ASSUME NEW x, Shaped(x)
  PROVE  Pruned(x).panes = x.panes /\ Pruned(x).target = x.target /\ Pruned(x).shell = x.shell
         /\ FocusKept(x, Pruned(x))
<1>1. PICK r : Pruned(x) = x \/ Pruned(x) = [x EXCEPT !.regions = r] BY DEF Pruned
<1>2. Pruned(x).panes = x.panes /\ Pruned(x).target = x.target /\ Pruned(x).shell = x.shell
  BY <1>1 DEF Shaped, StateFields
<1> QED BY <1>2, FocusKeptFrom

\* One pane changes: its group is cleared or is what it was
LEMMA FocusKeptButOne ==
  ASSUME NEW x, NEW y, NEW p \in Pane, Shaped(x), y.target = x.target, y.shell = x.shell,
         \A q \in Pane \ {p} : y.panes[q] = x.panes[q],
         Grouped(y, p) => /\ Grouped(x, p) /\ y.panes[p].group = x.panes[p].group
                          /\ y.panes[p].st = x.panes[p].st
  PROVE  FocusKept(x, y)
<1>1. \A q \in Pane \ {p} : Grouped(y, q) <=> Grouped(x, q) BY DEF Grouped, Shows
<1> QED BY <1>1 DEF FocusKept

\* runtime_set_native_pane_window_group_focus
LEMMA GroupFocusedEffect ==
  ASSUME NEW x, NEW p \in Pane, NEW w, NEW members, Shaped(x), GroupShaped(x)
  PROVE  LET y == GroupFocused(x, p, w, members)
         IN /\ y.target = x.target /\ y.shell = x.shell /\ GroupShaped(y)
            /\ \A q \in Pane \ {p} : y.panes[q] = x.panes[q]
            /\ Grouped(y, p) <=> Grouped(x, p)
            /\ Grouped(x, p) => /\ y.panes[p].group.foc = w
                                /\ y.panes[p].group.members = x.panes[p].group.members \cup members
                                /\ y.panes[p].group.prim = x.panes[p].group.prim
                                /\ y.panes[p].st = x.panes[p].st
<1> DEFINE t == [x EXCEPT !.panes[p].group.foc = w, !.panes[p].group.members = @ \cup members]
           y == GroupFocused(x, p, w, members)
<1>1. y = IF Grouped(x, p) THEN t ELSE x BY DEF GroupFocused, Grouped
<1>2. CASE Grouped(x, p)
  <2>1. {"panes", "target", "shell"} \subseteq DOMAIN x /\ DOMAIN x.panes = Pane
    BY DEF Shaped, StateFields
  <2>2. PaneFields \subseteq DOMAIN x.panes[p]
    BY <1>2 DEF Shaped, PaneShaped, Grouped, Shows, NoPane
  <2>3. GroupFields \subseteq DOMAIN x.panes[p].group BY <1>2 DEF GroupShaped
  <2> DEFINE g == [x.panes[p].group EXCEPT !.foc = w, !.members = @ \cup members]
  <2>4. t = [x EXCEPT !.panes[p].group = g] BY <2>1, <2>2, <2>3 DEF PaneFields, GroupFields
  <2>5. /\ DOMAIN g = DOMAIN x.panes[p].group /\ g.foc = w
        /\ g.members = x.panes[p].group.members \cup members /\ g.prim = x.panes[p].group.prim
    BY <2>3 DEF GroupFields
  <2> HIDE DEF g, t
  <2>6. /\ t.target = x.target /\ t.shell = x.shell /\ \A q \in Pane \ {p} : t.panes[q] = x.panes[q]
        /\ t.panes[p] = [x.panes[p] EXCEPT !.group = g]
    BY <2>1, <2>4
  <2>7. t.panes[p].group = g /\ t.panes[p].st = x.panes[p].st /\ t.panes[p].mode = x.panes[p].mode
    BY <2>2, <2>6 DEF PaneFields
  <2>8. g # NoGroup BY <2>3, <2>5 DEF GroupFields, NoGroup
  <2>9. Grouped(t, p) BY <1>2, <2>7, <2>8 DEF Grouped, Shows
  <2>10. \A q \in Pane \ {p} : Grouped(t, q) <=> Grouped(x, q) BY <2>6 DEF Grouped, Shows
  <2>11. GroupShaped(t) BY <2>3, <2>5, <2>6, <2>7, <2>10 DEF GroupShaped
  <2>12. y = t BY <1>1, <1>2
  <2> HIDE DEF y
  <2> QED BY <1>2, <2>5, <2>6, <2>7, <2>9, <2>11, <2>12 DEF y
<1>3. CASE ~Grouped(x, p)
  <2>1. y = x BY <1>1, <1>3
  <2> HIDE DEF y
  <2> QED BY <1>3, <2>1 DEF y
<1> QED BY <1>2, <1>3

LEMMA FocusedFromEffect ==
  ASSUME NEW x, NEW p, NEW advance, Shaped(x), NEW y \in FocusedFrom(x, p, advance)
  PROVE  y.target = p /\ y.shell = x.shell /\ y.panes = x.panes /\ Shaped(y)
<1>1. (\E g : y = [x EXCEPT !.target = p, !.gen = g])
      \/ (\E u, f, g : y = [x EXCEPT !.target = p, !.present[u].foc = f, !.gen = g])
  BY Zenon DEF FocusedFrom
<1>2. StateFields \subseteq DOMAIN x BY DEF Shaped
<1>3. CASE \E g : y = [x EXCEPT !.target = p, !.gen = g]
  <2>1. y.target = p /\ y.shell = x.shell /\ y.panes = x.panes BY <1>2, <1>3 DEF StateFields
  <2> QED BY <2>1, FocusedFromKeeps DEF Kept
<1>4. CASE \E u, f, g : y = [x EXCEPT !.target = p, !.present[u].foc = f, !.gen = g]
  <2>1. y.target = p /\ y.shell = x.shell /\ y.panes = x.panes BY <1>2, <1>4 DEF StateFields
  <2> QED BY <2>1, FocusedFromKeeps DEF Kept
<1> QED BY <1>1, <1>3, <1>4

\* Clearing the group of a pane, and with it the state of its program
LEMMA ClearedFocus ==
  ASSUME NEW x, NEW p \in Pane, NEW st, Shaped(x)
  PROVE  /\ FocusKept(x, [x EXCEPT !.panes[p].group = NoGroup])
         /\ FocusKept(x, [x EXCEPT !.panes[p].st = st, !.panes[p].group = NoGroup])
<1> DEFINE y == [x EXCEPT !.panes[p].group = NoGroup]
           z == [x EXCEPT !.panes[p].st = st, !.panes[p].group = NoGroup]
<1>1. {"panes", "target", "shell"} \subseteq DOMAIN x /\ DOMAIN x.panes = Pane BY DEF Shaped, StateFields
<1>2. /\ y.target = x.target /\ y.shell = x.shell /\ \A q \in Pane \ {p} : y.panes[q] = x.panes[q]
      /\ y.panes[p] = [x.panes[p] EXCEPT !.group = NoGroup]
  BY <1>1
<1>3. /\ z.target = x.target /\ z.shell = x.shell /\ \A q \in Pane \ {p} : z.panes[q] = x.panes[q]
      /\ z.panes[p] = [x.panes[p] EXCEPT !.st = st, !.group = NoGroup]
  BY <1>1
<1> HIDE DEF y, z
<1>4. PaneShaped(x.panes[p]) BY DEF Shaped
<1>5. y.panes[p].mode = x.panes[p].mode /\ z.panes[p].mode = x.panes[p].mode
  BY <1>2, <1>3, <1>4 DEF PaneShaped, NoPane, PaneFields
<1>6. Shows(x, p) => y.panes[p].group = NoGroup /\ z.panes[p].group = NoGroup
  BY <1>2, <1>3, <1>4 DEF Shows, PaneShaped, NoPane, PaneFields
<1>7. ~Grouped(y, p) /\ ~Grouped(z, p) BY <1>5, <1>6 DEF Grouped, Shows
<1>8. FocusKept(x, y) BY <1>2, <1>7, FocusKeptButOne
<1>9. FocusKept(x, z) BY <1>3, <1>7, FocusKeptButOne
<1> QED BY <1>8, <1>9 DEF y, z

LEMMA RequestedFocus ==
  ASSUME NEW x, NEW p \in Pane, Shaped(x)
  PROVE  FocusKept(x, Requested(x, p)) /\ Shaped(Requested(x, p))
<1> DEFINE u == [x EXCEPT !.pend[p] = x.panes[p].rev]
           t == [x EXCEPT !.pend[p] = x.panes[p].rev, !.panes[p].group = NoGroup]
<1>1. Requested(x, p) = IF Wanted(x, p) THEN t ELSE x BY DEF Requested
<1>2. DOMAIN u = DOMAIN x /\ u.panes = x.panes /\ u.regions = x.regions
      /\ u.target = x.target /\ u.shell = x.shell
  BY DEF Shaped, StateFields
<1>3. t = [u EXCEPT !.panes[p].group = NoGroup] OBVIOUS
<1> HIDE DEF u, t
<1>4. Shaped(u) BY <1>2, KeptFrom DEF Kept
<1>5. FocusKept(x, u) BY <1>2, FocusKeptFrom
<1>6. FocusKept(u, t) BY <1>3, <1>4, ClearedFocus
<1>7. FocusKept(x, t) BY <1>5, <1>6, FocusKeptTransitive
<1> QED BY <1>1, <1>7, FocusKeptItself, RequestedKeeps DEF Kept

LEMMA AbandonedFocus ==
  ASSUME NEW x, NEW p \in Pane, Shaped(x)
  PROVE  LET y == Abandoned(x, p)
         IN y.panes = x.panes /\ y.target = x.target /\ y.shell = x.shell /\ Shaped(y) /\ FocusKept(x, y)
<1> DEFINE y == Abandoned(x, p)
<1>1. y.panes = x.panes /\ y.target = x.target /\ y.shell = x.shell
  BY DEF Abandoned, Shaped, StateFields
<1>2. Shaped(y) BY AbandonedKeeps DEF Kept
<1> HIDE DEF y
<1>3. FocusKept(x, y) BY <1>1, FocusKeptFrom
<1> QED BY <1>1, <1>2, <1>3 DEF y

LEMMA RecordedFocus ==
  ASSUME NEW x, NEW gen, Shaped(x)
  PROVE  FocusKept(x, Recorded(x, gen))
<1>1. PICK v : Recorded(x, gen) = [x EXCEPT !.present[gen.surf] = v] BY DEF Recorded
<1> DEFINE y == [x EXCEPT !.present[gen.surf] = v]
<1>2. y.panes = x.panes /\ y.target = x.target /\ y.shell = x.shell BY DEF Shaped, StateFields
<1> HIDE DEF y
<1>3. FocusKept(x, y) BY <1>2, FocusKeptFrom
<1> QED BY <1>1, <1>3 DEF y

\* apply_native_pane_host_plan: a pane that shows what it showed keeps its group
LEMMA AppliedFocus ==
  ASSUME NEW x, NEW r \in Requests, Shaped(x)
  PROVE  FocusKept(x, Applied(x, r)) /\ Shaped(Applied(x, r))
<1> DEFINE p == r.pane
           old == x.panes[p]
           changed == Shows(x, p) /\ (old.mode # "native" \/ old.id # r.id \/ old.bind # r.bind)
           s1 == IF changed THEN Abandoned(x, p) ELSE x
           base == IF Shows(x, p) THEN old ELSE Fresh(FALSE)
           group == IF changed THEN NoGroup ELSE base.group
           y == [base EXCEPT !.mode = "native", !.id = r.id, !.bind = r.bind, !.rev = r.rev,
                             !.group = group]
           accepts == IF r.group # NoInst THEN s1.accepts \cup {p}
                      ELSE IF changed THEN s1.accepts \ {p} ELSE s1.accepts
           t == [s1 EXCEPT !.panes[p] = y, !.accepts = accepts]
<1>1. p \in Pane BY RequestsAssumption
<1>2. Applied(x, r) = Pruned(t) BY DEF Applied
<1>3. PaneFields \subseteq DOMAIN base
  <2>1. Shows(x, p) => PaneFields \subseteq DOMAIN old BY <1>1 DEF Shaped, PaneShaped, Shows, NoPane
  <2>2. PaneFields \subseteq DOMAIN Fresh(FALSE) BY DEF Fresh, PaneFields
  <2> QED BY <2>1, <2>2
<1>4. PaneShaped(y) /\ y.group = group /\ y.st = base.st
  <2> HIDE DEF base, group, p
  <2> QED BY <1>3 DEF PaneShaped, PaneFields
<1>5. ~Shows(x, p) => base.group = NoGroup BY DEF Fresh
<1>6. Shaped(s1) /\ s1.panes = x.panes /\ s1.target = x.target /\ s1.shell = x.shell
  <2> HIDE DEF changed, p
  <2> QED BY <1>1, AbandonedFocus
<1>7. group # NoGroup => Shows(x, p) /\ group = x.panes[p].group /\ base.st = x.panes[p].st
  <2> HIDE DEF changed, p
  <2> QED BY <1>5
<1> HIDE DEF y, accepts, s1, group, base, p
<1>8. /\ t.target = x.target /\ t.shell = x.shell /\ t.panes[p] = y
      /\ \A q \in Pane \ {p} : t.panes[q] = x.panes[q]
  BY <1>1, <1>6 DEF Shaped, StateFields
<1>9. Shaped(t) BY <1>1, <1>4, <1>6, ReplacedShaped
<1> HIDE DEF t
<1>10. Grouped(t, p) => Grouped(x, p) /\ t.panes[p].group = x.panes[p].group /\ t.panes[p].st = x.panes[p].st
  BY <1>4, <1>7, <1>8 DEF Grouped
<1>11. FocusKept(x, t) BY <1>1, <1>8, <1>10, FocusKeptButOne
<1>12. FocusKept(t, Pruned(t)) /\ Shaped(Pruned(t)) BY <1>9, PrunedFocus, PrunedNames
<1> QED BY <1>2, <1>11, <1>12, FocusKeptTransitive

LEMMA PlainFocus ==
  ASSUME NEW x, NEW p \in Pane, Shaped(x), Shows(x, p)
  PROVE  FocusKept(x, Plain(x, p)) /\ Shaped(Plain(x, p))
<1> DEFINE s1 == Abandoned(x, p)
           y == [s1.panes[p] EXCEPT !.mode = "plain", !.id = "noident", !.bind = NoBind,
                                    !.rev = 0, !.group = NoGroup]
           t == [s1 EXCEPT !.panes[p] = y, !.accepts = s1.accepts \ {p}]
<1>1. Shaped(s1) /\ s1.panes = x.panes /\ s1.target = x.target /\ s1.shell = x.shell
  BY AbandonedFocus
<1>2. Plain(x, p) = Pruned(t) BY DEF Plain
<1> HIDE DEF s1
<1>3. PaneFields \subseteq DOMAIN s1.panes[p]
  BY <1>1 DEF Shaped, PaneShaped, Shows, NoPane
<1>4. PaneShaped(y) /\ y.group = NoGroup BY <1>3 DEF PaneShaped, PaneFields
<1> HIDE DEF y
<1>5. Shaped(t) BY <1>1, <1>4, ReplacedShaped
<1>6. /\ t.target = x.target /\ t.shell = x.shell /\ t.panes[p] = y
      /\ \A q \in Pane \ {p} : t.panes[q] = x.panes[q]
  BY <1>1 DEF Shaped, StateFields
<1> HIDE DEF t
<1>7. ~Grouped(t, p) BY <1>4, <1>6 DEF Grouped
<1>8. FocusKept(x, t) BY <1>6, <1>7, FocusKeptButOne
<1>9. FocusKept(t, Pruned(t)) /\ Shaped(Pruned(t)) BY <1>5, PrunedFocus, PrunedNames
<1> QED BY <1>2, <1>8, <1>9, FocusKeptTransitive

LEMMA PlansFocus ==
  ASSUME Shaped(c), Plans
  PROVE  FocusKept(c, c')
<1>1. ASSUME NEW r \in Requests, NEW gen, HostPlan(r, gen) \/ UpdatePlan(r, gen)
      PROVE  FocusKept(c, c')
  <2> DEFINE s == Applied(c, r)
             q == Requested(s, r.pane)
             y == [s EXCEPT !.panes[r.pane].group = NoGroup]
  <2>1. r.pane \in Pane BY RequestsAssumption
  <2>2. c' \in {s, q, Recorded(q, gen), Recorded(s, gen), y} BY <1>1, Zenon DEF HostPlan, UpdatePlan
  <2>3. FocusKept(c, s) /\ Shaped(s) BY AppliedFocus
  <2> HIDE DEF s
  <2>4. FocusKept(s, q) /\ Shaped(q) BY <2>1, <2>3, RequestedFocus
  <2>5. FocusKept(s, y) BY <2>1, <2>3, ClearedFocus
  <2> HIDE DEF q, y
  <2>6. FocusKept(q, Recorded(q, gen)) /\ FocusKept(s, Recorded(s, gen)) BY <2>3, <2>4, RecordedFocus
  <2>7. /\ FocusKept(c, q) /\ FocusKept(c, y) /\ FocusKept(c, Recorded(s, gen))
        /\ FocusKept(q, Recorded(q, gen))
    BY <2>3, <2>4, <2>5, <2>6, FocusKeptTransitive
  <2>8. FocusKept(c, Recorded(q, gen)) BY <2>7, FocusKeptTransitive
  <2> QED BY <2>2, <2>3, <2>7, <2>8
<1>2. ASSUME NEW p \in Pane, SwitchToSurfAce(p) PROVE FocusKept(c, c')
  BY <1>2, PlainFocus DEF SwitchToSurfAce
<1>3. ASSUME NEW p \in Pane, Release(p) PROVE FocusKept(c, c')
  <2> DEFINE s == Plain(c, p)
             t == Forgotten(s, p)
  <2>1. Shows(c, p) /\ (c' = s \/ c' = Pruned(t)) BY <1>3 DEF Release
  <2>2. FocusKept(c, s) /\ Shaped(s) BY <2>1, PlainFocus
  <2> HIDE DEF s
  <2>3. Shaped(t) BY <2>2, ForgottenShaped
  <2>4. /\ t.target = s.target /\ t.shell = s.shell /\ t.panes[p] = NoPane
        /\ \A q \in Pane \ {p} : t.panes[q] = s.panes[q]
    BY <2>2 DEF Forgotten, Shaped, StateFields
  <2> HIDE DEF t
  <2>5. ~Grouped(t, p) BY <2>4 DEF Grouped, Shows, NoPane
  <2>6. FocusKept(s, t) BY <2>2, <2>4, <2>5, FocusKeptButOne
  <2>7. FocusKept(t, Pruned(t)) BY <2>3, PrunedFocus
  <2>8. FocusKept(c, t) BY <2>2, <2>6, FocusKeptTransitive
  <2>9. FocusKept(c, Pruned(t)) BY <2>7, <2>8, FocusKeptTransitive
  <2>10. CASE c' = s BY <2>2, <2>10
  <2>11. CASE c' = Pruned(t)
    <3> HIDE DEF FocusKept
    <3> QED BY <2>9, <2>11, ZenonT(60)
  <2> QED BY <2>1, <2>10, <2>11
<1>4. ASSUME NEW p \in Pane, LaunchHost(p) PROVE FocusKept(c, c')
  BY <1>4, RequestedFocus, ClearedFocus DEF LaunchHost
<1>5. ASSUME NEW p \in Pane, NEW id, SwitchToExternal(p, id) PROVE FocusKept(c, c')
  <2> DEFINE x == [c.panes[p] EXCEPT !.mode = "native", !.id = id, !.group = NoGroup]
             s == [c EXCEPT !.panes[p] = x]
             t == [s EXCEPT !.pend[p] = c.panes[p].rev]
  <2>1. Shows(c, p) /\ c' \in {s, t} BY <1>5 DEF SwitchToExternal
  <2>2. PaneFields \subseteq DOMAIN c.panes[p] BY <2>1 DEF Shaped, PaneShaped, Shows, NoPane
  <2>3. x.group = NoGroup BY <2>2 DEF PaneFields
  <2> HIDE DEF x
  <2>4. /\ s.target = c.target /\ s.shell = c.shell /\ s.panes[p] = x
        /\ \A q \in Pane \ {p} : s.panes[q] = c.panes[q]
    BY DEF Shaped, StateFields
  <2>5. t.target = s.target /\ t.shell = s.shell /\ t.panes = s.panes BY DEF Shaped, StateFields
  <2> HIDE DEF s, t
  <2>6. ~Grouped(s, p) BY <2>3, <2>4 DEF Grouped
  <2>7. FocusKept(c, s) BY <2>4, <2>6, FocusKeptButOne
  <2>8. FocusKept(c, t) BY <2>5, <2>7, FocusKeptFrom, FocusKeptTransitive
  <2> QED BY <2>1, <2>7, <2>8
<1>6. ASSUME NEW shown \in SUBSET Pane, ProviderSnapshot(shown) PROVE FocusKept(c, c')
  <2> DEFINE panes == [p \in Pane |->
                        IF p \notin shown THEN NoPane
                        ELSE IF Shows(c, p) THEN [c.panes[p] EXCEPT !.prov = TRUE] ELSE Fresh(TRUE)]
  <2>1. PICK pend, leaving, stopping :
          c' = Pruned([c EXCEPT !.panes = panes, !.pend = pend, !.leaving = leaving, !.stopping = stopping])
    BY <1>6 DEF ProviderSnapshot
  <2> DEFINE t == [c EXCEPT !.panes = panes, !.pend = pend, !.leaving = leaving, !.stopping = stopping]
  <2>2. \A p \in Pane : PaneShaped(panes[p]) /\
          (panes[p].mode # "nopane" /\ panes[p].group # NoGroup =>
             Shows(c, p) /\ panes[p].group = c.panes[p].group /\ panes[p].st = c.panes[p].st)
    <3> TAKE p \in Pane
    <3> DEFINE y == [c.panes[p] EXCEPT !.prov = TRUE]
    <3>1. Shows(c, p) => PaneShaped(y) /\ y.group = c.panes[p].group /\ y.st = c.panes[p].st
      <4>1. Shows(c, p) => PaneFields \subseteq DOMAIN c.panes[p] /\ c.panes[p].mode \in {"plain", "native"}
        BY DEF Shaped, PaneShaped, Shows, NoPane
      <4> QED BY <4>1 DEF PaneShaped, PaneFields
    <3> HIDE DEF y
    <3>2. panes[p] = IF p \notin shown THEN NoPane ELSE IF Shows(c, p) THEN y ELSE Fresh(TRUE)
      BY DEF y
    <3>3. PaneShaped(NoPane) /\ PaneShaped(Fresh(TRUE)) BY FreshPane DEF PaneShaped
    <3>4. NoPane.mode = "nopane" /\ Fresh(TRUE).group = NoGroup BY DEF NoPane, Fresh
    <3> HIDE DEF panes
    <3> QED BY <3>1, <3>2, <3>3, <3>4
  <2>3. DOMAIN panes = Pane OBVIOUS
  <2> HIDE DEF panes
  <2>4. /\ DOMAIN t = DOMAIN c /\ t.panes = panes /\ t.regions = c.regions
        /\ t.target = c.target /\ t.shell = c.shell
    BY DEF Shaped, StateFields
  <2>5. c' = Pruned(t) BY <2>1
  <2> HIDE DEF t
  <2>6. Shaped(t) BY <2>2, <2>3, <2>4 DEF Shaped
  <2>7. FocusKept(c, t) BY <2>2, <2>4 DEF FocusKept, Grouped, Shows
  <2>8. FocusKept(t, Pruned(t)) BY <2>6, PrunedFocus
  <2>9. FocusKept(c, Pruned(t)) BY <2>7, <2>8, FocusKeptTransitive
  <2> HIDE DEF FocusKept
  <2> QED BY <2>5, <2>9, Zenon
<1>7. (\E r \in Requests : \E gen : HostPlan(r, gen) \/ UpdatePlan(r, gen))
      \/ (\E p \in Pane : SwitchToSurfAce(p) \/ Release(p) \/ LaunchHost(p)
                          \/ \E id : SwitchToExternal(p, id))
      \/ (\E shown \in SUBSET Pane : ProviderSnapshot(shown))
  BY Zenon DEF Plans
<1> QED BY <1>1, <1>2, <1>3, <1>4, <1>5, <1>6, <1>7

LEMMA RegionsFocus ==
  ASSUME Shaped(c), Regions
  PROVE  FocusKept(c, c')
<1>1. ASSUME NEW key, NEW rev, NEW at, SetRegions(key, rev, at) PROVE FocusKept(c, c')
  <2> DEFINE s == IF at = {} THEN Pruned(c) ELSE c
  <2>1. PICK y : c' = [s EXCEPT !.regions = y] BY <1>1 DEF SetRegions
  <2>2. Shaped(s) /\ FocusKept(c, s) BY PrunedFocus, PrunedNames, FocusKeptItself
  <2> HIDE DEF s
  <2>3. c'.panes = s.panes /\ c'.target = s.target /\ c'.shell = s.shell
    BY <2>1, <2>2 DEF Shaped, StateFields
  <2>4. FocusKept(s, c') BY <2>3, FocusKeptFrom
  <2> QED BY <2>2, <2>4, FocusKeptTransitive
<1>2. ASSUME NEW key, ClearRegions(key) PROVE FocusKept(c, c')
  <2>1. c'.panes = c.panes /\ c'.target = c.target /\ c'.shell = c.shell
    BY <1>2 DEF ClearRegions, Shaped, StateFields
  <2> QED BY <2>1, FocusKeptFrom
<1> QED BY <1>1, <1>2 DEF Regions

LEMMA AttachedFocus ==
  ASSUME NEW x, NEW p \in Pane, Shaped(x)
  PROVE  /\ FocusKept(x, Attached(x, p)) /\ FocusKept(x, Detached(x, p))
         /\ Grouped(Detached(x, p), p) => x.panes[p].st = "off"
<1> DEFINE t == [x EXCEPT !.panes[p].st = "attached", !.panes[p].group = NoGroup]
           u == [x EXCEPT !.panes[p].st = "launching", !.panes[p].group = NoGroup]
<1>1. Attached(x, p) \in {x, t} BY DEF Attached
<1>2. Detached(x, p) = IF Shows(x, p) /\ x.panes[p].st # "off" THEN Pruned(u) ELSE x BY DEF Detached
<1>3. FocusKept(x, t) /\ FocusKept(x, u) BY ClearedFocus
<1>4. Shaped(u) BY StatusKeeps DEF Kept
<1>5. Shows(x, p) => u.panes[p].group = NoGroup
  <2>1. {"panes"} \subseteq DOMAIN x /\ DOMAIN x.panes = Pane BY DEF Shaped, StateFields
  <2>2. Shows(x, p) => PaneFields \subseteq DOMAIN x.panes[p] BY DEF Shaped, PaneShaped, Shows, NoPane
  <2> QED BY <2>1, <2>2 DEF PaneFields
<1> HIDE DEF t, u
<1>6. FocusKept(u, Pruned(u)) /\ Pruned(u).panes = u.panes BY <1>4, PrunedFocus
<1>7. FocusKept(x, Pruned(u)) BY <1>3, <1>6, FocusKeptTransitive
<1>8. FocusKept(x, Attached(x, p)) /\ FocusKept(x, Detached(x, p))
  BY <1>1, <1>2, <1>3, <1>7, FocusKeptItself
<1>9. Grouped(Detached(x, p), p) => x.panes[p].st = "off"
  BY <1>2, <1>5, <1>6 DEF Grouped, Shows
<1> QED BY <1>8, <1>9

LEMMA ProgramsFocus ==
  ASSUME Shaped(c), Programs
  PROVE  FocusKept(c, c')
<1>1. ASSUME NEW p \in Pane, Started(p) PROVE FocusKept(c, c')
  <2> DEFINE s == [c EXCEPT !.pend[p] = NoRev]
             t == [s EXCEPT !.panes[p].st = "launching", !.panes[p].group = NoGroup]
             u == [s EXCEPT !.leaving = @ \cup {p}]
  <2>1. c' = t \/ c' = u BY <1>1 DEF Started
  <2>2. /\ DOMAIN s = DOMAIN c /\ s.panes = c.panes /\ s.regions = c.regions
        /\ s.target = c.target /\ s.shell = c.shell
    BY DEF Shaped, StateFields
  <2> HIDE DEF s
  <2>3. FocusKept(c, s) /\ Shaped(s) BY <2>2, FocusKeptFrom, KeptFrom DEF Kept
  <2>4. FocusKept(s, t) BY <2>3, ClearedFocus
  <2>5. u.panes = s.panes /\ u.target = s.target /\ u.shell = s.shell BY <2>3 DEF Shaped, StateFields
  <2> HIDE DEF u, t
  <2>6. FocusKept(s, u) BY <2>5, FocusKeptFrom
  <2> QED BY <2>1, <2>3, <2>4, <2>6, FocusKeptTransitive
<1>2. ASSUME NEW p \in Pane, StartFails(p) PROVE FocusKept(c, c')
  <2> DEFINE s == [c EXCEPT !.pend[p] = NoRev]
             t == [s EXCEPT !.panes[p].group = NoGroup]
  <2>1. c' = t BY <1>2 DEF StartFails
  <2>2. /\ DOMAIN s = DOMAIN c /\ s.panes = c.panes /\ s.regions = c.regions
        /\ s.target = c.target /\ s.shell = c.shell
    BY DEF Shaped, StateFields
  <2> HIDE DEF s
  <2>3. FocusKept(c, s) /\ Shaped(s) BY <2>2, FocusKeptFrom, KeptFrom DEF Kept
  <2>4. FocusKept(s, t) BY <2>3, ClearedFocus
  <2> HIDE DEF t
  <2> QED BY <2>1, <2>3, <2>4, FocusKeptTransitive
<1>3. ASSUME NEW p \in Pane, Exits(p) PROVE FocusKept(c, c')
  <2> DEFINE s == [c EXCEPT !.panes[p].st = "off", !.panes[p].group = NoGroup]
  <2>1. PICK x, y : c' = Pruned([s EXCEPT !.leaving = x, !.stopping = y]) BY <1>3 DEF Exits
  <2> DEFINE t == [s EXCEPT !.leaving = x, !.stopping = y]
  <2>2. FocusKept(c, s) /\ Shaped(s) BY ClearedFocus, StatusKeeps DEF Kept
  <2> HIDE DEF s
  <2>3. /\ DOMAIN t = DOMAIN s /\ t.panes = s.panes /\ t.regions = s.regions
        /\ t.target = s.target /\ t.shell = s.shell
    BY <2>2 DEF Shaped, StateFields
  <2>4. c' = Pruned(t) BY <2>1
  <2> HIDE DEF t
  <2>5. FocusKept(s, t) /\ Shaped(t) BY <2>2, <2>3, FocusKeptFrom, KeptFrom DEF Kept
  <2>6. FocusKept(t, Pruned(t)) BY <2>5, PrunedFocus
  <2>7. FocusKept(c, t) BY <2>2, <2>5, FocusKeptTransitive
  <2>8. FocusKept(c, Pruned(t)) BY <2>6, <2>7, FocusKeptTransitive
  <2> QED BY <2>4, <2>8
<1>4. ASSUME NEW p \in Pane, Stopped(p) PROVE FocusKept(c, c')
  <2> DEFINE s == [c EXCEPT !.stopping = @ \ {p}]
             t == [s EXCEPT !.panes[p].st = "off", !.panes[p].group = NoGroup]
             u == [c EXCEPT !.leaving = @ \ {p}]
  <2>1. c' = Requested(t, p) \/ c' = Requested(u, p) BY <1>4 DEF Stopped
  <2>2. /\ DOMAIN s = DOMAIN c /\ s.panes = c.panes /\ s.regions = c.regions
        /\ s.target = c.target /\ s.shell = c.shell
        /\ DOMAIN u = DOMAIN c /\ u.panes = c.panes /\ u.regions = c.regions
        /\ u.target = c.target /\ u.shell = c.shell
    BY DEF Shaped, StateFields
  <2> HIDE DEF s, u
  <2>3. FocusKept(c, s) /\ Shaped(s) /\ FocusKept(c, u) /\ Shaped(u)
    BY <2>2, FocusKeptFrom, KeptFrom DEF Kept
  <2>4. FocusKept(s, t) /\ Shaped(t) BY <2>3, ClearedFocus, StatusKeeps DEF Kept
  <2> HIDE DEF t
  <2>5. FocusKept(c, t) BY <2>3, <2>4, FocusKeptTransitive
  <2>6. FocusKept(t, Requested(t, p)) /\ FocusKept(u, Requested(u, p)) BY <2>3, <2>4, RequestedFocus
  <2>7. FocusKept(c, Requested(t, p)) /\ FocusKept(c, Requested(u, p))
    BY <2>3, <2>5, <2>6, FocusKeptTransitive
  <2> QED BY <2>1, <2>7
<1>5. ASSUME NEW p \in Pane, BindSurface(p) PROVE FocusKept(c, c')
  BY <1>5, AttachedFocus DEF BindSurface
<1> QED BY <1>1, <1>2, <1>3, <1>4, <1>5 DEF Programs

\* What the control threads do besides asking for focus
LEMMA ChangesFocus ==
  ASSUME RegionInv, ControlChanges
  PROVE  FocusKept(c, c')
BY PlansFocus, RegionsFocus, ProgramsFocus DEF ControlChanges, RegionInv

-----------------------------------------------------------------------------
(* A route, as the steps that are left to do after it                      *)

Told(t)       == [op |-> "told", t |-> t]
Written(t, b) == [op |-> "write", t |-> t, shell |-> b]

\* What a route to a target and a window leaves to do before the next steps
RouteWrites(t, next) ==
  IF t # c.target \/ c.shell THEN Cons(Written(t, c.shell /\ t = "overlay"), next) ELSE next
RouteLeft(t, w, next) ==
  IF t \in Pane THEN Cons(Note(w, FALSE), RouteWrites(t, next)) ELSE RouteWrites(t, next)

RouteStart == [h EXCEPT !.ordFocus = NoOrd]

LEMMA RouteStartParts ==
  ASSUME Listed(h), Memory(h)
  PROVE  /\ Listed(RouteStart) /\ Memory(RouteStart) /\ SameLists(h, RouteStart)
         /\ RouteStart.mapped = h.mapped /\ RouteStart.kbd = h.kbd
         /\ RouteStart.focused = h.focused /\ RouteStart.ordFocus = NoOrd
<1> DEFINE s == RouteStart
<1>1. ListFields \subseteq DOMAIN h /\ MemoryFields \subseteq DOMAIN h BY DEF Listed, Memory
<1>2. /\ DOMAIN s = DOMAIN h /\ s.ordFocus = NoOrd
      /\ \A f \in DOMAIN h \ {"ordFocus"} : s[f] = h[f]
  BY <1>1 DEF RouteStart, MemoryFields
<1> HIDE DEF s
<1>3. SameLists(h, s) BY <1>1, <1>2 DEF SameLists, ListFields
<1>4. s.mapped = h.mapped /\ s.kbd = h.kbd /\ s.focused = h.focused /\ s.history = h.history
  BY <1>1, <1>2 DEF MemoryFields
<1>5. {"win", "target"} \subseteq DOMAIN NoOrd BY DEF NoOrd
<1>6. Memory(s) BY <1>1, <1>2, <1>4, <1>5 DEF Memory
<1>7. Listed(s) BY <1>3, SameListsListed
<1> QED BY <1>2, <1>3, <1>4, <1>6, <1>7 DEF s

\* What a route leaves to do
LEMMA RouteTails ==
  ASSUME NEW next, IsList(next), NEW nt, NEW op
  PROVE  /\ <<nt>> \o <<op>> \o next = Cons(nt, Cons(op, next))
         /\ <<nt>> \o <<>> \o next = Cons(nt, next)
         /\ <<>> \o <<op>> \o next = Cons(op, next)
         /\ <<>> \o <<>> \o next = next
<1>1. IsList(<<>>) /\ <<nt>> = Cons(nt, <<>>) /\ <<op>> = Cons(op, <<>>) BY EmptyList, ConsForms
<1>2. IsList(<<op>>) /\ IsList(<<nt>>) BY <1>1, ConsList
<1>3. <<>> \o next = next /\ <<op>> \o next = Cons(op, next) /\ <<nt>> \o next = Cons(nt, next)
      /\ <<nt, op>> \o next = Cons(nt, Cons(op, next))
  BY ConsForms
<1>4. <<>> \o <<>> = <<>> /\ <<>> \o <<op>> = <<op>> BY <1>1, <1>2, ConsForms
<1>5. <<nt>> \o <<>> = <<nt>> BY <1>1, ConsForms
<1>6. <<nt>> \o <<op>> = <<nt, op>>
  <2>1. <<nt>> \o <<op>> = Cons(nt, <<op>>) BY <1>2, ConsForms
  <2>2. <<nt, op>> = Cons(nt, Cons(op, <<>>)) BY <1>1, ConsForms
  <2> QED BY <2>1, <2>2, <1>1
<1> QED BY <1>3, <1>4, <1>5, <1>6

\* apply_focus_route: an ordinary window keeps the keyboard, or the target is
\* resolved, the pane is told its window and CompositorState a changed target
LEMMA RouteOutcome ==
  ASSUME Listed(h), Memory(h), NEW next, IsList(next), RouteFocus(next)
  PROVE  LET r == Resolved(RouteStart)
         IN /\ SameLists(h, h') /\ Memory(h') /\ h'.mapped = h.mapped
            /\ KeepsOrdinary =>
                 /\ h'.kbd = h.ordFocus.win /\ h'.focused = h.focused
                 /\ \/ h' = h /\ todo' = next
                    \/ /\ todo' = Cons(Told(Role(h, h.ordFocus.win)), next)
                       /\ h'.ordFocus = [win |-> h.ordFocus.win, target |-> NoFocus]
            /\ ~KeepsOrdinary =>
                 /\ r.t = Role(h, r.win) /\ (r.win # NoWin => r.win \in Placed(h))
                 /\ h'.kbd = r.win /\ h'.focused = r.h.focused /\ h'.ordFocus.target = NoFocus
                 /\ todo' \in {RouteLeft(r.t, r.win, next), Cons(Told(r.t), RouteLeft(r.t, r.win, next))}
            /\ IsList(todo')
<1> DEFINE s == RouteStart
           r == Resolved(s)
<1>1. CASE KeepsOrdinary
  <2> DEFINE w == h.ordFocus.win
  <2>1. Keyboard(h, w, next) /\ w \in Range(h.ordinary) BY <1>1 DEF RouteFocus, KeepsOrdinary
  <2> HIDE DEF w
  <2>2. /\ SameLists(h, h') /\ Memory(h')
        /\ h'.mapped = h.mapped /\ h'.focused = h.focused
        /\ h'.kbd = w
        /\ h.kbd = w => h' = h /\ todo' = next
        /\ h.kbd # w => /\ todo' = Cons(Told(Role(h, w)), next)
                        /\ h'.ordFocus = [win |-> w, target |-> NoFocus]
    BY <2>1, KeyboardMoves DEF Told
  <2>3. IsList(todo') BY <2>2, ConsList
  <2> QED BY <1>1, <2>2, <2>3 DEF w
<1>2. CASE ~KeepsOrdinary
  <2> DEFINE b     == c.shell /\ r.t = "overlay"
             q     == IF r.t # c.target \/ c.shell THEN Cons(Written(r.t, b), next) ELSE next
             rest  == IF r.t \in Pane THEN Cons(Note(r.win, FALSE), q) ELSE q
             note  == IF r.t \in Pane THEN <<Note(r.win, FALSE)>> ELSE <<>>
             write == IF r.t # c.target \/ c.shell
                      THEN <<[op |-> "write", t |-> r.t, shell |-> c.shell /\ r.t = "overlay"]>> ELSE <<>>
  <2>1. Keyboard(r.h, r.win, note \o write \o next) BY <1>2 DEF RouteFocus, RouteStart
  <2>2. /\ Listed(s) /\ Memory(s) /\ SameLists(h, s) /\ s.mapped = h.mapped /\ s.ordFocus = NoOrd
    BY RouteStartParts
  <2> HIDE DEF s
  <2>3. /\ Refocused(s, r.h) /\ Memory(r.h) /\ r.t = Role(s, r.win) /\ (r.win # NoWin => r.win \in Placed(s))
    BY <2>2, ResolvedFinds
  <2> HIDE DEF r
  <2>4. SameLists(s, r.h) /\ r.h.mapped = s.mapped /\ r.h.ordFocus = NoOrd /\ Listed(r.h)
    <3>1. SameLists(s, r.h) /\ r.h.mapped = s.mapped /\ r.h.ordFocus = NoOrd
      BY <2>2, <2>3, RefocusedParts
    <3> QED BY <2>2, <3>1, SameListsListed
  <2>5. SameLists(h, r.h) BY <2>2, <2>4 DEF SameLists
  <2>6. IsList(q) /\ IsList(rest) BY ConsList
  <2>7. note \o write \o next = rest
    <3> DEFINE nt == Note(r.win, FALSE)
               op == Written(r.t, b)
    <3>1. write = IF r.t # c.target \/ c.shell THEN <<op>> ELSE <<>> BY DEF Written
    <3>2. note = IF r.t \in Pane THEN <<nt>> ELSE <<>> OBVIOUS
    <3>3. q = IF r.t # c.target \/ c.shell THEN Cons(op, next) ELSE next OBVIOUS
    <3>4. rest = IF r.t \in Pane THEN Cons(nt, q) ELSE q OBVIOUS
    <3> HIDE DEF b, q, note, write, rest, nt, op
    <3>5. /\ <<nt>> \o <<op>> \o next = Cons(nt, Cons(op, next))
          /\ <<nt>> \o <<>> \o next = Cons(nt, next)
          /\ <<>> \o <<op>> \o next = Cons(op, next)
          /\ <<>> \o <<>> \o next = next
      BY RouteTails
    <3>6. CASE r.t \in Pane /\ (r.t # c.target \/ c.shell) BY ONLY <3>1, <3>2, <3>3, <3>4, <3>5, <3>6
    <3>7. CASE r.t \in Pane /\ ~(r.t # c.target \/ c.shell) BY ONLY <3>1, <3>2, <3>3, <3>4, <3>5, <3>7
    <3>8. CASE r.t \notin Pane /\ (r.t # c.target \/ c.shell) BY ONLY <3>1, <3>2, <3>3, <3>4, <3>5, <3>8
    <3>9. CASE r.t \notin Pane /\ ~(r.t # c.target \/ c.shell) BY ONLY <3>1, <3>2, <3>3, <3>4, <3>5, <3>9
    <3> QED BY <3>6, <3>7, <3>8, <3>9
  <2>8. Keyboard(r.h, r.win, rest) BY <2>1, <2>7
  <2>9. rest = RouteLeft(r.t, r.win, next) BY DEF RouteLeft, RouteWrites
  <2> HIDE DEF q, rest, b, note, write
  <2>11. /\ SameLists(r.h, h') /\ Memory(h') /\ h'.mapped = r.h.mapped /\ h'.focused = r.h.focused
         /\ h'.kbd = r.win
         /\ r.h.kbd = r.win => h' = r.h /\ todo' = rest
         /\ r.h.kbd # r.win => /\ todo' = Cons(Told(Role(r.h, r.win)), rest)
                               /\ h'.ordFocus.target = NoFocus
    <3>1. Listed(r.h) /\ Memory(r.h) /\ IsList(rest) BY <2>3, <2>4, <2>6
    <3> DEFINE g == r.h
               w == r.win
    <3>2. Listed(g) /\ Memory(g) /\ IsList(rest) /\ Keyboard(g, w, rest) /\ g.ordFocus = NoOrd
      BY <3>1, <2>4, <2>8
    <3> HIDE DEF g, w
    <3>3. /\ SameLists(g, h') /\ Memory(h') /\ h'.mapped = g.mapped /\ h'.focused = g.focused
          /\ h'.kbd = w
      BY <3>2, KeyboardMoves
    <3>4. g.kbd = w => h' = g /\ todo' = rest BY <3>2, KeyboardMoves
    <3>5. g.kbd # w => todo' = Cons(Told(Role(g, w)), rest) /\ h'.ordFocus.target = NoFocus
      BY <3>2, KeyboardMoves DEF Told
    <3> QED BY <3>3, <3>4, <3>5 DEF g, w
  <2>12. SameLists(h, h') BY <2>5, <2>11 DEF SameLists
  <2>13. r.t = Role(h, r.win) /\ Role(r.h, r.win) = r.t /\ (r.win # NoWin => r.win \in Placed(h))
    BY <2>2, <2>3, <2>4, SameRoles
  <2>14. h'.ordFocus.target = NoFocus BY <2>4, <2>11 DEF NoOrd
  <2>15. todo' \in {rest, Cons(Told(r.t), rest)} BY <2>11, <2>13
  <2>16. IsList(todo') BY <2>6, <2>15, ConsList
  <2>17. h'.mapped = h.mapped BY <2>2, <2>4, <2>11
  <2>18. todo' \in {RouteLeft(r.t, r.win, next), Cons(Told(r.t), RouteLeft(r.t, r.win, next))}
    BY <2>9, <2>15
  <2>19. h'.kbd = r.win /\ h'.focused = r.h.focused BY <2>11
  <2> QED BY <1>2, <2>12, <2>11, <2>13, <2>14, <2>16, <2>17, <2>18, <2>19 DEF r, s
<1> QED BY <1>1, <1>2

-----------------------------------------------------------------------------
(* What the handlers always hold: the lists name windows that live, the    *)
(* keyboard is with one that has come, what is left to do fits             *)

Living(l) == {w \in Window : l[w] = "live"}
Come(l)   == {NoWin} \cup {w \in Window : l[w] \in {"live", "gone"}}

Fit(s, l, e) ==
  /\ e.op \in {"fallback", "sync", "group", "attach", "observe", "detach"} => e.pane \in Pane
  /\ e.op \in {"focus", "mapped"} => e.win \in Come(l)
  /\ e.op = "observe" => s.root[e.pane] = e.win /\ e.win # NoWin

\* Nothing follows a key; after a route or a toggle come only toggles and a key
Ends(q) ==
  \A i, j \in DOMAIN q : i < j =>
    /\ q[i].op # "key"
    /\ q[i].op \in {"route", "toggle"} => q[j].op \in {"key", "toggle"}

Due(s, l, q) == IsList(q) /\ Ends(q) /\ \A e \in Range(q) : Fit(s, l, e)

Handled(s, l, q) ==
  /\ DOMAIN l = Window
  /\ Memory(s)
  /\ Listing(s) \subseteq Living(l)
  /\ s.main \notin Range(s.ordinary)
  /\ s.kbd \in Come(l)
  /\ Due(s, l, q)

LEMMA ConsParts ==
  ASSUME NEW q, IsList(q), NEW e
  PROVE  LET r == Cons(e, q)
         IN /\ Len(q) \in Nat /\ DOMAIN q = 1 .. Len(q)
            /\ DOMAIN r = 1 .. Len(q) + 1 /\ r[1] = e
            /\ \A i \in 1 .. Len(q) : r[i + 1] = q[i]
<1> DEFINE r == <<e>> \o q
           T == {e} \cup Range(q)
<1>1. <<e>> \in Seq(T) /\ q \in Seq(T) BY DEF IsList
<1>2. /\ Len(r) = Len(q) + 1 /\ Len(q) \in Nat /\ r[1] = e /\ DOMAIN q = 1 .. Len(q)
      /\ \A i \in 1 .. Len(q) : r[i + 1] = q[i]
  BY <1>1
<1>3. r \in Seq(T) BY <1>1
<1> HIDE DEF r, T
<1>4. DOMAIN r = 1 .. Len(r) BY <1>3
<1> QED BY <1>2, <1>4 DEF Cons, r

LEMMA EndsCons ==
  ASSUME NEW q, IsList(q), NEW e
  PROVE  Ends(Cons(e, q)) <=>
           /\ Ends(q)
           /\ e.op = "key" => q = <<>>
           /\ e.op \in {"route", "toggle"} => \A x \in Range(q) : x.op \in {"key", "toggle"}
<1> DEFINE r == Cons(e, q)
           n == Len(q)
<1>1. /\ n \in Nat /\ DOMAIN q = 1 .. n
      /\ DOMAIN r = 1 .. n + 1 /\ r[1] = e
      /\ \A i \in 1 .. n : r[i + 1] = q[i]
  BY ConsParts
<1>2. q = <<>> <=> n = 0 BY DEF IsList
<1> HIDE DEF r, n
<1>3. ASSUME Ends(r) PROVE Ends(q)
  <2> SUFFICES ASSUME NEW i \in 1 .. n, NEW j \in 1 .. n, i < j
               PROVE  /\ q[i].op # "key"
                      /\ q[i].op \in {"route", "toggle"} => q[j].op \in {"key", "toggle"}
    BY <1>1 DEF Ends
  <2>1. i + 1 \in DOMAIN r /\ j + 1 \in DOMAIN r /\ i + 1 < j + 1 /\ r[i + 1] = q[i] /\ r[j + 1] = q[j]
    BY <1>1
  <2> QED BY <1>3, <2>1 DEF Ends
<1>4. ASSUME Ends(r), n # 0 PROVE e.op # "key"
  <2>1. 1 \in DOMAIN r /\ 2 \in DOMAIN r BY <1>1, <1>4
  <2> QED BY <1>1, <1>4, <2>1 DEF Ends
<1>5. ASSUME Ends(r), e.op \in {"route", "toggle"}, NEW x \in Range(q) PROVE x.op \in {"key", "toggle"}
  <2>1. PICK i \in 1 .. n : x = q[i] BY <1>1 DEF Range
  <2>2. 1 \in DOMAIN r /\ i + 1 \in DOMAIN r /\ 1 < i + 1 /\ r[i + 1] = x BY <1>1, <2>1
  <2> QED BY <1>1, <1>5, <2>2 DEF Ends
<1>6. ASSUME Ends(q), e.op = "key" => n = 0,
             e.op \in {"route", "toggle"} => \A x \in Range(q) : x.op \in {"key", "toggle"}
      PROVE  Ends(r)
  <2> SUFFICES ASSUME NEW i \in 1 .. n + 1, NEW j \in 1 .. n + 1, i < j
               PROVE  /\ r[i].op # "key"
                      /\ r[i].op \in {"route", "toggle"} => r[j].op \in {"key", "toggle"}
    BY <1>1 DEF Ends
  <2>1. j - 1 \in 1 .. n /\ r[j] = q[j - 1]
    <3>1. j - 1 \in 1 .. n BY <1>1
    <3>2. r[(j - 1) + 1] = q[j - 1] /\ (j - 1) + 1 = j BY <1>1, <3>1
    <3> QED BY <3>1, <3>2
  <2>2. CASE i = 1
    <3>1. r[j] \in Range(q) BY <1>1, <2>1 DEF Range
    <3> QED BY <1>1, <1>6, <2>2, <2>1, <3>1
  <2>3. CASE i # 1
    <3>1. i - 1 \in 1 .. n BY <1>1, <2>3
    <3>2. r[(i - 1) + 1] = q[i - 1] /\ (i - 1) + 1 = i /\ i - 1 < j - 1 BY <1>1, <3>1
    <3> QED BY <1>1, <1>6, <2>1, <3>1, <3>2, SMTT(30) DEF Ends
  <2> QED BY <2>2, <2>3
<1> QED BY <1>2, <1>3, <1>4, <1>5, <1>6 DEF r

LEMMA DueCons ==
  ASSUME NEW s, NEW l, NEW q, Due(s, l, q), NEW e, Fit(s, l, e),
         e.op = "key" => q = <<>>,
         e.op \in {"route", "toggle"} => \A x \in Range(q) : x.op \in {"key", "toggle"}
  PROVE  Due(s, l, Cons(e, q))
BY ConsList, EndsCons DEF Due

LEMMA DueTail ==
  ASSUME NEW s, NEW l, NEW q, Due(s, l, q), q # <<>>
  PROVE  /\ Due(s, l, Tail(q)) /\ Fit(s, l, Head(q)) /\ q = Cons(Head(q), Tail(q))
         /\ Head(q).op = "key" => Tail(q) = <<>>
         /\ Head(q).op \in {"route", "toggle"} => \A x \in Range(Tail(q)) : x.op \in {"key", "toggle"}
<1>1. IsList(Tail(q)) /\ q = Cons(Head(q), Tail(q)) /\ Head(q) \in Range(q)
      /\ Range(Tail(q)) \subseteq Range(q)
  BY TailList DEF Due
<1> DEFINE e == Head(q)
           r == Tail(q)
<1> HIDE DEF e, r
<1>2. Ends(Cons(e, r)) BY <1>1 DEF Due, e, r
<1>3. /\ Ends(r)
      /\ e.op = "key" => r = <<>>
      /\ e.op \in {"route", "toggle"} => \A x \in Range(r) : x.op \in {"key", "toggle"}
  BY <1>1, <1>2, EndsCons DEF e, r
<1> QED BY <1>1, <1>3 DEF Due, e, r

LEMMA DueEmpty ==
  ASSUME NEW s, NEW l
  PROVE  Due(s, l, <<>>)
<1>1. DOMAIN <<>> = {} OBVIOUS
<1> QED BY <1>1, EmptyList DEF Due, Ends

\* What is left to do fits whatever kept the windows of the panes
LEMMA DueKept ==
  ASSUME NEW s, NEW t, NEW l, NEW k, NEW q, Due(s, l, q), t.root = s.root, Come(l) \subseteq Come(k)
  PROVE  Due(t, k, q)
BY DEF Due, Fit

LEMMA DueOf ==
  ASSUME NEW s, NEW l
  PROVE  /\ Due(s, l, <<Status, Route>>)
         /\ Due(s, l, <<Route, [op |-> "key"]>>)
         /\ Due(s, l, <<Route, [op |-> "toggle"]>>)
         /\ \A w : Due(s, l, After(w))
         /\ \A p \in Pane : /\ Due(s, l, <<Sync(p)>>) /\ Due(s, l, <<Sync(p), Status>>)
                            /\ Due(s, l, <<[op |-> "fallback", pane |-> p], Sync(p)>>)
<1> USE DEF Fit
<1>1. Due(s, l, <<>>) BY DueEmpty
<1>2. Due(s, l, Cons(Route, <<>>)) BY <1>1, DueCons, EmptyList DEF Route
<1>3. Due(s, l, Cons(Status, Cons(Route, <<>>))) BY <1>2, DueCons DEF Status
<1>4. \A w : Due(s, l, Cons([op |-> "drop", win |-> w], Cons(Status, Cons(Route, <<>>))))
  BY <1>3, DueCons
<1>5. ASSUME NEW e, e \in {[op |-> "key"], [op |-> "toggle"]}
      PROVE  Due(s, l, Cons(Route, Cons(e, <<>>)))
  <2>1. e.op \in {"key", "toggle"} BY <1>5
  <2>2. Due(s, l, Cons(e, <<>>)) BY <1>1, <1>5, <2>1, DueCons, EmptyList
  <2>3. Range(Cons(e, <<>>)) = {e} BY EmptyList, ConsList
  <2> QED BY <2>1, <2>2, <2>3, DueCons DEF Route
<1>6. ASSUME NEW p \in Pane
      PROVE  /\ Due(s, l, Cons(Sync(p), <<>>)) /\ Due(s, l, Cons(Sync(p), Cons(Status, <<>>)))
             /\ Due(s, l, Cons([op |-> "fallback", pane |-> p], Cons(Sync(p), <<>>)))
  <2>1. Due(s, l, Cons(Status, <<>>)) BY <1>1, DueCons DEF Status
  <2>2. Due(s, l, Cons(Sync(p), <<>>)) BY <1>1, DueCons DEF Sync
  <2>3. Due(s, l, Cons(Sync(p), Cons(Status, <<>>))) BY <2>1, DueCons DEF Sync
  <2>4. Due(s, l, Cons([op |-> "fallback", pane |-> p], Cons(Sync(p), <<>>))) BY <2>2, DueCons
  <2> QED BY <2>2, <2>3, <2>4
<1>7. /\ <<Status, Route>> = Cons(Status, Cons(Route, <<>>))
      /\ \A e : <<Route, e>> = Cons(Route, Cons(e, <<>>))
      /\ \A w : After(w) = Cons([op |-> "drop", win |-> w], Cons(Status, Cons(Route, <<>>)))
      /\ \A p : /\ <<Sync(p)>> = Cons(Sync(p), <<>>)
                /\ <<Sync(p), Status>> = Cons(Sync(p), Cons(Status, <<>>))
                /\ <<[op |-> "fallback", pane |-> p], Sync(p)>>
                     = Cons([op |-> "fallback", pane |-> p], Cons(Sync(p), <<>>))
  BY EmptyList, ConsForms DEF After
<1> QED BY <1>3, <1>4, <1>5, <1>6, <1>7

LEMMA ComesLife ==
  ASSUME NEW w \in Window, DOMAIN life = Window, Comes(w)
  PROVE  /\ DOMAIN life' = Window /\ Living(life') = Living(life) \cup {w}
         /\ Come(life') = Come(life) \cup {w} /\ w \notin Come(life) /\ todo = <<>>
<1>1. life[w] = "new" /\ life' = [life EXCEPT ![w] = "live"] /\ todo = <<>> BY DEF Comes, Idle
<1>2. DOMAIN life' = Window /\ \A v \in Window : life'[v] = IF v = w THEN "live" ELSE life[v] BY <1>1
<1> QED BY <1>1, <1>2, PresentationAssumption DEF Living, Come

LEMMA GoneLife ==
  ASSUME NEW w \in Window, DOMAIN life = Window, Gone(w)
  PROVE  /\ DOMAIN life' = Window /\ Living(life') = Living(life) \ {w}
         /\ Come(life') = Come(life) /\ w \in Living(life) /\ todo = <<>>
<1>1. life[w] = "live" /\ life' = [life EXCEPT ![w] = "gone"] /\ todo = <<>> BY DEF Gone, Idle, Alive
<1>2. DOMAIN life' = Window /\ \A v \in Window : life'[v] = IF v = w THEN "gone" ELSE life[v] BY <1>1
<1> QED BY <1>1, <1>2, PresentationAssumption DEF Living, Come

-----------------------------------------------------------------------------
(* ... through the steps of the handlers                                   *)

LEMMA LivingCome ==
  ASSUME NEW l
  PROVE  Living(l) \subseteq Come(l) /\ NoWin \in Come(l)
BY DEF Living, Come

LEMMA ToldDue ==
  ASSUME NEW s, NEW l, NEW next, Due(s, l, next), NEW t
  PROVE  Due(s, l, Cons(Told(t), next)) /\ \A b : Due(s, l, Cons(Written(t, b), next))
BY DueCons DEF Fit, Told, Written

LEMMA NoteDue ==
  ASSUME NEW s, NEW l, NEW next, Due(s, l, next), NEW w, NEW b
  PROVE  /\ Due(s, l, Cons(Note(w, b), next))
         /\ w \in Come(l) => Due(s, l, Cons(Note(w, b), Cons(Focus(w), next)))
<1>1. \A q : Due(s, l, q) => Due(s, l, Cons(Note(w, b), q)) BY DueCons DEF Fit, Note
<1>2. w \in Come(l) => Due(s, l, Cons(Focus(w), next)) BY DueCons DEF Fit, Focus
<1> QED BY <1>1, <1>2

LEMMA RefocusForms ==
  ASSUME NEW next, IsList(next), NEW w, NEW b
  PROVE  <<>> \o next = next /\ <<Note(w, b), Focus(w)>> \o next = Cons(Note(w, b), Cons(Focus(w), next))
<1> DEFINE x == Note(w, b)
           y == Focus(w)
<1> HIDE DEF x, y
<1>1. <<>> \o next = next /\ <<x, y>> \o next = Cons(x, Cons(y, next)) BY ConsForms
<1> QED BY <1>1 DEF x, y

LEMMA RouteLeftDue ==
  ASSUME NEW s, NEW l, NEW next, Due(s, l, next), NEW t, NEW w
  PROVE  Due(s, l, RouteLeft(t, w, next)) /\ Due(s, l, Cons(Told(t), RouteLeft(t, w, next)))
<1>1. Due(s, l, RouteWrites(t, next)) BY ToldDue DEF RouteWrites
<1> DEFINE q == RouteLeft(t, w, next)
<1>2. Due(s, l, q) BY <1>1, NoteDue DEF RouteLeft
<1> HIDE DEF q
<1>3. Due(s, l, Cons(Told(t), q)) BY <1>2, ToldDue
<1> QED BY <1>2, <1>3 DEF q

\* The lists stay as they are, what is remembered changes
LEMMA HandledSame ==
  ASSUME NEW s, NEW t, NEW l, NEW q, NEW r, Handled(s, l, q), SameLists(s, t), Memory(t),
         t.kbd \in Come(l), Due(s, l, r)
  PROVE  Handled(t, l, r)
<1>1. Listing(t) = Listing(s) BY SameRoles
<1>2. t.main \notin Range(t.ordinary) /\ t.root = s.root BY DEF Handled, SameLists
<1>3. Due(t, l, r) BY <1>2, DueKept
<1> QED BY <1>1, <1>2, <1>3 DEF Handled

LEMMA HandledRefocused ==
  ASSUME NEW s, NEW t, NEW l, NEW q, NEW r, Listed(s), Handled(s, l, q), Refocused(s, t), Memory(t),
         Due(s, l, r)
  PROVE  Handled(t, l, r)
<1>1. SameLists(s, t) /\ t.kbd = s.kbd BY RefocusedParts DEF Handled
<1> QED BY <1>1, HandledSame DEF Handled

LEMMA RouteHandled ==
  ASSUME Listed(h), Handled(h, life, todo), todo # <<>>, StepRoute
  PROVE  Handled(h', life, todo')
<1> DEFINE next == Next1
           r == Resolved(RouteStart)
<1>1. Due(h, life, next) BY DueTail DEF Handled, Next1
<1>2. RouteFocus(next) BY DEF StepRoute
<1> HIDE DEF next
<1>3. IsList(next) /\ Memory(h) BY <1>1 DEF Due, Handled
<1>4. SameLists(h, h') /\ Memory(h') BY <1>2, <1>3, RouteOutcome
<1>5. CASE KeepsOrdinary
  <2> DEFINE w == h.ordFocus.win
  <2>1. w \in Range(h.ordinary) BY <1>5 DEF KeepsOrdinary
  <2> HIDE DEF w
  <2>2. h'.kbd = w /\ (todo' = next \/ todo' = Cons(Told(Role(h, w)), next))
    BY <1>2, <1>3, <1>5, RouteOutcome DEF w
  <2>3. w \in Come(life) BY <2>1, LivingCome DEF Handled, Listing
  <2>4. Due(h, life, todo') BY <1>1, <2>2, ToldDue
  <2> QED BY <1>4, <2>2, <2>3, <2>4, HandledSame
<1>6. CASE ~KeepsOrdinary
  <2>1. /\ r.win # NoWin => r.win \in Placed(h)
        /\ h'.kbd = r.win
        /\ todo' \in {RouteLeft(r.t, r.win, next), Cons(Told(r.t), RouteLeft(r.t, r.win, next))}
    BY <1>2, <1>3, <1>6, RouteOutcome
  <2> HIDE DEF r
  <2>2. h'.kbd \in Come(life) BY <2>1, LivingCome DEF Handled, Listing
  <2>3. Due(h, life, todo') BY <1>1, <2>1, RouteLeftDue
  <2> QED BY <1>4, <2>2, <2>3, HandledSame
<1> QED BY <1>5, <1>6

LEMMA FallbackHandled ==
  ASSUME Listed(h), Handled(h, life, todo), todo # <<>>, StepFallback
  PROVE  Handled(h', life, todo')
<1> DEFINE next == Next1
           p == Head(todo).pane
           f == PaneFocus(h, p)
<1>1. Due(h, life, next) /\ p \in Pane BY DueTail DEF Handled, Next1, StepFallback, Now, Fit
<1>2. \/ h' = h /\ todo' = next
      \/ h' = f.h /\ todo' = (IF f.win # NoWin THEN <<Note(f.win, FALSE), Focus(f.win)>> ELSE <<>>) \o next
  BY DEF StepFallback
<1> HIDE DEF next, p
<1>3. Memory(h) /\ IsList(next) BY <1>1 DEF Handled, Due
<1>4. /\ Refocused(h, f.h) /\ Memory(f.h)
      /\ f.win # NoWin => CanFocus(h, p, f.win)
  BY <1>1, <1>3, PaneFocusFinds
<1> HIDE DEF f
<1>5. f.win \in Come(life)
  <2>1. f.win # NoWin => f.win \in Placed(h) BY <1>1, <1>4, CanFocusRole
  <2> QED BY <2>1, LivingCome DEF Handled, Listing
<1>6. CASE h' = h /\ todo' = next
  <2>1. Refocused(h, h') BY <1>6 DEF Refocused
  <2> QED BY <1>1, <1>3, <1>6, <2>1, HandledRefocused
<1>7. CASE h' = f.h /\ todo' = (IF f.win # NoWin THEN <<Note(f.win, FALSE), Focus(f.win)>> ELSE <<>>) \o next
  <2>1. todo' = next \/ todo' = Cons(Note(f.win, FALSE), Cons(Focus(f.win), next))
    BY <1>3, <1>7, RefocusForms
  <2>2. Due(h, life, todo') BY <1>1, <1>5, <2>1, NoteDue
  <2> QED BY <1>4, <1>7, <2>2, HandledRefocused
<1> QED BY <1>2, <1>6, <1>7

\* Of the lists only that of the popups gets shorter
LEMMA DropEffect ==
  ASSUME Listed(h), Memory(h), StepDropPopups
  PROVE  /\ DOMAIN h' = DOMAIN h /\ \A f \in DOMAIN h \ {"popups"} : h'[f] = h[f]
         /\ Range(h'.popups) = {q \in Range(h.popups) : ParentOf[q] # Head(todo).win}
         /\ Memory(h') /\ todo' = Next1
<1> DEFINE q == Only(h.popups, LAMBDA v : ParentOf[v] # Head(todo).win)
           S == {v \in Range(h.popups) : ParentOf[v] # Head(todo).win}
<1>1. h' = [h EXCEPT !.popups = q] /\ todo' = Next1 BY DEF StepDropPopups
<1>2. Range(q) = S
  <2>1. q = Within(h.popups, S) BY DEF Only
  <2>2. h.popups \in Seq(OfKind("popup")) BY DEF Listed
  <2>3. S \subseteq Range(h.popups) OBVIOUS
  <2> HIDE DEF S, q
  <2>4. Range(q) = Range(h.popups) \cap S BY <2>1, <2>2, WithinElements
  <2> QED BY <2>3, <2>4
<1> HIDE DEF q
<1>3. DOMAIN h' = DOMAIN h /\ h'.popups = q /\ \A f \in DOMAIN h \ {"popups"} : h'[f] = h[f]
  BY <1>1 DEF Listed, ListFields
<1>4. Memory(h') BY <1>3 DEF Memory, MemoryFields
<1> QED BY <1>1, <1>2, <1>3, <1>4

LEMMA DropHandled ==
  ASSUME Listed(h), Handled(h, life, todo), todo # <<>>, StepDropPopups
  PROVE  Handled(h', life, todo')
<1>1. /\ DOMAIN h' = DOMAIN h /\ \A f \in DOMAIN h \ {"popups"} : h'[f] = h[f]
      /\ Range(h'.popups) \subseteq Range(h.popups)
      /\ Memory(h') /\ todo' = Next1
  BY DropEffect DEF Handled
<1>2. /\ h'.main = h.main /\ h'.overlay = h.overlay /\ h'.root = h.root /\ h'.dialogs = h.dialogs
      /\ h'.ordinary = h.ordinary /\ h'.kbd = h.kbd
  BY <1>1 DEF Listed, ListFields, Handled, Memory, MemoryFields
<1>3. Listing(h') \subseteq Listing(h) BY <1>1, <1>2 DEF Listing, Placed
<1>4. Due(h', life, todo') BY <1>1, <1>2, DueTail, DueKept DEF Handled, Next1
<1> QED BY <1>1, <1>2, <1>3, <1>4 DEF Handled

LEMMA StepHandled ==
  ASSUME Listed(h), Handled(h, life, todo), Step
  PROVE  Handled(h', life', todo')
<1> DEFINE next == Next1
           e == Head(todo)
<1>0. todo # <<>> /\ life' = life
  BY DEF Step, StepRoute, StepTold, StepWrite, StepNote, StepFocus, StepSync, StepGroup, StepMapped,
         StepFallback, StepDropPopups, StepStatus, StepBridge, StepKey, StepToggle, outside
<1>1. /\ Due(h, life, next) /\ Fit(h, life, e)
      /\ e.op \in {"route", "toggle"} => \A x \in Range(next) : x.op \in {"key", "toggle"}
  BY <1>0, DueTail DEF Handled, Next1
<1>2. Memory(h) /\ IsList(next) /\ Refocused(h, h) BY <1>1 DEF Handled, Due, Refocused
<1>3. CASE h' = h /\ todo' = next BY <1>1, <1>2, <1>3, <1>0, HandledRefocused
<1>4. CASE StepTold \/ StepWrite \/ StepKey \/ StepGroup \/ StepBridge \/ StepStatus
  <2>1. h' = h /\ todo' = next
    BY <1>4 DEF StepTold, StepWrite, StepKey, StepGroup, StepBridge, StepStatus
  <2> QED BY <1>3, <2>1
<1>5. CASE StepNote
  <2>1. \E w : h' = Noted(h, w) /\ todo' = next BY <1>5 DEF StepNote
  <2> HIDE DEF next
  <2>2. Refocused(h, h') /\ Memory(h') BY <1>2, <2>1, NotedFocus
  <2> QED BY <1>0, <1>1, <2>1, <2>2, HandledRefocused
<1>6. CASE StepFocus
  <2> DEFINE w == e.win
  <2>1. Keyboard(h, w, next) /\ w \in Come(life) BY <1>1, <1>6 DEF StepFocus, Now, Fit
  <2> HIDE DEF next, w
  <2>2. SameLists(h, h') /\ Memory(h') /\ h'.kbd = w BY <1>2, <2>1, KeyboardMoves
  <2>3. todo' = next \/ todo' = Cons(Told(Role(h, w)), next)
    BY <1>2, <2>1, KeyboardMoves DEF Told
  <2>4. Due(h, life, todo') BY <1>1, <2>3, ToldDue
  <2> QED BY <1>0, <2>1, <2>2, <2>4, HandledSame
<1>7. CASE StepSync
  <2> DEFINE w == IF c.target = e.pane THEN h.focused[e.pane] ELSE NoWin
             g == [op |-> "group", pane |-> e.pane, win |-> w]
  <2>1. h' = h /\ todo' = <<g>> \o next BY <1>7 DEF StepSync
  <2>2. e.pane \in Pane BY <1>1, <1>7 DEF StepSync, Now, Fit
  <2>3. Fit(h, life, g) /\ g.op = "group" BY <2>2 DEF Fit
  <2> HIDE DEF next, e, w, g
  <2>4. todo' = Cons(g, next) BY <1>2, <2>1, ConsForms
  <2>5. Due(h, life, todo') BY <1>1, <2>3, <2>4, DueCons
  <2> QED BY <1>0, <1>2, <2>1, <2>5, HandledRefocused
<1>8. CASE StepMapped
  <2>1. h' = h /\ todo' = (IF c.target = Owner(e.win) THEN <<Note(e.win, TRUE), Focus(e.win)>> ELSE <<>>) \o next
    BY <1>8 DEF StepMapped
  <2>2. e.win \in Come(life) BY <1>1, <1>8 DEF StepMapped, Now, Fit
  <2> HIDE DEF next, e
  <2>3. todo' = next \/ todo' = Cons(Note(e.win, TRUE), Cons(Focus(e.win), next))
    BY <1>2, <2>1, RefocusForms
  <2>4. Due(h, life, todo') BY <1>1, <2>2, <2>3, NoteDue
  <2> QED BY <1>0, <1>2, <2>1, <2>4, HandledRefocused
<1>9. CASE StepToggle
  <2>1. h' = h /\ todo' = <<Status, Route>> \o next /\ e.op = "toggle" BY <1>9 DEF StepToggle, Now
  <2> HIDE DEF next, e
  <2>2. todo' = Cons(Status, Cons(Route, next)) BY <1>2, <2>1, ConsForms
  <2>3. Due(h, life, Cons(Route, next)) BY <1>1, <2>1, DueCons DEF Fit, Route
  <2>4. Due(h, life, todo') BY <2>2, <2>3, DueCons DEF Fit, Status
  <2> QED BY <1>0, <1>2, <2>1, <2>4, HandledRefocused
<1>10. CASE StepRoute BY <1>0, <1>10, RouteHandled
<1>11. CASE StepFallback BY <1>0, <1>11, FallbackHandled
<1>12. CASE StepDropPopups BY <1>0, <1>12, DropHandled
<1> QED BY <1>4, <1>5, <1>6, <1>7, <1>8, <1>9, <1>10, <1>11, <1>12 DEF Step

-----------------------------------------------------------------------------
(* ... and as windows come and go, each with what it changes               *)

Changed(s, t, F) == DOMAIN t = DOMAIN s /\ \A f \in DOMAIN s \ F : t[f] = s[f]

LEMMA ChangedParts ==
  ASSUME NEW s, NEW t, NEW F, Listed(s), Memory(s), Changed(s, t, F)
  PROVE  /\ "main" \notin F => t.main = s.main
         /\ "overlay" \notin F => t.overlay = s.overlay
         /\ "root" \notin F => t.root = s.root
         /\ "dialogs" \notin F => t.dialogs = s.dialogs
         /\ "popups" \notin F => t.popups = s.popups
         /\ "ordinary" \notin F => t.ordinary = s.ordinary
         /\ "mapped" \notin F => t.mapped = s.mapped
         /\ "focused" \notin F => t.focused = s.focused
         /\ "history" \notin F => t.history = s.history
         /\ "kbd" \notin F => t.kbd = s.kbd
         /\ "ordFocus" \notin F => t.ordFocus = s.ordFocus
         /\ MemoryFields \subseteq DOMAIN t
BY DEF Changed, Listed, ListFields, Memory, MemoryFields

\* Neither what is remembered of a pane nor the seat changes
LEMMA ChangedMemory ==
  ASSUME NEW s, NEW t, NEW F, Listed(s), Memory(s), Changed(s, t, F),
         F \cap {"focused", "history", "ordFocus"} = {}
  PROVE  Memory(t)
<1>1. /\ t.focused = s.focused /\ t.history = s.history /\ t.ordFocus = s.ordFocus
      /\ MemoryFields \subseteq DOMAIN t
  BY ChangedParts
<1> QED BY <1>1 DEF Memory

\* A window comes
LEMMA Arrives ==
  ASSUME NEW w \in Window, Listed(h), Handled(h, life, todo), Comes(w), NEW F, Changed(h, h', F),
         F \cap {"focused", "history", "ordFocus", "kbd"} = {},
         Listing(h') \subseteq Listing(h) \cup {w}, h'.main \notin Range(h'.ordinary),
         Due(h', life', todo')
  PROVE  Handled(h', life', todo') /\ h'.kbd # w
<1>1. /\ DOMAIN life' = Window /\ Living(life') = Living(life) \cup {w}
      /\ Come(life') = Come(life) \cup {w} /\ w \notin Come(life)
  BY ComesLife DEF Handled
<1>2. Memory(h) BY DEF Handled
<1>3. Memory(h') BY <1>2, ChangedMemory
<1>4. h'.kbd = h.kbd BY <1>2, ChangedParts
<1>5. h'.kbd \in Come(life) BY <1>4 DEF Handled
<1> QED BY <1>1, <1>3, <1>5 DEF Handled

LEMMA MainAppearsEffect ==
  ASSUME NEW w \in Window, Listed(h), Handled(h, life, todo), MainAppears(w)
  PROVE  /\ Handled(h', life', todo') /\ todo' = <<Status, Route>> /\ h'.root = h.root
         /\ Comes(w) /\ h.main = NoWin /\ Changed(h, h', {"main"}) /\ h'.main = w
<1>1. h' = [h EXCEPT !.main = w] /\ todo' = <<Status, Route>> /\ Comes(w) /\ h.main = NoWin BY DEF MainAppears
<1>2. Changed(h, h', {"main"}) /\ h'.main = w BY <1>1 DEF Changed, Listed, ListFields
<1>3. /\ h'.overlay = h.overlay /\ h'.root = h.root /\ h'.dialogs = h.dialogs
      /\ h'.popups = h.popups /\ h'.ordinary = h.ordinary
  BY <1>2, ChangedParts DEF Handled
<1>4. Listing(h') \subseteq Listing(h) \cup {w} BY <1>2, <1>3 DEF Listing, Placed
<1>5. w \notin Range(h.ordinary)
  <2>1. w \notin Come(life) BY <1>1, ComesLife DEF Handled
  <2> QED BY <2>1, LivingCome DEF Handled, Listing
<1>6. Due(h', life', todo') BY <1>1, DueOf
<1>7. {"main"} \cap {"focused", "history", "ordFocus", "kbd"} = {} OBVIOUS
<1> QED BY <1>1, <1>2, <1>3, <1>4, <1>5, <1>6, <1>7, Arrives

LEMMA OverlayAppearsEffect ==
  ASSUME NEW w \in Window, Listed(h), Handled(h, life, todo), OverlayAppears(w)
  PROVE  /\ Handled(h', life', todo') /\ todo' = <<Status, Route>> /\ h'.root = h.root
         /\ Comes(w) /\ h.overlay = NoWin /\ Changed(h, h', {"overlay"}) /\ h'.overlay = w
<1>1. h' = [h EXCEPT !.overlay = w] /\ todo' = <<Status, Route>> /\ Comes(w) /\ h.overlay = NoWin
  BY DEF OverlayAppears
<1>2. Changed(h, h', {"overlay"}) /\ h'.overlay = w BY <1>1 DEF Changed, Listed, ListFields
<1>3. /\ h'.main = h.main /\ h'.root = h.root /\ h'.dialogs = h.dialogs
      /\ h'.popups = h.popups /\ h'.ordinary = h.ordinary
  BY <1>2, ChangedParts DEF Handled
<1>4. Listing(h') \subseteq Listing(h) \cup {w} BY <1>2, <1>3 DEF Listing, Placed
<1>6. Due(h', life', todo') BY <1>1, DueOf
<1>7. {"overlay"} \cap {"focused", "history", "ordFocus", "kbd"} = {} OBVIOUS
<1>8. h'.main \notin Range(h'.ordinary) BY <1>3 DEF Handled
<1> QED BY <1>1, <1>2, <1>3, <1>4, <1>6, <1>7, <1>8, Arrives

Arrival(p, w) ==
  <<[op |-> "attach", pane |-> p], [op |-> "observe", pane |-> p, win |-> w], Status, Route>>

LEMMA ArrivalForm ==
  ASSUME NEW p, NEW w
  PROVE  Arrival(p, w) = Cons([op |-> "attach", pane |-> p],
                           Cons([op |-> "observe", pane |-> p, win |-> w], <<Status, Route>>))
<1> DEFINE a == [op |-> "attach", pane |-> p]
           b == [op |-> "observe", pane |-> p, win |-> w]
<1>1. Arrival(p, w) = <<a, b, Status, Route>> BY DEF Arrival
<1> HIDE DEF a, b
<1>2. <<a, b, Status, Route>> = Cons(a, Cons(b, Cons(Status, Cons(Route, <<>>))))
      /\ <<Status, Route>> = Cons(Status, Cons(Route, <<>>))
  BY EmptyList, ConsForms
<1> QED BY <1>1, <1>2 DEF a, b

LEMMA RootAppearsEffect ==
  ASSUME NEW w \in Window, Listed(h), Handled(h, life, todo), RootAppears(w)
  PROVE  /\ Handled(h', life', todo') /\ todo' = Arrival(PaneOf[w], w)
         /\ PaneOf[w] \in Pane /\ h.root[PaneOf[w]] = NoWin
         /\ \A r \in Pane : h'.root[r] = IF r = PaneOf[w] THEN w ELSE h.root[r]
         /\ Comes(w) /\ Changed(h, h', {"root"})
<1> DEFINE p == PaneOf[w]
<1>1. /\ h' = [h EXCEPT !.root[p] = w] /\ todo' = Arrival(p, w) /\ Comes(w)
      /\ h.root[p] = NoWin /\ p \in Pane
  BY FocusAssumption DEF RootAppears, Arrival
<1> HIDE DEF p
<1>2. Changed(h, h', {"root"}) /\ h'.root = [h.root EXCEPT ![p] = w]
  BY <1>1 DEF Changed, Listed, ListFields
<1>3. \A r \in Pane : h'.root[r] = IF r = p THEN w ELSE h.root[r] BY <1>1, <1>2 DEF Listed
<1>4. /\ h'.main = h.main /\ h'.overlay = h.overlay /\ h'.dialogs = h.dialogs
      /\ h'.popups = h.popups /\ h'.ordinary = h.ordinary
  BY <1>2, ChangedParts DEF Handled
<1>5. Listing(h') \subseteq Listing(h) \cup {w} BY <1>3, <1>4 DEF Listing, Placed
<1>6. Due(h', life', todo')
  <2>1. Due(h', life', <<Status, Route>>) BY DueOf
  <2>2. h'.root[p] = w /\ w # NoWin BY <1>1, <1>3, PresentationAssumption
  <2>3. Due(h', life', Cons([op |-> "observe", pane |-> p, win |-> w], <<Status, Route>>))
    BY <1>1, <2>1, <2>2, DueCons DEF Fit
  <2>4. Due(h', life', Cons([op |-> "attach", pane |-> p],
                         Cons([op |-> "observe", pane |-> p, win |-> w], <<Status, Route>>)))
    BY <1>1, <2>3, DueCons DEF Fit
  <2> QED BY <1>1, <2>4, ArrivalForm
<1>7. {"root"} \cap {"focused", "history", "ordFocus", "kbd"} = {} OBVIOUS
<1>8. h'.main \notin Range(h'.ordinary) BY <1>4 DEF Handled
<1>9. Handled(h', life', todo') BY <1>1, <1>2, <1>5, <1>6, <1>7, <1>8, Arrives
<1> QED BY <1>1, <1>2, <1>3, <1>9 DEF p

LEMMA DialogAppearsEffect ==
  ASSUME NEW w \in Window, Listed(h), Handled(h, life, todo), DialogAppears(w)
  PROVE  /\ Handled(h', life', todo') /\ todo' = <<Sync(PaneOf[w]), Status>> /\ PaneOf[w] \in Pane
         /\ Changed(h, h', {"dialogs"}) /\ Range(h'.dialogs) = Range(h.dialogs) \cup {w}
         /\ h.root[PaneOf[w]] # NoWin /\ h'.kbd # w
<1> DEFINE p == PaneOf[w]
<1>1. /\ h' = [h EXCEPT !.dialogs = Append(@, w)] /\ todo' = <<Sync(p), Status>> /\ Comes(w)
      /\ h.root[p] # NoWin /\ p \in Pane /\ w \in OfKind("dialog")
  BY FocusAssumption DEF DialogAppears, OfKind
<1> HIDE DEF p
<1>2. Changed(h, h', {"dialogs"}) /\ h'.dialogs = Append(h.dialogs, w)
  BY <1>1 DEF Changed, Listed, ListFields
<1>3. Range(h'.dialogs) = Range(h.dialogs) \cup {w}
  BY <1>1, <1>2, AppendRange DEF Listed
<1>4. /\ h'.main = h.main /\ h'.overlay = h.overlay /\ h'.root = h.root
      /\ h'.popups = h.popups /\ h'.ordinary = h.ordinary
  BY <1>2, ChangedParts DEF Handled
<1>5. Listing(h') \subseteq Listing(h) \cup {w} BY <1>3, <1>4 DEF Listing, Placed
<1>6. Due(h', life', todo') BY <1>1, DueOf
<1>7. {"dialogs"} \cap {"focused", "history", "ordFocus", "kbd"} = {} OBVIOUS
<1>8. h'.main \notin Range(h'.ordinary) BY <1>4 DEF Handled
<1>9. Handled(h', life', todo') /\ h'.kbd # w BY <1>1, <1>2, <1>5, <1>6, <1>7, <1>8, Arrives
<1> QED BY <1>1, <1>2, <1>3, <1>9 DEF p

LEMMA OrdinaryAppearsEffect ==
  ASSUME NEW w \in Window, Listed(h), Handled(h, life, todo), OrdinaryAppears(w)
  PROVE  /\ Handled(h', life', todo') /\ todo' = <<>>
         /\ Changed(h, h', {"ordinary"}) /\ Range(h'.ordinary) = Range(h.ordinary) \cup {w}
         /\ h'.kbd # w
<1>1. /\ h' = [h EXCEPT !.ordinary = Append(@, w)] /\ todo' = <<>> /\ Comes(w)
      /\ w \in OfKind("ordinary") \cup OfKind("main") /\ KindOf[w] = "ordinary"
  BY DEF OrdinaryAppears, OfKind, Comes, Idle
<1>2. Changed(h, h', {"ordinary"}) /\ h'.ordinary = Append(h.ordinary, w)
  BY <1>1 DEF Changed, Listed, ListFields
<1>3. Range(h'.ordinary) = Range(h.ordinary) \cup {w}
  BY <1>1, <1>2, AppendRange DEF Listed
<1>4. /\ h'.main = h.main /\ h'.overlay = h.overlay /\ h'.root = h.root
      /\ h'.popups = h.popups /\ h'.dialogs = h.dialogs
  BY <1>2, ChangedParts DEF Handled
<1>5. Listing(h') \subseteq Listing(h) \cup {w} BY <1>3, <1>4 DEF Listing, Placed
<1>6. Due(h', life', todo') BY <1>1, DueEmpty
<1>7. {"ordinary"} \cap {"focused", "history", "ordFocus", "kbd"} = {} OBVIOUS
<1>8. h'.main \notin Range(h'.ordinary)
  <2>1. h.main # w BY <1>1, PresentationAssumption DEF Listed, OfKind
  <2> QED BY <1>3, <1>4, <2>1 DEF Handled
<1>9. Handled(h', life', todo') /\ h'.kbd # w BY <1>1, <1>2, <1>5, <1>6, <1>7, <1>8, Arrives
<1> QED BY <1>1, <1>2, <1>3, <1>9

LEMMA PopupAppearsEffect ==
  ASSUME NEW w \in Window, Listed(h), Handled(h, life, todo), PopupAppears(w)
  PROVE  /\ Handled(h', life', todo')
         /\ todo' = IF Owner(w) \in Pane THEN <<Sync(Owner(w))>> ELSE <<>>
         /\ Changed(h, h', {"popups"}) /\ Range(h'.popups) = Range(h.popups) \cup {w}
         /\ h'.kbd # w
         /\ ParentOf[w] \in {h.main, h.overlay} \cup Range(h.root) \cup Range(h.dialogs)
<1>1. /\ h' = [h EXCEPT !.popups = Append(@, w)] /\ Comes(w)
      /\ todo' = IF Owner(w) \in Pane THEN <<Sync(Owner(w))>> ELSE <<>>
      /\ w \in OfKind("popup")
      /\ ParentOf[w] \in {h.main, h.overlay} \cup Range(h.root) \cup Range(h.dialogs)
  BY DEF PopupAppears, OfKind
<1>2. Changed(h, h', {"popups"}) /\ h'.popups = Append(h.popups, w)
  BY <1>1 DEF Changed, Listed, ListFields
<1>3. Range(h'.popups) = Range(h.popups) \cup {w}
  BY <1>1, <1>2, AppendRange DEF Listed
<1>4. /\ h'.main = h.main /\ h'.overlay = h.overlay /\ h'.root = h.root
      /\ h'.dialogs = h.dialogs /\ h'.ordinary = h.ordinary
  BY <1>2, ChangedParts DEF Handled
<1>5. Listing(h') \subseteq Listing(h) \cup {w} BY <1>3, <1>4 DEF Listing, Placed
<1>6. Due(h', life', todo') BY <1>1, DueOf, DueEmpty
<1>7. {"popups"} \cap {"focused", "history", "ordFocus", "kbd"} = {} OBVIOUS
<1>8. h'.main \notin Range(h'.ordinary) BY <1>4 DEF Handled
<1>9. Handled(h', life', todo') /\ h'.kbd # w BY <1>1, <1>2, <1>5, <1>6, <1>7, <1>8, Arrives
<1> QED BY <1>1, <1>2, <1>3, <1>9

\* A window goes
LEMMA Departs ==
  ASSUME NEW w \in Window, Listed(h), Handled(h, life, todo), Gone(w), Memory(h'), h'.kbd = h.kbd,
         Listing(h') \subseteq Listing(h) \ {w}, h'.main \notin Range(h'.ordinary),
         Due(h', life', todo')
  PROVE  Handled(h', life', todo')
<1>1. DOMAIN life' = Window /\ Living(life') = Living(life) \ {w} /\ Come(life') = Come(life)
  BY GoneLife DEF Handled
<1> QED BY <1>1 DEF Handled

\* The lists name what they named
LEMMA Stays ==
  ASSUME Listed(h), Handled(h, life, todo), life' = life, NEW F, Changed(h, h', F),
         F \cap {"focused", "history", "ordFocus", "kbd"} = {},
         Listing(h') \subseteq Listing(h), h'.main \notin Range(h'.ordinary),
         Due(h', life, todo')
  PROVE  Handled(h', life', todo')
<1>1. Memory(h) BY DEF Handled
<1>2. Memory(h') BY <1>1, ChangedMemory
<1>3. h'.kbd = h.kbd BY <1>1, ChangedParts
<1> QED BY <1>2, <1>3 DEF Handled

LEMMA MapEffect ==
  ASSUME NEW w \in Window, Listed(h), Handled(h, life, todo), Map(w)
  PROVE  /\ Handled(h', life', todo')
         /\ Changed(h, h', {"mapped", "dialogs", "popups"})
         /\ h'.mapped = h.mapped \cup {w}
         /\ Range(h'.dialogs) = Range(h.dialogs) /\ Range(h'.popups) = Range(h.popups)
         /\ w \in Range(h.dialogs) \cup Range(h.popups)
         /\ todo' = IF Owner(w) \in Pane THEN <<[op |-> "mapped", win |-> w], Sync(Owner(w))>> ELSE <<>>
<1> DEFINE d == IF w \in Range(h.dialogs) THEN ToLast(h.dialogs, w) ELSE h.dialogs
           q == IF Owner(w) \in Pane /\ w \in Range(h.popups) THEN ToLast(h.popups, w) ELSE h.popups
           m == h.mapped \cup {w}
<1>1. h' = [h EXCEPT !.mapped = m, !.dialogs = d, !.popups = q] BY Zenon DEF Map
<1>2. /\ life' = life /\ w \in Range(h.dialogs) \cup Range(h.popups)
      /\ todo' = IF Owner(w) \in Pane THEN <<[op |-> "mapped", win |-> w], Sync(Owner(w))>> ELSE <<>>
  BY DEF Map
<1>3. Range(d) = Range(h.dialogs) BY ToLastElements DEF Listed
<1>4. Range(q) = Range(h.popups) BY ToLastElements DEF Listed
<1> HIDE DEF d, q, m
<1>5. ListFields \subseteq DOMAIN h /\ MemoryFields \subseteq DOMAIN h BY DEF Listed, Handled, Memory
<1>6. /\ Changed(h, h', {"mapped", "dialogs", "popups"})
      /\ h'.mapped = m /\ h'.dialogs = d /\ h'.popups = q
  BY <1>1, <1>5 DEF Changed, ListFields, MemoryFields
<1>7. h'.main = h.main /\ h'.overlay = h.overlay /\ h'.root = h.root /\ h'.ordinary = h.ordinary
  BY <1>6, ChangedParts DEF Handled
<1>8. Listing(h') \subseteq Listing(h) BY <1>3, <1>4, <1>6, <1>7 DEF Listing, Placed
<1>9. Due(h', life, todo')
  <2>1. CASE Owner(w) \in Pane
    <3> DEFINE e == [op |-> "mapped", win |-> w]
               y == Sync(Owner(w))
    <3>1. Due(h', life, <<y>>) BY <2>1, DueOf
    <3>2. w \in Come(life)
      <4>1. w \in Listing(h) BY <1>2, PlacedWindows DEF Listing
      <4> QED BY <4>1, LivingCome DEF Handled
    <3>3. Due(h', life, Cons(e, <<y>>)) BY <3>1, <3>2, DueCons DEF Fit
    <3>4. todo' = <<e, y>> BY <1>2, <2>1
    <3> HIDE DEF e, y
    <3>5. <<e, y>> = Cons(e, Cons(y, <<>>)) /\ <<y>> = Cons(y, <<>>) BY EmptyList, ConsForms
    <3> QED BY <3>3, <3>4, <3>5
  <2>2. CASE Owner(w) \notin Pane BY <1>2, <2>2, DueEmpty
  <2> QED BY <2>1, <2>2
<1>10. {"mapped", "dialogs", "popups"} \cap {"focused", "history", "ordFocus", "kbd"} = {} OBVIOUS
<1>11. h'.main \notin Range(h'.ordinary) BY <1>7 DEF Handled
<1>12. Handled(h', life', todo') BY <1>2, <1>6, <1>8, <1>9, <1>10, <1>11, Stays
<1> QED BY <1>2, <1>3, <1>4, <1>6, <1>12 DEF m

\* What a pane's window that was unmapped or destroyed leaves to do
Refocus(p, w) == IF h.focused[p] = w THEN <<[op |-> "fallback", pane |-> p], Sync(p)>> ELSE <<Sync(p)>>

LEMMA RefocusIs ==
  ASSUME NEW p, NEW w
  PROVE  (IF h.focused[p] = w THEN <<[op |-> "fallback", pane |-> p]>> ELSE <<>>) \o <<Sync(p)>>
           = Refocus(p, w)
<1> DEFINE e == [op |-> "fallback", pane |-> p]
           y == Sync(p)
<1> HIDE DEF e, y
<1>1. <<y>> = Cons(y, <<>>) /\ <<e, y>> = Cons(e, Cons(y, <<>>)) /\ IsList(<<>>) BY EmptyList, ConsForms
<1>2. IsList(<<y>>) BY <1>1, ConsList
<1>3. <<e>> \o <<y>> = Cons(e, <<y>>) /\ <<>> \o <<y>> = <<y>> BY <1>2, ConsForms
<1>4. <<e>> \o <<y>> = <<e, y>> BY <1>1, <1>3
<1> QED BY <1>3, <1>4 DEF Refocus, e, y

LEMMA RefocusDue ==
  ASSUME NEW s, NEW l, NEW p \in Pane, NEW w
  PROVE  Due(s, l, Refocus(p, w))
BY DueOf DEF Refocus

LEMMA UnmapEffect ==
  ASSUME NEW w \in Window, Listed(h), Handled(h, life, todo), Unmap(w)
  PROVE  /\ Handled(h', life', todo') /\ life' = life
         /\ Changed(h, h', {"mapped"}) /\ h'.mapped = h.mapped \ {w}
         /\ w \in Range(h.dialogs) \cup Range(h.popups)
         /\ todo' = IF Owner(w) \in Pane THEN Refocus(Owner(w), w) ELSE <<>>
<1>1. h' = [h EXCEPT !.mapped = @ \ {w}] /\ life' = life /\ w \in Range(h.dialogs) \cup Range(h.popups)
  BY DEF Unmap
<1>2. todo' = IF Owner(w) \in Pane THEN Refocus(Owner(w), w) ELSE <<>>
  <2>1. CASE Owner(w) \in Pane BY <2>1, RefocusIs DEF Unmap
  <2>2. CASE Owner(w) \notin Pane BY <2>2 DEF Unmap
  <2> QED BY <2>1, <2>2
<1>3. Changed(h, h', {"mapped"}) /\ h'.mapped = h.mapped \ {w}
  BY <1>1 DEF Changed, Handled, Memory, MemoryFields
<1>4. /\ h'.main = h.main /\ h'.overlay = h.overlay /\ h'.root = h.root /\ h'.ordinary = h.ordinary
      /\ h'.dialogs = h.dialogs /\ h'.popups = h.popups
  BY <1>3, ChangedParts DEF Handled
<1>5. Listing(h') \subseteq Listing(h) BY <1>4 DEF Listing, Placed
<1>6. Due(h', life, todo') BY <1>2, RefocusDue, DueEmpty
<1>7. {"mapped"} \cap {"focused", "history", "ordFocus", "kbd"} = {} OBVIOUS
<1>8. h'.main \notin Range(h'.ordinary) BY <1>4 DEF Handled
<1>9. Handled(h', life', todo') BY <1>1, <1>3, <1>5, <1>6, <1>7, <1>8, Stays
<1> QED BY <1>1, <1>2, <1>3, <1>9

LEMMA KindsApart ==
  ASSUME NEW s, Listed(s), NEW w \in Window
  PROVE  /\ w \in {s.main, s.overlay} \cup Range(s.ordinary) =>
              KindOf[w] \in {"main", "overlay", "ordinary"}
         /\ \A p \in Pane : s.root[p] = w => KindOf[w] = "root" /\ PaneOf[w] = p
         /\ w \in Range(s.dialogs) => KindOf[w] = "dialog"
         /\ w \in Range(s.popups) => KindOf[w] = "popup"
<1>1. w # NoWin BY PresentationAssumption
<1>2. w \in Range(s.ordinary) => KindOf[w] \in {"ordinary", "main"} BY DEF Listed, Range, OfKind
<1>3. w \in {s.main, s.overlay} => KindOf[w] \in {"main", "overlay"} BY <1>1 DEF Listed, OfKind
<1>4. \A p \in Pane : s.root[p] = w => KindOf[w] = "root" /\ PaneOf[w] = p BY <1>1 DEF Listed, OfKind
<1>5. (w \in Range(s.dialogs) => KindOf[w] = "dialog") /\ (w \in Range(s.popups) => KindOf[w] = "popup")
  BY DEF Listed, Range, OfKind
<1> QED BY <1>2, <1>3, <1>4, <1>5

LEMMA TopDestroyedEffect ==
  ASSUME NEW w \in Window, Listed(h), Handled(h, life, todo), TopDestroyed(w)
  PROVE  /\ Handled(h', life', todo') /\ todo' = After(w) /\ h'.root = h.root
         /\ Changed(h, h', {"main", "overlay", "ordinary"})
         /\ h'.main = IF h.main = w THEN NoWin ELSE h.main
         /\ h'.overlay = IF h.overlay = w THEN NoWin ELSE h.overlay
         /\ Range(h'.ordinary) = Range(h.ordinary) \ {w}
<1> DEFINE o == Without(h.ordinary, w)
           main == IF h.main = w THEN NoWin ELSE h.main
           overlay == IF h.overlay = w THEN NoWin ELSE h.overlay
<1>1. h' = [h EXCEPT !.main = main, !.overlay = overlay, !.ordinary = o]
  BY Zenon DEF TopDestroyed
<1>2. Gone(w) /\ todo' = After(w) /\ w \in {h.main, h.overlay} \cup Range(h.ordinary) BY DEF TopDestroyed
<1>3. Range(o) = Range(h.ordinary) \ {w} BY WithoutElements DEF Listed
<1>4. main \in {h.main, NoWin} \ {w} /\ overlay \in {h.overlay, NoWin} \ {w}
  BY PresentationAssumption
<1> HIDE DEF o, main, overlay
<1>5. /\ Changed(h, h', {"main", "overlay", "ordinary"})
      /\ h'.main = main /\ h'.overlay = overlay /\ h'.ordinary = o
  BY <1>1 DEF Changed, Listed, ListFields
<1>6. /\ h'.root = h.root /\ h'.dialogs = h.dialogs /\ h'.popups = h.popups /\ h'.kbd = h.kbd
  BY <1>5, ChangedParts DEF Handled
<1>7. Memory(h')
  <2>1. {"main", "overlay", "ordinary"} \cap {"focused", "history", "ordFocus"} = {} OBVIOUS
  <2> QED BY <1>5, <2>1, ChangedMemory DEF Handled
<1>8. w \notin Range(h.dialogs) /\ w \notin Range(h.popups) /\ \A p \in Pane : h.root[p] # w
  BY <1>2, KindsApart
<1>9. Listing(h') \subseteq Listing(h) \ {w}
  BY <1>3, <1>4, <1>5, <1>6, <1>8 DEF Listing, Placed
<1>10. h'.main \notin Range(h'.ordinary)
  <2>1. NoWin \notin Range(h.ordinary) BY PresentationAssumption DEF Listed, Range, OfKind
  <2> QED BY <1>3, <1>4, <1>5, <2>1 DEF Handled
<1>11. Due(h', life', todo') BY <1>2, DueOf
<1>12. Handled(h', life', todo') BY <1>2, <1>6, <1>7, <1>9, <1>10, <1>11, Departs
<1> QED BY <1>2, <1>3, <1>5, <1>6, <1>12 DEF main, overlay

LEMMA OtherDestroyedEffect ==
  ASSUME NEW w \in Window, Listed(h), Handled(h, life, todo), OtherDestroyed(w)
  PROVE  /\ Handled(h', life', todo') /\ Gone(w)
         /\ Changed(h, h', {"mapped"}) /\ h'.mapped = h.mapped \ {w}
         /\ w \notin Listing(h)
         /\ todo' = IF KindOf[w] = "popup" THEN <<>> ELSE After(w)
<1>1. /\ h' = [h EXCEPT !.mapped = @ \ {w}] /\ Gone(w)
      /\ todo' = IF KindOf[w] = "popup" THEN <<>> ELSE After(w)
      /\ w \notin {h.main, h.overlay} \cup Range(h.root) \cup Range(h.ordinary)
                 \cup Range(h.dialogs) \cup Range(h.popups)
  BY DEF OtherDestroyed
<1>2. w \notin Listing(h) BY <1>1 DEF Listing, Placed, Range, Listed
<1>3. Changed(h, h', {"mapped"}) /\ h'.mapped = h.mapped \ {w}
  BY <1>1 DEF Changed, Handled, Memory, MemoryFields
<1>4. /\ h'.main = h.main /\ h'.overlay = h.overlay /\ h'.root = h.root /\ h'.ordinary = h.ordinary
      /\ h'.dialogs = h.dialogs /\ h'.popups = h.popups /\ h'.kbd = h.kbd
  BY <1>3, ChangedParts DEF Handled
<1>5. Listing(h') \subseteq Listing(h) \ {w} BY <1>2, <1>4 DEF Listing, Placed
<1>6. Due(h', life', todo') BY <1>1, DueOf, DueEmpty
<1>7. Memory(h')
  <2>1. {"mapped"} \cap {"focused", "history", "ordFocus"} = {} OBVIOUS
  <2> QED BY <1>3, <2>1, ChangedMemory DEF Handled
<1>8. h'.main \notin Range(h'.ordinary) BY <1>4 DEF Handled
<1>9. Handled(h', life', todo') BY <1>1, <1>4, <1>5, <1>6, <1>7, <1>8, Departs
<1> QED BY <1>1, <1>2, <1>3, <1>9

LEMMA MainDemotedEffect ==
  ASSUME Listed(h), Handled(h, life, todo), MainDemoted
  PROVE  Handled(h', life', todo') /\ todo' = <<Status, Route>> /\ h'.root = h.root
<1>1. /\ h' = [h EXCEPT !.main = NoWin, !.ordinary = Append(@, h.main)] /\ life' = life
      /\ todo' = <<Status, Route>>
      /\ h.main \in OfKind("ordinary") \cup OfKind("main") /\ h.main # NoWin
  BY PresentationAssumption DEF MainDemoted, Alive, Listed
<1>2. Changed(h, h', {"main", "ordinary"}) /\ h'.main = NoWin /\ h'.ordinary = Append(h.ordinary, h.main)
  BY <1>1 DEF Changed, Listed, ListFields
<1>3. Range(h'.ordinary) = Range(h.ordinary) \cup {h.main} BY <1>1, <1>2, AppendRange DEF Listed
<1>4. h'.overlay = h.overlay /\ h'.root = h.root /\ h'.dialogs = h.dialogs /\ h'.popups = h.popups
  BY <1>2, ChangedParts DEF Handled
<1>5. Listing(h') \subseteq Listing(h) BY <1>1, <1>2, <1>3, <1>4 DEF Listing, Placed
<1>6. h'.main \notin Range(h'.ordinary)
  <2>1. NoWin \notin Range(h.ordinary) BY PresentationAssumption DEF Listed, Range, OfKind
  <2> QED BY <1>1, <1>2, <1>3, <2>1
<1>7. Due(h', life, todo') BY <1>1, DueOf
<1>8. {"main", "ordinary"} \cap {"focused", "history", "ordFocus", "kbd"} = {} OBVIOUS
<1>9. Handled(h', life', todo') BY <1>1, <1>2, <1>5, <1>6, <1>7, <1>8, Stays
<1> QED BY <1>1, <1>4, <1>9

LEMMA UnlistedEffect ==
  ASSUME NEW s, NEW p \in Pane, NEW w, Memory(s)
  PROVE  LET t == Unlisted(s, p, w)
         IN /\ Refocused(s, t) /\ Memory(t)
            /\ t.focused[p] = IF s.focused[p] = w THEN NoWin ELSE s.focused[p]
            /\ \A q \in Pane \ {p} : t.focused[q] = s.focused[q]
<1> DEFINE list == Without(s.history[p], w)
           f == IF s.focused[p] = w THEN NoWin ELSE s.focused[p]
           t == Unlisted(s, p, w)
<1>0. MemoryFields \subseteq DOMAIN s /\ DOMAIN s.focused = Pane /\ DOMAIN s.history = Pane BY DEF Memory
<1>1. t = [s EXCEPT !.history[p] = list, !.focused[p] = f] BY Zenon DEF Unlisted
<1>2. IsList(list)
  <2> DEFINE q == s.history[p]
             T == Range(q)
  <2>1. q \in Seq(T) BY DEF Memory, IsList
  <2> HIDE DEF T, q
  <2>2. Without(q, w) \in Seq(T) BY <2>1, WithoutElements
  <2> QED BY <2>2, ListOf DEF q
<1> HIDE DEF list, f, t
<1>3. /\ DOMAIN t = DOMAIN s /\ \A g \in DOMAIN s \ {"focused", "history"} : t[g] = s[g]
      /\ t.focused = [s.focused EXCEPT ![p] = f]
      /\ t.history = [s.history EXCEPT ![p] = list]
  BY <1>0, <1>1 DEF MemoryFields
<1>4. Refocused(s, t) BY <1>3 DEF Refocused
<1>5. t.ordFocus = s.ordFocus BY <1>0, <1>3 DEF MemoryFields
<1>6. DOMAIN t.history = Pane /\ \A q \in Pane : IsList(t.history[q]) BY <1>0, <1>2, <1>3 DEF Memory
<1>7. Memory(t) BY <1>0, <1>3, <1>5, <1>6 DEF Memory
<1>8. t.focused[p] = f /\ \A q \in Pane \ {p} : t.focused[q] = s.focused[q] BY <1>0, <1>3
<1> QED BY <1>4, <1>7, <1>8 DEF t, f

LEMMA PopupDestroyedEffect ==
  ASSUME NEW w \in Window, Listed(h), Handled(h, life, todo), PopupDestroyed(w)
  PROVE  /\ Handled(h', life', todo') /\ Gone(w)
         /\ Changed(h, h', {"popups", "mapped", "focused", "history"})
         /\ h'.mapped = h.mapped \ {w}
         /\ w \in Range(h.popups) /\ Range(h'.popups) = Range(h.popups) \ {w}
         /\ Owner(w) \notin Pane => todo' = <<>> /\ h'.focused = h.focused
         /\ Owner(w) \in Pane =>
              /\ todo' = Refocus(Owner(w), w)
              /\ \A q \in Pane :
                   h'.focused[q] = IF q = Owner(w) /\ h.focused[q] = w THEN NoWin ELSE h.focused[q]
<1> DEFINE p == Owner(w)
           q == Without(h.popups, w)
           s == [h EXCEPT !.popups = q, !.mapped = @ \ {w}]
<1>1. Gone(w) /\ w \in Range(h.popups) BY DEF PopupDestroyed
<1>2. IF p \notin Pane THEN h' = s /\ todo' = <<>>
      ELSE /\ h' = Unlisted(s, p, w)
           /\ todo' = Refocus(p, w)
  <2>1. CASE p \notin Pane BY <2>1, Zenon DEF PopupDestroyed
  <2>2. CASE p \in Pane
    <3>1. h' = Unlisted(s, p, w) BY <2>2, Zenon DEF PopupDestroyed
    <3>2. todo' = (IF h.focused[p] = w THEN <<[op |-> "fallback", pane |-> p]>> ELSE <<>>) \o <<Sync(p)>>
      BY <2>2, Zenon DEF PopupDestroyed
    <3> QED BY <2>2, <3>1, <3>2, RefocusIs
  <2> QED BY <2>1, <2>2
<1>3. Range(q) = Range(h.popups) \ {w} BY WithoutElements DEF Listed
<1> HIDE DEF q
<1>4. Memory(h) /\ ListFields \subseteq DOMAIN h /\ MemoryFields \subseteq DOMAIN h
  BY DEF Listed, Handled, Memory
<1>5. Changed(h, s, {"popups", "mapped"}) /\ s.popups = q /\ s.mapped = h.mapped \ {w}
  BY <1>4 DEF Changed, ListFields, MemoryFields
<1> HIDE DEF s
<1>6. Memory(s)
  <2>1. {"popups", "mapped"} \cap {"focused", "history", "ordFocus"} = {} OBVIOUS
  <2> QED BY <1>4, <1>5, <2>1, ChangedMemory
<1>7. s.focused = h.focused BY <1>4, <1>5, ChangedParts
<1> HIDE DEF p
<1>8. /\ Memory(h') /\ Refocused(s, h')
      /\ p \notin Pane => h'.focused = h.focused
      /\ p \in Pane => \A r \in Pane :
           h'.focused[r] = IF r = p /\ h.focused[r] = w THEN NoWin ELSE h.focused[r]
  <2>1. CASE p \notin Pane
    <3>1. Refocused(s, s) BY DEF Refocused
    <3> QED BY <1>2, <1>6, <1>7, <2>1, <3>1
  <2>2. CASE p \in Pane BY <1>2, <1>6, <1>7, <2>2, UnlistedEffect
  <2> QED BY <2>1, <2>2
<1>9. Changed(h, h', {"popups", "mapped", "focused", "history"})
  BY <1>5, <1>8 DEF Changed, Refocused
<1>10. h'.popups = q /\ h'.mapped = h.mapped \ {w}
  BY <1>4, <1>5, <1>8 DEF Refocused, Changed, ListFields, MemoryFields
<1>11. /\ h'.main = h.main /\ h'.overlay = h.overlay /\ h'.root = h.root
       /\ h'.dialogs = h.dialogs /\ h'.ordinary = h.ordinary /\ h'.kbd = h.kbd
  BY <1>4, <1>9, ChangedParts
<1>12. w \notin {h.main, h.overlay} \cup Range(h.ordinary) \cup Range(h.dialogs)
       /\ \A r \in Pane : h.root[r] # w
  BY <1>1, KindsApart
<1>13. Listing(h') \subseteq Listing(h) \ {w} BY <1>3, <1>10, <1>11, <1>12 DEF Listing, Placed
<1>14. h'.main \notin Range(h'.ordinary) BY <1>11 DEF Handled
<1>15. Due(h', life', todo') BY <1>2, RefocusDue, DueEmpty
<1>16. Handled(h', life', todo') BY <1>1, <1>8, <1>11, <1>13, <1>14, <1>15, Departs
<1> QED BY <1>1, <1>2, <1>3, <1>8, <1>9, <1>10, <1>16 DEF p

LEMMA TwoForms ==
  ASSUME NEW next, IsList(next), NEW a, NEW b
  PROVE  <<a>> \o <<b>> \o next = Cons(a, Cons(b, next))
<1>1. <<a>> \o <<b>> = <<a, b>>
  <2>1. IsList(<<>>) /\ <<b>> = Cons(b, <<>>) BY EmptyList, ConsForms
  <2>2. IsList(<<b>>) BY <2>1, ConsList
  <2>3. <<a>> \o <<b>> = Cons(a, <<b>>) BY <2>2, ConsForms
  <2>4. <<a, b>> = Cons(a, Cons(b, <<>>)) BY EmptyList, ConsForms
  <2> QED BY <2>1, <2>3, <2>4
<1>2. <<a, b>> \o next = Cons(a, Cons(b, next)) BY ConsTwo
<1> QED BY <1>1, <1>2

LEMMA DialogDestroyedEffect ==
  ASSUME NEW w \in Window, Listed(h), Handled(h, life, todo), DialogDestroyed(w)
  PROVE  /\ Handled(h', life', todo') /\ h'.root = h.root
         /\ Changed(h, h', {"dialogs", "mapped", "focused", "history"})
         /\ Range(h'.dialogs) = Range(h.dialogs) \ {w} /\ h'.mapped = h.mapped \ {w}
         /\ KindOf[w] = "dialog" /\ PaneOf[w] \in Pane
         /\ \A q \in Pane : h.focused[q] # w => h'.focused[q] = h.focused[q]
         /\ todo' \in {Cons(Sync(PaneOf[w]), After(w)),
                      Cons([op |-> "fallback", pane |-> PaneOf[w]], Cons(Sync(PaneOf[w]), After(w)))}
<1> DEFINE p == PaneOf[w]
           d == Without(h.dialogs, w)
           s == [h EXCEPT !.dialogs = d, !.mapped = @ \ {w}]
           fb == [op |-> "fallback", pane |-> p]
           sy == Sync(p)
<1>1. Gone(w) /\ w \in Range(h.dialogs) BY DEF DialogDestroyed
<1>2. h' = Unlisted(s, p, w) BY Zenon DEF DialogDestroyed
<1>3. todo' = (IF h.focused[p] = w THEN <<fb>> ELSE <<>>) \o <<sy>> \o After(w)
  BY Zenon DEF DialogDestroyed
<1>4. p \in Pane /\ KindOf[w] = "dialog" BY <1>1, KindsApart, FocusAssumption
<1>5. Range(d) = Range(h.dialogs) \ {w} BY WithoutElements DEF Listed
<1>6. Due(h', life', After(w)) BY DueOf
<1>7. IsList(After(w)) BY <1>6 DEF Due
<1>8. todo' \in {Cons(sy, After(w)), Cons(fb, Cons(sy, After(w)))}
  <2> DEFINE n == After(w)
  <2> HIDE DEF fb, sy, n
  <2>1. IsList(n) BY <1>7 DEF n
  <2>2. <<fb>> \o <<sy>> \o n = Cons(fb, Cons(sy, n)) BY <2>1, TwoForms
  <2>3. <<>> \o <<sy>> \o n = Cons(sy, n) BY <2>1, RouteTails, Zenon
  <2> QED BY <1>3, <2>2, <2>3 DEF n
<1>9. Due(h', life', todo')
  <2>1. Due(h', life', Cons(sy, After(w))) BY <1>4, <1>6, DueCons DEF Fit, Sync
  <2>2. Due(h', life', Cons(fb, Cons(sy, After(w)))) BY <1>4, <2>1, DueCons DEF Fit
  <2> QED BY <1>8, <2>1, <2>2
<1> HIDE DEF d, fb, sy, p
<1>10. Memory(h) /\ ListFields \subseteq DOMAIN h /\ MemoryFields \subseteq DOMAIN h
  BY DEF Listed, Handled, Memory
<1>11. Changed(h, s, {"dialogs", "mapped"}) /\ s.dialogs = d /\ s.mapped = h.mapped \ {w} /\ s.focused = h.focused
  BY <1>10 DEF Changed, ListFields, MemoryFields
<1> HIDE DEF s
<1>12. Memory(s)
  <2>1. {"dialogs", "mapped"} \cap {"focused", "history", "ordFocus"} = {} OBVIOUS
  <2> QED BY <1>10, <1>11, <2>1, ChangedMemory
<1>13. Memory(h') /\ Refocused(s, h') BY <1>2, <1>4, <1>12, UnlistedEffect
<1>14. Changed(h, h', {"dialogs", "mapped", "focused", "history"})
  BY <1>11, <1>13 DEF Changed, Refocused
<1>15. h'.dialogs = d BY <1>10, <1>11, <1>13 DEF Refocused, Changed, ListFields
<1>16. /\ h'.main = h.main /\ h'.overlay = h.overlay /\ h'.root = h.root
       /\ h'.popups = h.popups /\ h'.ordinary = h.ordinary /\ h'.kbd = h.kbd
  BY <1>10, <1>14, ChangedParts
<1>17. w \notin {h.main, h.overlay} \cup Range(h.ordinary) \cup Range(h.popups)
       /\ \A r \in Pane : h.root[r] # w
  BY <1>4, KindsApart
<1>18. Listing(h') \subseteq Listing(h) \ {w} BY <1>5, <1>15, <1>16, <1>17 DEF Listing, Placed
<1>19. h'.main \notin Range(h'.ordinary) BY <1>16 DEF Handled
<1>20. Handled(h', life', todo') BY <1>1, <1>9, <1>13, <1>16, <1>18, <1>19, Departs
<1>21. h'.mapped = h.mapped \ {w} BY <1>10, <1>11, <1>13 DEF Refocused, Changed, MemoryFields
<1>22. \A q \in Pane : h.focused[q] # w => h'.focused[q] = h.focused[q]
  <2>1. h'.focused[p] = IF s.focused[p] = w THEN NoWin ELSE s.focused[p] BY <1>2, <1>4, <1>12, UnlistedEffect
  <2>2. \A q \in Pane \ {p} : h'.focused[q] = s.focused[q] BY <1>2, <1>4, <1>12, UnlistedEffect
  <2> QED BY <1>11, <2>1, <2>2
<1>23. Range(h'.dialogs) = Range(h.dialogs) \ {w} BY <1>5, <1>15
<1> HIDE DEF Unlisted
<1> QED BY <1>4, <1>8, <1>14, <1>16, <1>20, <1>21, <1>22, <1>23 DEF p, fb, sy

LEMMA RootDestroyedEffect ==
  ASSUME NEW w \in Window, Listed(h), Handled(h, life, todo), RootDestroyed(w)
  PROVE  /\ Handled(h', life', todo') /\ PaneOf[w] \in Pane
         /\ todo' = Cons([op |-> "detach", pane |-> PaneOf[w]], After(w))
         /\ \A r \in Pane : h'.root[r] = IF r = PaneOf[w] THEN NoWin ELSE h.root[r]
         /\ \A r \in Pane : r # PaneOf[w] => h'.focused[r] = h.focused[r]
         /\ Range(h'.dialogs) = {d \in Range(h.dialogs) : PaneOf[d] # PaneOf[w]}
         /\ h'.main = h.main /\ h'.overlay = h.overlay /\ h'.popups = h.popups /\ h'.ordinary = h.ordinary
         /\ h'.mapped = h.mapped /\ h'.ordFocus = h.ordFocus /\ KindOf[w] = "root"
<1> DEFINE p == PaneOf[w]
           s == CancelGrab(h, p)
           d == Only(s.dialogs, LAMBDA v : PaneOf[v] # p)
           dt == [op |-> "detach", pane |-> p]
<1>1. Gone(w) /\ todo' = <<dt>> \o After(w) /\ \E q \in Pane : h.root[q] = w
  BY DEF RootDestroyed, Range, Listed
<1>2. p \in Pane /\ KindOf[w] = "root" /\ \A q \in Pane : h.root[q] = w <=> q = p
  BY <1>1, KindsApart
<1>3. h' = [s EXCEPT !.root[p] = NoWin, !.focused[p] = NoWin, !.history[p] = <<>>, !.dialogs = d]
  BY Zenon DEF RootDestroyed
<1>4. Memory(h) /\ ListFields \subseteq DOMAIN h /\ MemoryFields \subseteq DOMAIN h
  BY DEF Listed, Handled, Memory
<1>5. SameLists(h, s) /\ MemoryFields \subseteq DOMAIN s
      /\ s.focused = h.focused /\ s.history = h.history /\ s.kbd = h.kbd /\ s.ordFocus = h.ordFocus
      /\ s.mapped = h.mapped
  BY <1>4 DEF CancelGrab, SameLists, ListFields, MemoryFields
<1> HIDE DEF s
<1>6. Listed(s) /\ Memory(s) BY <1>4, <1>5, SameListsListed DEF Memory
<1>7. Range(d) = {v \in Range(h.dialogs) : PaneOf[v] # p}
  <2> DEFINE S == {v \in Range(s.dialogs) : PaneOf[v] # p}
  <2>1. d = Within(s.dialogs, S) BY DEF Only
  <2>2. s.dialogs \in Seq(OfKind("dialog")) BY <1>6 DEF Listed
  <2> HIDE DEF S, d
  <2>3. Range(d) = Range(s.dialogs) \cap S BY <2>1, <2>2, WithinElements
  <2>4. s.dialogs = h.dialogs BY <1>5 DEF SameLists
  <2> QED BY <2>3, <2>4 DEF S
<1>8. w \notin {h.main, h.overlay} \cup Range(h.ordinary) \cup Range(h.popups) \cup Range(h.dialogs)
  BY <1>2, KindsApart
<1>9. IsList(After(w)) /\ Due(h', life', After(w)) BY DueOf DEF Due
<1>10. todo' = Cons(dt, After(w))
  <2> HIDE DEF dt
  <2> QED BY <1>1, <1>9, ConsForms
<1>11. Due(h', life', Cons(dt, After(w))) BY <1>2, <1>9, DueCons DEF Fit
<1> HIDE DEF d, dt, p
<1>12. /\ h'.root = [s.root EXCEPT ![p] = NoWin] /\ h'.dialogs = d
       /\ h'.focused = [s.focused EXCEPT ![p] = NoWin] /\ h'.history = [s.history EXCEPT ![p] = <<>>]
       /\ DOMAIN h' = DOMAIN s
       /\ h'.main = s.main /\ h'.overlay = s.overlay /\ h'.popups = s.popups /\ h'.ordinary = s.ordinary
       /\ h'.kbd = s.kbd /\ h'.ordFocus = s.ordFocus /\ h'.mapped = s.mapped
  BY <1>3, <1>5, <1>6 DEF SameLists, ListFields, MemoryFields, Listed
<1>13. \A r \in Pane : h'.root[r] = IF r = p THEN NoWin ELSE h.root[r]
  BY <1>2, <1>5, <1>6, <1>12 DEF Listed, SameLists
<1>14. Memory(h')
  <2>1. \A r \in Pane : IsList(h'.history[r]) BY <1>2, <1>6, <1>12, EmptyList DEF Memory
  <2> QED BY <1>5, <1>6, <1>12, <2>1 DEF Memory
<1>15. Listing(h') \subseteq Listing(h) \ {w}
  <2>1. /\ h'.main = h.main /\ h'.overlay = h.overlay /\ h'.popups = h.popups /\ h'.ordinary = h.ordinary
        /\ Range(h'.dialogs) \subseteq Range(h.dialogs)
    BY <1>5, <1>7, <1>12 DEF SameLists
  <2>2. \A r \in Pane : h'.root[r] # NoWin => h'.root[r] = h.root[r] /\ h'.root[r] # w BY <1>2, <1>13
  <2> QED BY <1>8, <2>1, <2>2 DEF Listing, Placed
<1>16. h'.main \notin Range(h'.ordinary) /\ h'.kbd = h.kbd BY <1>5, <1>12 DEF Handled, SameLists
<1>17. Handled(h', life', todo') BY <1>1, <1>10, <1>11, <1>14, <1>15, <1>16, Departs
<1>18. \A r \in Pane : r # p => h'.focused[r] = h.focused[r] BY <1>5, <1>6, <1>12 DEF Memory
<1>19. /\ h'.main = h.main /\ h'.overlay = h.overlay /\ h'.popups = h.popups /\ h'.ordinary = h.ordinary
       /\ h'.mapped = h.mapped /\ h'.ordFocus = h.ordFocus
  BY <1>5, <1>12 DEF SameLists
<1> QED BY <1>2, <1>7, <1>10, <1>12, <1>13, <1>17, <1>18, <1>19 DEF p, dt

-----------------------------------------------------------------------------
(* ... and through the input                                               *)

SeatParts == {"under", "grabbed", "grab", "down", "pressed", "canceled"}

LEMMA ChangedSame ==
  ASSUME NEW s, NEW t, NEW F, Listed(s), Memory(s), Changed(s, t, F),
         F \cap (ListFields \cup {"focused", "history", "kbd"}) = {}
  PROVE  SameLists(s, t)
BY DEF Changed, Listed, ListFields, SameLists

\* Only the pointer and its buttons change
LEMMA SeatHandled ==
  ASSUME NEW t, NEW q, Listed(h), Handled(h, life, todo), Changed(h, t, SeatParts), Due(h, life, q)
  PROVE  Handled(t, life, q)
<1>0. SeatParts \cap (ListFields \cup {"focused", "history", "kbd", "ordFocus"}) = {}
  BY DEF SeatParts, ListFields
<1>1. Memory(h) BY DEF Handled
<1>2. SameLists(h, t)
  <2>1. SeatParts \cap (ListFields \cup {"focused", "history", "kbd"}) = {} BY <1>0
  <2> QED BY <1>1, <2>1, ChangedSame, Zenon
<1>3. Memory(t) BY <1>0, <1>1, ChangedMemory, SMTT(60)
<1>4. t.kbd = h.kbd
  <2>1. "kbd" \notin SeatParts BY DEF SeatParts
  <2> QED BY <1>1, <2>1, ChangedParts
<1> QED BY <1>2, <1>3, <1>4, HandledSame DEF Handled

LEMMA PointerEffect ==
  ASSUME Listed(h), Handled(h, life, todo), (\E w : Motion(w)) \/ (\E b : ReleaseButton(b))
  PROVE  /\ Handled(h', life', todo') /\ Changed(h, h', SeatParts)
         /\ todo = <<>> /\ todo' = <<>> /\ life' = life /\ c' = c /\ asked' = asked
<1>1. todo = <<>> /\ todo' = <<>> /\ life' = life /\ c' = c /\ asked' = asked
  BY DEF Motion, ReleaseButton, Idle
<1>2. Changed(h, h', SeatParts)
  <2>1. ASSUME NEW w, Motion(w) PROVE Changed(h, h', SeatParts)
    <3>1. h' = [h EXCEPT !.under = w] BY <2>1 DEF Motion
    <3> QED BY <3>1 DEF Changed, SeatParts
  <2>2. ASSUME NEW b, ReleaseButton(b) PROVE Changed(h, h', SeatParts)
    <3> DEFINE s == [h EXCEPT !.down = @ \ {b}, !.pressed = @ \ {b}]
    <3>1. \/ h' = s
          \/ \E x : h' = [s EXCEPT !.canceled = x]
          \/ h' = [s EXCEPT !.grabbed = FALSE, !.grab = NoWin]
      BY <2>2, Zenon DEF ReleaseButton
    <3>2. Changed(h, s, SeatParts) BY DEF Changed, SeatParts
    <3> HIDE DEF s
    <3>3. ASSUME NEW x, h' = [s EXCEPT !.canceled = x] PROVE Changed(h, h', SeatParts)
      BY <3>2, <3>3 DEF Changed, SeatParts
    <3>4. ASSUME h' = [s EXCEPT !.grabbed = FALSE, !.grab = NoWin] PROVE Changed(h, h', SeatParts)
      BY <3>2, <3>4 DEF Changed, SeatParts
    <3> QED BY <3>1, <3>2, <3>3, <3>4
  <2> QED BY <2>1, <2>2
<1>3. Due(h, life, todo') BY <1>1, DueEmpty
<1>4. Handled(h', life, todo') BY <1>2, <1>3, SeatHandled, Zenon
<1> QED BY <1>1, <1>2, <1>4, Zenon

Clear == [op |-> "clear"]

\* What a press leaves to do
PressLeft(w) ==
  LET q == IF w # NoWin THEN Cons(Note(w, TRUE), Cons(Focus(w), <<>>)) ELSE Cons(Focus(w), <<>>)
  IN IF w \in Unresolved THEN Cons(Clear, q) ELSE q

LEMMA PressForm ==
  ASSUME NEW w
  PROVE  (IF w \in Unresolved THEN <<[op |-> "clear"]>> ELSE <<>>)
           \o (IF w # NoWin THEN <<Note(w, TRUE)>> ELSE <<>>) \o <<Focus(w)>> = PressLeft(w)
<1> DEFINE a == Clear
           n == Note(w, TRUE)
           f == Focus(w)
<1>0. a = [op |-> "clear"] BY DEF Clear
<1> HIDE DEF a, n, f
<1>1. IsList(<<>>) /\ <<f>> = Cons(f, <<>>) BY EmptyList, ConsForms
<1>2. IsList(<<f>>) BY <1>1, ConsList
<1>3. /\ <<a>> \o <<n>> \o <<f>> = Cons(a, Cons(n, <<f>>))
      /\ <<a>> \o <<>> \o <<f>> = Cons(a, <<f>>)
      /\ <<>> \o <<n>> \o <<f>> = Cons(n, <<f>>)
      /\ <<>> \o <<>> \o <<f>> = <<f>>
  <2>1. <<a>> \o <<n>> \o <<f>> = Cons(a, Cons(n, <<f>>)) BY <1>2, TwoForms
  <2>2. <<a>> \o <<>> = <<a>> /\ <<>> \o <<n>> = <<n>> /\ <<>> \o <<>> = <<>> OBVIOUS
  <2>3. <<a>> \o <<f>> = Cons(a, <<f>>) /\ <<n>> \o <<f>> = Cons(n, <<f>>) /\ <<>> \o <<f>> = <<f>>
    BY <1>2, ConsForms
  <2> QED BY <2>1, <2>2, <2>3
<1> QED BY <1>0, <1>1, <1>3 DEF PressLeft, a, n, f

LEMMA UnderPointListed ==
  ASSUME Listed(h), NEW w \in UnderPoint
  PROVE  w \in Listing(h) \cup {NoWin}
<1>1. /\ PanePopupSet \subseteq Range(h.popups) /\ DialogSet \subseteq Range(h.dialogs)
      /\ PopupSet \subseteq Range(h.popups)
  BY DEF PanePopupSet, DialogSet, PopupSet
<1>2. \A x \in RootSet : x \in Placed(h) BY PlacedWindows DEF RootSet, Shown
<1>3. Range(HitOrder(h)) \subseteq Listing(h)
  <2>1. Range(HitOrder(h)) = PanePopupSet \cup DialogSet \cup PopupSet \cup ({h.overlay} \ {NoWin})
                             \cup RootSet \cup Range(h.ordinary) \cup ({h.main} \ {NoWin})
    BY HitSlab
  <2> QED BY <1>1, <1>2, <2>1, PlacedWindows DEF Listing
<1> QED BY <1>3 DEF UnderPoint

LEMMA PressEffect ==
  ASSUME Listed(h), Handled(h, life, todo), NEW w, NEW b, Press(b, w)
  PROVE  /\ Handled(h', life', todo') /\ w \in Listing(h) \cup {NoWin}
         /\ todo = <<>> /\ life' = life /\ c' = c /\ asked' = asked
         /\ \/ Changed(h, h', SeatParts) /\ todo' = <<>> /\ clicked' = clicked
            \/ /\ Changed(h, h', SeatParts \cup {"ordFocus"}) /\ todo' = PressLeft(w)
               /\ w \notin Range(h.ordinary) => h'.ordFocus.target = NoFocus
               /\ w \in Range(h.ordinary) =>
                    /\ h'.ordFocus.win = w
                    /\ h'.ordFocus.target = IF w \in Unresolved THEN NoFocus ELSE c.target
               /\ clicked' = IF asked \/ c.shell \/ Repeats(w) THEN NoWin ELSE w
<1> DEFINE down == IF Holds THEN [h EXCEPT !.down = @ \cup {b}, !.pressed = @ \cup {b}] ELSE h
           ord  == IF w \notin Range(h.ordinary) THEN NoOrd
                   ELSE [win |-> w, target |-> IF w \in Unresolved THEN NoFocus ELSE c.target]
<1>1. todo = <<>> /\ life' = life /\ c' = c /\ asked' = asked /\ w \in UnderPoint BY DEF Press, Idle
<1>2. w \in Listing(h) \cup {NoWin} BY <1>1, UnderPointListed
<1>3. Changed(h, down, SeatParts) BY DEF Changed, SeatParts
<1>4. Memory(h) BY DEF Handled
<1>5. CASE h.grabbed
  <2>1. h' = down /\ todo' = <<>> /\ clicked' = clicked BY <1>1, <1>5 DEF Press
  <2> HIDE DEF down
  <2>2. Handled(h', life', todo') BY <1>1, <1>3, <2>1, DueEmpty, SeatHandled
  <2> QED BY <1>1, <1>2, <1>3, <2>1, <2>2
<1>6. CASE ~h.grabbed
  <2>1. /\ \/ h' = [down EXCEPT !.under = w, !.grabbed = TRUE, !.grab = w, !.ordFocus = ord]
           \/ h' = [down EXCEPT !.ordFocus = ord]
        /\ todo' = (IF w \in Unresolved THEN <<[op |-> "clear"]>> ELSE <<>>)
                   \o (IF w # NoWin THEN <<Note(w, TRUE)>> ELSE <<>>) \o <<Focus(w)>>
        /\ clicked' = IF asked \/ c.shell \/ Repeats(w) THEN NoWin ELSE w
    BY <1>6, Zenon DEF Press
  <2>2. todo' = PressLeft(w) BY <2>1, PressForm
  <2>3. /\ {"win", "target"} \subseteq DOMAIN ord
        /\ w \notin Range(h.ordinary) => ord.target = NoFocus
        /\ w \in Range(h.ordinary) =>
             /\ ord.win = w
             /\ ord.target = IF w \in Unresolved THEN NoFocus ELSE c.target
    BY DEF NoOrd
  <2> HIDE DEF down, ord
  <2>4. "ordFocus" \in DOMAIN h BY <1>4 DEF Memory, MemoryFields
  <2>5. Changed(h, h', SeatParts \cup {"ordFocus"}) /\ h'.ordFocus = ord
    BY <1>3, <2>1, <2>4 DEF Changed, SeatParts
  <2> DEFINE F == SeatParts \cup {"ordFocus"}
  <2>6. SameLists(h, h') BY <1>4, <2>5, ChangedSame DEF SeatParts, ListFields
  <2>7. h'.kbd = h.kbd /\ h'.focused = h.focused /\ h'.history = h.history
        /\ MemoryFields \subseteq DOMAIN h'
    BY <1>4, <2>5, ChangedParts DEF SeatParts
  <2>8. Memory(h') BY <1>4, <2>3, <2>5, <2>7 DEF Memory
  <2>9. w \in Come(life) BY <1>2, LivingCome DEF Handled
  <2>10. Due(h, life, <<>>) BY DueEmpty
  <2>11. Due(h, life, Cons(Focus(w), <<>>)) BY <2>9, <2>10, DueCons DEF Fit, Focus
  <2>12. Due(h, life, Cons(Note(w, TRUE), Cons(Focus(w), <<>>))) BY <2>11, NoteDue
  <2>13. \A q : Due(h, life, q) => Due(h, life, Cons(Clear, q)) BY DueCons DEF Fit, Clear
  <2>14. Due(h, life, todo') BY <2>2, <2>11, <2>12, <2>13 DEF PressLeft
  <2>15. Handled(h', life, todo') BY <2>6, <2>7, <2>8, <2>14, HandledSame DEF Handled
  <2> QED BY <1>1, <1>2, <2>1, <2>2, <2>3, <2>5, <2>15
<1> QED BY <1>5, <1>6

LEMMA HandledStep ==
  ASSUME Listed(h), Handled(h, life, todo), [Next]_vars
  PROVE  Handled(h', life', todo')
<1>1. CASE Step BY <1>1, StepHandled
<1>2. CASE WindowEvents
  <2>1. PICK w \in Window :
          \/ MainAppears(w) \/ OverlayAppears(w) \/ RootAppears(w) \/ DialogAppears(w)
          \/ OrdinaryAppears(w) \/ PopupAppears(w) \/ Map(w) \/ Unmap(w)
          \/ TopDestroyed(w) \/ RootDestroyed(w) \/ DialogDestroyed(w) \/ PopupDestroyed(w)
          \/ OtherDestroyed(w)
    BY <1>2 DEF WindowEvents
  <2>2. CASE \/ MainAppears(w) \/ OverlayAppears(w) \/ RootAppears(w) \/ DialogAppears(w)
             \/ OrdinaryAppears(w) \/ PopupAppears(w)
    BY <2>2, MainAppearsEffect, OverlayAppearsEffect, RootAppearsEffect, DialogAppearsEffect,
       OrdinaryAppearsEffect, PopupAppearsEffect
  <2>3. CASE \/ Map(w) \/ Unmap(w) \/ TopDestroyed(w) \/ RootDestroyed(w) \/ DialogDestroyed(w)
             \/ PopupDestroyed(w) \/ OtherDestroyed(w)
    BY <2>3, MapEffect, UnmapEffect, TopDestroyedEffect, RootDestroyedEffect, DialogDestroyedEffect,
       PopupDestroyedEffect, OtherDestroyedEffect
  <2> QED BY <2>1, <2>2, <2>3
<1>3. CASE MainDemoted BY <1>3, MainDemotedEffect
<1>4. CASE \/ ControlAsks \/ ControlToggles \/ ShellEnds \/ ControlChanges \/ UNCHANGED vars
  <2>1. h' = h /\ life' = life /\ todo' = todo
    BY <1>4, Zenon DEF ControlAsks, ControlToggles, ShellEnds, ControlChanges, runtime, vars
  <2> QED BY <2>1
<1>5. CASE PressKey
  <2>1. h' = h /\ life' = life /\ (todo' = <<Route, [op |-> "key"]>> \/ todo' = <<Route, [op |-> "toggle"]>>)
    BY <1>5 DEF PressKey
  <2>2. Due(h, life, todo') BY <2>1, DueOf
  <2> QED BY <2>1, <2>2 DEF Handled
<1>6. CASE Input
  <2>1. (\E w : Motion(w)) \/ (\E b : ReleaseButton(b)) => Handled(h', life', todo') BY PointerEffect
  <2>2. \A w, b : Press(b, w) => Handled(h', life', todo') BY PressEffect
  <2> QED BY <1>5, <1>6, <2>1, <2>2 DEF Input
<1> QED BY <1>1, <1>2, <1>3, <1>4, <1>5, <1>6 DEF Next

LEMMA HandledInit ==
  ASSUME Init
  PROVE  Handled(h, life, todo)
<1>1. h = [main |-> NoWin, overlay |-> NoWin, root |-> [p \in Pane |-> NoWin],
           dialogs |-> <<>>, popups |-> <<>>, ordinary |-> <<>>, mapped |-> {},
           kbd |-> NoWin, ordFocus |-> NoOrd, focused |-> [p \in Pane |-> NoWin],
           history |-> [p \in Pane |-> <<>>], under |-> NoWin, grabbed |-> FALSE, grab |-> NoWin,
           down |-> {}, pressed |-> {}, canceled |-> {}]
  BY Zenon DEF Init
<1>2. todo = <<>> /\ DOMAIN life = Window BY DEF Init
<1>3. /\ h.main = NoWin /\ h.overlay = NoWin /\ h.root = [p \in Pane |-> NoWin]
      /\ h.dialogs = <<>> /\ h.popups = <<>> /\ h.ordinary = <<>> /\ h.kbd = NoWin
  BY <1>1
<1>4. Listing(h) = {} BY <1>3, EmptyList DEF Listing, Placed
<1>5. Memory(h)
  <2>1. /\ h.ordFocus = NoOrd /\ h.focused = [p \in Pane |-> NoWin]
        /\ h.history = [p \in Pane |-> <<>>] /\ MemoryFields \subseteq DOMAIN h
    BY <1>1 DEF MemoryFields
  <2>2. {"win", "target"} \subseteq DOMAIN NoOrd BY DEF NoOrd
  <2>3. \A p \in Pane : IsList(h.history[p]) BY <2>1, EmptyList
  <2> QED BY <2>1, <2>2, <2>3 DEF Memory
<1>6. h.main \notin Range(h.ordinary) /\ h.kbd \in Come(life) BY <1>3, EmptyList, LivingCome
<1> QED BY <1>2, <1>4, <1>5, <1>6, DueEmpty DEF Handled

-----------------------------------------------------------------------------
(* What is known of the window groups: a group is that of a pane with a    *)
(* window, and this window is a member of it                               *)

Detaches(q, p) == q # <<>> /\ Head(q).op = "detach" /\ Head(q).pane = p

GroupHeld(s, x, p) ==
  /\ s.root[p] # NoWin
  /\ x.panes[p].group.prim = s.root[p]
  /\ s.root[p] \in x.panes[p].group.members

Groups(s, x, q) ==
  /\ GroupShaped(x)
  /\ \A p \in Pane : Grouped(x, p) => x.panes[p].st # "off" /\ (Detaches(q, p) \/ GroupHeld(s, x, p))

\* No group is made, and the ones that stay are what they were
Regrouped(x, y) ==
  \A p \in Pane : Grouped(y, p) => /\ Grouped(x, p) /\ y.panes[p].group = x.panes[p].group
                                   /\ y.panes[p].st = x.panes[p].st

LEMMA RegroupedFrom ==
  ASSUME NEW x, NEW y, y.panes = x.panes \/ FocusKept(x, y)
  PROVE  Regrouped(x, y)
BY DEF Regrouped, FocusKept, Grouped, Shows

LEMMA GroupsKept ==
  ASSUME NEW s, NEW t, NEW x, NEW y, NEW q, NEW r, Groups(s, x, q), Regrouped(x, y),
         \A p \in Pane : Grouped(y, p) /\ ~Detaches(r, p) => t.root[p] = s.root[p] /\ ~Detaches(q, p)
  PROVE  Groups(t, y, r)
<1>1. GroupShaped(y) BY DEF Groups, GroupShaped, Regrouped
<1>2. ASSUME NEW p \in Pane, Grouped(y, p)
      PROVE  y.panes[p].st # "off" /\ (Detaches(r, p) \/ GroupHeld(t, y, p))
  <2>1. Grouped(x, p) /\ y.panes[p].group = x.panes[p].group /\ y.panes[p].st = x.panes[p].st
    BY <1>2 DEF Regrouped
  <2>2. x.panes[p].st # "off" /\ (Detaches(q, p) \/ GroupHeld(s, x, p)) BY <2>1 DEF Groups
  <2>3. ASSUME ~Detaches(r, p) PROVE GroupHeld(t, y, p) BY <1>2, <2>1, <2>2, <2>3 DEF GroupHeld
  <2> QED BY <2>1, <2>2, <2>3
<1> QED BY <1>1, <1>2 DEF Groups

\* A pane's focused window is told: its group gets members
LEMMA GroupsGrow ==
  ASSUME NEW s, NEW t, NEW x, NEW p \in Pane, NEW w, NEW members, NEW q, NEW r,
         Shaped(x), Groups(s, x, q), t.root = s.root, \A v \in Pane : ~Detaches(q, v)
  PROVE  Groups(t, GroupFocused(x, p, w, members), r)
<1> DEFINE y == GroupFocused(x, p, w, members)
<1>0. GroupShaped(x) BY DEF Groups
<1>1. /\ GroupShaped(y) /\ \A v \in Pane \ {p} : y.panes[v] = x.panes[v]
      /\ Grouped(y, p) <=> Grouped(x, p)
      /\ Grouped(x, p) => /\ y.panes[p].group.members = x.panes[p].group.members \cup members
                          /\ y.panes[p].group.prim = x.panes[p].group.prim
                          /\ y.panes[p].st = x.panes[p].st
  BY <1>0, GroupFocusedEffect
<1> HIDE DEF y
<1>2. \A v \in Pane \ {p} : Grouped(y, v) <=> Grouped(x, v) BY <1>1 DEF Grouped, Shows
<1>3. ASSUME NEW v \in Pane, Grouped(y, v) PROVE y.panes[v].st # "off" /\ GroupHeld(t, y, v)
  <2>1. Grouped(x, v) BY <1>1, <1>2, <1>3
  <2>2. x.panes[v].st # "off" /\ GroupHeld(s, x, v) BY <2>1 DEF Groups
  <2>3. CASE v = p BY <1>1, <2>1, <2>2, <2>3 DEF GroupHeld
  <2>4. CASE v # p BY <1>1, <2>2, <2>4 DEF GroupHeld
  <2> QED BY <2>3, <2>4
<1> QED BY <1>1, <1>3 DEF Groups, y

LEMMA StepSame ==
  ASSUME Listed(h), Step
  PROVE  /\ ~StepDropPopups => SameLists(h, h')
         /\ StepDropPopups => Changed(h, h', {"popups"})
         /\ h'.root = h.root
<1>1. StepDropPopups => Changed(h, h', {"popups"})
  <2>1. StepDropPopups => \E q : h' = [h EXCEPT !.popups = q] BY DEF StepDropPopups
  <2> QED BY <2>1 DEF Changed
<1>2. ASSUME ~StepDropPopups PROVE SameLists(h, h')
  <2>1. Routed(h, h) BY DEF Routed
  <2>2. Routed(h, h')
    <3>1. CASE StepRoute BY <3>1, RouteFocusRouted DEF StepRoute
    <3>2. CASE StepNote BY <3>2, NotedRouted DEF StepNote
    <3>3. CASE StepFocus BY <3>3, KeyboardRouted DEF StepFocus
    <3>4. CASE StepFallback
      <4>1. h' = h \/ \E p : h' = PaneFocus(h, p).h BY <3>4 DEF StepFallback
      <4> QED BY <4>1, <2>1, PaneFocusRouted
    <3>5. CASE StepTold \/ StepWrite \/ StepSync \/ StepGroup \/ StepMapped \/ StepStatus \/ StepBridge
               \/ StepKey \/ StepToggle
      <4>1. h' = h
        BY <3>5 DEF StepTold, StepWrite, StepSync, StepGroup, StepMapped, StepStatus, StepBridge,
                    StepKey, StepToggle, outside
      <4> QED BY <4>1, <2>1
    <3> QED BY <1>2, <3>1, <3>2, <3>3, <3>4, <3>5 DEF Step
  <2> QED BY <2>2, RoutedLists
<1>3. h'.root = h.root
  <2>1. CASE StepDropPopups BY <1>1, <2>1 DEF Changed, Listed, ListFields
  <2>2. CASE ~StepDropPopups BY <1>2, <2>2 DEF SameLists
  <2> QED BY <2>1, <2>2
<1> QED BY <1>1, <1>2, <1>3

LEMMA AsksPanes ==
  ASSUME Shaped(c), FocusRequests
  PROVE  c'.panes = c.panes
<1>1. {"panes", "target", "gen", "present"} \subseteq DOMAIN c BY DEF Shaped, StateFields
<1>2. \/ \E t : c' = [c EXCEPT !.target = t, !.gen = NoGen]
      \/ \E t, gen, y : c' = [c EXCEPT !.present = y, !.target = t, !.gen = gen]
  <2>1. \/ \E t : c' = [c EXCEPT !.target = t, !.gen = NoGen]
        \/ \E t, gen : c' = [c EXCEPT !.present[gen.surf].foc = gen.foc, !.target = t, !.gen = gen]
    BY Zenon DEF FocusRequests, SetFocus, SetFocusGuarded
  <2>2. ASSUME NEW t, NEW gen, c' = [c EXCEPT !.present[gen.surf].foc = gen.foc, !.target = t, !.gen = gen]
        PROVE  \E y : c' = [c EXCEPT !.present = y, !.target = t, !.gen = gen]
    BY <2>2
  <2> QED BY <2>1, <2>2
<1> QED BY <1>1, <1>2

\* The steps that tell a pane its window
LEMMA NoteGroups ==
  ASSUME Listed(h), RegionInv, StepNote
  PROVE  LET w == Head(todo).win
             p == Owner(w)
         IN /\ p \in Pane /\ InTree(h, p, w) =>
                 \E x : /\ Shaped(x) /\ x.panes = c.panes /\ x.target = p /\ x.shell = c.shell
                        /\ c' = GroupFocused(x, p, w, Members(h, p))
            /\ ~(p \in Pane /\ InTree(h, p, w)) => c' = c
<1> DEFINE w == Head(todo).win
           p == Owner(w)
<1>1. Shaped(c) BY DEF RegionInv
<1>2. ASSUME p \in Pane, InTree(h, p, w)
      PROVE  \E x : /\ Shaped(x) /\ x.panes = c.panes /\ x.target = p /\ x.shell = c.shell
                    /\ c' = GroupFocused(x, p, w, Members(h, p))
  <2>1. PICK x \in FocusedFrom(c, p, Head(todo).advance) : c' = GroupFocused(x, p, w, Members(h, p))
    BY <1>2 DEF StepNote
  <2>2. x.target = p /\ x.shell = c.shell /\ x.panes = c.panes /\ Shaped(x)
    BY <1>1, FocusedFromEffect
  <2> QED BY <2>1, <2>2
<1>3. ~(p \in Pane /\ InTree(h, p, w)) => c' = c BY DEF StepNote
<1> QED BY <1>2, <1>3

LEMMA GroupsStep ==
  ASSUME Listed(h), Handled(h, life, todo), RegionInv, Groups(h, c, todo), Step
  PROVE  Groups(h', c', todo')
<1>1. h'.root = h.root BY StepSame
<1>2. Shaped(c) BY DEF RegionInv
<1>3. todo # <<>> /\ Fit(h, life, Head(todo)) BY DueTail DEF Step, Handled
<1>4. {"panes", "target", "shell"} \subseteq DOMAIN c BY <1>2 DEF Shaped, StateFields
<1>5. CASE Now # "detach" /\ c'.panes = c.panes
  <2>1. \A p \in Pane : ~Detaches(todo, p) BY <1>5 DEF Detaches, Now
  <2>2. Regrouped(c, c') BY <1>5, RegroupedFrom
  <2> QED BY <1>1, <2>1, <2>2, GroupsKept
<1>6. CASE StepRoute \/ StepFocus \/ StepSync \/ StepMapped \/ StepFallback \/ StepDropPopups \/ StepStatus
           \/ StepKey
  <2>1. Now # "detach" /\ c' = c
    BY <1>6 DEF StepRoute, StepFocus, StepSync, StepMapped, StepFallback, StepDropPopups, StepStatus, StepKey
  <2> QED BY <1>5, <2>1
<1>7. CASE StepTold \/ StepWrite
  <2>1. Now # "detach" BY <1>7 DEF StepTold, StepWrite
  <2>2. \E t, b : c' = [c EXCEPT !.target = t] \/ c' = [c EXCEPT !.target = t, !.shell = b]
    BY <1>7 DEF StepTold, StepWrite
  <2>3. c'.panes = c.panes BY <1>4, <2>2
  <2> QED BY <1>5, <2>1, <2>3
<1>8. CASE StepToggle
  <2>1. Now # "detach" /\ c' = Toggled(c) BY <1>8 DEF StepToggle
  <2>2. c'.panes = c.panes BY <1>4, <2>1 DEF Toggled
  <2> QED BY <1>5, <2>1, <2>2
<1>9. CASE StepNote
  <2> DEFINE w == Head(todo).win
             p == Owner(w)
  <2>1. Now # "detach" BY <1>9 DEF StepNote
  <2>2. \A v \in Pane : ~Detaches(todo, v) BY <2>1 DEF Detaches, Now
  <2>3. CASE p \in Pane /\ InTree(h, p, w)
    <3>1. PICK x : Shaped(x) /\ x.panes = c.panes /\ c' = GroupFocused(x, p, w, Members(h, p))
      BY <1>9, <2>3, NoteGroups
    <3>2. Regrouped(c, x) BY <3>1, RegroupedFrom
    <3>3. Groups(h, x, todo) BY <3>2, GroupsKept
    <3> HIDE DEF w, p
    <3> QED BY <1>1, <2>2, <2>3, <3>1, <3>3, GroupsGrow
  <2>4. CASE ~(p \in Pane /\ InTree(h, p, w))
    <3>1. c' = c BY <1>9, <2>4, NoteGroups
    <3> QED BY <1>5, <2>1, <3>1
  <2> QED BY <2>3, <2>4
<1>10. CASE StepGroup
  <2> DEFINE p == Head(todo).pane
  <2>1. Now # "detach" /\ p \in Pane BY <1>3, <1>10 DEF StepGroup, Fit, Now
  <2>2. \A v \in Pane : ~Detaches(todo, v) BY <2>1 DEF Detaches, Now
  <2>3. \E w : c' = GroupFocused(c, p, w, Members(h, p)) BY <1>10 DEF StepGroup
  <2> HIDE DEF p
  <2> QED BY <1>1, <1>2, <2>1, <2>2, <2>3, GroupsGrow
<1>11. CASE StepBridge /\ Now = "clear"
  <2>1. c' = [c EXCEPT !.target = NoFocus] BY <1>11 DEF StepBridge
  <2>2. c'.panes = c.panes BY <1>4, <2>1
  <2> QED BY <1>5, <1>11, <2>2
<1>12. CASE StepBridge /\ Now = "attach"
  <2> DEFINE p == Head(todo).pane
  <2>1. c' = Attached(c, p) /\ p \in Pane BY <1>3, <1>12 DEF StepBridge, Fit, Now
  <2> HIDE DEF p
  <2>2. FocusKept(c, c') BY <1>2, <2>1, AttachedFocus
  <2>3. Regrouped(c, c') BY <2>2, RegroupedFrom
  <2>4. \A v \in Pane : ~Detaches(todo, v) BY <1>12 DEF Detaches, Now
  <2> QED BY <1>1, <2>3, <2>4, GroupsKept
<1>13. CASE StepBridge /\ Now = "detach"
  <2> DEFINE p == Head(todo).pane
  <2>1. c' = Detached(c, p) /\ p \in Pane BY <1>3, <1>13 DEF StepBridge, Fit, Now
  <2>2. \A v \in Pane : Detaches(todo, v) => v = p BY DEF Detaches
  <2> HIDE DEF p
  <2>3. FocusKept(c, c') /\ (Grouped(c', p) => c.panes[p].st = "off") BY <1>2, <2>1, AttachedFocus
  <2>4. Regrouped(c, c') BY <2>3, RegroupedFrom
  <2>5. ~Grouped(c', p)
    <3>1. Grouped(c', p) => Grouped(c, p) BY <2>1, <2>4 DEF Regrouped
    <3> QED BY <2>1, <2>3, <3>1 DEF Groups
  <2> QED BY <1>1, <2>2, <2>4, <2>5, GroupsKept
<1>14. CASE StepBridge /\ Now = "observe"
  <2> DEFINE p == Head(todo).pane
             w == Head(todo).win
             g == [prim |-> w, foc |-> IF c.target = p THEN w ELSE NoWin, members |-> {w}]
  <2>1. /\ c' = GroupObserved(c, p, w) /\ p \in Pane /\ h.root[p] = w /\ w # NoWin
    BY <1>3, <1>14 DEF StepBridge, Fit, Now
  <2>2. \A v \in Pane : ~Detaches(todo, v) BY <1>14 DEF Detaches, Now
  <2>3. \/ c' = c
        \/ Shows(c, p) /\ c.panes[p].st = "attached" /\ c' = [c EXCEPT !.panes[p].group = g]
    BY <2>1 DEF GroupObserved
  <2>4. /\ GroupFields \subseteq DOMAIN g /\ g.prim = w /\ w \in g.members BY DEF GroupFields
  <2> HIDE DEF p, w, g
  <2>5. CASE c' = c BY <1>5, <1>14, <2>5
  <2>6. CASE Shows(c, p) /\ c.panes[p].st = "attached" /\ c' = [c EXCEPT !.panes[p].group = g]
    <3>1. PaneFields \subseteq DOMAIN c.panes[p]
      BY <1>2, <2>1, <2>6 DEF Shaped, PaneShaped, Shows, NoPane
    <3>2. DOMAIN c.panes = Pane BY <1>2 DEF Shaped
    <3>3. /\ \A v \in Pane \ {p} : c'.panes[v] = c.panes[v]
          /\ c'.panes[p].group = g /\ c'.panes[p].st = "attached"
      BY <1>4, <2>1, <2>6, <3>1, <3>2 DEF PaneFields
    <3>4. \A v \in Pane \ {p} : Grouped(c', v) <=> Grouped(c, v) BY <3>3 DEF Grouped, Shows
    <3>5. GroupShaped(c') BY <2>4, <3>3, <3>4 DEF Groups, GroupShaped
    <3>6. ASSUME NEW v \in Pane \ {p}, Grouped(c', v)
          PROVE  c'.panes[v].st # "off" /\ GroupHeld(h', c', v)
      BY <1>1, <2>2, <3>3, <3>4, <3>6 DEF Groups, GroupHeld
    <3>7. c'.panes[p].st # "off" /\ GroupHeld(h', c', p) BY <1>1, <2>1, <2>4, <3>3 DEF GroupHeld
    <3> QED BY <3>5, <3>6, <3>7 DEF Groups
  <2> QED BY <2>3, <2>5, <2>6
<1> QED BY <1>6, <1>7, <1>8, <1>9, <1>10, <1>11, <1>12, <1>13, <1>14 DEF Step, StepBridge

\* A window comes or goes
LEMMA GroupsWindows ==
  ASSUME Listed(h), Handled(h, life, todo), Groups(h, c, todo), WindowEvents \/ MainDemoted \/ Input
  PROVE  Groups(h', c', todo')
<1>1. c' = c
  BY Zenon
     DEF MainAppears, OverlayAppears, RootAppears, DialogAppears, OrdinaryAppears, PopupAppears, Map,
         Unmap, TopDestroyed, RootDestroyed, DialogDestroyed, PopupDestroyed, OtherDestroyed, MainDemoted,
         WindowEvents, Input, Motion, Press, ReleaseButton, PressKey
<1>2. todo = <<>>
  BY Zenon
     DEF MainAppears, OverlayAppears, RootAppears, DialogAppears, OrdinaryAppears, PopupAppears, Map,
         Unmap, TopDestroyed, RootDestroyed, DialogDestroyed, PopupDestroyed, OtherDestroyed, MainDemoted,
         WindowEvents, Input, Motion, Press, ReleaseButton, PressKey, Comes, Gone, Idle
<1>3. \A p : ~Detaches(todo, p) BY <1>2 DEF Detaches
<1>4. Regrouped(c, c') BY <1>1, RegroupedFrom
<1>5. Memory(h) BY DEF Handled
<1>6. ASSUME h'.root = h.root PROVE Groups(h', c', todo') BY <1>3, <1>4, <1>6, GroupsKept
<1>7. ASSUME NEW F, Changed(h, h', F), "root" \notin F PROVE Groups(h', c', todo')
  BY <1>5, <1>6, <1>7, ChangedParts
<1>8. CASE WindowEvents
  <2>1. PICK w \in Window :
          \/ MainAppears(w) \/ OverlayAppears(w) \/ RootAppears(w) \/ DialogAppears(w)
          \/ OrdinaryAppears(w) \/ PopupAppears(w) \/ Map(w) \/ Unmap(w)
          \/ TopDestroyed(w) \/ RootDestroyed(w) \/ DialogDestroyed(w) \/ PopupDestroyed(w)
          \/ OtherDestroyed(w)
    BY <1>8 DEF WindowEvents
  <2>2. CASE MainAppears(w) \/ OverlayAppears(w) \/ TopDestroyed(w) \/ DialogDestroyed(w)
    BY <1>6, <2>2, MainAppearsEffect, OverlayAppearsEffect, TopDestroyedEffect, DialogDestroyedEffect
  <2>3. CASE DialogAppears(w) \/ OrdinaryAppears(w) \/ PopupAppears(w)
    <3>1. Changed(h, h', {"dialogs"}) \/ Changed(h, h', {"ordinary"}) \/ Changed(h, h', {"popups"})
      BY <2>3, DialogAppearsEffect, OrdinaryAppearsEffect, PopupAppearsEffect
    <3> QED BY <1>7, <3>1
  <2>4. CASE Map(w) \/ Unmap(w) \/ OtherDestroyed(w)
    <3>1. Changed(h, h', {"mapped", "dialogs", "popups"}) \/ Changed(h, h', {"mapped"})
      BY <2>4, MapEffect, UnmapEffect, OtherDestroyedEffect
    <3> QED BY <1>7, <3>1
  <2>5. CASE PopupDestroyed(w)
    <3>1. Changed(h, h', {"popups", "mapped", "focused", "history"}) BY <2>5, PopupDestroyedEffect
    <3> QED BY <1>7, <3>1
  <2>6. CASE RootAppears(w)
    <3>1. /\ PaneOf[w] \in Pane /\ h.root[PaneOf[w]] = NoWin
          /\ \A r \in Pane : h'.root[r] = IF r = PaneOf[w] THEN w ELSE h.root[r]
      BY <2>6, RootAppearsEffect
    <3>2. ~Grouped(c, PaneOf[w]) BY <1>3, <3>1 DEF Groups, GroupHeld
    <3> QED BY <1>1, <1>3, <1>4, <3>1, <3>2, GroupsKept
  <2>7. CASE RootDestroyed(w)
    <3> DEFINE p == PaneOf[w]
               e == [op |-> "detach", pane |-> p]
    <3>1. /\ p \in Pane /\ todo' = Cons(e, After(w))
          /\ \A r \in Pane : h'.root[r] = IF r = p THEN NoWin ELSE h.root[r]
      BY <2>7, RootDestroyedEffect
    <3>2. IsList(After(w)) BY DueOf DEF Due
    <3>3. e.op = "detach" /\ e.pane = p OBVIOUS
    <3> HIDE DEF e, p
    <3>4. Detaches(todo', p) BY <3>1, <3>2, <3>3, ConsList DEF Detaches
    <3> QED BY <1>1, <1>3, <1>4, <3>1, <3>4, GroupsKept
  <2> QED BY <2>1, <2>2, <2>3, <2>4, <2>5, <2>6, <2>7
<1>9. CASE MainDemoted BY <1>6, <1>9, MainDemotedEffect
<1>10. CASE Input
  <2>1. CASE (\E w : Motion(w)) \/ (\E b : ReleaseButton(b))
    BY <1>7, <2>1, PointerEffect DEF SeatParts
  <2>2. ASSUME NEW w, NEW b, Press(b, w) PROVE Groups(h', c', todo')
    <3>1. Changed(h, h', SeatParts) \/ Changed(h, h', SeatParts \cup {"ordFocus"}) BY <2>2, PressEffect
    <3> QED BY <1>7, <3>1 DEF SeatParts
  <2>3. CASE PressKey BY <1>6, <2>3 DEF PressKey
  <2> QED BY <1>10, <2>1, <2>2, <2>3 DEF Input
<1> QED BY <1>8, <1>9, <1>10

LEMMA GroupsNext ==
  ASSUME Listed(h), Handled(h, life, todo), RegionInv, Groups(h, c, todo), [Next]_vars
  PROVE  Groups(h', c', todo')
<1>1. {"panes", "target", "shell"} \subseteq DOMAIN c /\ Shaped(c)
  BY DEF RegionInv, Shaped, StateFields
<1>2. CASE Step BY <1>2, GroupsStep
<1>3. CASE WindowEvents \/ MainDemoted \/ Input BY <1>3, GroupsWindows
<1>4. CASE ControlAsks \/ ControlToggles \/ ShellEnds \/ ControlChanges \/ UNCHANGED vars
  <2>1. h' = h /\ todo' = todo
    BY <1>4, Zenon DEF ControlAsks, ControlToggles, ShellEnds, ControlChanges, runtime, vars
  <2>2. c'.panes = c.panes \/ FocusKept(c, c')
    <3>1. ControlAsks => c'.panes = c.panes BY <1>1, AsksPanes DEF ControlAsks
    <3>2. ControlToggles => c'.panes = c.panes BY <1>1 DEF ControlToggles, Toggled
    <3>3. ShellEnds => c'.panes = c.panes BY <1>1 DEF ShellEnds
    <3>4. ControlChanges => FocusKept(c, c') BY ChangesFocus
    <3>5. UNCHANGED vars => c' = c BY DEF vars
    <3> QED BY <1>4, <3>1, <3>2, <3>3, <3>4, <3>5
  <2>3. Regrouped(c, c') BY <2>2, RegroupedFrom
  <2> QED BY <2>1, <2>3, GroupsKept
<1> QED BY <1>2, <1>3, <1>4 DEF Next

LEMMA GroupsInit ==
  ASSUME Init
  PROVE  Groups(h, c, todo)
<1>1. PICK sc \in Scenarios :
        c = [panes |-> [p \in Pane |-> IF p \in sc.panes THEN Hosted(p) ELSE NoPane],
             pend |-> [p \in Pane |-> NoRev], stopping |-> {}, leaving |-> {},
             accepts |-> sc.panes, regions |-> NoRegions, present |-> [u \in Surface |-> NoGen],
             target |-> NoFocus, gen |-> NoGen, shell |-> FALSE]
  BY Zenon DEF Init
<1>2. \A p \in Pane : c.panes[p] = Hosted(p) \/ c.panes[p] = NoPane BY <1>1
<1>3. \A p \in Pane : Hosted(p).group = NoGroup BY DEF Hosted, Fresh
<1>4. \A p \in Pane : ~Grouped(c, p) BY <1>2, <1>3 DEF Grouped, Shows, NoPane
<1> QED BY <1>4 DEF Groups, GroupShaped

-----------------------------------------------------------------------------
(* The ordinary window that was clicked while a target was set has the     *)
(* keyboard, or gets it last, until focus is routed                        *)

Rerouted(q) == \E e \in Range(q) : e.op \in {"route", "toggle"}

OrdinaryHeld(s, q) ==
  s.ordFocus.target # NoFocus /\ ~Rerouted(q) =>
    /\ s.ordFocus.win \in Range(s.ordinary)
    /\ s.kbd = s.ordFocus.win \/ (q # <<>> /\ Last(q) = Focus(s.ordFocus.win))

LEMMA ReroutedCons ==
  ASSUME NEW q, IsList(q), NEW e
  PROVE  Rerouted(Cons(e, q)) <=> e.op \in {"route", "toggle"} \/ Rerouted(q)
<1>1. Range(Cons(e, q)) = {e} \cup Range(q) BY ConsList
<1> QED BY <1>1 DEF Rerouted

LEMMA ReroutedForms ==
  /\ ~Rerouted(<<>>) /\ Rerouted(<<Status, Route>>) /\ \A w : Rerouted(After(w))
  /\ \A e : Rerouted(<<Route, e>>)
<1>1. ~Rerouted(<<>>) BY EmptyList DEF Rerouted
<1>2. IsList(Cons(Route, <<>>)) /\ Rerouted(Cons(Route, <<>>))
  BY EmptyList, ConsList, ReroutedCons DEF Route
<1>3. IsList(Cons(Status, Cons(Route, <<>>))) /\ Rerouted(Cons(Status, Cons(Route, <<>>)))
  BY <1>2, ConsList, ReroutedCons
<1>4. \A w : Rerouted(Cons([op |-> "drop", win |-> w], Cons(Status, Cons(Route, <<>>))))
  BY <1>3, ReroutedCons
<1>5. \A e : Rerouted(Cons(Route, Cons(e, <<>>))) BY EmptyList, ConsList, ReroutedCons DEF Route
<1>6. /\ <<Status, Route>> = Cons(Status, Cons(Route, <<>>))
      /\ \A e : <<Route, e>> = Cons(Route, Cons(e, <<>>))
      /\ \A w : After(w) = Cons([op |-> "drop", win |-> w], Cons(Status, Cons(Route, <<>>)))
  BY EmptyList, ConsForms DEF After
<1> QED BY <1>1, <1>3, <1>4, <1>5, <1>6

\* What comes before the rest of what is left to do
Leads(r, q) == \E a, b : r \in {q, Cons(a, q), Cons(a, Cons(b, q))}

LEMMA LeadsOn ==
  ASSUME NEW q, NEW r, IsList(q), Leads(r, q)
  PROVE  /\ Rerouted(q) => Rerouted(r)
         /\ q # <<>> => r # <<>> /\ Last(r) = Last(q)
<1>1. PICK a, b : r \in {q, Cons(a, q), Cons(a, Cons(b, q))} BY DEF Leads
<1>2. IsList(Cons(b, q)) /\ Cons(b, q) # <<>> /\ Cons(a, q) # <<>> BY ConsList
<1>3. Cons(a, Cons(b, q)) # <<>> BY <1>2, ConsList
<1>4. Rerouted(q) => Rerouted(Cons(b, q)) /\ Rerouted(Cons(a, q)) /\ Rerouted(Cons(a, Cons(b, q)))
  BY <1>2, ReroutedCons
<1>5. q # <<>> => Last(Cons(b, q)) = Last(q) /\ Last(Cons(a, q)) = Last(q) BY ConsLast
<1>6. q # <<>> => Last(Cons(a, Cons(b, q))) = Last(q) BY <1>2, <1>5, ConsLast
<1> QED BY <1>1, <1>2, <1>3, <1>4, <1>5, <1>6

LEMMA PaneGoneLeads ==
  ASSUME NEW w \in Window, Listed(h), Handled(h, life, todo), RootDestroyed(w) \/ DialogDestroyed(w)
  PROVE  Leads(todo', After(w))
<1>1. CASE RootDestroyed(w)
  <2>1. todo' = Cons([op |-> "detach", pane |-> PaneOf[w]], After(w)) BY <1>1, RootDestroyedEffect
  <2> QED BY <2>1, Zenon DEF Leads
<1>2. CASE DialogDestroyed(w)
  <2>1. todo' \in {Cons(Sync(PaneOf[w]), After(w)),
                   Cons([op |-> "fallback", pane |-> PaneOf[w]], Cons(Sync(PaneOf[w]), After(w)))}
    BY <1>2, DialogDestroyedEffect
  <2> QED BY <2>1, Zenon DEF Leads
<1> QED BY <1>1, <1>2

\* The steps that move no focus
LEMMA StepPlain ==
  ASSUME Listed(h), Handled(h, life, todo), Step, Now \notin {"route", "focus", "toggle"}
  PROVE  /\ h'.kbd = h.kbd /\ h'.ordFocus = h.ordFocus /\ h'.ordinary = h.ordinary
         /\ h'.mapped = h.mapped
         /\ Leads(todo', Next1)
<1> DEFINE next == Next1
<1>0. todo # <<>> BY DEF Step
<1>1. Memory(h) /\ IsList(next) BY <1>0, DueTail DEF Handled, Due, Next1
<1>2. Leads(next, next) /\ (\A a : Leads(Cons(a, next), next)) /\ \A a, b : Leads(Cons(a, Cons(b, next)), next)
  BY DEF Leads
<1>3. ASSUME Refocused(h, h') PROVE /\ h'.kbd = h.kbd /\ h'.ordFocus = h.ordFocus /\ h'.ordinary = h.ordinary
                                    /\ h'.mapped = h.mapped
  BY <1>1, <1>3, RefocusedParts DEF SameLists
<1>4. Refocused(h, h) BY DEF Refocused
<1>5. CASE StepTold \/ StepWrite \/ StepKey \/ StepGroup \/ StepBridge \/ StepStatus
  <2>1. h' = h /\ todo' = next
    BY <1>5 DEF StepTold, StepWrite, StepKey, StepGroup, StepBridge, StepStatus
  <2> HIDE DEF next
  <2> QED BY <1>2, <2>1 DEF next
<1>6. CASE StepNote
  <2>1. \E w : h' = Noted(h, w) /\ todo' = next BY <1>6 DEF StepNote
  <2> HIDE DEF next
  <2>2. Refocused(h, h') BY <1>1, <2>1, NotedFocus
  <2> QED BY <1>2, <1>3, <2>1, <2>2 DEF next
<1>7. CASE StepSync
  <2>1. PICK g : h' = h /\ todo' = <<g>> \o next BY <1>7 DEF StepSync
  <2> HIDE DEF next
  <2>2. h' = h /\ todo' = Cons(g, next) BY <1>1, <2>1, ConsForms
  <2> QED BY <1>2, <2>2 DEF next
<1>8. CASE StepMapped
  <2>1. PICK w : h' = h /\ (todo' = <<Note(w, TRUE), Focus(w)>> \o next \/ todo' = <<>> \o next)
    BY <1>8 DEF StepMapped
  <2> HIDE DEF next
  <2>2. h' = h /\ (todo' = Cons(Note(w, TRUE), Cons(Focus(w), next)) \/ todo' = next)
    BY <1>1, <2>1, RefocusForms
  <2> QED BY <1>2, <2>2 DEF next
<1>9. CASE StepFallback
  <2> DEFINE p == Head(todo).pane
             f == PaneFocus(h, p)
  <2>1. \/ h' = h /\ todo' = next
        \/ h' = f.h /\ todo' = (IF f.win # NoWin THEN <<Note(f.win, FALSE), Focus(f.win)>> ELSE <<>>) \o next
    BY <1>9 DEF StepFallback
  <2>2. p \in Pane BY <1>0, <1>9, DueTail DEF Handled, StepFallback, Now, Fit
  <2> HIDE DEF next, p
  <2>3. Refocused(h, f.h) BY <1>1, <2>2, PaneFocusFinds
  <2> HIDE DEF f
  <2>4. Refocused(h, h') BY <1>4, <2>1, <2>3
  <2>5. todo' = next \/ todo' = Cons(Note(f.win, FALSE), Cons(Focus(f.win), next))
    BY <1>1, <2>1, RefocusForms
  <2> QED BY <1>2, <1>3, <2>4, <2>5 DEF next
<1>10. CASE StepDropPopups
  <2>1. Changed(h, h', {"popups"}) /\ todo' = next BY <1>10, StepSame DEF StepDropPopups, Step
  <2>2. h'.kbd = h.kbd /\ h'.ordFocus = h.ordFocus /\ h'.ordinary = h.ordinary /\ h'.mapped = h.mapped
    BY <1>1, <2>1, ChangedParts
  <2> HIDE DEF next
  <2> QED BY <1>2, <2>1, <2>2 DEF next
<1>11. ~StepRoute /\ ~StepFocus /\ ~StepToggle BY DEF StepRoute, StepFocus, StepToggle
<1> QED BY <1>5, <1>6, <1>7, <1>8, <1>9, <1>10, <1>11 DEF Step

LEMMA OrdinaryStep ==
  ASSUME Listed(h), Handled(h, life, todo), OrdinaryHeld(h, todo), Step
  PROVE  OrdinaryHeld(h', todo')
<1> DEFINE next == Next1
           e == Head(todo)
<1>0. todo # <<>> BY DEF Step
<1>1. Memory(h) /\ IsList(next) BY <1>0, DueTail DEF Handled, Due, Next1
<1>9. todo = Cons(e, next) BY <1>0, DueTail DEF Handled, Due, Next1
<1>2. Rerouted(todo) <=> e.op \in {"route", "toggle"} \/ Rerouted(next) BY <1>1, <1>9, ReroutedCons
<1>3. Last(todo) = IF next = <<>> THEN e ELSE Last(next) BY <1>1, <1>9, ConsLast
<1>4. \A w : Focus(w).op = "focus" /\ Focus(w).win = w BY DEF Focus
<1>5. CASE Now \notin {"route", "focus", "toggle"}
  <2>1. /\ h'.kbd = h.kbd /\ h'.ordFocus = h.ordFocus /\ h'.ordinary = h.ordinary /\ Leads(todo', next)
    BY <1>5, StepPlain
  <2> HIDE DEF next
  <2>2. (Rerouted(next) => Rerouted(todo')) /\ (next # <<>> => todo' # <<>> /\ Last(todo') = Last(next))
    BY <1>1, <2>1, LeadsOn
  <2>3. e.op # "focus" /\ e.op \notin {"route", "toggle"} BY <1>5 DEF Now
  <2> HIDE DEF e
  <2> QED BY <1>0, <1>2, <1>3, <1>4, <2>1, <2>2, <2>3 DEF OrdinaryHeld
<1>6. CASE Now = "focus"
  <2> DEFINE w == e.win
  <2>1. Keyboard(h, w, next)
    BY <1>6, Zenon DEF Step, StepRoute, StepTold, StepWrite, StepNote, StepFocus, StepSync, StepGroup, StepMapped,
           StepFallback, StepDropPopups, StepStatus, StepBridge, StepKey, StepToggle
  <2> HIDE DEF next, w
  <2>2. /\ h.kbd = w => h' = h /\ todo' = next
        /\ h.kbd # w => h'.ordFocus.target = NoFocus
    <3>1. h.kbd = w => h' = h /\ todo' = next BY <2>1 DEF Keyboard
    <3>2. h.kbd # w => h'.ordFocus.target = NoFocus BY <1>1, <2>1, KeyboardMoves
    <3> QED BY <3>1, <3>2
  <2>3. e.op = "focus" BY <1>6 DEF Now
  <2>4. CASE h.kbd # w BY <2>2, <2>4 DEF OrdinaryHeld
  <2>5. CASE h.kbd = w
    <3>1. h' = h /\ todo' = next BY <2>2, <2>5
    <3>2. Rerouted(todo) <=> Rerouted(next) BY <1>2, <2>3
    <3>3. \A v : e = Focus(v) => v = w BY <1>4 DEF w
    <3> HIDE DEF e
    <3> QED BY <1>0, <1>3, <2>5, <3>1, <3>2, <3>3 DEF OrdinaryHeld
  <2> QED BY <2>4, <2>5
<1>7. CASE Now = "route"
  <2>1. RouteFocus(next)
    BY <1>7, Zenon DEF Step, StepRoute, StepTold, StepWrite, StepNote, StepFocus, StepSync, StepGroup, StepMapped,
           StepFallback, StepDropPopups, StepStatus, StepBridge, StepKey, StepToggle
  <2> HIDE DEF next
  <2>2. CASE KeepsOrdinary
    <3> DEFINE w == h.ordFocus.win
    <3>1. w \in Range(h.ordinary) BY <2>2 DEF KeepsOrdinary
    <3>2. /\ h'.kbd = w
          /\ \/ h' = h
             \/ h'.ordFocus = [win |-> w, target |-> NoFocus]
      BY <1>1, <2>1, <2>2, RouteOutcome
    <3> QED BY <3>1, <3>2 DEF OrdinaryHeld
  <2>3. CASE ~KeepsOrdinary
    <3>1. h'.ordFocus.target = NoFocus BY <1>1, <2>1, <2>3, RouteOutcome
    <3> QED BY <3>1 DEF OrdinaryHeld
  <2> QED BY <2>2, <2>3
<1>8. CASE Now = "toggle"
  <2>1. todo' = <<Status, Route>> \o next
    BY <1>8, Zenon DEF Step, StepRoute, StepTold, StepWrite, StepNote, StepFocus, StepSync, StepGroup, StepMapped,
           StepFallback, StepDropPopups, StepStatus, StepBridge, StepKey, StepToggle
  <2> HIDE DEF next
  <2>2. todo' = Cons(Status, Cons(Route, next)) BY <1>1, <2>1, ConsForms
  <2>3. IsList(Cons(Route, next)) /\ Rerouted(Cons(Route, next)) BY <1>1, ConsList, ReroutedCons DEF Route
  <2>4. Rerouted(todo') BY <2>2, <2>3, ReroutedCons
  <2> QED BY <2>4 DEF OrdinaryHeld
<1> QED BY <1>5, <1>6, <1>7, <1>8

LEMMA OrdinaryNext ==
  ASSUME Listed(h), Handled(h, life, todo), OrdinaryHeld(h, todo), [Next]_vars
  PROVE  OrdinaryHeld(h', todo')
<1>0. Memory(h) BY DEF Handled
<1>1. CASE Step BY <1>1, OrdinaryStep
<1>2. ASSUME Rerouted(todo') PROVE OrdinaryHeld(h', todo') BY <1>2 DEF OrdinaryHeld
<1>3. ASSUME todo = <<>>, h'.kbd = h.kbd, h'.ordFocus = h.ordFocus, Range(h.ordinary) \subseteq Range(h'.ordinary)
      PROVE  OrdinaryHeld(h', todo')
  BY <1>3, ReroutedForms DEF OrdinaryHeld
<1>4. CASE WindowEvents
  <2>0. todo = <<>>
    BY <1>4, Zenon
       DEF MainAppears, OverlayAppears, RootAppears, DialogAppears, OrdinaryAppears, PopupAppears, Map,
           Unmap, TopDestroyed, RootDestroyed, DialogDestroyed, PopupDestroyed, OtherDestroyed,
           WindowEvents, Comes, Gone, Idle
  <2>1. PICK w \in Window :
          \/ MainAppears(w) \/ OverlayAppears(w) \/ RootAppears(w) \/ DialogAppears(w)
          \/ OrdinaryAppears(w) \/ PopupAppears(w) \/ Map(w) \/ Unmap(w)
          \/ TopDestroyed(w) \/ RootDestroyed(w) \/ DialogDestroyed(w) \/ PopupDestroyed(w)
          \/ OtherDestroyed(w)
    BY <1>4 DEF WindowEvents
  <2>2. CASE MainAppears(w) \/ OverlayAppears(w) \/ TopDestroyed(w)
    <3>1. todo' = <<Status, Route>> \/ todo' = After(w)
      BY <2>2, MainAppearsEffect, OverlayAppearsEffect, TopDestroyedEffect
    <3> QED BY <1>2, <3>1, ReroutedForms
  <2>3. ASSUME NEW F, Changed(h, h', F), F \cap {"kbd", "ordFocus", "ordinary"} = {}
        PROVE  OrdinaryHeld(h', todo')
    BY <1>0, <1>3, <2>0, <2>3, ChangedParts
  <2>4. CASE DialogAppears(w) \/ PopupAppears(w) \/ Map(w) \/ Unmap(w) \/ PopupDestroyed(w) \/ OtherDestroyed(w)
    <3>1. \/ Changed(h, h', {"dialogs"}) \/ Changed(h, h', {"popups"}) \/ Changed(h, h', {"mapped"})
          \/ Changed(h, h', {"mapped", "dialogs", "popups"})
          \/ Changed(h, h', {"popups", "mapped", "focused", "history"})
      BY <2>4, DialogAppearsEffect, PopupAppearsEffect, MapEffect, UnmapEffect, PopupDestroyedEffect,
         OtherDestroyedEffect
    <3> QED BY <2>3, <3>1
  <2>5. CASE OrdinaryAppears(w)
    <3>1. Changed(h, h', {"ordinary"}) /\ Range(h'.ordinary) = Range(h.ordinary) \cup {w}
      BY <2>5, OrdinaryAppearsEffect
    <3>2. h'.kbd = h.kbd /\ h'.ordFocus = h.ordFocus BY <1>0, <3>1, ChangedParts
    <3> QED BY <1>3, <2>0, <3>1, <3>2
  <2>6. CASE RootAppears(w)
    <3>1. todo' = Arrival(PaneOf[w], w) BY <2>6, RootAppearsEffect
    <3> DEFINE a == [op |-> "attach", pane |-> PaneOf[w]]
               b == [op |-> "observe", pane |-> PaneOf[w], win |-> w]
               q == <<Status, Route>>
    <3>2. IsList(q) /\ Rerouted(q) BY DueOf, ReroutedForms DEF Due
    <3>3. todo' = Cons(a, Cons(b, q)) BY <3>1, ArrivalForm
    <3> HIDE DEF a, b, q
    <3>4. IsList(Cons(b, q)) /\ Rerouted(Cons(b, q)) BY <3>2, ConsList, ReroutedCons
    <3>5. Rerouted(todo') BY <3>3, <3>4, ReroutedCons
    <3> QED BY <1>2, <3>5
  <2>7. CASE RootDestroyed(w) \/ DialogDestroyed(w)
    <3>2. Leads(todo', After(w)) BY <2>7, PaneGoneLeads
    <3>3. IsList(After(w)) /\ Rerouted(After(w)) BY DueOf, ReroutedForms DEF Due
    <3> QED BY <1>2, <3>2, <3>3, LeadsOn
  <2> QED BY <2>1, <2>2, <2>4, <2>5, <2>6, <2>7
<1>5. CASE MainDemoted
  <2>1. todo' = <<Status, Route>> BY <1>5, MainDemotedEffect
  <2> QED BY <1>2, <2>1, ReroutedForms
<1>6. CASE Input
  <2>1. CASE (\E w : Motion(w)) \/ (\E b : ReleaseButton(b))
    <3>1. Changed(h, h', SeatParts) /\ todo = <<>> BY <2>1, PointerEffect
    <3>2. h'.kbd = h.kbd /\ h'.ordFocus = h.ordFocus /\ h'.ordinary = h.ordinary
      BY <1>0, <3>1, ChangedParts DEF SeatParts
    <3> QED BY <1>3, <3>1, <3>2
  <2>2. ASSUME NEW w, NEW b, Press(b, w) PROVE OrdinaryHeld(h', todo')
    <3>0. todo = <<>> BY <2>2, PressEffect
    <3>1. CASE Changed(h, h', SeatParts)
      <4>1. h'.kbd = h.kbd /\ h'.ordFocus = h.ordFocus /\ h'.ordinary = h.ordinary
        BY <1>0, <3>1, ChangedParts DEF SeatParts
      <4> QED BY <1>3, <3>0, <4>1
    <3>2. CASE /\ Changed(h, h', SeatParts \cup {"ordFocus"}) /\ todo' = PressLeft(w)
               /\ w \notin Range(h.ordinary) => h'.ordFocus.target = NoFocus
               /\ w \in Range(h.ordinary) => h'.ordFocus.win = w
      <4>1. h'.ordinary = h.ordinary BY <1>0, <3>2, ChangedParts DEF SeatParts
      <4>2. todo' # <<>> /\ Last(todo') = Focus(w)
        <5>1. IsList(Cons(Focus(w), <<>>)) /\ Last(Cons(Focus(w), <<>>)) = Focus(w) /\ Cons(Focus(w), <<>>) # <<>>
          BY EmptyList, ConsList, ConsLast
        <5>2. Leads(todo', Cons(Focus(w), <<>>)) BY <3>2 DEF PressLeft, Leads
        <5> QED BY <5>1, <5>2, LeadsOn
      <4> QED BY <3>2, <4>1, <4>2 DEF OrdinaryHeld
    <3> QED BY <2>2, <3>1, <3>2, PressEffect
  <2>3. CASE PressKey BY <1>2, <2>3, ReroutedForms DEF PressKey
  <2> QED BY <1>6, <2>1, <2>2, <2>3 DEF Input
<1>7. CASE ControlAsks \/ ControlToggles \/ ShellEnds \/ ControlChanges \/ UNCHANGED vars
  <2>1. h' = h /\ todo' = todo
    BY <1>7, Zenon DEF ControlAsks, ControlToggles, ShellEnds, ControlChanges, runtime, vars
  <2> QED BY <2>1
<1> QED BY <1>1, <1>4, <1>5, <1>6, <1>7 DEF Next

LEMMA OrdinaryInit ==
  ASSUME Init
  PROVE  OrdinaryHeld(h, todo)
<1>1. h = [main |-> NoWin, overlay |-> NoWin, root |-> [p \in Pane |-> NoWin],
           dialogs |-> <<>>, popups |-> <<>>, ordinary |-> <<>>, mapped |-> {},
           kbd |-> NoWin, ordFocus |-> NoOrd, focused |-> [p \in Pane |-> NoWin],
           history |-> [p \in Pane |-> <<>>], under |-> NoWin, grabbed |-> FALSE, grab |-> NoWin,
           down |-> {}, pressed |-> {}, canceled |-> {}]
  BY Zenon DEF Init
<1>2. h.ordFocus = NoOrd BY <1>1
<1> QED BY <1>2 DEF OrdinaryHeld, NoOrd

-----------------------------------------------------------------------------
(* What is reported to have the focus has the keyboard, or is about to: at *)
(* every step of a handler that does not route focus, what it has still to *)
(* do settles the two                                                      *)

\* The pane of a window, and its group, know the window as theirs
Seen(s, x, w) ==
  LET p == Role(s, w)
  IN p \in Pane /\ s.root[p] # NoWin => s.focused[p] = w /\ (Grouped(x, p) => GroupWin(x, p) = w)

Quiet(q) == \A e \in Range(q) : e.op \in {"key", "status"}
Syncs(q) == q = <<>> \/ \E p : q = Cons(Sync(p), <<>>)
At(q, op) == q # <<>> /\ Head(q).op = op

\* The target of a route is still to be written
Writes(s, q) == At(q, "write") /\ Head(q).t = Role(s, s.kbd) /\ Quiet(Tail(q))

\* The keyboard stays with a popup that is gone, of no pane with a window
Stranded(s, l) ==
  LET k == s.kbd
  IN k # NoWin /\ k \notin Living(l) /\ KindOf[k] = "popup" /\ (Owner(k) \in Pane => s.root[Owner(k)] = NoWin)

Excused(s, l) == s.ordFocus.target # NoFocus \/ Stranded(s, l)

Agreed(s, l, x) == Excused(s, l) \/ (x.target = Role(s, s.kbd) /\ Seen(s, x, s.kbd))

\* The window gets the keyboard: if it has it already, nothing is told
Repaired(s, l, x, w) == Excused(s, l) \/ (w = s.kbd => x.target = Role(s, w))

Settles(s, l, x, q) ==
  \/ Quiet(q) /\ Agreed(s, l, x)
  \/ At(q, "sync") /\ Quiet(Tail(q)) /\ Agreed(s, l, x)
  \/ /\ At(q, "group") /\ Quiet(Tail(q)) /\ Agreed(s, l, x)
     /\ \/ Excused(s, l)
        \/ x.target = Head(q).pane /\ s.root[Head(q).pane] # NoWin => Head(q).win = s.kbd
  \/ /\ At(q, "mapped") /\ Syncs(Tail(q)) /\ Agreed(s, l, x)
     /\ Head(q).win \in Placed(s) /\ Owner(Head(q).win) \in Pane
  \/ /\ At(q, "fallback") /\ Syncs(Tail(q))
     /\ Agreed(s, l, x) \/ (x.target = Head(q).pane /\ s.root[Head(q).pane] # NoWin)
  \/ /\ At(q, "clear")
     /\ \E w \in Range(s.ordinary) : Tail(q) = Cons(Note(w, TRUE), Cons(Focus(w), <<>>))
  \/ /\ At(q, "note") /\ At(Tail(q), "focus") /\ Syncs(Tail(Tail(q)))
     /\ Head(q).win \in Listing(s) /\ Head(Tail(q)).win = Head(q).win /\ Repaired(s, l, x, Head(q).win)
  \/ /\ At(q, "focus") /\ Syncs(Tail(q))
     /\ Repaired(s, l, x, Head(q).win) /\ Seen(s, x, Head(q).win)
  \/ /\ At(q, "note") /\ Head(q).win = s.kbd
     /\ (Quiet(Tail(q)) /\ x.target = Role(s, s.kbd)) \/ Writes(s, Tail(q))
  \/ /\ At(q, "told") /\ Head(q).t = Role(s, s.kbd)
     /\ \/ Seen(s, x, s.kbd) /\ (Syncs(Tail(q)) \/ Quiet(Tail(q)) \/ Writes(s, Tail(q)))
        \/ /\ At(Tail(q), "note") /\ Head(Tail(q)).win = s.kbd
           /\ Quiet(Tail(Tail(q))) \/ Writes(s, Tail(Tail(q)))
  \/ Writes(s, q) /\ Seen(s, x, s.kbd)

LEMMA QuietForms ==
  /\ Quiet(<<>>) /\ Syncs(<<>>)
  /\ \A p : Syncs(<<Sync(p)>>)
  /\ \A q : Quiet(q) /\ q # <<>> => Head(q).op \in {"key", "status"} \/ ~IsList(q)
<1>1. Quiet(<<>>) BY EmptyList DEF Quiet
<1>2. \A p : <<Sync(p)>> = Cons(Sync(p), <<>>) BY EmptyList, ConsForms
<1>3. \A q : IsList(q) /\ q # <<>> => Head(q) \in Range(q) BY TailList
<1> QED BY <1>1, <1>2, <1>3 DEF Syncs, Quiet

LEMMA SyncsSettle ==
  ASSUME NEW s, NEW l, NEW x, NEW q, Syncs(q), Agreed(s, l, x)
  PROVE  Settles(s, l, x, q)
<1>1. CASE q = <<>> BY <1>1, QuietForms DEF Settles
<1>2. CASE \E p : q = Cons(Sync(p), <<>>)
  <2>1. PICK p : q = Cons(Sync(p), <<>>) BY <1>2
  <2>2. q # <<>> /\ Head(q) = Sync(p) /\ Tail(q) = <<>> BY <2>1, EmptyList, ConsList
  <2>3. At(q, "sync") BY <2>2 DEF At, Sync
  <2> QED BY <2>2, <2>3, QuietForms DEF Settles
<1> QED BY <1>1, <1>2 DEF Syncs

LEMMA UnplacedSeen ==
  ASSUME NEW s, NEW x, NEW w, Role(s, w) \notin Pane
  PROVE  Seen(s, x, w)
BY DEF Seen

LEMMA OrdinaryRole ==
  ASSUME NEW s, Listed(s), s.main \notin Range(s.ordinary), NEW w \in Range(s.ordinary), NEW x
  PROVE  Role(s, w) = NoFocus /\ w \in Listing(s) /\ Seen(s, x, w) /\ w # NoWin
<1>1. w \in Window /\ w # NoWin BY PlacedRole DEF Listing
<1>2. KindOf[w] \in {"main", "overlay", "ordinary"} /\ KindOf[w] # "overlay"
  <2>1. w \in OfKind("ordinary") \cup OfKind("main") BY DEF Listed, Range
  <2> QED BY <2>1 DEF OfKind
<1>3. w \notin Placed(s)
  <2>1. w # s.main OBVIOUS
  <2>2. w # s.overlay BY <1>1, <1>2 DEF Listed, OfKind
  <2>3. \A p \in Pane : w # s.root[p] BY <1>1, <1>2, KindsApart
  <2>4. w \notin Range(s.dialogs) /\ w \notin Range(s.popups) BY <1>1, <1>2, KindsApart
  <2> QED BY <2>1, <2>2, <2>3, <2>4 DEF Placed
<1>4. Role(s, w) = NoFocus /\ NoFocus \notin Pane BY <1>3, PlacedRole DEF Role
<1> QED BY <1>1, <1>4, UnplacedSeen DEF Listing

LEMMA NoWindowRole ==
  ASSUME NEW s, NEW x
  PROVE  Role(s, NoWin) = NoFocus /\ Seen(s, x, NoWin)
<1>1. Role(s, NoWin) = NoFocus BY DEF Role, Placed
<1>2. NoFocus \notin Pane BY PresentationAssumption
<1> QED BY <1>1, <1>2, UnplacedSeen

\* Only what is remembered of some pane changes
LEMMA SeenSame ==
  ASSUME NEW s, NEW t, NEW x, NEW w, SameLists(s, t), t.focused = s.focused
  PROVE  Seen(t, x, w) <=> Seen(s, x, w)
<1>1. Role(t, w) = Role(s, w) BY SameRoles
<1>2. t.root = s.root BY DEF SameLists
<1> QED BY <1>1, <1>2 DEF Seen

LEMMA StrandedSame ==
  ASSUME NEW s, NEW t, NEW l, t.kbd = s.kbd, t.ordFocus = s.ordFocus, t.root = s.root
  PROVE  Excused(t, l) <=> Excused(s, l)
BY DEF Excused, Stranded

LEMMA AgreedSame ==
  ASSUME NEW s, NEW t, NEW l, NEW x, SameLists(s, t), t.focused = s.focused, t.kbd = s.kbd,
         t.ordFocus = s.ordFocus
  PROVE  Agreed(t, l, x) <=> Agreed(s, l, x)
<1>1. t.root = s.root BY DEF SameLists
<1>2. Role(t, t.kbd) = Role(s, s.kbd) BY SameRoles
<1> QED BY <1>1, <1>2, StrandedSame, SeenSame DEF Agreed

\* Control threads keep the target and make no group
LEMMA SeenRegrouped ==
  ASSUME NEW s, NEW x, NEW y, NEW w, Regrouped(x, y), Seen(s, x, w)
  PROVE  Seen(s, y, w)
BY DEF Regrouped, Seen, GroupWin

LEMMA SettlesRegrouped ==
  ASSUME NEW s, NEW l, NEW x, NEW y, NEW q, Regrouped(x, y), y.target = x.target, Settles(s, l, x, q)
  PROVE  Settles(s, l, y, q)
<1>1. \A w : Seen(s, x, w) => Seen(s, y, w) BY SeenRegrouped
<1>2. Agreed(s, l, x) => Agreed(s, l, y) BY <1>1 DEF Agreed
<1>3. \A w : Repaired(s, l, x, w) => Repaired(s, l, y, w) BY DEF Repaired
<1> QED BY <1>1, <1>2, <1>3 DEF Settles

-----------------------------------------------------------------------------
(* ... through the steps                                                   *)

Sane ==
  /\ Listed(h) /\ RegionInv
  /\ Handled(h, life, todo) /\ Groups(h, c, todo) /\ OrdinaryHeld(h, todo)

LEMMA SettleTail ==
  ASSUME Sane, todo # <<>>
  PROVE  /\ IsList(todo) /\ IsList(Next1) /\ Memory(h) /\ Shaped(c) /\ Fit(h, life, Head(todo))
         /\ \A op : At(todo, op) <=> Now = op
         /\ Quiet(todo) => Now \in {"key", "status"} /\ Quiet(Next1)
         /\ h.main \notin Range(h.ordinary)
<1>1. IsList(todo) /\ IsList(Next1) /\ Memory(h) /\ Fit(h, life, Head(todo)) /\ h.main \notin Range(h.ordinary)
  BY DueTail DEF Sane, Handled, Due, Next1
<1>2. Head(todo) \in Range(todo) /\ Range(Next1) \subseteq Range(todo) BY <1>1, TailList DEF Next1
<1> QED BY <1>1, <1>2 DEF Sane, RegionInv, At, Now, Quiet

LEMMA SettleQuiet ==
  ASSUME Sane, Settles(h, life, c, todo), todo # <<>>, h' = h, c' = c, todo' = Next1,
         Now \in {"key", "status"}
  PROVE  Settles(h', life, c', todo')
<1>1. Quiet(todo) /\ Agreed(h, life, c) BY SettleTail DEF Settles, Writes
<1>2. Quiet(Next1) BY <1>1, SettleTail
<1> QED BY <1>1, <1>2 DEF Settles

LEMMA SettleSync ==
  ASSUME Sane, Settles(h, life, c, todo), todo # <<>>, StepSync
  PROVE  Settles(h', life, c', todo')
<1> DEFINE p == Head(todo).pane
           w == IF c.target = p THEN h.focused[p] ELSE NoWin
           e == [op |-> "group", pane |-> p, win |-> w]
           n == Next1
<1>1. h' = h /\ c' = c /\ todo' = <<e>> \o n /\ Now = "sync" BY DEF StepSync
<1>2. Quiet(n) /\ Agreed(h, life, c) BY <1>1, SettleTail DEF Settles, Writes, Next1
<1>3. p \in Pane /\ IsList(n) BY <1>1, SettleTail DEF Fit, Now
<1>4. e.op = "group" /\ e.pane = p /\ e.win = w OBVIOUS
<1>5. Excused(h, life) \/ (c.target = p /\ h.root[p] # NoWin => w = h.kbd)
  BY <1>2, <1>3 DEF Agreed, Seen
<1> HIDE DEF p, w, e, n
<1>6. todo' = Cons(e, n) BY <1>1, <1>3, ConsForms
<1>7. todo' # <<>> /\ Head(todo') = e /\ Tail(todo') = n BY <1>3, <1>6, ConsList
<1>8. At(todo', "group") BY <1>4, <1>7 DEF At
<1> QED BY <1>1, <1>2, <1>4, <1>5, <1>7, <1>8 DEF Settles

\* A window of a pane's tree is a member of the group it is told to
LEMMA MemberOfGroup ==
  ASSUME NEW s, NEW x, NEW q, Groups(s, x, q), NEW p \in Pane, Grouped(x, p), ~Detaches(q, p),
         NEW w, InTree(s, p, w)
  PROVE  w \in x.panes[p].group.members \cup Members(s, p)
BY DEF Groups, GroupHeld, InTree

LEMMA GroupSeen ==
  ASSUME NEW s, NEW x, NEW q, Listed(s), Shaped(x), Groups(s, x, q), NEW p \in Pane, ~Detaches(q, p),
         NEW w, InTree(s, p, w)
  PROVE  LET y == GroupFocused(x, p, w, Members(s, p))
         IN Grouped(y, p) => GroupWin(y, p) = w
<1> DEFINE y == GroupFocused(x, p, w, Members(s, p))
<1>0. GroupShaped(x) BY DEF Groups
<1>1. /\ Grouped(y, p) <=> Grouped(x, p)
      /\ Grouped(x, p) => /\ y.panes[p].group.foc = w
                          /\ y.panes[p].group.members = x.panes[p].group.members \cup Members(s, p)
  BY <1>0, GroupFocusedEffect
<1> HIDE DEF y
<1>2. ASSUME Grouped(y, p) PROVE GroupWin(y, p) = w
  <2>1. w \in y.panes[p].group.members BY <1>1, <1>2, MemberOfGroup
  <2> QED BY <1>1, <1>2, <2>1 DEF GroupWin
<1> QED BY <1>2 DEF y

LEMMA GroupFocusedRest ==
  ASSUME NEW x, NEW p \in Pane, NEW w, NEW members, Shaped(x), GroupShaped(x), NEW y,
         y = GroupFocused(x, p, w, members)
  PROVE  y.target = x.target /\ y.shell = x.shell /\ \A q \in Pane \ {p} : y.panes[q] = x.panes[q]
<1> DEFINE z == GroupFocused(x, p, w, members)
<1>1. z.target = x.target BY GroupFocusedEffect
<1>2. z.shell = x.shell BY GroupFocusedEffect
<1>3. \A q \in Pane \ {p} : z.panes[q] = x.panes[q] BY GroupFocusedEffect
<1> QED BY <1>1, <1>2, <1>3

LEMMA SettleGroup ==
  ASSUME Sane, Settles(h, life, c, todo), todo # <<>>, StepGroup
  PROVE  Settles(h', life, c', todo')
<1> DEFINE p == Head(todo).pane
           w == Head(todo).win
           k == h.kbd
           r == Role(h, k)
<1>1. h' = h /\ c' = GroupFocused(c, p, w, Members(h, p)) /\ todo' = Next1 /\ Now = "group"
  BY DEF StepGroup, outside
<1>2. /\ Quiet(Next1) /\ Agreed(h, life, c)
      /\ Excused(h, life) \/ (c.target = p /\ h.root[p] # NoWin => w = k)
  <2>1. \A op : At(todo, op) <=> op = "group" BY <1>1, SettleTail
  <2>2. ~Quiet(todo) /\ ~Writes(h, todo) BY <1>1, <2>1, SettleTail DEF Writes
  <2> QED BY <2>1, <2>2 DEF Settles, Next1
<1>3. p \in Pane /\ ~Detaches(todo, p) BY <1>1, SettleTail DEF Fit, Now, Detaches
<1>4. Shaped(c) /\ GroupShaped(c) /\ Listed(h) BY SettleTail DEF Sane, Groups
<1>5. c'.target = c.target /\ \A q \in Pane \ {p} : c'.panes[q] = c.panes[q]
  <2> HIDE DEF p, w
  <2> QED BY <1>1, <1>3, <1>4, GroupFocusedRest
<1>6. ASSUME ~Excused(h, life) PROVE c'.target = r /\ Seen(h, c', k)
  <2>1. c.target = r /\ Seen(h, c, k) BY <1>2, <1>6 DEF Agreed
  <2>2. ASSUME r \in Pane, h.root[r] # NoWin PROVE Grouped(c', r) => GroupWin(c', r) = k
    <3>1. CASE r # p
      <4>1. c'.panes[r] = c.panes[r] BY <1>5, <2>2, <3>1
      <4> QED BY <2>1, <2>2, <4>1 DEF Seen, Grouped, Shows, GroupWin
    <3>2. CASE r = p
      <4>1. w = k BY <1>2, <1>6, <2>1, <2>2, <3>2
      <4>2. k \in Placed(h) /\ Owner(k) = p BY <1>4, <2>2, <3>2, PlacedRole DEF Role
      <4>3. InTree(h, p, k) BY <1>3, <1>4, <2>2, <3>2, <4>2, TreeRole
      <4> HIDE DEF p, w, k, r
      <4>4. Groups(h, c, todo) BY DEF Sane
      <4> QED BY <1>1, <1>3, <1>4, <3>2, <4>1, <4>3, <4>4, GroupSeen
    <3> QED BY <3>1, <3>2
  <2> QED BY <1>5, <2>1, <2>2 DEF Seen
<1>7. Agreed(h', life, c') BY <1>1, <1>6 DEF Agreed
<1> QED BY <1>1, <1>2, <1>7 DEF Settles

LEMMA RoleOfPlaced ==
  ASSUME NEW s, NEW w \in Placed(s)
  PROVE  Role(s, w) = Owner(w) /\ w \in Listing(s)
BY DEF Role, Listing

\* A window is noted, then it gets the keyboard
LEMMA SettlesNoted ==
  ASSUME NEW s, NEW l, NEW x, NEW n, NEW w \in Listing(s), NEW b, IsList(n), Syncs(n), Repaired(s, l, x, w)
  PROVE  Settles(s, l, x, Cons(Note(w, b), Cons(Focus(w), n)))
<1> DEFINE f == Focus(w)
           e == Note(w, b)
           m == Cons(f, n)
           q == Cons(e, m)
<1>1. f.op = "focus" /\ f.win = w /\ e.op = "note" /\ e.win = w BY DEF Focus, Note
<1> HIDE DEF e, f
<1>2. IsList(m) /\ m # <<>> /\ Head(m) = f /\ Tail(m) = n BY ConsList
<1> HIDE DEF m
<1>3. q # <<>> /\ Head(q) = e /\ Tail(q) = m BY <1>2, ConsList
<1> HIDE DEF q
<1>4. At(q, "note") /\ At(Tail(q), "focus") /\ Syncs(Tail(Tail(q))) BY <1>1, <1>2, <1>3 DEF At
<1>5. Head(q).win \in Listing(s) /\ Head(Tail(q)).win = Head(q).win /\ Repaired(s, l, x, Head(q).win)
  BY <1>1, <1>2, <1>3
<1>6. Settles(s, l, x, q) BY <1>4, <1>5 DEF Settles
<1> QED BY <1>6 DEF q, m, e, f

LEMMA SettleMapped ==
  ASSUME Sane, Settles(h, life, c, todo), todo # <<>>, StepMapped
  PROVE  Settles(h', life, c', todo')
<1> DEFINE w == Head(todo).win
           n == Next1
<1>1. /\ h' = h /\ c' = c /\ Now = "mapped"
      /\ todo' = (IF c.target = Owner(w) THEN <<Note(w, TRUE), Focus(w)>> ELSE <<>>) \o n
  BY DEF StepMapped
<1>2. Syncs(n) /\ Agreed(h, life, c) /\ w \in Placed(h)
  <2>1. \A op : At(todo, op) <=> op = "mapped" BY <1>1, SettleTail
  <2>2. ~Quiet(todo) /\ ~Writes(h, todo) BY <1>1, <2>1, SettleTail DEF Writes
  <2> QED BY <2>1, <2>2 DEF Settles, Next1
<1>3. IsList(n) BY SettleTail
<1>4. Role(h, w) = Owner(w) /\ w \in Listing(h) BY <1>2, RoleOfPlaced
<1> HIDE DEF w, n
<1>5. CASE c.target = Owner(w)
  <2>1. todo' = Cons(Note(w, TRUE), Cons(Focus(w), n)) BY <1>1, <1>3, <1>5, RefocusForms
  <2>2. Repaired(h, life, c, w) BY <1>4, <1>5 DEF Repaired
  <2>3. Settles(h, life, c, todo') BY <1>2, <1>3, <1>4, <2>1, <2>2, SettlesNoted
  <2> QED BY <1>1, <2>3
<1>6. CASE c.target # Owner(w)
  <2>1. todo' = n BY <1>1, <1>3, <1>6, RefocusForms
  <2> QED BY <1>1, <1>2, <2>1, SyncsSettle
<1> QED BY <1>5, <1>6

LEMMA SettleFallback ==
  ASSUME Sane, Settles(h, life, c, todo), todo # <<>>, StepFallback
  PROVE  Settles(h', life, c', todo')
<1> DEFINE p == Head(todo).pane
           f == PaneFocus(h, p)
           n == Next1
<1>1. /\ c' = c /\ Now = "fallback"
      /\ c.target # p => h' = h /\ todo' = n
      /\ c.target = p => /\ h' = f.h
                         /\ todo' = (IF f.win # NoWin THEN <<Note(f.win, FALSE), Focus(f.win)>> ELSE <<>>) \o n
  BY DEF StepFallback
<1>2. Syncs(n) /\ (Agreed(h, life, c) \/ (c.target = p /\ h.root[p] # NoWin))
  <2>1. \A op : At(todo, op) <=> op = "fallback" BY <1>1, SettleTail
  <2>2. ~Quiet(todo) /\ ~Writes(h, todo) BY <1>1, <2>1, SettleTail DEF Writes
  <2> QED BY <2>1, <2>2 DEF Settles, Next1
<1>3. IsList(n) /\ p \in Pane /\ Memory(h) /\ Listed(h) BY <1>1, SettleTail DEF Fit, Now, Sane
<1> HIDE DEF p, n
<1>4. /\ Refocused(h, f.h)
      /\ \A q \in Pane \ {p} : f.h.focused[q] = h.focused[q]
      /\ f.win # NoWin => CanFocus(h, p, f.win)
      /\ f.win = NoWin => h.root[p] = NoWin
  BY <1>3, PaneFocusFinds
<1> HIDE DEF f
<1>5. CASE c.target # p
  <2>1. h' = h /\ todo' = n BY <1>1, <1>5
  <2> QED BY <1>1, <1>2, <1>5, <2>1, SyncsSettle
<1>6. CASE c.target = p /\ f.win # NoWin
  <2>1. h' = f.h /\ todo' = Cons(Note(f.win, FALSE), Cons(Focus(f.win), n))
    BY <1>1, <1>3, <1>6, RefocusForms
  <2>2. SameLists(h, h') BY <1>3, <1>4, <2>1, RefocusedParts
  <2>3. f.win \in Placed(h) /\ Owner(f.win) = p BY <1>3, <1>4, <1>6, CanFocusRole
  <2>4. f.win \in Listing(h') /\ Role(h', f.win) = p BY <2>2, <2>3, SameRoles, RoleOfPlaced
  <2>5. Repaired(h', life, c, f.win) BY <1>6, <2>4 DEF Repaired
  <2>6. Settles(h', life, c, todo') BY <1>2, <1>3, <2>1, <2>4, <2>5, SettlesNoted
  <2> QED BY <1>1, <2>6
<1>7. CASE c.target = p /\ f.win = NoWin
  <2>1. h' = f.h /\ todo' = n BY <1>1, <1>3, <1>7, RefocusForms
  <2>2. SameLists(h, h') /\ h'.kbd = h.kbd /\ h'.ordFocus = h.ordFocus
    BY <1>3, <1>4, <2>1, RefocusedParts
  <2>3. Agreed(h, life, c) /\ h.root[p] = NoWin BY <1>2, <1>4, <1>7
  <2>4. h'.root = h.root BY <2>2 DEF SameLists
  <2>5. Excused(h', life) <=> Excused(h, life) BY <2>2, <2>4, StrandedSame
  <2>6. Role(h', h'.kbd) = Role(h, h.kbd) BY <2>2, SameRoles
  <2>7. Seen(h, c, h.kbd) => Seen(h', c, h'.kbd)
    <3>1. \A q \in Pane : h.root[q] # NoWin => h'.focused[q] = h.focused[q] BY <1>4, <2>1, <2>3
    <3> QED BY <2>2, <2>4, <2>6, <3>1 DEF Seen
  <2>8. Agreed(h', life, c) BY <2>3, <2>5, <2>6, <2>7 DEF Agreed
  <2> QED BY <1>1, <1>2, <2>1, <2>8, SyncsSettle
<1> QED BY <1>5, <1>6, <1>7

LEMMA SettleClear ==
  ASSUME Sane, Settles(h, life, c, todo), todo # <<>>, StepBridge
  PROVE  Settles(h', life, c', todo')
<1>1. h' = h /\ todo' = Next1 /\ Now \in {"attach", "observe", "detach", "clear"} BY DEF StepBridge
<1>2. \A op : At(todo, op) <=> op = Now BY SettleTail
<1>3. ~Quiet(todo) /\ ~Writes(h, todo) BY <1>1, <1>2, SettleTail DEF Writes
<1>4. Now = "clear" /\ \E w \in Range(h.ordinary) : Next1 = Cons(Note(w, TRUE), Cons(Focus(w), <<>>))
  BY <1>1, <1>2, <1>3 DEF Settles, Next1
<1>5. PICK w \in Range(h.ordinary) : Next1 = Cons(Note(w, TRUE), Cons(Focus(w), <<>>)) BY <1>4
<1>6. c'.target = NoFocus
  <2>1. c' = [c EXCEPT !.target = NoFocus] BY <1>4 DEF StepBridge
  <2>2. "target" \in DOMAIN c BY SettleTail DEF Shaped, StateFields
  <2> QED BY <2>1, <2>2
<1>7. Role(h, w) = NoFocus /\ w \in Listing(h) BY SettleTail, OrdinaryRole DEF Sane
<1>8. Repaired(h, life, c', w) BY <1>6, <1>7 DEF Repaired
<1>9. Settles(h, life, c', Cons(Note(w, TRUE), Cons(Focus(w), <<>>)))
  BY <1>7, <1>8, EmptyList, QuietForms, SettlesNoted
<1> QED BY <1>1, <1>5, <1>9

\* The pane of the window that was noted, and its group, know it
LEMMA NoteSees ==
  ASSUME Sane, todo # <<>>, StepNote
  PROVE  LET w == Head(todo).win
         IN /\ SameLists(h, h') /\ h'.kbd = h.kbd /\ h'.ordFocus = h.ordFocus
            /\ Seen(h', c', w)
            /\ c'.target = c.target \/ c'.target = Role(h', w)
<1> DEFINE w == Head(todo).win
           p == Owner(w)
<1>0. Memory(h) /\ Listed(h) /\ Shaped(c) BY SettleTail DEF Sane
<1>1. h' = Noted(h, w) /\ Now = "note" BY DEF StepNote
<1>2. \A v \in Pane : ~Detaches(todo, v) BY <1>1 DEF Detaches, Now
<1>3. CASE p \in Pane /\ InTree(h, p, w)
  <2>1. PICK x : Shaped(x) /\ x.panes = c.panes /\ x.target = p /\ c' = GroupFocused(x, p, w, Members(h, p))
    BY <1>3, NoteGroups DEF Sane
  <2>2. Regrouped(c, x) BY <2>1, RegroupedFrom
  <2>3. Groups(h, x, todo) BY <2>2, GroupsKept DEF Sane
  <2> HIDE DEF w
  <2>4. Refocused(h, h') /\ h'.focused[p] = w BY <1>0, <1>1, <1>3, NotedFocus
  <2>5. SameLists(h, h') /\ h'.kbd = h.kbd /\ h'.ordFocus = h.ordFocus
    BY <1>0, <2>4, RefocusedParts
  <2>6. w \in Placed(h) BY <1>0, <1>3, TreeRole
  <2>7. Role(h', w) = p BY <2>5, <2>6, SameRoles, RoleOfPlaced
  <2> HIDE DEF p
  <2>8. Grouped(c', p) => GroupWin(c', p) = w BY <1>0, <1>2, <1>3, <2>1, <2>3, GroupSeen
  <2>9. c'.target = p
    <3>1. GroupShaped(x) BY <2>3 DEF Groups
    <3> QED BY <1>3, <2>1, <3>1, GroupFocusedRest
  <2> QED BY <2>4, <2>5, <2>7, <2>8, <2>9 DEF Seen, w
<1>4. CASE ~(p \in Pane /\ InTree(h, p, w))
  <2>1. c' = c BY <1>4, NoteGroups DEF Sane
  <2> HIDE DEF w
  <2>2. h' = h BY <1>0, <1>1, <1>4, NotedFocus
  <2>3. SameLists(h, h) BY <1>0 DEF SameLists, Listed
  <2>4. ASSUME Role(h, w) \in Pane, h.root[Role(h, w)] # NoWin PROVE FALSE
    <3>1. w \in Placed(h) /\ Role(h, w) = p BY <1>0, <2>4, PlacedRole DEF Role
    <3>2. InTree(h, p, w) BY <1>0, <2>4, <3>1, TreeRole
    <3> QED BY <1>4, <2>4, <3>1, <3>2
  <2>5. Seen(h, c, w) BY <2>4 DEF Seen
  <2> QED BY <2>1, <2>2, <2>3, <2>5 DEF w
<1> QED BY <1>3, <1>4

LEMMA SettleNote ==
  ASSUME Sane, Settles(h, life, c, todo), todo # <<>>, StepNote
  PROVE  Settles(h', life, c', todo')
<1> DEFINE w == Head(todo).win
           n == Next1
<1>1. todo' = n /\ Now = "note" BY DEF StepNote
<1>2. /\ SameLists(h, h') /\ h'.kbd = h.kbd /\ h'.ordFocus = h.ordFocus
      /\ Seen(h', c', w)
      /\ c'.target = c.target \/ c'.target = Role(h', w)
  BY NoteSees
<1>3. Role(h', w) = Role(h, w) /\ h'.root = h.root BY <1>2, SameRoles DEF SameLists
<1>4. Excused(h', life) <=> Excused(h, life) BY <1>2, <1>3, StrandedSame
<1>5. \/ At(n, "focus") /\ Syncs(Tail(n)) /\ Head(n).win = w /\ Repaired(h, life, c, w)
      \/ w = h.kbd /\ ((Quiet(n) /\ c.target = Role(h, w)) \/ Writes(h, n))
  <2>1. \A op : At(todo, op) <=> op = "note" BY <1>1, SettleTail
  <2>2. ~Quiet(todo) /\ ~Writes(h, todo) BY <1>1, <2>1, SettleTail DEF Writes
  <2> QED BY <2>1, <2>2 DEF Settles, Next1
<1> HIDE DEF w, n
<1>6. CASE At(n, "focus") /\ Syncs(Tail(n)) /\ Head(n).win = w /\ Repaired(h, life, c, w)
  <2>1. Repaired(h', life, c', w) BY <1>2, <1>3, <1>4, <1>6 DEF Repaired
  <2> QED BY <1>1, <1>2, <1>6, <2>1 DEF Settles
<1>7. CASE w = h.kbd /\ Quiet(n) /\ c.target = Role(h, w)
  <2>1. Agreed(h', life, c') BY <1>2, <1>3, <1>7 DEF Agreed
  <2> QED BY <1>1, <1>7, <2>1 DEF Settles
<1>8. CASE w = h.kbd /\ Writes(h, n)
  <2>1. Writes(h', n) BY <1>2, <1>3, <1>8 DEF Writes
  <2> QED BY <1>1, <1>2, <1>8, <2>1 DEF Settles
<1> QED BY <1>5, <1>6, <1>7, <1>8

LEMMA SettleFocus ==
  ASSUME Sane, Settles(h, life, c, todo), todo # <<>>, StepFocus
  PROVE  Settles(h', life, c', todo')
<1> DEFINE w == Head(todo).win
           n == Next1
           r == Role(h, w)
<1>1. Keyboard(h, w, n) /\ c' = c /\ Now = "focus" BY DEF StepFocus
<1>2. Syncs(n) /\ Repaired(h, life, c, w) /\ Seen(h, c, w)
  <2>1. \A op : At(todo, op) <=> op = "focus" BY <1>1, SettleTail
  <2>2. ~Quiet(todo) /\ ~Writes(h, todo) BY <1>1, <2>1, SettleTail DEF Writes
  <2> QED BY <2>1, <2>2 DEF Settles, Next1
<1>3. IsList(n) /\ Memory(h) /\ Listed(h) BY SettleTail DEF Sane
<1> HIDE DEF w, n
<1>4. CASE h.kbd = w
  <2>1. h' = h /\ todo' = n BY <1>1, <1>4 DEF Keyboard
  <2>2. Agreed(h, life, c) BY <1>2, <1>4 DEF Agreed, Repaired
  <2> QED BY <1>1, <1>2, <2>1, <2>2, SyncsSettle
<1>5. CASE h.kbd # w
  <2>1. SameLists(h, h') /\ h'.focused = h.focused /\ h'.kbd = w BY <1>1, <1>3, KeyboardMoves
  <2>2. todo' = Cons(Told(r), n) BY <1>1, <1>3, <1>5, KeyboardMoves DEF Told
  <2>3. Seen(h', c, w) /\ Role(h', w) = r BY <1>2, <2>1, SeenSame, SameRoles
  <2>4. Told(r).op = "told" /\ Told(r).t = r BY DEF Told
  <2>5. todo' # <<>> /\ Head(todo') = Told(r) /\ Tail(todo') = n BY <1>3, <2>2, ConsList
  <2>6. At(todo', "told") /\ Head(todo').t = r BY <2>4, <2>5 DEF At
  <2> HIDE DEF r
  <2> QED BY <1>1, <1>2, <2>1, <2>3, <2>5, <2>6 DEF Settles
<1> QED BY <1>4, <1>5

LEMMA SettleTold ==
  ASSUME Sane, Settles(h, life, c, todo), todo # <<>>, StepTold
  PROVE  Settles(h', life, c', todo')
<1> DEFINE n == Next1
<1>1. h' = h /\ c' = [c EXCEPT !.target = Head(todo).t] /\ todo' = n /\ Now = "told"
  BY DEF StepTold, outside
<1>2. /\ Head(todo).t = Role(h, h.kbd)
      /\ \/ Seen(h, c, h.kbd) /\ (Syncs(n) \/ Quiet(n) \/ Writes(h, n))
         \/ At(n, "note") /\ Head(n).win = h.kbd /\ (Quiet(Tail(n)) \/ Writes(h, Tail(n)))
  <2>1. \A op : At(todo, op) <=> op = "told" BY <1>1, SettleTail
  <2>2. ~Quiet(todo) /\ ~Writes(h, todo) BY <1>1, <2>1, SettleTail DEF Writes
  <2> QED BY <2>1, <2>2 DEF Settles, Next1
<1>3. {"target", "panes"} \subseteq DOMAIN c BY SettleTail DEF Shaped, StateFields
<1>4. c'.target = Role(h, h.kbd) /\ c'.panes = c.panes BY <1>1, <1>2, <1>3
<1>5. Regrouped(c, c') BY <1>4, RegroupedFrom
<1> HIDE DEF n
<1>6. CASE Seen(h, c, h.kbd) /\ (Syncs(n) \/ Quiet(n) \/ Writes(h, n))
  <2>1. Seen(h, c', h.kbd) BY <1>5, <1>6, SeenRegrouped
  <2>2. Agreed(h, life, c') BY <1>4, <2>1 DEF Agreed
  <2>3. Syncs(n) => Settles(h, life, c', n) BY <2>2, SyncsSettle
  <2>4. Quiet(n) \/ Writes(h, n) => Settles(h, life, c', n) BY <2>1, <2>2 DEF Settles
  <2> QED BY <1>1, <1>6, <2>3, <2>4
<1>7. CASE At(n, "note") /\ Head(n).win = h.kbd /\ (Quiet(Tail(n)) \/ Writes(h, Tail(n)))
  BY <1>1, <1>4, <1>7 DEF Settles
<1> QED BY <1>2, <1>6, <1>7

LEMMA SettleWrite ==
  ASSUME Sane, Settles(h, life, c, todo), todo # <<>>, StepWrite
  PROVE  Settles(h', life, c', todo')
<1>1. /\ h' = h /\ todo' = Next1 /\ Now = "write"
      /\ \E b : c' = [c EXCEPT !.target = Head(todo).t, !.shell = b]
  BY DEF StepWrite, outside
<1>2. Writes(h, todo) /\ Seen(h, c, h.kbd)
  <2>1. \A op : At(todo, op) <=> op = "write" BY <1>1, SettleTail
  <2>2. ~Quiet(todo) BY <1>1, <2>1, SettleTail
  <2> QED BY <2>1, <2>2 DEF Settles
<1>3. Head(todo).t = Role(h, h.kbd) /\ Quiet(Next1) BY <1>2 DEF Writes, Next1
<1>4. {"target", "panes", "shell"} \subseteq DOMAIN c BY SettleTail DEF Shaped, StateFields
<1>5. c'.target = Role(h, h.kbd) /\ c'.panes = c.panes BY <1>1, <1>3, <1>4
<1>6. Regrouped(c, c') BY <1>5, RegroupedFrom
<1>7. Seen(h, c', h.kbd) BY <1>2, <1>6, SeenRegrouped
<1>8. Agreed(h, life, c') BY <1>5, <1>7 DEF Agreed
<1> QED BY <1>1, <1>3, <1>8 DEF Settles

\* What a route leaves to do settles the window it resolves to
LEMMA RouteWritten ==
  ASSUME NEW s, NEW next, IsList(next), Quiet(next)
  PROVE  LET t == Role(s, s.kbd)
             q == RouteWrites(t, next)
         IN /\ IsList(q)
            /\ (q = next /\ c.target = t) \/ Writes(s, q)
<1> DEFINE t == Role(s, s.kbd)
           e == Written(t, c.shell /\ t = "overlay")
<1>1. RouteWrites(t, next) = IF t # c.target \/ c.shell THEN Cons(e, next) ELSE next
  BY DEF RouteWrites
<1>2. e.op = "write" /\ e.t = t BY DEF Written
<1> HIDE DEF e
<1>3. /\ IsList(Cons(e, next)) /\ Cons(e, next) # <<>>
      /\ Head(Cons(e, next)) = e /\ Tail(Cons(e, next)) = next
  BY ConsList
<1>4. Writes(s, Cons(e, next)) BY <1>2, <1>3 DEF Writes, At
<1> HIDE DEF t
<1>5. CASE t # c.target \/ c.shell BY <1>1, <1>3, <1>4, <1>5 DEF t
<1>6. CASE ~(t # c.target \/ c.shell) BY <1>1, <1>6 DEF t
<1> QED BY <1>5, <1>6

LEMMA SettlesLeft ==
  ASSUME NEW s, NEW l, NEW next, IsList(next), Quiet(next), NEW t, t = Role(s, s.kbd), NEW q,
         q = RouteLeft(t, s.kbd, next)
  PROVE  Settles(s, l, c, q) /\ Settles(s, l, c, Cons(Told(t), q))
<1> DEFINE m == RouteWrites(t, next)
           e == Note(s.kbd, FALSE)
           d == Told(t)
<1>1. IsList(m) /\ ((m = next /\ c.target = t) \/ Writes(s, m)) BY RouteWritten
<1>2. q = IF t \in Pane THEN Cons(e, m) ELSE m BY DEF RouteLeft
<1>3. e.op = "note" /\ e.win = s.kbd /\ d.op = "told" /\ d.t = t BY DEF Note, Told
<1> HIDE DEF m, e, d
<1>4. IsList(Cons(e, m)) /\ Cons(e, m) # <<>> /\ Head(Cons(e, m)) = e /\ Tail(Cons(e, m)) = m
  BY <1>1, ConsList
<1>5. IsList(q) BY <1>1, <1>2, <1>4
<1>6. Cons(d, q) # <<>> /\ Head(Cons(d, q)) = d /\ Tail(Cons(d, q)) = q BY <1>5, ConsList
<1>7. At(Cons(d, q), "told") /\ Head(Cons(d, q)).t = Role(s, s.kbd) BY <1>3, <1>6 DEF At
<1>8. CASE t \in Pane
  <2>1. q = Cons(e, m) BY <1>2, <1>8
  <2>2. At(q, "note") /\ Head(q).win = s.kbd /\ Tail(q) = m BY <1>3, <1>4, <2>1 DEF At
  <2>3. (Quiet(Tail(q)) /\ c.target = Role(s, s.kbd)) \/ Writes(s, Tail(q)) BY <1>1, <2>2
  <2>4. Settles(s, l, c, q) BY <2>2, <2>3 DEF Settles
  <2>5. Settles(s, l, c, Cons(d, q)) BY <1>6, <1>7, <2>2, <2>3 DEF Settles
  <2> QED BY <2>4, <2>5 DEF d
<1>9. CASE t \notin Pane
  <2>1. q = m BY <1>2, <1>9
  <2>2. Seen(s, c, s.kbd) BY <1>9, UnplacedSeen
  <2>3. Settles(s, l, c, q)
    <3>1. CASE m = next /\ c.target = t BY <2>1, <2>2, <3>1 DEF Settles, Agreed
    <3>2. CASE Writes(s, m) BY <2>1, <2>2, <3>2 DEF Settles
    <3> QED BY <1>1, <3>1, <3>2
  <2>4. Settles(s, l, c, Cons(d, q))
    <3>1. Quiet(q) \/ Writes(s, q) BY <1>1, <2>1
    <3> QED BY <1>6, <1>7, <2>2, <3>1 DEF Settles
  <2> QED BY <2>3, <2>4 DEF d
<1> QED BY <1>8, <1>9

LEMMA ReroutedLeft ==
  ASSUME NEW next, IsList(next), Rerouted(next), NEW t, NEW w
  PROVE  Rerouted(RouteLeft(t, w, next)) /\ \A u : Rerouted(Cons(Told(u), next))
         /\ Rerouted(Cons(Told(t), RouteLeft(t, w, next)))
<1> DEFINE m == RouteWrites(t, next)
           q == RouteLeft(t, w, next)
<1>0. \A e : IsList(Cons(e, next)) /\ Rerouted(Cons(e, next)) BY ConsList, ReroutedCons
<1>1. IsList(m) /\ Rerouted(m) BY <1>0 DEF RouteWrites
<1> HIDE DEF m
<1>2. q = m \/ q = Cons(Note(w, FALSE), m) BY DEF RouteLeft, m
<1> HIDE DEF q
<1> DEFINE n == Cons(Note(w, FALSE), m)
<1>5. IsList(n) /\ Rerouted(n) BY <1>1, ConsList, ReroutedCons
<1>3. IsList(q) /\ Rerouted(q) BY <1>1, <1>2, <1>5
<1>4. Rerouted(Cons(Told(t), q)) /\ \A u : Rerouted(Cons(Told(u), next)) BY <1>3, ReroutedCons
<1> QED BY <1>3, <1>4 DEF q

LEMMA SettleRoute ==
  ASSUME Sane, todo # <<>>, StepRoute
  PROVE  Rerouted(todo') \/ Settles(h', life, c', todo')
<1> DEFINE next == Next1
           r == Resolved(RouteStart)
           w == h.ordFocus.win
<1>1. RouteFocus(next) /\ c' = c /\ Now = "route" BY DEF StepRoute
<1>2. /\ IsList(next) /\ Memory(h) /\ Listed(h) /\ h.main \notin Range(h.ordinary)
      /\ \A x \in Range(next) : x.op \in {"key", "toggle"}
  <2>1. \A x \in Range(next) : x.op \in {"key", "toggle"}
    BY <1>1, DueTail DEF Sane, Handled, Now, Next1
  <2> QED BY <2>1, SettleTail DEF Sane
<1> HIDE DEF next
<1>3. Rerouted(next) \/ Quiet(next) BY <1>2 DEF Rerouted, Quiet
<1>4. CASE KeepsOrdinary
  <2>1. /\ SameLists(h, h') /\ h'.kbd = w
        /\ \/ h' = h /\ todo' = next
           \/ /\ todo' = Cons(Told(Role(h, w)), next)
              /\ h'.ordFocus = [win |-> w, target |-> NoFocus]
    BY <1>1, <1>2, <1>4, RouteOutcome
  <2>2. w \in Range(h.ordinary) /\ h.ordFocus.target = c.target BY <1>4 DEF KeepsOrdinary
  <2> HIDE DEF w
  <2>3. Role(h, w) = NoFocus BY <1>2, <2>2, OrdinaryRole
  <2>4. Role(h', w) = NoFocus BY <2>1, <2>3, SameRoles
  <2>5. Seen(h', c, w)
    <3>1. NoFocus \notin Pane BY PresentationAssumption
    <3> QED BY <2>4, <3>1, UnplacedSeen
  <2>6. CASE Rerouted(next)
    <3>1. Rerouted(Cons(Told(Role(h, w)), next)) BY <1>2, <2>6, ReroutedLeft
    <3> QED BY <2>1, <2>6, <3>1
  <2>7. CASE Quiet(next) /\ h' = h /\ todo' = next
    <3>1. Agreed(h', life, c) BY <2>1, <2>2, <2>4, <2>5, <2>7 DEF Agreed, Excused
    <3> QED BY <1>1, <2>7, <3>1 DEF Settles
  <2>8. CASE Quiet(next) /\ todo' = Cons(Told(Role(h, w)), next)
    <3> DEFINE d == Told(Role(h, w))
    <3>1. d.op = "told" /\ d.t = Role(h, w) BY DEF Told
    <3> HIDE DEF d
    <3>2. todo' # <<>> /\ Head(todo') = d /\ Tail(todo') = next BY <1>2, <2>8, ConsList DEF d
    <3>3. At(todo', "told") /\ Head(todo').t = Role(h', h'.kbd) BY <2>1, <2>3, <2>4, <3>1, <3>2 DEF At
    <3> QED BY <1>1, <2>1, <2>5, <2>8, <3>2, <3>3 DEF Settles
  <2> QED BY <1>3, <2>1, <2>6, <2>7, <2>8
<1>5. CASE ~KeepsOrdinary
  <2> DEFINE q == RouteLeft(r.t, r.win, next)
  <2>1. /\ SameLists(h, h') /\ r.t = Role(h, r.win) /\ h'.kbd = r.win
        /\ todo' \in {q, Cons(Told(r.t), q)}
    BY <1>1, <1>2, <1>5, RouteOutcome
  <2> HIDE DEF r
  <2>2. r.t = Role(h', h'.kbd) BY <2>1, SameRoles
  <2>3. CASE Rerouted(next)
    <3>1. Rerouted(q) /\ Rerouted(Cons(Told(r.t), q)) BY <1>2, <2>3, ReroutedLeft
    <3> HIDE DEF q
    <3> QED BY <2>1, <3>1
  <2>4. CASE Quiet(next)
    <3>1. q = RouteLeft(r.t, h'.kbd, next) BY <2>1
    <3> HIDE DEF q
    <3>2. Settles(h', life, c, q) /\ Settles(h', life, c, Cons(Told(r.t), q))
      BY <1>2, <2>2, <2>4, <3>1, SettlesLeft
    <3> QED BY <1>1, <2>1, <3>2
  <2> QED BY <1>3, <2>3, <2>4
<1> QED BY <1>4, <1>5

Settled(s, l, x, q, a) == a \/ Rerouted(q) \/ Settles(s, l, x, q)

LEMMA StepAsks ==
  ASSUME Step
  PROVE  life' = life /\ (~StepRoute => asked' = asked)
BY Zenon DEF Step, StepRoute, StepTold, StepWrite, StepNote, StepFocus, StepSync, StepGroup, StepMapped,
       StepFallback, StepDropPopups, StepStatus, StepBridge, StepKey, StepToggle, outside

\* A toggle routes focus afterwards
LEMMA ToggleReroutes ==
  ASSUME Sane, todo # <<>>, StepToggle
  PROVE  Rerouted(todo')
<1> DEFINE next == Next1
<1>1. todo' = <<Status, Route>> \o next BY DEF StepToggle
<1>2. IsList(next) BY SettleTail
<1> HIDE DEF next
<1>3. todo' = Cons(Status, Cons(Route, next)) BY <1>1, <1>2, ConsForms
<1>4. IsList(Cons(Route, next)) /\ Rerouted(Cons(Route, next)) BY <1>2, ConsList, ReroutedCons DEF Route
<1> QED BY <1>3, <1>4, ReroutedCons

\* What a step leaves to do after the first still routes focus
LEMMA StillRerouted ==
  ASSUME Sane, Step, Now # "route", Rerouted(todo)
  PROVE  Rerouted(todo')
<1> DEFINE next == Next1
           e == Head(todo)
<1>0. todo # <<>> BY DEF Step
<1>1. Memory(h) /\ Listed(h) /\ IsList(next) BY <1>0, SettleTail DEF Sane
<1>2. todo = Cons(e, next) BY <1>0, DueTail DEF Sane, Handled, Due, Next1
<1>3. Rerouted(todo) <=> e.op \in {"route", "toggle"} \/ Rerouted(next) BY <1>1, <1>2, ReroutedCons
<1>4. CASE Now \notin {"focus", "toggle"}
  <2>1. Leads(todo', next) BY <1>4, StepPlain DEF Sane
  <2>2. Rerouted(next) BY <1>3, <1>4 DEF Now
  <2> HIDE DEF next
  <2> QED BY <1>1, <2>1, <2>2, LeadsOn
<1>5. CASE Now = "focus"
  <2>1. \E w : Keyboard(h, w, next)
    BY <1>5, Zenon DEF Step, StepRoute, StepTold, StepWrite, StepNote, StepFocus, StepSync, StepGroup, StepMapped,
           StepFallback, StepDropPopups, StepStatus, StepBridge, StepKey, StepToggle
  <2>2. PICK w : Keyboard(h, w, next) BY <2>1
  <2>3. Rerouted(next) BY <1>3, <1>5 DEF Now
  <2> HIDE DEF next
  <2>4. \/ todo' = next
        \/ todo' = Cons([op |-> "told", t |-> Role(h, w)], next)
    BY <1>1, <2>2, KeyboardMoves
  <2> QED BY <1>1, <2>3, <2>4, ReroutedCons
<1>6. CASE Now = "toggle"
  <2>1. StepToggle
    BY <1>6, Zenon DEF Step, StepRoute, StepTold, StepWrite, StepNote, StepFocus, StepSync, StepGroup, StepMapped,
           StepFallback, StepDropPopups, StepStatus, StepBridge, StepKey, StepToggle
  <2> QED BY <1>0, <2>1, ToggleReroutes
<1> QED BY <1>4, <1>5, <1>6

LEMMA SettledStep ==
  ASSUME Sane, Settled(h, life, c, todo, asked), Step
  PROVE  Settled(h', life', c', todo', asked')
<1>0. todo # <<>> BY DEF Step
<1>1. life' = life /\ (~StepRoute => asked' = asked) BY StepAsks
<1>2. CASE StepRoute BY <1>0, <1>1, <1>2, SettleRoute DEF Settled
<1>3. CASE ~StepRoute /\ asked BY <1>1, <1>3 DEF Settled
<1>4. CASE ~StepRoute /\ Rerouted(todo)
  <2>1. Now # "route"
    BY <1>4, Zenon DEF Step, StepRoute, StepTold, StepWrite, StepNote, StepFocus, StepSync, StepGroup, StepMapped,
           StepFallback, StepDropPopups, StepStatus, StepBridge, StepKey, StepToggle
  <2> QED BY <1>4, <2>1, StillRerouted DEF Settled
<1>5. CASE ~StepRoute /\ Settles(h, life, c, todo)
  <2>1. StepTold => Settles(h', life, c', todo') BY <1>0, <1>5, SettleTold
  <2>2. StepWrite => Settles(h', life, c', todo') BY <1>0, <1>5, SettleWrite
  <2>3. StepNote => Settles(h', life, c', todo') BY <1>0, <1>5, SettleNote
  <2>4. StepFocus => Settles(h', life, c', todo') BY <1>0, <1>5, SettleFocus
  <2>5. StepSync => Settles(h', life, c', todo') BY <1>0, <1>5, SettleSync
  <2>6. StepGroup => Settles(h', life, c', todo') BY <1>0, <1>5, SettleGroup
  <2>7. StepMapped => Settles(h', life, c', todo') BY <1>0, <1>5, SettleMapped
  <2>8. StepFallback => Settles(h', life, c', todo') BY <1>0, <1>5, SettleFallback
  <2>9. StepBridge => Settles(h', life, c', todo') BY <1>0, <1>5, SettleClear
  <2>10. StepKey \/ StepStatus => Settles(h', life, c', todo')
    <3>1. StepKey \/ StepStatus => h' = h /\ c' = c /\ todo' = Next1 /\ Now \in {"key", "status"}
      BY DEF StepKey, StepStatus
    <3> QED BY <1>0, <1>5, <3>1, SettleQuiet
  <2>11. ~StepDropPopups
    <3>1. SUFFICES ASSUME Now = "drop" PROVE FALSE BY DEF StepDropPopups
    <3>2. \A op : At(todo, op) <=> op = "drop" BY <1>0, <3>1, SettleTail
    <3>3. ~Quiet(todo) /\ ~Writes(h, todo) BY <1>0, <3>1, <3>2, SettleTail DEF Writes
    <3> QED BY <1>5, <3>2, <3>3 DEF Settles
  <2>12. StepToggle => Rerouted(todo') BY <1>0, ToggleReroutes
  <2> QED BY <1>1, <1>5, <2>1, <2>2, <2>3, <2>4, <2>5, <2>6, <2>7, <2>8, <2>9, <2>10, <2>11, <2>12
          DEF Settled, Step
<1> QED BY <1>2, <1>3, <1>4, <1>5 DEF Settled

-----------------------------------------------------------------------------
(* ... and through what happens when no handler runs                       *)

\* The keyboard stays where it was, with a window that keeps its role
LEMMA AgreedKept ==
  ASSUME NEW s, NEW t, NEW l, NEW m, NEW x, Agreed(s, l, x),
         t.kbd = s.kbd, t.ordFocus = s.ordFocus, t.root = s.root,
         Role(t, s.kbd) = Role(s, s.kbd), s.kbd \in Living(m) => s.kbd \in Living(l),
         Seen(s, x, s.kbd) => Seen(t, x, s.kbd)
  PROVE  Agreed(t, m, x)
<1>1. Excused(s, l) => Excused(t, m) BY DEF Excused, Stranded
<1> QED BY <1>1 DEF Agreed

LEMMA SeenAlso ==
  ASSUME NEW s, NEW t, NEW x, NEW w, Seen(s, x, w), t.root = s.root, t.focused = s.focused,
         Role(t, w) = Role(s, w)
  PROVE  Seen(t, x, w)
BY DEF Seen

\* What was settled when the last handler was done
LEMMA SettledRest ==
  ASSUME NEW s, NEW l, NEW x, NEW a, Settled(s, l, x, <<>>, a), ~a
  PROVE  Agreed(s, l, x)
<1>1. ~Rerouted(<<>>) BY ReroutedForms
<1>2. \A op : ~At(<<>>, op) BY DEF At
<1> QED BY <1>1, <1>2 DEF Settled, Settles, Writes

LEMMA FallbackSettles ==
  ASSUME NEW s, NEW l, NEW x, NEW p, NEW w,
         Agreed(s, l, x) \/ (x.target = p /\ s.root[p] # NoWin /\ h.focused[p] = w)
  PROVE  Settles(s, l, x, Refocus(p, w))
<1> DEFINE e == [op |-> "fallback", pane |-> p]
           y == Sync(p)
           q == Cons(e, Cons(y, <<>>))
<1>0. e.op = "fallback" /\ e.pane = p OBVIOUS
<1> HIDE DEF e, y
<1>1. <<y>> = Cons(y, <<>>) /\ <<e, y>> = q /\ IsList(Cons(y, <<>>)) BY EmptyList, ConsForms, ConsList
<1>2. q # <<>> /\ Head(q) = e /\ Tail(q) = Cons(y, <<>>) BY <1>1, ConsList
<1> HIDE DEF q
<1>3. Syncs(Cons(y, <<>>)) BY DEF Syncs, y
<1>4. CASE h.focused[p] = w
  <2>1. Refocus(p, w) = q BY <1>1, <1>4 DEF Refocus, e, y
  <2>2. At(q, "fallback") /\ Head(q).pane = p /\ Syncs(Tail(q)) BY <1>0, <1>2, <1>3 DEF At
  <2>3. Settles(s, l, x, q) BY <2>2 DEF Settles
  <2> QED BY <2>1, <2>3
<1>5. CASE h.focused[p] # w
  <2>1. Refocus(p, w) = Cons(y, <<>>) BY <1>1, <1>5 DEF Refocus, y
  <2> QED BY <1>3, <1>5, <2>1, SyncsSettle
<1> QED BY <1>4, <1>5

LEMMA DialogSettles ==
  ASSUME NEW w \in Window, Sane, Agreed(h, life, c), DialogAppears(w)
  PROVE  Settles(h', life', c', todo')
<1>1. /\ todo' = <<Sync(PaneOf[w]), Status>>
      /\ Changed(h, h', {"dialogs"}) /\ Range(h'.dialogs) = Range(h.dialogs) \cup {w} /\ h'.kbd # w
  BY DialogAppearsEffect DEF Sane
<1>2. c' = c /\ Comes(w) BY DEF DialogAppears
<1>3. Memory(h) /\ Listed(h) BY DEF Sane, Handled
<1>4. /\ h'.main = h.main /\ h'.overlay = h.overlay /\ h'.root = h.root /\ h'.popups = h.popups
      /\ h'.kbd = h.kbd /\ h'.ordFocus = h.ordFocus /\ h'.focused = h.focused
  BY <1>1, <1>3, ChangedParts
<1>5. Role(h', h.kbd) = Role(h, h.kbd) BY <1>1, <1>4 DEF Role, Placed
<1>6. Living(life') = Living(life) \cup {w} BY <1>2, ComesLife DEF Sane, Handled
<1>7. Agreed(h', life', c) BY <1>1, <1>4, <1>5, <1>6, AgreedKept, SeenAlso
<1> DEFINE y == Sync(PaneOf[w])
           q == Cons(Status, <<>>)
<1>8. y.op = "sync" /\ Status.op = "status" BY DEF Sync, Status
<1> HIDE DEF y
<1>9. IsList(q) /\ Range(q) = {Status} /\ todo' = Cons(y, q)
  <2>1. IsList(q) /\ Range(q) = {Status} BY EmptyList, ConsList
  <2>2. todo' = Cons(y, q) BY <1>1, EmptyList, ConsForms DEF y
  <2> QED BY <2>1, <2>2
<1> HIDE DEF q
<1>10. todo' # <<>> /\ Head(todo') = y /\ Tail(todo') = q BY <1>9, ConsList
<1>11. Quiet(q) BY <1>8, <1>9 DEF Quiet
<1>12. At(todo', "sync") /\ Quiet(Tail(todo')) BY <1>8, <1>10, <1>11 DEF At
<1> QED BY <1>2, <1>7, <1>12 DEF Settles

LEMMA OrdinarySettles ==
  ASSUME NEW w \in Window, Sane, Agreed(h, life, c), OrdinaryAppears(w)
  PROVE  Settles(h', life', c', todo')
<1>1. todo' = <<>> /\ Changed(h, h', {"ordinary"}) /\ h'.kbd # w
  BY OrdinaryAppearsEffect DEF Sane
<1>2. c' = c /\ Comes(w) BY DEF OrdinaryAppears
<1>3. Memory(h) /\ Listed(h) BY DEF Sane, Handled
<1>4. /\ h'.main = h.main /\ h'.overlay = h.overlay /\ h'.root = h.root /\ h'.popups = h.popups
      /\ h'.dialogs = h.dialogs
      /\ h'.kbd = h.kbd /\ h'.ordFocus = h.ordFocus /\ h'.focused = h.focused
  BY <1>1, <1>3, ChangedParts
<1>5. Role(h', h.kbd) = Role(h, h.kbd) BY <1>4 DEF Role, Placed
<1>6. Living(life') = Living(life) \cup {w} BY <1>2, ComesLife DEF Sane, Handled
<1>7. Agreed(h', life', c) BY <1>1, <1>4, <1>5, <1>6, AgreedKept, SeenAlso
<1> QED BY <1>1, <1>2, <1>7, QuietForms, SyncsSettle

LEMMA PopupSettles ==
  ASSUME NEW w \in Window, Sane, Agreed(h, life, c), PopupAppears(w)
  PROVE  Settles(h', life', c', todo')
<1>1. /\ todo' = IF Owner(w) \in Pane THEN <<Sync(Owner(w))>> ELSE <<>>
      /\ Changed(h, h', {"popups"}) /\ Range(h'.popups) = Range(h.popups) \cup {w} /\ h'.kbd # w
  BY PopupAppearsEffect DEF Sane
<1>2. c' = c /\ Comes(w) BY DEF PopupAppears
<1>3. Memory(h) /\ Listed(h) BY DEF Sane, Handled
<1>4. /\ h'.main = h.main /\ h'.overlay = h.overlay /\ h'.root = h.root /\ h'.dialogs = h.dialogs
      /\ h'.kbd = h.kbd /\ h'.ordFocus = h.ordFocus /\ h'.focused = h.focused
  BY <1>1, <1>3, ChangedParts
<1>5. Role(h', h.kbd) = Role(h, h.kbd) BY <1>1, <1>4 DEF Role, Placed
<1>6. Living(life') = Living(life) \cup {w} BY <1>2, ComesLife DEF Sane, Handled
<1>7. Agreed(h', life', c) BY <1>1, <1>4, <1>5, <1>6, AgreedKept, SeenAlso
<1>8. Syncs(todo') BY <1>1, QuietForms
<1> QED BY <1>2, <1>7, <1>8, SyncsSettle

LEMMA MapSettles ==
  ASSUME NEW w \in Window, Sane, Agreed(h, life, c), Map(w)
  PROVE  Settles(h', life', c', todo')
<1>1. /\ Changed(h, h', {"mapped", "dialogs", "popups"})
      /\ Range(h'.dialogs) = Range(h.dialogs) /\ Range(h'.popups) = Range(h.popups)
      /\ w \in Range(h.dialogs) \cup Range(h.popups)
      /\ todo' = IF Owner(w) \in Pane THEN <<[op |-> "mapped", win |-> w], Sync(Owner(w))>> ELSE <<>>
  BY MapEffect DEF Sane
<1>2. c' = c /\ life' = life BY DEF Map
<1>3. Memory(h) /\ Listed(h) BY DEF Sane, Handled
<1>4. /\ h'.main = h.main /\ h'.overlay = h.overlay /\ h'.root = h.root
      /\ h'.kbd = h.kbd /\ h'.ordFocus = h.ordFocus /\ h'.focused = h.focused
  BY <1>1, <1>3, ChangedParts
<1>5. Placed(h') = Placed(h) BY <1>1, <1>4 DEF Placed
<1>6. Role(h', h.kbd) = Role(h, h.kbd) BY <1>5 DEF Role
<1>7. Agreed(h', life', c) BY <1>2, <1>4, <1>6, AgreedKept, SeenAlso
<1>8. CASE Owner(w) \notin Pane BY <1>1, <1>2, <1>7, <1>8, QuietForms, SyncsSettle
<1>9. CASE Owner(w) \in Pane
  <2> DEFINE e == [op |-> "mapped", win |-> w]
             y == Sync(Owner(w))
  <2>0. e.op = "mapped" /\ e.win = w OBVIOUS
  <2>1. todo' = <<e, y>> BY <1>1, <1>9
  <2> HIDE DEF e
  <2>2. Syncs(Cons(y, <<>>)) BY DEF Syncs
  <2> HIDE DEF y
  <2>3. todo' = Cons(e, Cons(y, <<>>)) /\ IsList(Cons(y, <<>>)) BY <2>1, EmptyList, ConsForms, ConsList
  <2>4. todo' # <<>> /\ Head(todo') = e /\ Tail(todo') = Cons(y, <<>>) BY <2>3, ConsList
  <2>5. At(todo', "mapped") /\ Head(todo').win = w /\ Syncs(Tail(todo')) BY <2>0, <2>2, <2>4 DEF At
  <2>6. w \in Placed(h') BY <1>1, <1>3, <1>5, PlacedWindows
  <2> QED BY <1>2, <1>7, <1>9, <2>5, <2>6 DEF Settles
<1> QED BY <1>8, <1>9

LEMMA UnmapSettles ==
  ASSUME NEW w \in Window, Sane, Agreed(h, life, c), Unmap(w)
  PROVE  Settles(h', life', c', todo')
<1>1. /\ Changed(h, h', {"mapped"})
      /\ todo' = IF Owner(w) \in Pane THEN Refocus(Owner(w), w) ELSE <<>>
  BY UnmapEffect DEF Sane
<1>2. c' = c /\ life' = life BY DEF Unmap
<1>3. Memory(h) /\ Listed(h) BY DEF Sane, Handled
<1>4. /\ h'.main = h.main /\ h'.overlay = h.overlay /\ h'.root = h.root
      /\ h'.dialogs = h.dialogs /\ h'.popups = h.popups
      /\ h'.kbd = h.kbd /\ h'.ordFocus = h.ordFocus /\ h'.focused = h.focused
  BY <1>1, <1>3, ChangedParts
<1>5. Role(h', h.kbd) = Role(h, h.kbd) BY <1>4 DEF Role, Placed
<1>6. Agreed(h', life', c) BY <1>2, <1>4, <1>5, AgreedKept, SeenAlso
<1>7. Settles(h', life', c, <<>>) BY <1>6, QuietForms, SyncsSettle
<1>8. Settles(h', life', c, Refocus(Owner(w), w)) BY <1>6, FallbackSettles
<1> QED BY <1>1, <1>2, <1>7, <1>8

\* popup_destroyed: the keyboard stays with the popup that is gone, unless its
\* pane has another window for it
LEMMA PopupGoneSettles ==
  ASSUME NEW w \in Window, Sane, Agreed(h, life, c), PopupDestroyed(w)
  PROVE  Settles(h', life', c', todo')
<1> DEFINE p == Owner(w)
<1>1. /\ Changed(h, h', {"popups", "mapped", "focused", "history"})
      /\ w \in Range(h.popups) /\ Range(h'.popups) = Range(h.popups) \ {w} /\ Gone(w)
      /\ p \notin Pane => todo' = <<>> /\ h'.focused = h.focused
      /\ p \in Pane =>
           /\ todo' = Refocus(p, w)
           /\ \A q \in Pane :
                h'.focused[q] = IF q = p /\ h.focused[q] = w THEN NoWin ELSE h.focused[q]
  BY PopupDestroyedEffect DEF Sane
<1>2. c' = c BY DEF PopupDestroyed
<1>3. Memory(h) /\ Listed(h) BY DEF Sane, Handled
<1>4. /\ h'.main = h.main /\ h'.overlay = h.overlay /\ h'.root = h.root /\ h'.dialogs = h.dialogs
      /\ h'.kbd = h.kbd /\ h'.ordFocus = h.ordFocus
  BY <1>1, <1>3, ChangedParts
<1>5. Living(life') = Living(life) \ {w} /\ w \in Living(life) BY <1>1, GoneLife DEF Sane, Handled
<1>6. w \in Placed(h) /\ KindOf[w] = "popup" /\ w # NoWin
  BY <1>1, <1>3, PlacedWindows, PresentationAssumption DEF OfKind
<1> HIDE DEF p
<1>7. CASE h.kbd # w
  <2>1. Role(h', h.kbd) = Role(h, h.kbd) BY <1>1, <1>4, <1>7 DEF Role, Placed
  <2>2. ASSUME Seen(h, c, h.kbd) PROVE Seen(h', c, h.kbd)
    <3> DEFINE r == Role(h, h.kbd)
    <3>1. r \in Pane /\ h.root[r] # NoWin => h.focused[r] = h.kbd BY <2>2 DEF Seen
    <3>2. r \in Pane /\ h.root[r] # NoWin => h'.focused[r] = h.kbd BY <1>1, <1>7, <3>1
    <3> HIDE DEF r
    <3> QED BY <1>4, <2>1, <2>2, <3>2 DEF Seen, r
  <2>3. Agreed(h', life', c) BY <1>4, <1>5, <2>1, <2>2, AgreedKept
  <2>4. Settles(h', life', c, <<>>) BY <2>3, QuietForms, SyncsSettle
  <2>5. Settles(h', life', c, Refocus(p, w)) BY <2>3, FallbackSettles
  <2> QED BY <1>1, <1>2, <2>4, <2>5
<1>8. CASE h.kbd = w /\ (h.ordFocus.target # NoFocus \/ (p \in Pane => h.root[p] = NoWin))
  <2>1. Excused(h', life') BY <1>4, <1>5, <1>6, <1>8 DEF Excused, Stranded, p
  <2>2. Agreed(h', life', c) BY <2>1 DEF Agreed
  <2>3. Settles(h', life', c, <<>>) BY <2>2, QuietForms, SyncsSettle
  <2>4. Settles(h', life', c, Refocus(p, w)) BY <2>2, FallbackSettles
  <2> QED BY <1>1, <1>2, <2>3, <2>4
<1>9. CASE h.kbd = w /\ h.ordFocus.target = NoFocus /\ p \in Pane /\ h.root[p] # NoWin
  <2>1. ~Excused(h, life) BY <1>5, <1>9 DEF Excused, Stranded
  <2>2. Role(h, w) = p BY <1>6, RoleOfPlaced DEF p
  <2>3. c.target = p /\ h.focused[p] = w BY <1>9, <2>1, <2>2 DEF Agreed, Seen
  <2>4. Settles(h', life', c, Refocus(p, w)) BY <1>4, <1>9, <2>3, FallbackSettles
  <2> QED BY <1>1, <1>2, <1>9, <2>4
<1> QED BY <1>7, <1>8, <1>9

LEMMA OtherGoneSettles ==
  ASSUME NEW w \in Window, Sane, Agreed(h, life, c), OtherDestroyed(w), KindOf[w] = "popup"
  PROVE  Settles(h', life', c', todo')
<1>1. /\ Changed(h, h', {"mapped"}) /\ Gone(w) /\ todo' = <<>>
  BY OtherDestroyedEffect DEF Sane
<1>2. c' = c BY DEF OtherDestroyed
<1>3. Memory(h) /\ Listed(h) BY DEF Sane, Handled
<1>4. /\ h'.main = h.main /\ h'.overlay = h.overlay /\ h'.root = h.root
      /\ h'.dialogs = h.dialogs /\ h'.popups = h.popups
      /\ h'.kbd = h.kbd /\ h'.ordFocus = h.ordFocus /\ h'.focused = h.focused
  BY <1>1, <1>3, ChangedParts
<1>5. Living(life') = Living(life) \ {w} BY <1>1, GoneLife DEF Sane, Handled
<1>6. Role(h', h.kbd) = Role(h, h.kbd) BY <1>4 DEF Role, Placed
<1>7. Agreed(h', life', c) BY <1>4, <1>5, <1>6, AgreedKept, SeenAlso
<1> QED BY <1>1, <1>2, <1>7, QuietForms, SyncsSettle

\* The pointer and its buttons
LEMMA PointerSettles ==
  ASSUME Sane, Agreed(h, life, c), Changed(h, h', SeatParts), todo' = <<>>
  PROVE  Settles(h', life, c, todo')
<1>1. Memory(h) /\ Listed(h) BY DEF Sane, Handled
<1>2. SameLists(h, h') BY <1>1, ChangedSame DEF SeatParts, ListFields
<1>3. h'.kbd = h.kbd /\ h'.ordFocus = h.ordFocus /\ h'.focused = h.focused
  BY <1>1, ChangedParts DEF SeatParts
<1>4. Agreed(h', life, c) BY <1>2, <1>3, AgreedSame
<1> QED BY <1>4, QuietForms, SyncsSettle

\* A click: the window is told to its pane and gets the keyboard
LEMMA ClickSettles ==
  ASSUME Sane, todo = <<>>, Agreed(h, life, c), NEW w \in Listing(h) \cup {NoWin},
         Changed(h, h', SeatParts \cup {"ordFocus"}), todo' = PressLeft(w),
         w \in Range(h.ordinary) => h'.ordFocus.target = IF w \in Unresolved THEN NoFocus ELSE c.target
  PROVE  Settles(h', life, c, todo')
<1>1. Memory(h) /\ Listed(h) /\ Listing(h) \subseteq Living(life) /\ h.main \notin Range(h.ordinary)
      /\ OrdinaryHeld(h, todo)
  BY DEF Sane, Handled
<1>2. SameLists(h, h') BY <1>1, ChangedSame DEF SeatParts, ListFields
<1>3. h'.kbd = h.kbd /\ h'.focused = h.focused BY <1>1, ChangedParts DEF SeatParts
<1>4. Listing(h') = Listing(h) /\ \A v : Role(h', v) = Role(h, v) BY <1>2, SameRoles
<1>5. h'.ordinary = h.ordinary /\ h'.root = h.root BY <1>2 DEF SameLists
<1>6. h.ordFocus.target # NoFocus => h.kbd \in Range(h.ordinary)
  BY <1>1, ReroutedForms DEF OrdinaryHeld
<1>7. \A v \in Range(h.ordinary) : Role(h, v) = NoFocus /\ v # NoWin BY <1>1, OrdinaryRole
<1>8. CASE w = NoWin
  <2> DEFINE f == Focus(NoWin)
             q == Cons(f, <<>>)
  <2>1. f.op = "focus" /\ f.win = NoWin BY DEF Focus
  <2> HIDE DEF f
  <2>2. NoWin \notin Unresolved BY PresentationAssumption, FocusAssumption
  <2>3. todo' = q BY <1>8, <2>2 DEF PressLeft, f
  <2>4. q # <<>> /\ Head(q) = f /\ Tail(q) = <<>> BY EmptyList, ConsList
  <2> HIDE DEF q
  <2>5. At(q, "focus") /\ Head(q).win = NoWin /\ Syncs(Tail(q)) BY <2>1, <2>4, QuietForms DEF At
  <2>6. Seen(h', c, NoWin) /\ Role(h', NoWin) = NoFocus BY NoWindowRole
  <2>7. Repaired(h', life, c, NoWin)
    <3>1. ASSUME h.kbd = NoWin PROVE c.target = NoFocus
      <4>1. ~Excused(h, life) BY <1>6, <1>7, <3>1 DEF Excused, Stranded
      <4> QED BY <1>4, <2>6, <3>1, <4>1 DEF Agreed
    <3> QED BY <1>3, <2>6, <3>1 DEF Repaired
  <2>8. Settles(h', life, c, q) BY <2>5, <2>6, <2>7 DEF Settles
  <2> QED BY <2>3, <2>8
<1>9. CASE w # NoWin /\ w \notin Unresolved
  <2>1. todo' = Cons(Note(w, TRUE), Cons(Focus(w), <<>>)) BY <1>9 DEF PressLeft
  <2>2. Repaired(h', life, c, w)
    <3>1. SUFFICES ASSUME w = h.kbd, ~Excused(h', life) PROVE c.target = Role(h', w)
      BY <1>3 DEF Repaired
    <3>2. CASE w \in Range(h.ordinary)
      <4>1. c.target = NoFocus BY <1>9, <3>1, <3>2 DEF Excused
      <4> QED BY <1>4, <1>7, <3>2, <4>1
    <3>3. CASE w \notin Range(h.ordinary)
      <4>1. w \in Living(life) BY <1>1, <1>9
      <4>2. ~Excused(h, life) BY <1>6, <3>1, <3>3, <4>1 DEF Excused, Stranded
      <4> QED BY <1>4, <3>1, <4>2 DEF Agreed
    <3> QED BY <3>2, <3>3
  <2>3. Settles(h', life, c, Cons(Note(w, TRUE), Cons(Focus(w), <<>>)))
    BY <1>4, <1>9, <2>2, EmptyList, QuietForms, SettlesNoted
  <2> QED BY <2>1, <2>3
<1>10. CASE w # NoWin /\ w \in Unresolved
  <2> DEFINE q == Cons(Note(w, TRUE), Cons(Focus(w), <<>>))
             a == Clear
  <2>1. w \in Range(h.ordinary)
    <3>1. KindOf[w] = "ordinary" BY <1>10, FocusAssumption
    <3>2. w \notin Placed(h) BY <1>1, <3>1, PlacedRole
    <3> QED BY <1>10, <3>2 DEF Listing
  <2>2. a.op = "clear" BY DEF Clear
  <2> HIDE DEF a
  <2>3. todo' = Cons(a, q) BY <1>10 DEF PressLeft, a
  <2>4. IsList(q) BY EmptyList, ConsList
  <2>5. \E v \in Range(h'.ordinary) : q = Cons(Note(v, TRUE), Cons(Focus(v), <<>>)) BY <1>5, <2>1
  <2> HIDE DEF q
  <2>6. todo' # <<>> /\ Head(todo') = a /\ Tail(todo') = q BY <2>3, <2>4, ConsList
  <2>7. At(todo', "clear") BY <2>2, <2>6 DEF At
  <2> QED BY <2>5, <2>6, <2>7 DEF Settles
<1> QED BY <1>8, <1>9, <1>10

LEMMA SettledInput ==
  ASSUME Sane, Settled(h, life, c, todo, asked), Input
  PROVE  Settled(h', life', c', todo', asked')
<1>1. CASE (\E w : Motion(w)) \/ (\E b : ReleaseButton(b))
  <2>1. Changed(h, h', SeatParts) /\ todo = <<>> /\ todo' = <<>> /\ life' = life /\ c' = c /\ asked' = asked
    BY <1>1, PointerEffect DEF Sane
  <2>2. asked \/ Agreed(h, life, c) BY <2>1, SettledRest
  <2> QED BY <2>1, <2>2, PointerSettles DEF Settled
<1>2. ASSUME NEW w, NEW b, Press(b, w) PROVE Settled(h', life', c', todo', asked')
  <2>1. /\ w \in Listing(h) \cup {NoWin} /\ todo = <<>> /\ life' = life /\ c' = c /\ asked' = asked
        /\ \/ Changed(h, h', SeatParts) /\ todo' = <<>>
           \/ /\ Changed(h, h', SeatParts \cup {"ordFocus"}) /\ todo' = PressLeft(w)
              /\ w \in Range(h.ordinary) =>
                   h'.ordFocus.target = IF w \in Unresolved THEN NoFocus ELSE c.target
    BY <1>2, PressEffect DEF Sane
  <2>2. asked \/ Agreed(h, life, c) BY <2>1, SettledRest
  <2> QED BY <2>1, <2>2, PointerSettles, ClickSettles DEF Settled
<1>3. CASE PressKey BY <1>3, ReroutedForms DEF PressKey, Settled
<1> QED BY <1>1, <1>2, <1>3 DEF Input

LEMMA SettledWindows ==
  ASSUME Sane, Settled(h, life, c, todo, asked), WindowEvents \/ MainDemoted
  PROVE  Settled(h', life', c', todo', asked')
<1>1. todo = <<>> /\ asked' = asked
  BY Zenon
     DEF MainAppears, OverlayAppears, RootAppears, DialogAppears, OrdinaryAppears, PopupAppears, Map,
         Unmap, TopDestroyed, RootDestroyed, DialogDestroyed, PopupDestroyed, OtherDestroyed,
         WindowEvents, Comes, Gone, Idle, MainDemoted
<1>2. CASE asked BY <1>1, <1>2 DEF Settled
<1>3. ASSUME Rerouted(todo') PROVE Settled(h', life', c', todo', asked') BY <1>3 DEF Settled
<1>4. CASE MainDemoted
  <2>1. todo' = <<Status, Route>> BY <1>4, MainDemotedEffect DEF Sane
  <2> QED BY <1>3, <2>1, ReroutedForms
<1>5. CASE ~asked /\ WindowEvents
  <2>0. Agreed(h, life, c) BY <1>1, <1>5, SettledRest
  <2>1. PICK w \in Window :
          \/ MainAppears(w) \/ OverlayAppears(w) \/ RootAppears(w) \/ DialogAppears(w)
          \/ OrdinaryAppears(w) \/ PopupAppears(w) \/ Map(w) \/ Unmap(w)
          \/ TopDestroyed(w) \/ RootDestroyed(w) \/ DialogDestroyed(w) \/ PopupDestroyed(w)
          \/ OtherDestroyed(w)
    BY <1>5 DEF WindowEvents
  <2>2. CASE MainAppears(w) \/ OverlayAppears(w) \/ TopDestroyed(w)
    <3>1. todo' = <<Status, Route>> \/ todo' = After(w)
      BY <2>2, MainAppearsEffect, OverlayAppearsEffect, TopDestroyedEffect DEF Sane
    <3> QED BY <1>3, <3>1, ReroutedForms
  <2>3. CASE RootAppears(w)
    <3>1. todo' = Arrival(PaneOf[w], w) BY <2>3, RootAppearsEffect DEF Sane
    <3> DEFINE a == [op |-> "attach", pane |-> PaneOf[w]]
               b == [op |-> "observe", pane |-> PaneOf[w], win |-> w]
               q == <<Status, Route>>
    <3>2. IsList(q) /\ Rerouted(q) BY DueOf, ReroutedForms DEF Due
    <3>3. todo' = Cons(a, Cons(b, q)) BY <3>1, ArrivalForm
    <3> HIDE DEF a, b, q
    <3>4. Leads(todo', q) BY <3>3 DEF Leads
    <3> QED BY <1>3, <3>2, <3>4, LeadsOn
  <2>4. CASE RootDestroyed(w) \/ DialogDestroyed(w)
    <3>1. Listed(h) /\ Handled(h, life, todo) BY DEF Sane
    <3>2. Leads(todo', After(w)) BY <2>4, <3>1, PaneGoneLeads
    <3>3. IsList(After(w)) /\ Rerouted(After(w)) BY DueOf, ReroutedForms DEF Due
    <3> QED BY <1>3, <3>2, <3>3, LeadsOn
  <2>5. CASE OtherDestroyed(w)
    <3>1. CASE KindOf[w] = "popup" BY <2>0, <2>5, <3>1, OtherGoneSettles DEF Settled
    <3>2. CASE KindOf[w] # "popup"
      <4>1. todo' = After(w) BY <2>5, <3>2, OtherDestroyedEffect DEF Sane
      <4> QED BY <1>3, <4>1, ReroutedForms
    <3> QED BY <3>1, <3>2
  <2>6. CASE DialogAppears(w) \/ OrdinaryAppears(w) \/ PopupAppears(w)
    BY <2>0, <2>6, DialogSettles, OrdinarySettles, PopupSettles DEF Settled
  <2>7. CASE Map(w) \/ Unmap(w) \/ PopupDestroyed(w)
    BY <2>0, <2>7, MapSettles, UnmapSettles, PopupGoneSettles DEF Settled
  <2> QED BY <2>1, <2>2, <2>3, <2>4, <2>5, <2>6, <2>7
<1> QED BY <1>2, <1>4, <1>5

LEMMA SettledNext ==
  ASSUME Sane, Settled(h, life, c, todo, asked), [Next]_vars
  PROVE  Settled(h', life', c', todo', asked')
<1>1. {"panes", "target", "shell"} \subseteq DOMAIN c /\ Shaped(c)
  BY DEF Sane, RegionInv, Shaped, StateFields
<1>2. CASE Step BY <1>2, SettledStep
<1>3. CASE WindowEvents \/ MainDemoted BY <1>3, SettledWindows
<1>4. CASE Input BY <1>4, SettledInput
<1>5. CASE ControlAsks \/ ControlToggles BY <1>5 DEF ControlAsks, ControlToggles, Settled
<1>6. CASE ShellEnds \/ ControlChanges \/ UNCHANGED vars
  <2>1. h' = h /\ todo' = todo /\ life' = life /\ asked' = asked
    BY <1>6, Zenon DEF ShellEnds, ControlChanges, runtime, vars
  <2>2. c'.target = c.target /\ (c'.panes = c.panes \/ FocusKept(c, c'))
    <3>1. ShellEnds => c'.panes = c.panes /\ c'.target = c.target BY <1>1 DEF ShellEnds
    <3>2. ControlChanges => FocusKept(c, c') BY <1>1, ChangesFocus DEF Sane
    <3>3. UNCHANGED vars => c' = c BY DEF vars
    <3> QED BY <1>6, <3>1, <3>2, <3>3 DEF FocusKept
  <2>3. Regrouped(c, c') BY <2>2, RegroupedFrom
  <2>4. Settles(h, life, c, todo) => Settles(h, life, c', todo) BY <2>2, <2>3, SettlesRegrouped
  <2> QED BY <2>1, <2>4 DEF Settled
<1> QED BY <1>2, <1>3, <1>4, <1>5, <1>6 DEF Next

LEMMA SettledInit ==
  ASSUME Init
  PROVE  Settled(h, life, c, todo, asked)
<1>1. h = [main |-> NoWin, overlay |-> NoWin, root |-> [p \in Pane |-> NoWin],
           dialogs |-> <<>>, popups |-> <<>>, ordinary |-> <<>>, mapped |-> {},
           kbd |-> NoWin, ordFocus |-> NoOrd, focused |-> [p \in Pane |-> NoWin],
           history |-> [p \in Pane |-> <<>>], under |-> NoWin, grabbed |-> FALSE, grab |-> NoWin,
           down |-> {}, pressed |-> {}, canceled |-> {}]
  BY Zenon DEF Init
<1>2. PICK sc \in Scenarios :
        c = [panes |-> [p \in Pane |-> IF p \in sc.panes THEN Hosted(p) ELSE NoPane],
             pend |-> [p \in Pane |-> NoRev], stopping |-> {}, leaving |-> {},
             accepts |-> sc.panes, regions |-> NoRegions, present |-> [u \in Surface |-> NoGen],
             target |-> NoFocus, gen |-> NoGen, shell |-> FALSE]
  BY Zenon DEF Init
<1>3. h.kbd = NoWin /\ c.target = NoFocus /\ todo = <<>> BY <1>1, <1>2 DEF Init
<1>4. Agreed(h, life, c) BY <1>3, NoWindowRole DEF Agreed
<1> QED BY <1>3, <1>4, QuietForms, SyncsSettle DEF Settled

\* What the handlers hold between any two steps
FocusInv ==
  /\ Handled(h, life, todo)
  /\ Groups(h, c, todo)
  /\ OrdinaryHeld(h, todo)
  /\ Settled(h, life, c, todo, asked)

\* The handlers' lists name windows that live, a window group is that of a pane
\* with a window, and the keyboard is where the target, the panes and the groups
\* say, or the steps that are left to do bring it there.
THEOREM FocusInvHolds == Spec => []FocusInv
<1>1. Init => FocusInv BY HandledInit, GroupsInit, OrdinaryInit, SettledInit DEF FocusInv
<1>2. Listed(h) /\ RegionInv /\ FocusInv /\ [Next]_vars => FocusInv'
  <2> SUFFICES ASSUME Listed(h), RegionInv, FocusInv, [Next]_vars PROVE FocusInv' OBVIOUS
  <2>1. Sane BY DEF Sane, FocusInv
  <2>2. Handled(h', life', todo') BY HandledStep DEF FocusInv
  <2>3. Groups(h', c', todo') BY GroupsNext DEF FocusInv
  <2>4. OrdinaryHeld(h', todo') BY OrdinaryNext DEF FocusInv
  <2>5. Settled(h', life', c', todo', asked') BY <2>1, SettledNext DEF FocusInv
  <2> QED BY <2>2, <2>3, <2>4, <2>5 DEF FocusInv
<1> QED BY <1>1, <1>2, ListsHoldTheirKind, RegionInvHolds, PTL DEF Spec

\* What is reported to have the focus has the keyboard when no handler runs and
\* no control request waits to be routed, for every set of windows and panes and
\* every order of events.
THEOREM FocusStatusAgreesSafe == Spec => []FocusStatusAgrees
<1>1. Listed(h) /\ FocusInv => FocusStatusAgrees
  <2> DEFINE k == h.kbd
             p == c.target
  <2> SUFFICES ASSUME Listed(h), FocusInv, todo = <<>>, ~asked, h.ordFocus.target = NoFocus,
                      ~(k # NoWin /\ ~Alive(k) /\ Unrouted(k))
               PROVE  /\ c.target = RoleOf(h, k)
                      /\ p \in Pane /\ Reported(c, p) => ReportedWindow(c, p) = k
    BY DEF FocusStatusAgrees
  <2>1. Agreed(h, life, c) BY SettledRest DEF FocusInv
  <2>2. ~Excused(h, life)
    <3>1. k # NoWin => k \in Window BY DEF FocusInv, Handled, Come
    <3>2. k # NoWin /\ Alive(k) => k \in Living(life) BY DEF Alive, Living
    <3> QED BY <3>1, <3>2 DEF Excused, Stranded, Unrouted
  <2>3. c.target = Role(h, k) /\ Seen(h, c, k) BY <2>1, <2>2 DEF Agreed
  <2>4. RoleOf(h, k) = Role(h, k) BY RoleOfIs
  <2>5. ASSUME p \in Pane, Reported(c, p) PROVE ReportedWindow(c, p) = k
    <3>1. Grouped(c, p) BY <2>5 DEF Reported, Grouped
    <3>2. ~Detaches(todo, p) BY DEF Detaches
    <3>3. h.root[p] # NoWin BY <2>5, <3>1, <3>2 DEF FocusInv, Groups, GroupHeld
    <3>4. GroupWin(c, p) = k BY <2>3, <2>5, <3>1, <3>3 DEF Seen
    <3> QED BY <3>4 DEF ReportedWindow, GroupWin
  <2> QED BY <2>3, <2>4, <2>5
<1> QED BY <1>1, FocusInvHolds, ListsHoldTheirKind, PTL

-----------------------------------------------------------------------------
(* The window that was clicked.  It gets the keyboard at the end of the    *)
(* click, or target, pane and ordinary focus name it, so that the next     *)
(* route brings the keyboard to it; nothing on the agenda leads elsewhere. *)

\* A popup that is not routed with a pane; the window that gets its keys
Orphan(s, w) == KindOf[w] = "popup" /\ (Owner(w) \in Pane => s.root[Owner(w)] = NoWin)
Claims(s, w) == Orphan(s, w) => ParentOf[w] \in {s.main, s.overlay}
KeysOf(s, w) == s.kbd = IF Orphan(s, w) THEN ParentOf[w] ELSE w

Ready(s, w)   == Role(s, w) \in Pane => CanFocus(s, Role(s, w), w)
InFront(s, w) == Role(s, w) \in Pane => s.focused[Role(s, w)] = w
Lone(s, w)    == s.ordFocus.target = NoFocus /\ (w \in Range(s.ordinary) => s.ordFocus.win = w)

Clicked(w) == Cons(Note(w, TRUE), Cons(Focus(w), <<>>))

\* The handler of the click is under way
Pressing(s, w, q) ==
  /\ Ready(s, w)
  /\ (w \in Range(s.ordinary) /\ s.kbd # w) \/ Lone(s, w)
  /\ q \in {Cons(Clear, Clicked(w)), Clicked(w)} \/ (q = Cons(Focus(w), <<>>) /\ InFront(s, w))

\* A step that does not lead away from window w, whose role is r
Harmless(r, w, e) ==
  /\ e.op \notin {"focus", "clear"}
  /\ e.op \in {"told", "write"} => e.t = r
  /\ e.op = "note" => e.win = w
  /\ e.op = "fallback" => e.pane # r
  /\ e.op = "mapped" => Owner(e.win) # r
  /\ e.op = "drop" => Owner(e.win) # Owner(w)

Keyless(q) == \A e \in Range(q) : e.op # "key"

\* The click is done
Aimed(s, x, w, q) ==
  /\ Ready(s, w) /\ InFront(s, w) /\ Lone(s, w)
  /\ x.target = Role(s, w) \/ At(q, "told")
  /\ \A e \in Range(q) : Harmless(Role(s, w), w, e)
  /\ Rerouted(q) \/ Keyless(q) \/ KeysOf(s, w)

Clicks(s, l, x, q, a, w) ==
  w # NoWin =>
    /\ ~a /\ ~x.shell /\ w \in Window
    /\ KindOf[w] = "popup" => ParentOf[w] \in Come(l)
    /\ Claims(s, w) => w \in Listing(s) /\ (Pressing(s, w, q) \/ Aimed(s, x, w, q))

\* A dialog's pane has a window, a popup's toplevel has come
Rooted(s, l) ==
  /\ \A d \in Range(s.dialogs) : s.root[PaneOf[d]] # NoWin
  /\ \A q \in Range(s.popups) : ParentOf[q] \in Come(l)

LEMMA ClaimsSame ==
  ASSUME NEW s, NEW t, t.root = s.root, t.main = s.main, t.overlay = s.overlay
  PROVE  \A w : (Orphan(t, w) <=> Orphan(s, w)) /\ (Claims(t, w) <=> Claims(s, w))
BY DEF Orphan, Claims

LEMMA AimedSame ==
  ASSUME NEW s, NEW t, NEW x, NEW y, NEW w, NEW q, NEW r, Aimed(s, x, w, q),
         Role(t, w) = Role(s, w),
         Role(s, w) \in Pane => CanFocus(t, Role(s, w), w) /\ t.focused[Role(s, w)] = w,
         t.ordFocus = s.ordFocus, w \in Range(t.ordinary) => w \in Range(s.ordinary),
         y.target = Role(s, w),
         \A e \in Range(r) : Harmless(Role(s, w), w, e),
         Rerouted(r) \/ Keyless(r) \/ KeysOf(t, w)
  PROVE  Aimed(t, y, w, r)
BY DEF Aimed, Ready, InFront, Lone

\* No step but the end of a toplevel's popups takes a window from the lists
LEMMA StepPlaces ==
  ASSUME Sane, Step, NEW w \in Listing(h), Now = "drop" => Owner(Head(todo).win) # Owner(w)
  PROVE  /\ w \in Listing(h') /\ Role(h', w) = Role(h, w)
         /\ h'.root = h.root /\ h'.main = h.main /\ h'.overlay = h.overlay /\ h'.ordinary = h.ordinary
         /\ h'.mapped = h.mapped => \A p : CanFocus(h, p, w) => CanFocus(h', p, w)
<1>0. todo # <<>> BY DEF Step
<1>1. Memory(h) BY <1>0, SettleTail
<1>2. CASE ~StepDropPopups
  <2>1. SameLists(h, h') BY <1>2, StepSame DEF Sane
  <2> QED BY <2>1, SameRoles DEF SameLists
<1>3. CASE StepDropPopups
  <2>1. /\ h'.main = h.main /\ h'.overlay = h.overlay /\ h'.root = h.root /\ h'.dialogs = h.dialogs
        /\ h'.ordinary = h.ordinary
    <3>1. Changed(h, h', {"popups"}) BY <1>3, StepSame DEF Sane
    <3> QED BY <1>1, <3>1, ChangedParts DEF Sane
  <2>2. Range(h'.popups) = {q \in Range(h.popups) : ParentOf[q] # Head(todo).win}
    BY <1>1, <1>3, DropEffect DEF Sane
  <2>3. w \in Range(h.popups) => w \in Range(h'.popups)
    <3>1. SUFFICES ASSUME w \in Range(h.popups) PROVE ParentOf[w] # Head(todo).win BY <2>2
    <3>2. w \in Window /\ KindOf[w] = "popup" BY <3>1, PlacedWindows DEF Sane, OfKind
    <3>3. Owner(w) = Owner(ParentOf[w]) BY <3>2, OwnerKinds
    <3> QED BY <1>3, <3>3 DEF StepDropPopups
  <2>4. w \in Placed(h') <=> w \in Placed(h) BY <2>1, <2>2, <2>3 DEF Placed
  <2>5. w \in Listing(h') /\ Role(h', w) = Role(h, w) BY <2>1, <2>4 DEF Listing, Role
  <2>6. \A p : w \in Members(h, p) => w \in Members(h', p) BY <2>1, <2>3 DEF Members
  <2> QED BY <2>1, <2>5, <2>6 DEF CanFocus
<1> QED BY <1>2, <1>3

\* What a step makes of the target and of the shell
LEMMA StepTargets ==
  ASSUME Sane, Step, Now # "toggle"
  PROVE  /\ ~c.shell => ~c'.shell
         /\ Now \notin {"told", "write", "note", "clear"} => c'.target = c.target
         /\ Now \in {"told", "write"} => c'.target = Head(todo).t
<1>0. todo # <<>> BY DEF Step
<1>1. Shaped(c) /\ Fit(h, life, Head(todo)) BY <1>0, SettleTail
<1>2. {"target", "shell"} \subseteq DOMAIN c BY <1>1 DEF Shaped, StateFields
<1>3. CASE StepTold \/ StepWrite
  BY <1>2, <1>3 DEF StepTold, StepWrite
<1>4. CASE StepRoute \/ StepFocus \/ StepSync \/ StepMapped \/ StepFallback \/ StepDropPopups \/ StepStatus \/ StepKey
  <2>1. c' = c /\ Now \notin {"told", "write"}
    BY <1>4, Zenon DEF StepRoute, StepFocus, StepSync, StepMapped, StepFallback, StepDropPopups, StepStatus, StepKey,
           outside
  <2> QED BY <2>1
<1>5. CASE StepNote
  <2>1. c'.shell = c.shell
    <3> DEFINE w == Head(todo).win
               p == Owner(w)
    <3>1. CASE p \in Pane /\ InTree(h, p, w)
      <4>1. PICK x : /\ Shaped(x) /\ x.panes = c.panes /\ x.target = p /\ x.shell = c.shell
                     /\ c' = GroupFocused(x, p, w, Members(h, p))
        BY <1>5, <3>1, NoteGroups DEF Sane
      <4>2. GroupShaped(c) BY DEF Sane, Groups
      <4>3. GroupShaped(x) BY <4>1, <4>2 DEF GroupShaped, Grouped, Shows
      <4> QED BY <3>1, <4>1, <4>3, GroupFocusedRest
    <3>2. CASE ~(p \in Pane /\ InTree(h, p, w)) BY <1>5, <3>2, NoteGroups DEF Sane
    <3> QED BY <3>1, <3>2
  <2> QED BY <1>5, <2>1 DEF StepNote
<1>6. CASE StepGroup
  <2>1. Head(todo).pane \in Pane BY <1>1, <1>6 DEF Fit, StepGroup, Now
  <2>2. GroupShaped(c) BY DEF Sane, Groups
  <2>3. c'.target = c.target /\ c'.shell = c.shell
    BY <1>1, <1>6, <2>1, <2>2, GroupFocusedRest DEF StepGroup
  <2> QED BY <1>6, <2>3 DEF StepGroup
<1>7. CASE StepBridge
  <2>0. Now \in {"attach", "observe", "detach", "clear"} BY <1>7 DEF StepBridge
  <2>1. CASE Now = "clear" BY <1>2, <1>7, <2>1 DEF StepBridge
  <2>2. CASE Now = "attach"
    <3>1. c' = Attached(c, Head(todo).pane) /\ Head(todo).pane \in Pane
      BY <1>1, <1>7, <2>2 DEF StepBridge, Fit, Now
    <3>2. FocusKept(c, c') BY <1>1, <3>1, AttachedFocus
    <3> QED BY <2>2, <3>2 DEF FocusKept
  <2>3. CASE Now = "detach"
    <3>1. c' = Detached(c, Head(todo).pane) /\ Head(todo).pane \in Pane
      BY <1>1, <1>7, <2>3 DEF StepBridge, Fit, Now
    <3>2. FocusKept(c, c') BY <1>1, <3>1, AttachedFocus
    <3> QED BY <2>3, <3>2 DEF FocusKept
  <2>4. CASE Now = "observe"
    <3>1. c' = GroupObserved(c, Head(todo).pane, Head(todo).win) BY <1>7, <2>4 DEF StepBridge
    <3>2. c'.target = c.target /\ c'.shell = c.shell BY <1>2, <3>1 DEF GroupObserved
    <3> QED BY <2>4, <3>2
  <2> QED BY <2>0, <2>1, <2>2, <2>3, <2>4
<1>8. ~StepToggle BY DEF StepToggle
<1> QED BY <1>3, <1>4, <1>5, <1>6, <1>7, <1>8 DEF Step

\* While the click is done no step adds to the agenda what leads elsewhere
LEMMA AimedMoves ==
  ASSUME Sane, Step, Now \notin {"route", "toggle"}, NEW w, Aimed(h, c, w, todo)
  PROVE  /\ Harmless(Role(h, w), w, Head(todo)) /\ Now \notin {"focus", "clear"}
         /\ Now # "told" => c.target = Role(h, w)
         /\ todo' = Next1 \/ \E g : g.op = "group" /\ todo' = Cons(g, Next1)
         /\ Role(h, w) \in Pane => h'.focused[Role(h, w)] = w
<1> DEFINE r == Role(h, w)
           e == Head(todo)
           next == Next1
<1>0. todo # <<>> BY DEF Step
<1>1. IsList(todo) /\ IsList(next) /\ Memory(h) /\ Fit(h, life, e) /\ \A op : At(todo, op) <=> Now = op
  BY <1>0, SettleTail
<1>2. e \in Range(todo) BY <1>0, <1>1, TailList
<1>3. Harmless(r, w, e) /\ Now \notin {"focus", "clear"} BY <1>2 DEF Aimed, Harmless, Now
<1>4. Now # "told" => c.target = r BY <1>1 DEF Aimed
<1>5. r \in Pane => h.focused[r] = w BY DEF Aimed, InFront
<1>6. CASE StepTold \/ StepWrite \/ StepKey \/ StepGroup \/ StepBridge \/ StepStatus
  <2>1. h' = h /\ todo' = next
    BY <1>6 DEF StepTold, StepWrite, StepKey, StepGroup, StepBridge, StepStatus
  <2> QED BY <1>3, <1>4, <1>5, <2>1
<1>7. CASE StepNote
  <2>0. e.win = w BY <1>3, <1>7 DEF StepNote, Harmless, Now
  <2>1. h' = Noted(h, w) /\ todo' = next BY <1>7, <2>0 DEF StepNote
  <2>2. r \in Pane => h'.focused[r] = w
    <3>1. SUFFICES ASSUME r \in Pane PROVE h'.focused[r] = w OBVIOUS
    <3>2. Owner(w) = r /\ w \in Placed(h)
      <4>1. NoFocus \notin Pane \cup Tops BY PlacedRole DEF Sane
      <4> QED BY <3>1, <4>1 DEF Role
    <3>3. CASE InTree(h, r, w) BY <1>1, <2>1, <3>1, <3>2, <3>3, NotedFocus DEF Sane
    <3>4. CASE ~InTree(h, r, w)
      <4>1. h' = h BY <1>1, <2>1, <3>2, <3>4, NotedFocus DEF Sane
      <4> QED BY <1>5, <3>1, <4>1
    <3> QED BY <3>3, <3>4
  <2> QED BY <1>3, <1>4, <2>1, <2>2
<1>8. CASE StepSync
  <2>1. PICK p, v : h' = h /\ todo' = <<[op |-> "group", pane |-> p, win |-> v]>> \o next BY <1>8 DEF StepSync
  <2> DEFINE g == [op |-> "group", pane |-> p, win |-> v]
  <2>2. h' = h /\ todo' = <<g>> \o next /\ g.op = "group" BY <2>1
  <2> HIDE DEF next, g
  <2>3. todo' = Cons(g, next) BY <1>1, <2>2, ConsForms
  <2>4. \E y : y.op = "group" /\ todo' = Cons(y, next) BY <2>2, <2>3
  <2> QED BY <1>3, <1>4, <1>5, <2>2, <2>4 DEF next
<1>9. CASE StepMapped
  <2>1. Now = "mapped" BY <1>9 DEF StepMapped
  <2>2. c.target # Owner(e.win) BY <1>3, <1>4, <2>1 DEF Harmless, Now
  <2>3. h' = h /\ todo' = <<>> \o next BY <1>9, <2>2 DEF StepMapped
  <2> HIDE DEF next
  <2>4. todo' = next BY <1>1, <2>3, ConsForms
  <2> QED BY <1>3, <1>4, <1>5, <2>3, <2>4 DEF next
<1>10. CASE StepFallback
  <2>1. Now = "fallback" BY <1>10 DEF StepFallback
  <2>2. c.target # e.pane BY <1>3, <1>4, <2>1 DEF Harmless, Now
  <2>3. h' = h /\ todo' = next BY <1>10, <2>2 DEF StepFallback
  <2> QED BY <1>3, <1>4, <1>5, <2>3
<1>11. CASE StepDropPopups
  <2>1. Changed(h, h', {"popups"}) BY <1>11, StepSame DEF Sane
  <2>2. h'.focused = h.focused BY <1>1, <2>1, ChangedParts DEF Sane
  <2>3. todo' = next BY <1>11 DEF StepDropPopups
  <2> QED BY <1>3, <1>4, <1>5, <2>2, <2>3
<1>12. ~StepRoute /\ ~StepFocus /\ ~StepToggle BY <1>3 DEF StepRoute, StepFocus, StepToggle
<1> QED BY <1>6, <1>7, <1>8, <1>9, <1>10, <1>11, <1>12 DEF Step

LEMMA AimedPlain ==
  ASSUME Sane, Step, Now \notin {"route", "toggle"}, NEW w \in Listing(h), Aimed(h, c, w, todo)
  PROVE  Aimed(h', c', w, todo') /\ w \in Listing(h')
<1> DEFINE r == Role(h, w)
           e == Head(todo)
           next == Next1
<1>0. todo # <<>> BY DEF Step
<1>1. /\ IsList(todo) /\ IsList(next) /\ Listed(h) /\ Handled(h, life, todo)
      /\ Range(todo) = {e} \cup Range(next)
  <2>1. IsList(todo) /\ IsList(next) BY <1>0, SettleTail
  <2> QED BY <1>0, <2>1, TailList DEF Sane, Next1
<1>2. /\ Harmless(r, w, e) /\ Now \notin {"focus", "clear"}
      /\ Now # "told" => c.target = r
      /\ todo' = next \/ \E g : g.op = "group" /\ todo' = Cons(g, next)
      /\ r \in Pane => h'.focused[r] = w
  BY AimedMoves
<1>3. h'.kbd = h.kbd /\ h'.ordFocus = h.ordFocus /\ h'.ordinary = h.ordinary /\ h'.mapped = h.mapped
  BY <1>1, <1>2, StepPlain
<1>4. /\ w \in Listing(h') /\ Role(h', w) = r
      /\ h'.root = h.root /\ h'.main = h.main /\ h'.overlay = h.overlay
      /\ \A p : CanFocus(h, p, w) => CanFocus(h', p, w)
  <2>1. Now = "drop" => Owner(e.win) # Owner(w) BY <1>2 DEF Harmless, Now
  <2> QED BY <1>3, <2>1, StepPlaces
<1>5. c'.target = r
  <2>1. CASE Now \in {"told", "write"}
    <3>1. c'.target = e.t BY <2>1, StepTargets
    <3> QED BY <1>2, <2>1, <3>1 DEF Harmless, Now
  <2>2. CASE Now = "note"
    <3>1. StepNote
      BY <2>2, Zenon DEF Step, StepRoute, StepTold, StepWrite, StepNote, StepFocus, StepSync, StepGroup, StepMapped,
             StepFallback, StepDropPopups, StepStatus, StepBridge, StepKey, StepToggle
    <3>2. e.win = w BY <1>2, <2>2 DEF Harmless, Now
    <3>3. c'.target = c.target \/ c'.target = Role(h', w) BY <1>0, <3>1, <3>2, NoteSees
    <3> QED BY <1>2, <1>4, <2>2, <3>3
  <2>3. CASE Now \notin {"told", "write", "note"}
    <3>1. c'.target = c.target BY <1>2, <2>3, StepTargets
    <3> QED BY <1>2, <2>3, <3>1
  <2> QED BY <2>1, <2>2, <2>3
<1>6. \A x \in Range(todo') : Harmless(r, w, x) /\ (x.op = "key" => x \in Range(todo))
  <2>1. \A x \in Range(todo) : Harmless(r, w, x) BY DEF Aimed
  <2>2. CASE todo' = next BY <1>1, <2>1, <2>2
  <2>3. ASSUME NEW g, g.op = "group", todo' = Cons(g, next)
        PROVE  \A x \in Range(todo') : Harmless(r, w, x) /\ (x.op = "key" => x \in Range(todo))
    <3>1. Range(todo') = {g} \cup Range(next) BY <1>1, <2>3, ConsList
    <3>2. Harmless(r, w, g) BY <2>3 DEF Harmless
    <3> QED BY <1>1, <2>1, <2>3, <3>1, <3>2
  <2> QED BY <1>2, <2>2, <2>3
<1>7. Rerouted(todo') \/ Keyless(todo') \/ KeysOf(h', w)
  <2>1. Rerouted(todo) => Rerouted(todo') BY StillRerouted
  <2>2. Keyless(todo) => Keyless(todo') BY <1>6 DEF Keyless
  <2>3. KeysOf(h, w) => KeysOf(h', w) BY <1>3, <1>4, ClaimsSame DEF KeysOf
  <2> QED BY <2>1, <2>2, <2>3 DEF Aimed
<1>8. r \in Pane => CanFocus(h', r, w) BY <1>4 DEF Aimed, Ready
<1> HIDE DEF r
<1> QED BY <1>2, <1>3, <1>4, <1>5, <1>6, <1>7, <1>8, AimedSame DEF r

\* The roles of the top windows are no panes; a window of a pane that claims the
\* keyboard is one whose pane has a window
LEMMA ClaimsPane ==
  ASSUME NEW s, Listed(s), NEW l, Rooted(s, l), NEW w \in Placed(s), Claims(s, w), Owner(w) \in Pane
  PROVE  s.root[Owner(w)] # NoWin /\ ~Orphan(s, w) /\ Keyed(w) = w
<1>0. Pane \cap Tops = {} BY PresentationAssumption DEF Tops
<1>1. w \in Window /\ w # NoWin BY PlacedRole DEF Listing
<1>2. Owner(w) \notin Tops BY <1>0
<1>3. ~Orphan(s, w)
  <2>1. SUFFICES ASSUME KindOf[w] = "popup", ParentOf[w] \in {s.main, s.overlay} PROVE FALSE
    BY DEF Orphan, Claims
  <2>2. Owner(w) = Owner(ParentOf[w]) /\ ParentOf[w] \in Window BY <1>1, <2>1, OwnerKinds
  <2>3. ParentOf[w] # NoWin BY <2>2, PresentationAssumption
  <2>4. Owner(ParentOf[w]) \in Tops BY <2>1, <2>3, PlacedWindows DEF Tops
  <2> QED BY <1>2, <2>2, <2>4
<1>4. s.root[Owner(w)] # NoWin
  <2>1. CASE w \in Range(s.dialogs)
    <3>1. KindOf[w] = "dialog" BY <2>1, PlacedWindows DEF OfKind
    <3>2. Owner(w) = PaneOf[w] BY <1>1, <3>1, OwnerKinds
    <3> QED BY <2>1, <3>2 DEF Rooted
  <2>2. CASE w \in Range(s.popups)
    <3>1. KindOf[w] = "popup" BY <2>2, PlacedWindows DEF OfKind
    <3> QED BY <1>3, <3>1 DEF Orphan
  <2>3. CASE w = s.main \/ w = s.overlay
    <3>1. Owner(w) \in Tops BY <2>3, PlacedTop DEF Tops
    <3> QED BY <1>2, <3>1
  <2>4. ASSUME NEW p \in Pane, w = s.root[p] PROVE s.root[Owner(w)] # NoWin
    BY <1>1, <2>4, PlacedWindows
  <2> QED BY <2>1, <2>2, <2>3, <2>4 DEF Placed
<1> QED BY <1>2, <1>3, <1>4 DEF Keyed

\* The window that gets the keys of one that claims the keyboard
LEMMA KeyedClaims ==
  ASSUME NEW s, Listed(s), NEW l, Rooted(s, l), NEW w \in Placed(s), Claims(s, w)
  PROVE  Keyed(w) = IF Orphan(s, w) THEN ParentOf[w] ELSE w
<1>0. w \in Window /\ KindOf[w] # "ordinary" /\ Owner(w) \in Pane \cup Tops BY PlacedRole
<1>1. CASE Owner(w) \in Pane BY <1>1, ClaimsPane
<1>2. CASE Owner(w) \notin Pane
  <2>1. Orphan(s, w) <=> KindOf[w] = "popup" BY <1>2 DEF Orphan
  <2> QED BY <1>0, <1>2, <2>1 DEF Keyed
<1> QED BY <1>1, <1>2

LEMMA KeyedPopup ==
  ASSUME NEW s, Listed(s), NEW w \in Range(s.popups), Claims(s, w), Owner(w) \in Tops
  PROVE  ParentOf[w] \in {s.main, s.overlay}
<1>0. Pane \cap Tops = {} BY PresentationAssumption DEF Tops
<1>1. KindOf[w] = "popup" BY PlacedWindows DEF OfKind
<1> QED BY <1>0, <1>1 DEF Claims, Orphan

\* Focus is routed after the click: the keyboard goes to the window, if it has it
\* not already, and the agenda names no other
LEMMA AimedRoute ==
  ASSUME Sane, todo # <<>>, StepRoute, Rooted(h, life), ~c.shell,
         NEW w \in Listing(h), Claims(h, w), Aimed(h, c, w, todo)
  PROVE  Aimed(h', c', w, todo') /\ w \in Listing(h')
<1> DEFINE r == Role(h, w)
           next == Next1
           k == Keyed(w)
<1>0. /\ IsList(todo) /\ IsList(next) /\ Memory(h) /\ Listed(h) /\ h.main \notin Range(h.ordinary)
      /\ c' = c /\ RouteFocus(next) /\ c.target = r
  <2>1. IsList(todo) /\ IsList(next) /\ Memory(h) /\ (At(todo, "told") <=> Now = "told")
        /\ h.main \notin Range(h.ordinary)
    BY SettleTail
  <2>2. c' = c /\ RouteFocus(next) /\ Now # "told" BY DEF StepRoute
  <2> QED BY <2>1, <2>2 DEF Aimed, Sane
<1>1. \A x \in Range(next) : Harmless(r, w, x)
  <2>1. Range(next) \subseteq Range(todo) BY <1>0, TailList DEF Next1
  <2> QED BY <2>1 DEF Aimed
<1>2. w # NoWin /\ w \in Window BY <1>0, PlacedRole
<1>3. SameLists(h, h') /\ h'.mapped = h.mapped BY <1>0, RouteOutcome
<1>4. /\ w \in Listing(h') /\ Role(h', w) = r /\ \A p : CanFocus(h', p, w) <=> CanFocus(h, p, w)
      /\ Range(h'.ordinary) = Range(h.ordinary) /\ (Orphan(h', w) <=> Orphan(h, w))
  <2>1. w \in Listing(h') /\ Role(h', w) = r /\ \A p : CanFocus(h', p, w) <=> CanFocus(h, p, w)
    BY <1>3, SameRoles
  <2>2. Range(h'.ordinary) = Range(h.ordinary) /\ h'.root = h.root BY <1>3 DEF SameLists
  <2> QED BY <2>1, <2>2 DEF Orphan
<1>5. /\ h'.focused = h.focused
      /\ KeysOf(h', w)
      /\ Lone(h', w)
      /\ \A x \in Range(todo') : Harmless(r, w, x)
  <2>1. CASE w \in Range(h.ordinary)
    <3>1. r = NoFocus BY <1>0, <2>1, OrdinaryRole
    <3>2. h.ordFocus.win = w /\ h.ordFocus.target = NoFocus BY <2>1 DEF Aimed, Lone
    <3>3. KeepsOrdinary
      <4>1. h.ordFocus # NoOrd BY <1>2, <3>2 DEF NoOrd
      <4> QED BY <1>0, <2>1, <3>1, <3>2, <4>1 DEF KeepsOrdinary
    <3>4. /\ h'.kbd = w /\ h'.focused = h.focused
          /\ \/ h' = h /\ todo' = next
             \/ todo' = Cons(Told(Role(h, w)), next) /\ h'.ordFocus = [win |-> w, target |-> NoFocus]
      BY <1>0, <3>2, <3>3, RouteOutcome
    <3>5. Lone(h', w)
      <4>1. h'.ordFocus = h.ordFocus \/ h'.ordFocus = [win |-> w, target |-> NoFocus] BY <3>4
      <4> QED BY <3>2, <4>1 DEF Lone
    <3>6. ~Orphan(h', w)
      <4>1. KindOf[w] # "popup" BY <1>0, <1>2, <2>1, KindsApart
      <4> QED BY <4>1 DEF Orphan
    <3>7. KeysOf(h', w) BY <3>4, <3>6 DEF KeysOf
    <3>8. \A x \in Range(todo') : Harmless(r, w, x)
      <4>1. Range(Cons(Told(r), next)) = {Told(r)} \cup Range(next) BY <1>0, ConsList
      <4>2. Harmless(r, w, Told(r)) BY DEF Harmless, Told
      <4> QED BY <1>1, <3>4, <4>1, <4>2
    <3> QED BY <3>4, <3>5, <3>7, <3>8
  <2>2. CASE w \notin Range(h.ordinary)
    <3> DEFINE s == RouteStart
               f == Resolved(s)
    <3>1. w \in Placed(h) /\ r = Owner(w) /\ r # NoFocus
      <4>1. w \in Placed(h) BY <2>2 DEF Listing
      <4>2. r # NoFocus BY <1>0, <4>1, PlacedRole
      <4> QED BY <4>1, <4>2 DEF Role
    <3>2. ~KeepsOrdinary
      <4>1. h.ordFocus.target = NoFocus BY DEF Aimed, Lone
      <4> QED BY <1>0, <3>1, <4>1 DEF KeepsOrdinary
    <3>3. /\ Listed(s) /\ Memory(s) /\ SameLists(h, s) /\ s.mapped = h.mapped /\ s.focused = h.focused
      BY <1>0, RouteStartParts
    <3>4. f.t = c.target /\ f.win = k /\ f.h = s
      <4> HIDE DEF s
      <4>1. w \in Placed(s) /\ \A p : CanFocus(s, p, w) <=> CanFocus(h, p, w) BY <3>1, <3>3, SameRoles
      <4>2. Owner(w) \in Pane => CanFocus(s, Owner(w), w) /\ s.focused[Owner(w)] = w
        BY <3>1, <3>3, <4>1 DEF Aimed, Ready, InFront
      <4>3. w \in Range(s.popups) /\ Owner(w) \in Tops => ParentOf[w] \in {s.main, s.overlay}
        BY <1>0, <3>3, KeyedPopup DEF SameLists
      <4>4. c.target = Owner(w) BY <1>0, <3>1
      <4> HIDE DEF k, r
      <4> QED BY <3>3, <4>1, <4>2, <4>3, <4>4, ResolvedTarget DEF k
    <3>5. /\ h'.kbd = f.win /\ h'.focused = f.h.focused /\ h'.ordFocus.target = NoFocus
          /\ todo' \in {RouteLeft(f.t, f.win, next), Cons(Told(f.t), RouteLeft(f.t, f.win, next))}
      BY <1>0, <3>2, RouteOutcome
    <3> HIDE DEF s, f
    <3>6. h'.kbd = k /\ h'.focused = h.focused /\ h'.ordFocus.target = NoFocus
      BY <3>3, <3>4, <3>5
    <3>7. Lone(h', w) BY <1>4, <2>2, <3>6 DEF Lone
    <3>8. KeysOf(h', w) BY <1>0, <1>4, <3>1, <3>6, KeyedClaims DEF KeysOf
    <3>9. \A x \in Range(todo') : Harmless(r, w, x)
      <4> DEFINE q == RouteLeft(r, k, next)
                 n == Note(w, FALSE)
      <4>1. q = IF r \in Pane THEN Cons(n, next) ELSE next
        <5>1. RouteWrites(r, next) = next BY <1>0 DEF RouteWrites
        <5>2. r \in Pane => k = w BY <1>0, <3>1, ClaimsPane
        <5> QED BY <5>1, <5>2 DEF RouteLeft
      <4>2. Harmless(r, w, n) /\ Harmless(r, w, Told(r)) BY DEF Harmless, Told, Note
      <4>3. todo' = q \/ todo' = Cons(Told(r), q) BY <1>0, <3>4, <3>5
      <4> HIDE DEF n, q
      <4>4. IsList(q) /\ \A x \in Range(q) : Harmless(r, w, x)
        <5>1. IsList(Cons(n, next)) /\ Range(Cons(n, next)) = {n} \cup Range(next) BY <1>0, ConsList
        <5> QED BY <1>0, <1>1, <4>1, <4>2, <5>1
      <4>5. Range(Cons(Told(r), q)) = {Told(r)} \cup Range(q) BY <4>4, ConsList
      <4> QED BY <4>2, <4>3, <4>4, <4>5
    <3> QED BY <3>6, <3>7, <3>8, <3>9
  <2> QED BY <2>1, <2>2
<1>6. Ready(h', w) /\ InFront(h', w) BY <1>4, <1>5 DEF Aimed, Ready, InFront
<1> QED BY <1>0, <1>4, <1>5, <1>6 DEF Aimed

LEMMA StepTops ==
  ASSUME Sane, Step
  PROVE  /\ h'.root = h.root /\ h'.main = h.main /\ h'.overlay = h.overlay /\ h'.dialogs = h.dialogs
         /\ Range(h'.popups) \subseteq Range(h.popups)
<1>0. todo # <<>> BY DEF Step
<1>1. Memory(h) BY <1>0, SettleTail
<1>2. CASE ~StepDropPopups
  <2>1. SameLists(h, h') BY <1>2, StepSame DEF Sane
  <2> QED BY <2>1 DEF SameLists
<1>3. CASE StepDropPopups
  <2>1. Changed(h, h', {"popups"}) BY <1>3, StepSame DEF Sane
  <2>2. h'.root = h.root /\ h'.main = h.main /\ h'.overlay = h.overlay /\ h'.dialogs = h.dialogs
    BY <1>1, <2>1, ChangedParts DEF Sane
  <2>3. Range(h'.popups) \subseteq Range(h.popups) BY <1>1, <1>3, DropEffect DEF Sane
  <2> QED BY <2>2, <2>3
<1> QED BY <1>2, <1>3

\* The steps of a click: the pane gives the window its focus before the window
\* gets the keyboard, and a window that has the keyboard has the target too
LEMMA PressingStep ==
  ASSUME Sane, Settled(h, life, c, todo, asked), Rooted(h, life), Step, ~asked,
         NEW w \in Listing(h), Claims(h, w), Pressing(h, w, todo)
  PROVE  (Pressing(h', w, todo') \/ Aimed(h', c', w, todo')) /\ w \in Listing(h')
<1> DEFINE r == Role(h, w)
           last == Cons(Focus(w), <<>>)
<1>0. todo # <<>> BY DEF Step
<1>1. Memory(h) /\ Listed(h) /\ h.main \notin Range(h.ordinary) BY <1>0, SettleTail DEF Sane
<1>2. IsList(last) /\ Head(last) = Focus(w) /\ Tail(last) = <<>> /\ last # <<>> BY EmptyList, ConsList
<1>3. /\ IsList(Clicked(w)) /\ Head(Clicked(w)) = Note(w, TRUE) /\ Tail(Clicked(w)) = last
      /\ Head(Cons(Clear, Clicked(w))) = Clear /\ Tail(Cons(Clear, Clicked(w))) = Clicked(w)
  <2>1. IsList(Clicked(w)) /\ Head(Clicked(w)) = Note(w, TRUE) /\ Tail(Clicked(w)) = last
    BY <1>2, ConsList DEF Clicked
  <2> QED BY <2>1, ConsList
<1>4. w \in Window /\ w # NoWin BY <1>1, PlacedRole
<1>5. CASE todo = Cons(Clear, Clicked(w))
  <2>1. Now = "clear" /\ Next1 = Clicked(w) BY <1>3, <1>5 DEF Now, Next1, Clear
  <2>2. StepBridge
    BY <2>1, Zenon DEF Step, StepRoute, StepTold, StepWrite, StepNote, StepFocus, StepSync, StepGroup, StepMapped,
           StepFallback, StepDropPopups, StepStatus, StepBridge, StepKey, StepToggle
  <2>3. h' = h /\ todo' = Clicked(w) BY <2>1, <2>2 DEF StepBridge
  <2> QED BY <2>3 DEF Pressing
<1>6. CASE todo = Clicked(w)
  <2>1. Now = "note" /\ Next1 = last /\ Head(todo).win = w BY <1>3, <1>6 DEF Now, Next1, Note
  <2>2. StepNote
    BY <2>1, Zenon DEF Step, StepRoute, StepTold, StepWrite, StepNote, StepFocus, StepSync, StepGroup, StepMapped,
           StepFallback, StepDropPopups, StepStatus, StepBridge, StepKey, StepToggle
  <2>3. h'.kbd = h.kbd /\ h'.ordFocus = h.ordFocus /\ h'.mapped = h.mapped
    <3>1. Handled(h, life, todo) BY DEF Sane
    <3> QED BY <1>1, <2>1, <3>1, StepPlain
  <2>4. /\ w \in Listing(h') /\ Role(h', w) = r /\ h'.root = h.root /\ h'.ordinary = h.ordinary
        /\ \A p : CanFocus(h, p, w) => CanFocus(h', p, w)
    BY <2>1, <2>3, StepPlaces
  <2>5. todo' = last BY <2>1, <2>2 DEF StepNote
  <2>6. InFront(h', w)
    <3>1. SUFFICES ASSUME r \in Pane PROVE h'.focused[r] = w BY <2>4 DEF InFront
    <3>2. w \in Placed(h) /\ Owner(w) = r
      <4>1. NoFocus \notin Pane \cup Tops BY <1>1, PlacedRole
      <4> QED BY <3>1, <4>1 DEF Role
    <3>3. h.root[r] # NoWin BY <1>1, <3>1, <3>2, ClaimsPane
    <3>4. Seen(h', c', w) BY <1>0, <2>1, <2>2, NoteSees
    <3> QED BY <2>4, <3>1, <3>3, <3>4 DEF Seen
  <2>7. Ready(h', w) BY <2>4 DEF Pressing, Ready
  <2>8. (w \in Range(h'.ordinary) /\ h'.kbd # w) \/ Lone(h', w) BY <2>3, <2>4 DEF Pressing, Lone
  <2> QED BY <2>4, <2>5, <2>6, <2>7, <2>8 DEF Pressing
<1>7. CASE todo = last /\ InFront(h, w)
  <2>1. Now = "focus" /\ Next1 = <<>> /\ Head(todo).win = w BY <1>2, <1>7 DEF Now, Next1, Focus
  <2>2. StepFocus
    BY <2>1, Zenon DEF Step, StepRoute, StepTold, StepWrite, StepNote, StepFocus, StepSync, StepGroup, StepMapped,
           StepFallback, StepDropPopups, StepStatus, StepBridge, StepKey, StepToggle
  <2>3. Keyboard(h, w, <<>>) /\ c' = c BY <2>1, <2>2 DEF StepFocus
  <2>4. IsList(<<>>) /\ Range(<<>>) = {} BY EmptyList
  <2>5. /\ SameLists(h, h') /\ h'.mapped = h.mapped /\ h'.focused = h.focused
        /\ h.kbd = w => h' = h /\ todo' = <<>>
        /\ h.kbd # w => /\ todo' = Cons(Told(r), <<>>)
                        /\ h'.ordFocus.target = NoFocus
                        /\ w \in Range(h.ordinary) => h'.ordFocus = [win |-> w, target |-> NoFocus]
    BY <1>1, <2>3, <2>4, KeyboardMoves DEF Told
  <2>6. /\ w \in Listing(h') /\ Role(h', w) = r /\ \A p : CanFocus(h', p, w) <=> CanFocus(h, p, w)
        /\ Range(h'.ordinary) = Range(h.ordinary)
    <3>1. w \in Listing(h') /\ Role(h', w) = r /\ \A p : CanFocus(h', p, w) <=> CanFocus(h, p, w)
      BY <2>5, SameRoles
    <3> QED BY <2>5, <3>1 DEF SameLists
  <2>7. Ready(h', w) /\ InFront(h', w) BY <1>7, <2>5, <2>6 DEF Pressing, Ready, InFront
  <2>8. CASE h.kbd = w
    <3>1. Lone(h, w) BY <2>8 DEF Pressing
    <3>2. c.target = r
      <4>1. /\ \A op : At(todo, op) <=> op = "focus"
            /\ ~Quiet(todo) /\ ~Writes(h, todo)
        <5>1. /\ \A op : At(todo, op) <=> op = "focus"
              /\ ~Quiet(todo)
          BY <1>0, <2>1, SettleTail
        <5> QED BY <5>1 DEF Writes
      <4>2. ~Rerouted(todo)
        <5>1. Range(todo) = {Focus(w)} BY <1>7, <2>4, ConsList
        <5> QED BY <5>1 DEF Rerouted, Focus
      <4>3. Settles(h, life, c, todo) BY <4>2 DEF Settled
      <4>4. Repaired(h, life, c, w) BY <2>1, <4>1, <4>3 DEF Settles
      <4>5. ~Excused(h, life)
        <5>1. h.ordFocus.target = NoFocus BY <3>1 DEF Lone
        <5>2. w \in Living(life) BY DEF Sane, Handled
        <5> QED BY <2>8, <5>1, <5>2 DEF Excused, Stranded
      <4> QED BY <2>8, <4>4, <4>5 DEF Repaired
    <3>3. h' = h /\ todo' = <<>> BY <2>5, <2>8
    <3>4. \A x \in Range(todo') : Harmless(r, w, x) /\ x.op # "key" BY <2>4, <3>3
    <3>5. Keyless(todo') BY <3>4 DEF Keyless
    <3> QED BY <2>3, <2>6, <2>7, <3>1, <3>2, <3>3, <3>4, <3>5 DEF Aimed
  <2>9. CASE h.kbd # w
    <3>1. Lone(h', w) BY <2>5, <2>6, <2>9 DEF Lone
    <3>2. todo' = Cons(Told(r), <<>>) BY <2>5, <2>9
    <3>3. Range(todo') = {Told(r)} /\ At(todo', "told")
      <4>1. /\ Cons(Told(r), <<>>) # <<>> /\ Head(Cons(Told(r), <<>>)) = Told(r)
            /\ Range(Cons(Told(r), <<>>)) = {Told(r)}
        BY <2>4, ConsList
      <4> QED BY <3>2, <4>1 DEF At, Told
    <3>4. \A x \in Range(todo') : Harmless(r, w, x) /\ x.op # "key" BY <3>3 DEF Harmless, Told
    <3>5. Keyless(todo') BY <3>4 DEF Keyless
    <3> QED BY <2>6, <2>7, <3>1, <3>3, <3>4, <3>5 DEF Aimed
  <2> QED BY <2>8, <2>9
<1> QED BY <1>5, <1>6, <1>7 DEF Pressing

LEMMA ClicksStep ==
  ASSUME Sane, Settled(h, life, c, todo, asked), Rooted(h, life), Step,
         Clicks(h, life, c, todo, asked, clicked)
  PROVE  Rooted(h', life') /\ Clicks(h', life', c', todo', asked', clicked')
<1> DEFINE w == clicked
<1>0. todo # <<>> /\ life' = life BY StepAsks DEF Step
<1>1. h'.root = h.root /\ h'.main = h.main /\ h'.overlay = h.overlay
  BY StepTops
<1>2. Rooted(h', life') BY <1>0, StepTops DEF Rooted
<1>3. CASE StepToggle
  <2>1. clicked' = NoWin BY <1>3 DEF StepToggle
  <2> QED BY <1>2, <2>1 DEF Clicks
<1>4. CASE ~StepToggle
  <2>1. clicked' = clicked /\ (asked' = asked \/ ~asked')
    BY <1>4, Zenon DEF Step, StepRoute, StepTold, StepWrite, StepNote, StepFocus, StepSync, StepGroup, StepMapped,
           StepFallback, StepDropPopups, StepStatus, StepBridge, StepKey, StepToggle, outside
  <2>2. Now # "toggle"
    BY <1>4, Zenon DEF Step, StepRoute, StepTold, StepWrite, StepNote, StepFocus, StepSync, StepGroup, StepMapped,
           StepFallback, StepDropPopups, StepStatus, StepBridge, StepKey, StepToggle
  <2>3. ~c.shell => ~c'.shell BY <2>2, StepTargets
  <2>4. SUFFICES ASSUME w # NoWin PROVE Clicks(h', life', c', todo', asked', w)
    BY <1>2, <2>1 DEF Clicks
  <2>5. ~asked /\ ~c.shell /\ w \in Window /\ (KindOf[w] = "popup" => ParentOf[w] \in Come(life))
    BY <2>4 DEF Clicks
  <2>6. ASSUME Claims(h', w)
        PROVE  w \in Listing(h') /\ (Pressing(h', w, todo') \/ Aimed(h', c', w, todo'))
    <3>1. Claims(h, w) BY <1>1, <2>6, ClaimsSame
    <3>2. w \in Listing(h) /\ (Pressing(h, w, todo) \/ Aimed(h, c, w, todo)) BY <2>4, <3>1 DEF Clicks
    <3>3. CASE Pressing(h, w, todo) BY <2>5, <3>1, <3>2, <3>3, PressingStep
    <3>4. CASE Aimed(h, c, w, todo) /\ Now # "route" BY <2>2, <3>2, <3>4, AimedPlain
    <3>5. CASE Aimed(h, c, w, todo) /\ Now = "route"
      <4>1. StepRoute
        BY <3>5, Zenon DEF Step, StepRoute, StepTold, StepWrite, StepNote, StepFocus, StepSync, StepGroup, StepMapped,
               StepFallback, StepDropPopups, StepStatus, StepBridge, StepKey, StepToggle
      <4> QED BY <1>0, <2>5, <3>1, <3>2, <3>5, <4>1, AimedRoute
    <3> QED BY <3>2, <3>3, <3>4, <3>5
  <2> QED BY <1>0, <2>1, <2>3, <2>5, <2>6 DEF Clicks
<1> QED BY <1>3, <1>4

\* What happens when no handler runs leaves the window that was clicked where
\* it was, and nothing on the agenda that leads away from it
Stands(s, t, w) ==
  w \in Listing(t) /\ Role(t, w) = Role(s, w) /\ Ready(t, w) /\ InFront(t, w) /\ Lone(t, w)
Leaves(s, w, q) == (\A e \in Range(q) : Harmless(Role(s, w), w, e)) /\ (Rerouted(q) \/ Keyless(q))

LEMMA CanFocusKept ==
  ASSUME NEW s, NEW t, NEW p, NEW w, CanFocus(s, p, w), t.root[p] = s.root[p],
         w \in Range(s.dialogs) \cup Range(s.popups) => w \in Range(t.dialogs) \cup Range(t.popups),
         w \in s.mapped => w \in t.mapped
  PROVE  CanFocus(t, p, w)
BY DEF CanFocus, Members

LEMMA StandsFrom ==
  ASSUME NEW s, NEW t, NEW w \in Listing(s), Ready(s, w), InFront(s, w), Lone(s, w),
         w \in Placed(t) <=> w \in Placed(s),
         w \in Range(t.ordinary) <=> w \in Range(s.ordinary),
         t.ordFocus = s.ordFocus,
         Role(s, w) \in Pane =>
           /\ t.focused[Role(s, w)] = s.focused[Role(s, w)]
           /\ CanFocus(s, Role(s, w), w) => CanFocus(t, Role(s, w), w)
  PROVE  Stands(s, t, w)
<1>1. w \in Listing(t) /\ Role(t, w) = Role(s, w) BY DEF Listing, Role
<1> QED BY <1>1 DEF Stands, Ready, InFront, Lone

LEMMA LeavesCons ==
  ASSUME NEW s, NEW w, NEW q, IsList(q), Leaves(s, w, q),
         NEW e, Harmless(Role(s, w), w, e), e.op # "key"
  PROVE  Leaves(s, w, Cons(e, q)) /\ IsList(Cons(e, q))
<1>1. IsList(Cons(e, q)) /\ Range(Cons(e, q)) = {e} \cup Range(q) BY ConsList
<1>2. Rerouted(q) => Rerouted(Cons(e, q)) BY ReroutedCons
<1>3. Keyless(q) => Keyless(Cons(e, q)) BY <1>1 DEF Keyless
<1> QED BY <1>1, <1>2, <1>3 DEF Leaves

LEMMA LeavesForms ==
  ASSUME NEW s, NEW w
  PROVE  /\ Leaves(s, w, <<>>) /\ Leaves(s, w, <<Status, Route>>)
         /\ \A p : Leaves(s, w, <<Sync(p)>>) /\ Leaves(s, w, <<Sync(p), Status>>)
         /\ \A v : Owner(v) # Owner(w) => Leaves(s, w, After(v))
<1>0. IsList(<<>>) /\ Range(<<>>) = {} BY EmptyList
<1>1. Leaves(s, w, <<>>) BY <1>0 DEF Leaves, Keyless
<1>2. /\ \A a : <<a>> = Cons(a, <<>>)
      /\ \A a, b : <<a, b>> = Cons(a, Cons(b, <<>>))
      /\ \A a, b, d : <<a, b, d>> = Cons(a, Cons(b, Cons(d, <<>>)))
  BY <1>0, ConsForms
<1>3. \A r : Harmless(r, w, Status) /\ Harmless(r, w, Route) /\ \A p : Harmless(r, w, Sync(p))
  BY DEF Harmless, Status, Route, Sync
<1>4. Status.op # "key" /\ Route.op # "key" /\ \A p : Sync(p).op # "key" BY DEF Status, Route, Sync
<1>5. /\ Leaves(s, w, Cons(Status, <<>>)) /\ IsList(Cons(Status, <<>>))
      /\ Leaves(s, w, Cons(Route, <<>>)) /\ IsList(Cons(Route, <<>>))
  BY <1>0, <1>1, <1>3, <1>4, LeavesCons
<1>6. Leaves(s, w, Cons(Status, Cons(Route, <<>>))) /\ IsList(Cons(Status, Cons(Route, <<>>)))
  BY <1>3, <1>4, <1>5, LeavesCons
<1>7. ASSUME NEW p PROVE Leaves(s, w, <<Sync(p)>>) /\ Leaves(s, w, <<Sync(p), Status>>)
  <2>1. Leaves(s, w, Cons(Sync(p), <<>>)) BY <1>0, <1>1, <1>3, <1>4, LeavesCons
  <2>2. Leaves(s, w, Cons(Sync(p), Cons(Status, <<>>))) BY <1>3, <1>4, <1>5, LeavesCons
  <2>3. <<Sync(p)>> = Cons(Sync(p), <<>>) /\ <<Sync(p), Status>> = Cons(Sync(p), Cons(Status, <<>>))
    BY <1>2
  <2> QED BY <2>1, <2>2, <2>3
<1>8. ASSUME NEW v, Owner(v) # Owner(w) PROVE Leaves(s, w, After(v))
  <2> DEFINE d == [op |-> "drop", win |-> v]
  <2>1. d.op = "drop" /\ d.win = v OBVIOUS
  <2>2. After(v) = <<d, Status, Route>> BY DEF After
  <2> HIDE DEF d
  <2>3. After(v) = Cons(d, Cons(Status, Cons(Route, <<>>))) BY <1>2, <2>2
  <2>4. Harmless(Role(s, w), w, d) BY <1>8, <2>1 DEF Harmless
  <2> QED BY <1>6, <2>1, <2>3, <2>4, LeavesCons
<1>9. <<Status, Route>> = Cons(Status, Cons(Route, <<>>)) BY <1>2
<1> QED BY <1>1, <1>6, <1>7, <1>8, <1>9

\* The pane of a window that goes looks for another to focus, unless it has one
LEMMA LeavesRefocus ==
  ASSUME NEW w, NEW v, v # w, InFront(h, w), NEW p \in Pane
  PROVE  Leaves(h, w, Refocus(p, v))
<1> DEFINE f == [op |-> "fallback", pane |-> p]
<1>1. f.op = "fallback" /\ f.pane = p OBVIOUS
<1>2. Refocus(p, v) = IF h.focused[p] = v THEN <<f, Sync(p)>> ELSE <<Sync(p)>> BY DEF Refocus
<1> HIDE DEF f
<1>3. Leaves(h, w, <<Sync(p)>>) BY LeavesForms
<1>4. IsList(<<>>) /\ IsList(Cons(Sync(p), <<>>)) BY EmptyList, ConsList
<1>5. <<Sync(p)>> = Cons(Sync(p), <<>>) /\ <<f, Sync(p)>> = Cons(f, Cons(Sync(p), <<>>)) BY <1>4, ConsForms
<1>6. CASE h.focused[p] = v
  <2>1. p # Role(h, w) BY <1>6 DEF InFront
  <2>2. Harmless(Role(h, w), w, f) BY <1>1, <2>1 DEF Harmless
  <2>3. Leaves(h, w, Cons(f, Cons(Sync(p), <<>>))) BY <1>1, <1>3, <1>4, <1>5, <2>2, LeavesCons
  <2> QED BY <1>2, <1>5, <1>6, <2>3
<1> QED BY <1>2, <1>3, <1>6

\* When no handler runs the click is done
LEMMA RestClicks ==
  ASSUME NEW s, NEW l, NEW x, NEW a, NEW w, Clicks(s, l, x, <<>>, a, w), w # NoWin, Claims(s, w)
  PROVE  w \in Listing(s) /\ Aimed(s, x, w, <<>>) /\ x.target = Role(s, w)
<1>1. \A e, q : IsList(q) => Cons(e, q) # <<>> BY ConsList
<1>2. IsList(<<>>) /\ IsList(Cons(Focus(w), <<>>)) /\ IsList(Clicked(w)) BY EmptyList, ConsList DEF Clicked
<1>3. Clicked(w) # <<>> /\ Cons(Clear, Clicked(w)) # <<>> /\ Cons(Focus(w), <<>>) # <<>>
  BY <1>1, <1>2 DEF Clicked
<1>4. ~Pressing(s, w, <<>>) BY <1>3 DEF Pressing
<1>5. w \in Listing(s) /\ Aimed(s, x, w, <<>>) BY <1>4 DEF Clicks
<1> QED BY <1>5 DEF Aimed, At

LEMMA EventClicks ==
  ASSUME todo = <<>>, Clicks(h, life, c, todo, asked, clicked), asked' = asked, c' = c,
         Come(life) \subseteq Come(life'), clicked' \in {clicked, NoWin},
         ASSUME clicked' # NoWin, clicked \in Window, Claims(h', clicked),
                KindOf[clicked] = "popup" => ParentOf[clicked] \in Come(life)
         PROVE  Claims(h, clicked),
         ASSUME clicked' # NoWin, clicked \in Listing(h), Ready(h, clicked), InFront(h, clicked),
                Lone(h, clicked)
         PROVE  Stands(h, h', clicked) /\ Leaves(h, clicked, todo')
  PROVE  Clicks(h', life', c', todo', asked', clicked')
<1> DEFINE w == clicked
<1>1. SUFFICES ASSUME clicked' # NoWin PROVE Clicks(h', life', c', todo', asked', w) BY DEF Clicks
<1>2. w # NoWin BY <1>1
<1>3. ~asked /\ ~c.shell /\ w \in Window /\ (KindOf[w] = "popup" => ParentOf[w] \in Come(life))
  BY <1>2 DEF Clicks
<1>4. ASSUME Claims(h', w) PROVE w \in Listing(h') /\ Aimed(h', c', w, todo')
  <2>1. Claims(h, w) BY <1>1, <1>3, <1>4
  <2>2. w \in Listing(h) /\ Aimed(h, c, w, <<>>) /\ c.target = Role(h, w) BY <1>2, <2>1, RestClicks
  <2>3. Stands(h, h', w) /\ Leaves(h, w, todo') BY <1>1, <2>2 DEF Aimed
  <2> QED BY <2>2, <2>3 DEF Stands, Leaves, Aimed
<1> QED BY <1>3, <1>4 DEF Clicks

LEMMA ListingFacts ==
  ASSUME Sane
  PROVE  /\ Listed(h) /\ Memory(h) /\ Handled(h, life, todo) /\ DOMAIN life = Window
         /\ NoFocus \notin Pane
         /\ \A w \in Listing(h) :
              /\ w \in Window /\ w # NoWin /\ w \in Living(life) /\ w \in Come(life)
              /\ Role(h, w) \in Pane => w \in Placed(h) /\ Owner(w) = Role(h, w)
              /\ Role(h, w) \in {Owner(w), NoFocus}
<1>1. Listed(h) /\ Memory(h) /\ Handled(h, life, todo) /\ DOMAIN life = Window
      /\ Listing(h) \subseteq Living(life)
  BY DEF Sane, Handled
<1>2. NoFocus \notin Pane /\ \A w \in Listing(h) : w \in Window /\ w # NoWin BY <1>1, PlacedRole
<1>3. Living(life) \subseteq Come(life) BY LivingCome
<1> QED BY <1>1, <1>2, <1>3 DEF Role

\* A window of the main app or the overlay comes
LEMMA TopClicks ==
  ASSUME NEW v \in Window, Sane, Rooted(h, life), Clicks(h, life, c, todo, asked, clicked),
         MainAppears(v) \/ OverlayAppears(v)
  PROVE  Rooted(h', life') /\ Clicks(h', life', c', todo', asked', clicked')
<1> DEFINE w == clicked
<1>1. Listed(h) /\ Memory(h) /\ Handled(h, life, todo) /\ DOMAIN life = Window BY ListingFacts
<1>2. /\ Comes(v) /\ todo' = <<Status, Route>> /\ h'.root = h.root
      /\ \/ h.main = NoWin /\ Changed(h, h', {"main"}) /\ h'.main = v
         \/ h.overlay = NoWin /\ Changed(h, h', {"overlay"}) /\ h'.overlay = v
  BY <1>1, MainAppearsEffect, OverlayAppearsEffect
<1>3. /\ h'.dialogs = h.dialogs /\ h'.popups = h.popups /\ h'.ordinary = h.ordinary
      /\ h'.mapped = h.mapped /\ h'.focused = h.focused /\ h'.ordFocus = h.ordFocus
      /\ \/ h.main = NoWin /\ h'.main = v /\ h'.overlay = h.overlay
         \/ h.overlay = NoWin /\ h'.overlay = v /\ h'.main = h.main
  BY <1>1, <1>2, ChangedParts
<1>4. todo = <<>> /\ v \notin Come(life) /\ Come(life') = Come(life) \cup {v} BY <1>1, <1>2, ComesLife
<1>5. c' = c /\ asked' = asked /\ clicked' \in {clicked, NoWin} BY DEF MainAppears, OverlayAppears
<1>6. ASSUME w \in Window, Claims(h', w), KindOf[w] = "popup" => ParentOf[w] \in Come(life)
      PROVE  Claims(h, w)
  <2>1. Orphan(h', w) <=> Orphan(h, w) BY <1>2 DEF Orphan
  <2>2. ASSUME Orphan(h, w) PROVE ParentOf[w] \in {h.main, h.overlay}
    <3>1. KindOf[w] = "popup" BY <2>2 DEF Orphan
    <3>2. ParentOf[w] # v BY <1>4, <1>6, <3>1
    <3>3. ParentOf[w] \in {h'.main, h'.overlay} BY <1>6, <2>1, <2>2 DEF Claims
    <3> QED BY <1>3, <3>2, <3>3
  <2> QED BY <2>2 DEF Claims
<1>7. ASSUME w \in Listing(h), Ready(h, w), InFront(h, w), Lone(h, w)
      PROVE  Stands(h, h', w) /\ Leaves(h, w, todo')
  <2>1. w # v /\ w # NoWin BY <1>4, <1>7, ListingFacts
  <2>2. w \in Placed(h') <=> w \in Placed(h) BY <1>2, <1>3, <2>1 DEF Placed
  <2>3. \A p : CanFocus(h, p, w) => CanFocus(h', p, w) BY <1>2, <1>3, CanFocusKept
  <2>4. Stands(h, h', w) BY <1>3, <1>7, <2>2, <2>3, StandsFrom
  <2> QED BY <1>2, <2>4, LeavesForms
<1>8. Clicks(h', life', c', todo', asked', clicked') BY <1>4, <1>5, <1>6, <1>7, EventClicks
<1> QED BY <1>2, <1>3, <1>4, <1>8 DEF Rooted

\* The window of a pane comes: another one was clicked, of no pane or another
LEMMA RootClicks ==
  ASSUME NEW v \in Window, Sane, Rooted(h, life), Clicks(h, life, c, todo, asked, clicked), RootAppears(v)
  PROVE  Rooted(h', life') /\ Clicks(h', life', c', todo', asked', clicked')
<1> DEFINE w == clicked
           p == PaneOf[v]
           q == <<Status, Route>>
<1>1. Listed(h) /\ Memory(h) /\ Handled(h, life, todo) /\ DOMAIN life = Window BY ListingFacts
<1>2. /\ Comes(v) /\ todo' = Arrival(p, v) /\ p \in Pane /\ h.root[p] = NoWin
      /\ \A r \in Pane : h'.root[r] = IF r = p THEN v ELSE h.root[r]
      /\ Changed(h, h', {"root"})
  BY <1>1, RootAppearsEffect
<1>3. /\ h'.main = h.main /\ h'.overlay = h.overlay
      /\ h'.dialogs = h.dialogs /\ h'.popups = h.popups /\ h'.ordinary = h.ordinary
      /\ h'.mapped = h.mapped /\ h'.focused = h.focused /\ h'.ordFocus = h.ordFocus
  BY <1>1, <1>2, ChangedParts
<1>4. todo = <<>> /\ v \notin Come(life) /\ Come(life') = Come(life) \cup {v} BY <1>1, <1>2, ComesLife
<1>5. c' = c /\ asked' = asked /\ clicked' = IF w # NoWin /\ Owner(w) = p THEN NoWin ELSE w
  BY DEF RootAppears
<1>6. v # NoWin BY PresentationAssumption
<1> HIDE DEF p, q
<1>7. ASSUME clicked' # NoWin, Claims(h', w) PROVE Claims(h, w)
  <2>1. Owner(w) # p BY <1>5, <1>7
  <2>2. Orphan(h', w) <=> Orphan(h, w) BY <1>2, <2>1 DEF Orphan
  <2> QED BY <1>3, <1>7, <2>2 DEF Claims
<1>8. ASSUME clicked' # NoWin, w \in Listing(h), Ready(h, w), InFront(h, w), Lone(h, w)
      PROVE  Stands(h, h', w) /\ Leaves(h, w, todo')
  <2>1. w # v /\ w # NoWin /\ Owner(w) # p BY <1>4, <1>5, <1>8, ListingFacts
  <2>2. w \in Placed(h') <=> w \in Placed(h) BY <1>2, <1>3, <2>1 DEF Placed
  <2>3. Role(h, w) \in Pane => h'.root[Role(h, w)] = h.root[Role(h, w)]
    BY <1>2, <1>8, <2>1, ListingFacts
  <2>4. Role(h, w) \in Pane /\ CanFocus(h, Role(h, w), w) => CanFocus(h', Role(h, w), w)
    BY <1>3, <2>3, CanFocusKept
  <2>5. Stands(h, h', w) BY <1>3, <1>8, <2>2, <2>4, StandsFrom
  <2>6. Leaves(h, w, todo')
    <3> DEFINE a == [op |-> "attach", pane |-> p]
               b == [op |-> "observe", pane |-> p, win |-> v]
    <3>1. a.op = "attach" /\ b.op = "observe" OBVIOUS
    <3>2. todo' = Cons(a, Cons(b, <<Status, Route>>)) BY <1>2, ArrivalForm
    <3> HIDE DEF a, b
    <3>3. Leaves(h, w, <<Status, Route>>) /\ IsList(<<Status, Route>>) BY LeavesForms, DueOf DEF Due
    <3>4. Harmless(Role(h, w), w, a) /\ Harmless(Role(h, w), w, b) BY <3>1 DEF Harmless
    <3> HIDE DEF Status, Route
    <3>5. Leaves(h, w, Cons(b, <<Status, Route>>)) /\ IsList(Cons(b, <<Status, Route>>))
      BY <3>1, <3>3, <3>4, LeavesCons
    <3> QED BY <3>1, <3>2, <3>4, <3>5, LeavesCons
  <2> QED BY <2>5, <2>6
<1>9. Clicks(h', life', c', todo', asked', clicked')
  <2>1. clicked' \in {clicked, NoWin} BY <1>5
  <2> QED BY <1>4, <1>5, <1>7, <1>8, <2>1, EventClicks
<1>10. \A d \in Range(h.dialogs) : PaneOf[d] \in Pane
  BY <1>1, PlacedWindows, OwnerKinds DEF OfKind
<1>11. \A d \in Range(h'.dialogs) : h'.root[PaneOf[d]] # NoWin
  BY <1>2, <1>3, <1>6, <1>10 DEF Rooted
<1> QED BY <1>3, <1>4, <1>9, <1>11 DEF Rooted

\* A dialog, a popup or an ordinary window comes
LEMMA AnotherClicks ==
  ASSUME NEW v \in Window, Sane, Rooted(h, life), Clicks(h, life, c, todo, asked, clicked),
         DialogAppears(v) \/ PopupAppears(v) \/ OrdinaryAppears(v)
  PROVE  Rooted(h', life') /\ Clicks(h', life', c', todo', asked', clicked')
<1> DEFINE w == clicked
<1>1. Listed(h) /\ Memory(h) /\ Handled(h, life, todo) /\ DOMAIN life = Window BY ListingFacts
<1>2. Comes(v) /\ c' = c /\ asked' = asked /\ clicked' = clicked
  BY DEF DialogAppears, PopupAppears, OrdinaryAppears
<1>3. \/ /\ todo' = <<Sync(PaneOf[v]), Status>> /\ Changed(h, h', {"dialogs"})
         /\ Range(h'.dialogs) = Range(h.dialogs) \cup {v} /\ h.root[PaneOf[v]] # NoWin
      \/ /\ todo' = <<>> /\ Changed(h, h', {"ordinary"})
         /\ Range(h'.ordinary) = Range(h.ordinary) \cup {v}
      \/ /\ todo' \in {<<Sync(Owner(v))>>, <<>>} /\ Changed(h, h', {"popups"})
         /\ Range(h'.popups) = Range(h.popups) \cup {v}
         /\ ParentOf[v] \in {h.main, h.overlay} \cup Range(h.root) \cup Range(h.dialogs)
  BY <1>1, DialogAppearsEffect, PopupAppearsEffect, OrdinaryAppearsEffect
<1>4. /\ h'.main = h.main /\ h'.overlay = h.overlay /\ h'.root = h.root
      /\ h'.mapped = h.mapped /\ h'.focused = h.focused /\ h'.ordFocus = h.ordFocus
      /\ \/ /\ Range(h'.dialogs) = Range(h.dialogs) \cup {v} /\ h.root[PaneOf[v]] # NoWin
            /\ h'.popups = h.popups /\ h'.ordinary = h.ordinary
         \/ Range(h'.ordinary) = Range(h.ordinary) \cup {v} /\ h'.popups = h.popups /\ h'.dialogs = h.dialogs
         \/ /\ Range(h'.popups) = Range(h.popups) \cup {v} /\ h'.dialogs = h.dialogs /\ h'.ordinary = h.ordinary
            /\ ParentOf[v] \in {h.main, h.overlay} \cup Range(h.root) \cup Range(h.dialogs)
  BY <1>1, <1>3, ChangedParts
<1>5. todo = <<>> /\ v \notin Come(life) /\ Come(life') = Come(life) \cup {v} BY <1>1, <1>2, ComesLife
<1>6. ASSUME Claims(h', w) PROVE Claims(h, w) BY <1>4, <1>6, ClaimsSame
<1>7. ASSUME w \in Listing(h), Ready(h, w), InFront(h, w), Lone(h, w)
      PROVE  Stands(h, h', w) /\ Leaves(h, w, todo')
  <2>1. w # v BY <1>5, <1>7, ListingFacts
  <2>2. w \in Placed(h') <=> w \in Placed(h) BY <1>4, <2>1 DEF Placed
  <2>3. w \in Range(h'.ordinary) <=> w \in Range(h.ordinary) BY <1>4, <2>1
  <2>4. w \in Range(h.dialogs) \cup Range(h.popups) => w \in Range(h'.dialogs) \cup Range(h'.popups)
    BY <1>4
  <2>5. \A p : CanFocus(h, p, w) => CanFocus(h', p, w) BY <1>4, <2>4, CanFocusKept
  <2>6. Stands(h, h', w) BY <1>4, <1>7, <2>2, <2>3, <2>5, StandsFrom
  <2>7. Leaves(h, w, todo') BY <1>3, LeavesForms
  <2> QED BY <2>6, <2>7
<1>8. Clicks(h', life', c', todo', asked', clicked') BY <1>2, <1>5, <1>6, <1>7, EventClicks
<1>9. \A d \in Range(h'.dialogs) : h'.root[PaneOf[d]] # NoWin BY <1>4 DEF Rooted
<1>10. \A q \in Range(h'.popups) : ParentOf[q] \in Come(life')
  <2>1. ASSUME ParentOf[v] \in {h.main, h.overlay} \cup Range(h.root) \cup Range(h.dialogs)
        PROVE  ParentOf[v] \in Come(life)
    <3>1. Range(h.root) = {h.root[p] : p \in Pane} BY <1>1 DEF Range, Listed
    <3>2. ParentOf[v] \in Placed(h) \cup {NoWin} BY <2>1, <3>1 DEF Placed
    <3>3. Placed(h) \subseteq Listing(h) BY DEF Listing
    <3> QED BY <3>2, <3>3, ListingFacts, LivingCome
  <2> QED BY <1>4, <1>5, <2>1 DEF Rooted
<1> QED BY <1>8, <1>9, <1>10 DEF Rooted

\* A dialog or a popup is mapped or unmapped
LEMMA MapClicks ==
  ASSUME NEW v \in Window, Sane, Rooted(h, life), Clicks(h, life, c, todo, asked, clicked), Map(v) \/ Unmap(v)
  PROVE  Rooted(h', life') /\ Clicks(h', life', c', todo', asked', clicked')
<1> DEFINE w == clicked
           p == Owner(v)
<1>1. Listed(h) /\ Memory(h) /\ Handled(h, life, todo) /\ DOMAIN life = Window BY ListingFacts
<1>2. c' = c /\ asked' = asked /\ todo = <<>> /\ life' = life /\ clicked' \in {clicked, NoWin}
  BY DEF Map, Unmap, Idle
<1>3. /\ Changed(h, h', {"mapped", "dialogs", "popups"})
      /\ Range(h'.dialogs) = Range(h.dialogs) /\ Range(h'.popups) = Range(h.popups)
      /\ \/ /\ h'.mapped = h.mapped \cup {v}
            /\ clicked' # NoWin => Owner(w) # p
            /\ todo' = IF p \in Pane THEN <<[op |-> "mapped", win |-> v], Sync(p)>> ELSE <<>>
         \/ /\ h'.mapped = h.mapped \ {v}
            /\ clicked' # NoWin => w # v
            /\ todo' = IF p \in Pane THEN Refocus(p, v) ELSE <<>>
  <2>1. CASE Map(v)
    <3>1. clicked' # NoWin => Owner(w) # p BY <2>1 DEF Map
    <3> QED BY <1>1, <2>1, <3>1, MapEffect
  <2>2. CASE Unmap(v)
    <3>1. clicked' # NoWin => w # v BY <2>2 DEF Unmap
    <3>2. /\ Changed(h, h', {"mapped"}) /\ h'.mapped = h.mapped \ {v}
          /\ todo' = IF p \in Pane THEN Refocus(p, v) ELSE <<>>
      BY <1>1, <2>2, UnmapEffect
    <3>3. h'.dialogs = h.dialogs /\ h'.popups = h.popups BY <1>1, <3>2, ChangedParts
    <3>4. Changed(h, h', {"mapped", "dialogs", "popups"}) BY <3>2 DEF Changed
    <3> QED BY <3>1, <3>2, <3>3, <3>4
  <2> QED BY <2>1, <2>2
<1>4. /\ h'.main = h.main /\ h'.overlay = h.overlay /\ h'.root = h.root /\ h'.ordinary = h.ordinary
      /\ h'.focused = h.focused /\ h'.ordFocus = h.ordFocus
  BY <1>1, <1>3, ChangedParts
<1> HIDE DEF p
<1>5. ASSUME Claims(h', w) PROVE Claims(h, w) BY <1>4, <1>5, ClaimsSame
<1>6. ASSUME clicked' # NoWin, w \in Listing(h), Ready(h, w), InFront(h, w), Lone(h, w)
      PROVE  Stands(h, h', w) /\ Leaves(h, w, todo')
  <2>1. w \in Placed(h') <=> w \in Placed(h) BY <1>3, <1>4 DEF Placed
  <2>2. w \in h.mapped => w \in h'.mapped BY <1>3, <1>6
  <2>3. \A r : CanFocus(h, r, w) => CanFocus(h', r, w) BY <1>3, <1>4, <2>2, CanFocusKept
  <2>4. Stands(h, h', w) BY <1>4, <1>6, <2>1, <2>3, StandsFrom
  <2>5. CASE todo' = <<>> BY <2>4, <2>5, LeavesForms
  <2>6. CASE w # v /\ p \in Pane /\ todo' = Refocus(p, v) BY <1>6, <2>4, <2>6, LeavesRefocus
  <2>7. CASE Owner(w) # p /\ p \in Pane /\ todo' = <<[op |-> "mapped", win |-> v], Sync(p)>>
    <3> DEFINE e == [op |-> "mapped", win |-> v]
    <3>1. e.op = "mapped" /\ e.win = v /\ todo' = <<e, Sync(p)>> BY <2>7
    <3> HIDE DEF e
    <3>2. IsList(<<>>) /\ IsList(Cons(Sync(p), <<>>)) BY EmptyList, ConsList
    <3>3. <<Sync(p)>> = Cons(Sync(p), <<>>) /\ todo' = Cons(e, Cons(Sync(p), <<>>))
      BY <3>1, <3>2, ConsForms
    <3>4. Leaves(h, w, Cons(Sync(p), <<>>)) BY <3>3, LeavesForms
    <3>5. Role(h, w) # p BY <1>6, <2>7, ListingFacts
    <3>6. Harmless(Role(h, w), w, e) BY <3>1, <3>5 DEF Harmless, p
    <3> QED BY <2>4, <3>1, <3>2, <3>3, <3>4, <3>6, LeavesCons
  <2> QED BY <1>3, <1>6, <2>5, <2>6, <2>7
<1>7. Clicks(h', life', c', todo', asked', clicked') BY <1>2, <1>5, <1>6, EventClicks
<1> QED BY <1>2, <1>3, <1>4, <1>7 DEF Rooted

\* A window of the main app, the overlay or an ordinary one goes
LEMMA TopGoneClicks ==
  ASSUME NEW v \in Window, Sane, Rooted(h, life), Clicks(h, life, c, todo, asked, clicked), TopDestroyed(v)
  PROVE  Rooted(h', life') /\ Clicks(h', life', c', todo', asked', clicked')
<1> DEFINE w == clicked
<1>1. Listed(h) /\ Memory(h) /\ Handled(h, life, todo) /\ DOMAIN life = Window BY ListingFacts
<1>2. /\ todo' = After(v) /\ h'.root = h.root
      /\ Changed(h, h', {"main", "overlay", "ordinary"})
      /\ h'.main = IF h.main = v THEN NoWin ELSE h.main
      /\ h'.overlay = IF h.overlay = v THEN NoWin ELSE h.overlay
      /\ Range(h'.ordinary) = Range(h.ordinary) \ {v}
  BY <1>1, TopDestroyedEffect
<1>3. /\ Gone(v) /\ c' = c /\ asked' = asked
      /\ clicked' = IF w # NoWin /\ Owner(w) = Owner(v) THEN NoWin ELSE w
  BY DEF TopDestroyed
<1>4. /\ h'.dialogs = h.dialogs /\ h'.popups = h.popups /\ h'.mapped = h.mapped
      /\ h'.focused = h.focused /\ h'.ordFocus = h.ordFocus
  BY <1>1, <1>2, ChangedParts
<1>5. todo = <<>> /\ Come(life') = Come(life) BY <1>1, <1>3, GoneLife
<1>6. ASSUME w \in Window, Claims(h', w) PROVE Claims(h, w)
  <2>1. Orphan(h', w) <=> Orphan(h, w) BY <1>2 DEF Orphan
  <2>2. ASSUME Orphan(h, w) PROVE ParentOf[w] \in {h.main, h.overlay}
    <3>1. ParentOf[w] \in Window BY <1>6, <2>2, OwnerKinds DEF Orphan
    <3>2. ParentOf[w] # NoWin BY <3>1, PresentationAssumption
    <3>3. ParentOf[w] \in {h'.main, h'.overlay} BY <1>6, <2>1, <2>2 DEF Claims
    <3> QED BY <1>2, <3>2, <3>3
  <2> QED BY <2>2 DEF Claims
<1>7. ASSUME clicked' # NoWin, w \in Listing(h), Ready(h, w), InFront(h, w), Lone(h, w)
      PROVE  Stands(h, h', w) /\ Leaves(h, w, todo')
  <2>1. Owner(v) # Owner(w) /\ w # v /\ w # NoWin BY <1>3, <1>7, ListingFacts
  <2>2. w \in Placed(h') <=> w \in Placed(h) BY <1>2, <1>4, <2>1 DEF Placed
  <2>3. \A r : CanFocus(h, r, w) => CanFocus(h', r, w) BY <1>2, <1>4, CanFocusKept
  <2>4. Stands(h, h', w) BY <1>2, <1>4, <1>7, <2>1, <2>2, <2>3, StandsFrom
  <2> QED BY <1>2, <2>1, <2>4, LeavesForms
<1>8. Clicks(h', life', c', todo', asked', clicked')
  <2>1. clicked' \in {clicked, NoWin} BY <1>3
  <2> QED BY <1>3, <1>5, <1>6, <1>7, <2>1, EventClicks
<1> QED BY <1>2, <1>4, <1>5, <1>8 DEF Rooted

\* The window of a pane goes: another one was clicked, of no pane or another
LEMMA RootGoneClicks ==
  ASSUME NEW v \in Window, Sane, Rooted(h, life), Clicks(h, life, c, todo, asked, clicked), RootDestroyed(v)
  PROVE  Rooted(h', life') /\ Clicks(h', life', c', todo', asked', clicked')
<1> DEFINE w == clicked
           p == PaneOf[v]
           e == [op |-> "detach", pane |-> p]
<1>1. Listed(h) /\ Memory(h) /\ Handled(h, life, todo) /\ DOMAIN life = Window BY ListingFacts
<1>2. /\ p \in Pane /\ todo' = Cons(e, After(v)) /\ e.op = "detach"
      /\ \A r \in Pane : h'.root[r] = IF r = p THEN NoWin ELSE h.root[r]
      /\ \A r \in Pane : r # p => h'.focused[r] = h.focused[r]
      /\ Range(h'.dialogs) = {d \in Range(h.dialogs) : PaneOf[d] # p}
      /\ h'.main = h.main /\ h'.overlay = h.overlay /\ h'.popups = h.popups /\ h'.ordinary = h.ordinary
      /\ h'.mapped = h.mapped /\ h'.ordFocus = h.ordFocus /\ KindOf[v] = "root"
  BY <1>1, RootDestroyedEffect
<1>3. /\ Gone(v) /\ c' = c /\ asked' = asked /\ clicked' = IF w # NoWin /\ Owner(w) = p THEN NoWin ELSE w
  BY DEF RootDestroyed
<1>4. todo = <<>> /\ Come(life') = Come(life) BY <1>1, <1>3, GoneLife
<1>5. Owner(v) = p BY <1>2, OwnerKinds
<1>6. \A d \in Range(h.dialogs) : d \in Window /\ Owner(d) = PaneOf[d] /\ PaneOf[d] \in Pane
  BY <1>1, PlacedWindows, OwnerKinds DEF OfKind
<1> HIDE DEF p, e
<1>7. ASSUME clicked' # NoWin, Claims(h', w) PROVE Claims(h, w)
  <2>1. Owner(w) # p BY <1>3, <1>7
  <2>2. Orphan(h', w) <=> Orphan(h, w) BY <1>2, <2>1 DEF Orphan
  <2> QED BY <1>2, <1>7, <2>2 DEF Claims
<1>8. ASSUME clicked' # NoWin, w \in Listing(h), Ready(h, w), InFront(h, w), Lone(h, w)
      PROVE  Stands(h, h', w) /\ Leaves(h, w, todo')
  <2>1. Owner(w) # p /\ w # NoWin BY <1>3, <1>8, ListingFacts
  <2>2. \A r \in Pane : h.root[r] = w => r # p
    <3>1. ASSUME h.root[p] = w PROVE FALSE
      <4>1. Owner(w) = p BY <1>1, <1>2, <2>1, <3>1, PlacedWindows
      <4> QED BY <2>1, <4>1
    <3> QED BY <3>1
  <2>3. w \in Range(h'.dialogs) <=> w \in Range(h.dialogs) BY <1>2, <1>6, <2>1
  <2>4. w \in Placed(h') <=> w \in Placed(h)
    <3>1. (\E r \in Pane : w = h'.root[r]) <=> (\E r \in Pane : w = h.root[r]) BY <1>2, <2>1, <2>2
    <3> QED BY <1>2, <2>3, <3>1 DEF Placed
  <2>5. Role(h, w) \in Pane => /\ h'.root[Role(h, w)] = h.root[Role(h, w)]
                               /\ h'.focused[Role(h, w)] = h.focused[Role(h, w)]
    BY <1>2, <1>8, <2>1, ListingFacts
  <2>6. Role(h, w) \in Pane /\ CanFocus(h, Role(h, w), w) => CanFocus(h', Role(h, w), w)
    BY <1>2, <2>3, <2>5, CanFocusKept
  <2>7. Stands(h, h', w) BY <1>2, <1>8, <2>4, <2>5, <2>6, StandsFrom
  <2>8. Leaves(h, w, After(v)) /\ IsList(After(v)) BY <1>5, <2>1, LeavesForms, DueOf DEF Due
  <2>9. Harmless(Role(h, w), w, e) BY <1>2 DEF Harmless
  <2> QED BY <1>2, <2>7, <2>8, <2>9, LeavesCons
<1>9. Clicks(h', life', c', todo', asked', clicked')
  <2>1. clicked' \in {clicked, NoWin} BY <1>3
  <2> QED BY <1>3, <1>4, <1>7, <1>8, <2>1, EventClicks
<1>10. \A d \in Range(h'.dialogs) : h'.root[PaneOf[d]] # NoWin
  <2>1. SUFFICES ASSUME NEW d \in Range(h'.dialogs) PROVE h'.root[PaneOf[d]] # NoWin OBVIOUS
  <2>2. d \in Range(h.dialogs) /\ PaneOf[d] # p BY <1>2, <2>1
  <2>3. h'.root[PaneOf[d]] = h.root[PaneOf[d]] BY <1>2, <1>6, <2>2
  <2> QED BY <2>2, <2>3 DEF Rooted
<1> QED BY <1>2, <1>4, <1>9, <1>10 DEF Rooted

\* A dialog goes, with its popups: another window was clicked, of no pane or another
LEMMA DialogGoneClicks ==
  ASSUME NEW v \in Window, Sane, Rooted(h, life), Clicks(h, life, c, todo, asked, clicked), DialogDestroyed(v)
  PROVE  Rooted(h', life') /\ Clicks(h', life', c', todo', asked', clicked')
<1> DEFINE w == clicked
           p == PaneOf[v]
           f == [op |-> "fallback", pane |-> p]
<1>1. Listed(h) /\ Memory(h) /\ Handled(h, life, todo) /\ DOMAIN life = Window BY ListingFacts
<1>2. /\ h'.root = h.root /\ Changed(h, h', {"dialogs", "mapped", "focused", "history"})
      /\ Range(h'.dialogs) = Range(h.dialogs) \ {v} /\ h'.mapped = h.mapped \ {v}
      /\ KindOf[v] = "dialog" /\ p \in Pane
      /\ \A q \in Pane : h.focused[q] # v => h'.focused[q] = h.focused[q]
      /\ todo' \in {Cons(Sync(p), After(v)), Cons(f, Cons(Sync(p), After(v)))}
      /\ f.op = "fallback" /\ f.pane = p
  BY <1>1, DialogDestroyedEffect
<1>3. /\ Gone(v) /\ c' = c /\ asked' = asked
      /\ clicked' = IF w # NoWin /\ Owner(w) = Owner(v) THEN NoWin ELSE w
  BY DEF DialogDestroyed
<1>4. /\ h'.main = h.main /\ h'.overlay = h.overlay /\ h'.popups = h.popups /\ h'.ordinary = h.ordinary
      /\ h'.ordFocus = h.ordFocus
  BY <1>1, <1>2, ChangedParts
<1>5. todo = <<>> /\ Come(life') = Come(life) BY <1>1, <1>3, GoneLife
<1>6. Owner(v) = p BY <1>2, OwnerKinds
<1> HIDE DEF p, f
<1>7. ASSUME Claims(h', w) PROVE Claims(h, w) BY <1>2, <1>4, <1>7, ClaimsSame
<1>8. ASSUME clicked' # NoWin, w \in Listing(h), Ready(h, w), InFront(h, w), Lone(h, w)
      PROVE  Stands(h, h', w) /\ Leaves(h, w, todo')
  <2>1. Owner(w) # p /\ w # NoWin /\ w # v BY <1>3, <1>6, <1>8, ListingFacts
  <2>2. w \in Placed(h') <=> w \in Placed(h) BY <1>2, <1>4, <2>1 DEF Placed
  <2>3. \A r : CanFocus(h, r, w) => CanFocus(h', r, w) BY <1>2, <1>4, <2>1, CanFocusKept
  <2>4. Role(h, w) \in Pane => h'.focused[Role(h, w)] = h.focused[Role(h, w)]
    BY <1>2, <1>8, <2>1 DEF InFront
  <2>5. Stands(h, h', w) BY <1>4, <1>8, <2>2, <2>3, <2>4, StandsFrom
  <2>6. Leaves(h, w, After(v)) /\ IsList(After(v)) BY <1>6, <2>1, LeavesForms, DueOf DEF Due
  <2>7. Harmless(Role(h, w), w, Sync(p)) /\ Sync(p).op # "key" BY DEF Harmless, Sync
  <2>8. Role(h, w) # p BY <1>8, <1>2, <2>1, ListingFacts
  <2>9. Harmless(Role(h, w), w, f) BY <1>2, <2>8 DEF Harmless
  <2>10. Leaves(h, w, Cons(Sync(p), After(v))) /\ IsList(Cons(Sync(p), After(v)))
    BY <2>6, <2>7, LeavesCons
  <2>11. Leaves(h, w, Cons(f, Cons(Sync(p), After(v)))) BY <1>2, <2>9, <2>10, LeavesCons
  <2> QED BY <1>2, <2>5, <2>10, <2>11
<1>9. Clicks(h', life', c', todo', asked', clicked')
  <2>1. clicked' \in {clicked, NoWin} BY <1>3
  <2> QED BY <1>3, <1>5, <1>7, <1>8, <2>1, EventClicks
<1> QED BY <1>2, <1>4, <1>5, <1>9 DEF Rooted

\* A popup goes: another window was clicked
LEMMA PopupGoneClicks ==
  ASSUME NEW v \in Window, Sane, Rooted(h, life), Clicks(h, life, c, todo, asked, clicked), PopupDestroyed(v)
  PROVE  Rooted(h', life') /\ Clicks(h', life', c', todo', asked', clicked')
<1> DEFINE w == clicked
           p == Owner(v)
<1>1. Listed(h) /\ Memory(h) /\ Handled(h, life, todo) /\ DOMAIN life = Window BY ListingFacts
<1>2. /\ Gone(v) /\ Changed(h, h', {"popups", "mapped", "focused", "history"})
      /\ h'.mapped = h.mapped \ {v}
      /\ Range(h'.popups) = Range(h.popups) \ {v}
      /\ p \notin Pane => todo' = <<>> /\ h'.focused = h.focused
      /\ p \in Pane =>
           /\ todo' = Refocus(p, v)
           /\ \A q \in Pane :
                h'.focused[q] = IF q = p /\ h.focused[q] = v THEN NoWin ELSE h.focused[q]
  BY <1>1, PopupDestroyedEffect
<1>3. c' = c /\ asked' = asked /\ clicked' = IF w = v THEN NoWin ELSE w BY DEF PopupDestroyed
<1>4. /\ h'.main = h.main /\ h'.overlay = h.overlay /\ h'.root = h.root /\ h'.dialogs = h.dialogs
      /\ h'.ordinary = h.ordinary /\ h'.ordFocus = h.ordFocus
  BY <1>1, <1>2, ChangedParts
<1>5. todo = <<>> /\ Come(life') = Come(life) BY <1>1, <1>2, GoneLife
<1> HIDE DEF p
<1>6. ASSUME Claims(h', w) PROVE Claims(h, w) BY <1>4, <1>6, ClaimsSame
<1>7. ASSUME clicked' # NoWin, w \in Listing(h), Ready(h, w), InFront(h, w), Lone(h, w)
      PROVE  Stands(h, h', w) /\ Leaves(h, w, todo')
  <2>1. w # v BY <1>3, <1>7
  <2>2. w \in Placed(h') <=> w \in Placed(h) BY <1>2, <1>4, <2>1 DEF Placed
  <2>3. \A r : CanFocus(h, r, w) => CanFocus(h', r, w) BY <1>2, <1>4, <2>1, CanFocusKept
  <2>4. Role(h, w) \in Pane => h'.focused[Role(h, w)] = h.focused[Role(h, w)]
    BY <1>2, <1>7, <2>1 DEF InFront
  <2>5. Stands(h, h', w) BY <1>4, <1>7, <2>2, <2>3, <2>4, StandsFrom
  <2>6. Leaves(h, w, <<>>) BY LeavesForms
  <2>7. p \in Pane => Leaves(h, w, Refocus(p, v)) BY <1>7, <2>1, LeavesRefocus
  <2> QED BY <1>2, <2>5, <2>6, <2>7
<1>8. Clicks(h', life', c', todo', asked', clicked')
  <2>1. clicked' \in {clicked, NoWin} BY <1>3
  <2> QED BY <1>3, <1>5, <1>6, <1>7, <2>1, EventClicks
<1> QED BY <1>2, <1>4, <1>5, <1>8 DEF Rooted

LEMMA OtherGoneClicks ==
  ASSUME NEW v \in Window, Sane, Rooted(h, life), Clicks(h, life, c, todo, asked, clicked), OtherDestroyed(v)
  PROVE  Rooted(h', life') /\ Clicks(h', life', c', todo', asked', clicked')
<1> DEFINE w == clicked
<1>1. Listed(h) /\ Memory(h) /\ Handled(h, life, todo) /\ DOMAIN life = Window BY ListingFacts
<1>2. /\ Gone(v) /\ Changed(h, h', {"mapped"}) /\ h'.mapped = h.mapped \ {v} /\ v \notin Listing(h)
      /\ todo' \in {<<>>, After(v)}
  BY <1>1, OtherDestroyedEffect
<1>3. /\ c' = c /\ asked' = asked
      /\ clicked' = IF w # NoWin /\ Owner(w) = Owner(v) THEN NoWin ELSE w
  BY DEF OtherDestroyed
<1>4. /\ h'.main = h.main /\ h'.overlay = h.overlay /\ h'.root = h.root /\ h'.dialogs = h.dialogs
      /\ h'.popups = h.popups /\ h'.ordinary = h.ordinary /\ h'.ordFocus = h.ordFocus
      /\ h'.focused = h.focused
  BY <1>1, <1>2, ChangedParts
<1>5. todo = <<>> /\ Come(life') = Come(life) BY <1>1, <1>2, GoneLife
<1>6. ASSUME Claims(h', w) PROVE Claims(h, w) BY <1>4, <1>6, ClaimsSame
<1>7. ASSUME clicked' # NoWin, w \in Listing(h), Ready(h, w), InFront(h, w), Lone(h, w)
      PROVE  Stands(h, h', w) /\ Leaves(h, w, todo')
  <2>1. w # v /\ w # NoWin BY <1>2, <1>7, ListingFacts
  <2>2. Owner(v) # Owner(w) BY <1>3, <1>7, <2>1
  <2>3. w \in Placed(h') <=> w \in Placed(h) BY <1>4 DEF Placed
  <2>4. \A r : CanFocus(h, r, w) => CanFocus(h', r, w) BY <1>2, <1>4, <2>1, CanFocusKept
  <2>5. Stands(h, h', w) BY <1>4, <1>7, <2>3, <2>4, StandsFrom
  <2>6. Leaves(h, w, <<>>) /\ Leaves(h, w, After(v)) BY <2>2, LeavesForms
  <2> QED BY <1>2, <2>5, <2>6
<1>8. Clicks(h', life', c', todo', asked', clicked')
  <2>1. clicked' \in {clicked, NoWin} BY <1>3
  <2> QED BY <1>3, <1>5, <1>6, <1>7, <2>1, EventClicks
<1> QED BY <1>4, <1>5, <1>8 DEF Rooted

LEMMA ClicksWindows ==
  ASSUME Sane, Rooted(h, life), Clicks(h, life, c, todo, asked, clicked), WindowEvents \/ MainDemoted
  PROVE  Rooted(h', life') /\ Clicks(h', life', c', todo', asked', clicked')
<1>1. CASE MainDemoted
  <2>1. Listed(h) /\ Memory(h) BY ListingFacts
  <2>2. h' = [h EXCEPT !.main = NoWin, !.ordinary = Append(@, h.main)] BY <1>1, Zenon DEF MainDemoted
  <2>3. Changed(h, h', {"main", "ordinary"}) BY <2>2 DEF Changed
  <2>4. h'.root = h.root /\ h'.dialogs = h.dialogs /\ h'.popups = h.popups BY <2>1, <2>3, ChangedParts
  <2>5. clicked' = NoWin /\ life' = life BY <1>1 DEF MainDemoted
  <2> QED BY <2>4, <2>5 DEF Rooted, Clicks
<1>2. CASE WindowEvents
  <2>1. PICK v \in Window :
          \/ MainAppears(v) \/ OverlayAppears(v) \/ RootAppears(v) \/ DialogAppears(v)
          \/ OrdinaryAppears(v) \/ PopupAppears(v) \/ Map(v) \/ Unmap(v)
          \/ TopDestroyed(v) \/ RootDestroyed(v) \/ DialogDestroyed(v) \/ PopupDestroyed(v)
          \/ OtherDestroyed(v)
    BY <1>2 DEF WindowEvents
  <2>2. CASE MainAppears(v) \/ OverlayAppears(v) \/ RootAppears(v) \/ DialogAppears(v)
             \/ OrdinaryAppears(v) \/ PopupAppears(v)
    BY <2>2, TopClicks, RootClicks, AnotherClicks
  <2>3. CASE Map(v) \/ Unmap(v) \/ TopDestroyed(v) \/ RootDestroyed(v)
    BY <2>3, MapClicks, TopGoneClicks, RootGoneClicks
  <2>4. CASE DialogDestroyed(v) \/ PopupDestroyed(v) \/ OtherDestroyed(v)
    BY <2>4, DialogGoneClicks, PopupGoneClicks, OtherGoneClicks
  <2> QED BY <2>1, <2>2, <2>3, <2>4
<1> QED BY <1>1, <1>2

\* Only the pointer and its buttons change
LEMMA PointerClicks ==
  ASSUME Sane, Rooted(h, life), Clicks(h, life, c, todo, asked, clicked), Changed(h, h', SeatParts),
         todo = <<>>, todo' = <<>>, life' = life, c' = c, asked' = asked, clicked' = clicked
  PROVE  Rooted(h', life') /\ Clicks(h', life', c', todo', asked', clicked')
<1> DEFINE w == clicked
<1>1. Listed(h) /\ Memory(h) BY ListingFacts
<1>2. /\ h'.main = h.main /\ h'.overlay = h.overlay /\ h'.root = h.root /\ h'.dialogs = h.dialogs
      /\ h'.popups = h.popups /\ h'.ordinary = h.ordinary /\ h'.mapped = h.mapped
      /\ h'.focused = h.focused /\ h'.ordFocus = h.ordFocus
  BY <1>1, ChangedParts DEF SeatParts
<1>3. Claims(h', w) => Claims(h, w) BY <1>2, ClaimsSame
<1>4. ASSUME w \in Listing(h), Ready(h, w), InFront(h, w), Lone(h, w)
      PROVE  Stands(h, h', w) /\ Leaves(h, w, todo')
  <2>1. w \in Placed(h') <=> w \in Placed(h) BY <1>2 DEF Placed
  <2>2. \A r : CanFocus(h, r, w) => CanFocus(h', r, w) BY <1>2, CanFocusKept
  <2>3. Stands(h, h', w) BY <1>2, <1>4, <2>1, <2>2, StandsFrom
  <2> QED BY <2>3, LeavesForms
<1>5. Clicks(h', life', c', todo', asked', clicked') BY <1>3, <1>4, EventClicks
<1> QED BY <1>2, <1>5 DEF Rooted

\* A window that was hit may have the focus of its pane
LEMMA HitReady ==
  ASSUME Sane, NEW v \in UnderPoint, v # NoWin
  PROVE  v \in Listing(h) /\ Ready(h, v)
<1>1. Listed(h) /\ Memory(h) /\ h.main \notin Range(h.ordinary) BY ListingFacts DEF Handled
<1>2. v \in Listing(h) BY <1>1, UnderPointListed
<1>3. SUFFICES ASSUME Role(h, v) \in Pane PROVE CanFocus(h, Role(h, v), v) BY <1>2 DEF Ready
<1>4. v \in Placed(h) /\ Owner(v) = Role(h, v) BY <1>2, <1>3, ListingFacts
<1>5. v \in PanePopupSet \cup DialogSet \cup PopupSet \cup ({h.overlay} \ {NoWin})
             \cup RootSet \cup Range(h.ordinary) \cup ({h.main} \ {NoWin})
  <2>1. v \in Range(HitOrder(h)) BY DEF UnderPoint
  <2> QED BY <1>1, <2>1, HitSlab
<1>6. CASE v \in PanePopupSet \cup DialogSet
  <2>1. v \in Range(h.dialogs) \cup Range(h.popups) /\ v \in h.mapped
    BY <1>6 DEF PanePopupSet, DialogSet, Visible
  <2> QED BY <1>4, <2>1 DEF CanFocus, Members, InPane
<1>7. CASE v \in PopupSet BY <1>3, <1>4, <1>7 DEF PopupSet
<1>8. CASE v \in {h.main, h.overlay} BY <1>1, <1>3, <1>4, <1>8, PlacedTop
<1>9. CASE v \in RootSet
  <2>1. PICK p \in Pane : v = h.root[p] BY <1>9 DEF RootSet, Shown
  <2>2. p = Role(h, v) BY <1>1, <1>4, <2>1, PlacedWindows
  <2> QED BY <2>1, <2>2 DEF CanFocus
<1>10. CASE v \in Range(h.ordinary) BY <1>1, <1>3, <1>10, OrdinaryRole, ListingFacts
<1> QED BY <1>5, <1>6, <1>7, <1>8, <1>9, <1>10

\* A click: the handler that begins gives the window the keyboard
LEMMA PressClicks ==
  ASSUME Sane, Rooted(h, life), Clicks(h, life, c, todo, asked, clicked), NEW v, NEW b, Press(b, v)
  PROVE  Rooted(h', life') /\ Clicks(h', life', c', todo', asked', clicked')
<1>1. Listed(h) /\ Memory(h) /\ Handled(h, life, todo) /\ h.main \notin Range(h.ordinary)
  BY ListingFacts DEF Handled
<1>2. /\ todo = <<>> /\ life' = life /\ c' = c /\ asked' = asked
      /\ \/ Changed(h, h', SeatParts) /\ todo' = <<>> /\ clicked' = clicked
         \/ /\ Changed(h, h', SeatParts \cup {"ordFocus"}) /\ todo' = PressLeft(v)
            /\ v \notin Range(h.ordinary) => h'.ordFocus.target = NoFocus
            /\ v \in Range(h.ordinary) =>
                 /\ h'.ordFocus.win = v
                 /\ h'.ordFocus.target = IF v \in Unresolved THEN NoFocus ELSE c.target
            /\ clicked' = IF asked \/ c.shell \/ Repeats(v) THEN NoWin ELSE v
  BY <1>1, PressEffect
<1>3. CASE Changed(h, h', SeatParts) /\ todo' = <<>> /\ clicked' = clicked
  BY <1>2, <1>3, PointerClicks
<1>4. CASE /\ Changed(h, h', SeatParts \cup {"ordFocus"}) /\ todo' = PressLeft(v)
           /\ v \notin Range(h.ordinary) => h'.ordFocus.target = NoFocus
           /\ v \in Range(h.ordinary) =>
                /\ h'.ordFocus.win = v
                /\ h'.ordFocus.target = IF v \in Unresolved THEN NoFocus ELSE c.target
           /\ clicked' = IF asked \/ c.shell \/ Repeats(v) THEN NoWin ELSE v
  <2>1. SameLists(h, h') BY <1>1, <1>4, ChangedSame DEF SeatParts, ListFields
  <2>2. h'.kbd = h.kbd /\ h'.mapped = h.mapped BY <1>1, <1>4, ChangedParts DEF SeatParts
  <2>3. Rooted(h', life') BY <1>2, <2>1 DEF SameLists, Rooted
  <2>4. SUFFICES ASSUME clicked' # NoWin PROVE Clicks(h', life', c', todo', asked', clicked')
    BY <2>3 DEF Clicks
  <2>5. clicked' = v /\ v # NoWin /\ ~asked /\ ~c.shell /\ ~Repeats(v) BY <1>4, <2>4
  <2>6. v \in Listing(h) /\ Ready(h, v) /\ v \in Window
    <3>1. v \in UnderPoint BY DEF Press
    <3> QED BY <2>5, <3>1, HitReady, ListingFacts
  <2>7. KindOf[v] = "popup" => ParentOf[v] \in Come(life)
    <3>1. SUFFICES ASSUME KindOf[v] = "popup" PROVE v \in Range(h.popups) BY DEF Rooted
    <3> QED BY <1>1, <2>6, <3>1, KindsApart DEF Listing, Placed
  <2>8. /\ v \in Listing(h') /\ Role(h', v) = Role(h, v)
        /\ \A p, w : CanFocus(h', p, w) <=> CanFocus(h, p, w)
    BY <2>1, <2>2, <2>6, SameRoles
  <2>9. Ready(h', v) BY <2>6, <2>8 DEF Ready
  <2>10. (v \in Range(h'.ordinary) /\ h'.kbd # v) \/ Lone(h', v)
    <3>1. h'.ordinary = h.ordinary BY <2>1 DEF SameLists
    <3>2. v \in Range(h.ordinary) /\ h.kbd = v => c.target = NoFocus BY <2>5 DEF Repeats
    <3> QED BY <1>4, <2>2, <3>1, <3>2 DEF Lone
  <2>11. todo' \in {Cons(Clear, Clicked(v)), Clicked(v)} BY <1>4, <2>5 DEF PressLeft, Clicked
  <2>12. Pressing(h', v, todo') BY <2>9, <2>10, <2>11 DEF Pressing
  <2> QED BY <1>2, <2>5, <2>6, <2>7, <2>8, <2>12 DEF Clicks
<1> QED BY <1>2, <1>3, <1>4

LEMMA KeyClicks ==
  ASSUME Sane, Rooted(h, life), Clicks(h, life, c, todo, asked, clicked), PressKey
  PROVE  Rooted(h', life') /\ Clicks(h', life', c', todo', asked', clicked')
<1> DEFINE w == clicked
<1>1. h' = h /\ life' = life /\ c' = c /\ asked' = asked /\ clicked' = clicked /\ todo = <<>>
  BY DEF PressKey, Idle
<1>2. PICK e : e.op \in {"key", "toggle"} /\ todo' = <<Route, e>>
  <2> DEFINE k == [op |-> "key"]
             t == [op |-> "toggle"]
  <2>1. k.op = "key" /\ t.op = "toggle" /\ todo' \in {<<Route, k>>, <<Route, t>>} BY DEF PressKey
  <2> HIDE DEF k, t
  <2> QED BY <2>1
<1>3. ASSUME w \in Listing(h), Ready(h, w), InFront(h, w), Lone(h, w)
      PROVE  Stands(h, h', w) /\ Leaves(h, w, todo')
  <2>1. Stands(h, h', w) BY <1>1, <1>3 DEF Stands
  <2>2. IsList(<<>>) /\ IsList(Cons(e, <<>>)) /\ Range(Cons(e, <<>>)) = {e} BY EmptyList, ConsList
  <2>3. <<Route, e>> = Cons(Route, Cons(e, <<>>)) BY <2>2, ConsForms
  <2>4. Range(<<Route, e>>) = {Route, e} BY <2>2, <2>3, ConsList
  <2>5. Harmless(Role(h, w), w, Route) /\ Harmless(Role(h, w), w, e) BY <1>2 DEF Harmless, Route
  <2>6. Rerouted(<<Route, e>>) BY ReroutedForms
  <2> QED BY <1>2, <2>1, <2>4, <2>5, <2>6 DEF Leaves
<1>4. Clicks(h', life', c', todo', asked', clicked') BY <1>1, <1>3, EventClicks
<1> QED BY <1>1, <1>4

LEMMA ClicksInput ==
  ASSUME Sane, Rooted(h, life), Clicks(h, life, c, todo, asked, clicked), Input
  PROVE  Rooted(h', life') /\ Clicks(h', life', c', todo', asked', clicked')
<1>0. Listed(h) /\ Handled(h, life, todo) BY ListingFacts
<1>1. CASE (\E w : Motion(w)) \/ (\E b : ReleaseButton(b))
  <2>1. Changed(h, h', SeatParts) /\ todo = <<>> /\ todo' = <<>> /\ life' = life /\ c' = c /\ asked' = asked
    BY <1>0, <1>1, PointerEffect
  <2>2. clicked' = clicked BY <1>1 DEF Motion, ReleaseButton
  <2> QED BY <2>1, <2>2, PointerClicks
<1> QED BY <1>1, PressClicks, KeyClicks DEF Input

LEMMA ClicksNext ==
  ASSUME Sane, Settled(h, life, c, todo, asked), Rooted(h, life),
         Clicks(h, life, c, todo, asked, clicked), [Next]_vars
  PROVE  Rooted(h', life') /\ Clicks(h', life', c', todo', asked', clicked')
<1>1. {"target", "shell"} \subseteq DOMAIN c /\ Shaped(c) BY DEF Sane, RegionInv, Shaped, StateFields
<1>2. CASE Step BY <1>2, ClicksStep
<1>3. CASE WindowEvents \/ MainDemoted BY <1>3, ClicksWindows
<1>4. CASE Input BY <1>4, ClicksInput
<1>5. CASE ControlAsks \/ ControlToggles
  <2>1. h' = h /\ life' = life /\ clicked' = NoWin BY <1>5 DEF ControlAsks, ControlToggles, runtime
  <2> QED BY <2>1 DEF Clicks
<1>6. CASE ShellEnds \/ ControlChanges \/ UNCHANGED vars
  <2>1. h' = h /\ todo' = todo /\ life' = life /\ asked' = asked /\ clicked' = clicked
    BY <1>6, Zenon DEF ShellEnds, ControlChanges, runtime, vars
  <2>2. c'.target = c.target /\ (~c.shell => ~c'.shell)
    <3>1. ShellEnds => c'.target = c.target /\ ~c'.shell BY <1>1 DEF ShellEnds
    <3>2. ControlChanges => FocusKept(c, c') BY <1>1, ChangesFocus DEF Sane
    <3>3. UNCHANGED vars => c' = c BY DEF vars
    <3> QED BY <1>6, <3>1, <3>2, <3>3 DEF FocusKept
  <2>3. \A w : Aimed(h, c, w, todo) => Aimed(h, c', w, todo) BY <2>2 DEF Aimed
  <2> QED BY <2>1, <2>2, <2>3 DEF Clicks
<1> QED BY <1>2, <1>3, <1>4, <1>5, <1>6 DEF Next

LEMMA ClicksInit ==
  ASSUME Init
  PROVE  Rooted(h, life) /\ Clicks(h, life, c, todo, asked, clicked)
<1>1. Listed(h) /\ PanesOf(h) = {} BY ListedInit
<1>2. h = [main |-> NoWin, overlay |-> NoWin, root |-> [p \in Pane |-> NoWin],
           dialogs |-> <<>>, popups |-> <<>>, ordinary |-> <<>>, mapped |-> {},
           kbd |-> NoWin, ordFocus |-> NoOrd, focused |-> [p \in Pane |-> NoWin],
           history |-> [p \in Pane |-> <<>>], under |-> NoWin, grabbed |-> FALSE, grab |-> NoWin,
           down |-> {}, pressed |-> {}, canceled |-> {}]
  BY Zenon DEF Init
<1>3. h.dialogs = <<>> /\ h.popups = <<>> BY <1>2
<1>4. Rooted(h, life) BY <1>3, EmptyList DEF Rooted
<1>5. clicked = NoWin BY DEF Init
<1> QED BY <1>4, <1>5 DEF Clicks

\* What the handlers hold of the window that was clicked
ClickInv == Rooted(h, life) /\ Clicks(h, life, c, todo, asked, clicked)

\* The window that was clicked gets the keyboard at the end of the click or, when
\* focus is routed, from its pane and the target that name it; nothing that is
\* left to do gives the focus to another.
THEOREM ClickInvHolds == Spec => []ClickInv
<1>1. Init => ClickInv BY ClicksInit DEF ClickInv
<1>2. Listed(h) /\ RegionInv /\ FocusInv /\ ClickInv /\ [Next]_vars => ClickInv'
  <2> SUFFICES ASSUME Listed(h), RegionInv, FocusInv, ClickInv, [Next]_vars PROVE ClickInv' OBVIOUS
  <2>1. Sane /\ Settled(h, life, c, todo, asked) BY DEF Sane, FocusInv
  <2>2. Rooted(h', life') /\ Clicks(h', life', c', todo', asked', clicked')
    BY <2>1, ClicksNext DEF ClickInv
  <2> QED BY <2>2 DEF ClickInv
<1> QED BY <1>1, <1>2, ListsHoldTheirKind, RegionInvHolds, FocusInvHolds, PTL DEF Spec

\* A key typed after a click goes to the window that was clicked, or to that of
\* the main app or the overlay whose popup was clicked, unless something else
\* moved the focus since, for every set of windows and panes and every order of
\* events.
THEOREM ClickedWindowGetsKeysSafe == Spec => []ClickedWindowGetsKeys
<1>1. Listed(h) /\ RegionInv /\ FocusInv /\ ClickInv => ClickedWindowGetsKeys
  <2> DEFINE w == clicked
  <2> SUFFICES ASSUME Listed(h), RegionInv, FocusInv, ClickInv, todo # <<>>, Now = "key", w # NoWin
               PROVE  IF ~Unrouted(w) THEN h.kbd = w
                      ELSE ParentOf[w] \in {h.main, h.overlay} => h.kbd = ParentOf[w]
    BY DEF ClickedWindowGetsKeys
  <2>1. Due(h, life, todo) /\ IsList(todo) BY DEF FocusInv, Handled, Due
  <2>2. Next1 = <<>> BY <2>1, DueTail DEF Now, Next1
  <2>3. Range(todo) = {Head(todo)} BY <2>1, <2>2, EmptyList, TailList DEF Next1
  <2>4. ~Rerouted(todo) /\ ~Keyless(todo) BY <2>3 DEF Rerouted, Keyless, Now
  <2>5. Unrouted(w) <=> Orphan(h, w) BY DEF Unrouted, Orphan
  <2>6. ~Pressing(h, w, todo)
    <3>1. IsList(<<>>) /\ IsList(Cons(Focus(w), <<>>)) /\ IsList(Clicked(w))
      BY EmptyList, ConsList DEF Clicked
    <3>2. /\ Head(Cons(Focus(w), <<>>)) = Focus(w) /\ Head(Clicked(w)) = Note(w, TRUE)
          /\ Head(Cons(Clear, Clicked(w))) = Clear
      BY <3>1, ConsList DEF Clicked
    <3>3. Focus(w).op # "key" /\ Note(w, TRUE).op # "key" /\ Clear.op # "key" BY DEF Focus, Note, Clear
    <3> QED BY <3>2, <3>3 DEF Pressing, Now
  <2>7. Claims(h, w) => KeysOf(h, w) BY <2>4, <2>6 DEF ClickInv, Clicks, Aimed
  <2> QED BY <2>5, <2>7 DEF Claims, KeysOf
<1> QED BY <1>1, ListsHoldTheirKind, RegionInvHolds, FocusInvHolds, ClickInvHolds, PTL
=============================================================================
