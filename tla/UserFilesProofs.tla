--------------------------- MODULE UserFilesProofs ---------------------------
(***************************************************************************)
(* Proofs about what the processes of one user share on disk, for any      *)
(* processes, windows, layouts and bounds.                                 *)
(*                                                                         *)
(* The database (StateDb).  The two properties compare one save with the   *)
(* snapshot it was given, so most of the work is on the rows: Applies says *)
(* what apply leaves in the tables whatever was there before, and Reads    *)
(* that load gives back the layout of a window that is stored.  DbInv adds *)
(* what they need of a reachable state: RowsInv, that the rows a save      *)
(* finds are rows some save has written, and KnownInv, that each process   *)
(* owns the stored windows it knows unless another one knows them too.     *)
(*                                                                         *)
(* The directory (ConfigDir).  ConfigInv has three parts.  Shape says      *)
(* where the fields of the processes are; LegacyInv adds to the import     *)
(* property who may be about to import; ShownInv adds to the settings      *)
(* property what holds during a save, when the window that saves differs   *)
(* from the others.  A lemma per group of steps says what they do to the   *)
(* process that takes them, and the lemmas on LegacyInv and ShownInv use   *)
(* only that.                                                              *)
(*                                                                         *)
(* One window across restarts (SessionRestore).  RestoreInv says that the  *)
(* open tabs have identities of their own, below the next one, and that    *)
(* the rows describe the session saved last: for each of its tabs whose    *)
(* text is kept there is a state with that text.  SnapshotsDescribe and    *)
(* SavesOne establish it at a save, LoadsOne and Reads give the states     *)
(* back, and TabsRestored says which tabs load_state makes of them.        *)
(***************************************************************************)
EXTENDS UserFiles, FiniteSetTheorems, WellFoundedInduction, TLAPS

-----------------------------------------------------------------------------
(* Numbers, and the sequences that list a set. *)

\* Induction, over a set of numbers.
LEMMA NatSet ==
    ASSUME NEW S \in SUBSET Nat, 0 \in S, \A n \in S : n + 1 \in S
    PROVE  S = Nat
<1>. SUFFICES ASSUME Nat \ S # {} PROVE FALSE
  OBVIOUS
<1>1. PICK x \in Nat \ S : \A y \in Nat \ S : <<y, x>> \notin OpToRel(<, Nat)
  BY WFMin, NatLessThanWellFounded, Zenon
<1>2. \A y \in Nat \ S : ~(y < x)
  BY <1>1, Zenon DEF OpToRel
<1>3. x \in Nat /\ x # 0 /\ x - 1 \in Nat /\ x - 1 < x
  OBVIOUS
<1>4. x - 1 \in S
  BY <1>2, <1>3
<1>5. x \in S
  BY <1>3, <1>4
<1>. QED  BY <1>5

\* A strictly increasing function on 1 .. n is the identity.
LEMMA Increasing ==
    ASSUME NEW n \in Nat, NEW h \in [1 .. n -> 1 .. n],
           \A i, j \in 1 .. n : i < j => h[i] < h[j]
    PROVE  \A i \in 1 .. n : h[i] = i
<1>. DEFINE Above == {m \in Nat : m \in 1 .. n => m <= h[m]}
            Below == {m \in Nat : m < n => h[n - m] <= n - m}
<1>1. 0 \in Above
  OBVIOUS
<1>2. ASSUME NEW m \in Above PROVE m + 1 \in Above
  <2>. SUFFICES ASSUME m + 1 \in 1 .. n PROVE m + 1 <= h[m + 1]
    OBVIOUS
  <2>1. h[m + 1] \in 1 .. n
    OBVIOUS
  <2>2. CASE m = 0
    BY <2>1, <2>2
  <2>3. CASE m # 0
    <3>1. m \in 1 .. n /\ m < m + 1 /\ m <= h[m]
      BY <2>3
    <3>2. h[m] < h[m + 1] /\ h[m] \in 1 .. n
      BY <3>1
    <3>. QED  BY <2>1, <3>1, <3>2
  <2>. QED  BY <2>2, <2>3
<1>3. Above = Nat
  <2>. HIDE DEF Above
  <2>1. Above \subseteq Nat
    BY DEF Above
  <2>. QED  BY <1>1, <1>2, <2>1, NatSet
<1>4. 0 \in Below
  <2>. SUFFICES ASSUME 0 < n PROVE h[n] <= n
    OBVIOUS
  <2>. QED  OBVIOUS
<1>5. ASSUME NEW m \in Below PROVE m + 1 \in Below
  <2>. SUFFICES ASSUME m + 1 < n PROVE h[n - (m + 1)] <= n - (m + 1)
    OBVIOUS
  <2>1. n - (m + 1) \in 1 .. n /\ n - m \in 1 .. n /\ n - (m + 1) < n - m /\ m < n
    OBVIOUS
  <2>2. h[n - (m + 1)] < h[n - m] /\ h[n - m] <= n - m
    BY <2>1
  <2>3. h[n - (m + 1)] \in 1 .. n /\ h[n - m] \in 1 .. n
    BY <2>1
  <2>. QED  BY <2>1, <2>2, <2>3
<1>6. Below = Nat
  <2>. HIDE DEF Below
  <2>1. Below \subseteq Nat
    BY DEF Below
  <2>. QED  BY <1>4, <1>5, <2>1, NatSet
<1>7. ASSUME NEW i \in 1 .. n PROVE h[i] = i
  <2>1. i \in Nat /\ n - i \in Nat /\ n - i < n /\ n - (n - i) = i
    OBVIOUS
  <2>2. i <= h[i]
    BY <1>3, <2>1
  <2>3. h[i] <= i
    <3>1. n - i \in Below
      BY <1>6, <2>1
    <3>2. h[n - (n - i)] <= n - (n - i)
      BY <2>1, <3>1
    <3>. QED  BY <2>1, <3>2
  <2>4. h[i] \in 1 .. n
    OBVIOUS
  <2>. QED  BY <2>2, <2>3, <2>4
<1>. QED  BY <1>7

\* A sequence of SetToSeqs lists every element once.
LEMMA ListsAll ==
    ASSUME NEW S, IsFiniteSet(S), NEW s \in SetToSeqs(S)
    PROVE  /\ Cardinality(S) \in Nat /\ DOMAIN s = 1 .. Cardinality(S)
           /\ s \in [DOMAIN s -> S]
           /\ \A i, j \in DOMAIN s : s[i] = s[j] => i = j
           /\ \A x \in S : \E i \in DOMAIN s : s[i] = x
<1>. DEFINE n == Cardinality(S)
<1>1. n \in Nat
  BY FS_CardinalityType
<1>. HIDE DEF n
<1>2. s \in [1 .. n -> S] /\ \A i, j \in 1 .. n : s[i] = s[j] => i = j
  BY DEF SetToSeqs, n
<1>3. Cardinality(1 .. n) = n
  BY <1>1, FS_Interval
<1>4. s \in Injection(1 .. n, S)
  BY <1>2 DEF Injection, IsInjective
<1>5. s \in Surjection(1 .. n, S)
  BY <1>3, <1>4, FS_Injection DEF n
<1>6. \A x \in S : \E i \in 1 .. n : s[i] = x
  BY <1>5 DEF Surjection
<1>. QED  BY <1>1, <1>2, <1>6 DEF n

LEMMA IsList ==
    ASSUME NEW S, NEW n \in Nat, NEW s \in [1 .. n -> S],
           \A i, j \in 1 .. n : s[i] = s[j] => i = j,
           \A x \in S : \E i \in 1 .. n : s[i] = x
    PROVE  IsFiniteSet(S) /\ Cardinality(S) = n /\ s \in SetToSeqs(S)
<1>1. s \in Bijection(1 .. n, S)
  BY DEF Bijection, Injection, Surjection, IsInjective
<1>2. IsFiniteSet(1 .. n) /\ Cardinality(1 .. n) = n
  BY FS_Interval
<1>3. ExistsBijection(1 .. n, S)
  BY <1>1 DEF ExistsBijection
<1>4. IsFiniteSet(S) /\ Cardinality(S) = n
  BY <1>2, <1>3, FS_Bijection
<1>5. s \in SetToSeqs(S)
  BY <1>4 DEF SetToSeqs
<1>. QED  BY <1>4, <1>5

-----------------------------------------------------------------------------
(* What a row means. *)

IsRow(row) ==
    row = [position |-> row.position, meta |-> row.meta, content |-> row.content]

\* The rows of a window are those that a save of this layout writes.
Holds(table, w, l) ==
    \A i \in DOMAIN l.tabs : table[<<w, l.tabs[i].id>>] = StoredTab(l.tabs[i], i)

Stored(d, w, l) ==
    /\ TabRows(d, w) = {<<w, l.tabs[i].id>> : i \in DOMAIN l.tabs}
    /\ Holds(d.tabs, w, l)
    /\ d.windows[w].active = StoredWindow(l, 0).active

Shown == Layouts \cup {NewLayout}

LEMMA ShownAreLayouts == \A l \in Shown : IsLayout(l)
<1>1. IsLayout(NewLayout)
  <2>1. NewLayout.tabs = <<>> /\ NewLayout.active = 0
    BY DEF NewLayout, NoActive
  <2>2. <<>> \in Seq(Range(<<>>)) /\ Len(<<>>) = 0 /\ DOMAIN <<>> = {}
    OBVIOUS
  <2>3. Range(<<>>) = {}
    BY <2>2 DEF Range
  <2>. QED  BY <2>1, <2>2, <2>3 DEF IsLayout, NewLayout, NoActive
<1>. QED  BY <1>1, LayoutsAssumption DEF Shown

\* What an assumption about a layout says of its tabs.
LEMMA LayoutTabs ==
    ASSUME NEW l, IsLayout(l)
    PROVE  /\ Len(l.tabs) \in Nat /\ DOMAIN l.tabs = 1 .. Len(l.tabs)
           /\ l.tabs = [i \in 1 .. Len(l.tabs) |-> l.tabs[i]]
           /\ \A i \in DOMAIN l.tabs :
                 /\ l.tabs[i].id \in Nat
                 /\ l.tabs[i] = [id |-> l.tabs[i].id, meta |-> l.tabs[i].meta,
                                 content |-> l.tabs[i].content]
           /\ \A i, j \in DOMAIN l.tabs : l.tabs[i].id = l.tabs[j].id => i = j
<1>. DEFINE s == l.tabs
<1>1. s \in Seq(Range(s)) /\ \A i, j \in DOMAIN s : s[i].id = s[j].id => i = j
  BY DEF IsLayout
<1>2. \A t \in Range(s) :
         t.id \in Nat /\ t = [id |-> t.id, meta |-> t.meta, content |-> t.content]
  BY DEF IsLayout
<1>3. \A i \in DOMAIN s : s[i] \in Range(s)
  BY DEF Range
<1>. HIDE DEF s
<1>4. Len(s) \in Nat /\ DOMAIN s = 1 .. Len(s)
  BY <1>1
<1>5. s = [i \in 1 .. Len(s) |-> s[i]]
  BY <1>1
<1>. QED  BY <1>1, <1>2, <1>3, <1>4, <1>5 DEF s

\* ORDER BY position, id gives the tabs back in the order of the layout.
LEMMA LoadsTabs ==
    ASSUME NEW d, NEW w, NEW l, IsLayout(l), Stored(d, w, l)
    PROVE  LoadTabs(d, w) = l.tabs
<1>. DEFINE n == Len(l.tabs)
            S == TabRows(d, w)
            g == [i \in 1 .. n |-> <<w, l.tabs[i].id>>]
            Sorted(s) == \A i, j \in DOMAIN s : i < j => TabBefore(d, s[i], s[j])
<1>1. n \in Nat /\ DOMAIN l.tabs = 1 .. n
      /\ l.tabs = [i \in 1 .. n |-> l.tabs[i]]
  BY LayoutTabs
<1>2. \A i, j \in 1 .. n : l.tabs[i].id = l.tabs[j].id => i = j
  BY <1>1, LayoutTabs
<1>3. S = {<<w, l.tabs[i].id>> : i \in 1 .. n}
  BY <1>1 DEF Stored
<1>4. \A i \in 1 .. n : d.tabs[g[i]] = StoredTab(l.tabs[i], i)
  BY <1>1 DEF Stored, Holds
<1>. HIDE DEF n, S
<1>5. g \in [1 .. n -> S] /\ \A x \in S : \E i \in 1 .. n : g[i] = x
  BY <1>3
<1>6. \A i, j \in 1 .. n : g[i] = g[j] => i = j
  BY <1>2
<1>7. IsFiniteSet(S) /\ Cardinality(S) = n /\ g \in SetToSeqs(S)
  BY <1>1, <1>5, <1>6, IsList
<1>8. ASSUME NEW i \in 1 .. n PROVE d.tabs[g[i]].position = i
  <2>. HIDE DEF g
  <2>1. d.tabs[g[i]] = StoredTab(l.tabs[i], i)
    BY <1>4
  <2>2. StoredTab(l.tabs[i], i).position = i
    BY DEF StoredTab
  <2>. QED  BY <2>1, <2>2
<1>9. Sorted(g)
  <2>1. DOMAIN g = 1 .. n
    OBVIOUS
  <2>. HIDE DEF g
  <2>. QED  BY <1>1, <1>8, <2>1 DEF TabBefore
<1>. DEFINE keys == CHOOSE s \in SetToSeqs(S) : Sorted(s)
<1>10. keys \in SetToSeqs(S) /\ Sorted(keys)
  BY <1>7, <1>9
<1>11. LoadTabs(d, w) = [i \in DOMAIN keys |->
          [id |-> keys[i][2], meta |-> d.tabs[keys[i]].meta,
           content |-> d.tabs[keys[i]].content]]
  BY DEF LoadTabs, S
<1>. HIDE DEF keys, g
<1>12. DOMAIN keys = 1 .. n /\ keys \in [1 .. n -> S]
       /\ \A i, j \in 1 .. n : keys[i] = keys[j] => i = j
  BY <1>7, <1>10, ListsAll
<1>. DEFINE h == [i \in 1 .. n |-> CHOOSE j \in 1 .. n : g[j] = keys[i]]
<1>13. \A i \in 1 .. n : h[i] \in 1 .. n /\ g[h[i]] = keys[i]
  BY <1>5, <1>12
<1>14. \A i, j \in 1 .. n : i < j => h[i] < h[j]
  <2>. SUFFICES ASSUME NEW i \in 1 .. n, NEW j \in 1 .. n, i < j
                PROVE  h[i] < h[j]
    OBVIOUS
  <2>. HIDE DEF h
  <2>1. TabBefore(d, keys[i], keys[j])
    BY <1>10, <1>12
  <2>2. d.tabs[keys[i]].position = h[i] /\ d.tabs[keys[j]].position = h[j]
    BY <1>8, <1>13
  <2>3. keys[i] # keys[j]
    BY <1>1, <1>12
  <2>4. h[i] # h[j]
    BY <1>13, <2>3
  <2>5. h[i] \in 1 .. n /\ h[j] \in 1 .. n
    BY <1>13
  <2>. QED  BY <1>1, <2>1, <2>2, <2>4, <2>5 DEF TabBefore
<1>15. \A i \in 1 .. n : h[i] = i
  <2>1. h \in [1 .. n -> 1 .. n]
    BY <1>13
  <2>. HIDE DEF h
  <2>. QED  BY <1>1, <1>14, <2>1, Increasing
<1>16. \A i \in 1 .. n : keys[i] = g[i]
  BY <1>13, <1>15
<1>17. ASSUME NEW i \in 1 .. n
       PROVE  [id |-> keys[i][2], meta |-> d.tabs[keys[i]].meta,
               content |-> d.tabs[keys[i]].content] = l.tabs[i]
  <2>1. keys[i] = <<w, l.tabs[i].id>>
    BY <1>16 DEF g
  <2>2. d.tabs[keys[i]] = StoredTab(l.tabs[i], i)
    BY <1>4, <1>16
  <2>3. l.tabs[i] = [id |-> l.tabs[i].id, meta |-> l.tabs[i].meta,
                     content |-> l.tabs[i].content]
    BY <1>1, LayoutTabs
  <2>. QED  BY <2>1, <2>2, <2>3 DEF StoredTab
<1>. QED  BY <1>1, <1>11, <1>12, <1>17

\* What was stored is what is read, whatever else is in the database.
LEMMA Reads ==
    ASSUME NEW d, NEW w, NEW l, IsLayout(l), Stored(d, w, l)
    PROVE  Layout(LoadWindow(d, w)) = l
<1>. DEFINE hits == {i \in DOMAIN l.tabs : l.tabs[i].id = d.windows[w].active}
<1>1. LoadTabs(d, w) = l.tabs
  BY LoadsTabs
<1>2. LoadWindow(d, w).tabs = l.tabs
      /\ LoadWindow(d, w).active = IF hits = {} THEN NoActive ELSE Min(hits)
  BY <1>1 DEF LoadWindow
<1>3. d.windows[w].active = IF l.active \in DOMAIN l.tabs
                            THEN l.tabs[l.active].id ELSE NoTab
  BY DEF Stored, StoredWindow
<1>4. /\ DOMAIN l.tabs = 1 .. Len(l.tabs) /\ Len(l.tabs) \in Nat
      /\ \A i \in DOMAIN l.tabs : l.tabs[i].id \in Nat
      /\ \A i, j \in DOMAIN l.tabs : l.tabs[i].id = l.tabs[j].id => i = j
  BY LayoutTabs
<1>5. LoadWindow(d, w).active = l.active
  <2>1. CASE l.active \in DOMAIN l.tabs
    <3>1. hits = {l.active}
      BY <1>3, <1>4, <2>1
    <3>2. l.active <= l.active
      BY <1>4, <2>1
    <3>3. Min({l.active}) = l.active
      BY <3>2 DEF Min
    <3>. QED  BY <1>2, <3>1, <3>3
  <2>2. CASE l.active \notin DOMAIN l.tabs
    <3>1. hits = {}
      BY <1>3, <1>4, <2>2 DEF NoTab
    <3>2. l.active = NoActive
      BY <1>4, <2>2 DEF IsLayout, NoActive
    <3>. QED  BY <1>2, <3>1, <3>2
  <2>. QED  BY <2>1, <2>2
<1>. QED  BY <1>2, <1>5 DEF Layout, IsLayout

-----------------------------------------------------------------------------
(* Writing a snapshot. *)

AllRows(d) == \A k \in DOMAIN d.tabs : IsRow(d.tabs[k])

\* The rows of a window after it was written, and those of other windows before.
Keys(win) == {<<win.id, win.tabs[i].id>> : i \in DOMAIN win.tabs}
Foreign(d, win) == {k \in DOMAIN d.tabs : k[1] # win.id}

LEMMA RowUpdated ==
    ASSUME NEW row, IsRow(row), NEW i, NEW m
    PROVE  [row EXCEPT !.position = i, !.meta = m]
             = [position |-> i, meta |-> m, content |-> row.content]
<1>. DEFINE new == [row EXCEPT !.position = i, !.meta = m]
            columns == {"position", "meta", "content"}
<1>1. DOMAIN row = columns
  BY DEF IsRow
<1>2. new = [x \in columns |-> IF x = "position" THEN i
                               ELSE IF x = "meta" THEN m ELSE row[x]]
  BY <1>1
<1>3. DOMAIN new = columns /\ new = [x \in DOMAIN new |-> new[x]]
      /\ new.position = i /\ new.meta = m /\ new.content = row.content
  BY <1>2
<1>. HIDE DEF new
<1>4. new = [position |-> i, meta |-> m, content |-> row.content]
  BY <1>3
<1>. QED  BY <1>4 DEF new

\* apply_tabs writes the same row whether there was one or not.
LEMMA WritesTabs ==
    ASSUME NEW d, AllRows(d), NEW win, IsLayout(Layout(win))
    PROVE  /\ DOMAIN ApplyTabs(d.tabs, win) = Foreign(d, win) \cup Keys(win)
           /\ \A k \in Foreign(d, win) : ApplyTabs(d.tabs, win)[k] = d.tabs[k]
           /\ Holds(ApplyTabs(d.tabs, win), win.id, win)
<1>. DEFINE e == ApplyTabs(d.tabs, win)
            old == d.tabs
            index(id) == CHOOSE i \in DOMAIN win.tabs : win.tabs[i].id = id
            keys == {<<win.id, win.tabs[i].id>> : i \in DOMAIN win.tabs}
            foreign == {k \in DOMAIN old : k[1] # win.id}
<1>1. e = [k \in foreign \cup keys |->
             IF k \in foreign THEN old[k]
             ELSE IF k \in DOMAIN old
                  THEN TabRow(old[k], win.tabs[index(k[2])], index(k[2]))
                  ELSE StoredTab(win.tabs[index(k[2])], index(k[2]))]
  BY DEF ApplyTabs
<1>2. \A i, j \in DOMAIN win.tabs : win.tabs[i].id = win.tabs[j].id => i = j
  <2>. DEFINE l == Layout(win)
  <2>1. l.tabs = win.tabs
    BY DEF Layout
  <2>2. IsLayout(l)
    OBVIOUS
  <2>. HIDE DEF l
  <2>3. \A i, j \in DOMAIN l.tabs : l.tabs[i].id = l.tabs[j].id => i = j
    BY <2>2 DEF IsLayout
  <2>. QED  BY <2>1, <2>3
<1>3. ASSUME NEW i \in DOMAIN win.tabs
      PROVE  e[<<win.id, win.tabs[i].id>>] = StoredTab(win.tabs[i], i)
  <2>. DEFINE k == <<win.id, win.tabs[i].id>>
  <2>1. k \in keys /\ k[1] = win.id /\ k[2] = win.tabs[i].id
    OBVIOUS
  <2>2. k \notin foreign
    BY <2>1
  <2>3. index(win.tabs[i].id) = i
    BY <1>2
  <2>. HIDE DEF k, keys, foreign, index, e
  <2>4. e[k] = IF k \in DOMAIN old THEN TabRow(old[k], win.tabs[i], i)
               ELSE StoredTab(win.tabs[i], i)
    BY <1>1, <2>1, <2>2, <2>3
  <2>5. ASSUME k \in DOMAIN old
        PROVE  TabRow(old[k], win.tabs[i], i) = StoredTab(win.tabs[i], i)
    <3>. DEFINE row == old[k]
    <3>1. row = [position |-> row.position, meta |-> row.meta,
                 content |-> row.content]
      BY <2>5 DEF AllRows, IsRow
    <3>2. CASE old[k].content # win.tabs[i].content
      BY <3>2 DEF TabRow
    <3>3. CASE old[k].content = win.tabs[i].content
      <4>1. TabRow(old[k], win.tabs[i], i)
              = [old[k] EXCEPT !.position = i, !.meta = win.tabs[i].meta]
        BY <3>3 DEF TabRow
      <4>2. [old[k] EXCEPT !.position = i, !.meta = win.tabs[i].meta]
              = [position |-> i, meta |-> win.tabs[i].meta,
                 content |-> old[k].content]
        BY <3>1, RowUpdated DEF IsRow
      <4>. QED  BY <3>3, <4>1, <4>2 DEF StoredTab
    <3>. QED  BY <3>2, <3>3
  <2>6. e[k] = StoredTab(win.tabs[i], i)
    BY <2>4, <2>5
  <2>. QED  BY <2>6 DEF k
<1>4. DOMAIN e = foreign \cup keys
  <2>. HIDE DEF foreign, keys, e
  <2>. QED  BY <1>1
<1>5. \A k \in foreign : e[k] = old[k]
  <2>. HIDE DEF foreign, keys, e
  <2>. QED  BY <1>1
<1>. QED  BY <1>3, <1>4, <1>5 DEF Keys, Foreign, Holds

\* The window that is written holds its layout; no other one changes.
LEMMA WritesWindow ==
    ASSUME NEW d, AllRows(d), NEW win, IsLayout(Layout(win)), NEW n
    PROVE  LET e == ApplyWindow(d, win, n)
           IN  /\ WindowRows(e) = WindowRows(d) \cup {win.id}
               /\ AllRows(e)
               /\ Stored(e, win.id, Layout(win))
               /\ \A v \in WindowRows(d) \ {win.id} : \A l :
                     Stored(d, v, l) => Stored(e, v, l)
<1>. DEFINE e == ApplyWindow(d, win, n)
            keys == Keys(win)
            foreign == Foreign(d, win)
<1>1. e.windows = [w \in WindowRows(d) \cup {win.id} |->
                      IF w = win.id THEN StoredWindow(win, n) ELSE d.windows[w]]
  BY DEF ApplyWindow
<1>2. e.tabs = ApplyTabs(d.tabs, win)
  BY DEF ApplyWindow
<1>. HIDE DEF e, keys, foreign
<1>3. \A k \in Foreign(d, win) : ApplyTabs(d.tabs, win)[k] = d.tabs[k]
  BY WritesTabs
<1>4. DOMAIN e.tabs = foreign \cup keys
  BY <1>2, WritesTabs DEF keys, foreign
<1>5. \A k \in foreign : e.tabs[k] = d.tabs[k]
  BY <1>2, <1>3 DEF foreign
<1>6. Holds(e.tabs, win.id, win)
  BY <1>2, WritesTabs
<1>7. WindowRows(e) = WindowRows(d) \cup {win.id}
  BY <1>1 DEF WindowRows
<1>8. AllRows(e)
  <2>1. ASSUME NEW k \in foreign PROVE IsRow(e.tabs[k])
    BY <1>5 DEF AllRows, foreign, Foreign
  <2>2. ASSUME NEW k \in keys PROVE IsRow(e.tabs[k])
    <3>1. PICK i \in DOMAIN win.tabs : k = <<win.id, win.tabs[i].id>>
      BY DEF keys, Keys
    <3>2. e.tabs[k] = StoredTab(win.tabs[i], i)
      BY <1>6, <3>1 DEF Holds
    <3>. QED  BY <3>2 DEF IsRow, StoredTab
  <2>. QED  BY <1>4, <2>1, <2>2 DEF AllRows
<1>9. Stored(e, win.id, Layout(win))
  <2>1. Layout(win).tabs = win.tabs /\ Layout(win).active = win.active
    BY DEF Layout
  <2>2. \A k \in keys : k[1] = win.id
    BY DEF keys, Keys
  <2>3. TabRows(e, win.id) = keys
    BY <1>4, <2>2 DEF TabRows, foreign, Foreign
  <2>4. e.windows[win.id] = StoredWindow(win, n)
    BY <1>1
  <2>5. StoredWindow(win, n).active = StoredWindow(Layout(win), 0).active
    BY <2>1 DEF StoredWindow
  <2>. QED  BY <1>6, <2>1, <2>3, <2>4, <2>5 DEF Stored, keys, Keys, Holds
<1>10. ASSUME NEW v \in WindowRows(d) \ {win.id}, NEW l, Stored(d, v, l)
      PROVE  Stored(e, v, l)
  <2>1. \A k \in keys : k[1] = win.id
    BY DEF keys, Keys
  <2>2. TabRows(e, v) = TabRows(d, v)
    BY <1>4, <2>1 DEF TabRows, foreign, Foreign
  <2>3. \A k \in TabRows(d, v) : k \in foreign
    BY DEF TabRows, foreign, Foreign
  <2>4. ASSUME NEW i \in DOMAIN l.tabs
        PROVE  e.tabs[<<v, l.tabs[i].id>>] = StoredTab(l.tabs[i], i)
    <3>1. <<v, l.tabs[i].id>> \in TabRows(d, v)
      BY <1>10 DEF Stored
    <3>. QED  BY <1>5, <1>10, <2>3, <3>1 DEF Stored, Holds
  <2>5. e.windows[v] = d.windows[v]
    BY <1>1
  <2>. QED  BY <1>10, <2>2, <2>4, <2>5 DEF Stored, Holds
<1>. QED  BY <1>7, <1>8, <1>9, <1>10 DEF e

\* What the database is after the first n windows of a snapshot were written.
Written(d, e, snapshot, n) ==
    /\ WindowRows(e) = WindowRows(d) \cup {snapshot[i].id : i \in 1 .. n}
    /\ AllRows(e)
    /\ \A i \in 1 .. n : Stored(e, snapshot[i].id, Layout(snapshot[i]))
    /\ \A v \in WindowRows(d) \ {snapshot[i].id : i \in 1 .. n} : \A l :
          Stored(d, v, l) => Stored(e, v, l)

\* The recursive definition in Apply has a solution.
Steps(d, snapshot, m, g) ==
    g = [n \in 0 .. m |->
           IF n = 0 THEN d ELSE ApplyWindow(g[n - 1], snapshot[n], n)]

LEMMA StepsExist ==
    ASSUME NEW d, NEW snapshot
    PROVE  \A m \in Nat : \E g : Steps(d, snapshot, m, g)
<1>. DEFINE S == {m \in Nat : \E g : Steps(d, snapshot, m, g)}
<1>1. 0 \in S
  <2>. DEFINE g == [n \in 0 .. 0 |-> d]
  <2>1. g = [n \in 0 .. 0 |-> IF n = 0 THEN d ELSE ApplyWindow(g[n - 1], snapshot[n], n)]
    OBVIOUS
  <2>. QED  BY <2>1 DEF Steps
<1>2. ASSUME NEW m \in S PROVE m + 1 \in S
  <2>1. PICK g : g = [n \in 0 .. m |->
                        IF n = 0 THEN d ELSE ApplyWindow(g[n - 1], snapshot[n], n)]
    BY DEF Steps
  <2>. DEFINE last == ApplyWindow(g[m], snapshot[m + 1], m + 1)
              h == [n \in 0 .. (m + 1) |-> IF n = m + 1 THEN last ELSE g[n]]
  <2>2. ASSUME NEW n \in 0 .. (m + 1)
        PROVE  h[n] = IF n = 0 THEN d ELSE ApplyWindow(h[n - 1], snapshot[n], n)
    <3>1. CASE n = m + 1
      <4>1. n # 0 /\ n - 1 = m /\ h[n] = last /\ h[m] = g[m]
        BY <3>1
      <4>. QED  BY <3>1, <4>1
    <3>2. CASE n = 0
      BY <2>1, <3>2
    <3>3. CASE n # m + 1 /\ n # 0
      <4>1. /\ n \in 0 .. m /\ h[n] = g[n]
            /\ n - 1 \in 0 .. (m + 1) /\ n - 1 # m + 1
        BY <3>3
      <4>2. h[n - 1] = g[n - 1]
        BY <4>1
      <4>3. g[n] = ApplyWindow(g[n - 1], snapshot[n], n)
        BY <2>1, <3>3, <4>1
      <4>. QED  BY <3>3, <4>1, <4>2, <4>3
    <3>. QED  BY <3>1, <3>2, <3>3
  <2>3. h = [n \in 0 .. (m + 1) |-> h[n]]
    OBVIOUS
  <2>. HIDE DEF h
  <2>4. h = [n \in 0 .. (m + 1) |->
               IF n = 0 THEN d ELSE ApplyWindow(h[n - 1], snapshot[n], n)]
    BY <2>2, <2>3
  <2>. QED  BY <2>4 DEF Steps
<1>. QED  BY <1>1, <1>2, NatSet

LEMMA ApplySteps ==
    ASSUME NEW d, NEW snapshot, Len(snapshot) \in Nat, NEW closing
    PROVE  \E g : /\ g[0] = d
                  /\ \A n \in 1 .. Len(snapshot) :
                        g[n] = ApplyWindow(g[n - 1], snapshot[n], n)
                  /\ Apply(d, snapshot, closing)
                       = DeleteWindows(g[Len(snapshot)],
                                       closing \ PresentWindows(snapshot))
<1>. DEFINE g == CHOOSE f : Steps(d, snapshot, Len(snapshot), f)
<1>1. Steps(d, snapshot, Len(snapshot), g)
  BY StepsExist
<1>2. Apply(d, snapshot, closing)
        = DeleteWindows(g[Len(snapshot)], closing \ PresentWindows(snapshot))
  BY DEF Apply, Steps
<1>. HIDE DEF g
<1>3. \A n \in 0 .. Len(snapshot) :
         g[n] = IF n = 0 THEN d ELSE ApplyWindow(g[n - 1], snapshot[n], n)
  BY <1>1 DEF Steps
<1>4. g[0] = d /\ \A n \in 1 .. Len(snapshot) :
         g[n] = ApplyWindow(g[n - 1], snapshot[n], n)
  BY <1>3
<1>. QED  BY <1>2, <1>4

\* A snapshot of layouts, each window once.
IsSnapshot(snapshot) ==
    /\ Len(snapshot) \in Nat /\ DOMAIN snapshot = 1 .. Len(snapshot)
    /\ \A i \in DOMAIN snapshot : IsLayout(Layout(snapshot[i]))
    /\ \A i, j \in DOMAIN snapshot : snapshot[i].id = snapshot[j].id => i = j

LEMMA WritesAll ==
    ASSUME NEW d, AllRows(d), NEW snapshot, IsSnapshot(snapshot), NEW g,
           g[0] = d,
           \A n \in 1 .. Len(snapshot) : g[n] = ApplyWindow(g[n - 1], snapshot[n], n)
    PROVE  Written(d, g[Len(snapshot)], snapshot, Len(snapshot))
<1>. DEFINE S == {n \in Nat : n <= Len(snapshot) => Written(d, g[n], snapshot, n)}
<1>1. Len(snapshot) \in Nat
  BY DEF IsSnapshot
<1>2. 0 \in S
  BY DEF Written
<1>3. ASSUME NEW n \in S PROVE n + 1 \in S
  <2>. SUFFICES ASSUME n + 1 <= Len(snapshot)
                PROVE  Written(d, g[n + 1], snapshot, n + 1)
    OBVIOUS
  <2>1. n \in Nat /\ n + 1 \in 1 .. Len(snapshot) /\ n + 1 - 1 = n /\ n <= Len(snapshot)
    BY <1>1
  <2>2. Written(d, g[n], snapshot, n)
    BY <2>1
  <2>. DEFINE win == snapshot[n + 1]
              e == g[n]
              f == g[n + 1]
              ids == {snapshot[i].id : i \in 1 .. n}
  <2>3. f = ApplyWindow(e, win, n + 1)
    BY <2>1
  <2>4. AllRows(e) /\ IsLayout(Layout(win))
    BY <2>1, <2>2 DEF Written, IsSnapshot
  <2>. HIDE DEF S, win, e, f
  <2>5. /\ WindowRows(f) = WindowRows(e) \cup {win.id}
        /\ AllRows(f)
        /\ Stored(f, win.id, Layout(win))
        /\ \A v \in WindowRows(e) \ {win.id} : \A l : Stored(e, v, l) => Stored(f, v, l)
    BY <2>3, <2>4, WritesWindow
  <2>6. /\ WindowRows(e) = WindowRows(d) \cup ids
        /\ \A i \in 1 .. n : Stored(e, snapshot[i].id, Layout(snapshot[i]))
        /\ \A v \in WindowRows(d) \ ids : \A l : Stored(d, v, l) => Stored(e, v, l)
    BY <2>2 DEF Written, e
  <2>7. \A i : i \in 1 .. (n + 1) <=> i \in 1 .. n \/ i = n + 1
    BY <2>1
  <2>8. {snapshot[i].id : i \in 1 .. (n + 1)} = ids \cup {win.id}
    BY <2>7 DEF win
  <2>9. ASSUME NEW i \in 1 .. n
        PROVE  Stored(f, snapshot[i].id, Layout(snapshot[i]))
    <3>1. i \in DOMAIN snapshot /\ n + 1 \in DOMAIN snapshot /\ i # n + 1
      BY <1>1, <2>1 DEF IsSnapshot
    <3>2. snapshot[i].id # win.id
      BY <3>1 DEF IsSnapshot, win
    <3>3. snapshot[i].id \in WindowRows(e)
      BY <2>6
    <3>. QED  BY <2>5, <2>6, <3>2, <3>3
  <2>10. ASSUME NEW i \in 1 .. (n + 1)
         PROVE  Stored(f, snapshot[i].id, Layout(snapshot[i]))
    BY <2>5, <2>7, <2>9 DEF win
  <2>11. ASSUME NEW v \in WindowRows(d) \ (ids \cup {win.id}), NEW l, Stored(d, v, l)
         PROVE  Stored(f, v, l)
    BY <2>5, <2>6, <2>11
  <2>. HIDE DEF ids
  <2>12. WindowRows(f) = WindowRows(d) \cup (ids \cup {win.id})
    BY <2>5, <2>6
  <2>. QED  BY <2>5, <2>8, <2>10, <2>11, <2>12 DEF Written, f
<1>4. S = Nat
  <2>. HIDE DEF S
  <2>1. S \subseteq Nat
    BY DEF S
  <2>. QED  BY <1>2, <1>3, <2>1, NatSet
<1>. QED  BY <1>1, <1>4

\* StateDb::apply: the windows of the snapshot hold their layouts, those that were
\* closed are gone, and no other row changed.
LEMMA Applies ==
    ASSUME NEW d, AllRows(d), NEW snapshot, IsSnapshot(snapshot), NEW closing
    PROVE  LET e == Apply(d, snapshot, closing)
               present == PresentWindows(snapshot)
           IN  /\ WindowRows(e) = (WindowRows(d) \ closing) \cup present
               /\ AllRows(e)
               /\ \A i \in DOMAIN snapshot :
                     Stored(e, snapshot[i].id, Layout(snapshot[i]))
               /\ \A v \in WindowRows(e) \ present : \A l :
                     Stored(d, v, l) => Stored(e, v, l)
<1>. DEFINE e == Apply(d, snapshot, closing)
            present == PresentWindows(snapshot)
            gone == closing \ present
<1>1. Len(snapshot) \in Nat /\ DOMAIN snapshot = 1 .. Len(snapshot)
  BY DEF IsSnapshot
<1>2. PICK g : /\ g[0] = d
               /\ \A n \in 1 .. Len(snapshot) :
                     g[n] = ApplyWindow(g[n - 1], snapshot[n], n)
               /\ e = DeleteWindows(g[Len(snapshot)], gone)
  BY <1>1, ApplySteps
<1>. DEFINE f == g[Len(snapshot)]
<1>3. Written(d, f, snapshot, Len(snapshot))
  BY <1>2, WritesAll
<1>4. e = DeleteWindows(f, gone)
  BY <1>2
<1>5. present = {snapshot[i].id : i \in 1 .. Len(snapshot)}
  BY <1>1 DEF PresentWindows
<1>. HIDE DEF e, f
<1>6. e.windows = [w \in WindowRows(f) \ gone |-> f.windows[w]]
  BY <1>4 DEF DeleteWindows
<1>7. e.tabs = [k \in {k \in DOMAIN f.tabs : k[1] \notin gone} |-> f.tabs[k]]
  BY <1>4 DEF DeleteWindows
<1>8. WindowRows(f) = WindowRows(d) \cup present
  BY <1>3, <1>5 DEF Written
<1>9. WindowRows(e) = WindowRows(f) \ gone
  BY <1>6 DEF WindowRows
<1>10. AllRows(e)
  BY <1>3, <1>7 DEF Written, AllRows
<1>11. ASSUME NEW v \in WindowRows(e), NEW l, Stored(f, v, l)
       PROVE  Stored(e, v, l)
  <2>1. v \notin gone
    BY <1>9
  <2>2. TabRows(e, v) = TabRows(f, v)
    BY <1>7, <2>1 DEF TabRows
  <2>3. ASSUME NEW i \in DOMAIN l.tabs
        PROVE  e.tabs[<<v, l.tabs[i].id>>] = StoredTab(l.tabs[i], i)
    <3>1. <<v, l.tabs[i].id>> \in TabRows(e, v)
      BY <1>11, <2>2 DEF Stored
    <3>2. <<v, l.tabs[i].id>> \in DOMAIN e.tabs
      BY <3>1 DEF TabRows
    <3>3. e.tabs[<<v, l.tabs[i].id>>] = f.tabs[<<v, l.tabs[i].id>>]
      BY <1>7, <3>2
    <3>. QED  BY <1>11, <3>3 DEF Stored, Holds
  <2>4. e.windows[v] = f.windows[v]
    BY <1>6 DEF WindowRows
  <2>. QED  BY <1>11, <2>2, <2>3, <2>4 DEF Stored, Holds
<1>12. ASSUME NEW i \in DOMAIN snapshot
       PROVE  Stored(e, snapshot[i].id, Layout(snapshot[i]))
  <2>1. snapshot[i].id \in present
    BY DEF PresentWindows
  <2>2. Stored(f, snapshot[i].id, Layout(snapshot[i]))
    BY <1>1, <1>3 DEF Written
  <2>. QED  BY <1>8, <1>9, <1>11, <2>1, <2>2
<1>13. ASSUME NEW v \in WindowRows(e) \ present, NEW l, Stored(d, v, l)
       PROVE  Stored(e, v, l)
  <2>1. v \in WindowRows(d) \ {snapshot[i].id : i \in 1 .. Len(snapshot)}
    BY <1>5, <1>8, <1>9
  <2>2. Stored(f, v, l)
    BY <1>3, <1>13, <2>1 DEF Written
  <2>. QED  BY <1>11, <2>2
<1>14. WindowRows(e) = (WindowRows(d) \ closing) \cup present
  BY <1>8, <1>9
<1>. QED  BY <1>10, <1>12, <1>13, <1>14 DEF e

-----------------------------------------------------------------------------
(* The invariant. *)

\* Rows and windows: every window that is stored is stored as one that was shown.
RowsInv ==
    /\ AllRows(db)
    /\ \A w \in WindowRows(db) : \E l \in Shown : Stored(db, w, l)

DbTypes ==
    /\ phase \in [Processes -> {"down", "loading", "up"}]
    /\ DOMAIN session = Processes
    /\ \A p \in Processes : \A w \in Open(p) : session[p][w] \in Shown
    /\ owned \in [Processes -> SUBSET WindowIds]
    /\ failed \in [Processes -> SUBSET WindowIds]
    /\ nextId \in 1 .. (MaxWindows + 1)
    /\ known \in [Processes -> SUBSET WindowIds]

\* A process that is up owns the stored windows it knows, or another process knows
\* them too.
Claimed(p) ==
    phase[p] = "up" =>
        \A w \in WindowRows(db) \cap known[p] :
            w \in owned[p] \/ \E q \in Processes \ {p} : w \in known[q]

KnownInv ==
    /\ WindowRows(db) \subseteq 1 .. (nextId - 1)
    /\ \A p \in Processes : /\ Open(p) \subseteq known[p]
                             /\ known[p] \subseteq 1 .. (nextId - 1)
    /\ \A p \in Processes : Claimed(p)

DbInv == DbTypes /\ RowsInv /\ KnownInv

LEMMA IdsAreNumbers ==
    ASSUME DbTypes
    PROVE  /\ MaxWindows \in Nat /\ nextId \in Nat /\ nextId - 1 \in Nat
           /\ 1 .. (nextId - 1) \subseteq WindowIds
           /\ \A i \in 1 .. (nextId - 1) : i # nextId
           /\ nextId \in WindowIds => nextId + 1 \in 1 .. (MaxWindows + 1)
BY LayoutsAssumption DEF DbTypes, WindowIds

LEMMA TypesOfInv == DbInv => DbTypeOK
<1>. SUFFICES ASSUME DbInv PROVE DbTypeOK
  OBVIOUS
<1>1. DbTypes /\ KnownInv
  BY DEF DbInv
<1>2. 1 .. (nextId - 1) \subseteq WindowIds
  BY <1>1, IdsAreNumbers
<1>3. WindowRows(db) \subseteq WindowIds
  BY <1>1, <1>2 DEF KnownInv
<1>4. \A p \in Processes : Open(p) \subseteq WindowIds
  BY <1>1, <1>2 DEF KnownInv
<1>. QED  BY <1>1, <1>3, <1>4 DEF DbTypeOK, DbTypes, Shown

\* build_windows_state hands every open window over once, as it is shown.
LEMMA SnapshotsAreSnapshots ==
    ASSUME DbInv, NEW p \in Processes, NEW snapshot \in Snapshots(p)
    PROVE  /\ IsSnapshot(snapshot)
           /\ PresentWindows(snapshot) = Open(p)
           /\ \A i \in DOMAIN snapshot :
                 /\ snapshot[i].id \in Open(p)
                 /\ Layout(snapshot[i]) = session[p][snapshot[i].id]
<1>1. PICK order \in SetToSeqs(Open(p)) :
         snapshot = [i \in DOMAIN order |->
                       [id |-> order[i], tabs |-> session[p][order[i]].tabs,
                        active |-> session[p][order[i]].active]]
  BY DEF Snapshots
<1>2. IsFiniteSet(Open(p))
  <2>1. Open(p) \subseteq 1 .. (nextId - 1) /\ nextId - 1 \in Nat
    BY IdsAreNumbers DEF DbInv, KnownInv
  <2>2. IsFiniteSet(1 .. (nextId - 1))
    BY <2>1, FS_Interval
  <2>. QED  BY <2>1, <2>2, FS_Subset
<1>. DEFINE n == Cardinality(Open(p))
<1>3. /\ n \in Nat /\ DOMAIN order = 1 .. n
      /\ order \in [DOMAIN order -> Open(p)]
      /\ \A i, j \in DOMAIN order : order[i] = order[j] => i = j
      /\ \A x \in Open(p) : \E i \in DOMAIN order : order[i] = x
  BY <1>2, ListsAll
<1>. HIDE DEF n
<1>4. /\ DOMAIN snapshot = 1 .. n
      /\ \A i \in 1 .. n : snapshot[i] =
            [id |-> order[i], tabs |-> session[p][order[i]].tabs,
             active |-> session[p][order[i]].active]
  BY <1>1, <1>3
<1>5. Len(snapshot) = n
  BY <1>1, <1>3
<1>6. ASSUME NEW i \in 1 .. n
      PROVE  /\ snapshot[i].id = order[i] /\ order[i] \in Open(p)
             /\ Layout(snapshot[i]) = session[p][order[i]]
             /\ IsLayout(session[p][order[i]])
  <2>1. order[i] \in Open(p)
    BY <1>3
  <2>2. session[p][order[i]] \in Shown
    BY <2>1 DEF DbInv, DbTypes
  <2>3. IsLayout(session[p][order[i]])
    BY <2>2, ShownAreLayouts
  <2>4. session[p][order[i]] = [tabs |-> session[p][order[i]].tabs,
                                active |-> session[p][order[i]].active]
    BY <2>3 DEF IsLayout
  <2>5. snapshot[i].id = order[i]
        /\ snapshot[i].tabs = session[p][order[i]].tabs
        /\ snapshot[i].active = session[p][order[i]].active
    BY <1>4
  <2>. QED  BY <2>1, <2>3, <2>4, <2>5 DEF Layout
<1>7. IsSnapshot(snapshot)
  BY <1>3, <1>4, <1>5, <1>6 DEF IsSnapshot
<1>8. PresentWindows(snapshot) = Open(p)
  <2>1. \A w \in PresentWindows(snapshot) : w \in Open(p)
    BY <1>4, <1>6 DEF PresentWindows
  <2>2. ASSUME NEW w \in Open(p) PROVE w \in PresentWindows(snapshot)
    <3>1. PICK i \in DOMAIN order : order[i] = w
      BY <1>3
    <3>2. i \in DOMAIN snapshot /\ snapshot[i].id = w
      BY <1>3, <1>4, <1>6, <3>1
    <3>. QED  BY <3>2 DEF PresentWindows
  <2>. QED  BY <2>1, <2>2
<1>9. \A i \in DOMAIN snapshot :
         /\ snapshot[i].id \in Open(p)
         /\ Layout(snapshot[i]) = session[p][snapshot[i].id]
  BY <1>4, <1>6
<1>. QED  BY <1>7, <1>8, <1>9

\* A save that commits: what is stored, what is owned.
LEMMA Commits ==
    ASSUME DbInv, NEW p \in Processes, ApplyCommits(p)
    PROVE  /\ WindowRows(db') = (WindowRows(db) \ owned[p]) \cup Open(p)
           /\ owned' = [owned EXCEPT ![p] = Open(p)]
           /\ \A w \in Open(p) : Stored(db', w, session[p][w])
           /\ RowsInv'
<1>1. PICK snapshot \in Snapshots(p) :
         /\ db' = Apply(db, snapshot, owned[p])
         /\ owned' = [owned EXCEPT ![p] = PresentWindows(snapshot)]
  BY DEF ApplyCommits
<1>2. /\ IsSnapshot(snapshot)
      /\ PresentWindows(snapshot) = Open(p)
      /\ \A i \in DOMAIN snapshot :
            /\ snapshot[i].id \in Open(p)
            /\ Layout(snapshot[i]) = session[p][snapshot[i].id]
  BY SnapshotsAreSnapshots
<1>3. AllRows(db)
  BY DEF DbInv, RowsInv
<1>4. /\ WindowRows(db') = (WindowRows(db) \ owned[p]) \cup Open(p)
      /\ AllRows(db')
      /\ \A i \in DOMAIN snapshot : Stored(db', snapshot[i].id, Layout(snapshot[i]))
      /\ \A v \in WindowRows(db') \ Open(p) : \A l :
            Stored(db, v, l) => Stored(db', v, l)
  BY <1>1, <1>2, <1>3, Applies
<1>5. ASSUME NEW w \in Open(p) PROVE Stored(db', w, session[p][w])
  <2>1. PICK i \in DOMAIN snapshot : snapshot[i].id = w
    BY <1>2 DEF PresentWindows
  <2>. QED  BY <1>2, <1>4, <2>1
<1>6. ASSUME NEW w \in WindowRows(db') PROVE \E l \in Shown : Stored(db', w, l)
  <2>1. CASE w \in Open(p)
    <3>1. session[p][w] \in Shown
      BY <2>1 DEF DbInv, DbTypes
    <3>. QED  BY <1>5, <2>1, <3>1
  <2>2. CASE w \notin Open(p)
    <3>1. w \in WindowRows(db)
      BY <1>4, <2>2
    <3>2. PICK l \in Shown : Stored(db, w, l)
      BY <3>1 DEF DbInv, RowsInv
    <3>. QED  BY <1>4, <2>2, <3>2
  <2>. QED  BY <2>1, <2>2
<1>7. RowsInv'
  BY <1>4, <1>6 DEF RowsInv
<1>. QED  BY <1>1, <1>2, <1>4, <1>5, <1>7

LEMMA InitDbInv == DbInit => DbInv
<1>. SUFFICES ASSUME DbInit PROVE DbInv
  OBVIOUS
<1>1. DOMAIN EmptyDb.tabs = {} /\ WindowRows(EmptyDb) = {}
  BY DEF EmptyDb, WindowRows
<1>2. RowsInv
  BY <1>1 DEF DbInit, RowsInv, AllRows
<1>3. \A p \in Processes : Open(p) = {}
  BY DEF DbInit, Open, NoWindows
<1>4. nextId \in 1 .. (MaxWindows + 1)
  BY LayoutsAssumption DEF DbInit
<1>5. DbTypes
  BY <1>3, <1>4 DEF DbInit, DbTypes
<1>6. KnownInv
  BY <1>1, <1>3 DEF DbInit, KnownInv, Claimed
<1>. QED  BY <1>2, <1>5, <1>6 DEF DbInv

\* What the saves, the closings and a kill have in common: a transaction commits or
\* not, no window opens, no process comes up.
Closes ==
    /\ phase' \in [Processes -> {"down", "loading", "up"}]
    /\ \A q \in Processes : phase'[q] = "up" => phase[q] = "up"
    /\ DOMAIN session' = Processes
    /\ \A q \in Processes : \A w \in DOMAIN session'[q] :
          w \in DOMAIN session[q] /\ session'[q][w] = session[q][w]
    /\ failed' \in [Processes -> SUBSET WindowIds]
    /\ UNCHANGED <<nextId, known>>

LEMMA ClosingTypes ==
    ASSUME DbInv, Closes, owned' \in [Processes -> SUBSET WindowIds]
    PROVE  /\ DbTypes'
           /\ \A q \in Processes : /\ Open(q)' \subseteq known'[q]
                                    /\ known'[q] \subseteq 1 .. (nextId' - 1)
<1>1. \A q \in Processes : \A w \in Open(q)' : session'[q][w] \in Shown
  BY DEF DbInv, DbTypes, Closes, Open
<1>2. DbTypes'
  BY <1>1 DEF DbInv, DbTypes, Closes
<1>3. \A q \in Processes : Open(q)' \subseteq known'[q]
  BY DEF DbInv, KnownInv, Closes, Open
<1>4. \A q \in Processes : known'[q] \subseteq 1 .. (nextId' - 1)
  BY DEF DbInv, KnownInv, Closes
<1>. QED  BY <1>2, <1>3, <1>4

LEMMA FailedSaveStep ==
    ASSUME DbInv, Closes, UNCHANGED <<db, owned>>
    PROVE  DbInv'
<1>1. RowsInv'
  BY DEF DbInv, RowsInv
<1>2. \A q \in Processes : Claimed(q)'
  BY DEF DbInv, KnownInv, Claimed, Closes
<1>3. owned' \in [Processes -> SUBSET WindowIds]
  BY DEF DbInv, DbTypes
<1>4. DbTypes' /\ \A q \in Processes : /\ Open(q)' \subseteq known'[q]
                                       /\ known'[q] \subseteq 1 .. (nextId' - 1)
  BY <1>3, ClosingTypes
<1>5. WindowRows(db)' \subseteq 1 .. (nextId' - 1)
  BY DEF DbInv, KnownInv, Closes
<1>. QED  BY <1>1, <1>2, <1>4, <1>5 DEF DbInv, KnownInv

\* What a commit deletes was owned; what it adds is open here.
LEMMA CommitStep ==
    ASSUME DbInv, Closes, NEW p \in Processes, ApplyCommits(p)
    PROVE  DbInv'
<1>1. /\ WindowRows(db)' = (WindowRows(db) \ owned[p]) \cup Open(p)
      /\ owned' = [owned EXCEPT ![p] = Open(p)]
      /\ RowsInv'
  BY Commits
<1>2. /\ Open(p) \subseteq known[p]
      /\ \A q \in Processes : known[q] \subseteq 1 .. (nextId - 1)
      /\ WindowRows(db) \subseteq 1 .. (nextId - 1)
      /\ owned \in [Processes -> SUBSET WindowIds]
  BY DEF DbInv, KnownInv, DbTypes
<1>3. 1 .. (nextId - 1) \subseteq WindowIds
  BY IdsAreNumbers DEF DbInv
<1>4. owned' \in [Processes -> SUBSET WindowIds]
  BY <1>1, <1>2, <1>3
<1>5. DbTypes' /\ \A q \in Processes : /\ Open(q)' \subseteq known'[q]
                                       /\ known'[q] \subseteq 1 .. (nextId' - 1)
  BY <1>4, ClosingTypes
<1>6. nextId' = nextId /\ known' = known
  BY DEF Closes
<1>7. WindowRows(db)' \subseteq 1 .. (nextId' - 1)
  BY <1>1, <1>2, <1>6
<1>8. ASSUME NEW q \in Processes PROVE Claimed(q)'
  <2>. SUFFICES ASSUME phase'[q] = "up", NEW w \in WindowRows(db)' \cap known'[q]
                PROVE  w \in owned'[q] \/ \E r \in Processes \ {q} : w \in known'[r]
    BY DEF Claimed
  <2>1. phase[q] = "up" /\ w \in known[q]
    BY <1>6 DEF Closes
  <2>2. CASE w \in Open(p)
    <3>1. CASE q = p
      BY <1>1, <1>2, <2>2, <3>1
    <3>2. CASE q # p
      BY <1>2, <1>6, <2>2, <3>2
    <3>. QED  BY <3>1, <3>2
  <2>3. CASE w \notin Open(p)
    <3>1. w \in WindowRows(db) /\ w \notin owned[p]
      BY <1>1, <2>3
    <3>2. w \in owned[q] \/ \E r \in Processes \ {q} : w \in known[r]
      BY <2>1, <3>1 DEF DbInv, KnownInv, Claimed
    <3>3. CASE w \in owned[q]
      <4>1. q # p
        BY <3>1, <3>3
      <4>. QED  BY <1>1, <1>2, <3>3, <4>1
    <3>. QED  BY <1>6, <3>2, <3>3
  <2>. QED  BY <2>2, <2>3
<1>. QED  BY <1>1, <1>5, <1>7, <1>8 DEF DbInv, KnownInv

\* Unregistering a window only closes.
LEMMA Unregisters ==
    ASSUME DbInv, NEW p \in Processes, NEW w, Unregister(p, w),
           failed' \in [Processes -> SUBSET WindowIds], UNCHANGED <<nextId, known>>
    PROVE  Closes
<1>1. phase \in [Processes -> {"down", "loading", "up"}] /\ DOMAIN session = Processes
  BY DEF DbInv, DbTypes
<1>2. CASE Open(p) = {w}
  <2>1. /\ phase' = [phase EXCEPT ![p] = "down"]
        /\ session' = [session EXCEPT ![p] = NoWindows]
    BY <1>2 DEF Unregister
  <2>. QED  BY <1>1, <2>1 DEF Closes, NoWindows
<1>3. CASE Open(p) # {w}
  <2>1. /\ phase' = phase
        /\ session' = [session EXCEPT ![p] = Without(session[p], w)]
    BY <1>3 DEF Unregister
  <2>. QED  BY <1>1, <2>1 DEF Closes, Without
<1>. QED  BY <1>2, <1>3

\* Loading gives every stored window back as it was shown.
LEMMA LoadStep == ASSUME DbInv, NEW p \in Processes, LoadSession(p) PROVE DbInv'
<1>. DEFINE loaded == [w \in WindowRows(db) |-> Layout(LoadWindow(db, w))]
<1>1. /\ phase' = [phase EXCEPT ![p] = "loading"]
      /\ session' = [session EXCEPT ![p] = loaded]
      /\ owned' = [owned EXCEPT ![p] = {}]
      /\ failed' = [failed EXCEPT ![p] = {}]
      /\ known' = [known EXCEPT ![p] = WindowRows(db)]
      /\ db' = db /\ nextId' = nextId
  BY DEF LoadSession
<1>2. DbTypes /\ RowsInv /\ KnownInv
  BY DEF DbInv
<1>3. \A w \in WindowRows(db) : loaded[w] \in Shown
  <2>. SUFFICES ASSUME NEW w \in WindowRows(db) PROVE Layout(LoadWindow(db, w)) \in Shown
    OBVIOUS
  <2>1. PICK l \in Shown : Stored(db, w, l)
    BY <1>2 DEF RowsInv
  <2>. QED  BY <2>1, Reads, ShownAreLayouts
<1>4. DOMAIN loaded = WindowRows(db)
  OBVIOUS
<1>. HIDE DEF loaded
<1>5. WindowRows(db) \subseteq WindowIds
  BY <1>2, TypesOfInv DEF DbTypeOK
<1>6. \A q \in Processes : Open(q)' = IF q = p THEN WindowRows(db) ELSE Open(q)
  BY <1>1, <1>2, <1>4 DEF Open, DbTypes
<1>7. DbTypes'
  <2>1. \A q \in Processes : \A w \in Open(q)' : session'[q][w] \in Shown
    BY <1>1, <1>2, <1>3, <1>6 DEF DbTypes
  <2>. QED  BY <1>1, <1>2, <1>5, <2>1 DEF DbTypes
<1>8. RowsInv'
  BY <1>1, <1>2 DEF RowsInv
<1>9. known \in [Processes -> SUBSET WindowIds]
      /\ owned \in [Processes -> SUBSET WindowIds]
      /\ phase \in [Processes -> {"down", "loading", "up"}]
  BY <1>2 DEF DbTypes
<1>10. \A q \in Processes : /\ Open(q)' \subseteq known'[q]
                            /\ known'[q] \subseteq 1 .. (nextId' - 1)
  BY <1>1, <1>2, <1>6, <1>9 DEF KnownInv
<1>11. ASSUME NEW q \in Processes PROVE Claimed(q)'
  <2>1. CASE q = p
    BY <1>1, <1>9, <2>1 DEF Claimed
  <2>2. CASE q # p
    <3>1. phase'[q] = phase[q] /\ known'[q] = known[q] /\ owned'[q] = owned[q]
      BY <1>1, <2>2
    <3>2. ASSUME NEW w \in WindowRows(db), \E r \in Processes \ {q} : w \in known[r]
          PROVE  \E r \in Processes \ {q} : w \in known'[r]
      <4>1. w \in known'[p]
        BY <1>1, <1>9
      <4>. QED  BY <2>2, <4>1
    <3>. QED  BY <1>1, <1>2, <3>1, <3>2 DEF Claimed, KnownInv
  <2>. QED  BY <2>1, <2>2
<1>12. WindowRows(db)' \subseteq 1 .. (nextId' - 1)
  BY <1>1, <1>2 DEF KnownInv
<1>. QED  BY <1>7, <1>8, <1>10, <1>11, <1>12 DEF DbInv, KnownInv

\* A start owns what is stored; every other process stays as it was.
Owns(p) ==
    /\ phase' \in [Processes -> {"down", "loading", "up"}]
    /\ owned' \in [Processes -> SUBSET WindowIds]
    /\ \A q \in Processes \ {p} : phase'[q] = phase[q] /\ owned'[q] = owned[q]
    /\ \/ phase'[p] = phase[p] /\ owned'[p] = owned[p]
       \/ owned'[p] = WindowRows(db)
    /\ UNCHANGED <<db, failed>>

LEMMA ClaimStep ==
    ASSUME DbInv, NEW p \in Processes, Owns(p), UNCHANGED <<session, nextId, known>>
    PROVE  DbInv'
<1>1. DbTypes'
  BY DEF DbInv, DbTypes, Owns, Open
<1>2. RowsInv'
  BY DEF DbInv, RowsInv, Owns
<1>3. \A q \in Processes : Claimed(q)'
  BY DEF DbInv, KnownInv, Claimed, Owns
<1>4. KnownInv'
  BY <1>3 DEF DbInv, KnownInv, Owns, Open
<1>. QED  BY <1>1, <1>2, <1>4 DEF DbInv

\* A new window has an identity that no row and no process has.
LEMMA OpenStep ==
    ASSUME DbInv, NEW p \in Processes, Owns(p), nextId \in WindowIds,
           nextId' = nextId + 1,
           known' = [known EXCEPT ![p] = @ \cup {nextId}],
           session' = [session EXCEPT ![p] = With(@, nextId, NewLayout)]
    PROVE  DbInv'
<1>1. DbTypes /\ RowsInv /\ KnownInv
  BY DEF DbInv
<1>2. /\ nextId \in Nat /\ nextId + 1 \in 1 .. (MaxWindows + 1)
      /\ \A i \in 1 .. (nextId - 1) : i # nextId /\ i \in 1 .. nextId
      /\ nextId \in 1 .. nextId /\ nextId' - 1 = nextId
  BY <1>1, IdsAreNumbers DEF DbTypes
<1>3. \A q \in Processes :
         /\ Open(q)' = IF q = p THEN Open(p) \cup {nextId} ELSE Open(q)
         /\ known'[q] = IF q = p THEN known[p] \cup {nextId} ELSE known[q]
         /\ \A w \in Open(q) : w # nextId => session'[q][w] = session[q][w]
         /\ q = p => session'[p][nextId] = NewLayout
  BY <1>1 DEF Open, With, DbTypes
<1>4. DbTypes'
  <2>1. ASSUME NEW q \in Processes, NEW w \in Open(q)' PROVE session'[q][w] \in Shown
    <3>1. CASE w = nextId
      <4>1. q = p
        BY <1>1, <1>2, <1>3, <2>1, <3>1 DEF KnownInv
      <4>. QED  BY <1>3, <3>1, <4>1 DEF Shown
    <3>2. CASE w # nextId
      <4>1. w \in Open(q)
        BY <1>3, <3>2
      <4>. QED  BY <1>1, <1>3, <3>2, <4>1 DEF DbTypes
    <3>. QED  BY <3>1, <3>2
  <2>2. known' \in [Processes -> SUBSET WindowIds]
    BY <1>1 DEF DbTypes
  <2>3. DOMAIN session' = Processes
    BY <1>1 DEF DbTypes
  <2>4. failed' \in [Processes -> SUBSET WindowIds]
    BY <1>1 DEF DbTypes, Owns
  <2>. QED  BY <1>2, <2>1, <2>2, <2>3, <2>4 DEF DbTypes, Owns
<1>5. RowsInv'
  BY <1>1 DEF RowsInv, Owns
<1>6. ASSUME NEW q \in Processes PROVE Claimed(q)'
  <2>1. db' = db
    BY DEF Owns
  <2>2. nextId \notin WindowRows(db)
    BY <1>1, <1>2 DEF KnownInv
  <2>3. \A r \in Processes : known[r] \subseteq known'[r]
    BY <1>3
  <2>4. \A w \in WindowRows(db) \cap known'[q] : w \in known[q]
    BY <1>3, <2>2
  <2>. QED  BY <1>1, <2>1, <2>3, <2>4 DEF Claimed, KnownInv, Owns
<1>7. \A q \in Processes : /\ Open(q)' \subseteq known'[q]
                           /\ known'[q] \subseteq 1 .. (nextId' - 1)
  BY <1>1, <1>2, <1>3 DEF KnownInv
<1>8. WindowRows(db)' \subseteq 1 .. (nextId' - 1)
  BY <1>1, <1>2 DEF KnownInv, Owns
<1>. QED  BY <1>4, <1>5, <1>6, <1>7, <1>8 DEF DbInv, KnownInv

LEMMA ChangeStep == ASSUME DbInv, NEW p \in Processes, ChangeTabs(p) PROVE DbInv'
<1>1. PICK w \in Open(p), l \in Layouts : session' = [session EXCEPT ![p][w] = l]
  BY DEF ChangeTabs
<1>2. UNCHANGED <<db, phase, owned, failed, nextId, known>>
  BY DEF ChangeTabs
<1>3. \A q \in Processes :
         /\ Open(q)' = Open(q)
         /\ \A v \in Open(q) : session'[q][v] \in {session[q][v], l}
  BY <1>1 DEF Open, DbInv, DbTypes
<1>4. DbTypes'
  BY <1>1, <1>2, <1>3 DEF DbInv, DbTypes, Shown
<1>5. RowsInv'
  BY <1>2 DEF DbInv, RowsInv
<1>6. KnownInv'
  BY <1>2, <1>3 DEF DbInv, KnownInv, Claimed
<1>. QED  BY <1>4, <1>5, <1>6 DEF DbInv

\* Every step keeps the invariant.
LEMMA DbStep == ASSUME DbInv, [DbNext]_dbVars PROVE DbInv'
<1>1. DbTypes
  BY DEF DbInv
<1>2. failed \in [Processes -> SUBSET WindowIds]
  BY <1>1 DEF DbTypes
<1>3. CASE UNCHANGED dbVars
  BY <1>3 DEF dbVars, DbInv, DbTypes, RowsInv, KnownInv, Claimed, Open
<1>4. ASSUME NEW p \in Processes, LoadSession(p) PROVE DbInv'
  BY <1>4, LoadStep
<1>5. ASSUME NEW p \in Processes, ClaimPersistedWindows(p) PROVE DbInv'
  <2>1. Owns(p)
    <3>1. WindowRows(db) \subseteq WindowIds
      BY TypesOfInv DEF DbTypeOK
    <3>. QED  BY <1>1, <1>5, <3>1 DEF ClaimPersistedWindows, Owns, DbTypes
  <2>2. CASE UNCHANGED <<session, nextId, known>>
    BY <2>1, <2>2, ClaimStep
  <2>3. CASE ~UNCHANGED <<session, nextId, known>>
    <3>1. /\ nextId \in WindowIds /\ nextId' = nextId + 1
          /\ known' = [known EXCEPT ![p] = @ \cup {nextId}]
          /\ session' = [session EXCEPT ![p] = With(@, nextId, NewLayout)]
      BY <1>5, <2>3 DEF ClaimPersistedWindows
    <3>. QED  BY <2>1, <3>1, OpenStep
  <2>. QED  BY <2>2, <2>3
<1>6. ASSUME NEW p \in Processes, OpenWindow(p) PROVE DbInv'
  <2>1. Owns(p)
    BY <1>1, <1>6 DEF OpenWindow, Owns, DbTypes
  <2>. QED  BY <1>6, <2>1, OpenStep DEF OpenWindow
<1>7. ASSUME NEW p \in Processes, ChangeTabs(p) PROVE DbInv'
  BY <1>7, ChangeStep
<1>8. ASSUME NEW p \in Processes, Save(p) PROVE DbInv'
  <2>1. Closes
    BY <1>1, <1>8 DEF Save, Closes, DbTypes
  <2>. QED  BY <1>8, <2>1, CommitStep DEF Save
<1>9. ASSUME NEW p \in Processes, SaveFails(p) PROVE DbInv'
  <2>1. Closes
    BY <1>1, <1>9 DEF SaveFails, Closes, DbTypes
  <2>. QED  BY <1>9, <2>1, FailedSaveStep DEF SaveFails, ApplyFails
<1>10. ASSUME NEW p \in Processes, NEW w \in WindowIds, CloseWindow(p, w) PROVE DbInv'
  <2>1. Closes
    BY <1>2, <1>10, Unregisters DEF CloseWindow
  <2>. QED  BY <1>10, <2>1, CommitStep DEF CloseWindow
<1>11. ASSUME NEW p \in Processes, NEW w \in WindowIds, CloseFails(p, w) PROVE DbInv'
  <2>1. CASE w \notin failed[p]
    <3>1. UNCHANGED <<phase, session, nextId, known>>
          /\ failed' = [failed EXCEPT ![p] = @ \cup {w}]
      BY <1>11, <2>1 DEF CloseFails
    <3>2. failed' \in [Processes -> SUBSET WindowIds]
      BY <1>2, <3>1
    <3>3. Closes
      BY <1>1, <3>1, <3>2 DEF Closes, DbTypes
    <3>. QED  BY <1>11, <3>3, FailedSaveStep DEF CloseFails, ApplyFails
  <2>2. CASE w \in failed[p]
    <3>1. Unregister(p, w) /\ UNCHANGED <<failed, nextId, known>>
      BY <1>11, <2>2 DEF CloseFails
    <3>2. Closes
      BY <1>2, <3>1, Unregisters
    <3>. QED  BY <1>11, <3>2, FailedSaveStep DEF CloseFails, ApplyFails
  <2>. QED  BY <2>1, <2>2
<1>12. ASSUME NEW p \in Processes, Kill(p) PROVE DbInv'
  <2>1. Closes
    BY <1>1, <1>12 DEF Kill, Closes, DbTypes, NoWindows
  <2>. QED  BY <1>12, <2>1, FailedSaveStep DEF Kill
<1>. QED  BY <1>3, <1>4, <1>5, <1>6, <1>7, <1>8, <1>9, <1>10, <1>11, <1>12 DEF DbNext

\* Every reachable state keeps the invariant: what is stored was shown, and what is
\* neither shown nor owned is another process's.
THEOREM DbInvariance == DbSpec => []DbInv
<1>1. DbInv /\ [DbNext]_dbVars => DbInv'
  BY DbStep
<1>. QED  BY <1>1, InitDbInv, PTL DEF DbSpec

\* Type correctness of the database and of the processes that share it.
THEOREM DbTypeCorrect == DbSpec => []DbTypeOK
<1>. QED  BY DbInvariance, TypesOfInv, PTL

\* StateDb::apply and StateDb::load: what a save wrote is what a launch restores, for
\* any number of windows and tabs and whatever rows were there before.
THEOREM SavesAreRestored == DbSpec => SavedIsRestored
<1>. DEFINE A(p) == Save(p) =>
               \A w \in Open(p) : Layout(LoadWindow(db', w)) = session[p][w]
<1>1. ASSUME DbInv, NEW p \in Processes PROVE A(p)
  <2>. SUFFICES ASSUME Save(p), NEW w \in Open(p)
                PROVE  Layout(LoadWindow(db', w)) = session[p][w]
    OBVIOUS
  <2>1. Stored(db', w, session[p][w])
    BY <1>1, Commits DEF Save
  <2>2. IsLayout(session[p][w])
    BY <1>1, ShownAreLayouts DEF DbInv, DbTypes
  <2>. QED  BY <2>1, <2>2, Reads
<1>2. DbInv /\ [DbNext]_dbVars => [\A p \in Processes : A(p)]_dbVars
  BY <1>1
<1>. QED  BY <1>2, DbInvariance, PTL DEF DbSpec, SavedIsRestored

\* StateDb::apply deletes by what the handle owned: a window that a process closed is
\* gone after its next successful save, whichever saves failed in between.
THEOREM ClosedAreDeleted == DbSpec => SaveDeletesClosed
<1>. DEFINE A(p) == \A w \in WindowRows(db') \cap (known[p] \ Open(p)) :
               Save(p) => \E q \in Processes \ {p} : w \in known[q]
<1>1. ASSUME DbInv, NEW p \in Processes PROVE A(p)
  <2>. SUFFICES ASSUME NEW w \in WindowRows(db') \cap (known[p] \ Open(p)), Save(p)
                PROVE  \E q \in Processes \ {p} : w \in known[q]
    OBVIOUS
  <2>1. w \in WindowRows(db) /\ w \notin owned[p]
    BY <1>1, Commits DEF Save
  <2>. QED  BY <1>1, <2>1 DEF DbInv, KnownInv, Claimed, Save
<1>2. DbInv /\ [DbNext]_dbVars => [\A p \in Processes : A(p)]_dbVars
  BY <1>1
<1>. QED  BY <1>2, DbInvariance, PTL DEF DbSpec, SaveDeletesClosed

-----------------------------------------------------------------------------
(* What the steps do to the process that takes them, and to no other. *)

Phases == {"down", "starting", "opening", "importing", "running"}
Saves == {NoSave} \union
    [step : {"copying", "writing", "renaming"}, from : Window, publish : BOOLEAN]

IsSettings(s) == DOMAIN s = {"size", "recent"} /\ s.size \in Int

IsProc(r) ==
    /\ DOMAIN r = {"phase", "shared", "win", "save", "newDb"}
    /\ r.phase \in Phases /\ r.newDb \in BOOLEAN
    /\ IsSettings(r.shared)
    /\ DOMAIN r.win = Window /\ \A w \in Window : IsSettings(r.win[w])
    /\ r.save \in Saves /\ (r.phase # "running" => r.save = NoSave)

Shape ==
    /\ IsSettings(settingsFile) /\ IsSettings(backup)
    /\ DOMAIN proc = Process /\ \A p \in Process : IsProc(proc[p])

Others(p) == \A q \in Process \ {p} : proc'[q] = proc[q]

\* What stands for no file, a damaged file and a closed window is no stored number.
LEMMA Constants ==
    /\ IsSettings(NoFile) /\ IsSettings(Torn) /\ IsSettings(Shut) /\ IsSettings(Default)
    /\ NoFile.size = -1 /\ Torn.size = -2 /\ Shut.size = -3 /\ Default.size = 2
BY DEF IsSettings, NoFile, Torn, Shut, Default

\* A process that is not there has the fields of one that is.
LEMMA DownIsProc == IsProc(Down) /\ Down.phase = "down" /\ Down.newDb = FALSE
<1>1. IsSettings(Default) /\ IsSettings(Shut)
  BY Constants
<1>2. DOMAIN Down = {"phase", "shared", "win", "save", "newDb"}
  BY DEF Down
<1>3. /\ Down.phase = "down" /\ Down.newDb = FALSE /\ Down.shared = Default
      /\ Down.win = [w \in Window |-> Shut] /\ Down.save = NoSave
  BY DEF Down
<1>. QED  BY <1>1, <1>2, <1>3 DEF IsProc, Phases, Saves

\* validate gives a number of the range, and the same one if it was in it.
LEMMA ClampValid ==
    ASSUME NEW n \in Int
    PROVE  /\ Clamp(n, Valid) \in Valid
           /\ n \in Valid => Clamp(n, Valid) = n
<1>. DEFINE Best(v) == \A u \in Valid : (v - n) * (v - n) <= (u - n) * (u - n)
<1>1. CASE n <= 1
  <2>1. Best(1)
    BY <1>1 DEF Valid
  <2>2. ASSUME NEW v \in Valid, Best(v), n = 1  PROVE v = 1
    <3>1. (v - 1) * (v - 1) <= (1 - 1) * (1 - 1)
      BY <2>2 DEF Valid
    <3>. QED  BY <3>1 DEF Valid
  <2>. QED  BY <1>1, <2>1, <2>2 DEF Clamp, Valid
<1>2. CASE n = 2
  <2>1. Best(2)
    BY <1>2 DEF Valid
  <2>2. ASSUME NEW v \in Valid, Best(v)  PROVE v = 2
    BY <1>2, <2>2 DEF Valid
  <2>. QED  BY <1>2, <2>1, <2>2 DEF Clamp, Valid
<1>3. CASE n >= 3
  <2>1. Best(3)
    BY <1>3 DEF Valid
  <2>2. ASSUME NEW v \in Valid, Best(v), n = 3  PROVE v = 3
    BY <2>2 DEF Valid
  <2>. QED  BY <1>3, <2>1, <2>2 DEF Clamp, Valid
<1>. QED  BY <1>1, <1>2, <1>3

\* Settings::load gives settings whose number is in the range.
LEMMA LoadedIsValid ==
    ASSUME IsSettings(settingsFile), IsSettings(backup)
    PROVE  /\ IsSettings(Loaded) /\ Loaded.size \in Valid
           /\ settingsFile \notin {NoFile, Torn} => Loaded.size = Clamp(settingsFile.size, Valid)
<1>1. ASSUME NEW s, IsSettings(s)
      PROVE  IsSettings(Validated(s)) /\ Validated(s).size \in Valid
             /\ Validated(s).size = Clamp(s.size, Valid)
  <2>1. Clamp(s.size, Valid) \in Valid
    BY <1>1, ClampValid DEF IsSettings
  <2>. QED  BY <1>1, <2>1 DEF IsSettings, Validated, Valid
<1>2. IsSettings(Default) /\ Default.size \in Valid
  BY Constants DEF Valid
<1>. QED  BY <1>1, <1>2 DEF Loaded

\* A launch takes the settings it loads, and shows no window yet.
LEMMA LaunchSteps ==
    ASSUME Shape, NEW p \in Process, Launch(p)
    PROVE  /\ Shape' /\ Others(p)
           /\ proc[p].phase = "down" /\ proc'[p].phase = "starting" /\ proc'[p].newDb = FALSE
           /\ proc'[p].shared = Loaded /\ \A w \in Window : proc'[p].win[w] = Shut
           /\ proc'[p].save = NoSave
<1>1. IsSettings(Loaded)
  BY LoadedIsValid DEF Shape
<1>2. /\ proc'[p] = [Down EXCEPT !.phase = "starting", !.shared = Loaded]
      /\ DOMAIN proc' = Process /\ Others(p)
  BY DEF Shape, Launch, Others
<1>3. /\ DOMAIN proc'[p] = DOMAIN Down
      /\ proc'[p].phase = "starting" /\ proc'[p].shared = Loaded
      /\ proc'[p].win = Down.win /\ proc'[p].save = Down.save /\ proc'[p].newDb = Down.newDb
  BY <1>2, DownIsProc DEF IsProc
<1>4. Down.save = NoSave /\ \A w \in Window : Down.win[w] = Shut
  BY DEF Down
<1>5. IsProc(proc'[p])
  BY <1>1, <1>3, DownIsProc DEF IsProc, Phases
<1>. QED  BY <1>2, <1>3, <1>4, <1>5, DownIsProc DEF Shape, Launch, Others

\* A process that ends leaves the others alone.
LEMMA DownSteps ==
    ASSUME Shape, NEW p \in Process, proc' = [proc EXCEPT ![p] = Down]
    PROVE  /\ DOMAIN proc' = Process /\ \A q \in Process : IsProc(proc'[q])
           /\ Others(p) /\ proc'[p] = Down
BY DownIsProc DEF Shape, Others

\* The look for the database only decides newDb.
LEMMA LookSteps ==
    ASSUME Shape, NEW p \in Process, stateDb \in BOOLEAN, LookForDb(p)
    PROVE  /\ Shape' /\ Others(p)
           /\ proc[p].phase = "starting" /\ proc'[p].phase = "opening"
           /\ proc'[p].newDb = ~stateDb
           /\ proc'[p].win = proc[p].win /\ proc'[p].shared = proc[p].shared
           /\ proc'[p].save = proc[p].save
<1>1. /\ DOMAIN proc' = Process /\ Others(p)
      /\ proc'[p].phase = "opening" /\ proc'[p].newDb = ~stateDb
      /\ DOMAIN proc'[p] = DOMAIN proc[p]
      /\ proc'[p].win = proc[p].win /\ proc'[p].shared = proc[p].shared
      /\ proc'[p].save = proc[p].save
  BY DEF Shape, IsProc, LookForDb, Others
<1>2. IsProc(proc'[p])
  BY <1>1 DEF Shape, IsProc, Phases, LookForDb
<1>. QED  BY <1>1, <1>2 DEF Shape, LookForDb, dirVars, Others

\* A process that has started shows its settings in one window.
LEMMA StartedSteps ==
    ASSUME Shape, NEW p \in Process, proc' = Started(p)
    PROVE  /\ DOMAIN proc' = Process /\ \A q \in Process : IsProc(proc'[q])
           /\ Others(p)
           /\ proc'[p].phase = "running" /\ proc'[p].newDb = FALSE
           /\ proc'[p].shared = proc[p].shared /\ proc'[p].save = proc[p].save
           /\ \A w \in Window : proc'[p].win[w] \in {proc[p].win[w], proc[p].shared}
<1>. DEFINE first == CHOOSE w \in Window : TRUE
<1>1. /\ DOMAIN proc' = Process /\ Others(p)
      /\ proc'[p].phase = "running" /\ proc'[p].newDb = FALSE
      /\ DOMAIN proc'[p] = DOMAIN proc[p]
      /\ proc'[p].win = [proc[p].win EXCEPT ![first] = proc[p].shared]
      /\ proc'[p].shared = proc[p].shared
      /\ proc'[p].save = proc[p].save
  BY DEF Shape, IsProc, Started, Others
<1>2. /\ DOMAIN proc'[p].win = Window
      /\ \A w \in Window : proc'[p].win[w] \in {proc[p].win[w], proc[p].shared}
  BY <1>1 DEF Shape, IsProc
<1>3. IsProc(proc'[p])
  BY <1>1, <1>2 DEF Shape, IsProc, Phases
<1>. QED  BY <1>1, <1>2, <1>3 DEF Shape, Others

\* A change of the copy of a window.
LEMMA SaveFromSteps ==
    ASSUME Shape, NEW p \in Process, NEW w \in Window, NEW settings, IsSettings(settings),
           NEW publish \in BOOLEAN, SaveFrom(p, w, settings, publish)
    PROVE  /\ Shape' /\ Others(p)
           /\ Idle(p) /\ proc[p].win[w] # Shut
           /\ proc'[p].phase = proc[p].phase /\ proc'[p].newDb = proc[p].newDb
           /\ proc'[p].shared = proc[p].shared
           /\ \A v \in Window \ {w} : proc'[p].win[v] = proc[p].win[v]
           /\ proc'[p].win[w] = settings
           /\ proc'[p].save # NoSave
           /\ proc'[p].save.from = w /\ proc'[p].save.publish = publish
           /\ UNCHANGED <<dirVars, untouched, startHistory>>
<1>. DEFINE step == IF settingsFile = NoFile THEN "writing" ELSE "copying"
<1>1. /\ DOMAIN proc' = Process /\ Others(p)
      /\ DOMAIN proc'[p] = DOMAIN proc[p]
      /\ proc'[p].phase = proc[p].phase /\ proc'[p].newDb = proc[p].newDb
      /\ proc'[p].shared = proc[p].shared
      /\ proc'[p].win = [proc[p].win EXCEPT ![w] = settings]
      /\ proc'[p].save = [step |-> step, from |-> w, publish |-> publish]
  BY DEF Shape, IsProc, SaveFrom, Others
<1>2. proc'[p].save \in Saves /\ proc'[p].save # NoSave
  BY <1>1 DEF Saves, NoSave
<1>3. /\ DOMAIN proc'[p].win = Window /\ proc'[p].win[w] = settings
      /\ \A v \in Window \ {w} : proc'[p].win[v] = proc[p].win[v]
  BY <1>1 DEF Shape, IsProc
<1>4. \A v \in Window : IsSettings(proc'[p].win[v])
  BY <1>3 DEF Shape, IsProc
<1>5. IsProc(proc'[p])
  BY <1>1, <1>2, <1>3, <1>4 DEF Shape, IsProc, SaveFrom, Idle
<1>. QED  BY <1>1, <1>2, <1>3, <1>5 DEF Shape, SaveFrom, Others, dirVars

\* The three handlers that change settings: what they give their window.
LEMMA ChangeSteps ==
    ASSUME Shape, NEW p \in Process, NEW w \in Window,
           ChangeOption(p, w) \/ AddFile(p, w) \/ ClearRecentFiles(p, w)
    PROVE  \E settings : \E publish \in BOOLEAN :
               /\ IsSettings(settings) /\ SaveFrom(p, w, settings, publish)
               /\ settings.size \in Valid \/ settings.size = proc[p].win[w].size
               /\ ~publish => settings.size = proc[p].win[w].size
<1>1. DOMAIN proc[p].win[w] = {"size", "recent"} /\ proc[p].win[w].size \in Int
  BY DEF Shape, IsProc, IsSettings
<1>2. CASE ChangeOption(p, w)
  <2>1. PICK n \in Offered : SaveFrom(p, w, [proc[p].win[w] EXCEPT !.size = n], TRUE)
    BY <1>2 DEF ChangeOption
  <2>. DEFINE settings == [proc[p].win[w] EXCEPT !.size = n]
  <2>2. IsSettings(settings) /\ settings.size \in Valid
    BY <1>1 DEF IsSettings, Offered, Valid
  <2>. HIDE DEF settings
  <2>. QED  BY <2>1, <2>2 DEF settings
<1>3. CASE AddFile(p, w)
  <2>1. PICK f \in RecentFile :
            SaveFrom(p, w, [proc[p].win[w] EXCEPT !.recent = WithRecent(@, f)], FALSE)
    BY <1>3 DEF AddFile
  <2>. DEFINE settings == [proc[p].win[w] EXCEPT !.recent = WithRecent(@, f)]
  <2>2. IsSettings(settings) /\ settings.size = proc[p].win[w].size
    BY <1>1 DEF IsSettings
  <2>3. SaveFrom(p, w, settings, FALSE)
    BY <2>1
  <2>. HIDE DEF settings
  <2>. QED  BY <2>2, <2>3
<1>4. CASE ClearRecentFiles(p, w)
  <2>. DEFINE settings == [proc[p].win[w] EXCEPT !.recent = <<>>]
  <2>1. IsSettings(settings) /\ settings.size = proc[p].win[w].size
    BY <1>1 DEF IsSettings
  <2>2. SaveFrom(p, w, settings, TRUE)
    BY <1>4 DEF ClearRecentFiles
  <2>. HIDE DEF settings
  <2>. QED  BY <2>1, <2>2
<1>. QED  BY <1>2, <1>3, <1>4

\* The steps of a save move on, and change no copy.
LEMMA SaveStepSteps ==
    ASSUME Shape, NEW p \in Process, CopyBackup(p) \/ WriteTemp(p)
    PROVE  /\ Shape' /\ Others(p)
           /\ proc[p].save # NoSave /\ proc'[p].save # NoSave
           /\ proc'[p].phase = proc[p].phase /\ proc'[p].newDb = proc[p].newDb
           /\ proc'[p].shared = proc[p].shared /\ proc'[p].win = proc[p].win
           /\ proc'[p].save.from = proc[p].save.from
           /\ proc'[p].save.publish = proc[p].save.publish
           /\ UNCHANGED <<settingsFile, legacy, stateDb, imports, untouched, startHistory>>
<1>1. proc[p].save \in Saves \ {NoSave}
  BY DEF Shape, IsProc, CopyBackup, WriteTemp, NoSave
<1>2. PICK step \in {"writing", "renaming"} : proc' = [proc EXCEPT ![p].save.step = step]
  BY DEF CopyBackup, WriteTemp
<1>3. /\ DOMAIN proc' = Process /\ Others(p)
      /\ DOMAIN proc'[p] = DOMAIN proc[p]
      /\ proc'[p].phase = proc[p].phase /\ proc'[p].newDb = proc[p].newDb
      /\ proc'[p].shared = proc[p].shared /\ proc'[p].win = proc[p].win
      /\ proc'[p].save = [proc[p].save EXCEPT !.step = step]
  BY <1>2 DEF Shape, IsProc, Others
<1>4. /\ proc'[p].save \in Saves \ {NoSave}
      /\ proc'[p].save.from = proc[p].save.from
      /\ proc'[p].save.publish = proc[p].save.publish
  BY <1>1, <1>3 DEF Saves, NoSave
<1>5. IsProc(proc'[p])
  BY <1>1, <1>3, <1>4 DEF Shape, IsProc
<1>6. IsSettings(backup')
  BY Constants DEF Shape, CopyBackup, WriteTemp
<1>7. UNCHANGED <<settingsFile, legacy, stateDb, imports, untouched, startHistory>>
  BY DEF CopyBackup, WriteTemp
<1>. QED  BY <1>1, <1>3, <1>4, <1>5, <1>6, <1>7 DEF Shape, Others

\* What is being saved is the copy of a window.
LEMMA SavedIsSettings ==
    ASSUME Shape, NEW p \in Process, proc[p].save # NoSave
    PROVE  proc[p].save.from \in Window /\ proc[p].save.publish \in BOOLEAN
           /\ IsSettings(Saved(p))
BY DEF Shape, IsProc, Saves, Saved

\* The rename stores what was saved and, if published, shows it everywhere.
LEMMA RenameSteps ==
    ASSUME Shape, NEW p \in Process, Rename(p)
    PROVE  /\ Shape' /\ Others(p)
           /\ proc[p].save # NoSave /\ proc'[p].save = NoSave
           /\ proc'[p].phase = proc[p].phase /\ proc'[p].newDb = proc[p].newDb
           /\ settingsFile' = Saved(p)
           /\ proc'[p].shared = IF proc[p].save.publish THEN Saved(p) ELSE proc[p].shared
           /\ \A w \in Window : proc'[p].win[w] =
                  IF proc[p].save.publish /\ proc[p].win[w] # Shut THEN Saved(p)
                  ELSE proc[p].win[w]
<1>1. proc[p].save # NoSave
  BY DEF Rename, NoSave
<1>2. IsSettings(Saved(p)) /\ proc[p].save.publish \in BOOLEAN
  BY <1>1, SavedIsSettings
<1>3. /\ DOMAIN proc' = Process /\ Others(p)
      /\ DOMAIN proc'[p] = DOMAIN proc[p]
      /\ proc'[p].phase = proc[p].phase /\ proc'[p].newDb = proc[p].newDb
      /\ proc'[p].shared = IF proc[p].save.publish THEN Saved(p) ELSE proc[p].shared
      /\ proc'[p].win = IF proc[p].save.publish THEN Observed(p, Saved(p)) ELSE proc[p].win
      /\ proc'[p].save = NoSave
  BY DEF Shape, IsProc, Rename, Others
<1>4. /\ DOMAIN proc'[p].win = Window
      /\ \A w \in Window : proc'[p].win[w] =
             IF proc[p].save.publish /\ proc[p].win[w] # Shut THEN Saved(p)
             ELSE proc[p].win[w]
  BY <1>2, <1>3 DEF Shape, IsProc, Observed
<1>5. IsProc(proc'[p])
  BY <1>2, <1>3, <1>4 DEF Shape, IsProc, Saves
<1>. QED  BY <1>1, <1>2, <1>3, <1>4, <1>5 DEF Shape, Rename, Others

\* A save that fails changes no copy and ends the trust in the process.
LEMMA SaveFailsSteps ==
    ASSUME Shape, NEW p \in Process, SettingsSaveFails(p)
    PROVE  /\ Shape' /\ Others(p)
           /\ proc[p].save # NoSave /\ proc'[p].save = NoSave
           /\ proc'[p].phase = proc[p].phase /\ proc'[p].newDb = proc[p].newDb
           /\ proc'[p].shared = proc[p].shared /\ proc'[p].win = proc[p].win
           /\ untouched' \subseteq untouched \ {p}
           /\ untouched' # {} => settingsFile' = settingsFile
<1>1. proc[p].save # NoSave
  BY DEF SettingsSaveFails, NoSave
<1>2. IsSettings(Saved(p))
  BY <1>1, SavedIsSettings
<1>3. /\ DOMAIN proc' = Process /\ Others(p)
      /\ DOMAIN proc'[p] = DOMAIN proc[p]
      /\ proc'[p].phase = proc[p].phase /\ proc'[p].newDb = proc[p].newDb
      /\ proc'[p].shared = proc[p].shared /\ proc'[p].win = proc[p].win
      /\ proc'[p].save = NoSave
  BY DEF Shape, IsProc, SettingsSaveFails, Others
<1>4. settingsFile' \in {settingsFile, Saved(p)}
  BY DEF SettingsSaveFails
<1>5. IsProc(proc'[p])
  BY <1>3 DEF Shape, IsProc, Saves
<1>6. backup' = backup /\ untouched' = IF settingsFile' = settingsFile THEN untouched \ {p} ELSE {}
  BY DEF SettingsSaveFails
<1>. QED  BY <1>1, <1>2, <1>3, <1>4, <1>5, <1>6 DEF Shape, Others

\* Opening, closing and reloading windows give them the shared settings.
LEMMA WindowSteps ==
    ASSUME Shape, NEW p \in Process,
           ShowWindow(p) \/ ReloadThemes(p)
             \/ \E w \in Window : Idle(p) /\ proc' = [proc EXCEPT ![p].win[w] = Shut]
                                  /\ UNCHANGED <<dirVars, budget, untouched, startHistory>>
    PROVE  /\ Shape' /\ Others(p) /\ Idle(p)
           /\ proc'[p].phase = proc[p].phase /\ proc'[p].newDb = proc[p].newDb
           /\ proc'[p].shared = proc[p].shared /\ proc'[p].save = proc[p].save
           /\ \A w \in Window : proc'[p].win[w] \in {proc[p].win[w], proc[p].shared, Shut}
           /\ UNCHANGED <<dirVars, untouched, startHistory>>
<1>1. /\ Idle(p) /\ UNCHANGED <<dirVars, untouched, startHistory>>
  BY DEF ShowWindow, ReloadThemes
<1>2. \E win : /\ proc' = [proc EXCEPT ![p].win = win]
               /\ DOMAIN win = Window
               /\ \A w \in Window : win[w] \in {proc[p].win[w], proc[p].shared, Shut}
  <2>1. CASE ShowWindow(p)
    <3>1. PICK w \in Window : proc' = [proc EXCEPT ![p].win[w] = proc[p].shared]
      BY <2>1 DEF ShowWindow
    <3>. DEFINE win == [proc[p].win EXCEPT ![w] = proc[p].shared]
    <3>2. /\ DOMAIN win = Window
          /\ \A v \in Window : win[v] \in {proc[p].win[v], proc[p].shared, Shut}
      BY DEF Shape, IsProc
    <3>3. proc' = [proc EXCEPT ![p].win = win]
      BY <3>1
    <3>. HIDE DEF win
    <3>. QED  BY <3>2, <3>3
  <2>2. CASE ReloadThemes(p)
    <3>. DEFINE win == Observed(p, proc[p].shared)
    <3>1. /\ DOMAIN win = Window
          /\ \A v \in Window : win[v] \in {proc[p].win[v], proc[p].shared, Shut}
      BY DEF Observed
    <3>2. proc' = [proc EXCEPT ![p].win = win]
      BY <2>2 DEF ReloadThemes
    <3>. HIDE DEF win
    <3>. QED  BY <3>1, <3>2
  <2>3. ASSUME NEW w \in Window, proc' = [proc EXCEPT ![p].win[w] = Shut]
        PROVE  \E win : /\ proc' = [proc EXCEPT ![p].win = win]
                        /\ DOMAIN win = Window
                        /\ \A v \in Window : win[v] \in {proc[p].win[v], proc[p].shared, Shut}
    <3>. DEFINE win == [proc[p].win EXCEPT ![w] = Shut]
    <3>1. /\ DOMAIN win = Window
          /\ \A v \in Window : win[v] \in {proc[p].win[v], proc[p].shared, Shut}
      BY DEF Shape, IsProc
    <3>2. proc' = [proc EXCEPT ![p].win = win]
      BY <2>3
    <3>. HIDE DEF win
    <3>. QED  BY <3>1, <3>2
  <2>. QED  BY <2>1, <2>2, <2>3
<1>3. PICK win : /\ proc' = [proc EXCEPT ![p].win = win]
                 /\ DOMAIN win = Window
                 /\ \A w \in Window : win[w] \in {proc[p].win[w], proc[p].shared, Shut}
  BY <1>2
<1>4. /\ DOMAIN proc' = Process /\ Others(p)
      /\ DOMAIN proc'[p] = DOMAIN proc[p]
      /\ proc'[p].phase = proc[p].phase /\ proc'[p].newDb = proc[p].newDb
      /\ proc'[p].shared = proc[p].shared /\ proc'[p].save = proc[p].save
      /\ proc'[p].win = win
  BY <1>3 DEF Shape, IsProc, Others
<1>5. IsProc(proc'[p])
  BY <1>3, <1>4, Constants DEF Shape, IsProc
<1>. QED  BY <1>1, <1>3, <1>4, <1>5 DEF Shape, Others, dirVars

-----------------------------------------------------------------------------
(* The import of an earlier session. *)

\* What a right to import allows, given who holds one (newDb).
ImportsFit ==
    /\ ~stateDb \/ ~legacy => imports = 0
    /\ stateDb /\ legacy /\ imports = 0 =>
          interrupted \/ \E p \in Process : proc[p].newDb
    /\ ~overlapped =>
          /\ \A p, q \in Process : proc[p].newDb /\ proc[q].newDb => p = q
          /\ (\E p \in Process : proc[p].newDb) => imports = 0
          /\ imports <= 1

LegacyTypes ==
    /\ legacy \in BOOLEAN /\ stateDb \in BOOLEAN /\ imports \in Nat
    /\ interrupted \in BOOLEAN /\ overlapped \in BOOLEAN

LegacyInv ==
    /\ LegacyTypes
    /\ \A p \in Process :
          /\ proc[p].newDb => proc[p].phase \in {"opening", "importing"}
          /\ proc[p].phase = "importing" => proc[p].newDb /\ stateDb
          /\ proc[p].phase = "opening" => proc[p].newDb \/ stateDb
    /\ ImportsFit

\* A step that leaves the database alone and moves no process to or from the
\* places where the import is decided.
LEMMA LegacyKept ==
    ASSUME Shape, Shape', LegacyInv, NEW p \in Process, Others(p),
           proc'[p].newDb = proc[p].newDb,
           \/ proc'[p].phase = proc[p].phase
           \/ proc[p].newDb = FALSE /\ proc'[p].phase \in {"down", "starting", "running"},
           UNCHANGED <<legacy, stateDb, imports, startHistory>>
    PROVE  LegacyInv'
<1>1. \A q \in Process :
          /\ proc[q].newDb \in BOOLEAN /\ proc'[q].newDb = proc[q].newDb
          /\ \/ proc'[q].phase = proc[q].phase
             \/ proc[q].newDb = FALSE /\ proc'[q].phase \in {"down", "starting", "running"}
  BY DEF Shape, IsProc, Others
<1>2. \A q \in Process :
         /\ proc'[q].newDb => proc'[q].phase \in {"opening", "importing"}
         /\ proc'[q].phase = "importing" => proc'[q].newDb /\ stateDb'
         /\ proc'[q].phase = "opening" => proc'[q].newDb \/ stateDb'
  BY <1>1 DEF LegacyInv
<1>3. ImportsFit'
  BY <1>1 DEF LegacyInv, ImportsFit, startHistory
<1>4. LegacyTypes'
  BY DEF LegacyInv, LegacyTypes, startHistory
<1>. QED  BY <1>2, <1>3, <1>4 DEF LegacyInv

\* The look for the database, alone, gives the right to import to one process.
LEMMA LegacyLook ==
    ASSUME Shape, LegacyInv, NEW p \in Process, LookForDb(p)
    PROVE  LegacyInv'
<1>1. /\ Others(p) /\ proc'[p].phase = "opening" /\ proc'[p].newDb = ~stateDb
      /\ proc[p].phase = "starting"
  BY LookSteps DEF LegacyInv, LegacyTypes
<1>2. /\ UNCHANGED <<legacy, stateDb, imports, interrupted>>
      /\ overlapped' = (overlapped \/ (~stateDb /\ \E q \in Process : proc[q].newDb))
  BY DEF LookForDb, dirVars, Importing
<1>3. \A q \in Process : proc[q].newDb \in BOOLEAN
  BY DEF Shape, IsProc
<1>4. proc[p].newDb = FALSE
  BY <1>1, <1>3 DEF LegacyInv
<1>5. \A q \in Process \ {p} : proc'[q] = proc[q]
  BY <1>1 DEF Others
<1>6. LegacyTypes'
  BY <1>2 DEF LegacyInv, LegacyTypes
<1>7. CASE stateDb
  <2>1. \A q \in Process : proc'[q].newDb = proc[q].newDb
    BY <1>1, <1>4, <1>5, <1>7
  <2>2. ImportsFit'
    BY <1>2, <1>7, <2>1 DEF LegacyInv, ImportsFit
  <2>. QED  BY <1>1, <1>2, <1>3, <1>5, <1>6, <1>7, <2>1, <2>2 DEF LegacyInv
<1>8. CASE ~stateDb
  <2>1. proc'[p].newDb = TRUE
    BY <1>1, <1>8 DEF LegacyInv, LegacyTypes
  <2>2. ASSUME ~overlapped'
        PROVE  \A q \in Process \ {p} : ~proc'[q].newDb
    BY <1>2, <1>5, <1>8, <2>2
  <2>3. imports' = 0
    BY <1>2, <1>8 DEF LegacyInv, ImportsFit
  <2>4. \A q \in Process :
           /\ proc'[q].newDb => proc'[q].phase \in {"opening", "importing"}
           /\ proc'[q].phase = "importing" => proc'[q].newDb /\ stateDb'
           /\ proc'[q].phase = "opening" => proc'[q].newDb \/ stateDb'
    BY <1>1, <1>2, <1>5, <2>1 DEF LegacyInv
  <2>5. ImportsFit'
    BY <1>2, <1>8, <2>1, <2>2, <2>3 DEF ImportsFit
  <2>. QED  BY <1>6, <2>4, <2>5 DEF LegacyInv
<1>. QED  BY <1>7, <1>8

\* The database is opened: it was there, or it is created and the import next.
LEMMA LegacyOpen ==
    ASSUME Shape, LegacyInv, NEW p \in Process, OpenDb(p) \/ OpenDbFails(p)
    PROVE  LegacyInv'
<1>1. /\ proc[p].phase = "opening"
      /\ stateDb' \in {stateDb, TRUE} /\ UNCHANGED <<legacy, imports, overlapped>>
      /\ interrupted' \in {interrupted, TRUE}
  BY DEF OpenDb, OpenDbFails, LegacyInv, LegacyTypes, startHistory
<1>2. \A q \in Process : proc[q].newDb \in BOOLEAN
  BY DEF Shape, IsProc
<1>3. LegacyTypes'
  BY <1>1 DEF LegacyInv, LegacyTypes
<1>4. CASE proc[p].newDb /\ OpenDb(p)
  <2>1. /\ Others(p) /\ proc'[p].phase = "importing" /\ proc'[p].newDb = proc[p].newDb
        /\ stateDb' = TRUE
    BY <1>4 DEF Shape, IsProc, OpenDb, Others
  <2>2. \A q \in Process : /\ proc'[q].newDb = proc[q].newDb
                           /\ q # p => proc'[q] = proc[q]
    BY <2>1 DEF Others
  <2>3. \A q \in Process :
           /\ proc'[q].newDb => proc'[q].phase \in {"opening", "importing"}
           /\ proc'[q].phase = "importing" => proc'[q].newDb /\ stateDb'
           /\ proc'[q].phase = "opening" => proc'[q].newDb \/ stateDb'
    BY <1>4, <2>1, <2>2 DEF LegacyInv
  <2>4. proc'[p].newDb
    BY <1>4, <2>1
  <2>5. ImportsFit'
    BY <1>1, <2>1, <2>2, <2>4 DEF LegacyInv, ImportsFit
  <2>. QED  BY <1>3, <2>3, <2>5 DEF LegacyInv
<1>5. CASE ~(proc[p].newDb /\ OpenDb(p))
  <2>1. proc' = Started(p)
    BY <1>5 DEF OpenDb, OpenDbFails
  <2>2. /\ DOMAIN proc' = Process /\ \A q \in Process : IsProc(proc'[q])
        /\ Others(p) /\ proc'[p].phase = "running" /\ proc'[p].newDb = FALSE
    BY <2>1, StartedSteps
  <2>3. \A q \in Process \ {p} : proc'[q] = proc[q]
    BY <2>2 DEF Others
  <2>4. \A q \in Process :
           /\ proc'[q].newDb => proc'[q].phase \in {"opening", "importing"}
           /\ proc'[q].phase = "importing" => proc'[q].newDb /\ stateDb'
           /\ proc'[q].phase = "opening" => proc'[q].newDb \/ stateDb'
    <3>1. stateDb => stateDb'
      BY <1>1
    <3>2. ~proc'[p].newDb /\ proc'[p].phase = "running"
      BY <2>2
    <3>. QED  BY <1>2, <2>3, <3>1, <3>2 DEF LegacyInv
  <2>5. \A q \in Process : proc'[q].newDb => proc[q].newDb
    BY <2>2, <2>3
  <2>6. CASE proc[p].newDb
    <3>1. interrupted' = (interrupted \/ stateDb')
      BY <1>5, <2>6 DEF OpenDbFails
    <3>2. stateDb' => interrupted'
      BY <3>1
    <3>3. ~overlapped => imports = 0
      BY <2>6 DEF LegacyInv, ImportsFit
    <3>4. ~stateDb' \/ ~legacy' => imports' = 0
      <4>1. ~stateDb' => ~stateDb
        BY <1>1
      <4>. QED  BY <1>1, <4>1 DEF LegacyInv, ImportsFit
    <3>5. ~overlapped' =>
             \A q, r \in Process : proc'[q].newDb /\ proc'[r].newDb => q = r
      BY <1>1, <2>5 DEF LegacyInv, ImportsFit
    <3>6. ~overlapped' => imports' = 0
      BY <1>1, <3>3
    <3>7. ImportsFit'
      BY <3>2, <3>4, <3>5, <3>6 DEF ImportsFit
    <3>. QED  BY <1>3, <2>4, <3>7 DEF LegacyInv
  <2>7. CASE ~proc[p].newDb
    <3>1. stateDb
      BY <1>1, <2>7 DEF LegacyInv
    <3>2. stateDb'
      BY <1>1, <3>1
    <3>3. \A q \in Process : proc'[q].newDb <=> proc[q].newDb
      BY <2>2, <2>3, <2>7
    <3>4. interrupted => interrupted'
      BY <1>1
    <3>5. ImportsFit'
      BY <1>1, <3>1, <3>2, <3>3, <3>4 DEF LegacyInv, ImportsFit
    <3>. QED  BY <1>3, <2>4, <3>5 DEF LegacyInv
  <2>. QED  BY <2>6, <2>7
<1>. QED  BY <1>4, <1>5

\* The import takes the right back, and happens once per right.
LEMMA LegacyImports ==
    ASSUME Shape, LegacyInv, NEW p \in Process, ImportLegacy(p) \/ ImportFails(p)
    PROVE  LegacyInv'
<1>1. /\ proc[p].phase = "importing" /\ UNCHANGED <<legacy, stateDb, overlapped>>
      /\ \/ /\ imports' = imports + (IF legacy THEN 1 ELSE 0)
            /\ interrupted' = interrupted
         \/ imports' = imports /\ interrupted' = TRUE
      /\ proc' = Started(p)
  BY DEF ImportLegacy, ImportFails, dirVars, startHistory
<1>2. proc[p].newDb /\ stateDb
  BY <1>1 DEF LegacyInv
<1>3. Others(p) /\ proc'[p].phase = "running" /\ proc'[p].newDb = FALSE
  BY <1>1, StartedSteps
<1>4. \A q \in Process \ {p} : proc'[q] = proc[q]
  BY <1>3 DEF Others
<1>5. \A q \in Process :
         /\ proc'[q].newDb => proc'[q].phase \in {"opening", "importing"}
         /\ proc'[q].phase = "importing" => proc'[q].newDb /\ stateDb'
         /\ proc'[q].phase = "opening" => proc'[q].newDb \/ stateDb'
  BY <1>1, <1>3, <1>4 DEF LegacyInv
<1>6. \A q \in Process : proc'[q].newDb => q # p /\ proc[q].newDb
  BY <1>3, <1>4
<1>7. LegacyTypes'
  <2>1. imports' \in Nat
    BY <1>1 DEF LegacyInv, LegacyTypes
  <2>2. interrupted' \in BOOLEAN
    BY <1>1 DEF LegacyInv, LegacyTypes
  <2>. QED  BY <1>1, <2>1, <2>2 DEF LegacyInv, LegacyTypes
<1>8. ImportsFit'
  <2>1. imports \in Nat /\ imports' \in Nat
    BY <1>7 DEF LegacyInv, LegacyTypes
  <2>2. ~stateDb' \/ ~legacy' => imports' = 0
    BY <1>1, <1>2 DEF LegacyInv, ImportsFit
  <2>3. stateDb' /\ legacy' /\ imports' = 0 => interrupted'
    BY <1>1, <2>1
  <2>4. ASSUME ~overlapped'
        PROVE  /\ \A q \in Process : ~proc'[q].newDb
               /\ imports' <= 1
    <3>1. imports = 0 /\ \A q \in Process : proc[q].newDb => q = p
      BY <1>1, <1>2, <2>4 DEF LegacyInv, ImportsFit
    <3>. QED  BY <1>1, <1>6, <3>1
  <2>. QED  BY <2>2, <2>3, <2>4 DEF ImportsFit
<1>. QED  BY <1>5, <1>7, <1>8 DEF LegacyInv

-----------------------------------------------------------------------------
(* Windows and the stored settings. *)

StoredSize == Clamp(settingsFile.size, Valid)

\* What an untouched process that runs relies on: its windows show what is
\* stored, except the one whose change is being saved.
Shows(p) ==
    proc[p].phase # "down" =>
        /\ settingsFile \notin {NoFile, Torn}
        /\ proc[p].shared.size = StoredSize
        /\ \A w \in Window : proc[p].win[w] # Shut =>
              /\ proc[p].win[w].size \in Valid
              /\ \/ proc[p].win[w].size = StoredSize
                 \/ proc[p].save # NoSave /\ proc[p].save.publish /\ proc[p].save.from = w
        /\ proc[p].save # NoSave => proc[p].win[proc[p].save.from] # Shut

ShownInv == untouched \subseteq Process /\ \A p \in untouched : Shows(p)

\* The processes that do not move rely on the file alone.
LEMMA ShownOthers ==
    ASSUME ShownInv, NEW p \in Process, Others(p),
           untouched' \subseteq untouched \union {p},
           untouched' # {} => settingsFile' = settingsFile \/ untouched' \subseteq {p},
           p \in untouched' => Shows(p)'
    PROVE  ShownInv'
<1>1. ASSUME NEW q \in untouched', q # p  PROVE Shows(q)'
  <2>1. /\ q \in untouched /\ q \in Process /\ settingsFile' = settingsFile
        /\ proc'[q] = proc[q]
    BY <1>1 DEF ShownInv, Others
  <2>2. Shows(q)
    BY <2>1 DEF ShownInv
  <2>. QED  BY <2>1, <2>2 DEF Shows, StoredSize
<1>. QED  BY <1>1 DEF ShownInv

\* A process that keeps its settings, or opens and closes windows on them.
LEMMA ShownKept ==
    ASSUME Shape, ShownInv, NEW p \in Process, Others(p),
           UNCHANGED settingsFile, untouched' \subseteq untouched,
           \/ proc'[p].phase = "down"
           \/ /\ proc[p].phase # "down"
              /\ proc'[p].shared = proc[p].shared /\ proc'[p].save = proc[p].save
              /\ proc[p].save = NoSave \/ proc'[p].win = proc[p].win
              /\ \A w \in Window : proc'[p].win[w] \in {proc[p].win[w], proc[p].shared, Shut}
    PROVE  ShownInv'
<1>1. ASSUME p \in untouched', proc'[p].phase # "down"  PROVE Shows(p)'
  <2>1. Shows(p) /\ proc[p].phase # "down"
    BY <1>1 DEF ShownInv
  <2>2. StoredSize' = StoredSize /\ StoredSize \in Valid
    BY ClampValid DEF Shape, IsSettings, StoredSize
  <2>3. ASSUME NEW w \in Window, proc'[p].win[w] # Shut
        PROVE  /\ proc'[p].win[w].size \in Valid
               /\ \/ proc'[p].win[w].size = StoredSize
                  \/ proc'[p].save # NoSave /\ proc'[p].save.publish /\ proc'[p].save.from = w
    BY <1>1, <2>1, <2>2, <2>3 DEF Shows
  <2>4. proc'[p].save # NoSave => proc'[p].win[proc'[p].save.from] # Shut
    BY <1>1, <2>1 DEF Shows
  <2>. QED  BY <1>1, <2>1, <2>2, <2>3, <2>4 DEF Shows
<1>2. p \in untouched' => Shows(p)'
  BY <1>1 DEF Shows
<1>. QED  BY <1>2, ShownOthers

\* A launch takes what is stored.
LEMMA ShownLaunch ==
    ASSUME Shape, ShownInv, NEW p \in Process, Launch(p)
    PROVE  ShownInv'
<1>1. /\ Others(p) /\ UNCHANGED settingsFile
      /\ untouched' = IF settingsFile \in {NoFile, Torn} THEN untouched \ {p}
                      ELSE untouched \union {p}
  BY LaunchSteps DEF Launch
<1>2. p \in untouched' => Shows(p)'
  BY <1>1, LaunchSteps, LoadedIsValid DEF Shape, Shows, StoredSize
<1>. QED  BY <1>1, <1>2, ShownOthers

\* A change puts one window apart, the one whose copy is being saved.
LEMMA ShownChange ==
    ASSUME Shape, ShownInv, NEW p \in Process, NEW w \in Window,
           ChangeOption(p, w) \/ AddFile(p, w) \/ ClearRecentFiles(p, w)
    PROVE  ShownInv'
<1>1. PICK settings : \E publish \in BOOLEAN :
          /\ IsSettings(settings) /\ SaveFrom(p, w, settings, publish)
          /\ settings.size \in Valid \/ settings.size = proc[p].win[w].size
          /\ ~publish => settings.size = proc[p].win[w].size
  BY ChangeSteps
<1>2. PICK publish \in BOOLEAN :
          /\ IsSettings(settings) /\ SaveFrom(p, w, settings, publish)
          /\ settings.size \in Valid \/ settings.size = proc[p].win[w].size
          /\ ~publish => settings.size = proc[p].win[w].size
  BY <1>1
<1>3. /\ Others(p) /\ Idle(p) /\ proc[p].win[w] # Shut
      /\ proc'[p].phase = proc[p].phase
      /\ proc'[p].shared = proc[p].shared
      /\ \A v \in Window \ {w} : proc'[p].win[v] = proc[p].win[v]
      /\ proc'[p].win[w] = settings
      /\ proc'[p].save # NoSave
      /\ proc'[p].save.from = w /\ proc'[p].save.publish = publish
      /\ UNCHANGED <<settingsFile, untouched>>
  BY <1>2, SaveFromSteps DEF dirVars
<1>4. ASSUME p \in untouched  PROVE Shows(p)'
  <2>1. Shows(p) /\ proc[p].phase = "running" /\ proc[p].save = NoSave
    BY <1>3, <1>4 DEF ShownInv, Idle
  <2>2. proc[p].win[w].size \in Valid /\ proc[p].win[w].size = StoredSize
    BY <1>3, <2>1 DEF Shows
  <2>3. settings.size \in Valid /\ (~publish => settings.size = StoredSize)
    BY <1>2, <2>2
  <2>4. settings # Shut
    BY <2>3, Constants DEF Valid
  <2>5. ASSUME NEW v \in Window, proc'[p].win[v] # Shut
        PROVE  /\ proc'[p].win[v].size \in Valid
               /\ \/ proc'[p].win[v].size = StoredSize
                  \/ proc'[p].save # NoSave /\ proc'[p].save.publish /\ proc'[p].save.from = v
    <3>1. CASE v = w
      BY <1>2, <1>3, <2>3, <3>1
    <3>2. CASE v # w
      BY <1>3, <2>1, <2>5, <3>2 DEF Shows
    <3>. QED  BY <3>1, <3>2
  <2>6. StoredSize' = StoredSize
    BY <1>3 DEF StoredSize
  <2>. QED  BY <1>3, <2>1, <2>4, <2>5, <2>6 DEF Shows
<1>. QED  BY <1>3, <1>4, ShownOthers

\* The steps before the rename change neither the file nor a copy.
LEMMA ShownSaving ==
    ASSUME Shape, ShownInv, NEW p \in Process, CopyBackup(p) \/ WriteTemp(p)
    PROVE  ShownInv'
<1>1. /\ Others(p) /\ proc[p].save # NoSave /\ proc'[p].save # NoSave
      /\ proc'[p].phase = proc[p].phase
      /\ proc'[p].shared = proc[p].shared /\ proc'[p].win = proc[p].win
      /\ proc'[p].save.from = proc[p].save.from
      /\ proc'[p].save.publish = proc[p].save.publish
      /\ UNCHANGED <<settingsFile, untouched>>
  BY SaveStepSteps
<1>2. ASSUME p \in untouched  PROVE Shows(p)'
  <2>1. Shows(p) /\ StoredSize' = StoredSize
    BY <1>1, <1>2 DEF ShownInv, StoredSize
  <2>. QED  BY <1>1, <2>1 DEF Shows
<1>. QED  BY <1>1, <1>2, ShownOthers

\* The rename makes what the window shows the stored settings, and an observer
\* gives it to the others; a change that is not published kept the number.
LEMMA ShownRename ==
    ASSUME Shape, ShownInv, NEW p \in Process, Rename(p)
    PROVE  ShownInv'
<1>1. /\ Others(p) /\ proc[p].save # NoSave /\ proc'[p].save = NoSave
      /\ proc'[p].phase = proc[p].phase
      /\ settingsFile' = Saved(p)
      /\ proc'[p].shared = IF proc[p].save.publish THEN Saved(p) ELSE proc[p].shared
      /\ \A w \in Window : proc'[p].win[w] =
             IF proc[p].save.publish /\ proc[p].win[w] # Shut THEN Saved(p)
             ELSE proc[p].win[w]
  BY RenameSteps
<1>2. untouched' = untouched \intersect {p}
  BY DEF Rename
<1>3. /\ proc[p].save.from \in Window /\ proc[p].save.publish \in BOOLEAN
      /\ IsSettings(Saved(p)) /\ Saved(p) = proc[p].win[proc[p].save.from]
  BY <1>1, SavedIsSettings DEF Saved
<1>4. ASSUME p \in untouched, proc[p].phase # "down"  PROVE Shows(p)'
  <2>1. Shows(p)
    BY <1>4 DEF ShownInv
  <2>2. Saved(p).size \in Valid /\ Saved(p) # Shut
    BY <1>1, <1>3, <1>4, <2>1 DEF Shows
  <2>3. Saved(p) \notin {NoFile, Torn}
    BY <2>2, Constants DEF Valid
  <2>4. StoredSize' = Saved(p).size
    BY <1>1, <1>3, <2>2, ClampValid DEF IsSettings, StoredSize
  <2>5. CASE proc[p].save.publish
    BY <1>1, <2>2, <2>3, <2>4, <2>5 DEF Shows
  <2>6. CASE ~proc[p].save.publish
    <3>1. Saved(p).size = StoredSize
      BY <1>1, <1>3, <1>4, <2>1, <2>2, <2>6 DEF Shows
    <3>2. /\ proc[p].shared.size = StoredSize
          /\ \A w \in Window : proc[p].win[w] # Shut =>
                proc[p].win[w].size \in Valid /\ proc[p].win[w].size = StoredSize
      BY <1>4, <2>1, <2>6 DEF Shows
    <3>. QED  BY <1>1, <2>3, <2>4, <2>6, <3>1, <3>2 DEF Shows
  <2>. QED  BY <1>3, <2>5, <2>6
<1>5. p \in untouched' => Shows(p)'
  BY <1>1, <1>2, <1>4 DEF Shows
<1>. QED  BY <1>1, <1>2, <1>5, ShownOthers

\* After a save that failed nothing is claimed of its process.
LEMMA ShownSaveFails ==
    ASSUME Shape, ShownInv, NEW p \in Process, SettingsSaveFails(p)
    PROVE  ShownInv'
BY SaveFailsSteps, ShownOthers

-----------------------------------------------------------------------------
ConfigInv == Shape /\ LegacyInv /\ ShownInv

\* No process is there at first.
LEMMA InitConfigInv == ConfigInit => ConfigInv
<1>. SUFFICES ASSUME ConfigInit PROVE ConfigInv
  OBVIOUS
<1>1. DOMAIN proc = Process /\ \A p \in Process : proc[p] = Down
  BY DEF ConfigInit
<1>2. Shape
  BY <1>1, DownIsProc, Constants DEF ConfigInit, Shape
<1>3. LegacyInv
  <2>1. LegacyTypes
    BY DEF ConfigInit, LegacyTypes
  <2>2. \A p \in Process : proc[p].newDb = FALSE /\ proc[p].phase = "down"
    BY <1>1, DownIsProc
  <2>3. imports = 0 /\ ~stateDb
    BY DEF ConfigInit
  <2>4. ImportsFit
    BY <2>2, <2>3 DEF ImportsFit
  <2>. QED  BY <2>1, <2>2, <2>4 DEF LegacyInv
<1>4. ShownInv
  BY DEF ConfigInit, ShownInv
<1>. QED  BY <1>2, <1>3, <1>4 DEF ConfigInv

\* Every step keeps the three parts, one step of the proof per action.
LEMMA ConfigInvStep ==
    ASSUME ConfigInv, [ConfigNext]_configVars
    PROVE  ConfigInv'
<1>. USE DEF ConfigInv
<1>1. ASSUME NEW p \in Process, Launch(p)  PROVE ConfigInv'
  <2>1. proc[p].newDb = FALSE
    BY <1>1 DEF Shape, IsProc, LegacyInv, Launch
  <2>2. LegacyInv'
    BY <1>1, <2>1, LaunchSteps, LegacyKept DEF Launch
  <2>. QED  BY <1>1, <2>2, LaunchSteps, ShownLaunch
<1>2. ASSUME NEW p \in Process, proc' = [proc EXCEPT ![p] = Down],
             UNCHANGED <<settingsFile, legacy, stateDb, imports, untouched>>,
             IsSettings(backup'),
             overlapped' = overlapped,
             interrupted' = (interrupted \/ (proc[p].newDb /\ stateDb))
      PROVE  ConfigInv'
  <2>1. Shape' /\ Others(p) /\ proc'[p] = Down
    BY <1>2, DownSteps DEF Shape
  <2>2. ShownInv'
    BY <1>2, <2>1, ShownKept, DownIsProc
  <2>3. \A q \in Process \ {p} : proc'[q] = proc[q]
    BY <2>1 DEF Others
  <2>4. proc'[p].newDb = FALSE /\ proc'[p].phase = "down"
    BY <2>1, DownIsProc
  <2>5. interrupted' \in BOOLEAN
    BY <1>2 DEF LegacyInv, LegacyTypes
  <2>6. LegacyTypes'
    BY <1>2, <2>5 DEF LegacyInv, LegacyTypes
  <2>7. \A q \in Process :
           /\ proc'[q].newDb => proc'[q].phase \in {"opening", "importing"}
           /\ proc'[q].phase = "importing" => proc'[q].newDb /\ stateDb'
           /\ proc'[q].phase = "opening" => proc'[q].newDb \/ stateDb'
    BY <1>2, <2>3, <2>4 DEF LegacyInv
  <2>8. ImportsFit'
    <3>1. \A q \in Process : proc'[q].newDb => proc[q].newDb
      BY <2>3, <2>4
    <3>2. \A q \in Process : q # p /\ proc[q].newDb => proc'[q].newDb
      BY <2>3
    <3>3. (interrupted => interrupted') /\ (proc[p].newDb /\ stateDb => interrupted')
      BY <1>2
    <3>. QED  BY <1>2, <3>1, <3>2, <3>3 DEF LegacyInv, ImportsFit
  <2>. QED  BY <2>1, <2>2, <2>6, <2>7, <2>8 DEF LegacyInv
<1>3. ASSUME NEW p \in Process, HandOver(p)  PROVE ConfigInv'
  <2>1. proc[p].newDb = FALSE
    BY <1>3 DEF Shape, IsProc, LegacyInv, HandOver
  <2>2. interrupted' = (interrupted \/ (proc[p].newDb /\ stateDb)) /\ overlapped' = overlapped
    BY <1>3, <2>1 DEF HandOver, startHistory, LegacyInv, LegacyTypes
  <2>. QED  BY <1>2, <1>3, <2>2 DEF HandOver, dirVars, Shape
<1>4. ASSUME NEW p \in Process, Crash(p)  PROVE ConfigInv'
  <2>1. IsSettings(backup')
    BY <1>4, Constants DEF Crash, Shape
  <2>2. /\ proc' = [proc EXCEPT ![p] = Down]
        /\ interrupted' = (interrupted \/ (proc[p].newDb /\ stateDb))
        /\ UNCHANGED <<settingsFile, legacy, stateDb, imports, untouched, overlapped>>
    BY <1>4 DEF Crash
  <2>. QED  BY <1>2, <2>1, <2>2
<1>5. ASSUME NEW p \in Process, LookForDb(p)  PROVE ConfigInv'
  <2>1. stateDb \in BOOLEAN
    BY DEF LegacyInv, LegacyTypes
  <2>2. ShownInv'
    BY <1>5, <2>1, LookSteps, ShownKept DEF LookForDb, dirVars
  <2>. QED  BY <1>5, <2>1, <2>2, LookSteps, LegacyLook
<1>6. ASSUME NEW p \in Process, proc' = Started(p), proc[p].phase \in {"opening", "importing"},
             UNCHANGED <<settingsFile, backup, untouched>>
      PROVE  Shape' /\ ShownInv'
  <2>1. /\ Shape' /\ Others(p)
        /\ proc'[p].shared = proc[p].shared /\ proc'[p].save = proc[p].save
        /\ \A w \in Window : proc'[p].win[w] \in {proc[p].win[w], proc[p].shared}
    BY <1>6, StartedSteps DEF Shape
  <2>2. proc[p].save = NoSave
    BY <1>6 DEF Shape, IsProc
  <2>3. ShownInv'
    BY <1>6, <2>1, <2>2, ShownKept
  <2>. QED  BY <2>1, <2>3
<1>7. ASSUME NEW p \in Process, OpenDb(p) \/ OpenDbFails(p)  PROVE ConfigInv'
  <2>1. LegacyInv'
    BY <1>7, LegacyOpen
  <2>2. /\ proc[p].phase = "opening" /\ UNCHANGED <<settingsFile, backup, untouched>>
        /\ \/ proc' = Started(p)
           \/ proc' = [proc EXCEPT ![p].phase = "importing"]
    BY <1>7 DEF OpenDb, OpenDbFails
  <2>3. CASE proc' = [proc EXCEPT ![p].phase = "importing"]
    <3>1. /\ DOMAIN proc' = Process /\ Others(p)
          /\ DOMAIN proc'[p] = DOMAIN proc[p]
          /\ proc'[p].phase = "importing" /\ proc'[p].newDb = proc[p].newDb
          /\ proc'[p].shared = proc[p].shared /\ proc'[p].win = proc[p].win
          /\ proc'[p].save = proc[p].save
      BY <2>3 DEF Shape, IsProc, Others
    <3>2. IsProc(proc'[p]) /\ proc[p].save = NoSave
      BY <2>2, <3>1 DEF Shape, IsProc, Phases
    <3>3. Shape'
      BY <2>2, <3>1, <3>2 DEF Shape, Others
    <3>4. ShownInv'
      BY <2>2, <3>1, <3>2, ShownKept
    <3>. QED  BY <2>1, <3>3, <3>4
  <2>. QED  BY <1>6, <2>1, <2>2, <2>3
<1>8. ASSUME NEW p \in Process, ImportLegacy(p) \/ ImportFails(p)  PROVE ConfigInv'
  <2>1. /\ proc' = Started(p) /\ proc[p].phase = "importing"
        /\ UNCHANGED <<settingsFile, backup, untouched>>
    BY <1>8 DEF ImportLegacy, ImportFails, dirVars
  <2>. QED  BY <1>6, <1>8, <2>1, LegacyImports
<1>9. ASSUME NEW p \in Process, NEW w \in Window,
             ChangeOption(p, w) \/ AddFile(p, w) \/ ClearRecentFiles(p, w)
      PROVE  ConfigInv'
  <2>1. PICK settings : \E publish \in BOOLEAN :
            IsSettings(settings) /\ SaveFrom(p, w, settings, publish)
    BY <1>9, ChangeSteps
  <2>2. /\ Shape' /\ Others(p)
        /\ proc'[p].phase = proc[p].phase /\ proc'[p].newDb = proc[p].newDb
        /\ UNCHANGED <<dirVars, untouched, startHistory>>
    BY <2>1, SaveFromSteps
  <2>3. LegacyInv'
    BY <2>2, LegacyKept DEF dirVars
  <2>. QED  BY <1>9, <2>2, <2>3, ShownChange
<1>10. ASSUME NEW p \in Process, CopyBackup(p) \/ WriteTemp(p)  PROVE ConfigInv'
  <2>1. LegacyInv'
    BY <1>10, SaveStepSteps, LegacyKept
  <2>. QED  BY <1>10, <2>1, SaveStepSteps, ShownSaving
<1>11. ASSUME NEW p \in Process, Rename(p)  PROVE ConfigInv'
  <2>1. LegacyInv'
    BY <1>11, RenameSteps, LegacyKept DEF Rename
  <2>. QED  BY <1>11, <2>1, RenameSteps, ShownRename
<1>12. ASSUME NEW p \in Process, SettingsSaveFails(p)  PROVE ConfigInv'
  <2>1. LegacyInv'
    BY <1>12, SaveFailsSteps, LegacyKept DEF SettingsSaveFails
  <2>. QED  BY <1>12, <2>1, SaveFailsSteps, ShownSaveFails
<1>13. ASSUME NEW p \in Process,
              ShowWindow(p) \/ ReloadThemes(p)
                \/ \E w \in Window : Idle(p) /\ proc' = [proc EXCEPT ![p].win[w] = Shut]
                                     /\ UNCHANGED <<dirVars, budget, untouched, startHistory>>
       PROVE  ConfigInv'
  <2>1. /\ Shape' /\ Others(p) /\ Idle(p)
        /\ proc'[p].phase = proc[p].phase /\ proc'[p].newDb = proc[p].newDb
        /\ proc'[p].shared = proc[p].shared /\ proc'[p].save = proc[p].save
        /\ \A w \in Window : proc'[p].win[w] \in {proc[p].win[w], proc[p].shared, Shut}
        /\ UNCHANGED <<dirVars, untouched, startHistory>>
    BY <1>13, WindowSteps
  <2>2. LegacyInv'
    BY <2>1, LegacyKept DEF dirVars
  <2>3. ShownInv'
    BY <2>1, ShownKept DEF Idle, dirVars
  <2>. QED  BY <2>1, <2>2, <2>3
<1>14. ASSUME NEW p \in Process, HideWindow(p)  PROVE ConfigInv'
  <2>1. PICK w \in Window :
            /\ Idle(p)
            /\ \/ proc' = [proc EXCEPT ![p] = Down]
               \/ proc' = [proc EXCEPT ![p].win[w] = Shut]
            /\ UNCHANGED <<dirVars, budget, untouched, startHistory>>
    BY <1>14 DEF HideWindow, OpenWindows
  <2>2. CASE proc' = [proc EXCEPT ![p] = Down]
    <3>1. proc[p].newDb = FALSE
      BY <2>1 DEF Shape, IsProc, LegacyInv, Idle
    <3>2. interrupted' = (interrupted \/ (proc[p].newDb /\ stateDb)) /\ overlapped' = overlapped
      BY <2>1, <3>1 DEF startHistory, LegacyInv, LegacyTypes
    <3>. QED  BY <1>2, <2>1, <2>2, <3>2 DEF dirVars, Shape
  <2>. QED  BY <1>13, <2>1, <2>2
<1>15. CASE EditByHand
  <2>1. \A q \in Process : proc'[q] = proc[q]
    BY <1>15 DEF EditByHand
  <2>2. IsSettings(settingsFile')
    <3>1. CASE settingsFile' = Torn
      BY <3>1, Constants
    <3>2. ASSUME NEW n \in ByHand, settingsFile' = [settingsFile EXCEPT !.size = n]
          PROVE  IsSettings(settingsFile')
      BY <3>2 DEF Shape, IsSettings, ByHand
    <3>. QED  BY <1>15, <3>1, <3>2 DEF EditByHand
  <2>3. Shape' /\ LegacyInv'
    BY <1>15, <2>1, <2>2
       DEF EditByHand, Shape, LegacyInv, LegacyTypes, ImportsFit, startHistory
  <2>4. ShownInv'
    BY <1>15 DEF EditByHand, ShownInv
  <2>. QED  BY <2>3, <2>4
<1>16. CASE UNCHANGED configVars
  BY <1>16
     DEF configVars, dirVars, startHistory, Shape, LegacyInv, LegacyTypes, ImportsFit,
         ShownInv, Shows, StoredSize
<1>. QED
  BY <1>1, <1>3, <1>4, <1>5, <1>7, <1>8, <1>9, <1>10, <1>11, <1>12, <1>13, <1>14, <1>15, <1>16
     DEF ConfigNext, StartStep, SettingsStep

\* Theorem: what the steps of every process keep true, for any processes and windows.
THEOREM ConfigInvariance == ConfigSpec => []ConfigInv
<1>1. ConfigInv /\ [ConfigNext]_configVars => ConfigInv'
  BY ConfigInvStep
<1>. QED  BY InitConfigInv, <1>1, PTL DEF ConfigSpec

\* Theorem (load_with_db, legacy.rs): as LegacyImportedOnce says, once the
\* database exists a session of an earlier version was imported, unless a start
\* failed or was killed between creating the file and the import, and only once,
\* unless two starts both found no file.  Neither can do what the other does.
THEOREM ImportedOnce == ConfigSpec => []LegacyImportedOnce
<1>1. ConfigInv => LegacyImportedOnce
  BY DEF ConfigInv, LegacyInv, LegacyTypes, ImportsFit, LegacyImportedOnce, Importing
<1>. QED  BY ConfigInvariance, <1>1, PTL

\* Theorem (propagation.rs): as ShownIsStored says, the windows of a process
\* whose saves succeed show what the next launch would load.
THEOREM StoredIsShown == ConfigSpec => []ShownIsStored
<1>1. ConfigInv => ShownIsStored
  <2>. SUFFICES ASSUME ConfigInv, NEW p \in untouched, Idle(p)
                PROVE  /\ \A w \in OpenWindows(p) : proc[p].win[w].size = Loaded.size
                       /\ proc[p].shared.size = Loaded.size
    BY DEF ShownIsStored
  <2>1. Shows(p) /\ proc[p].phase = "running" /\ proc[p].save = NoSave
    BY DEF ConfigInv, ShownInv, Idle
  <2>2. Loaded.size = StoredSize
    BY <2>1, LoadedIsValid DEF ConfigInv, Shape, Shows, StoredSize
  <2>. QED  BY <2>1, <2>2 DEF Shows, OpenWindows
<1>. QED  BY ConfigInvariance, <1>1, PTL

-----------------------------------------------------------------------------
(* The elements of a sequence that are in a set. *)

\* The recursive definition in Only has a solution.
KeptSteps(s, S, m, g) ==
    g = [n \in 0 .. m |->
           IF n = 0 THEN <<>>
           ELSE IF s[n] \in S THEN Append(g[n - 1], s[n]) ELSE g[n - 1]]

LEMMA KeptStepsExist ==
    ASSUME NEW s, NEW S
    PROVE  \A m \in Nat : \E g : KeptSteps(s, S, m, g)
<1>. DEFINE M == {m \in Nat : \E g : KeptSteps(s, S, m, g)}
            Then(n, r) == IF s[n] \in S THEN Append(r, s[n]) ELSE r
<1>1. 0 \in M
  <2>. DEFINE g == [n \in 0 .. 0 |-> <<>>]
  <2>1. KeptSteps(s, S, 0, g)
    BY DEF KeptSteps
  <2>. QED  BY <2>1
<1>2. ASSUME NEW m \in M PROVE m + 1 \in M
  <2>1. PICK g : KeptSteps(s, S, m, g)
    OBVIOUS
  <2>2. g = [n \in 0 .. m |-> IF n = 0 THEN <<>> ELSE Then(n, g[n - 1])]
    BY <2>1 DEF KeptSteps
  <2>. DEFINE last == Then(m + 1, g[m])
              h == [n \in 0 .. (m + 1) |-> IF n = m + 1 THEN last ELSE g[n]]
  <2>. HIDE DEF Then
  <2>3. ASSUME NEW n \in 0 .. (m + 1)
        PROVE  h[n] = IF n = 0 THEN <<>> ELSE Then(n, h[n - 1])
    <3>1. CASE n = m + 1
      <4>1. n # 0 /\ n - 1 = m /\ h[n] = last /\ h[m] = g[m]
        BY <3>1
      <4>. QED  BY <3>1, <4>1
    <3>2. CASE n = 0
      BY <2>2, <3>2
    <3>3. CASE n # m + 1 /\ n # 0
      <4>1. /\ n \in 0 .. m /\ h[n] = g[n]
            /\ n - 1 \in 0 .. (m + 1) /\ n - 1 # m + 1
        BY <3>3
      <4>2. h[n - 1] = g[n - 1]
        BY <4>1
      <4>3. g[n] = Then(n, g[n - 1])
        BY <2>2, <3>3, <4>1
      <4>. QED  BY <3>3, <4>1, <4>2, <4>3
    <3>. QED  BY <3>1, <3>2, <3>3
  <2>4. h = [n \in 0 .. (m + 1) |-> h[n]]
    OBVIOUS
  <2>. HIDE DEF h
  <2>5. h = [n \in 0 .. (m + 1) |-> IF n = 0 THEN <<>> ELSE Then(n, h[n - 1])]
    BY <2>3, <2>4
  <2>6. KeptSteps(s, S, m + 1, h)
    BY <2>5 DEF KeptSteps, Then
  <2>. QED  BY <2>6
<1>. QED
  <2>. HIDE DEF M
  <2>1. M \subseteq Nat
    BY DEF M
  <2>2. M = Nat
    BY <1>1, <1>2, <2>1, NatSet
  <2>. QED  BY <2>2 DEF M

LEMMA OnlySteps ==
    ASSUME NEW s, Len(s) \in Nat, NEW S
    PROVE  \E g : /\ g[0] = <<>>
                  /\ \A n \in 1 .. Len(s) :
                        g[n] = IF s[n] \in S THEN Append(g[n - 1], s[n]) ELSE g[n - 1]
                  /\ Only(s, S) = g[Len(s)]
<1>. DEFINE g == CHOOSE f : KeptSteps(s, S, Len(s), f)
<1>1. KeptSteps(s, S, Len(s), g)
  BY KeptStepsExist
<1>2. Only(s, S) = g[Len(s)]
  BY DEF Only, KeptSteps
<1>. HIDE DEF g
<1>3. \A n \in 0 .. Len(s) :
         g[n] = IF n = 0 THEN <<>>
                ELSE IF s[n] \in S THEN Append(g[n - 1], s[n]) ELSE g[n - 1]
  BY <1>1 DEF KeptSteps
<1>4. g[0] = <<>> /\ \A n \in 1 .. Len(s) :
         g[n] = IF s[n] \in S THEN Append(g[n - 1], s[n]) ELSE g[n - 1]
  BY <1>3
<1>. QED  BY <1>2, <1>4

\* r has the elements of the first n of s that are in S: h is where each one was.
Picks(s, S, n, r, h) ==
    /\ h \in [DOMAIN r -> 1 .. n]
    /\ \A i, j \in DOMAIN r : h[i] = h[j] => i = j
    /\ \A i \in DOMAIN r : r[i] = s[h[i]] /\ r[i] \in S
    /\ \A m \in 1 .. n : s[m] \in S => \E i \in DOMAIN r : h[i] = m

LEMMA OnlyPicks ==
    ASSUME NEW T, NEW s \in Seq(T), NEW S
    PROVE  Only(s, S) \in Seq(T) /\ \E h : Picks(s, S, Len(s), Only(s, S), h)
<1>1. PICK g : /\ g[0] = <<>>
               /\ \A n \in 1 .. Len(s) :
                     g[n] = IF s[n] \in S THEN Append(g[n - 1], s[n]) ELSE g[n - 1]
               /\ Only(s, S) = g[Len(s)]
  BY OnlySteps
<1>. DEFINE M == {n \in Nat : n <= Len(s) =>
                     g[n] \in Seq(T) /\ \E h : Picks(s, S, n, g[n], h)}
<1>2. 0 \in M
  <2>1. g[0] = <<>> /\ DOMAIN <<>> = {} /\ <<>> \in Seq(T)
    BY <1>1
  <2>2. Picks(s, S, 0, <<>>, <<>>)
    BY <2>1 DEF Picks
  <2>. QED  BY <2>1, <2>2
<1>3. ASSUME NEW n \in M PROVE n + 1 \in M
  <2>. SUFFICES ASSUME n + 1 <= Len(s)
                PROVE  g[n + 1] \in Seq(T) /\ \E h : Picks(s, S, n + 1, g[n + 1], h)
    OBVIOUS
  <2>1. n \in Nat /\ n + 1 \in 1 .. Len(s) /\ n + 1 - 1 = n /\ n <= Len(s)
    OBVIOUS
  <2>2. g[n] \in Seq(T) /\ \E h : Picks(s, S, n, g[n], h)
    BY <2>1
  <2>3. PICK h : Picks(s, S, n, g[n], h)
    BY <2>2
  <2>. DEFINE r == g[n]
              x == s[n + 1]
              q == g[n + 1]
              L == Len(r)
  <2>4. q = IF x \in S THEN Append(r, x) ELSE r
    BY <1>1, <2>1
  <2>5. x \in T
    BY <2>1
  <2>6. r \in Seq(T) /\ L \in Nat /\ DOMAIN r = 1 .. L
    BY <2>2
  <2>7. \A m : m \in 1 .. (n + 1) <=> m \in 1 .. n \/ m = n + 1
    BY <2>1
  <2>. HIDE DEF r, x, q, L
  <2>8. CASE x \notin S
    <3>1. q = r
      BY <2>4, <2>8
    <3>2. Picks(s, S, n + 1, r, h)
      BY <2>3, <2>6, <2>7, <2>8 DEF Picks, r, x
    <3>. QED  BY <2>6, <3>1, <3>2 DEF q
  <2>9. CASE x \in S
    <3>1. q = Append(r, x)
      BY <2>4, <2>9
    <3>2. q \in Seq(T)
      BY <2>5, <2>6, <3>1
    <3>3. DOMAIN q = 1 .. (L + 1) /\ q[L + 1] = x /\ \A i \in 1 .. L : q[i] = r[i]
      BY <2>5, <2>6, <3>1 DEF L
    <3>. DEFINE k == [i \in 1 .. (L + 1) |-> IF i = L + 1 THEN n + 1 ELSE h[i]]
    <3>4. \A i : i \in 1 .. (L + 1) <=> i \in 1 .. L \/ i = L + 1
      BY <2>6
    <3>5. ~(L + 1 \in 1 .. L) /\ ~(n + 1 \in 1 .. n)
      BY <2>1, <2>6
    <3>6. /\ h \in [1 .. L -> 1 .. n]
          /\ \A i, j \in 1 .. L : h[i] = h[j] => i = j
          /\ \A i \in 1 .. L : r[i] = s[h[i]] /\ r[i] \in S
          /\ \A m \in 1 .. n : s[m] \in S => \E i \in 1 .. L : h[i] = m
      BY <2>3, <2>6 DEF Picks, r
    <3>7. k[L + 1] = n + 1 /\ \A i \in 1 .. L : k[i] = h[i]
      BY <3>4, <3>5
    <3>8. k \in [1 .. (L + 1) -> 1 .. (n + 1)]
      <4>1. \A i \in 1 .. (L + 1) : k[i] \in 1 .. (n + 1)
        BY <2>7, <3>4, <3>6, <3>7
      <4>. QED  BY <4>1
    <3>. HIDE DEF k
    <3>9. ASSUME NEW i \in 1 .. (L + 1), NEW j \in 1 .. (L + 1), k[i] = k[j]
          PROVE  i = j
      <4>1. \A m \in 1 .. L : k[m] \in 1 .. n /\ k[m] # k[L + 1]
        BY <3>5, <3>6, <3>7
      <4>2. CASE i \in 1 .. L /\ j \in 1 .. L
        <5>1. h[i] = h[j]
          BY <3>7, <3>9, <4>2
        <5>. QED  BY <3>6, <4>2, <5>1
      <4>3. CASE i = L + 1 \/ j = L + 1
        BY <3>4, <3>9, <4>1, <4>3
      <4>. QED  BY <3>4, <4>2, <4>3
    <3>10. \A i \in 1 .. (L + 1) : q[i] = s[k[i]] /\ q[i] \in S
      BY <2>9, <3>3, <3>4, <3>6, <3>7 DEF x
    <3>11. \A m \in 1 .. (n + 1) : s[m] \in S => \E i \in 1 .. (L + 1) : k[i] = m
      BY <2>7, <3>4, <3>6, <3>7
    <3>12. Picks(s, S, n + 1, q, k)
      BY <3>3, <3>8, <3>9, <3>10, <3>11 DEF Picks
    <3>. QED  BY <3>2, <3>12 DEF q
  <2>. QED  BY <2>8, <2>9
<1>4. M = Nat
  <2>. HIDE DEF M
  <2>1. M \subseteq Nat
    BY DEF M
  <2>. QED  BY <1>2, <1>3, <2>1, NatSet
<1>. QED  BY <1>1, <1>4

\* What is used of it: no element twice, none outside the set, none left out.
LEMMA OnlyTheChosen ==
    ASSUME NEW T, NEW s \in Seq(T), NEW S
    PROVE  /\ Only(s, S) \in Seq(T)
           /\ Range(Only(s, S)) = Range(s) \cap S
           /\ (\A i, j \in DOMAIN s : s[i].id = s[j].id => i = j) =>
                 \A i, j \in DOMAIN Only(s, S) :
                    Only(s, S)[i].id = Only(s, S)[j].id => i = j
<1>. DEFINE r == Only(s, S)
<1>1. r \in Seq(T)
  BY OnlyPicks
<1>2. PICK h : Picks(s, S, Len(s), r, h)
  BY OnlyPicks
<1>. HIDE DEF r
<1>3. DOMAIN s = 1 .. Len(s)
  OBVIOUS
<1>4. /\ h \in [DOMAIN r -> DOMAIN s]
      /\ \A i, j \in DOMAIN r : h[i] = h[j] => i = j
      /\ \A i \in DOMAIN r : r[i] = s[h[i]] /\ r[i] \in S
      /\ \A m \in DOMAIN s : s[m] \in S => \E i \in DOMAIN r : h[i] = m
  BY <1>2, <1>3 DEF Picks
<1>5. Range(r) = Range(s) \cap S
  <2>1. ASSUME NEW x \in Range(r) PROVE x \in Range(s) \cap S
    BY <1>4 DEF Range
  <2>2. ASSUME NEW x \in Range(s) \cap S PROVE x \in Range(r)
    <3>1. PICK m \in DOMAIN s : s[m] = x
      BY DEF Range
    <3>2. PICK i \in DOMAIN r : h[i] = m
      BY <1>4, <3>1
    <3>3. r[i] = x
      BY <1>4, <3>1, <3>2
    <3>. QED  BY <3>3 DEF Range
  <2>. QED  BY <2>1, <2>2
<1>6. ASSUME \A i, j \in DOMAIN s : s[i].id = s[j].id => i = j
      PROVE  \A i, j \in DOMAIN r : r[i].id = r[j].id => i = j
  BY <1>4, <1>6
<1>. QED  BY <1>1, <1>5, <1>6 DEF r

-----------------------------------------------------------------------------
(* A database with the rows of one window. *)

LEMMA LoadsNothing ==
    ASSUME NEW d, WindowRows(d) = {}
    PROVE  Load(d) = <<>>
<1>. DEFINE Sorted(s) == \A i, j \in DOMAIN s : i < j => WindowBefore(d, s[i], s[j])
            order == CHOOSE s \in SetToSeqs({}) : Sorted(s)
<1>1. <<>> \in SetToSeqs({}) /\ DOMAIN <<>> = {}
  <2>1. DOMAIN <<>> = 1 .. 0 /\ <<>> \in [1 .. 0 -> {}]
    OBVIOUS
  <2>2. \A i \in 1 .. 0 : FALSE
    OBVIOUS
  <2>. QED  BY <2>1, <2>2, IsList
<1>2. order \in SetToSeqs({})
  BY <1>1
<1>3. Load(d) = [i \in DOMAIN order |-> LoadWindow(d, order[i])]
  BY DEF Load
<1>. HIDE DEF order
<1>4. DOMAIN order = 1 .. 0
  BY <1>2, ListsAll, FS_EmptySet
<1>. QED  BY <1>3, <1>4

LEMMA LoadsOne ==
    ASSUME NEW d, NEW w, WindowRows(d) = {w}
    PROVE  Load(d) # <<>> /\ Load(d)[1] = LoadWindow(d, w)
<1>. DEFINE Sorted(s) == \A i, j \in DOMAIN s : i < j => WindowBefore(d, s[i], s[j])
            order == CHOOSE s \in SetToSeqs({w}) : Sorted(s)
            one == [i \in 1 .. 1 |-> w]
<1>1. one \in SetToSeqs({w}) /\ DOMAIN one = 1 .. 1
  <2>1. one \in [1 .. 1 -> {w}]
    OBVIOUS
  <2>2. \A i, j \in 1 .. 1 : i = j
    OBVIOUS
  <2>. HIDE DEF one
  <2>3. \A x \in {w} : \E i \in 1 .. 1 : one[i] = x
    BY <2>1
  <2>. HIDE DEF Sorted, order
  <2>4. DOMAIN one = 1 .. 1
    BY <2>1
  <2>5. one \in SetToSeqs({w})
    BY <2>1, <2>2, <2>3, IsList
  <2>. QED  BY <2>4, <2>5
<1>2. Sorted(one)
  <2>. HIDE DEF one
  <2>. QED  BY <1>1
<1>3. order \in SetToSeqs({w})
  BY <1>1, <1>2
<1>4. Load(d) = [i \in DOMAIN order |-> LoadWindow(d, order[i])]
  BY DEF Load
<1>. HIDE DEF order
<1>5. Cardinality({w}) = 1 /\ IsFiniteSet({w})
  BY FS_Singleton
<1>6. DOMAIN order = 1 .. 1 /\ order[1] = w
  <2>1. /\ DOMAIN order = 1 .. Cardinality({w})
        /\ order \in [DOMAIN order -> {w}]
    BY <1>3, <1>5, ListsAll
  <2>2. 1 \in 1 .. 1
    OBVIOUS
  <2>. QED  BY <1>5, <2>1, <2>2
<1>7. DOMAIN Load(d) = 1 .. 1 /\ Load(d)[1] = LoadWindow(d, w)
  BY <1>4, <1>6
<1>. QED  BY <1>7

\* The index of the active tab as apply_window uses it.
Active(win) == IF win.active \in DOMAIN win.tabs THEN win.active ELSE NoActive

LEMMA AppliesOne ==
    ASSUME NEW d, NEW snapshot, Len(snapshot) = 1, NEW closing
    PROVE  Apply(d, snapshot, closing)
             = DeleteWindows(ApplyWindow(d, snapshot[1], 1),
                             closing \ PresentWindows(snapshot))
<1>1. Len(snapshot) \in Nat
  OBVIOUS
<1>2. PICK g : /\ g[0] = d
               /\ \A n \in 1 .. Len(snapshot) :
                     g[n] = ApplyWindow(g[n - 1], snapshot[n], n)
               /\ Apply(d, snapshot, closing)
                    = DeleteWindows(g[Len(snapshot)],
                                    closing \ PresentWindows(snapshot))
  BY <1>1, ApplySteps
<1>3. 1 \in 1 .. Len(snapshot) /\ 1 - 1 = 0
  OBVIOUS
<1>4. g[1] = ApplyWindow(g[1 - 1], snapshot[1], 1)
  BY <1>2, <1>3
<1>. QED  BY <1>2, <1>3, <1>4

\* A save of the only window, whatever index it calls active.
LEMMA SavesOne ==
    ASSUME NEW d, AllRows(d), NEW win, WindowRows(d) \subseteq {win.id},
           NEW l, IsLayout(l), l.tabs = win.tabs, l.active = Active(win)
    PROVE  LET e == Apply(d, <<win>>, {win.id})
           IN  WindowRows(e) = {win.id} /\ AllRows(e) /\ Stored(e, win.id, l)
<1>. DEFINE e == Apply(d, <<win>>, {win.id})
            f == ApplyWindow(d, win, 1)
<1>1. Len(<<win>>) = 1 /\ DOMAIN <<win>> = {1} /\ <<win>>[1] = win
  OBVIOUS
<1>2. PresentWindows(<<win>>) = {win.id}
  BY <1>1 DEF PresentWindows
<1>3. e = DeleteWindows(f, {})
  <2>1. {win.id} \ PresentWindows(<<win>>) = {}
    BY <1>2
  <2>. DEFINE snapshot == <<win>>
  <2>2. Len(snapshot) = 1 /\ snapshot[1] = win
    OBVIOUS
  <2>3. e = Apply(d, snapshot, {win.id}) /\ {win.id} \ PresentWindows(snapshot) = {}
    BY <2>1
  <2>. HIDE DEF snapshot, e
  <2>. QED  BY <2>2, <2>3, AppliesOne
<1>. DEFINE same == [id |-> win.id, tabs |-> l.tabs, active |-> l.active]
<1>4. f = ApplyWindow(d, same, 1)
  <2>1. NoActive \notin DOMAIN l.tabs
    BY LayoutTabs DEF NoActive
  <2>2. StoredWindow(same, 1) = StoredWindow(win, 1)
    BY <2>1 DEF StoredWindow, Active
  <2>3. same.id = win.id /\ same.tabs = win.tabs
    OBVIOUS
  <2>. HIDE DEF same
  <2>4. ApplyTabs(d.tabs, same) = ApplyTabs(d.tabs, win)
    BY <2>3 DEF ApplyTabs
  <2>. QED  BY <2>2, <2>3, <2>4 DEF ApplyWindow
<1>5. same.id = win.id /\ Layout(same) = l
  BY DEF Layout, IsLayout
<1>. HIDE DEF same, f, e
<1>6. /\ WindowRows(f) = WindowRows(d) \cup {win.id}
      /\ AllRows(f)
      /\ Stored(f, win.id, l)
  BY <1>4, <1>5, WritesWindow
<1>7. e = [windows |-> [w \in WindowRows(f) |-> f.windows[w]],
           tabs |-> [k \in DOMAIN f.tabs |-> f.tabs[k]]]
  BY <1>3 DEF DeleteWindows
<1>8. /\ WindowRows(e) = WindowRows(f)
      /\ DOMAIN e.tabs = DOMAIN f.tabs /\ \A k \in DOMAIN f.tabs : e.tabs[k] = f.tabs[k]
      /\ \A w \in WindowRows(f) : e.windows[w] = f.windows[w]
  BY <1>7 DEF WindowRows
<1>9. WindowRows(f) = {win.id}
  BY <1>6
<1>10. AllRows(e)
  BY <1>6, <1>8 DEF AllRows
<1>11. Stored(e, win.id, l)
  <2>1. TabRows(e, win.id) = TabRows(f, win.id)
    BY <1>8 DEF TabRows
  <2>2. ASSUME NEW i \in DOMAIN l.tabs
        PROVE  e.tabs[<<win.id, l.tabs[i].id>>] = StoredTab(l.tabs[i], i)
    <3>1. <<win.id, l.tabs[i].id>> \in TabRows(f, win.id)
      BY <1>6 DEF Stored
    <3>2. e.tabs[<<win.id, l.tabs[i].id>>] = f.tabs[<<win.id, l.tabs[i].id>>]
      BY <1>8, <3>1 DEF TabRows
    <3>. QED  BY <1>6, <3>2 DEF Stored, Holds
  <2>. QED  BY <1>6, <1>8, <1>9, <2>1, <2>2 DEF Stored, Holds
<1>. QED  BY <1>8, <1>9, <1>10, <1>11 DEF e

-----------------------------------------------------------------------------
(* The tabs of a window. *)

\* No two tabs have the same identity, and none the next one.
Good(ts, n) ==
    /\ ts \in Seq(Tab)
    /\ \A i, j \in DOMAIN ts : ts[i].id = ts[j].id => i = j
    /\ \A i \in DOMAIN ts : ts[i].id < n

RemoteTabs(ts) == {ts[i].id : i \in {i \in DOMAIN ts : ts[i].kind = "remote"}}

LEMMA NoTabs ==
    ASSUME NEW n \in Nat
    PROVE  Good(<<>>, n) /\ RemoteTabs(<<>>) = {}
<1>1. DOMAIN <<>> = {} /\ <<>> \in Seq(Tab)
  OBVIOUS
<1>. QED  BY <1>1 DEF Good, RemoteTabs

LEMMA TabFields ==
    ASSUME NEW t \in Tab
    PROVE  /\ MaxTabIds \in Nat \ {0} /\ t.id \in Nat /\ t.id \in 0 .. MaxTabIds
           /\ t.kind \in {"untitled", "local", "remote", "settings"}
           /\ t.text \in Texts /\ t.base \in Texts
           /\ t.named \in BOOLEAN /\ t.modified \in BOOLEAN /\ t.large \in BOOLEAN
<1>1. MaxTabIds \in Nat \ {0}
  BY TextsAssumption
<1>2. t.id \in 0 .. MaxTabIds
  BY DEF Tab
<1>. QED  BY <1>1, <1>2 DEF Tab

LEMMA Appended ==
    ASSUME NEW ts, NEW n \in Nat, Good(ts, n), NEW t \in Tab, t.id = n
    PROVE  /\ Good(Append(ts, t), n + 1)
           /\ RemoteTabs(Append(ts, t)) =
                 RemoteTabs(ts) \cup IF t.kind = "remote" THEN {n} ELSE {}
<1>. DEFINE q == Append(ts, t)
            L == Len(ts)
<1>1. ts \in Seq(Tab) /\ L \in Nat /\ DOMAIN ts = 1 .. L
  BY DEF Good
<1>2. q \in Seq(Tab) /\ DOMAIN q = 1 .. (L + 1)
  BY <1>1
<1>3. q[L + 1] = t /\ \A i \in 1 .. L : q[i] = ts[i]
  BY <1>1
<1>4. /\ \A i : i \in 1 .. (L + 1) <=> i \in 1 .. L \/ i = L + 1
      /\ ~(L + 1 \in 1 .. L)
  BY <1>1
<1>. HIDE DEF q, L
<1>5. \A i \in 1 .. L : ts[i].id \in Nat /\ ts[i].id < n
  <2>1. \A i \in 1 .. L : ts[i] \in Tab
    BY <1>1
  <2>. QED  BY <1>1, <2>1, TabFields DEF Good
<1>6. \A i \in 1 .. (L + 1) : q[i].id < n + 1
  BY <1>3, <1>4, <1>5
<1>7. \A i, j \in 1 .. (L + 1) : q[i].id = q[j].id => i = j
  <2>1. \A i, j \in 1 .. L : ts[i].id = ts[j].id => i = j
    BY <1>1 DEF Good
  <2>2. \A i \in 1 .. L : ts[i].id # n
    BY <1>5
  <2>. QED  BY <1>3, <1>4, <2>1, <2>2
<1>8. RemoteTabs(q) = RemoteTabs(ts) \cup IF t.kind = "remote" THEN {n} ELSE {}
  BY <1>1, <1>2, <1>3, <1>4 DEF RemoteTabs
<1>. QED  BY <1>2, <1>6, <1>7, <1>8 DEF Good, q

\* A tab that is changed stays the tab it is.
LEMMA Changed ==
    ASSUME NEW ts, NEW n \in Nat, Good(ts, n), NEW q, NEW i \in DOMAIN ts,
           NEW u \in Tab, u.id = ts[i].id, u.kind = ts[i].kind \/ u.kind = "remote",
           q = [ts EXCEPT ![i] = u]
    PROVE  Good(q, n) /\ RemoteTabs(ts) \subseteq RemoteTabs(q)
<1>1. /\ ts \in Seq(Tab)
      /\ \A k, j \in DOMAIN ts : ts[k].id = ts[j].id => k = j
      /\ \A k \in DOMAIN ts : ts[k].id < n
  BY DEF Good
<1>2. q \in Seq(Tab) /\ DOMAIN q = DOMAIN ts
  BY <1>1
<1>3. \A k \in DOMAIN ts : q[k].id = ts[k].id
  BY <1>1
<1>4. \A k \in DOMAIN ts : ts[k].kind = "remote" => q[k].kind = "remote"
  BY <1>1
<1>. QED  BY <1>1, <1>2, <1>3, <1>4 DEF Good, RemoteTabs

\* Some of the tabs, in their order.
PartOf(q, ts, h) ==
    /\ q \in Seq(Tab) /\ h \in [DOMAIN q -> DOMAIN ts]
    /\ \A k, j \in DOMAIN q : h[k] = h[j] => k = j
    /\ \A k \in DOMAIN q : q[k] = ts[h[k]]

LEMMA Fewer ==
    ASSUME NEW ts, NEW n \in Nat, Good(ts, n), NEW q, NEW h, PartOf(q, ts, h)
    PROVE  Good(q, n)
<1>. USE DEF PartOf
<1>1. \A k, j \in DOMAIN ts : ts[k].id = ts[j].id => k = j
  BY DEF Good
<1>2. \A k, j \in DOMAIN q : q[k].id = q[j].id => k = j
  BY <1>1
<1>3. \A k \in DOMAIN q : q[k].id < n
  BY DEF Good
<1>. QED  BY <1>2, <1>3 DEF Good

LEMMA Fronts ==
    ASSUME NEW ts, NEW n \in Nat, Good(ts, n), ts # <<>>
    PROVE  /\ Good(Front(ts), n)
           /\ Last(ts).kind # "remote" => RemoteTabs(ts) \subseteq RemoteTabs(Front(ts))
<1>. DEFINE q == Front(ts)
            L == Len(ts)
            h == [k \in 1 .. (L - 1) |-> k]
<1>1. ts \in Seq(Tab) /\ L \in Nat \ {0} /\ DOMAIN ts = 1 .. L
  BY DEF Good
<1>2. q \in Seq(Tab) /\ DOMAIN q = 1 .. (L - 1) /\ \A k \in 1 .. (L - 1) : q[k] = ts[k]
  BY <1>1 DEF Front
<1>3. \A k : k \in 1 .. L <=> k \in 1 .. (L - 1) \/ k = L
  BY <1>1
<1>4. Last(ts) = ts[L]
  BY DEF Last
<1>. HIDE DEF q, L
<1>5. h \in [DOMAIN q -> DOMAIN ts] /\ \A k \in DOMAIN q : h[k] = k
  BY <1>1, <1>2, <1>3
<1>. HIDE DEF h
<1>6. Good(q, n)
  <2>1. \A k, j \in DOMAIN q : h[k] = h[j] => k = j
    BY <1>5
  <2>2. \A k \in DOMAIN q : q[k] = ts[h[k]]
    BY <1>2, <1>5
  <2>3. PartOf(q, ts, h)
    BY <1>2, <1>5, <2>1, <2>2 DEF PartOf
  <2>. QED  BY <2>3, Fewer
<1>7. Last(ts).kind # "remote" => RemoteTabs(ts) \subseteq RemoteTabs(q)
  BY <1>1, <1>2, <1>3, <1>4 DEF RemoteTabs
<1>. QED  BY <1>6, <1>7 DEF q

LEMMA Removed ==
    ASSUME NEW ts, NEW n \in Nat, Good(ts, n), NEW i \in DOMAIN ts
    PROVE  /\ Good(RemoveAt(ts, i), n)
           /\ RemoteTabs(ts) \ {ts[i].id} \subseteq RemoteTabs(RemoveAt(ts, i))
<1>. DEFINE q == RemoveAt(ts, i)
            L == Len(ts)
            h == [k \in 1 .. (L - 1) |-> IF k < i THEN k ELSE k + 1]
<1>1. ts \in Seq(Tab) /\ L \in Nat \ {0} /\ DOMAIN ts = 1 .. L /\ i \in 1 .. L
  BY DEF Good
<1>. DEFINE before == SubSeq(ts, 1, i - 1)
            after == SubSeq(ts, i + 1, L)
<1>10. q = before \o after
  BY DEF RemoveAt
<1>11. /\ before \in Seq(Tab) /\ Len(before) = i - 1
       /\ \A k \in 1 .. (i - 1) : before[k] = ts[k]
  <2>1. 1 \in 1 .. (L + 1) /\ i - 1 \in (1 - 1) .. L
    BY <1>1
  <2>. QED  BY <1>1, <2>1, SMTT(30)
<1>12. /\ after \in Seq(Tab) /\ Len(after) = L - i
       /\ \A k \in 1 .. (L - i) : after[k] = ts[i + k]
  BY <1>1
<1>. HIDE DEF q, L, before, after
<1>2. q \in Seq(Tab) /\ DOMAIN q = 1 .. (L - 1)
  BY <1>1, <1>10, <1>11, <1>12
<1>3. \A k \in 1 .. (L - 1) : q[k] = IF k < i THEN ts[k] ELSE ts[k + 1]
  <2>1. ASSUME NEW k \in 1 .. (L - 1), k < i PROVE q[k] = ts[k]
    BY <1>1, <1>10, <1>11, <1>12, <2>1
  <2>2. ASSUME NEW k \in 1 .. (L - 1), ~(k < i) PROVE q[k] = ts[k + 1]
    <3>1. k - (i - 1) \in 1 .. (L - i) /\ i + (k - (i - 1)) = k + 1
      BY <1>1, <2>2
    <3>2. k \in 1 .. (Len(before) + Len(after)) /\ ~(k <= Len(before))
      BY <1>1, <1>11, <1>12, <2>2
    <3>3. (before \o after)[k] = after[k - Len(before)]
      BY <1>11, <1>12, <3>2
    <3>. QED  BY <1>10, <1>11, <1>12, <3>1, <3>3
  <2>. QED  BY <2>1, <2>2
<1>4. \A k \in 1 .. (L - 1) : h[k] \in 1 .. L /\ q[k] = ts[h[k]]
  BY <1>1, <1>3
<1>5. \A k, j \in 1 .. (L - 1) : h[k] = h[j] => k = j
  BY <1>1
<1>6. \A k \in 1 .. L : k # i => \E j \in 1 .. (L - 1) : h[j] = k
  <2>. SUFFICES ASSUME NEW k \in 1 .. L, k # i
                PROVE  \E j \in 1 .. (L - 1) : h[j] = k
    OBVIOUS
  <2>1. CASE k < i
    <3>1. k \in 1 .. (L - 1) /\ h[k] = k
      BY <1>1, <2>1
    <3>. QED  BY <3>1
  <2>2. CASE k > i
    <3>1. k - 1 \in 1 .. (L - 1) /\ h[k - 1] = k
      BY <1>1, <2>2
    <3>. QED  BY <3>1
  <2>. QED  BY <1>1, <2>1, <2>2
<1>7. h \in [DOMAIN q -> DOMAIN ts]
  BY <1>1, <1>2, <1>4
<1>. HIDE DEF h
<1>8. Good(q, n)
  <2>1. \A k, j \in DOMAIN q : h[k] = h[j] => k = j
    BY <1>2, <1>5
  <2>2. \A k \in DOMAIN q : q[k] = ts[h[k]]
    BY <1>2, <1>4
  <2>3. PartOf(q, ts, h)
    BY <1>2, <1>7, <2>1, <2>2 DEF PartOf
  <2>. QED  BY <2>3, Fewer
<1>9. ASSUME NEW x \in RemoteTabs(ts) \ {ts[i].id} PROVE x \in RemoteTabs(q)
  <2>1. PICK k \in DOMAIN ts : ts[k].kind = "remote" /\ ts[k].id = x
    BY DEF RemoteTabs
  <2>2. k # i
    BY <2>1
  <2>3. PICK j \in 1 .. (L - 1) : h[j] = k
    BY <1>1, <1>6, <2>2
  <2>4. q[j] = ts[k]
    BY <1>4, <2>3
  <2>. QED  BY <1>2, <2>1, <2>4 DEF RemoteTabs
<1>. QED  BY <1>8, <1>9 DEF q

-----------------------------------------------------------------------------
(* What a save keeps of a tab. *)

FileTypes == file \in [exists : BOOLEAN, readable : BOOLEAN, text : Texts,
                       mtime : 1 .. MaxWrites]

StoredKinds == {"untitled", "local", "remote"}

IsState(s) ==
    /\ s = [id |-> s.id, meta |-> s.meta, content |-> s.content]
    /\ s.id \in 0 .. (MaxTabIds - 1)
    /\ s.meta.kind \in StoredKinds /\ s.meta.named \in BOOLEAN
    /\ s.content \in Texts \cup {NoText}
    /\ s.meta.kind = "untitled" => s.content # NoText

\* A tab whose text a save keeps, and the state that keeps it.
Unsaved(t) == persist /\ Differs(t) /\ Persisted(t) /\ ~TooLarge(t)

Keeps(s, t, time) ==
    /\ s.id = t.id /\ s.content = t.text /\ s.content # NoText
    /\ s.meta.kind = t.kind /\ s.meta.lastSaved \in {NoTime, time}

LEMMA StatesOfTabs ==
    ASSUME FileTypes, NEW t \in Tab, t.id < MaxTabIds, Persisted(t)
    PROVE  /\ IsState(TabState(t)) /\ TabState(t).id = t.id
           /\ Unsaved(t) => Keeps(TabState(t), t, file.mtime)
<1>. DEFINE s == TabState(t)
<1>1. /\ s = [id |-> s.id, meta |-> s.meta, content |-> s.content]
      /\ s.id = t.id /\ s.content = IF KeepsText(t) THEN t.text ELSE NoText
      /\ s.meta.kind = t.kind /\ s.meta.named = t.named
      /\ s.meta.lastSaved \in {NoTime, file.mtime}
  BY DEF TabState
<1>. HIDE DEF s
<1>2. t.kind \in StoredKinds
  BY TabFields DEF Persisted, IsEditor, StoredKinds
<1>3. t.text \in Texts /\ t.text # NoText /\ t.named \in BOOLEAN
  BY TabFields, TextsAssumption
<1>4. t.id \in 0 .. (MaxTabIds - 1)
  BY TabFields
<1>5. t.kind = "untitled" => KeepsText(t)
  BY DEF KeepsText
<1>6. IsState(s)
  BY <1>1, <1>2, <1>3, <1>4, <1>5 DEF IsState
<1>7. Unsaved(t) => KeepsText(t)
  BY DEF Unsaved, KeepsText
<1>8. Unsaved(t) => Keeps(s, t, file.mtime)
  BY <1>1, <1>3, <1>7 DEF Keeps
<1>. QED  BY <1>1, <1>6, <1>8 DEF s

\* A layout that describes a session: every tab whose text is kept is in it.
Describes(l, unsaved, time) ==
    /\ IsLayout(l)
    /\ \A s \in Range(l.tabs) : IsState(s)
    /\ \A t \in unsaved : Unsaved(t) => \E s \in Range(l.tabs) : Keeps(s, t, time)

LEMMA SnapshotsDescribe ==
    ASSUME FileTypes, NEW ts, NEW n \in 0 .. MaxTabIds, Good(ts, n), NEW id
    PROVE  LET w == Snapshot(ts, id)
           IN  \E l : /\ l.tabs = w.window.tabs /\ l.active = Active(w.window)
                      /\ Describes(l, w.session.unsaved, file.mtime)
<1>. DEFINE S == {t \in Range(ts) : Persisted(t)}
            kept == Only(ts, S)
            states == [i \in DOMAIN kept |-> TabState(kept[i])]
            w == Snapshot(ts, id)
            l == [tabs |-> states, active |-> Active(w.window)]
<1>1. ts \in Seq(Tab) /\ \A i, j \in DOMAIN ts : ts[i].id = ts[j].id => i = j
  BY DEF Good
<1>2. /\ kept \in Seq(Tab) /\ Range(kept) = Range(ts) \cap S
      /\ \A i, j \in DOMAIN kept : kept[i].id = kept[j].id => i = j
  BY <1>1, OnlyTheChosen
<1>3. /\ w.window.tabs = states
      /\ w.session.unsaved = {t \in Range(ts) : t.modified \/ Differs(t)}
  BY DEF Snapshot
<1>4. ASSUME NEW t \in Range(ts) PROVE t \in Tab /\ t.id < MaxTabIds
  <2>1. PICK i \in DOMAIN ts : ts[i] = t
    BY DEF Range
  <2>2. t \in Tab /\ t.id < n
    BY <1>1, <2>1 DEF Good
  <2>3. t.id \in Nat /\ MaxTabIds \in Nat
    BY <2>2, TabFields
  <2>. QED  BY <2>2, <2>3
<1>. HIDE DEF kept, S, w
<1>5. ASSUME NEW t \in S
      PROVE  /\ IsState(TabState(t)) /\ TabState(t).id = t.id
             /\ Unsaved(t) => Keeps(TabState(t), t, file.mtime)
  <2>1. t \in Tab /\ t.id < MaxTabIds /\ Persisted(t)
    BY <1>4 DEF S
  <2>. QED  BY <2>1, StatesOfTabs
<1>6. Len(kept) \in Nat /\ DOMAIN kept = 1 .. Len(kept)
  BY <1>2
<1>7. \A i \in DOMAIN kept : kept[i] \in S /\ states[i] = TabState(kept[i])
  BY <1>2 DEF Range
<1>8. /\ states \in Seq(Range(states))
      /\ Len(states) = Len(kept) /\ DOMAIN states = 1 .. Len(kept)
  BY <1>6 DEF Range
<1>. HIDE DEF states
<1>9. ASSUME NEW s \in Range(states) PROVE IsState(s)
  <2>1. PICK i \in DOMAIN states : states[i] = s
    BY DEF Range
  <2>. QED  BY <1>5, <1>6, <1>7, <1>8, <2>1
<1>10. \A i, j \in DOMAIN states : states[i].id = states[j].id => i = j
  BY <1>2, <1>5, <1>6, <1>7, <1>8
<1>11. Active(w.window) \in 0 .. Len(states)
  BY <1>3, <1>6, <1>8 DEF Active, NoActive
<1>12. IsLayout(l)
  <2>1. ASSUME NEW s \in Range(states)
        PROVE  s.id \in Nat /\ s = [id |-> s.id, meta |-> s.meta, content |-> s.content]
    <3>1. IsState(s)
      BY <1>9
    <3>2. MaxTabIds \in Nat \ {0}
      BY TextsAssumption
    <3>. QED  BY <3>1, <3>2 DEF IsState
  <2>. QED  BY <1>8, <1>10, <1>11, <2>1 DEF IsLayout
<1>13. ASSUME NEW t \in w.session.unsaved, Unsaved(t)
       PROVE  \E s \in Range(states) : Keeps(s, t, file.mtime)
  <2>1. t \in Range(ts) /\ Persisted(t)
    BY <1>3, <1>13 DEF Unsaved
  <2>2. t \in S
    BY <2>1 DEF S
  <2>3. t \in Range(kept)
    BY <1>2, <2>1, <2>2
  <2>4. PICK i \in DOMAIN kept : kept[i] = t
    BY <2>3 DEF Range
  <2>5. states[i] = TabState(t) /\ i \in DOMAIN states
    BY <1>6, <1>7, <1>8, <2>4
  <2>6. states[i] \in Range(states)
    BY <2>5 DEF Range
  <2>. QED  BY <1>5, <1>13, <2>2, <2>5, <2>6
<1>14. Describes(l, w.session.unsaved, file.mtime)
  BY <1>9, <1>12, <1>13 DEF Describes
<1>15. l.tabs = w.window.tabs /\ l.active = Active(w.window)
  BY <1>3
<1>. QED  BY <1>14, <1>15 DEF w

-----------------------------------------------------------------------------
(* What a restart makes of it. *)

\* What the constructors of tabs give.
IsMade(u, id, kind, text, modified) ==
    /\ u \in Tab /\ u.id = id /\ u.kind = kind /\ u.text = text
    /\ u.modified = modified

LEMMA OneFieldChanged ==
    ASSUME NEW t, NEW id, NEW kind, NEW text, NEW m, IsMade(t, id, kind, text, m)
    PROVE  /\ \A x \in {"untitled", "local", "remote", "settings"} :
                 IsMade([t EXCEPT !.kind = x], id, x, text, m)
           /\ \A x \in BOOLEAN : IsMade([t EXCEPT !.named = x], id, kind, text, m)
           /\ \A x \in Texts : IsMade([t EXCEPT !.text = x], id, kind, x, m)
           /\ \A x \in Texts : IsMade([t EXCEPT !.base = x], id, kind, text, m)
           /\ \A x \in BOOLEAN : IsMade([t EXCEPT !.modified = x], id, kind, text, x)
<1>1. \A x \in {"untitled", "local", "remote", "settings"} :
         IsMade([t EXCEPT !.kind = x], id, x, text, m)
  BY DEF IsMade, Tab
<1>2. \A x \in BOOLEAN : IsMade([t EXCEPT !.named = x], id, kind, text, m)
  BY DEF IsMade, Tab
<1>3. \A x \in Texts : IsMade([t EXCEPT !.text = x], id, kind, x, m)
  BY DEF IsMade, Tab
<1>4. \A x \in Texts : IsMade([t EXCEPT !.base = x], id, kind, text, m)
  BY DEF IsMade, Tab
<1>5. \A x \in BOOLEAN : IsMade([t EXCEPT !.modified = x], id, kind, text, x)
  BY DEF IsMade, Tab
<1>. QED  BY <1>1, <1>2, <1>3, <1>4, <1>5

LEMMA FilesAreTabs ==
    ASSUME NEW id \in 0 .. MaxTabIds, NEW text \in Texts, NEW m \in BOOLEAN
    PROVE  /\ IsMade(FromFile(id, text, m), id, "local", text, m)
           /\ IsMade(FromRemote(id, text, m), id, "remote", text, m)
<1>. DEFINE big == Large(text)
            t == FromFile(id, text, m)
<1>1. big \in BOOLEAN
  BY DEF Large
<1>2. t = [id |-> id, kind |-> "local", named |-> TRUE, text |-> text,
           base |-> text, modified |-> m, large |-> big]
  BY DEF FromFile
<1>. HIDE DEF big, t
<1>3. IsMade(t, id, "local", text, m)
  BY <1>1, <1>2 DEF IsMade, Tab
<1>4. IsMade([t EXCEPT !.kind = "remote"], id, "remote", text, m)
  BY <1>3, OneFieldChanged
<1>. QED  BY <1>3, <1>4 DEF FromRemote, t

LEMMA UntitledAreTabs ==
    ASSUME NEW id \in 0 .. MaxTabIds, NEW named \in BOOLEAN, NEW text \in Texts
    PROVE  /\ IsMade(Untitled(id, named), id, "untitled", EmptyText, FALSE)
           /\ IsMade([Untitled(id, named) EXCEPT !.text = text, !.modified = TRUE],
                     id, "untitled", text, TRUE)
           /\ IsMade(SettingsTab(id), id, "settings", EmptyText, FALSE)
<1>1. EmptyText \in Texts /\ TRUE \in BOOLEAN
  BY TextsAssumption
<1>2. \A name \in BOOLEAN :
         IsMade(Untitled(id, name), id, "untitled", EmptyText, FALSE)
  BY <1>1 DEF Untitled, IsMade, Tab
<1>. DEFINE t == Untitled(id, named)
            u == [t EXCEPT !.text = text]
<1>3. [t EXCEPT !.text = text, !.modified = TRUE] = [u EXCEPT !.modified = TRUE]
  OBVIOUS
<1>. HIDE DEF t
<1>4. IsMade(u, id, "untitled", text, FALSE)
  <2>1. IsMade(t, id, "untitled", EmptyText, FALSE)
    BY <1>2 DEF t
  <2>. QED  BY <2>1, OneFieldChanged
<1>. HIDE DEF u
<1>5. IsMade([u EXCEPT !.modified = TRUE], id, "untitled", text, TRUE)
  BY <1>1, <1>4, OneFieldChanged
<1>6. IsMade([Untitled(id, TRUE) EXCEPT !.kind = "settings"],
             id, "settings", EmptyText, FALSE)
  BY <1>1, <1>2, OneFieldChanged
<1>. QED  BY <1>2, <1>3, <1>5, <1>6 DEF SettingsTab, t

\* restore_tab_from_state: a state that is not skipped is restored as a new tab over
\* the text of the file, as the text that was kept, or as a remote file to be loaded.
FromDisk(s) ==
    /\ s.meta.kind = "local" /\ file.exists /\ file.readable
    /\ s.content = NoText \/ FileNewer(s)

Restored(u, s) ==
    \/ FromDisk(s) /\ IsMade(u, s.id, "local", file.text, FALSE)
    \/ \E kind \in StoredKinds : IsMade(u, s.id, kind, s.content, TRUE)
    \/ s.content = NoText /\ IsMade(u, s.id, "remote", EmptyText, FALSE)

LEMMA RestoredAs ==
    ASSUME FileTypes, NEW s, IsState(s), NotSkipped(s)
    PROVE  Restored(RestoredTab(s), s)
<1>. DEFINE u == RestoredTab(s)
            blank == [Untitled(s.id, s.meta.named) EXCEPT !.text = s.content,
                                                          !.modified = TRUE]
<1>1. /\ MaxTabIds \in Nat \ {0} /\ s.id \in 0 .. MaxTabIds
      /\ file.text \in Texts /\ EmptyText \in Texts
      /\ s.content # NoText => s.content \in Texts
      /\ s.meta.named \in BOOLEAN
  BY TextsAssumption DEF IsState, FileTypes
<1>2. CASE s.meta.kind = "remote"
  <2>1. RestoreStrategy(s) = "RestoreRemote"
    BY <1>2 DEF RestoreStrategy
  <2>2. u = IF s.content = NoText THEN FromRemote(s.id, EmptyText, FALSE)
            ELSE FromRemote(s.id, s.content, TRUE)
    BY <2>1 DEF RestoredTab
  <2>3. CASE s.content = NoText
    BY <1>1, <2>2, <2>3, FilesAreTabs DEF Restored
  <2>4. CASE s.content # NoText
    BY <1>1, <2>2, <2>4, FilesAreTabs DEF Restored, StoredKinds
  <2>. QED  BY <2>3, <2>4
<1>3. CASE RestoreStrategy(s) = "LoadFromFile" /\ FromDisk(s)
  <2>1. u = FromFile(s.id, file.text, FALSE)
    BY <1>3 DEF RestoredTab
  <2>2. IsMade(u, s.id, "local", file.text, FALSE)
    BY <1>1, <2>1, FilesAreTabs
  <2>. QED  BY <1>3, <2>2 DEF Restored
<1>4. CASE RestoreStrategy(s) = "UseSavedContentWithPath" /\ s.content # NoText
  <2>1. u = FromFile(s.id, s.content, TRUE)
    BY <1>4 DEF RestoredTab, SavedWithPath
  <2>. QED  BY <1>1, <1>4, <2>1, FilesAreTabs DEF Restored, StoredKinds
<1>5. CASE RestoreStrategy(s) = "UseSavedContentNoPath" /\ s.content # NoText
  <2>1. u = blank
    BY <1>5 DEF RestoredTab
  <2>2. IsMade(blank, s.id, "untitled", s.content, TRUE)
    BY <1>1, <1>5, UntitledAreTabs
  <2>. QED  BY <2>1, <2>2 DEF Restored, StoredKinds
<1>6. CASE s.meta.kind = "local"
  <2>1. CASE s.content # NoText
    <3>1. \/ RestoreStrategy(s) = "LoadFromFile" /\ FromDisk(s)
          \/ RestoreStrategy(s) = "UseSavedContentWithPath"
          \/ RestoreStrategy(s) = "UseSavedContentNoPath"
      BY <1>6, <2>1 DEF RestoreStrategy, FromDisk
    <3>. QED  BY <1>3, <1>4, <1>5, <2>1, <3>1
  <2>2. CASE s.content = NoText
    <3>1. \/ RestoreStrategy(s) = "LoadFromFile" /\ FromDisk(s)
          \/ RestoreStrategy(s) = "Skip"
      BY <1>6, <2>2 DEF RestoreStrategy, FromDisk
    <3>. QED  BY <1>3, <3>1 DEF NotSkipped
  <2>. QED  BY <2>1, <2>2
<1>7. CASE s.meta.kind = "untitled"
  <2>1. RestoreStrategy(s) = "UseSavedContentNoPath" /\ s.content # NoText
    BY <1>7 DEF RestoreStrategy, IsState
  <2>. QED  BY <1>5, <2>1
<1>. QED  BY <1>2, <1>6, <1>7 DEF IsState, StoredKinds

\* determine_tab_restore_strategy, for a text that was kept: it is shown again,
\* unless its file was changed since and is loaded.
Reappears(u, t, time) ==
    \/ u.text = t.text /\ u.modified
    \/ /\ t.kind = "local" /\ file.exists /\ file.readable /\ file.mtime > time
       /\ u.text = file.text

LEMMA KeptIsRestored ==
    ASSUME FileTypes, NEW s, IsState(s), NEW t, NEW time, Keeps(s, t, time)
    PROVE  NotSkipped(s) /\ Reappears(RestoredTab(s), t, time)
<1>1. /\ s.content = t.text /\ s.content # NoText
      /\ s.meta.kind = t.kind /\ s.meta.lastSaved \in {NoTime, time}
  BY DEF Keeps
<1>2. NotSkipped(s)
  <2>1. CASE s.meta.kind = "remote"
    BY <1>1, <2>1 DEF NotSkipped, RestoreStrategy
  <2>2. CASE s.meta.kind = "local"
    BY <1>1, <2>2 DEF NotSkipped, RestoreStrategy
  <2>3. CASE s.meta.kind = "untitled"
    BY <1>1, <2>3 DEF NotSkipped, RestoreStrategy
  <2>. QED  BY <2>1, <2>2, <2>3 DEF IsState, StoredKinds
<1>3. Restored(RestoredTab(s), s)
  BY <1>2, RestoredAs
<1>. DEFINE u == RestoredTab(s)
<1>. HIDE DEF u
<1>4. CASE FromDisk(s) /\ IsMade(u, s.id, "local", file.text, FALSE)
  <2>1. s.meta.lastSaved = time /\ file.mtime > time
    BY <1>1, <1>4 DEF FromDisk, FileNewer
  <2>2. u.text = file.text
    BY <1>4 DEF IsMade
  <2>. QED  BY <1>1, <1>2, <1>4, <2>1, <2>2 DEF FromDisk, Reappears, u
<1>5. CASE \E kind \in StoredKinds : IsMade(u, s.id, kind, s.content, TRUE)
  <2>1. u.text = t.text /\ u.modified
    BY <1>1, <1>5 DEF IsMade
  <2>. QED  BY <1>2, <2>1 DEF Reappears, u
<1>. QED  BY <1>1, <1>3, <1>4, <1>5 DEF Restored, u

\* A bounded set of numbers has a greatest one.
LEMMA HasMax ==
    ASSUME NEW S \in SUBSET Nat, S # {}, NEW n \in Nat, \A x \in S : x <= n
    PROVE  Max(S) \in S /\ \A x \in S : x <= Max(S)
<1>1. \E m \in S : \A x \in S : m >= x
  <2>. SUFFICES ASSUME \A m \in S : \E x \in S : ~(m >= x) PROVE FALSE
    OBVIOUS
  <2>. DEFINE M == {m \in Nat : \A x \in S : x + m <= n}
  <2>1. 0 \in M
    OBVIOUS
  <2>2. ASSUME NEW m \in M PROVE m + 1 \in M
    <3>. SUFFICES ASSUME NEW x \in S PROVE x + (m + 1) <= n
      OBVIOUS
    <3>1. PICK y \in S : ~(x >= y)
      OBVIOUS
    <3>2. y + m <= n
      OBVIOUS
    <3>. QED  BY <3>1, <3>2
  <2>3. M = Nat
    <3>. HIDE DEF M
    <3>1. M \subseteq Nat
      BY DEF M
    <3>. QED  BY <2>1, <2>2, <3>1, NatSet
  <2>4. PICK x \in S : TRUE
    OBVIOUS
  <2>5. n + 1 \in M
    <3>. HIDE DEF M
    <3>. QED  BY <2>3
  <2>6. x + (n + 1) <= n
    BY <2>5
  <2>. QED  BY <2>6
<1>. QED  BY <1>1 DEF Max

LEMMA MinOfTwo ==
    ASSUME NEW i \in Nat, NEW n \in Nat
    PROVE  Min({i, n}) \in {i, n} /\ Min({i, n}) <= i /\ Min({i, n}) <= n
<1>1. \E x \in {i, n} : \A y \in {i, n} : x <= y
  <2>1. CASE i <= n
    BY <2>1
  <2>2. CASE ~(i <= n)
    BY <2>2
  <2>. QED  BY <2>1, <2>2
<1>. QED  BY <1>1 DEF Min

-----------------------------------------------------------------------------
(* A restart gives back what was saved. *)

LEMMA TabsRestored ==
    ASSUME FileTypes, NEW l, NEW unsaved, NEW time, Describes(l, unsaved, time),
           NEW w, w.tabs = l.tabs
    PROVE  LET ts == RestoredTabs(w)
           IN  /\ Good(ts, MaxTabIds)
               /\ \A u \in Range(ts) : \E s : Restored(u, s)
               /\ \A t \in unsaved : Unsaved(t) =>
                     \E u \in Range(ts) : u.id = t.id /\ Reappears(u, t, time)
<1>. DEFINE S == {s \in Range(w.tabs) : NotSkipped(s)}
            states == Only(w.tabs, S)
            ts == RestoredTabs(w)
<1>1. ts = [i \in DOMAIN states |-> RestoredTab(states[i])]
  BY DEF RestoredTabs
<1>2. /\ w.tabs \in Seq(Range(w.tabs))
      /\ \A i, j \in DOMAIN w.tabs : w.tabs[i].id = w.tabs[j].id => i = j
      /\ \A s \in Range(w.tabs) : IsState(s)
  BY DEF Describes, IsLayout
<1>3. /\ states \in Seq(Range(w.tabs)) /\ Range(states) = Range(w.tabs) \cap S
      /\ \A i, j \in DOMAIN states : states[i].id = states[j].id => i = j
  <2>. DEFINE q == w.tabs
              T == Range(w.tabs)
  <2>1. q \in Seq(T) /\ \A i, j \in DOMAIN q : q[i].id = q[j].id => i = j
    BY <1>2
  <2>2. states = Only(q, S) /\ Range(q) = T
    OBVIOUS
  <2>. HIDE DEF q, S, states
  <2>3. /\ states \in Seq(T) /\ Range(states) = T \cap S
        /\ \A i, j \in DOMAIN states : states[i].id = states[j].id => i = j
    <3>. HIDE DEF T
    <3>. QED  BY <2>1, <2>2, OnlyTheChosen
  <2>. QED  BY <2>3
<1>. HIDE DEF states, ts
<1>4. Len(states) \in Nat /\ DOMAIN states = 1 .. Len(states)
  BY <1>3
<1>5. ASSUME NEW i \in DOMAIN states
      PROVE  IsState(states[i]) /\ Restored(ts[i], states[i])
  <2>1. states[i] \in Range(states)
    BY DEF Range
  <2>2. IsState(states[i]) /\ NotSkipped(states[i])
    BY <1>2, <1>3, <2>1
  <2>3. ts[i] = RestoredTab(states[i])
    BY <1>1
  <2>. QED  BY <2>2, <2>3, RestoredAs
<1>6. ASSUME NEW i \in DOMAIN states
      PROVE  ts[i] \in Tab /\ ts[i].id = states[i].id /\ ts[i].id < MaxTabIds
  <2>1. ts[i] \in Tab /\ ts[i].id = states[i].id
    BY <1>5 DEF Restored, IsMade
  <2>2. MaxTabIds \in Nat /\ states[i].id \in 0 .. (MaxTabIds - 1)
    BY <1>5, TextsAssumption DEF IsState
  <2>. QED  BY <2>1, <2>2
<1>7. ts \in Seq(Tab) /\ DOMAIN ts = DOMAIN states
  <2>1. ts = [i \in 1 .. Len(states) |-> ts[i]]
    BY <1>1, <1>4
  <2>. QED  BY <1>4, <1>6, <2>1
<1>8. Good(ts, MaxTabIds)
  BY <1>3, <1>6, <1>7 DEF Good
<1>9. \A u \in Range(ts) : \E s : Restored(u, s)
  BY <1>5, <1>7 DEF Range
<1>10. ASSUME NEW t \in unsaved, Unsaved(t)
       PROVE  \E u \in Range(ts) : u.id = t.id /\ Reappears(u, t, time)
  <2>1. PICK s \in Range(w.tabs) : Keeps(s, t, time)
    BY <1>10 DEF Describes
  <2>2. NotSkipped(s) /\ Reappears(RestoredTab(s), t, time)
    BY <1>2, <2>1, KeptIsRestored
  <2>3. s \in Range(states)
    BY <1>3, <2>2
  <2>4. PICK i \in DOMAIN states : states[i] = s
    BY <2>3 DEF Range
  <2>5. ts[i] = RestoredTab(s) /\ ts[i].id = t.id
    BY <1>1, <1>6, <2>1, <2>4 DEF Keeps
  <2>6. ts[i] \in Range(ts)
    BY <1>7 DEF Range
  <2>. QED  BY <2>2, <2>5, <2>6
<1>. QED  BY <1>8, <1>9, <1>10 DEF ts

-----------------------------------------------------------------------------
(* One window across restarts: the invariant. *)

\* The rows are those of the session that was saved last, or there are none.
SessionStored ==
    /\ AllRows(rows)
    /\ \/ WindowRows(rows) = {} /\ saved.unsaved = {}
       \/ /\ WindowRows(rows) = {PersistentWindowId}
          /\ \E l : /\ Stored(rows, PersistentWindowId, l)
                    /\ Describes(l, saved.unsaved, saved.mtime)

SessionTypes ==
    /\ program \in {"up", "down"} /\ persist \in BOOLEAN /\ FileTypes
    /\ nextTabId \in 0 .. MaxTabIds /\ active \in 0 .. MaxTabIds \cup {NoTab}

TabsInv == Good(tabs, nextTabId) /\ remote \subseteq RemoteTabs(tabs)

RestoreInv == SessionTypes /\ TabsInv /\ SessionStored

LEMMA RestoreTypesOfInv == RestoreInv => RestoreTypeOK
<1>. SUFFICES ASSUME RestoreInv PROVE RestoreTypeOK
  OBVIOUS
<1>1. tabs \in Seq(Tab) /\ \A i \in DOMAIN tabs : tabs[i] \in Tab
  BY DEF RestoreInv, TabsInv, Good
<1>2. remote \subseteq Ids
  BY DEF RestoreInv, TabsInv, RemoteTabs, Ids
<1>. QED  BY <1>1, <1>2 DEF RestoreInv, SessionTypes, RestoreTypeOK, FileTypes

LEMMA InitRestoreInv == RestoreInit => RestoreInv
<1>. SUFFICES ASSUME RestoreInit PROVE RestoreInv
  OBVIOUS
<1>1. MaxTabIds \in Nat \ {0} /\ MaxWrites \in Nat \ {0} /\ EmptyText \in Texts
  BY TextsAssumption
<1>2. Untitled(0, FALSE) \in Tab /\ Untitled(0, FALSE).id = 0
  <2>1. 0 \in 0 .. MaxTabIds /\ FALSE \in BOOLEAN
    BY <1>1
  <2>2. IsMade(Untitled(0, FALSE), 0, "untitled", EmptyText, FALSE)
    BY <1>1, <2>1, UntitledAreTabs
  <2>. QED  BY <2>2 DEF IsMade
<1>3. tabs = Append(<<>>, Untitled(0, FALSE)) /\ nextTabId = 0 + 1
  BY DEF RestoreInit
<1>4. Good(tabs, nextTabId)
  BY <1>2, <1>3, NoTabs, Appended
<1>5. WindowRows(rows) = {} /\ AllRows(rows) /\ saved.unsaved = {}
  BY DEF RestoreInit, EmptyDb, WindowRows, AllRows
<1>. QED  BY <1>1, <1>4, <1>5 DEF RestoreInit, RestoreInv, SessionTypes, FileTypes,
                                   TabsInv, SessionStored

LEMMA SessionStays ==
    ASSUME SessionStored, UNCHANGED <<rows, saved, persist>>
    PROVE  SessionStored'
BY DEF SessionStored, Describes, Unsaved, Persisted

\* save_state_async, save_state_blocking.
LEMMA SessionWritten ==
    ASSUME FileTypes, SessionStored, persist' = persist,
           NEW ts, NEW n \in 0 .. MaxTabIds, Good(ts, n), NEW id,
           Write(Snapshot(ts, id))
    PROVE  SessionStored'
<1>. DEFINE w == Snapshot(ts, id)
            win == w.window
<1>1. PICK l : /\ l.tabs = win.tabs /\ l.active = Active(win)
               /\ Describes(l, w.session.unsaved, file.mtime)
  BY SnapshotsDescribe
<1>2. /\ win.id = PersistentWindowId /\ w.session.mtime = file.mtime
  BY DEF Snapshot
<1>3. rows' = Apply(rows, <<win>>, {win.id}) /\ saved' = w.session
  BY <1>2 DEF Write
<1>. HIDE DEF w
<1>4. AllRows(rows) /\ WindowRows(rows) \subseteq {win.id} /\ IsLayout(l)
  BY <1>1, <1>2 DEF SessionStored, Describes
<1>5. /\ WindowRows(rows') = {win.id} /\ AllRows(rows')
      /\ Stored(rows', win.id, l)
  BY <1>1, <1>3, <1>4, SavesOne
<1>6. Describes(l, saved'.unsaved, saved'.mtime)
  BY <1>1, <1>2, <1>3
<1>7. Describes(l, saved'.unsaved, saved'.mtime) =>
         /\ IsLayout(l) /\ \A s \in Range(l.tabs) : IsState(s)
         /\ \A t \in saved'.unsaved :
               Unsaved(t)' => \E s \in Range(l.tabs) : Keeps(s, t, saved'.mtime)
  BY DEF Describes, Unsaved, Persisted
<1>. QED  BY <1>2, <1>5, <1>6, <1>7 DEF SessionStored, Describes

LEMMA SessionSaved ==
    ASSUME FileTypes, SessionStored, persist' = persist,
           NEW ts, NEW n \in 0 .. MaxTabIds, Good(ts, n), NEW id,
           SaveStateAsync(ts, id)
    PROVE  SessionStored'
<1>1. CASE Write(Snapshot(ts, id))
  BY <1>1, SessionWritten
<1>2. CASE UNCHANGED <<rows, saved>>
  BY <1>2, SessionStays
<1>. QED  BY <1>1, <1>2 DEF SaveStateAsync

-----------------------------------------------------------------------------
(* The steps of a program that is up. *)

\* new_tab, open_settings, and opening a file in the place of a blank tab.
LEMMA TabAdded ==
    ASSUME RestoreInv, NEW t \in Tab, t.id = nextTabId, AllocateTabId,
           tabs' = Append(tabs, t) \/ tabs' = Placed(t), active' = nextTabId,
           SaveStateAsync(tabs', active'),
           UNCHANGED <<program, remote, file, persist>>
    PROVE  RestoreInv'
<1>1. /\ MaxTabIds \in Nat /\ nextTabId \in Nat /\ nextTabId' = nextTabId + 1
      /\ nextTabId' \in 0 .. MaxTabIds /\ active' \in 0 .. MaxTabIds
  BY TextsAssumption DEF AllocateTabId, RestoreInv, SessionTypes
<1>2. Good(tabs, nextTabId) /\ remote \subseteq RemoteTabs(tabs)
  BY DEF RestoreInv, TabsInv
<1>3. \E ts : /\ tabs' = Append(ts, t) /\ Good(ts, nextTabId)
              /\ RemoteTabs(tabs) \subseteq RemoteTabs(ts)
  <2>1. CASE tabs' = Append(tabs, t)
    BY <1>2, <2>1
  <2>2. CASE tabs' # Append(tabs, t)
    <3>1. /\ tabs' = Append(Front(tabs), t) /\ tabs # <<>>
          /\ Last(tabs).kind = "untitled"
      BY <2>2 DEF Placed
    <3>. QED  BY <1>1, <1>2, <3>1, Fronts
  <2>. QED  BY <2>1, <2>2
<1>4. PICK ts : /\ tabs' = Append(ts, t) /\ Good(ts, nextTabId)
                /\ RemoteTabs(tabs) \subseteq RemoteTabs(ts)
  BY <1>3
<1>5. Good(tabs', nextTabId') /\ RemoteTabs(ts) \subseteq RemoteTabs(tabs')
  BY <1>1, <1>4, Appended
<1>6. SessionStored'
  BY <1>1, <1>5, SessionSaved DEF RestoreInv, SessionTypes
<1>. QED  BY <1>1, <1>2, <1>4, <1>5, <1>6
          DEF RestoreInv, SessionTypes, TabsInv, FileTypes, Good, RemoteTabs

\* A tab that is changed in place.
LEMMA TabChanged ==
    ASSUME RestoreInv, NEW i \in DOMAIN tabs, NEW u \in Tab, u.id = tabs[i].id,
           u.kind = tabs[i].kind \/ u.kind = "remote",
           tabs' = [tabs EXCEPT ![i] = u], nextTabId' = nextTabId
    PROVE  /\ Good(tabs', nextTabId') /\ nextTabId' \in 0 .. MaxTabIds
           /\ RemoteTabs(tabs) \subseteq RemoteTabs(tabs')
<1>1. nextTabId \in Nat /\ nextTabId' \in 0 .. MaxTabIds /\ Good(tabs, nextTabId)
  BY TextsAssumption DEF RestoreInv, SessionTypes, TabsInv
<1>. QED  BY <1>1, Changed

LEMMA TheTabs ==
    ASSUME RestoreInv
    PROVE  /\ Good(tabs, nextTabId) /\ remote \subseteq RemoteTabs(tabs)
           /\ Len(tabs) \in Nat /\ DOMAIN tabs = 1 .. Len(tabs)
           /\ nextTabId \in Nat /\ nextTabId \in 0 .. MaxTabIds
           /\ \A i \in DOMAIN tabs :
                 /\ tabs[i].id \in 0 .. MaxTabIds /\ tabs[i].text \in Texts
                 /\ IsMade(tabs[i], tabs[i].id, tabs[i].kind, tabs[i].text,
                           tabs[i].modified)
<1>1. Good(tabs, nextTabId) /\ remote \subseteq RemoteTabs(tabs)
  BY DEF RestoreInv, TabsInv
<1>2. tabs \in Seq(Tab)
  BY <1>1 DEF Good
<1>3. nextTabId \in Nat /\ nextTabId \in 0 .. MaxTabIds
  BY TextsAssumption DEF RestoreInv, SessionTypes
<1>4. Len(tabs) \in Nat /\ DOMAIN tabs = 1 .. Len(tabs)
  BY <1>2
<1>5. \A i \in DOMAIN tabs : tabs[i] \in Tab
  BY <1>2
<1>6. \A i \in DOMAIN tabs :
         tabs[i].id \in 0 .. MaxTabIds /\ tabs[i].text \in Texts
  BY <1>5, TabFields
<1>. QED  BY <1>1, <1>3, <1>4, <1>5, <1>6 DEF IsMade

LEMMA RenameTabStep ==
    ASSUME RestoreInv, RenameTab
    PROVE  RestoreInv'
<1>1. PICK i \in DOMAIN tabs : tabs' = [tabs EXCEPT ![i].named = TRUE]
  BY DEF RenameTab
<1>. DEFINE t == tabs[i]
            u == [t EXCEPT !.named = TRUE]
<1>2. tabs' = [tabs EXCEPT ![i] = u]
  BY <1>1
<1>3. IsMade(t, t.id, t.kind, t.text, t.modified)
  BY TheTabs
<1>. HIDE DEF t
<1>4. IsMade(u, t.id, t.kind, t.text, t.modified)
  BY <1>3, OneFieldChanged
<1>. HIDE DEF u
<1>5. /\ Good(tabs', nextTabId') /\ nextTabId' \in 0 .. MaxTabIds
      /\ RemoteTabs(tabs) \subseteq RemoteTabs(tabs')
  BY <1>2, <1>4, TabChanged DEF RenameTab, IsMade, t
<1>6. SessionStored'
  BY <1>5, SessionSaved DEF RestoreInv, SessionTypes, RenameTab
<1>. QED  BY <1>5, <1>6 DEF RestoreInv, SessionTypes, TabsInv, FileTypes, RenameTab,
                           Good, RemoteTabs

LEMMA EditStep ==
    ASSUME RestoreInv, Edit
    PROVE  RestoreInv'
<1>1. PICK i \in DOMAIN tabs, text \in Texts :
         tabs' = [tabs EXCEPT ![i].text = text,
                              ![i].modified = tabs[i].large \/ text # tabs[i].base]
  BY DEF Edit
<1>. DEFINE t == tabs[i]
            changed == t.large \/ text # t.base
            u == [t EXCEPT !.text = text]
            v == [u EXCEPT !.modified = changed]
<1>2. tabs' = [tabs EXCEPT ![i] = v]
  BY <1>1
<1>3. IsMade(t, t.id, t.kind, t.text, t.modified) /\ changed \in BOOLEAN
  <2>1. IsMade(t, t.id, t.kind, t.text, t.modified)
    BY TheTabs
  <2>2. changed \in BOOLEAN
    OBVIOUS
  <2>. QED  BY <2>1, <2>2
<1>. HIDE DEF t, changed
<1>4. IsMade(u, t.id, t.kind, text, t.modified)
  BY <1>3, OneFieldChanged
<1>. HIDE DEF u
<1>5. IsMade(v, t.id, t.kind, text, changed)
  <2>1. \A x \in BOOLEAN : IsMade([u EXCEPT !.modified = x], t.id, t.kind, text, x)
    BY <1>4 DEF IsMade, Tab
  <2>. QED  BY <1>3, <2>1, Zenon
<1>. HIDE DEF v
<1>6. /\ Good(tabs', nextTabId') /\ nextTabId' \in 0 .. MaxTabIds
      /\ RemoteTabs(tabs) \subseteq RemoteTabs(tabs')
  BY <1>2, <1>5, TabChanged DEF Edit, IsMade, t
<1>7. SessionStored'
  BY SessionStays DEF RestoreInv, Edit
<1>. QED  BY <1>6, <1>7 DEF RestoreInv, SessionTypes, TabsInv, FileTypes, Edit,
                           Good, RemoteTabs

LEMMA SaveFileStep ==
    ASSUME RestoreInv, SaveFile
    PROVE  RestoreInv'
<1>1. PICK i \in DOMAIN tabs :
         /\ file' = [exists |-> TRUE, readable |-> TRUE,
                     text |-> tabs[i].text, mtime |-> file.mtime + 1]
         /\ tabs' = [tabs EXCEPT ![i].base = tabs[i].text, ![i].modified = FALSE]
  BY DEF SaveFile
<1>. DEFINE t == tabs[i]
            u == [t EXCEPT !.base = t.text]
            v == [u EXCEPT !.modified = FALSE]
<1>2. tabs' = [tabs EXCEPT ![i] = v]
  BY <1>1
<1>3. IsMade(t, t.id, t.kind, t.text, t.modified) /\ t.text \in Texts
  BY TheTabs
<1>4. FileTypes'
  <2>1. FileTypes /\ file.mtime < MaxWrites /\ MaxWrites \in Nat
    BY TextsAssumption DEF SaveFile, RestoreInv, SessionTypes
  <2>2. file.mtime + 1 \in 1 .. MaxWrites
    BY <2>1 DEF FileTypes
  <2>. QED  BY <1>1, <1>3, <2>2 DEF FileTypes
<1>. HIDE DEF t
<1>5. IsMade(u, t.id, t.kind, t.text, t.modified)
  BY <1>3, OneFieldChanged
<1>. HIDE DEF u
<1>6. IsMade(v, t.id, t.kind, t.text, FALSE)
  BY <1>5, OneFieldChanged
<1>. HIDE DEF v
<1>7. /\ Good(tabs', nextTabId') /\ nextTabId' \in 0 .. MaxTabIds
      /\ RemoteTabs(tabs) \subseteq RemoteTabs(tabs')
  BY <1>2, <1>6, TabChanged DEF SaveFile, IsMade, t
<1>8. SessionStored'
  BY SessionStays DEF RestoreInv, SaveFile
<1>. QED  BY <1>4, <1>7, <1>8 DEF RestoreInv, SessionTypes, TabsInv, SaveFile,
                                 Good, RemoteTabs

LEMMA CloseTabStep ==
    ASSUME RestoreInv, CloseTab
    PROVE  RestoreInv'
<1>1. PICK i \in DOMAIN tabs :
         /\ tabs' = RemoveAt(tabs, i)
         /\ remote' = PendingWithout(tabs[i].id)
         /\ active' = IF active # tabs[i].id THEN active
                      ELSE IF tabs' = <<>> THEN NoTab
                      ELSE tabs'[Min({i, Len(tabs')})].id
  BY DEF CloseTab
<1>2. /\ Good(tabs', nextTabId') /\ nextTabId' \in 0 .. MaxTabIds
      /\ RemoteTabs(tabs) \ {tabs[i].id} \subseteq RemoteTabs(tabs')
  BY <1>1, TheTabs, Removed DEF CloseTab
<1>3. remote' \subseteq RemoteTabs(tabs')
  BY <1>1, <1>2, TheTabs DEF PendingWithout
<1>4. active' \in 0 .. MaxTabIds \cup {NoTab}
  <2>1. CASE active # tabs[i].id
    BY <1>1, <2>1 DEF RestoreInv, SessionTypes
  <2>2. CASE active = tabs[i].id /\ tabs' = <<>>
    BY <1>1, <2>2
  <2>3. CASE active = tabs[i].id /\ tabs' # <<>>
    <3>. DEFINE L == Len(tabs')
                m == Min({i, L})
    <3>1. tabs' \in Seq(Tab)
      BY <1>2 DEF Good
    <3>2. L \in Nat \ {0} /\ DOMAIN tabs' = 1 .. L
      BY <2>3, <3>1
    <3>3. i \in Nat \ {0}
      BY TheTabs
    <3>. HIDE DEF L
    <3>4. m \in {i, L} /\ m <= L
      BY <3>2, <3>3, MinOfTwo
    <3>. HIDE DEF m
    <3>5. m \in DOMAIN tabs'
      BY <3>2, <3>3, <3>4
    <3>6. tabs'[m] \in Tab
      BY <3>1, <3>5
    <3>7. active' = tabs'[m].id
      BY <1>1, <2>3 DEF m, L
    <3>. QED  BY <3>6, <3>7, TabFields
  <2>. QED  BY <2>1, <2>2, <2>3
<1>5. SessionStored'
  BY <1>2, SessionSaved DEF RestoreInv, SessionTypes, CloseTab
<1>. QED  BY <1>2, <1>3, <1>4, <1>5 DEF RestoreInv, SessionTypes, TabsInv, FileTypes,
                                       CloseTab, Good, RemoteTabs

LEMMA ActivateTabStep ==
    ASSUME RestoreInv, ActivateTab
    PROVE  RestoreInv'
<1>1. PICK i \in DOMAIN tabs :
         /\ active' = tabs[i].id
         /\ \/ /\ tabs' = [tabs EXCEPT ![i] = FromRemote(@.id, ServerText, FALSE)]
               /\ remote' = remote \ {tabs[i].id}
            \/ UNCHANGED <<tabs, remote>>
  BY DEF ActivateTab
<1>2. active' \in 0 .. MaxTabIds
  BY <1>1, TheTabs
<1>3. /\ Good(tabs', nextTabId') /\ nextTabId' \in 0 .. MaxTabIds
      /\ remote' \subseteq RemoteTabs(tabs')
  <2>1. CASE UNCHANGED <<tabs, remote>>
    BY <2>1, TheTabs DEF ActivateTab, Good, RemoteTabs
  <2>2. CASE /\ tabs' = [tabs EXCEPT ![i] = FromRemote(@.id, ServerText, FALSE)]
             /\ remote' = remote \ {tabs[i].id}
    <3>. DEFINE u == FromRemote(tabs[i].id, ServerText, FALSE)
    <3>1. tabs' = [tabs EXCEPT ![i] = u]
      BY <2>2
    <3>2. tabs[i].id \in 0 .. MaxTabIds /\ ServerText \in Texts /\ FALSE \in BOOLEAN
      BY TheTabs, TextsAssumption
    <3>3. IsMade(u, tabs[i].id, "remote", ServerText, FALSE)
      BY <3>2, FilesAreTabs
    <3>. HIDE DEF u
    <3>4. /\ Good(tabs', nextTabId') /\ nextTabId' \in 0 .. MaxTabIds
          /\ RemoteTabs(tabs) \subseteq RemoteTabs(tabs')
      BY <3>1, <3>3, TabChanged DEF ActivateTab, IsMade
    <3>. QED  BY <2>2, <3>4, TheTabs
  <2>. QED  BY <1>1, <2>1, <2>2
<1>4. SessionStored'
  BY SessionStays DEF RestoreInv, ActivateTab
<1>. QED  BY <1>2, <1>3, <1>4 DEF RestoreInv, SessionTypes, TabsInv, FileTypes,
                                 ActivateTab, Good, RemoteTabs

LEMMA StopStep ==
    ASSUME RestoreInv, Stop, SessionStored'
    PROVE  RestoreInv'
<1>1. MaxTabIds \in Nat \ {0} /\ 0 \in Nat /\ 0 \in 0 .. MaxTabIds
  BY TextsAssumption
<1>2. Good(tabs', nextTabId') /\ remote' = {}
  BY <1>1, NoTabs DEF Stop
<1>. QED  BY <1>1, <1>2 DEF Stop, RestoreInv, SessionTypes, TabsInv, FileTypes,
                           Good, RemoteTabs

LEMMA QuitStep ==
    ASSUME RestoreInv, Quit
    PROVE  RestoreInv'
<1>1. SessionStored'
  BY TheTabs, SessionWritten DEF Quit, Stop, RestoreInv, SessionTypes
<1>. QED  BY <1>1, StopStep DEF Quit

LEMMA KillProgramStep ==
    ASSUME RestoreInv, KillProgram
    PROVE  RestoreInv'
<1>1. SessionStored'
  BY SessionStays DEF KillProgram, Stop, RestoreInv
<1>. QED  BY <1>1, StopStep DEF KillProgram

LEMMA ChangeFileStep ==
    ASSUME RestoreInv, ChangeFile
    PROVE  RestoreInv'
<1>1. FileTypes /\ file.mtime < MaxWrites /\ MaxWrites \in Nat
  BY TextsAssumption DEF ChangeFile, RestoreInv, SessionTypes
<1>2. file.mtime + 1 \in 1 .. MaxWrites
  BY <1>1 DEF FileTypes
<1>3. FileTypes'
  <2>1. ASSUME NEW text \in Texts,
               file' = [exists |-> TRUE, readable |-> TRUE, text |-> text,
                        mtime |-> file.mtime + 1]
        PROVE  FileTypes'
    BY <1>2, <2>1 DEF FileTypes
  <2>2. ASSUME file' = [file EXCEPT !.exists = FALSE, !.mtime = @ + 1]
        PROVE  FileTypes'
    BY <1>1, <1>2, <2>2 DEF FileTypes
  <2>3. ASSUME file' = [file EXCEPT !.readable = FALSE, !.mtime = @ + 1]
        PROVE  FileTypes'
    BY <1>1, <1>2, <2>3 DEF FileTypes
  <2>. QED  BY <2>1, <2>2, <2>3 DEF ChangeFile
<1>4. SessionStored'
  BY SessionStays DEF RestoreInv, ChangeFile
<1>. QED  BY <1>3, <1>4 DEF RestoreInv, SessionTypes, TabsInv, ChangeFile,
                           Good, RemoteTabs

-----------------------------------------------------------------------------
(* load_state. *)

\* The tabs it restores, before it makes sure that there is one.
Reloaded ==
    LET windows == Load(rows)
    IN  IF windows = <<>> THEN <<>> ELSE RestoredTabs(windows[1])

LEMMA SessionLoaded ==
    ASSUME RestoreInv
    PROVE  /\ Good(Reloaded, MaxTabIds)
           /\ \A u \in Range(Reloaded) : \E s : Restored(u, s)
           /\ \A t \in saved.unsaved : Unsaved(t) =>
                 \E u \in Range(Reloaded) : u.id = t.id /\ Reappears(u, t, saved.mtime)
<1>1. MaxTabIds \in Nat
  BY TextsAssumption
<1>2. CASE WindowRows(rows) = {} /\ saved.unsaved = {}
  <2>1. Reloaded = <<>>
    BY <1>2, LoadsNothing DEF Reloaded
  <2>2. Range(Reloaded) = {}
    BY <2>1 DEF Range
  <2>. QED  BY <1>1, <1>2, <2>1, <2>2, NoTabs
<1>3. CASE WindowRows(rows) = {PersistentWindowId}
  <2>1. PICK l : /\ Stored(rows, PersistentWindowId, l)
                 /\ Describes(l, saved.unsaved, saved.mtime)
    BY <1>3 DEF RestoreInv, SessionStored
  <2>. DEFINE w == LoadWindow(rows, PersistentWindowId)
  <2>2. Reloaded = RestoredTabs(w)
    BY <1>3, LoadsOne DEF Reloaded
  <2>3. Layout(w) = l
    BY <2>1, Reads DEF Describes
  <2>. HIDE DEF w
  <2>4. w.tabs = l.tabs
    BY <2>3 DEF Layout
  <2>5. FileTypes
    BY DEF RestoreInv, SessionTypes
  <2>. QED  BY <2>1, <2>2, <2>4, <2>5, TabsRestored
<1>. QED  BY <1>2, <1>3 DEF RestoreInv, SessionStored

LEMMA LoadStateStep ==
    ASSUME RestoreInv, LoadState
    PROVE  RestoreInv'
<1>1. /\ MaxTabIds \in Nat \ {0} /\ 0 \in Nat /\ 0 \in 0 .. MaxTabIds
      /\ 1 \in 0 .. MaxTabIds /\ FALSE \in BOOLEAN /\ EmptyText \in Texts
  BY TextsAssumption
<1>2. /\ Good(tabs', nextTabId') /\ nextTabId' \in 0 .. MaxTabIds
      /\ remote' \subseteq RemoteTabs(tabs') /\ active' \in 0 .. MaxTabIds
  <2>1. CASE /\ tabs' = <<Untitled(0, FALSE)>>
             /\ active' = 0 /\ nextTabId' = 1 /\ remote' = {}
    <3>. DEFINE t == Untitled(0, FALSE)
    <3>1. IsMade(t, 0, "untitled", EmptyText, FALSE)
      BY <1>1, UntitledAreTabs
    <3>2. tabs' = Append(<<>>, t) /\ nextTabId' = 0 + 1
      BY <2>1
    <3>. HIDE DEF t
    <3>3. Good(tabs', nextTabId')
      BY <1>1, <3>1, <3>2, NoTabs, Appended DEF IsMade
    <3>. QED  BY <1>1, <2>1, <3>3
  <2>2. CASE /\ Reloaded # <<>> /\ tabs' = Reloaded
             /\ active' = RestoredActive(Load(rows)[1])
             /\ nextTabId' = NextTabId(Reloaded)
             /\ remote' = {t.id : t \in {u \in Range(Reloaded) : u.kind = "remote"}}
    <3>. DEFINE ts == Reloaded
                w == Load(rows)[1]
                ids == {ts[i].id : i \in DOMAIN ts}
    <3>1. Good(ts, MaxTabIds) /\ ts \in Seq(Tab)
      BY SessionLoaded DEF Good
    <3>2. ts = RestoredTabs(w)
      BY <2>2 DEF Reloaded
    <3>3. nextTabId' = Max(ids) + 1
      BY <2>2 DEF NextTabId
    <3>4. active' = IF w.active \in DOMAIN ts THEN ts[w.active].id ELSE ts[1].id
      BY <2>2, <3>2 DEF RestoredActive
    <3>5. ts # <<>> /\ tabs' = ts
      BY <2>2
    <3>6. remote' \subseteq RemoteTabs(ts)
      BY <2>2 DEF RemoteTabs, Range
    <3>. HIDE DEF ts, w
    <3>7. 1 \in DOMAIN ts
      BY <3>1, <3>5
    <3>8. \A i \in DOMAIN ts :
             /\ ts[i].id \in Nat /\ ts[i].id \in 0 .. MaxTabIds /\ ts[i].id < MaxTabIds
      <4>1. \A i \in DOMAIN ts : ts[i] \in Tab
        BY <3>1
      <4>. QED  BY <3>1, <4>1, TabFields DEF Good
    <3>9. ids \in SUBSET Nat /\ ids # {} /\ \A x \in ids : x <= MaxTabIds - 1
      BY <1>1, <3>7, <3>8
    <3>10. \A i \in DOMAIN ts : ts[i].id \in ids
      OBVIOUS
    <3>. HIDE DEF ids
    <3>11. Max(ids) \in ids /\ \A x \in ids : x <= Max(ids)
      <4>1. MaxTabIds - 1 \in Nat
        BY <1>1
      <4>. QED  BY <3>9, <4>1, HasMax
    <3>12. nextTabId' \in 0 .. MaxTabIds /\ \A i \in DOMAIN ts : ts[i].id < nextTabId'
      <4>. DEFINE m == Max(ids)
      <4>1. nextTabId' = m + 1 /\ m \in ids /\ \A x \in ids : x <= m
        BY <3>3, <3>11
      <4>. HIDE DEF m
      <4>2. m \in Nat /\ m <= MaxTabIds - 1
        BY <3>9, <4>1
      <4>3. ASSUME NEW i \in DOMAIN ts PROVE ts[i].id < nextTabId'
        <5>1. ts[i].id <= m
          BY <3>10, <4>1
        <5>. QED  BY <3>8, <4>1, <4>2, <5>1
      <4>. QED  BY <1>1, <4>1, <4>2, <4>3
    <3>13. Good(tabs', nextTabId')
      BY <3>1, <3>5, <3>12 DEF Good
    <3>14. active' \in 0 .. MaxTabIds
      BY <3>4, <3>7, <3>8
    <3>. QED  BY <3>5, <3>6, <3>12, <3>13, <3>14
  <2>. QED  BY <2>1, <2>2 DEF LoadState, Reloaded
<1>3. SessionStored'
  BY SessionStays DEF RestoreInv, LoadState
<1>. QED  BY <1>2, <1>3 DEF RestoreInv, SessionTypes, TabsInv, FileTypes, LoadState,
                           Good, RemoteTabs

LEMMA RestoreStep ==
    ASSUME RestoreInv, [RestoreNext]_restoreVars
    PROVE  RestoreInv'
<1>1. nextTabId \in 0 .. MaxTabIds /\ FALSE \in BOOLEAN
  BY DEF RestoreInv, SessionTypes
<1>2. CASE NewTab
  <2>1. IsMade(Untitled(nextTabId, FALSE), nextTabId, "untitled", EmptyText, FALSE)
    BY <1>1, UntitledAreTabs, TextsAssumption
  <2>. QED  BY <1>2, <2>1, TabAdded DEF NewTab, IsMade
<1>3. CASE OpenSettings
  <2>1. IsMade(SettingsTab(nextTabId), nextTabId, "settings", EmptyText, FALSE)
    BY <1>1, UntitledAreTabs, TextsAssumption
  <2>. QED  BY <1>3, <2>1, TabAdded DEF OpenSettings, IsMade
<1>4. CASE OpenFile(FromFile(nextTabId, file.text, FALSE))
  <2>1. file.text \in Texts
    BY DEF RestoreInv, SessionTypes, FileTypes
  <2>2. IsMade(FromFile(nextTabId, file.text, FALSE), nextTabId, "local", file.text, FALSE)
    BY <1>1, <2>1, FilesAreTabs
  <2>. QED  BY <1>4, <2>2, TabAdded DEF OpenFile, IsMade
<1>5. CASE OpenFile(FromRemote(nextTabId, ServerText, FALSE))
  <2>1. IsMade(FromRemote(nextTabId, ServerText, FALSE), nextTabId, "remote",
               ServerText, FALSE)
    BY <1>1, FilesAreTabs, TextsAssumption
  <2>. QED  BY <1>5, <2>1, TabAdded DEF OpenFile, IsMade
<1>6. CASE UNCHANGED restoreVars
  BY <1>6, SessionStays DEF restoreVars, RestoreInv, SessionTypes, TabsInv, FileTypes,
                            Good, RemoteTabs
<1>. QED  BY <1>2, <1>3, <1>4, <1>5, <1>6, RenameTabStep, EditStep, SaveFileStep,
             CloseTabStep, ActivateTabStep, QuitStep, KillProgramStep, ChangeFileStep,
             LoadStateStep DEF RestoreNext

\* Every reachable state keeps the invariant: the tabs that are open, and those of
\* the session in the database, are tabs with identities of their own.
THEOREM RestoreInvariance == RestoreSpec => []RestoreInv
<1>1. RestoreInv /\ [RestoreNext]_restoreVars => RestoreInv'
  BY RestoreStep
<1>. QED  BY <1>1, InitRestoreInv, PTL DEF RestoreSpec

\* Type correctness of one window across restarts.
THEOREM RestoreTypeCorrect == RestoreSpec => []RestoreTypeOK
<1>. QED  BY RestoreInvariance, RestoreTypesOfInv, PTL

\* build_tab_states and restore_tab_from_state: the unsaved text that a save kept is
\* shown after the restart, unless its file was changed since.
THEOREM UnsavedIsRestored == RestoreSpec => UnsavedTextRestored
<1>. DEFINE A == LoadState => \A t \in saved.unsaved :
               (persist /\ Differs(t) /\ Persisted(t) /\ ~TooLarge(t))
                 => \/ ShowsSaved(t)
                    \/ /\ FileReplaces(t)
                       /\ \E u \in Range(tabs') : u.id = t.id /\ u.text = file.text
<1>1. ASSUME RestoreInv PROVE A
  <2>. SUFFICES ASSUME LoadState, NEW t \in saved.unsaved, Unsaved(t)
                PROVE  \/ ShowsSaved(t)
                       \/ /\ FileReplaces(t)
                          /\ \E u \in Range(tabs') : u.id = t.id /\ u.text = file.text
    BY DEF Unsaved
  <2>1. PICK u \in Range(Reloaded) : u.id = t.id /\ Reappears(u, t, saved.mtime)
    BY <1>1, SessionLoaded
  <2>2. tabs' = Reloaded
    <3>1. Reloaded # <<>>
      BY <2>1 DEF Range
    <3>. QED  BY <3>1 DEF LoadState, Reloaded
  <2>. QED  BY <2>1, <2>2 DEF Reappears, ShowsSaved, FileReplaces
<1>2. RestoreInv /\ [RestoreNext]_restoreVars => [A]_restoreVars
  BY <1>1
<1>. QED  BY <1>2, RestoreInvariance, PTL DEF RestoreSpec, UnsavedTextRestored

\* restore_tab_from_state: a local tab is restored unmodified only with the text that
\* its file has.
THEOREM CleanShowsTheFile == RestoreSpec => CleanTabsShowTheFile
<1>. DEFINE A == LoadState => \A u \in Range(tabs') :
               (u.kind = "local" /\ ~u.modified) => u.text = file.text
<1>1. ASSUME RestoreInv PROVE A
  <2>. SUFFICES ASSUME LoadState, NEW u \in Range(tabs'), u.kind = "local", ~u.modified
                PROVE  u.text = file.text
    OBVIOUS
  <2>1. CASE tabs' = <<Untitled(0, FALSE)>>
    <3>1. \A i \in DOMAIN tabs' : tabs'[i] = Untitled(0, FALSE)
      <4>. DEFINE t == Untitled(0, FALSE)
      <4>1. tabs' = <<t>>
        BY <2>1
      <4>. HIDE DEF t
      <4>2. \A i \in DOMAIN tabs' : tabs'[i] = t
        BY <4>1
      <4>. QED  BY <4>2 DEF t
    <3>2. u = Untitled(0, FALSE)
      BY <3>1 DEF Range
    <3>. QED  BY <3>2 DEF Untitled
  <2>2. CASE tabs' = Reloaded
    <3>1. PICK s : Restored(u, s)
      BY <1>1, <2>2, SessionLoaded
    <3>. QED  BY <3>1 DEF Restored, IsMade
  <2>. QED  BY <2>1, <2>2 DEF LoadState, Reloaded
<1>2. RestoreInv /\ [RestoreNext]_restoreVars => [A]_restoreVars
  BY <1>1
<1>. QED  BY <1>2, RestoreInvariance, PTL DEF RestoreSpec, CleanTabsShowTheFile

-----------------------------------------------------------------------------
(* The parts together. *)

\* A step of one part leaves the others alone, so the whole keeps what each promises.
LEMMA EachPart == Spec => DbSpec /\ ConfigSpec /\ RestoreSpec
<1>1. Init => DbInit /\ ConfigInit /\ RestoreInit
  BY DEF Init
<1>2. [Next]_vars => [DbNext]_dbVars
  BY DEF Next, vars, dbVars
<1>3. [Next]_vars => [ConfigNext]_configVars
  BY DEF Next, vars
<1>4. [Next]_vars => [RestoreNext]_restoreVars
  BY DEF Next, vars
<1>. QED  BY <1>1, <1>2, <1>3, <1>4, PTL DEF Spec, DbSpec, ConfigSpec, RestoreSpec

\* Theorem: the six properties hold of every behaviour of the processes of one user
\* on the database and on the other files, and of a window across restarts.
THEOREM UserFilesKept ==
    Spec => /\ SavedIsRestored /\ SaveDeletesClosed
            /\ []LegacyImportedOnce /\ []ShownIsStored
            /\ UnsavedTextRestored /\ CleanTabsShowTheFile
<1>. QED  BY EachPart, SavesAreRestored, ClosedAreDeleted, ImportedOnce, StoredIsShown,
             UnsavedIsRestored, CleanShowsTheFile, Zenon
=============================================================================
